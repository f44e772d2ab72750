----------------------------- MODULE WebSessions -----------------------------
(***************************************************************************)
(* The web sessions of the RPC web server: the SessionsManager             *)
(* (src/RPC/mdz_xrpc_webserver/sessionsmanager.cpp), its garbage collector *)
(* thread (src/Threads/mdz_thr_threads/garbagecollector.cpp) and the       *)
(* request handlers that open, use and destroy sessions                    *)
(* (src/RPC/mdz_xrpc_webserver/webclienthandler.cpp).                      *)
(*                                                                         *)
(* A handler serves one request: it opens the session its client names,    *)
(* acts on it, releases it, and destroys it if the request asked so.  The  *)
(* sessions live in a Threads::Safe::Map whose operations are atomic here  *)
(* but for destroyElement, which takes the element out of reach (Mark) and *)
(* then waits for its readers (Delete): what SafeMap shows of the map.     *)
(* An open that is followed by a release with only a read in between is    *)
(* one step (destroySession, gc).                                          *)
(*                                                                         *)
(* Time is abstract: a session not used for a while becomes expired, and   *)
(* activity makes it fresh again.  What a password check answers is        *)
(* nondeterministic, and so is whether a CSRF token is right.              *)
(***************************************************************************)
EXTENDS Naturals, FiniteSets

CONSTANTS
  Users,
  Ids,          \* session ids, in the order of their creation used once each
  Requests,     \* handler threads
  MaxSessions,  \* maxSessionsPerUser
  UsingCSRF,    \* usingCSRFToken
  Modes,        \* what the clients ask for
  MaxReaders,   \* bound of the readers of one session
  NoId, NoUser

AllModes == {"LOGIN", "POSTLOGIN", "EXEC", "TESTPASSWD", "AUTHCSRF", "AUTHINFO", "LOGOUT"}

ASSUME WebSessionsAssumption ==
  /\ MaxSessions \in Nat \ {0}
  /\ MaxReaders \in Nat \ {0}
  /\ UsingCSRF \in BOOLEAN
  /\ Modes \subseteq AllModes
  /\ IsFiniteSet(Ids) /\ IsFiniteSet(Requests) /\ Ids \cap Requests = {}
  /\ NoId \notin Ids
  /\ NoUser \notin Users

VARIABLES
  state,      \* of an id: not yet in the map, in it, being destroyed, gone
  readers,    \* readers of its element
  owner,      \* getUserDomainPair() of its authentication session
  expired,    \* isLastActivityExpired(sessionExpirationTime)
  confirmed,  \* bAuthTokenConfirmed
  full,       \* getIsFullyLoggedIn(CHECK_ALLOW_EXPIRED_PASSWORDS)
  count,      \* sessionPerUser
  pc,         \* where a handler is; first, the mode of its request
  sid,        \* sSessionId
  web,        \* the session behind webSession and authSession (bReleaseSessionHandler
              \* is set with it)
  destroy,    \* bDestroySession
  user,       \* the account a handler is logging in, or whose session it destroys
  gcPc, gcTodo, gcKey

sessionVars == <<state, readers, owner, expired, confirmed, full>>
handlerVars == <<pc, sid, web, destroy, user>>
gcVars == <<gcPc, gcTodo, gcKey>>
vars == <<sessionVars, count, handlerVars, gcVars>>

InMap(id) == id # NoId /\ state[id] \in {"live", "dying"}
Live(id) == id # NoId /\ state[id] = "live"
Confirmed(id) == id # NoId /\ confirmed[id]
Goto(r, place) == pc' = [pc EXCEPT ![r] = place]

\* The element and its authentication session are deleted.
Delete(id) ==
  /\ state' = [state EXCEPT ![id] = "dead"]
  /\ owner' = [owner EXCEPT ![id] = NoUser]
  /\ expired' = [expired EXCEPT ![id] = FALSE]
  /\ confirmed' = [confirmed EXCEPT ![id] = FALSE]
  /\ full' = [full EXCEPT ![id] = FALSE]

\* The request is answered and its handler deleted.
Finish(r) ==
  /\ Goto(r, "done")
  /\ sid' = [sid EXCEPT ![r] = NoId]
  /\ web' = [web EXCEPT ![r] = NoId]
  /\ destroy' = [destroy EXCEPT ![r] = FALSE]
  /\ user' = [user EXCEPT ![r] = NoUser]

Init ==
  /\ state = [id \in Ids |-> "none"]
  /\ readers = [id \in Ids |-> 0]
  /\ owner = [id \in Ids |-> NoUser]
  /\ expired = [id \in Ids |-> FALSE]
  /\ confirmed = [id \in Ids |-> FALSE]
  /\ full = [id \in Ids |-> FALSE]
  /\ count = [u \in Users |-> 0]
  /\ pc = [r \in Requests |-> "done"]
  /\ sid = [r \in Requests |-> NoId]
  /\ web = [r \in Requests |-> NoId]
  /\ destroy = [r \in Requests |-> FALSE]
  /\ user = [r \in Requests |-> NoUser]
  /\ gcPc = "wait"
  /\ gcTodo = {}
  /\ gcKey = NoId

-----------------------------------------------------------------------------
(* A request. *)

\* sessionOpen: the client names a session it was given, or none.
Start(r, m, id) ==
  /\ pc[r] = "done"
  /\ Live(id) => readers[id] < MaxReaders
  /\ sid' = [sid EXCEPT ![r] = IF Live(id) THEN id ELSE NoId]
  /\ web' = [web EXCEPT ![r] = IF Live(id) THEN id ELSE NoId]
  /\ readers' = IF Live(id) THEN [readers EXCEPT ![id] = @ + 1] ELSE readers
  /\ Goto(r, m)
  /\ UNCHANGED <<state, owner, expired, confirmed, full, count, destroy, user, gcVars>>

\* The request's mode and the session's state let it act.
MayAct(r) ==
  \/ pc[r] = "LOGIN" /\ web[r] = NoId
  \/ pc[r] = "AUTHCSRF" /\ UsingCSRF /\ web[r] # NoId /\ ~Confirmed(web[r])
  \/ pc[r] = "POSTLOGIN" /\ Confirmed(web[r])
  \/ pc[r] = "TESTPASSWD" /\ Confirmed(web[r]) /\ full[web[r]]
  \/ pc[r] \in {"EXEC", "LOGOUT"} /\ web[r] # NoId /\ (UsingCSRF => Confirmed(web[r]))

\* Nothing to do, or a wrong CSRF token.
Refused(r) ==
  /\ pc[r] \in AllModes
  /\ ~MayAct(r) \/ UsingCSRF
  /\ Goto(r, "sessionRelease")
  /\ UNCHANGED <<sessionVars, count, sid, web, destroy, user, gcVars>>

Acting(r, m) == pc[r] = m /\ MayAct(r)

\* confirmAuthCSRFToken stores the result of the comparison.
ConfirmToken(r) ==
  /\ Acting(r, "AUTHCSRF")
  /\ \E right \in BOOLEAN : confirmed' = [confirmed EXCEPT ![web[r]] = right]
  /\ Goto(r, "sessionRelease")
  /\ UNCHANGED <<state, readers, owner, expired, full, count, sid, web, destroy, user, gcVars>>

\* EXEC and CSRFTOKEN update the session's last activity.
Exec(r) ==
  /\ Acting(r, "EXEC")
  /\ expired' = [expired EXCEPT ![web[r]] = FALSE]
  /\ Goto(r, "sessionRelease")
  /\ UNCHANGED <<state, readers, owner, confirmed, full, count, sid, web, destroy, user, gcVars>>

Logout(r) ==
  /\ Acting(r, "LOGOUT")
  /\ destroy' = [destroy EXCEPT ![r] = TRUE]
  /\ Goto(r, "sessionRelease")
  /\ UNCHANGED <<sessionVars, count, sid, web, user, gcVars>>

\* TESTPASSWD and CHPASSWD destroy the session if the password is wrong.
TestPassword(r) ==
  /\ Acting(r, "TESTPASSWD")
  /\ \E right \in BOOLEAN : destroy' = [destroy EXCEPT ![r] = ~right]
  /\ Goto(r, "sessionRelease")
  /\ UNCHANGED <<sessionVars, count, sid, web, user, gcVars>>

\* A further factor is right: it is registered, and may have been the last one.
PostLogin(r) ==
  /\ Acting(r, "POSTLOGIN")
  /\ expired' = [expired EXCEPT ![web[r]] = FALSE]
  /\ \E last \in BOOLEAN : full' = [full EXCEPT ![web[r]] = @ \/ last]
  /\ Goto(r, "sessionRelease")
  /\ UNCHANGED <<state, readers, owner, confirmed, count, sid, web, destroy, user, gcVars>>

\* A further factor is wrong: persistentAuthentication returns no session id.
PostLoginFails(r) ==
  /\ Acting(r, "POSTLOGIN")
  /\ sid' = [sid EXCEPT ![r] = NoId]
  /\ destroy' = [destroy EXCEPT ![r] = TRUE]
  /\ Goto(r, "sessionRelease")
  /\ UNCHANGED <<sessionVars, count, web, user, gcVars>>

-----------------------------------------------------------------------------
(* The first login, createWebSession. *)

Unused == {id \in Ids : state[id] = "none"}
Adding == {r \in Requests : pc[r] = "add"}

\* (Mutant) The session is counted when it is in the map, not before.
ReserveLater(r, u) ==
  /\ Acting(r, "LOGIN")
  /\ Cardinality(Adding) < Cardinality(Unused)
  /\ IF count[u] >= MaxSessions
     THEN /\ Goto(r, "sessionRelease")
          /\ UNCHANGED <<count, user>>
     ELSE /\ user' = [user EXCEPT ![r] = u]
          /\ Goto(r, "add")
          /\ UNCHANGED count
  /\ UNCHANGED <<sessionVars, sid, web, destroy, gcVars>>

\* The password is right.  Under the mutex: the limit, and the count.
Reserve(r, u) ==
  /\ Acting(r, "LOGIN")
  /\ Cardinality(Adding) < Cardinality(Unused)   \* bound: an id for every login
  /\ IF count[u] >= MaxSessions
     THEN /\ Goto(r, "sessionRelease")
          /\ UNCHANGED <<count, user>>
     ELSE /\ count' = [count EXCEPT ![u] = @ + 1]
          /\ user' = [user EXCEPT ![r] = u]
          /\ Goto(r, "add")
  /\ UNCHANGED <<sessionVars, sid, web, destroy, gcVars>>

LoginFails(r) ==
  /\ Acting(r, "LOGIN")
  /\ Goto(r, "sessionRelease")
  /\ UNCHANGED <<sessionVars, count, sid, web, destroy, user, gcVars>>

\* addElement, under a new random id.
Add(r, id) ==
  /\ pc[r] = "add"
  /\ state' = [state EXCEPT ![id] = "live"]
  /\ owner' = [owner EXCEPT ![id] = user[r]]
  /\ \E single \in BOOLEAN : full' = [full EXCEPT ![id] = single]
  /\ sid' = [sid EXCEPT ![r] = id]
  /\ user' = [user EXCEPT ![r] = NoUser]
  /\ Goto(r, "loginOpen")
  /\ UNCHANGED <<readers, expired, confirmed, count, web, destroy, gcVars>>

\* The login opens the new session to read its tokens and required factors ...
LoginOpen(r) ==
  /\ pc[r] = "loginOpen"
  /\ IF Live(sid[r])
     THEN /\ readers' = [readers EXCEPT ![sid[r]] = @ + 1]
          /\ Goto(r, "loginRelease")
     ELSE /\ Goto(r, "sessionRelease")
          /\ UNCHANGED readers
  /\ UNCHANGED <<state, owner, expired, confirmed, full, count, sid, web, destroy, user, gcVars>>

LoginRelease(r) ==
  /\ pc[r] = "loginRelease"
  /\ readers' = [readers EXCEPT ![sid[r]] = @ - 1]
  /\ Goto(r, "sessionRelease")
  /\ UNCHANGED <<state, owner, expired, confirmed, full, count, sid, web, destroy, user, gcVars>>

-----------------------------------------------------------------------------
(* The end of every request. *)

\* sessionRelease: releaseSession of sSessionId, if a session was opened.
SessionRelease(r) ==
  /\ pc[r] = "sessionRelease"
  /\ readers' = IF web[r] # NoId /\ InMap(sid[r])
                THEN [readers EXCEPT ![sid[r]] = @ - 1]
                ELSE readers
  /\ Goto(r, "sessionDestroy")
  /\ UNCHANGED <<state, owner, expired, confirmed, full, count, sid, web, destroy, user, gcVars>>

\* sessionDestroy: a log line naming authSession, and destroySession, which finds
\* the session and its account.
SessionDestroy(r) ==
  /\ pc[r] = "sessionDestroy"
  /\ IF destroy[r] /\ Live(sid[r])
     THEN /\ user' = [user EXCEPT ![r] = owner[sid[r]]]
          /\ Goto(r, "destroyMark")
          /\ UNCHANGED <<sid, web, destroy>>
     ELSE Finish(r)
  /\ UNCHANGED <<sessionVars, count, gcVars>>

\* (Mutant) A destroyer that comes second goes on like the first.
DestroyMarkTwice(r) ==
  /\ pc[r] = "destroyMark"
  /\ state' = [state EXCEPT ![sid[r]] = "dying"]
  /\ Goto(r, "destroyDelete")
  /\ UNCHANGED <<readers, owner, expired, confirmed, full, count, sid, web, destroy, user, gcVars>>

\* destroyElement: another destroyer may have been first.
DestroyMark(r) ==
  /\ pc[r] = "destroyMark"
  /\ IF Live(sid[r])
     THEN /\ state' = [state EXCEPT ![sid[r]] = "dying"]
          /\ Goto(r, "destroyDelete")
          /\ UNCHANGED <<sid, web, destroy, user>>
     ELSE /\ Finish(r)
          /\ UNCHANGED state
  /\ UNCHANGED <<readers, owner, expired, confirmed, full, count, gcVars>>

\* (Mutant) The element is deleted under its readers.
DestroyDeleteAtOnce(r) ==
  /\ pc[r] = "destroyDelete"
  /\ Delete(sid[r])
  /\ Goto(r, "destroyCount")
  /\ UNCHANGED <<readers, count, sid, web, destroy, user, gcVars>>

DestroyDelete(r) ==
  /\ pc[r] = "destroyDelete"
  /\ readers[sid[r]] = 0
  /\ Delete(sid[r])
  /\ Goto(r, "destroyCount")
  /\ UNCHANGED <<readers, count, sid, web, destroy, user, gcVars>>

\* Throws if the account has no count.
DestroyCount(r) ==
  /\ pc[r] = "destroyCount"
  /\ count[user[r]] > 0
  /\ count' = [count EXCEPT ![user[r]] = @ - 1]
  /\ Finish(r)
  /\ UNCHANGED <<sessionVars, gcVars>>

-----------------------------------------------------------------------------
(* The garbage collector's thread, gc. *)

GcStart ==
  /\ gcPc = "wait"
  /\ gcTodo' = {id \in Ids : InMap(id)}
  /\ gcTodo' # {}
  /\ gcPc' = "scan"
  /\ UNCHANGED <<sessionVars, count, handlerVars, gcKey>>

AfterKey(rest) == IF rest = {} THEN "wait" ELSE "scan"

\* (Mutant) The test is the wrong way round.
GcVisitInverted(id) ==
  /\ gcPc = "scan"
  /\ IF Live(id) /\ ~expired[id]
     THEN /\ gcPc' = "mark"
          /\ gcKey' = id
          /\ UNCHANGED gcTodo
     ELSE /\ gcTodo' = gcTodo \ {id}
          /\ gcPc' = AfterKey(gcTodo')
          /\ UNCHANGED gcKey
  /\ UNCHANGED <<sessionVars, count, handlerVars>>

\* Opened, found expired or not, released.
GcVisit(id) ==
  /\ gcPc = "scan"
  /\ IF Live(id) /\ expired[id]
     THEN /\ gcPc' = "mark"
          /\ gcKey' = id
          /\ UNCHANGED gcTodo
     ELSE /\ gcTodo' = gcTodo \ {id}
          /\ gcPc' = AfterKey(gcTodo')
          /\ UNCHANGED gcKey
  /\ UNCHANGED <<sessionVars, count, handlerVars>>

GcDone(id) ==
  /\ gcTodo' = gcTodo \ {id}
  /\ gcPc' = AfterKey(gcTodo')
  /\ gcKey' = NoId

\* destroyElement, whatever happened to the session since it was found expired.
GcMark ==
  /\ gcPc = "mark"
  /\ IF Live(gcKey)
     THEN /\ state' = [state EXCEPT ![gcKey] = "dying"]
          /\ gcPc' = "delete"
          /\ UNCHANGED <<gcTodo, gcKey>>
     ELSE /\ GcDone(gcKey)
          /\ UNCHANGED state
  /\ UNCHANGED <<readers, owner, expired, confirmed, full, count, handlerVars>>

\* The account's count stays as it is.
GcDelete ==
  /\ gcPc = "delete"
  /\ readers[gcKey] = 0
  /\ Delete(gcKey)
  /\ GcDone(gcKey)
  /\ UNCHANGED <<readers, count, handlerVars>>

-----------------------------------------------------------------------------
Expire(id) ==
  /\ state[id] = "live"
  /\ ~expired[id]
  /\ expired' = [expired EXCEPT ![id] = TRUE]
  /\ UNCHANGED <<state, readers, owner, confirmed, full, count, handlerVars, gcVars>>

RequestStep(r) ==
  \/ Refused(r)
  \/ ConfirmToken(r) \/ Exec(r) \/ Logout(r) \/ TestPassword(r)
  \/ PostLogin(r) \/ PostLoginFails(r)
  \/ LoginFails(r)
  \/ \E u \in Users : Reserve(r, u)
  \/ Unused # {} /\ Add(r, CHOOSE id \in Unused : TRUE)
  \/ LoginOpen(r) \/ LoginRelease(r)
  \/ SessionRelease(r) \/ SessionDestroy(r)
  \/ DestroyMark(r) \/ DestroyDelete(r) \/ DestroyCount(r)

GcStep ==
  \/ GcStart
  \/ \E id \in gcTodo : GcVisit(id)
  \/ GcMark
  \/ GcDelete

Next ==
  \/ \E r \in Requests, m \in Modes, id \in {i \in Ids : state[i] # "none"} \cup {NoId} : Start(r, m, id)
  \/ \E r \in Requests : RequestStep(r)
  \/ GcStep
  \/ \E id \in Ids : Expire(id)

Spec == Init /\ [][Next]_vars

\* Handlers and the collector are threads that run.  Clients need not send
\* requests, and sessions need not expire.
FairSpec ==
  /\ Spec
  /\ \A r \in Requests : WF_vars(RequestStep(r))
  /\ WF_vars(GcStep)

-----------------------------------------------------------------------------
TypeOK ==
  /\ state \in [Ids -> {"none", "live", "dying", "dead"}]
  /\ readers \in [Ids -> Nat]
  /\ owner \in [Ids -> Users \cup {NoUser}]
  /\ expired \in [Ids -> BOOLEAN]
  /\ confirmed \in [Ids -> BOOLEAN]
  /\ full \in [Ids -> BOOLEAN]
  /\ count \in [Users -> 0..MaxSessions]
  /\ pc \in [Requests -> AllModes \cup {"done", "add", "loginOpen", "loginRelease", "sessionRelease",
                                       "sessionDestroy", "destroyMark", "destroyDelete",
                                       "destroyCount"}]
  /\ sid \in [Requests -> Ids \cup {NoId}]
  /\ web \in [Requests -> Ids \cup {NoId}]
  /\ destroy \in [Requests -> BOOLEAN]
  /\ user \in [Requests -> Users \cup {NoUser}]
  /\ gcPc \in {"wait", "scan", "mark", "delete"}
  /\ gcTodo \subseteq Ids
  /\ gcKey \in Ids \cup {NoId}

\* The sessions a handler has a pointer into, between its open and its release.
Uses(r) ==
  {id \in Ids : \/ web[r] = id /\ pc[r] \in AllModes \cup {"sessionRelease"}
                \/ sid[r] = id /\ pc[r] = "loginRelease"}

\* While a handler works on a session nobody deletes it: not another request's
\* logout, not the collector.
SessionOutlivesRequest == \A r \in Requests : \A id \in Uses(r) : InMap(id) /\ readers[id] > 0

SessionsOf(u) ==
  {id \in Ids : owner[id] = u /\ InMap(id)}
    \cup {r \in Requests : user[r] = u /\ pc[r] \in {"add", "destroyCount"}}

\* sessionPerUser covers every session of the account, those about to enter the
\* map and those just taken out of it included: destroySession never comes upon an
\* account it does not know ("Unregistered Session??") and the account never has
\* more sessions than the limit.
CountCoversSessions == \A u \in Users : Cardinality(SessionsOf(u)) <= count[u]

\* A reader nobody releases: a wrong further factor left it (see
\* BadFactorEndsSession).
Abandoned(id) == readers[id] > Cardinality({r \in Requests : id \in Uses(r)})

\* Every request is answered, no handler waits for ever for a session's readers,
\* itself included, unless an abandoned reader is in its way.
RequestReturns ==
  \A r \in Requests :
    pc[r] # "done" ~> pc[r] = "done" \/ \E id \in Ids : sid[r] = id /\ Abandoned(id)

\* An expired session goes, or is used again, with the same exception, which
\* stops the collector as a whole.
ExpiredIsCollected ==
  \A id \in Ids :
    Live(id) /\ expired[id] ~> state[id] = "dead" \/ ~expired[id] \/ \E i \in Ids : Abandoned(i)

\* Both: requests and sessions come to their end.
AllEnd == RequestReturns /\ ExpiredIsCollected

\* What POSTLOGIN says of a wrong further factor: "Logged out", and the session is
\* marked to be destroyed.  When a request that marked its session ends, the
\* session cannot be opened any more.
BadFactorEndsSession ==
  [][\A r \in Requests :
       pc'[r] = "done" /\ destroy[r] /\ web[r] # NoId => state'[web[r]] # "live"]_vars

\* openSession gives the session together with a read lock.  A handler uses the
\* authentication session in it only while it has the lock.
LogsLiveSession ==
  \A r \in Requests : pc[r] = "sessionDestroy" /\ destroy[r] /\ web[r] # NoId => state[web[r]] # "dead"

\* The limit is one of sessions: an account without sessions has none counted.
LimitCountsSessions == \A u \in Users : SessionsOf(u) = {} => count[u] = 0
=============================================================================
