-------------------------------- MODULE Methods --------------------------------
(***************************************************************************)
(* The methods of the RPC web server and what a caller must have proved to *)
(* have one run: the methods manager and its map of attributes             *)
(* (src/RPC/mdz_xrpc_common), the factors that an authentication session   *)
(* holds (src/Auth/mdz_auth/session), and the handler's EXEC, logins and   *)
(* changes of a password (src/RPC/mdz_xrpc_webserver/webclienthandler).    *)
(*                                                                         *)
(* One account and its session; what a password check answers is anything. *)
(* EXEC is taken apart where it lets go of its locks: while one handler    *)
(* checks what a method asks for, and until it runs it, the account, the   *)
(* session and the time go on.                                             *)
(***************************************************************************)
EXTENDS Naturals

CONSTANTS
    Handlers,           \* of requests
    Indexes,            \* of the factors: 0 is the main password
    Attribs,
    Table,              \* by method that may be added: [attribs, full]
    AttribIndexes,      \* by attribute: the factors it asks for
    RequireAll,         \* requireAllMethodsToBeAuthenticated
    Required,           \* the account's factors that a login asks for
    ValidTime,          \* by factor: how long it is valid, 0 for ever
    Expiring,           \* the factors whose secret may have expired
    MaxTime             \* bound of the time

ASSUME MethodsAssumption ==
    /\ 0 \in Indexes /\ Required \subseteq Indexes
    /\ AttribIndexes \in [Attribs -> SUBSET Indexes]
    /\ ValidTime \in [Indexes -> Nat] /\ MaxTime \in Nat /\ RequireAll \in BOOLEAN
    /\ \A m \in DOMAIN Table : Table[m].attribs \subseteq Attribs /\ Table[m].full \in BOOLEAN

VARIABLES
    methods,    \* those added
    rights,     \* the account's: [super, attribs]
    clock,
    factors,    \* authMatrix, by factor: [reason, at]; authPolicies is ValidTime
    hasSession,       \* there is a session
    proofs,     \* by factor: what the latest right password of this session was, [reason, at]
    exec,       \* by handler: the EXEC it is in
    ran,        \* the method that the last step ran, and by what right
    crashed     \* a null session was read

mvars == <<methods, rights, clock, factors, hasSession, proofs, exec, ran, crashed>>

Fine == {"AUTHENTICATED", "EXPIRED_PASSWORD"}
Reasons == Fine \cup {"BAD_PASSWORD"}
NoFactors == [i \in Indexes |-> [reason |-> "NONE", at |-> 0]]
NotRun == [method |-> "none", extra |-> {}, super |-> FALSE, had |-> {}, held |-> {}]

\* extra: the factors given with the request; factors, attribs: those still to be found.
\* Kept for the properties, since the request began: super, had: the rights its account
\* has had; held: the factors that were valid in its session, <<index, reason>>.
NoExec == [stage |-> "idle", method |-> "none", extra |-> {}, factors |-> {}, attribs |-> {},
           super |-> FALSE, had |-> {}, held |-> {}]

MethodsInit ==
    /\ methods = {} /\ rights = [super |-> FALSE, attribs |-> {}] /\ clock = 0
    /\ factors = NoFactors /\ hasSession = FALSE
    /\ proofs = NoFactors /\ exec = [h \in Handlers |-> NoExec] /\ ran = NotRun /\ crashed = FALSE

Stands(h, stage) == exec[h].stage = stage

(***************************************************************************)
(* The session.                                                            *)
(***************************************************************************)
getIdxAuthenticationStatus(i) ==
    IF factors[i].reason \in Fine /\ ValidTime[i] > 0 /\ factors[i].at + ValidTime[i] < clock THEN "EXPIRED" ELSE factors[i].reason

getIsFullyLoggedIn(reasons) ==
    Required # {} /\ \A i \in Required : getIdxAuthenticationStatus(i) \in reasons

registerPersistentAuthentication(i, reason) ==
    /\ factors' = [factors EXCEPT ![i] = [reason |-> reason, at |-> clock]]
    /\ proofs' = [proofs EXCEPT ![i] = [reason |-> reason, at |-> clock]]
    /\ exec' = [h \in Handlers |-> IF Stands(h, "idle") THEN exec[h]
                                   ELSE [exec[h] EXCEPT !.held = @ \cup {<<i, reason>>}]]
    /\ hasSession' = TRUE
    /\ UNCHANGED <<methods, rights, clock, crashed>>

\* A logout, a session that expires, or a wrong password: a session is deleted when
\* its readers are gone (WebSessions).
Destroy ==
    /\ hasSession /\ \A h \in Handlers : Stands(h, "idle")
    /\ hasSession' = FALSE /\ factors' = NoFactors /\ proofs' = NoFactors
    /\ UNCHANGED <<methods, rights, clock, exec, crashed>>

\* Only the main password makes a session, and a wrong one ends it.
persistentAuthentication(i, reason) ==
    /\ ~hasSession => i = 0 /\ reason \in Fine
    /\ reason = "EXPIRED_PASSWORD" => i \in Expiring
    /\ IF reason \in Fine THEN registerPersistentAuthentication(i, reason) ELSE Destroy

\* The right old password changes the stored secret, and nothing in the session.
ChangePassword(reason) ==
    /\ hasSession /\ getIsFullyLoggedIn(Fine)
    /\ reason \notin Fine /\ Destroy

(***************************************************************************)
(* The methods.                                                            *)
(***************************************************************************)
\* The table is read under its lock until a method is validated.
Validating(h) == Stands(h, "super") \/ (Stands(h, "left") /\ (exec[h].factors # {} \/ exec[h].attribs # {}))
addRPCMethod(m) ==
    /\ m \notin methods /\ \A h \in Handlers : ~Validating(h)
    /\ methods' = methods \cup {m}
    /\ UNCHANGED <<rights, clock, factors, hasSession, proofs, exec, crashed>>

\* Every attribute asks for the main password; so may every method.
getMethodPassIndexes(m) ==
    (UNION {AttribIndexes[a] \cup {0} : a \in Table[m].attribs}) \cup (IF RequireAll THEN {0} ELSE {})

(***************************************************************************)
(* EXEC.                                                                   *)
(***************************************************************************)
InExec(h, e) == exec' = [exec EXCEPT ![h] = e] /\ UNCHANGED <<methods, rights, clock, factors, hasSession, proofs, crashed>>

\* Of the passwords given: a right one, no longer ago than it is valid.
StillValid(i) == proofs[i].reason \in Fine /\ (ValidTime[i] = 0 \/ clock <= proofs[i].at + ValidTime[i])

procJAPI_Exec(h, m) ==
    /\ Stands(h, "idle") /\ hasSession
    /\ InExec(h, [NoExec EXCEPT !.stage = "extra", !.method = m, !.super = rights.super, !.had = rights.attribs,
                                !.held = {<<i, proofs[i].reason>> : i \in {j \in Indexes : StillValid(j)}}])

\* The factors that came with the request were tried by then, each by itself: the right
\* ones count for it alone.
validateRPCMethodPerms(h, extra) ==
    LET m == exec[h].method IN
    /\ Stands(h, "extra")
    /\ InExec(h, IF m \in methods /\ (Table[m].full => getIsFullyLoggedIn({"AUTHENTICATED"}))
                 THEN [exec[h] EXCEPT !.stage = "super", !.extra = extra] ELSE NoExec)

isAccountSuperUser(h) ==
    /\ Stands(h, "super")
    /\ InExec(h, [exec[h] EXCEPT !.stage = "left",
                               !.factors = IF rights.super THEN {} ELSE getMethodPassIndexes(exec[h].method),
                               !.attribs = IF rights.super THEN {} ELSE Table[exec[h].method].attribs])

\* (Mutant) A factor that was once right is right for ever.
ProvidesForEver(h, i) == i \in exec[h].extra \/ factors[i].reason \in Fine

Provides(h, i) == i \in exec[h].extra \/ getIdxAuthenticationStatus(i) \in Fine

\* One after another; with one that is missing the others are of no account.
validateFactor(h, i) ==
    /\ Stands(h, "left") /\ i \in exec[h].factors
    /\ InExec(h, IF Provides(h, i) THEN [exec[h] EXCEPT !.factors = @ \ {i}] ELSE NoExec)
validateAttribute(h, a) ==
    /\ Stands(h, "left") /\ exec[h].factors = {} /\ a \in exec[h].attribs
    /\ InExec(h, IF a \in rights.attribs THEN [exec[h] EXCEPT !.attribs = @ \ {a}] ELSE NoExec)

runRPCMethod(h) ==
    /\ Stands(h, "left") /\ exec[h].factors = {} /\ exec[h].attribs = {}
    /\ ran' = [method |-> exec[h].method, extra |-> exec[h].extra,
               super |-> exec[h].super, had |-> exec[h].had, held |-> exec[h].held]
    /\ InExec(h, NoExec)

\* A method that needs no full session is validated without one: its user is asked.
ExecWithoutSession(m) ==
    /\ ~hasSession /\ m \in methods /\ ~Table[m].full
    /\ crashed' = TRUE
    /\ UNCHANGED <<methods, rights, clock, factors, hasSession, proofs, exec>>

(***************************************************************************)
(* Meanwhile.                                                              *)
(***************************************************************************)
ChangeRights(super, attribs) ==
    /\ rights' = [super |-> super, attribs |-> attribs]
    /\ exec' = [h \in Handlers |->
                  IF Stands(h, "idle") THEN exec[h]
                  ELSE [exec[h] EXCEPT !.had = @ \cup attribs, !.super = @ \/ super]]
    /\ UNCHANGED <<methods, clock, factors, hasSession, proofs, crashed>>
Tick ==
    /\ clock < MaxTime /\ clock' = clock + 1
    /\ UNCHANGED <<methods, rights, factors, hasSession, proofs, exec, crashed>>

ExecGoesOn(h) ==
    \/ \E m \in DOMAIN Table : procJAPI_Exec(h, m)
    \/ \E extra \in SUBSET Indexes : validateRPCMethodPerms(h, extra)
    \/ isAccountSuperUser(h)
    \/ \E i \in Indexes : validateFactor(h, i)
    \/ \E a \in Attribs : validateAttribute(h, a)

Quiet ==
    \/ \E i \in Indexes, reason \in Reasons : persistentAuthentication(i, reason)
    \/ \E reason \in Reasons : ChangePassword(reason)
    \/ Destroy
    \/ \E m \in DOMAIN Table : addRPCMethod(m)
    \/ \E m \in DOMAIN Table : ExecWithoutSession(m)
    \/ \E super \in BOOLEAN, attribs \in SUBSET Attribs : ChangeRights(super, attribs)
    \/ Tick

MethodsNext ==
    /\ ~crashed
    /\ \/ (Quiet \/ \E h \in Handlers : ExecGoesOn(h)) /\ ran' = NotRun
       \/ \E h \in Handlers : runRPCMethod(h)

MethodsSpec == MethodsInit /\ [][MethodsNext]_mvars

(***************************************************************************)
(* Properties.                                                             *)
(***************************************************************************)
\* A right password of the factor was valid in the session while the request went on.
Held(held, i, reasons) == \E reason \in reasons : <<i, reason>> \in held

\* What a method asks for is looked at in several steps and it runs after them: rights
\* may be gone by then, and factors expired.  But each of them was there at some time
\* of the request: a method was run for who was a super user, or had each attribute it
\* asks for, with a right password of each factor that its attributes, or the server,
\* ask for, given with the request or still valid in it; one that needs a full session,
\* with every factor of the login still valid and no password expired.
RanByRight ==
    ran.method # "none" =>
        /\ ran.super \/ /\ Table[ran.method].attribs \subseteq ran.had
                        /\ \A a \in Table[ran.method].attribs, i \in Indexes :
                               i \in AttribIndexes[a] \cup {0} => i \in ran.extra \/ Held(ran.held, i, Fine)
                        /\ RequireAll => 0 \in ran.extra \/ Held(ran.held, 0, Fine)
        /\ Table[ran.method].full => \A i \in Required : Held(ran.held, i, {"AUTHENTICATED"})

\* A caller without a session is answered, as the handler's comments have it.
NullSessionsAreAnswered == ~crashed
===============================================================================
