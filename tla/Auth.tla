-------------------------------- MODULE Auth ---------------------------------
(***************************************************************************)
(* Logins and the remote administration of the directory: clients that     *)
(* authenticate (Manager::authenticate), hold a Session, and call the      *)
(* methods of the FullAuth template through MethodsManager.                *)
(*                                                                         *)
(* The lock of the manager is taken for each of its methods, not for a     *)
(* call: an attempt reads the counters in one section and writes them in   *)
(* another, a method is validated in one and runs in others.  Each section *)
(* is a step here, and clients interleave between them.                    *)
(***************************************************************************)
EXTENDS AuthStore

CONSTANTS
    Clients,         \* connections that log in and call methods, each in turn
    Users,           \* names of accounts
    Admin,           \* the account initAccounts creates
    Staff,           \* accounts the program sets up besides, with the right to write
    Apps, DirApp,    \* names of applications; the directory's own
    Rights,          \* names of attributes
    Write,           \* the right the methods that change the directory require
    Groups,          \* names of groups
    Indexes,         \* indexes of passwords
    FirstTries,      \* the limit of attempts at the start
    TriesSettings,   \* what the program may set it to
    MaxLogins,       \* bound: attempts to log in
    MaxCalls         \* bound: calls that change the directory

ASSUME AuthAssumption ==
    /\ IsFiniteSet(Clients) /\ Clients # {}
    /\ Admin \in Users /\ Staff \subseteq Users \ {Admin} /\ DirApp \in Apps
    /\ Write \in Rights /\ Groups # {} /\ 0 \in Indexes /\ Indexes \subseteq Nat
    /\ TriesSettings \subseteq Nat \ {0, 1} /\ FirstTries \in TriesSettings
    /\ MaxLogins \in Nat /\ MaxCalls \in Nat

VARIABLES
    db,         \* the database
    maxTries,   \* bAuthPolicyMaxTries
    session,    \* by client: the session it holds
    task,       \* by client: what is left of the call it is in
    logins,     \* attempts to log in so far
    calls       \* calls that change the directory so far

vars == <<db, maxTries, session, task, logins, calls>>

Attribs == [app : Apps, attrib : Rights]
AccountFlags == [superuser : BOOLEAN, enabled : BOOLEAN, confirmed : BOOLEAN]
AllFlags == [superuser |-> TRUE, enabled |-> TRUE, confirmed |-> TRUE]

(***************************************************************************)
(* Session: the state of the password indexes, and the account.            *)
(***************************************************************************)
Authenticated == {"AUTHENTICATED", "EXPIRED_PASSWORD"}
NoSession == [user |-> "", status |-> [i \in Indexes |-> "NONE"], needed |-> {}]

registerPersistentAuthentication(s, u, i, reason) ==
    [s EXCEPT !.status[i] = reason,
              !.user = IF i = 0 /\ reason \in Authenticated THEN u ELSE @]

getIsFullyLoggedIn(s) ==
    s.needed # {} /\ \A i \in s.needed : s.status[i] = "AUTHENTICATED"

(***************************************************************************)
(* MethodsManager and MethodsAttributes_Map: a superuser may call          *)
(* anything; others need the rights of the method and, for each right, its *)
(* password indexes (0 always).                                            *)
(***************************************************************************)
validateMethod(s, rights) ==
    \/ isAccountSuperUser(db, s.user)
    \/ /\ s.status[0] \in Authenticated
       /\ \A r \in rights : accountValidateAttribute(db, s.user, [app |-> DirApp, attrib |-> r])

validateRPCMethodPerms(s, rights) == getIsFullyLoggedIn(s) /\ validateMethod(s, rights)

(***************************************************************************)
(* Manager: the schema's first row, and the accounts a program starts with.*)
(***************************************************************************)
initScheme == [[t \in Tables |-> {}] EXCEPT !.secretsindexs = {[index |-> 0, required |-> TRUE]}]
initAccounts(d) == accountAdd(d, Admin, AllFlags)

Done(outcomes) == (CHOOSE o \in outcomes : o.ok).db

StaffGroup == CHOOSE g \in Groups : TRUE

\* The directory a program sets up: its application and rights, a group of
\* those who administer it, the other indexes of passwords, and the staff.  They
\* have guessed wrong before: the first account is one guess short of being
\* disabled and the staff two, where attempts that read the same counter disable
\* twice, or take it past.
Directory(tries) ==
    LET d == Done(applicationAdd(Done(initAccounts(initScheme)), DirApp, Admin)) IN
    [d EXCEPT !.attribs = {[app |-> DirApp, attrib |-> r, text |-> "old"] : r \in Rights},
              !.secretsindexs = {[index |-> i, required |-> TRUE] : i \in Indexes},
              !.groups = {[group |-> StaffGroup, text |-> "old"]},
              !.groupsaccounts = {[group |-> StaffGroup, user |-> u] : u \in Staff},
              !.attribsgroups = {[app |-> DirApp, attrib |-> Write, group |-> StaffGroup]},
              !.accounts = @ \cup {Account(u, [AllFlags EXCEPT !.superuser = FALSE]) : u \in Staff},
              !.accountsecrets = {[Secret(Admin, 0, FALSE) EXCEPT !.bad = tries - 1]}
                                   \cup {[Secret(u, i, FALSE) EXCEPT !.bad = tries - 2] : u \in Staff, i \in Indexes},
              !.applicationusers = {[app |-> DirApp, user |-> u] : u \in Staff \cup {Admin}}]

Idle == [do |-> "idle"]

Init ==
    /\ maxTries = FirstTries
    /\ db = Directory(maxTries)
    /\ session = [c \in Clients |-> NoSession]
    /\ task = [c \in Clients |-> Idle]
    /\ logins = 0 /\ calls = 0

(***************************************************************************)
(* Manager::authenticate.  The reason, and whether the attempt goes on to  *)
(* be counted: accounts that may not log in return at once.                *)
(***************************************************************************)
validateStoredSecret(secret, right) ==
    IF ~right THEN "BAD_PASSWORD"
    ELSE IF secret.expired THEN "EXPIRED_PASSWORD" ELSE "AUTHENTICATED"

Authentication(u, i, right, first) ==
    LET found == retrieveSecret(db, u, i)
        verdict == validateStoredSecret(found.secret, right)
        Returns(reason) == [reason |-> reason, goesOn |-> FALSE]
        GoesOn(reason) == [reason |-> reason, goesOn |-> TRUE]
    IN CASE ~applicationValidateAccount(db, DirApp, u) -> Returns("BAD_ACCOUNT")
         [] ~found.accountFound -> GoesOn("BAD_ACCOUNT")
         [] ~found.indexFound -> GoesOn("INDEX_NOTFOUND")
         [] ~isAccountConfirmed(db, u) -> Returns("UNCONFIRMED_ACCOUNT")
         [] isAccountDisabled(db, u) -> Returns("DISABLED_ACCOUNT")
         [] isAccountExpired(db, u) \/ accountLastLoginIsOld(db, u) -> Returns("EXPIRED_ACCOUNT")
         [] /\ verdict \in Authenticated /\ first /\ i = 0
            /\ passIndexesRequiredForLogin(db) = {} -> Returns("INTERNAL_ERROR")
         [] OTHER -> GoesOn(verdict)

\* What becomes of a call after its attempt: a login registers the result in
\* the session, a change of secret goes on if the attempt was accepted, and
\* tries the master password once if the account has no such index.
After(c, t) ==
    IF t.change = {} THEN
        /\ session' = [session EXCEPT ![c] =
               IF t.reason \in Authenticated /\ t.index = 0
               THEN [registerPersistentAuthentication(NoSession, t.user, 0, t.reason)
                       EXCEPT !.needed = t.needed]
               ELSE IF t.index # 0 THEN registerPersistentAuthentication(@, t.user, t.index, t.reason) ELSE @]
        /\ task' = [task EXCEPT ![c] = Idle]
    ELSE
        /\ UNCHANGED session
        /\ task' = [task EXCEPT ![c] =
               CASE t.reason \in Authenticated -> [t EXCEPT !.do = "change"]
                 [] t.reason = "INDEX_NOTFOUND" /\ t.index # 0 -> [t EXCEPT !.do = "master"]
                 [] OTHER -> Idle]

\* The section under the shared lock: the counter and the limit are read here.
Authenticate(c, u, i, right, change) ==
    LET a == Authentication(u, i, right, change = {})
        t == [do |-> IF a.reason \in Authenticated THEN "accept" ELSE "count", user |-> u,
              index |-> i, reason |-> a.reason, change |-> change,
              needed |-> IF a.reason \in Authenticated /\ i = 0 /\ change = {}
                         THEN accountPassIndexesUsedForLogin(db, u) ELSE {},
              bad |-> retrieveSecret(db, u, i).secret.bad, tries |-> maxTries]
    IN /\ IF a.goesOn THEN task' = [task EXCEPT ![c] = t] /\ UNCHANGED session
          ELSE After(c, t)
       /\ UNCHANGED <<db, maxTries, calls>>

\* Further indexes are asked of the account of the session.
Login(c) ==
    /\ task[c] = Idle /\ logins < MaxLogins
    /\ logins' = logins + 1
    /\ \E u \in Users, i \in Indexes, right \in BOOLEAN :
           /\ i # 0 => session[c].user = u
           /\ Authenticate(c, u, i, right, {})

accountChangeAuthenticatedSecret(c) ==
    /\ task[c] = Idle /\ logins < MaxLogins
    /\ session[c].user # ""
    /\ logins' = logins + 1
    /\ \E i \in Indexes, right \in BOOLEAN : Authenticate(c, session[c].user, i, right, {i})

TryMaster(c) ==
    /\ task[c].do = "master"
    /\ UNCHANGED logins
    /\ \E right \in BOOLEAN : Authenticate(c, task[c].user, 0, right, task[c].change)

CountAttemptOneMore(c) ==
    LET t == task[c] IN
    /\ t.do = "count"
    /\ db' \in IF t.bad + 1 > t.tries
               THEN {o.db : o \in accountDisable(db, t.user, TRUE)}
               ELSE incrementBadAttempts(db, t.user, t.index)
    /\ After(c, t)
    /\ UNCHANGED <<maxTries, logins, calls>>

\* A wrong attempt: disable the account, or add one to the stored counter.
CountAttempt(c) ==
    LET t == task[c] IN
    /\ t.do = "count"
    /\ db' \in IF t.bad + 1 >= t.tries
               THEN {o.db : o \in accountDisable(db, t.user, TRUE)}
               ELSE incrementBadAttempts(db, t.user, t.index)
    /\ After(c, t)
    /\ UNCHANGED <<maxTries, logins, calls>>

AcceptAttempt(c) ==
    /\ task[c].do = "accept"
    /\ db' \in updateLastLogin(db, task[c].user)
    /\ task' = [task EXCEPT ![c].do = "reset"]
    /\ UNCHANGED <<maxTries, session, logins, calls>>

ResetAttempts(c) ==
    /\ task[c].do = "reset"
    /\ db' \in resetBadAttempts(db, task[c].user, task[c].index)
    /\ After(c, task[c])
    /\ UNCHANGED <<maxTries, logins, calls>>

ChangeSecret(c) ==
    /\ task[c].do = "change" /\ calls < MaxCalls
    /\ \E i \in task[c].change : db' \in {o.db : o \in accountChangeSecret(db, task[c].user, i, FALSE)}
    /\ task' = [task EXCEPT ![c] = Idle]
    /\ calls' = calls + 1
    /\ UNCHANGED <<maxTries, session, logins>>

Logout(c) ==
    /\ task[c] = Idle /\ session[c] # NoSession
    /\ session' = [session EXCEPT ![c] = NoSession]
    /\ UNCHANGED <<db, maxTries, task, logins, calls>>

(***************************************************************************)
(* Calls of the methods that change the directory.  A call is validated    *)
(* first, and its handler runs later.                                      *)
(***************************************************************************)
Validate(c) ==
    /\ task[c] = Idle /\ calls < MaxCalls
    /\ validateRPCMethodPerms(session[c], {Write})
    /\ task' = [task EXCEPT ![c] = [do |-> "run"]]
    /\ UNCHANGED <<db, maxTries, session, logins, calls>>

\* The handlers that are one method of the manager.
AccountWrites ==
    UNION {(UNION {accountChangeSecret(db, u, i, x) : i \in Indexes, x \in BOOLEAN})
             \cup accountRemove(db, u)
             \* accountConfirm disables and enables as well
             \cup (UNION {accountDisable(db, u, x) : x \in BOOLEAN}) : u \in Users}

AccountTextWrites == UNION {accountChangeText(db, u, "new") : u \in Users}

AccountExpirationAndGroupWrites ==
    UNION {(UNION {accountChangeExpiration(db, u, x) : x \in BOOLEAN})
             \cup (UNION {accountChangeGroupSet(db, u, gs) : gs \in SUBSET Groups}) : u \in Users}

ResetAttemptWrites ==
    UNION {{[db |-> d, ok |-> TRUE] : d \in resetBadAttempts(db, u, i)} :
              u \in Users, i \in Indexes}

ApplicationWrites(me) ==
    UNION {applicationAdd(db, p, me)
             \cup (IF p = DirApp THEN {} ELSE applicationRemove(db, p)) : p \in Apps}

ApplicationTextWrites == UNION {applicationChangeText(db, p, "new") : p \in Apps}

ApplicationMemberWrites ==
    UNION {applicationAccountAdd(db, p, u) \cup applicationAccountRemove(db, p, u)
             \cup applicationOwnerAdd(db, p, u) \cup applicationOwnerRemove(db, p, u) :
             p \in Apps, u \in Users}

\* Attributes of the directory itself cannot be added or removed.
\* attribChangeDescription takes the attribute from the account that is named
\* as the description.
AttribWrites ==
    UNION {(IF a.app = DirApp THEN {} ELSE attribAdd(db, a) \cup attribRemove(db, a))
             \cup (UNION {attribGroupAdd(db, a, g) \cup attribGroupRemove(db, a, g) : g \in Groups})
             \cup (UNION {attribAccountAdd(db, a, u) \cup attribAccountRemove(db, a, u) : u \in Users}) :
             a \in Attribs}

GroupWrites == UNION {groupAdd(db, g) \cup groupRemove(db, g) : g \in Groups}

GroupMemberWrites ==
    UNION {groupChangeText(db, g, "new")
             \cup (UNION {groupAccountAdd(db, g, u) \cup groupAccountRemove(db, g, u) : u \in Users}) :
             g \in Groups}

RunMethod(c) ==
    /\ task[c].do = "run" /\ calls < MaxCalls
    /\ db' \in {o.db : o \in AccountWrites \cup AccountTextWrites
                    \cup AccountExpirationAndGroupWrites \cup ResetAttemptWrites
                    \cup ApplicationWrites(session[c].user) \cup ApplicationTextWrites
                    \cup ApplicationMemberWrites \cup AttribWrites
                    \cup GroupWrites \cup GroupMemberWrites}
    /\ task' = [task EXCEPT ![c] = Idle]
    /\ calls' = calls + 1
    /\ UNCHANGED <<maxTries, session, logins>>

\* accountAdd looks for the account first, and creates it in a second section.
RunAccountAdd(c) ==
    /\ task[c].do = "run" /\ calls < MaxCalls
    /\ \E u \in Users :
           /\ ~accountExist(db, u)
           /\ \E flags \in AccountFlags :
                  task' = [task EXCEPT ![c] = [do |-> "add", user |-> u, flags |-> flags]]
    /\ UNCHANGED <<db, maxTries, session, logins, calls>>

AddAccount(c) ==
    /\ task[c].do = "add" /\ calls < MaxCalls
    /\ db' \in {o.db : o \in accountAdd(db, task[c].user, task[c].flags)}
    /\ task' = [task EXCEPT ![c] = Idle]
    /\ calls' = calls + 1
    /\ UNCHANGED <<maxTries, session, logins>>

\* accountChangeBasicInfo: the texts, each in a section, and then the flags.
RunBasicInfo(c) ==
    /\ task[c].do = "run" /\ calls < MaxCalls
    /\ \E u \in Users, flags \in AccountFlags : \E o \in accountChangeText(db, u, "new") :
           /\ db' = o.db
           /\ task' = [task EXCEPT ![c] =
                  IF o.ok THEN [do |-> "flags", user |-> u, flags |-> flags] ELSE Idle]
    /\ UNCHANGED <<maxTries, session, logins, calls>>

ChangeAttribs(c) ==
    /\ task[c].do = "flags" /\ calls < MaxCalls
    /\ db' \in {o.db : o \in accountChangeAttribs(db, task[c].user, task[c].flags)}
    /\ task' = [task EXCEPT ![c] = Idle]
    /\ calls' = calls + 1
    /\ UNCHANGED <<maxTries, session, logins>>

(***************************************************************************)
(* What the program itself calls, and time.                                *)
(***************************************************************************)
setBAuthPolicyMaxTries ==
    /\ calls < MaxCalls
    /\ maxTries' \in TriesSettings \ {maxTries}
    /\ calls' = calls + 1
    /\ UNCHANGED <<db, session, task, logins>>

ProgramWrites ==
    (UNION {accountConfirm(db, u) : u \in Users})
      \cup (UNION {passIndexAdd(db, i, x) \cup passIndexModify(db, i, x) : i \in Indexes, x \in BOOLEAN})
      \cup (UNION {passIndexDelete(db, i) : i \in Indexes})

ProgramCalls ==
    /\ calls < MaxCalls
    /\ db' \in {o.db : o \in ProgramWrites}
    /\ calls' = calls + 1
    /\ UNCHANGED <<maxTries, session, task, logins>>

\* The expiration of an account comes, or half a year without a login ends.
TimePasses ==
    /\ calls < MaxCalls
    /\ \E a \in db.accounts, c \in {"expired", "idle"} :
           db' = [db EXCEPT !.accounts = (@ \ {a}) \cup {[a EXCEPT ![c] = TRUE]}]
    /\ calls' = calls + 1
    /\ UNCHANGED <<maxTries, session, task, logins>>

Next ==
    \/ \E c \in Clients :
           \/ Login(c) \/ accountChangeAuthenticatedSecret(c) \/ TryMaster(c)
           \/ CountAttempt(c) \/ AcceptAttempt(c) \/ ResetAttempts(c) \/ ChangeSecret(c)
           \/ Logout(c) \/ Validate(c)
           \/ RunMethod(c) \/ RunAccountAdd(c) \/ AddAccount(c)
           \/ RunBasicInfo(c) \/ ChangeAttribs(c)
    \/ setBAuthPolicyMaxTries \/ ProgramCalls \/ TimePasses

Spec == Init /\ [][Next]_vars

(***************************************************************************)
(* Properties.                                                             *)
(***************************************************************************)

\* Whatever the clients and the program do, and whichever statement fails, an
\* account stays that is a superuser and enabled: removing, disabling, changing
\* accounts, and wrong guesses against them (accountRemove, accountDisable,
\* accountChangeAttribs, authenticate) all look for another one first.
SuperUserRemains == \E r \in db.accounts : r.superuser /\ r.enabled

\* The counter of wrong attempts reaches limit - 1 when attempts come one after
\* the other, and with attempts under way at once one more for each further of
\* them, never more: authenticate tests a counter it read in an earlier section
\* of the lock, so two that read limit - 2 take the counter to the limit itself
\* without disabling the account.
AttemptsBounded ==
    \A r \in db.accountsecrets : \E m \in TriesSettings : r.bad <= m - 2 + Cardinality(Clients)

\* A right that accountValidateAttribute grants is of an account that exists,
\* on an attribute and an application that exist, and shows among the usable
\* attributes: removing any of them takes the right away (ON DELETE CASCADE),
\* and an account made again under an old name starts with none.
RightsAreOfTheLiving ==
    \A u \in Users : \A a \in Attribs :
        /\ accountValidateAttribute(db, u, a) <=> a \in accountUsableAttribs(db, u)
        /\ accountValidateAttribute(db, u, a) =>
               accountExist(db, u) /\ attribExist(db, a) /\ applicationExist(db, a.app)

===============================================================================
