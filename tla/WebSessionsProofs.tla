-------------------------- MODULE WebSessionsProofs --------------------------
(***************************************************************************)
(* Proofs about WebSessions, for any number of accounts, sessions, handler *)
(* threads and any limit, and at the end about HttpExchange.               *)
(*                                                                         *)
(* SessionOutlivesRequest needs that the readers of a session are at least *)
(* as many as the handlers that use it (Counted), and that a handler gives *)
(* back the session it opened and no other (Opened).                       *)
(***************************************************************************)
EXTENDS WebSessions, HttpExchange, FiniteSetTheorems, TLAPS

UsersOf(id) == {r \in Requests : id \in Uses(r)}

\* A session has a reader for every handler that uses it, and perhaps more.
Counted == \A id \in Ids : Cardinality(UsersOf(id)) <= readers[id]

\* A session in use is in the map.
Held == \A r \in Requests : \A id \in Uses(r) : InMap(id)

\* sSessionId names the session behind webSession, or nothing; a login has opened
\* none before.
Opened == \A r \in Requests :
  /\ web[r] # NoId => sid[r] \in {NoId, web[r]}
  /\ pc[r] \in {"add", "loginOpen", "loginRelease"} => web[r] = NoId
  /\ pc[r] = "loginRelease" => sid[r] \in Ids

IInv == TypeOK /\ Counted /\ Held /\ Opened

\* The steps that neither open nor release nor delete a session.
Neutral ==
  \/ \E r \in Requests :
       \/ Refused(r) \/ ConfirmToken(r) \/ Exec(r) \/ Logout(r) \/ TestPassword(r)
       \/ PostLogin(r) \/ PostLoginFails(r) \/ LoginFails(r)
       \/ \E u \in Users : Reserve(r, u)
       \/ \E id \in Unused : Add(r, id)
       \/ SessionDestroy(r) \/ DestroyMark(r) \/ DestroyCount(r)
  \/ GcStart \/ (\E id \in gcTodo : GcVisit(id)) \/ GcMark
  \/ \E id \in Ids : Expire(id)

\* Every step, sorted by what it does to the readers.
LEMMA StepCases ==
  ASSUME Next
  PROVE  \/ Neutral
         \/ \E r \in Requests, m \in Modes, id \in Ids \cup {NoId} : Start(r, m, id)
         \/ \E r \in Requests : LoginOpen(r)
         \/ \E r \in Requests : LoginRelease(r)
         \/ \E r \in Requests : SessionRelease(r)
         \/ \E r \in Requests : DestroyDelete(r)
         \/ GcDelete
<1>1. ASSUME NEW r \in Requests, Unused # {}, Add(r, CHOOSE id \in Unused : TRUE)
      PROVE  \E id \in Unused : Add(r, id)
  BY <1>1
<1>2. QED
  BY <1>1 DEF Next, RequestStep, GcStep, Neutral

-----------------------------------------------------------------------------
(* Sets of handlers. *)

LEMMA UsersAreFinite ==
  ASSUME NEW id
  PROVE  IsFiniteSet(UsersOf(id)) /\ Cardinality(UsersOf(id)) \in Nat
<1>1. UsersOf(id) \subseteq Requests
  BY DEF UsersOf
<1>2. QED
  BY <1>1, WebSessionsAssumption, FS_Subset, FS_CardinalityType

\* A handler that uses a session shows in its readers.
LEMMA UserIsCounted ==
  ASSUME TypeOK, Counted, NEW r \in Requests, NEW id \in Ids, id \in Uses(r)
  PROVE  readers[id] > 0
<1>1. r \in UsersOf(id)
  BY DEF UsersOf
<1>2. Cardinality(UsersOf(id)) # 0
  BY <1>1, UsersAreFinite, FS_EmptySet
<1>3. QED
  BY <1>2, UsersAreFinite DEF TypeOK, Counted

\* A step that opens nothing, gives nothing back and takes no session with readers
\* from the map.
LEMMA NoNewUse ==
  ASSUME TypeOK, Counted, Held, UNCHANGED readers,
         \A r \in Requests : Uses(r)' \subseteq Uses(r),
         \A id \in Ids : InMap(id) /\ readers[id] > 0 => InMap(id)'
  PROVE  Counted' /\ Held'
<1>1. ASSUME NEW id \in Ids PROVE Cardinality(UsersOf(id)') <= readers'[id]
  <2>1. UsersOf(id)' \subseteq UsersOf(id)
    BY DEF UsersOf
  <2>2. Cardinality(UsersOf(id)') <= Cardinality(UsersOf(id)) /\ Cardinality(UsersOf(id)') \in Nat
    BY <2>1, UsersAreFinite, FS_Subset, FS_CardinalityType
  <2>3. QED
    BY <2>2, UsersAreFinite DEF Counted, TypeOK
<1>2. ASSUME NEW r \in Requests, NEW id \in Uses(r)' PROVE InMap(id)'
  <2>1. id \in Uses(r) /\ id \in Ids
    BY <1>2 DEF Uses
  <2>2. QED
    BY <2>1, UserIsCounted DEF Held
<1>3. QED
  BY <1>1, <1>2 DEF Counted, Held

\* A handler opens a session that is in the map.
LEMMA OpensOne ==
  ASSUME TypeOK, Counted, Held, NEW r \in Requests, NEW id \in Ids, Live(id),
         readers' = [readers EXCEPT ![id] = @ + 1], UNCHANGED state,
         Uses(r)' \subseteq Uses(r) \cup {id},
         \A s \in Requests \ {r} : Uses(s)' \subseteq Uses(s)
  PROVE  Counted' /\ Held'
<1>1. ASSUME NEW j \in Ids PROVE Cardinality(UsersOf(j)') <= readers'[j]
  <2>1. CASE j = id
    <3>1. UsersOf(j)' \subseteq UsersOf(j) \cup {r}
      BY DEF UsersOf
    <3>2. /\ IsFiniteSet(UsersOf(j) \cup {r})
          /\ Cardinality(UsersOf(j) \cup {r}) <= Cardinality(UsersOf(j)) + 1
          /\ Cardinality(UsersOf(j) \cup {r}) \in Nat
      BY UsersAreFinite, FS_AddElement, FS_CardinalityType
    <3>3. /\ Cardinality(UsersOf(j)') <= Cardinality(UsersOf(j) \cup {r})
          /\ Cardinality(UsersOf(j)') \in Nat
      BY <3>1, <3>2, FS_Subset, FS_CardinalityType
    <3>4. QED
      BY <2>1, <3>2, <3>3, UsersAreFinite DEF Counted, TypeOK
  <2>2. CASE j # id
    <3>1. UsersOf(j)' \subseteq UsersOf(j)
      BY <2>2 DEF UsersOf
    <3>2. /\ Cardinality(UsersOf(j)') <= Cardinality(UsersOf(j))
          /\ Cardinality(UsersOf(j)') \in Nat
      BY <3>1, UsersAreFinite, FS_Subset, FS_CardinalityType
    <3>3. QED
      BY <2>2, <3>2, UsersAreFinite DEF Counted, TypeOK
  <2>3. QED
    BY <2>1, <2>2
<1>2. ASSUME NEW s \in Requests, NEW j \in Uses(s)' PROVE InMap(j)'
  <2>1. j = id \/ j \in Uses(s)
    BY <1>2
  <2>2. QED
    BY <2>1, WebSessionsAssumption DEF Held, InMap, Live
<1>3. QED
  BY <1>1, <1>2 DEF Counted, Held

\* A handler gives back the session it uses.
LEMMA ReleasesOne ==
  ASSUME TypeOK, Counted, Held, NEW r \in Requests, NEW id \in Ids, id \in Uses(r),
         readers' = [readers EXCEPT ![id] = @ - 1], UNCHANGED state,
         Uses(r)' = {},
         \A s \in Requests \ {r} : Uses(s)' \subseteq Uses(s)
  PROVE  Counted' /\ Held'
<1>1. ASSUME NEW j \in Ids PROVE Cardinality(UsersOf(j)') <= readers'[j]
  <2>1. UsersOf(j)' \subseteq UsersOf(j) \ {r}
    BY DEF UsersOf
  <2>2. /\ Cardinality(UsersOf(j)') <= Cardinality(UsersOf(j) \ {r})
        /\ Cardinality(UsersOf(j)') \in Nat
        /\ Cardinality(UsersOf(j) \ {r}) \in Nat
    BY <2>1, UsersAreFinite, FS_RemoveElement, FS_Subset, FS_CardinalityType
  <2>3. CASE j = id
    <3>1. r \in UsersOf(j)
      BY <2>3 DEF UsersOf
    <3>2. Cardinality(UsersOf(j) \ {r}) = Cardinality(UsersOf(j)) - 1
      BY <3>1, UsersAreFinite, FS_RemoveElement
    <3>3. QED
      BY <2>2, <2>3, <3>2, UsersAreFinite DEF Counted, TypeOK
  <2>4. CASE j # id
    <3>1. Cardinality(UsersOf(j) \ {r}) <= Cardinality(UsersOf(j))
      BY UsersAreFinite, FS_Subset
    <3>2. QED
      BY <2>2, <2>4, <3>1, UsersAreFinite DEF Counted, TypeOK
  <2>5. QED
    BY <2>3, <2>4
<1>2. ASSUME NEW s \in Requests, NEW j \in Uses(s)' PROVE InMap(j)'
  BY <1>2 DEF Held, InMap
<1>3. QED
  BY <1>1, <1>2 DEF Counted, Held

-----------------------------------------------------------------------------
LEMMA InitIInv == Init => IInv
<1> SUFFICES ASSUME Init PROVE IInv
  OBVIOUS
<1>1. TypeOK
  <2>1. /\ state \in [Ids -> {"none", "live", "dying", "dead"}]
        /\ readers \in [Ids -> Nat] /\ count \in [Users -> 0..MaxSessions]
    BY WebSessionsAssumption DEF Init
  <2>2. QED
    BY <2>1 DEF Init, TypeOK
<1>2. \A r \in Requests : Uses(r) = {}
  BY WebSessionsAssumption DEF Init, Uses, AllModes
<1>3. Counted
  <2>1. \A id \in Ids : UsersOf(id) = {}
    BY <1>2 DEF UsersOf
  <2>2. QED
    BY <2>1, FS_EmptySet DEF Init, Counted
<1>4. Held /\ Opened
  BY <1>2 DEF Init, Held, Opened
<1>5. QED
  BY <1>1, <1>3, <1>4 DEF IInv

\* A handler that is done has nothing open.
LEMMA FinishTypes ==
  ASSUME TypeOK, Opened, NEW r \in Requests, Finish(r),
         UNCHANGED <<state, readers, owner, expired, confirmed, full, gcPc, gcTodo, gcKey>>,
         count' \in [Users -> 0..MaxSessions]
  PROVE  TypeOK' /\ Opened'
BY WebSessionsAssumption DEF Finish, Goto, TypeOK, Opened

\* Types, and what a handler has open, step by step.
LEMMA StepTypes ==
  ASSUME IInv, [Next]_vars
  PROVE  TypeOK' /\ Opened'
<1> USE WebSessionsAssumption DEF IInv, Opened, AllModes
<1>0. CASE UNCHANGED vars
  BY <1>0 DEF vars, sessionVars, handlerVars, gcVars, TypeOK
<1> USE DEF Goto, sessionVars, handlerVars, gcVars
<1>1. ASSUME NEW r \in Requests, NEW m \in Modes, NEW id \in Ids \cup {NoId}, Start(r, m, id)
      PROVE  TypeOK' /\ Opened'
  BY <1>1 DEF Start, Live, TypeOK
<1>2. ASSUME NEW r \in Requests, Refused(r) \/ LoginFails(r) PROVE TypeOK' /\ Opened'
  BY <1>2 DEF Refused, LoginFails, TypeOK
<1>3. ASSUME NEW r \in Requests, ConfirmToken(r) \/ Exec(r) \/ PostLogin(r) PROVE TypeOK' /\ Opened'
  <2>1. expired' \in [Ids -> BOOLEAN] /\ confirmed' \in [Ids -> BOOLEAN] /\ full' \in [Ids -> BOOLEAN]
    <3>1. CASE ConfirmToken(r)
      <4>1. PICK right \in BOOLEAN : confirmed' = [confirmed EXCEPT ![web[r]] = right]
        BY <3>1 DEF ConfirmToken
      <4>2. QED
        BY <3>1, <4>1 DEF ConfirmToken, TypeOK
    <3>2. CASE Exec(r)
      BY <3>2 DEF Exec, TypeOK
    <3>3. CASE PostLogin(r)
      <4>1. full' \in [Ids -> BOOLEAN]
        <5>1. PICK last \in BOOLEAN : full' = [full EXCEPT ![web[r]] = @ \/ last]
          BY <3>3 DEF PostLogin
        <5>2. QED
          BY <5>1, Zenon DEF TypeOK
      <4>2. QED
        BY <3>3, <4>1 DEF PostLogin, TypeOK
    <3>4. QED
      BY <1>3, <3>1, <3>2, <3>3
  <2>2. /\ pc' = [pc EXCEPT ![r] = "sessionRelease"]
        /\ UNCHANGED <<state, readers, owner, count, sid, web, destroy, user, gcPc, gcTodo, gcKey>>
    BY <1>3 DEF ConfirmToken, Exec, PostLogin
  <2>3. QED
    BY <2>1, <2>2 DEF TypeOK
<1>4. ASSUME NEW r \in Requests, Logout(r) \/ TestPassword(r) \/ PostLoginFails(r)
      PROVE  TypeOK' /\ Opened'
  BY <1>4, ZenonT(30) DEF Logout, TestPassword, PostLoginFails, TypeOK
<1>5. ASSUME NEW r \in Requests, NEW u \in Users, Reserve(r, u) PROVE TypeOK' /\ Opened'
  BY <1>5 DEF Reserve, Acting, MayAct, TypeOK
<1>6. ASSUME NEW r \in Requests, NEW id \in Unused, Add(r, id) PROVE TypeOK' /\ Opened'
  BY <1>6 DEF Add, Unused, TypeOK
<1>7. ASSUME NEW r \in Requests, LoginOpen(r) PROVE TypeOK' /\ Opened'
  BY <1>7 DEF LoginOpen, Live, TypeOK
<1>8. ASSUME NEW r \in Requests, LoginRelease(r) PROVE TypeOK' /\ Opened'
  <2>1. sid[r] \in Ids /\ sid[r] \in Uses(r)
    BY <1>8 DEF LoginRelease, Uses
  <2>2. readers[sid[r]] > 0
    BY <2>1, UserIsCounted
  <2>3. QED
    BY <1>8, <2>1, <2>2 DEF LoginRelease, TypeOK
<1>9. ASSUME NEW r \in Requests, SessionRelease(r) PROVE TypeOK' /\ Opened'
  <2>1. CASE web[r] # NoId /\ InMap(sid[r])
    <3>1. sid[r] \in Ids /\ sid[r] \in Uses(r)
      BY <1>9, <2>1 DEF SessionRelease, InMap, Uses, TypeOK
    <3>2. readers[sid[r]] > 0
      BY <3>1, UserIsCounted
    <3>3. QED
      BY <1>9, <2>1, <3>1, <3>2 DEF SessionRelease, TypeOK
  <2>2. CASE ~(web[r] # NoId /\ InMap(sid[r]))
    BY <1>9, <2>2 DEF SessionRelease, TypeOK
  <2>3. QED
    BY <2>1, <2>2
<1>10. ASSUME NEW r \in Requests, SessionDestroy(r) PROVE TypeOK' /\ Opened'
  <2>1. CASE destroy[r] /\ Live(sid[r])
    BY <1>10, <2>1 DEF SessionDestroy, Live, TypeOK
  <2>2. CASE ~(destroy[r] /\ Live(sid[r]))
    <3>1. /\ Finish(r)
          /\ UNCHANGED <<state, readers, owner, expired, confirmed, full, count, gcPc, gcTodo, gcKey>>
      BY <1>10, <2>2 DEF SessionDestroy
    <3>2. count' \in [Users -> 0..MaxSessions]
      BY <3>1 DEF TypeOK
    <3>3. QED
      BY <3>1, <3>2, FinishTypes
  <2>3. QED
    BY <2>1, <2>2
<1>11. ASSUME NEW r \in Requests, DestroyMark(r) PROVE TypeOK' /\ Opened'
  <2>1. CASE Live(sid[r])
    BY <1>11, <2>1 DEF DestroyMark, Live, TypeOK
  <2>2. CASE ~Live(sid[r])
    <3>1. /\ Finish(r)
          /\ UNCHANGED <<state, readers, owner, expired, confirmed, full, count, gcPc, gcTodo, gcKey>>
      BY <1>11, <2>2 DEF DestroyMark
    <3>2. count' \in [Users -> 0..MaxSessions]
      BY <3>1 DEF TypeOK
    <3>3. QED
      BY <3>1, <3>2, FinishTypes
  <2>3. QED
    BY <2>1, <2>2
<1>12. ASSUME NEW r \in Requests, DestroyDelete(r) PROVE TypeOK' /\ Opened'
  BY <1>12 DEF DestroyDelete, Delete, TypeOK
<1>13. ASSUME NEW r \in Requests, DestroyCount(r) PROVE TypeOK' /\ Opened'
  <2>1. count' \in [Users -> 0..MaxSessions]
    <3>1. count' = [count EXCEPT ![user[r]] = @ - 1] /\ count[user[r]] > 0
      BY <1>13 DEF DestroyCount
    <3>2. \A u \in Users : count[u] \in 0..MaxSessions
      BY DEF TypeOK
    <3>3. \A u \in Users : count'[u] = IF u = user[r] THEN count[u] - 1 ELSE count[u]
      BY <3>1 DEF TypeOK
    <3>4. \A u \in Users : count'[u] \in 0..MaxSessions
      BY <3>1, <3>2, <3>3
    <3>5. count' = [u \in Users |-> count'[u]]
      BY <3>1 DEF TypeOK
    <3>6. QED
      BY <3>4, <3>5
  <2>2. QED
    <3>1. /\ Finish(r)
          /\ UNCHANGED <<state, readers, owner, expired, confirmed, full, gcPc, gcTodo, gcKey>>
      BY <1>13 DEF DestroyCount
    <3>2. QED
      BY <2>1, <3>1, FinishTypes
<1>14. ASSUME GcStart PROVE TypeOK' /\ Opened'
  BY <1>14 DEF GcStart, TypeOK
<1>15. ASSUME NEW id \in gcTodo, GcVisit(id) PROVE TypeOK' /\ Opened'
  BY <1>15 DEF GcVisit, AfterKey, TypeOK
<1>16. ASSUME GcMark PROVE TypeOK' /\ Opened'
  BY <1>16 DEF GcMark, GcDone, AfterKey, Live, TypeOK
<1>17. ASSUME GcDelete PROVE TypeOK' /\ Opened'
  BY <1>17 DEF GcDelete, GcDone, AfterKey, Delete, TypeOK
<1>18. ASSUME NEW id \in Ids, Expire(id) PROVE TypeOK' /\ Opened'
  BY <1>18 DEF Expire, TypeOK
<1>19. QED
  BY <1>0, <1>1, <1>2, <1>3, <1>4, <1>5, <1>6, <1>7, <1>8, <1>9, <1>10, <1>11, <1>12, <1>13,
     <1>14, <1>15, <1>16, <1>17, <1>18, StepCases DEF Neutral

-----------------------------------------------------------------------------
(* Nobody deletes a session under a handler. *)

LEMMA StepUses ==
  ASSUME IInv, [Next]_vars
  PROVE  Counted' /\ Held'
<1> USE WebSessionsAssumption DEF IInv, AllModes
<1>0. CASE UNCHANGED vars
  BY <1>0, NoNewUse DEF vars, sessionVars, handlerVars, gcVars, Uses, InMap
<1>1. CASE Neutral
  <2>1. UNCHANGED readers
    BY <1>1 DEF Neutral, Refused, ConfirmToken, Exec, Logout, TestPassword, PostLogin, PostLoginFails,
                LoginFails, Reserve, Add, SessionDestroy, DestroyMark, DestroyCount,
                GcStart, GcVisit, GcMark, Expire, sessionVars
  <2>2. \A id \in Ids : InMap(id) => InMap(id)'
    <3>1. ASSUME NEW r \in Requests, NEW id \in Unused, Add(r, id)
          PROVE  \A j \in Ids : InMap(j) => InMap(j)'
      BY <3>1 DEF Add, Unused, InMap, TypeOK
    <3>2. ASSUME NEW r \in Requests, DestroyMark(r)
          PROVE  \A j \in Ids : InMap(j) => InMap(j)'
      BY <3>2 DEF DestroyMark, InMap, Live, TypeOK
    <3>3. ASSUME GcMark
          PROVE  \A j \in Ids : InMap(j) => InMap(j)'
      BY <3>3 DEF GcMark, InMap, Live, TypeOK
    <3>4. CASE UNCHANGED state
      BY <3>4 DEF InMap
    <3>5. QED
      BY <1>1, <3>1, <3>2, <3>3, <3>4
         DEF Neutral, Refused, ConfirmToken, Exec, Logout, TestPassword, PostLogin, PostLoginFails,
             LoginFails, Reserve, SessionDestroy, DestroyCount, GcStart, GcVisit, Expire, sessionVars
  <2>3. \A r \in Requests : Uses(r)' \subseteq Uses(r)
    <3>1. ASSUME NEW r \in Requests,
                 \/ Refused(r) \/ ConfirmToken(r) \/ Exec(r) \/ Logout(r) \/ TestPassword(r)
                 \/ PostLogin(r) \/ PostLoginFails(r) \/ LoginFails(r)
          PROVE  \A s \in Requests : Uses(s)' \subseteq Uses(s)
      BY <3>1 DEF Refused, ConfirmToken, Exec, Logout, TestPassword, PostLogin, PostLoginFails,
                  LoginFails, Acting, Goto, Uses, TypeOK
    <3>2. ASSUME NEW r \in Requests, NEW u \in Users, Reserve(r, u)
          PROVE  \A s \in Requests : Uses(s)' \subseteq Uses(s)
      BY <3>2 DEF Reserve, Acting, Goto, Uses, TypeOK
    <3>3. ASSUME NEW r \in Requests, NEW id \in Unused, Add(r, id)
          PROVE  \A s \in Requests : Uses(s)' \subseteq Uses(s)
      BY <3>3 DEF Add, Goto, Uses, TypeOK
    <3>4. ASSUME NEW r \in Requests, SessionDestroy(r) \/ DestroyMark(r) \/ DestroyCount(r)
          PROVE  \A s \in Requests : Uses(s)' \subseteq Uses(s)
      BY <3>4 DEF SessionDestroy, DestroyMark, DestroyCount, Finish, Goto, Uses, TypeOK
    <3>5. CASE UNCHANGED handlerVars
      BY <3>5 DEF handlerVars, Uses
    <3>6. QED
      BY <1>1, <3>1, <3>2, <3>3, <3>4, <3>5 DEF Neutral, GcStart, GcVisit, GcMark, Expire
  <2>4. QED
    BY <2>1, <2>2, <2>3, NoNewUse
<1>2. ASSUME NEW r \in Requests, NEW m \in Modes, NEW id \in Ids \cup {NoId}, Start(r, m, id)
      PROVE  Counted' /\ Held'
  <2>1. CASE Live(id)
    <3>1. id \in Ids /\ Live(id) /\ readers' = [readers EXCEPT ![id] = @ + 1] /\ UNCHANGED state
      BY <1>2, <2>1 DEF Start, Live
    <3>2. Uses(r)' \subseteq Uses(r) \cup {id} /\ \A s \in Requests \ {r} : Uses(s)' \subseteq Uses(s)
      BY <1>2, <2>1 DEF Start, Goto, Uses, TypeOK
    <3>3. QED
      BY <3>1, <3>2, OpensOne, ZenonT(30)
  <2>2. CASE ~Live(id)
    <3>1. UNCHANGED <<readers, state>> /\ \A s \in Requests : Uses(s)' \subseteq Uses(s)
      BY <1>2, <2>2 DEF Start, Goto, Uses, TypeOK
    <3>2. QED
      BY <3>1, NoNewUse DEF InMap
  <2>3. QED
    BY <2>1, <2>2
<1>3. ASSUME NEW r \in Requests, LoginOpen(r) PROVE Counted' /\ Held'
  <2>1. CASE Live(sid[r])
    <3>1. PICK id \in Ids : id = sid[r]
      BY <2>1 DEF Live, TypeOK
    <3>2. Live(id) /\ readers' = [readers EXCEPT ![id] = @ + 1] /\ UNCHANGED state
      BY <1>3, <2>1, <3>1 DEF LoginOpen
    <3>3. Uses(r)' \subseteq Uses(r) \cup {id} /\ \A s \in Requests \ {r} : Uses(s)' \subseteq Uses(s)
      BY <1>3, <2>1, <3>1 DEF LoginOpen, Goto, Uses, TypeOK
    <3>4. QED
      BY <3>2, <3>3, OpensOne
  <2>2. CASE ~Live(sid[r])
    <3>1. UNCHANGED <<readers, state>> /\ \A s \in Requests : Uses(s)' \subseteq Uses(s)
      BY <1>3, <2>2 DEF LoginOpen, Goto, Uses, TypeOK, Opened
    <3>2. QED
      BY <3>1, NoNewUse DEF InMap
  <2>3. QED
    BY <2>1, <2>2
<1>4. ASSUME NEW r \in Requests, LoginRelease(r) PROVE Counted' /\ Held'
  <2>1. PICK id \in Ids : id = sid[r]
    BY <1>4 DEF LoginRelease, Opened
  <2>2. id \in Uses(r) /\ readers' = [readers EXCEPT ![id] = @ - 1] /\ UNCHANGED state
    BY <1>4, <2>1 DEF LoginRelease, Uses
  <2>3. Uses(r)' = {} /\ \A s \in Requests \ {r} : Uses(s)' \subseteq Uses(s)
    BY <1>4 DEF LoginRelease, Goto, Uses, TypeOK, Opened
  <2>4. QED
    BY <2>2, <2>3, ReleasesOne
<1>5. ASSUME NEW r \in Requests, SessionRelease(r) PROVE Counted' /\ Held'
  <2>1. Uses(r)' = {} /\ \A s \in Requests \ {r} : Uses(s)' \subseteq Uses(s)
    BY <1>5 DEF SessionRelease, Goto, Uses, TypeOK
  <2>2. CASE web[r] # NoId /\ InMap(sid[r])
    <3>1. PICK id \in Ids : id = sid[r]
      BY <2>2 DEF InMap, TypeOK
    <3>2. id = web[r] /\ id \in Uses(r)
      BY <1>5, <2>2, <3>1 DEF SessionRelease, Uses, Opened
    <3>3. readers' = [readers EXCEPT ![id] = @ - 1] /\ UNCHANGED state
      BY <1>5, <2>2, <3>1 DEF SessionRelease
    <3>4. QED
      BY <2>1, <3>2, <3>3, ReleasesOne
  <2>3. CASE ~(web[r] # NoId /\ InMap(sid[r]))
    <3>1. UNCHANGED <<readers, state>>
      BY <1>5, <2>3 DEF SessionRelease
    <3>2. QED
      BY <2>1, <3>1, NoNewUse DEF InMap
  <2>4. QED
    BY <2>2, <2>3
<1>6. ASSUME NEW r \in Requests, DestroyDelete(r) PROVE Counted' /\ Held'
  <2>1. UNCHANGED readers /\ \A id \in Ids : InMap(id) /\ readers[id] > 0 => InMap(id)'
    BY <1>6 DEF DestroyDelete, Delete, InMap, TypeOK
  <2>2. \A s \in Requests : Uses(s)' \subseteq Uses(s)
    BY <1>6 DEF DestroyDelete, Goto, Uses, TypeOK
  <2>3. QED
    BY <2>1, <2>2, NoNewUse
<1>7. ASSUME GcDelete PROVE Counted' /\ Held'
  <2>1. UNCHANGED readers /\ \A id \in Ids : InMap(id) /\ readers[id] > 0 => InMap(id)'
    BY <1>7 DEF GcDelete, Delete, InMap, TypeOK
  <2>2. \A s \in Requests : Uses(s)' \subseteq Uses(s)
    BY <1>7 DEF GcDelete, handlerVars, Uses
  <2>3. QED
    BY <2>1, <2>2, NoNewUse
<1>8. QED
  BY <1>0, <1>1, <1>2, <1>3, <1>4, <1>5, <1>6, <1>7, StepCases

LEMMA Invariance == Spec => []IInv
<1>1. IInv /\ [Next]_vars => IInv'
  BY StepTypes, StepUses DEF IInv
<1>2. QED
  BY <1>1, InitIInv, PTL DEF Spec

\* The variables of the sessions manager, the handlers and the collector keep
\* their types: no account counts more sessions than the limit.
THEOREM TypeCorrect == Spec => []TypeOK
<1>1. IInv => TypeOK
  BY DEF IInv
<1>2. QED
  BY <1>1, Invariance, PTL

\* openSession's read lock does what it is for: a session that a handler has open is
\* neither deleted by another handler's destroySession nor by the collector.
THEOREM SessionsOutliveRequests == Spec => []SessionOutlivesRequest
<1>1. IInv => SessionOutlivesRequest
  <2> SUFFICES ASSUME IInv, NEW r \in Requests, NEW id \in Uses(r)
               PROVE  InMap(id) /\ readers[id] > 0
    BY DEF SessionOutlivesRequest
  <2>1. id \in Ids
    BY DEF Uses
  <2>2. QED
    BY <2>1, UserIsCounted DEF IInv, Held
<1>2. QED
  BY <1>1, Invariance, PTL

-----------------------------------------------------------------------------
(* The count of an account covers its sessions. *)

\* Where a handler has an account in hand, or is about to destroy a session.
Special == {"add", "destroyMark", "destroyDelete", "destroyCount"}

\* A session in the map has an owner.
Owned == \A id \in Ids : InMap(id) => owner[id] \in Users

\* What a handler or the collector that destroys a session knows of it: one of them
\* at a time has taken it out of reach, and the handler has its account in hand.
Tracked ==
  /\ \A r \in Requests :
       /\ pc[r] \in Special => user[r] \in Users
       /\ pc[r] = "destroyMark" => /\ sid[r] \in Ids /\ state[sid[r]] # "none"
                                   /\ Live(sid[r]) => owner[sid[r]] = user[r]
       /\ pc[r] = "destroyDelete" => /\ sid[r] \in Ids /\ state[sid[r]] = "dying"
                                     /\ owner[sid[r]] = user[r]
       /\ pc[r] = "destroyDelete" /\ gcPc = "delete" => sid[r] # gcKey
  /\ \A r, s \in Requests :
       pc[r] = "destroyDelete" /\ pc[s] = "destroyDelete" /\ sid[r] = sid[s] => r = s
  /\ gcPc = "delete" => gcKey \in Ids /\ state[gcKey] = "dying"

CInv == TypeOK /\ Owned /\ Tracked /\ CountCoversSessions

\* The steps after which nobody new has an account in hand or destroys a session.
Plain ==
  /\ UNCHANGED <<state, owner, count>>
  /\ gcPc' # "delete" \/ UNCHANGED <<gcPc, gcKey>>
  /\ \A s \in Requests : pc'[s] \in Special =>
       pc'[s] = pc[s] /\ sid'[s] = sid[s] /\ user'[s] = user[s]

\* Every step, sorted by what it does to the sessions of an account.
LEMMA AccountCases ==
  ASSUME TypeOK, [Next]_vars
  PROVE  \/ Plain
         \/ \E r \in Requests, u \in Users : Reserve(r, u) /\ count[u] < MaxSessions
         \/ \E r \in Requests, id \in Unused : Add(r, id)
         \/ \E r \in Requests : SessionDestroy(r) /\ destroy[r] /\ Live(sid[r])
         \/ \E r \in Requests : DestroyMark(r) /\ Live(sid[r])
         \/ \E r \in Requests : DestroyDelete(r)
         \/ \E r \in Requests : DestroyCount(r)
         \/ GcMark /\ Live(gcKey)
         \/ GcDelete
<1> USE DEF Special, AllModes, Goto
<1>0. CASE UNCHANGED vars
  BY <1>0 DEF vars, sessionVars, handlerVars, gcVars, Plain
<1>1. ASSUME NEW r \in Requests,
             \/ Refused(r) \/ ConfirmToken(r) \/ Exec(r) \/ Logout(r) \/ TestPassword(r)
             \/ PostLogin(r) \/ PostLoginFails(r) \/ LoginFails(r)
      PROVE  Plain
  BY <1>1 DEF Refused, ConfirmToken, Exec, Logout, TestPassword, PostLogin, PostLoginFails, LoginFails,
              sessionVars, gcVars, TypeOK, Plain
<1>2. ASSUME NEW r \in Requests, NEW u \in Users, Reserve(r, u), ~(count[u] < MaxSessions)
      PROVE  Plain
  <2>1. count[u] >= MaxSessions
    BY <1>2, WebSessionsAssumption DEF TypeOK
  <2>2. QED
    BY <1>2, <2>1 DEF Reserve, sessionVars, gcVars, TypeOK, Plain
<1>3. ASSUME NEW r \in Requests, NEW m \in Modes, NEW id \in Ids \cup {NoId}, Start(r, m, id)
      PROVE  Plain
  BY <1>3, WebSessionsAssumption DEF Start, gcVars, TypeOK, Plain
<1>4. ASSUME NEW r \in Requests, LoginOpen(r) \/ LoginRelease(r) \/ SessionRelease(r) PROVE Plain
  BY <1>4 DEF LoginOpen, LoginRelease, SessionRelease, gcVars, TypeOK, Plain
<1>5. ASSUME NEW r \in Requests, SessionDestroy(r), ~(destroy[r] /\ Live(sid[r])) PROVE Plain
  BY <1>5 DEF SessionDestroy, Finish, sessionVars, gcVars, TypeOK, Plain
<1>6. ASSUME NEW r \in Requests, DestroyMark(r), ~Live(sid[r]) PROVE Plain
  BY <1>6 DEF DestroyMark, Finish, gcVars, TypeOK, Plain
<1>7. ASSUME GcStart \/ (\E id \in gcTodo : GcVisit(id)) \/ (GcMark /\ ~Live(gcKey))
      PROVE  Plain
  BY <1>7 DEF GcStart, GcVisit, GcMark, GcDone, AfterKey, sessionVars, handlerVars, Plain
<1>8. ASSUME NEW id \in Ids, Expire(id) PROVE Plain
  BY <1>8 DEF Expire, handlerVars, gcVars, Plain
<1>9. QED
  BY <1>0, <1>1, <1>2, <1>3, <1>4, <1>5, <1>6, <1>7, <1>8, StepCases DEF Neutral

LEMMA StepTracked ==
  ASSUME TypeOK, TypeOK', Owned, Tracked, [Next]_vars
  PROVE  Owned' /\ Tracked'
<1> USE WebSessionsAssumption DEF Special, Goto
<1>1. CASE Plain
  BY <1>1 DEF Plain, Owned, Tracked, InMap, Live
<1>2. ASSUME NEW r \in Requests, NEW u \in Users, Reserve(r, u), count[u] < MaxSessions
      PROVE  Owned' /\ Tracked'
  <2>1. /\ UNCHANGED <<state, owner, gcPc, gcKey, sid>>
        /\ pc' = [pc EXCEPT ![r] = "add"] /\ user' = [user EXCEPT ![r] = u]
    BY <1>2 DEF Reserve, sessionVars, gcVars, TypeOK
  <2>2. QED
    BY <2>1 DEF Owned, Tracked, InMap, Live, TypeOK
<1>3. ASSUME NEW r \in Requests, NEW id \in Unused, Add(r, id) PROVE Owned' /\ Tracked'
  <2>1. /\ id \in Ids /\ state[id] = "none" /\ user[r] \in Users
        /\ state' = [state EXCEPT ![id] = "live"] /\ owner' = [owner EXCEPT ![id] = user[r]]
        /\ pc' = [pc EXCEPT ![r] = "loginOpen"] /\ sid' = [sid EXCEPT ![r] = id]
        /\ user' = [user EXCEPT ![r] = NoUser] /\ UNCHANGED <<gcPc, gcKey>>
    BY <1>3 DEF Add, Unused, gcVars, Tracked
  <2>2. Owned'
    BY <2>1 DEF Owned, InMap, TypeOK
  <2>3. Tracked'
    BY <2>1 DEF Tracked, Live, TypeOK
  <2>4. QED
    BY <2>2, <2>3
<1>4. ASSUME NEW r \in Requests, SessionDestroy(r), destroy[r], Live(sid[r]) PROVE Owned' /\ Tracked'
  <2>1. /\ UNCHANGED <<state, owner, gcPc, gcKey, sid>>
        /\ pc' = [pc EXCEPT ![r] = "destroyMark"] /\ user' = [user EXCEPT ![r] = owner[sid[r]]]
        /\ sid[r] \in Ids /\ state[sid[r]] = "live" /\ owner[sid[r]] \in Users
    BY <1>4 DEF SessionDestroy, sessionVars, gcVars, TypeOK, Live, Owned, InMap
  <2>2. QED
    BY <2>1 DEF Owned, Tracked, InMap, Live, TypeOK
<1>5. ASSUME NEW r \in Requests, DestroyMark(r), Live(sid[r]) PROVE Owned' /\ Tracked'
  <2>1. /\ UNCHANGED <<owner, gcPc, gcKey, sid, user>>
        /\ state' = [state EXCEPT ![sid[r]] = "dying"]
        /\ pc[r] = "destroyMark" /\ pc' = [pc EXCEPT ![r] = "destroyDelete"]
        /\ sid[r] \in Ids /\ state[sid[r]] = "live"
    BY <1>5 DEF DestroyMark, gcVars, TypeOK, Live
  <2>2. Owned'
    BY <2>1 DEF Owned, InMap, TypeOK
  <2>3. Tracked'
    BY <2>1 DEF Tracked, Live, TypeOK
  <2>4. QED
    BY <2>2, <2>3
<1>6. ASSUME NEW r \in Requests, DestroyDelete(r) PROVE Owned' /\ Tracked'
  <2>1. /\ UNCHANGED <<gcPc, gcKey, sid, user>>
        /\ state' = [state EXCEPT ![sid[r]] = "dead"]
        /\ owner' = [owner EXCEPT ![sid[r]] = NoUser]
        /\ pc[r] = "destroyDelete" /\ pc' = [pc EXCEPT ![r] = "destroyCount"]
        /\ sid[r] \in Ids
    BY <1>6 DEF DestroyDelete, Delete, gcVars, Tracked
  <2>2. Owned'
    BY <2>1 DEF Owned, InMap, TypeOK
  <2>3. Tracked'
    BY <2>1 DEF Tracked, Live, TypeOK
  <2>4. QED
    BY <2>2, <2>3
<1>7. ASSUME NEW r \in Requests, DestroyCount(r) PROVE Owned' /\ Tracked'
  <2>1. /\ UNCHANGED <<state, owner, gcPc, gcKey>>
        /\ pc' = [pc EXCEPT ![r] = "done"]
        /\ \A s \in Requests \ {r} : sid'[s] = sid[s] /\ user'[s] = user[s]
    BY <1>7 DEF DestroyCount, Finish, sessionVars, gcVars, TypeOK
  <2>2. QED
    BY <2>1 DEF Owned, Tracked, InMap, Live, TypeOK
<1>8. ASSUME GcMark, Live(gcKey) PROVE Owned' /\ Tracked'
  <2>1. /\ UNCHANGED <<owner, gcKey, pc, sid, user>>
        /\ state' = [state EXCEPT ![gcKey] = "dying"] /\ gcPc' = "delete"
        /\ gcKey \in Ids /\ state[gcKey] = "live"
    BY <1>8 DEF GcMark, handlerVars, TypeOK, Live
  <2>2. Owned'
    BY <2>1 DEF Owned, InMap, TypeOK
  <2>3. Tracked'
    BY <2>1 DEF Tracked, Live, TypeOK
  <2>4. QED
    BY <2>2, <2>3
<1>9. ASSUME GcDelete PROVE Owned' /\ Tracked'
  <2>1. /\ UNCHANGED <<pc, sid, user>>
        /\ state' = [state EXCEPT ![gcKey] = "dead"]
        /\ owner' = [owner EXCEPT ![gcKey] = NoUser]
        /\ gcPc = "delete" /\ gcPc' # "delete" /\ gcKey \in Ids
    BY <1>9 DEF GcDelete, Delete, GcDone, AfterKey, handlerVars, Tracked
  <2>2. Owned'
    BY <2>1 DEF Owned, InMap, TypeOK
  <2>3. Tracked'
    BY <2>1 DEF Tracked, Live, TypeOK
  <2>4. QED
    BY <2>2, <2>3
<1>10. QED
  BY <1>1, <1>2, <1>3, <1>4, <1>5, <1>6, <1>7, <1>8, <1>9, AccountCases

LEMMA SessionsAreFinite ==
  ASSUME NEW u
  PROVE  IsFiniteSet(SessionsOf(u)) /\ Cardinality(SessionsOf(u)) \in Nat
<1>1. {id \in Ids : owner[id] = u /\ InMap(id)} \in SUBSET Ids
      /\ {r \in Requests : user[r] = u /\ pc[r] \in {"add", "destroyCount"}} \in SUBSET Requests
  OBVIOUS
<1>2. QED
  BY <1>1, WebSessionsAssumption, FS_Subset, FS_Union, FS_CardinalityType DEF SessionsOf

\* What is in a set in place of a member of another one does not make it larger.
LEMMA Exchange ==
  ASSUME NEW S, IsFiniteSet(S), NEW x \in S, NEW y, NEW T, T \subseteq (S \ {x}) \cup {y}
  PROVE  Cardinality(T) <= Cardinality(S) /\ Cardinality(T) \in Nat
<1>1. IsFiniteSet(S \ {x}) /\ Cardinality(S \ {x}) = Cardinality(S) - 1 /\ Cardinality(S) \in Nat
  BY FS_RemoveElement, FS_CardinalityType
<1>2. /\ IsFiniteSet((S \ {x}) \cup {y})
      /\ Cardinality((S \ {x}) \cup {y}) <= Cardinality(S)
      /\ Cardinality((S \ {x}) \cup {y}) \in Nat
  BY <1>1, FS_AddElement, FS_CardinalityType
<1>3. Cardinality(T) <= Cardinality((S \ {x}) \cup {y}) /\ Cardinality(T) \in Nat
  BY <1>2, FS_Subset, FS_CardinalityType
<1>4. QED
  BY <1>1, <1>2, <1>3

\* An account that gets no session and whose count stays is covered as before.
LEMMA StillCovered ==
  ASSUME TypeOK, CountCoversSessions, NEW u \in Users,
         SessionsOf(u)' \subseteq SessionsOf(u), count'[u] = count[u]
  PROVE  Cardinality(SessionsOf(u)') <= count'[u]
<1>1. Cardinality(SessionsOf(u)') <= Cardinality(SessionsOf(u)) /\ Cardinality(SessionsOf(u)') \in Nat
  BY SessionsAreFinite, FS_Subset, FS_CardinalityType
<1>2. QED
  BY <1>1, SessionsAreFinite DEF CountCoversSessions, TypeOK

LEMMA StepCovered ==
  ASSUME CInv, [Next]_vars
  PROVE  CountCoversSessions'
<1> SUFFICES ASSUME NEW v \in Users PROVE Cardinality(SessionsOf(v)') <= count'[v]
  BY DEF CountCoversSessions
<1> USE WebSessionsAssumption DEF CInv, Goto
<1>1. CASE Plain
  <2>1. SessionsOf(v)' \subseteq SessionsOf(v) /\ count'[v] = count[v]
    BY <1>1 DEF Plain, Special, SessionsOf, InMap
  <2>2. QED
    BY <2>1, StillCovered
<1>2. ASSUME NEW r \in Requests, NEW u \in Users, Reserve(r, u), count[u] < MaxSessions
      PROVE  Cardinality(SessionsOf(v)') <= count'[v]
  <2>1. /\ UNCHANGED <<state, owner>> /\ count' = [count EXCEPT ![u] = @ + 1]
        /\ pc' = [pc EXCEPT ![r] = "add"] /\ user' = [user EXCEPT ![r] = u]
        /\ pc[r] = "LOGIN"
    BY <1>2 DEF Reserve, Acting, sessionVars, TypeOK
  <2>2. CASE v = u
    <3>1. SessionsOf(v)' \subseteq SessionsOf(v) \cup {r}
      BY <2>1, <2>2 DEF SessionsOf, InMap, TypeOK
    <3>2. /\ IsFiniteSet(SessionsOf(v) \cup {r})
          /\ Cardinality(SessionsOf(v) \cup {r}) <= Cardinality(SessionsOf(v)) + 1
          /\ Cardinality(SessionsOf(v) \cup {r}) \in Nat
      <4>1. IsFiniteSet(SessionsOf(v)) /\ Cardinality(SessionsOf(v)) \in Nat
        BY SessionsAreFinite
      <4>2. /\ IsFiniteSet(SessionsOf(v) \cup {r})
            /\ Cardinality(SessionsOf(v) \cup {r}) =
                 IF r \in SessionsOf(v) THEN Cardinality(SessionsOf(v)) ELSE Cardinality(SessionsOf(v)) + 1
        BY <4>1, FS_AddElement
      <4>3. QED
        BY <4>1, <4>2
    <3>3. /\ Cardinality(SessionsOf(v)') <= Cardinality(SessionsOf(v) \cup {r})
          /\ Cardinality(SessionsOf(v)') \in Nat
      BY <3>1, <3>2, FS_Subset, FS_CardinalityType
    <3>4. count'[v] = count[v] + 1 /\ count[v] \in Nat
      BY <2>1, <2>2 DEF TypeOK
    <3>5. QED
      BY <3>2, <3>3, <3>4, SessionsAreFinite DEF CountCoversSessions
  <2>3. CASE v # u
    <3>1. SessionsOf(v)' \subseteq SessionsOf(v) /\ count'[v] = count[v]
      BY <2>1, <2>3 DEF SessionsOf, InMap, TypeOK
    <3>2. QED
      BY <3>1, StillCovered
  <2>4. QED
    BY <2>2, <2>3
<1>3. ASSUME NEW r \in Requests, NEW id \in Unused, Add(r, id)
      PROVE  Cardinality(SessionsOf(v)') <= count'[v]
  <2>1. /\ id \in Ids /\ state[id] = "none" /\ user[r] \in Users /\ pc[r] = "add"
        /\ state' = [state EXCEPT ![id] = "live"] /\ owner' = [owner EXCEPT ![id] = user[r]]
        /\ pc' = [pc EXCEPT ![r] = "loginOpen"]
        /\ user' = [user EXCEPT ![r] = NoUser] /\ UNCHANGED count
    BY <1>3 DEF Add, Unused, Tracked, Special
  <2>2. CASE v = user[r]
    <3>1. r \in SessionsOf(v)
      BY <2>1, <2>2 DEF SessionsOf
    <3>2. SessionsOf(v)' \subseteq (SessionsOf(v) \ {r}) \cup {id}
      BY <2>1, <2>2 DEF SessionsOf, InMap, TypeOK
    <3>3. /\ Cardinality(SessionsOf(v)') <= Cardinality(SessionsOf(v))
          /\ Cardinality(SessionsOf(v)') \in Nat
      BY <3>1, <3>2, SessionsAreFinite, Exchange
    <3>4. QED
      BY <2>1, <3>3, SessionsAreFinite DEF CountCoversSessions, TypeOK
  <2>3. CASE v # user[r]
    <3>1. SessionsOf(v)' \subseteq SessionsOf(v) /\ count'[v] = count[v]
      BY <2>1, <2>3 DEF SessionsOf, InMap, TypeOK
    <3>2. QED
      BY <3>1, StillCovered
  <2>4. QED
    BY <2>2, <2>3
<1>4. ASSUME NEW r \in Requests, SessionDestroy(r), destroy[r], Live(sid[r])
      PROVE  Cardinality(SessionsOf(v)') <= count'[v]
  <2>1. SessionsOf(v)' \subseteq SessionsOf(v) /\ count'[v] = count[v]
    BY <1>4 DEF SessionDestroy, sessionVars, SessionsOf, InMap, TypeOK
  <2>2. QED
    BY <2>1, StillCovered
<1>5. ASSUME NEW r \in Requests, DestroyMark(r), Live(sid[r])
      PROVE  Cardinality(SessionsOf(v)') <= count'[v]
  <2>1. SessionsOf(v)' \subseteq SessionsOf(v) /\ count'[v] = count[v]
    BY <1>5 DEF DestroyMark, SessionsOf, InMap, Live, TypeOK
  <2>2. QED
    BY <2>1, StillCovered
<1>6. ASSUME NEW r \in Requests, DestroyDelete(r)
      PROVE  Cardinality(SessionsOf(v)') <= count'[v]
  <2>1. PICK id \in Ids : id = sid[r] /\ state[id] = "dying" /\ owner[id] = user[r] /\ user[r] \in Users
    BY <1>6 DEF DestroyDelete, Tracked, Special
  <2>2. /\ state' = [state EXCEPT ![id] = "dead"] /\ owner' = [owner EXCEPT ![id] = NoUser]
        /\ pc' = [pc EXCEPT ![r] = "destroyCount"] /\ UNCHANGED <<user, count>>
    BY <1>6, <2>1 DEF DestroyDelete, Delete
  <2>3. CASE v = user[r]
    <3>1. id \in SessionsOf(v)
      BY <2>1, <2>3 DEF SessionsOf, InMap
    <3>2. SessionsOf(v)' \subseteq (SessionsOf(v) \ {id}) \cup {r}
      BY <2>1, <2>2, <2>3 DEF SessionsOf, InMap, TypeOK
    <3>3. /\ Cardinality(SessionsOf(v)') <= Cardinality(SessionsOf(v))
          /\ Cardinality(SessionsOf(v)') \in Nat
      BY <3>1, <3>2, SessionsAreFinite, Exchange
    <3>4. QED
      BY <2>2, <3>3, SessionsAreFinite DEF CountCoversSessions, TypeOK
  <2>4. CASE v # user[r]
    <3>1. SessionsOf(v)' \subseteq SessionsOf(v) /\ count'[v] = count[v]
      BY <2>1, <2>2, <2>4 DEF SessionsOf, InMap, TypeOK
    <3>2. QED
      BY <3>1, StillCovered
  <2>5. QED
    BY <2>3, <2>4
<1>7. ASSUME NEW r \in Requests, DestroyCount(r)
      PROVE  Cardinality(SessionsOf(v)') <= count'[v]
  <2>1. /\ UNCHANGED <<state, owner>> /\ count' = [count EXCEPT ![user[r]] = @ - 1]
        /\ pc[r] = "destroyCount" /\ pc' = [pc EXCEPT ![r] = "done"]
        /\ user' = [user EXCEPT ![r] = NoUser] /\ user[r] \in Users
    BY <1>7 DEF DestroyCount, Finish, sessionVars, Tracked, Special
  <2>2. CASE v = user[r]
    <3>1. r \in SessionsOf(v)
      BY <2>1, <2>2 DEF SessionsOf
    <3>2. SessionsOf(v)' \subseteq SessionsOf(v) \ {r}
      BY <2>1, <2>2 DEF SessionsOf, InMap, TypeOK
    <3>3. /\ IsFiniteSet(SessionsOf(v) \ {r})
          /\ Cardinality(SessionsOf(v) \ {r}) = Cardinality(SessionsOf(v)) - 1
          /\ Cardinality(SessionsOf(v) \ {r}) \in Nat
      BY <3>1, SessionsAreFinite, FS_RemoveElement, FS_CardinalityType
    <3>4. /\ Cardinality(SessionsOf(v)') <= Cardinality(SessionsOf(v) \ {r})
          /\ Cardinality(SessionsOf(v)') \in Nat
      BY <3>2, <3>3, FS_Subset, FS_CardinalityType
    <3>5. count'[v] = count[v] - 1 /\ count[v] \in Nat
      BY <2>1, <2>2 DEF TypeOK
    <3>6. QED
      BY <3>3, <3>4, <3>5, SessionsAreFinite DEF CountCoversSessions
  <2>3. CASE v # user[r]
    <3>1. SessionsOf(v)' \subseteq SessionsOf(v) /\ count'[v] = count[v]
      BY <2>1, <2>3 DEF SessionsOf, InMap, TypeOK
    <3>2. QED
      BY <3>1, StillCovered
  <2>4. QED
    BY <2>2, <2>3
<1>8. ASSUME GcMark, Live(gcKey) PROVE Cardinality(SessionsOf(v)') <= count'[v]
  <2>1. SessionsOf(v)' \subseteq SessionsOf(v) /\ count'[v] = count[v]
    BY <1>8 DEF GcMark, handlerVars, SessionsOf, InMap, Live, TypeOK
  <2>2. QED
    BY <2>1, StillCovered
<1>9. ASSUME GcDelete PROVE Cardinality(SessionsOf(v)') <= count'[v]
  <2>1. SessionsOf(v)' \subseteq SessionsOf(v) /\ count'[v] = count[v]
    BY <1>9 DEF GcDelete, Delete, handlerVars, SessionsOf, InMap, TypeOK
  <2>2. QED
    BY <2>1, StillCovered
<1>10. QED
  BY <1>1, <1>2, <1>3, <1>4, <1>5, <1>6, <1>7, <1>8, <1>9, AccountCases

LEMMA InitCInv == Init => CInv
<1> SUFFICES ASSUME Init PROVE CInv
  OBVIOUS
<1>1. TypeOK
  BY InitIInv DEF IInv
<1>2. Owned /\ Tracked
  BY DEF Init, Owned, Tracked, InMap, Special
<1>3. CountCoversSessions
  <2>1. \A u \in Users : SessionsOf(u) = {}
    BY DEF Init, SessionsOf, InMap
  <2>2. \A u \in Users : Cardinality(SessionsOf(u)) = 0 /\ count[u] = 0
    BY <2>1, FS_EmptySet DEF Init
  <2>3. QED
    BY <2>2 DEF CountCoversSessions
<1>4. QED
  BY <1>1, <1>2, <1>3 DEF CInv

\* sessionPerUser is never below the number of sessions of an account, whatever
\* handlers and the collector do in between: destroySession never meets an account
\* it does not know, and the account never has more sessions than the limit.
THEOREM CountsCoverSessions == Spec => []CountCoversSessions
<1>1. Init => IInv /\ CInv
  BY InitIInv, InitCInv
<1>2. IInv /\ CInv /\ [Next]_vars => IInv' /\ CInv'
  BY StepTypes, StepUses, StepTracked, StepCovered DEF IInv, CInv
<1>3. CInv => CountCoversSessions
  BY DEF CInv
<1>4. QED
  BY <1>1, <1>2, <1>3, PTL DEF Spec

-----------------------------------------------------------------------------
(***************************************************************************)
(* The answer to a request (HttpExchange).  Whatever a resource left on a  *)
(* response is reset with its content (setDataStreamer of nothing), so a   *)
(* response is at any time either Uncached or has the content that the     *)
(* filter let through; the cookies of a session are set behind that.       *)
(***************************************************************************)
Uncached(r) == NoCaching \subseteq r.cache.flags /\ r.cache.maxAge = 0 /\ ~exist(r.headers, "Last-Modified")

IsResponse(r) ==
    /\ r = [code |-> r.code, minor |-> r.minor, headers |-> r.headers, cache |-> r.cache,
            contentType |-> r.contentType, noSniff |-> r.noSniff, cookies |-> r.cookies, streamer |-> r.streamer,
            hsts |-> r.hsts, xframe |-> r.xframe, xss |-> r.xss, realm |-> r.realm]
    /\ r.cache = [flags |-> r.cache.flags, maxAge |-> r.cache.maxAge, sMaxAge |-> r.cache.sMaxAge]

\* A response that nothing was put on, or only what is made for it.
Bare(r) == IsResponse(r) /\ Uncached(r) /\ r.streamer = NoStreamer
Made(r) == IsResponse(r) /\ Uncached(r) /\ r.streamer.kind \notin {"file", "static", "page"}

\* What SentAsAllowed asks of a response, for the session that is known.
Empty == ""
Cleared(st, known, path) ==
    LET e == evaluateAction(st.rules, path, known, known.domain) IN
    st.filtered => e.accept /\ e.redirectLocation = Empty
Permitted(st, known, r) ==
    /\ r.streamer.kind \in {"file", "static", "page"} => Cleared(st, known, r.streamer.of)
    /\ r.streamer.kind \notin {"file", "static"} => Uncached(r)
Known(st, req) ==
    LET id == getStringValue(req.cookies, "sessionId") IN
    IF id \in DOMAIN st.sessions THEN st.sessions[id] ELSE NoSession

\* The same but for cookies and code.
SameContent(r1, r2) == IsResponse(r1) /\ r1.streamer = r2.streamer /\ r1.cache = r2.cache /\ r1.headers = r2.headers

LEMMA MadeIsPermitted == ASSUME NEW st, NEW known, NEW r, Made(r) PROVE Permitted(st, known, r)
  BY DEF Made, Permitted

LEMMA BareIsMade == ASSUME NEW r, Bare(r) PROVE Made(r)
  BY DEF Made, Bare, NoStreamer

LEMMA SameContentKeeps ==
  ASSUME NEW r1, NEW r2, SameContent(r1, r2)
  PROVE  /\ Made(r2) => Made(r1)
         /\ Bare(r2) => Bare(r1)
         /\ \A st, known : Permitted(st, known, r2) => Permitted(st, known, r1)
  BY DEF SameContent, Made, Bare, Permitted, Uncached

\* What the setters leave.
LEMMA CookiesKeep ==
  ASSUME NEW r, IsResponse(r), NEW c
  PROVE  SameContent([r EXCEPT !.cookies = c], r) /\ [r EXCEPT !.cookies = c].cookies = c
  BY DEF SameContent, IsResponse

LEMMA CodeKeeps ==
  ASSUME NEW r, IsResponse(r), NEW c
  PROVE  SameContent([r EXCEPT !.code = c], r) /\ SameContent([r EXCEPT !.minor = c], r)
         /\ [r EXCEPT !.code = c].cookies = r.cookies
  BY DEF SameContent, IsResponse

LEMMA TypeKeeps ==
  ASSUME NEW r, IsResponse(r), NEW c, NEW n, NEW s, s = setContentType(r, c, n)
  PROVE  SameContent(s, r) /\ s.contentType = c
<1>1. s = [code |-> r.code, minor |-> r.minor, headers |-> r.headers, cache |-> r.cache,
           contentType |-> c, noSniff |-> n, cookies |-> r.cookies, streamer |-> r.streamer,
           hsts |-> r.hsts, xframe |-> r.xframe, xss |-> r.xss, realm |-> r.realm]
  BY DEF IsResponse, setContentType
<1>2. s.cache = r.cache /\ s.headers = r.headers /\ s.streamer = r.streamer /\ s.contentType = c
  BY <1>1
<1>3. IsResponse(s)
  BY <1>1, <1>2 DEF IsResponse
<1>4. QED
  BY <1>2, <1>3 DEF SameContent

LEMMA ExtensionKeeps ==
  ASSUME NEW r, IsResponse(r), NEW path
  PROVE  SameContent(setResponseContentTypeByFileExtension(r, path), r)
<1>1. SameContent(r, r)
  BY DEF SameContent
<1>2. QED
  BY <1>1, TypeKeeps DEF setResponseContentTypeByFileExtension

LEMMA StreamerSet ==
  ASSUME NEW r, IsResponse(r), NEW x, x # NoStreamer, NEW s, s = setDataStreamer(r, x)
  PROVE  /\ IsResponse(s) /\ s.streamer = x /\ s.cache = r.cache /\ s.headers = r.headers
  BY DEF IsResponse, setDataStreamer, setDataStreamerOnly

PutOn(r, x, h, c) == [r EXCEPT !.streamer = x, !.headers = h, !.cache = c]
LEMMA ContentPut ==
  ASSUME NEW r, IsResponse(r), NEW x, NEW h, NEW c, c = [flags |-> c.flags, maxAge |-> c.maxAge, sMaxAge |-> c.sMaxAge],
         NEW s, s = PutOn(r, x, h, c)
  PROVE  IsResponse(s) /\ s.streamer = x /\ s.headers = h /\ s.cache = c
<1> DEFINE r1 == [r EXCEPT !.streamer = x]
           r2 == [r1 EXCEPT !.headers = h]
<1>1. s = [r2 EXCEPT !.cache = c]
  BY DEF PutOn
<1>2. r1 = [code |-> r.code, minor |-> r.minor, headers |-> r.headers, cache |-> r.cache, contentType |-> r.contentType,
            noSniff |-> r.noSniff, cookies |-> r.cookies, streamer |-> x,
            hsts |-> r.hsts, xframe |-> r.xframe, xss |-> r.xss, realm |-> r.realm]
  BY DEF IsResponse
<1> HIDE DEF r1
<1>3. r2 = [code |-> r.code, minor |-> r.minor, headers |-> h, cache |-> r.cache, contentType |-> r.contentType,
            noSniff |-> r.noSniff, cookies |-> r.cookies, streamer |-> x,
            hsts |-> r.hsts, xframe |-> r.xframe, xss |-> r.xss, realm |-> r.realm]
  BY <1>2
<1> HIDE DEF r2
<1>4. s = [code |-> r.code, minor |-> r.minor, headers |-> h, cache |-> c, contentType |-> r.contentType,
           noSniff |-> r.noSniff, cookies |-> r.cookies, streamer |-> x,
           hsts |-> r.hsts, xframe |-> r.xframe, xss |-> r.xss, realm |-> r.realm]
  BY <1>1, <1>3
<1>5. s.streamer = x /\ s.headers = h /\ s.cache = c
  BY <1>4
<1>6. QED
  BY <1>4, <1>5 DEF IsResponse

LEMMA StreamerReset ==
  ASSUME NEW r, IsResponse(r), NEW s, s = setDataStreamer(r, NoStreamer)
  PROVE  Bare(s) /\ s.contentType # "text/html"
<1> DEFINE h == remove(r.headers, "Last-Modified")
           c == [CacheDefaults EXCEPT !.flags = NoCaching]
           none == ""
           no == FALSE
           t == PutOn(r, NoStreamer, h, c)
<1>1. c = [flags |-> NoCaching, maxAge |-> 0, sMaxAge |-> 0]
  BY DEF CacheDefaults
<1>2. ~exist(h, "Last-Modified")
  BY DEF remove, exist
<1>3. s = setContentType(t, none, no)
  BY Zenon DEF setDataStreamer, PutOn
<1>4. none # "text/html"
  BY Zenon
<1> HIDE DEF h, c, none, no, NoStreamer
<1>5. c = [flags |-> c.flags, maxAge |-> c.maxAge, sMaxAge |-> c.sMaxAge]
  BY <1>1
<1>6. t.cache = c /\ t.headers = h /\ t.streamer = NoStreamer
  BY <1>5, ContentPut
<1>7. IsResponse(t)
  BY <1>5, ContentPut
<1> HIDE DEF t
<1>8. SameContent(s, t) /\ s.contentType = none
  BY <1>3, <1>7, TypeKeeps
<1>9. QED
  BY <1>1, <1>2, <1>4, <1>6, <1>8 DEF Bare, Uncached, SameContent

LEMMA RedirectIsBare ==
  ASSUME NEW r, IsResponse(r), NEW location, NEW a, a = setResponseRedirect(r, location)
  PROVE  Bare(a.r) /\ a.code = 307
<1> DEFINE s == [r EXCEPT !.headers = replace(@, "Location", location)]
<1>1. IsResponse(s)
  BY DEF IsResponse
<1>2. a.r = setDataStreamer(s, NoStreamer) /\ a.code = 307
  BY DEF setResponseRedirect, Answered
<1> HIDE DEF s
<1>3. Bare(a.r)
  BY <1>1, <1>2, StreamerReset
<1>4. QED
  BY <1>2, <1>3

LEMMA JsonIsMade ==
  ASSUME NEW r, Made(r), NEW code, NEW a, a = Json(code, r)
  PROVE  Made(a.r) /\ a.code = code
<1> DEFINE x == [kind |-> "json", of |-> <<>>]
           s == setDataStreamer(r, x)
           yes == TRUE
<1>1. x # NoStreamer /\ x.kind = "json"
  BY DEF NoStreamer
<1>2. a.r = setContentType(s, "application/json", yes) /\ a.code = code
  BY DEF Json, Answered
<1> HIDE DEF x, yes
<1>3. IsResponse(s) /\ s.streamer = x /\ s.cache = r.cache /\ s.headers = r.headers
  BY <1>1, StreamerSet DEF Made
<1> HIDE DEF s
<1>4. Made(s)
  BY <1>1, <1>3 DEF Made, Uncached
<1>5. SameContent(a.r, s)
  BY <1>2, <1>3, TypeKeeps
<1>6. QED
  BY <1>2, <1>4, <1>5, SameContentKeeps

-----------------------------------------------------------------------------
\* What is found in memory or on the disk for a response.
FoundFrom(f, r) ==
    /\ IsResponse(f.r) /\ (~f.ok => f.r = r)
    /\ f.ok /\ ~f.info.isDir => f.r.streamer.kind \in {"file", "static"} /\ f.r.streamer.of = f.info.path

LEMMA CacheableKeeps ==
  ASSUME NEW r, IsResponse(r), NEW s, s = Cacheable(r)
  PROVE  IsResponse(s) /\ s.streamer = r.streamer
<1> DEFINE k == r.cache
           fl == (k.flags \ NoCaching) \cup {"immutable"}
           k1 == [k EXCEPT !.flags = (@ \ NoCaching) \cup {"immutable"}]
           c == [flags |-> fl, maxAge |-> 3600, sMaxAge |-> k.sMaxAge]
           r1 == [r EXCEPT !.cache = k1]
<1>1. k = [flags |-> k.flags, maxAge |-> k.maxAge, sMaxAge |-> k.sMaxAge]
  BY DEF IsResponse
<1> HIDE DEF fl
<1>2. k1 = [flags |-> fl, maxAge |-> k.maxAge, sMaxAge |-> k.sMaxAge]
  BY <1>1 DEF fl
<1>a. s = [r1 EXCEPT !.cache = [@ EXCEPT !.maxAge = 3600]]
  BY DEF Cacheable
<1> HIDE DEF k1
<1>b. r1 = [code |-> r.code, minor |-> r.minor, headers |-> r.headers, cache |-> k1,
           contentType |-> r.contentType, noSniff |-> r.noSniff, cookies |-> r.cookies, streamer |-> r.streamer,
           hsts |-> r.hsts, xframe |-> r.xframe, xss |-> r.xss, realm |-> r.realm]
  BY DEF IsResponse
<1>c. r1.cache = k1 /\ [k1 EXCEPT !.maxAge = 3600] = c
  BY <1>b, <1>2
<1>d. s = [r1 EXCEPT !.cache = [k1 EXCEPT !.maxAge = 3600]]
  BY <1>a, <1>c
<1> HIDE DEF r1
<1>e. s = [r1 EXCEPT !.cache = c]
  BY <1>c, <1>d
<1>f. c.flags = fl /\ c.maxAge = 3600 /\ c.sMaxAge = k.sMaxAge
  OBVIOUS
<1>g. c = [flags |-> c.flags, maxAge |-> c.maxAge, sMaxAge |-> c.sMaxAge]
  BY <1>f
<1> HIDE DEF c
<1>3. s = [code |-> r.code, minor |-> r.minor, headers |-> r.headers, cache |-> c,
           contentType |-> r.contentType, noSniff |-> r.noSniff, cookies |-> r.cookies, streamer |-> r.streamer,
           hsts |-> r.hsts, xframe |-> r.xframe, xss |-> r.xss, realm |-> r.realm]
  BY <1>b, <1>e
<1>4. s.cache = c /\ s.streamer = r.streamer
  BY <1>3
<1>5. QED
  BY <1>g, <1>3, <1>4 DEF IsResponse

\* A content of its own, whatever type its name has.
LEMMA Mapped ==
  ASSUME NEW r, IsResponse(r), NEW kind \in {"file", "static"}, NEW path, NEW x, x = [kind |-> kind, of |-> path]
  PROVE  /\ x # NoStreamer
         /\ IsResponse(setDataStreamer(r, x)) /\ setDataStreamer(r, x).streamer = x
<1>1. x # NoStreamer
  BY DEF NoStreamer
<1>2. QED
  BY <1>1, StreamerSet

LEMMA FoundOk == ASSUME NEW info, NEW r, NEW f, f = Found(TRUE, info, r) PROVE f.ok
  BY DEF Found

LEMMA FileMapped ==
  ASSUME NEW r, IsResponse(r), NEW st, NEW path, NEW f, f = MapFile(st, r, path, path)
  PROVE  FoundFrom(f, r)
<1> DEFINE x == [kind |-> "file", of |-> path]
           t == setDataStreamer(r, x)
           m == setResponseContentTypeByFileExtension(t, path)
           n == [m EXCEPT !.headers = IF st.date THEN add(@, "Last-Modified", path) ELSE @]
           c == Cacheable(n)
<1>1. CASE ~st.files[path].readable
  BY <1>1 DEF MapFile, Found, FoundFrom, NoInfo
<1>2. CASE st.files[path].readable
  <2>1. f.ok /\ f.r = c /\ f.info.path = path
    BY <1>2 DEF MapFile, Found, NoInfo
  <2>2. IsResponse(t) /\ t.streamer = x
    BY Mapped
  <2> HIDE DEF t
  <2>3. IsResponse(m) /\ m.streamer = x
    BY <2>2, ExtensionKeeps DEF SameContent
  <2> HIDE DEF m
  <2>4. IsResponse(n) /\ n.streamer = x
    BY <2>3 DEF IsResponse
  <2> HIDE DEF n
  <2>5. IsResponse(c) /\ c.streamer = x
    BY <2>4, CacheableKeeps
  <2> HIDE DEF c
  <2>6. QED
    BY <2>1, <2>5 DEF FoundFrom
<1>3. QED
  BY <1>1, <1>2

LEMMA StaticFound ==
  ASSUME NEW r, IsResponse(r), NEW path, NEW s,
         s = setDataStreamer(setResponseContentTypeByFileExtension(Cacheable(r), path), [kind |-> "static", of |-> path])
  PROVE  IsResponse(s) /\ s.streamer = [kind |-> "static", of |-> path]
<1> DEFINE c == Cacheable(r)
           m == setResponseContentTypeByFileExtension(c, path)
<1>1. IsResponse(c)
  BY CacheableKeeps
<1> HIDE DEF c
<1>2. IsResponse(m)
  BY <1>1, ExtensionKeeps DEF SameContent
<1>3. s = setDataStreamer(m, [kind |-> "static", of |-> path])
  BY DEF c
<1> HIDE DEF m
<1>4. QED
  BY <1>2, <1>3, Mapped

LEMMA FileFound ==
  ASSUME NEW r, IsResponse(r), NEW st, NEW uri, NEW tail,
         NEW f, f = getLocalFilePathFromURI2(st, r, uri, tail, FALSE)
  PROVE  FoundFrom(f, r)
<1> DEFINE path == uri \o tail
           file == st.files[path]
           s == setDataStreamer(setResponseContentTypeByFileExtension(Cacheable(r), path), [kind |-> "static", of |-> path])
<1> HIDE DEF path
<1>1. CASE path \in st.static
  <2> DEFINE info == [NoInfo EXCEPT !.path = path, !.mem = TRUE]
  <2>1. f = Found(TRUE, info, s)
    BY <1>1 DEF getLocalFilePathFromURI2, path
  <2>2. IsResponse(s) /\ s.streamer = [kind |-> "static", of |-> path]
    BY StaticFound
  <2>3. info.path = path
    BY DEF NoInfo
  <2> HIDE DEF s, info
  <2>a. s.streamer.kind = "static" /\ s.streamer.of = path
    BY <2>2
  <2>b. f.ok
    BY <2>1, FoundOk, Zenon
  <2>c. Found(TRUE, info, s).r = s /\ Found(TRUE, info, s).info = info
    BY Zenon DEF Found
  <2>4. f.r = s /\ f.info = info
    BY <2>1, <2>c, Zenon
  <2>5. QED
    BY <2>2, <2>3, <2>4, <2>a, <2>b DEF FoundFrom
<1>2. CASE path \notin st.static /\ path \in DOMAIN st.files /\ file.kind = "dir"
  <2> DEFINE info == [NoInfo EXCEPT !.isDir = TRUE, !.pathExist = TRUE, !.path = IF tail = <<>> THEN path ELSE @]
             ok == tail = <<>> /\ file.readable
  <2>1. f = Found(ok, info, r)
    BY <1>2 DEF getLocalFilePathFromURI2, path
  <2>2. info.isDir
    BY DEF NoInfo
  <2> HIDE DEF info, ok
  <2>c. Found(ok, info, r).r = r /\ Found(ok, info, r).info = info
    BY Zenon DEF Found
  <2>3. f.r = r /\ f.info = info
    BY <2>1, <2>c, Zenon
  <2>4. QED
    BY <2>2, <2>3 DEF FoundFrom
<1>3. CASE path \notin st.static /\ path \in DOMAIN st.files /\ file.kind \notin {"outside", "dir", "special"}
  <2>1. f = MapFile(st, r, path, path)
    BY <1>3 DEF getLocalFilePathFromURI2, path
  <2>2. QED
    BY <2>1, FileMapped
<1>4. CASE path \notin st.static /\ (path \notin DOMAIN st.files \/ file.kind \in {"outside", "special"})
  <2>1. ~f.ok /\ f.r = r
    BY <1>4 DEF getLocalFilePathFromURI2, path, Found
  <2>2. QED
    BY <2>1 DEF FoundFrom
<1>5. QED
  BY <1>1, <1>2, <1>3, <1>4

LEMMA AnyFound ==
  ASSUME NEW r, IsResponse(r), NEW st, NEW uri, NEW f, f = FoundFor(st, r, uri)
  PROVE  FoundFrom(f, r)
<1> DEFINE none == Found(FALSE, NoInfo, r)
           html == OrElse(none, st, uri, <<".html">>)
           index == OrElse(html, st, uri, <<"index", ".html">>)
<1>1. ASSUME NEW g, FoundFrom(g, r), NEW tail PROVE FoundFrom(OrElse(g, st, uri, tail), r)
  <2>1. CASE g.ok
    BY <1>1, <2>1 DEF OrElse
  <2>2. CASE ~g.ok
    <3>1. g.r = r
      BY <1>1, <2>2 DEF FoundFrom
    <3>2. OrElse(g, st, uri, tail) = getLocalFilePathFromURI2(st, r, uri, tail, FALSE)
      BY <2>2, <3>1 DEF OrElse
    <3>3. QED
      BY <3>2, FileFound
  <2>3. QED
    BY <2>1, <2>2
<1>2. FoundFrom(none, r)
  BY DEF Found, FoundFrom
<1> HIDE DEF none
<1>3. FoundFrom(html, r)
  BY <1>1, <1>2
<1> HIDE DEF html
<1>4. FoundFrom(index, r)
  BY <1>1, <1>3
<1>5. f = OrElse(index, st, uri, <<>>)
  BY DEF FoundFor, index, html, none
<1> HIDE DEF index
<1>6. QED
  BY <1>1, <1>4, <1>5

-----------------------------------------------------------------------------
\* The answers of the resources.
LEMMA AnsweredParts == ASSUME NEW code, NEW r PROVE Answered(code, r).code = code /\ Answered(code, r).r = r
  BY DEF Answered

\* A text may be looked for in an answer only when it is what the filter let through.
Answering(st, known, path, a) ==
    /\ IsResponse(a.r) /\ Permitted(st, known, a.r)
    /\ a.r.contentType = "text/html" => Cleared(st, known, path)

LEMMA BareAnswers ==
  ASSUME NEW st, NEW known, NEW path, NEW a, Bare(a.r), a.r.contentType # "text/html"
  PROVE  Answering(st, known, path, a)
  BY BareIsMade, MadeIsPermitted DEF Answering, Bare

LEMMA JudgedAnswers ==
  ASSUME NEW st, NEW known, NEW r, NEW found, FoundFrom(found, r), NEW verdict,
         st.filtered => verdict = evaluateAction(st.rules, found.info.path, known, known.domain),
         NEW a, a = WithContentIfOk(Judged(found, verdict))
  PROVE  Answering(st, known, found.info.path, a)
<1> DEFINE j == Judged(found, verdict)
           path == found.info.path
           reset == setDataStreamer(j.r, NoStreamer)
<1>1. ASSUME IsResponse(j.r), j.code # 200 PROVE Answering(st, known, path, a)
  <2>1. a.r = reset
    BY <1>1, AnsweredParts DEF WithContentIfOk
  <2>2. Bare(reset) /\ reset.contentType # "text/html"
    BY <1>1, StreamerReset
  <2>3. QED
    BY <2>1, <2>2, BareAnswers
<1>2. CASE ~found.ok \/ found.info.isDir
  <2>1. j = Answered(404, found.r)
    BY <1>2, Zenon DEF Judged
  <2>2. QED
    BY <1>1, <2>1, AnsweredParts DEF FoundFrom
<1>3. CASE found.ok /\ ~found.info.isDir /\ ~verdict.accept
  <2>1. j = Answered(403, found.r)
    BY <1>3, Zenon DEF Judged
  <2>2. QED
    BY <1>1, <2>1, AnsweredParts DEF FoundFrom
<1>4. CASE found.ok /\ ~found.info.isDir /\ verdict.accept /\ verdict.redirectLocation # Empty
  <2>1. j = setResponseRedirect(found.r, verdict.redirectLocation)
    BY <1>4, Zenon DEF Judged, Empty
  <2> HIDE DEF j
  <2>2. IsResponse(j.r) /\ j.code = 307
    BY <2>1, RedirectIsBare DEF FoundFrom, Bare
  <2>3. QED
    BY <1>1, <2>2
<1>5. CASE found.ok /\ ~found.info.isDir /\ verdict.accept /\ verdict.redirectLocation = Empty
  <2>1. j = Answered(200, found.r)
    BY <1>5, Zenon DEF Judged, Empty
  <2>2. a.r = found.r
    BY <2>1, AnsweredParts DEF WithContentIfOk
  <2>3. Cleared(st, known, path)
    BY <1>5 DEF Cleared
  <2> HIDE DEF j, path
  <2>4. IsResponse(a.r) /\ a.r.streamer.kind \in {"file", "static"} /\ a.r.streamer.of = path
    BY <1>5, <2>2 DEF FoundFrom, path
  <2>5. Permitted(st, known, a.r)
    <3> HIDE DEF Cleared
    <3>1. Cleared(st, known, a.r.streamer.of)
      BY <2>3, <2>4, Zenon
    <3>2. QED
      BY <2>4, <3>1 DEF Permitted
  <2>6. QED
    BY <2>3, <2>4, <2>5 DEF Answering, path
<1>6. QED
  BY <1>2, <1>3, <1>4, <1>5

IsWeb(w) ==
    /\ w = [r |-> w.r, sid |-> w.sid, session |-> w.session, release |-> w.release, destroy |-> w.destroy]
    /\ IsResponse(w.r)

\* A page that is made anew is not kept by the browser.
LEMMA PageAnswers ==
  ASSUME NEW st, NEW known, NEW w, IsResponse(w.r), NEW req, NEW info, NEW gone,
         Cleared(st, known, info.path), NEW a, a = procResource_HTMLIEngine(st, w, req, info, gone)
  PROVE  Answering(st, known, info.path, a)
<1> DEFINE bare == setDataStreamer(w.r, NoStreamer)
           page == procResource_JProcessor(w, req, procResource_HTMLIEngineInclude(st, Stored(st, info.path)))
           x == [kind |-> "page", of |-> info.path, page |-> page]
           s == setDataStreamerOnly(bare, x)
<1>1. Bare(bare) /\ bare.contentType # "text/html"
  BY StreamerReset
<1>2. a = Answered(404, bare) \/ a = Answered(200, s)
  BY Zenon DEF procResource_HTMLIEngine
<1> HIDE DEF bare, page
<1>3. x.kind = "page" /\ x.of = info.path
  OBVIOUS
<1> HIDE DEF x
<1>4. IsResponse(s) /\ s.streamer = x /\ s.cache = bare.cache /\ s.headers = bare.headers
      /\ s.contentType = bare.contentType
  BY <1>1 DEF Bare, IsResponse, setDataStreamerOnly
<1> HIDE DEF s
<1>5. CASE a = Answered(404, bare)
  BY <1>1, <1>5, AnsweredParts, BareAnswers
<1>6. CASE a = Answered(200, s)
  <2>1. a.r = s
    BY <1>6, AnsweredParts
  <2>2. Uncached(s)
    BY <1>1, <1>4 DEF Bare, Uncached
  <2>3. QED
    BY <1>1, <1>3, <1>4, <2>1, <2>2 DEF Answering, Permitted
<1>7. QED
  BY <1>2, <1>5, <1>6

LEMMA FoundAnswers ==
  ASSUME NEW st, NEW w, IsWeb(w), NEW req, NEW r, NEW found, FoundFrom(found, r), NEW gone,
         NEW b, b = AnswerWith(st, w, req, found, gone)
  PROVE  IsResponse(b.r) /\ Permitted(st, w.session, b.r)
<1> DEFINE verdict == IF st.filtered THEN evaluateAction(st.rules, found.info.path, w.session, w.session.domain)
                      ELSE [accept |-> TRUE, redirectLocation |-> Empty]
           a == WithContentIfOk(Judged(found, verdict))
           w1 == [w EXCEPT !.r = a.r]
           page == procResource_HTMLIEngine(st, w1, req, found.info, gone)
           i == Interactive(st, w, req, found.info, gone, a)
           path == found.info.path
<1>1. b = OrRedirected(st, i)
  BY Zenon DEF AnswerWith, Empty
<1>2. st.filtered => verdict = evaluateAction(st.rules, found.info.path, w.session, w.session.domain)
  BY Zenon
<1> HIDE DEF verdict
<1>3. Answering(st, w.session, path, a)
  BY <1>2, JudgedAnswers
<1>4. i = a \/ (a.r.contentType = "text/html" /\ i = page)
  BY DEF Interactive
<1> HIDE DEF a
<1>5. w1.r = a.r
  BY DEF IsWeb
<1> HIDE DEF w1
<1>6. ASSUME a.r.contentType = "text/html", i = page PROVE Answering(st, w.session, path, i)
  BY <1>3, <1>5, <1>6, PageAnswers DEF Answering
<1> HIDE DEF i, page, path
<1>7. Answering(st, w.session, path, i)
  BY <1>3, <1>4, <1>6
<1>8. b = i \/ b = setResponseRedirect(i.r, st.redirectOn404)
  BY <1>1, Zenon DEF OrRedirected
<1>9. QED
  BY <1>7, <1>8, RedirectIsBare, BareIsMade, MadeIsPermitted DEF Answering, Bare

LEMMA FileAnswers ==
  ASSUME NEW st, NEW w, IsWeb(w), Made(w.r), NEW req, NEW gone, NEW b, b = procResource_File(st, w, req, gone)
  PROVE  IsResponse(b.r) /\ Permitted(st, w.session, b.r)
<1> DEFINE found == FoundFor(st, w.r, req.uri)
<1>1. CASE st.root = <<>>
  BY <1>1, AnsweredParts, MadeIsPermitted DEF procResource_File, Made
<1>2. CASE st.root # <<>>
  <2>1. b = AnswerWith(st, w, req, found, gone)
    BY <1>2 DEF procResource_File
  <2>2. FoundFrom(found, w.r)
    BY AnyFound DEF IsWeb
  <2> HIDE DEF found
  <2>3. QED
    BY <2>1, <2>2, FoundAnswers
<1>3. QED
  BY <1>1, <1>2

-----------------------------------------------------------------------------
\* What the handler does around them: sessions and their cookies.
LEMMA WebPut ==
  ASSUME NEW w, IsWeb(w), NEW r, IsResponse(r), NEW v, v = [w EXCEPT !.r = r]
  PROVE  IsWeb(v) /\ v.r = r /\ v.session = w.session /\ v.sid = w.sid /\ v.release = w.release
         /\ v.destroy = w.destroy
<1>1. v = [r |-> r, sid |-> w.sid, session |-> w.session, release |-> w.release, destroy |-> w.destroy]
  BY DEF IsWeb
<1>2. QED
  BY <1>1 DEF IsWeb

LEMMA WebCookies ==
  ASSUME NEW w, IsWeb(w), NEW c, NEW v, v = [w EXCEPT !.r.cookies = c]
  PROVE  IsWeb(v) /\ SameContent(v.r, w.r) /\ v.r.cookies = c
         /\ v.session = w.session /\ v.sid = w.sid /\ v.release = w.release /\ v.destroy = w.destroy
<1> DEFINE s == [w.r EXCEPT !.cookies = c]
<1>1. SameContent(s, w.r) /\ s.cookies = c
  BY CookiesKeep DEF IsWeb
<1>2. v = [w EXCEPT !.r = s]
  OBVIOUS
<1> HIDE DEF s
<1>3. v = [r |-> s, sid |-> w.sid, session |-> w.session, release |-> w.release, destroy |-> w.destroy]
  BY <1>2 DEF IsWeb
<1>4. v.r = s /\ v.session = w.session /\ v.sid = w.sid /\ v.release = w.release /\ v.destroy = w.destroy
  BY <1>3
<1>5. QED
  BY <1>1, <1>3, <1>4 DEF IsWeb, SameContent

\* A session is opened, and known, or the response gets a cookie at most.
LEMMA SessionOpens ==
  ASSUME NEW st, NEW w, IsWeb(w), NEW v, v = sessionOpen(st, w)
  PROVE  /\ IsWeb(v) /\ SameContent(v.r, w.r) /\ v.destroy = w.destroy
         /\ v.session = IF w.sid \in DOMAIN st.sessions THEN st.sessions[w.sid] ELSE w.session
<1>1. CASE w.sid \in DOMAIN st.sessions
  <2> DEFINE x == st.sessions[w.sid]
             yes == TRUE
  <2>1. v = [w EXCEPT !.session = x, !.release = yes]
    BY <1>1, Zenon DEF sessionOpen
  <2> HIDE DEF x, yes
  <2>2. v = [r |-> w.r, sid |-> w.sid, session |-> x, release |-> yes, destroy |-> w.destroy]
    BY <2>1 DEF IsWeb
  <2>3. v.r = w.r /\ v.session = x /\ v.destroy = w.destroy /\ v.sid = w.sid /\ v.release = yes
    BY <2>2
  <2>4. IsWeb(v) /\ SameContent(v.r, w.r)
    BY <2>2, <2>3 DEF IsWeb, SameContent
  <2>5. QED
    BY <1>1, <2>3, <2>4 DEF x
<1>2. CASE w.sid \notin DOMAIN st.sessions
  <2> DEFINE u == [w EXCEPT !.sid = Empty]
             c == IF w.sid = Empty THEN u.r.cookies ELSE addClearSecureCookie(u.r.cookies, "sessionId", "/")
  <2>1. v = [u EXCEPT !.r.cookies = c]
    BY <1>2, Zenon DEF sessionOpen, Empty
  <2>2. u = [r |-> w.r, sid |-> Empty, session |-> w.session, release |-> w.release, destroy |-> w.destroy]
    BY DEF IsWeb
  <2> HIDE DEF c, u
  <2>3. u.r = w.r /\ u.sid = Empty /\ u.session = w.session /\ u.release = w.release /\ u.destroy = w.destroy
    BY <2>2
  <2>4. IsWeb(u)
    BY <2>2, <2>3 DEF IsWeb
  <2>5. QED
    BY <1>2, <2>1, <2>3, <2>4, WebCookies
<1>3. QED
  BY <1>1, <1>2

LEMMA SessionReleases ==
  ASSUME NEW st, NEW w, IsWeb(w), NEW v, v = sessionRelease(st, w)
  PROVE  IsWeb(v) /\ SameContent(v.r, w.r) /\ v.destroy = w.destroy
<1>1. CASE ~w.release
  BY <1>1 DEF sessionRelease, SameContent, IsWeb
<1>2. CASE w.release
  <2>1. PICK c : v = [w EXCEPT !.r.cookies = c]
    BY <1>2, Zenon DEF sessionRelease
  <2>2. QED
    BY <2>1, WebCookies
<1>3. QED
  BY <1>1, <1>2

\* Both cookies of a session that was destroyed are told to be removed.
CookiesAreCleared(cookies) ==
    \A name \in {"sessionId", "jsSessionTimeout"} :
        name \in DOMAIN cookies /\ cookies[name].expires = 1 /\ cookies[name].value = Empty

LEMMA ClearedCookies ==
  ASSUME NEW c, NEW p
  PROVE  CookiesAreCleared(addClearSecureCookie(addClearSecureCookie(c, "jsSessionTimeout", p), "sessionId", p))
<1> DEFINE k == [CookieDefaults EXCEPT !.path = p, !.secure = TRUE, !.httpOnly = TRUE,
                                       !.expires = 1, !.sameSite = "Strict"]
           d == Put(c, "jsSessionTimeout", k)
           e == Put(d, "sessionId", k)
<1>1. addClearSecureCookie(addClearSecureCookie(c, "jsSessionTimeout", p), "sessionId", p) = e
  BY Zenon DEF addClearSecureCookie
<1>2. k.expires = 1 /\ k.value = Empty
  <2> DEFINE none == Empty
  <2>1. CookieDefaults = [value |-> none, expires |-> 0, max_age |-> Never, secure |-> FALSE, httpOnly |-> FALSE,
                          domain |-> none, path |-> none, sameSite |-> "Lax"]
    BY Zenon DEF CookieDefaults, Empty
  <2>2. QED
    BY <2>1
<1> HIDE DEF k
<1>3. \A name \in {"sessionId", "jsSessionTimeout"} : name \in DOMAIN e /\ e[name] = k
  BY DEF Put
<1> HIDE DEF e
<1>4. QED
  BY <1>1, <1>2, <1>3 DEF CookiesAreCleared

LEMMA SessionDestroys ==
  ASSUME NEW w, IsWeb(w), NEW v, v = sessionDestroy(w)
  PROVE  /\ IsWeb(v) /\ SameContent(v.r, w.r)
         /\ v.destroy => CookiesAreCleared(v.r.cookies)
<1>1. CASE ~w.destroy
  BY <1>1 DEF sessionDestroy, SameContent, IsWeb
<1>2. CASE w.destroy
  <2> DEFINE c == addClearSecureCookie(addClearSecureCookie(w.r.cookies, "jsSessionTimeout", "/"), "sessionId", "/")
  <2>1. v = [w EXCEPT !.r.cookies = c]
    BY <1>2, Zenon DEF sessionDestroy
  <2>2. CookiesAreCleared(c)
    BY ClearedCookies
  <2> HIDE DEF c
  <2>3. QED
    BY <2>1, <2>2, WebCookies
<1>3. QED
  BY <1>1, <1>2

\* Of an answer, whoever made it.
Fits(st, known, a) ==
    /\ IsResponse(a.r) /\ Permitted(st, known, a.r)
    /\ a.destroyed => CookiesAreCleared(a.r.cookies)

LEMMA Leaving ==
  ASSUME NEW d, IsWeb(d.w), NEW known, Permitted(d.site, known, d.w.r), NEW a, a = Leave(d)
  PROVE  Fits(d.site, known, a)
<1> DEFINE u == sessionRelease(d.site, d.w)
           v == sessionDestroy(u)
<1>1. a.r = v.r /\ a.destroyed = v.destroy
  BY DEF Leave, Left
<1>2. IsWeb(u) /\ SameContent(u.r, d.w.r)
  BY SessionReleases
<1> HIDE DEF u
<1>3. IsWeb(v) /\ SameContent(v.r, u.r) /\ (v.destroy => CookiesAreCleared(v.r.cookies))
  BY <1>2, SessionDestroys
<1> HIDE DEF v
<1>4. Permitted(d.site, known, v.r)
  BY <1>2, <1>3, SameContentKeeps
<1>5. QED
  BY <1>1, <1>3, <1>4 DEF Fits, IsWeb

\* The session's own calls answer without a content or with JSON.
Prepared(w) == IsWeb(w) /\ Made(w.r)

LEMMA PreparedStays ==
  ASSUME NEW w, Prepared(w)
  PROVE  /\ \A x : Prepared([w EXCEPT !.sid = x])
         /\ \A x : Prepared([w EXCEPT !.session = x])
         /\ \A x : Prepared([w EXCEPT !.destroy = x])
         /\ \A c : Prepared([w EXCEPT !.r.cookies = c])
<1>1. ASSUME NEW x PROVE Prepared([w EXCEPT !.sid = x])
  <2> DEFINE u == [w EXCEPT !.sid = x]
  <2>1. u = [r |-> w.r, sid |-> x, session |-> w.session, release |-> w.release, destroy |-> w.destroy]
    BY DEF Prepared, IsWeb
  <2> HIDE DEF u
  <2>2. u.r = w.r /\ IsWeb(u)
    BY <2>1 DEF Prepared, IsWeb
  <2>3. QED
    BY <2>2 DEF u, Prepared
<1>2. ASSUME NEW x PROVE Prepared([w EXCEPT !.session = x])
  <2> DEFINE u == [w EXCEPT !.session = x]
  <2>1. u = [r |-> w.r, sid |-> w.sid, session |-> x, release |-> w.release, destroy |-> w.destroy]
    BY DEF Prepared, IsWeb
  <2> HIDE DEF u
  <2>2. u.r = w.r /\ IsWeb(u)
    BY <2>1 DEF Prepared, IsWeb
  <2>3. QED
    BY <2>2 DEF u, Prepared
<1>3. ASSUME NEW x PROVE Prepared([w EXCEPT !.destroy = x])
  <2> DEFINE u == [w EXCEPT !.destroy = x]
  <2>1. u = [r |-> w.r, sid |-> w.sid, session |-> w.session, release |-> w.release, destroy |-> x]
    BY DEF Prepared, IsWeb
  <2> HIDE DEF u
  <2>2. u.r = w.r /\ IsWeb(u)
    BY <2>1 DEF Prepared, IsWeb
  <2>3. QED
    BY <2>2 DEF u, Prepared
<1>4. ASSUME NEW c PROVE Prepared([w EXCEPT !.r.cookies = c])
  BY WebCookies, SameContentKeeps DEF Prepared
<1>5. QED
  BY <1>1, <1>2, <1>3, <1>4

LEMMA BackIsPrepared ==
  ASSUME NEW w, Prepared(w), NEW code
  PROVE  /\ Prepared(Back(code, w).w) /\ Prepared(BackWithJson(code, w).w) /\ Prepared(LoggedOut(code, w).w)
<1>1. ASSUME NEW v, Prepared(v) PROVE Prepared(BackWithJson(code, v).w)
  <2> DEFINE r == Json(code, v.r).r
  <2>1. Made(r) /\ IsResponse(r)
    BY <1>1, JsonIsMade DEF Made, Prepared
  <2> HIDE DEF r
  <2>2. IsWeb([v EXCEPT !.r = r]) /\ [v EXCEPT !.r = r].r = r
    BY <1>1, <2>1, WebPut DEF Prepared
  <2>3. BackWithJson(code, v).w = [v EXCEPT !.r = r]
    BY DEF BackWithJson, Back, r
  <2>4. QED
    BY <2>1, <2>2, <2>3 DEF Prepared
<1>2. Prepared(LoggedOut(code, w).w)
  <2> DEFINE yes == TRUE
             v == [w EXCEPT !.destroy = yes]
  <2> HIDE DEF yes
  <2>1. Prepared(v)
    BY PreparedStays
  <2>2. LoggedOut(code, w) = BackWithJson(code, v)
    BY DEF LoggedOut, yes
  <2> HIDE DEF v
  <2>3. QED
    BY <1>1, <2>1, <2>2
<1>3. Prepared(Back(code, w).w)
  BY DEF Back
<1>4. QED
  BY <1>1, <1>2, <1>3

LEMMA LoginAnswers ==
  ASSUME NEW st, NEW w, Prepared(w), NEW auth
  PROVE  Prepared(procJAPI_Session_LOGIN(st, w, auth).w)
<1> DEFINE id == IF auth.idx = 0 THEN st.login ELSE Empty
           named == [w EXCEPT !.sid = id]
           v == [named EXCEPT !.r.cookies = setSecureCookie(@, "sessionId", id, Now, st.maxAge, Empty)]
           a == procJAPI_Session_LOGIN(st, w, auth)
<1>1. a = IF id = Empty THEN BackWithJson(401, named)
          ELSE IF st.csrf THEN BackWithJson(200, named) ELSE BackWithJson(200, v)
  BY Zenon DEF procJAPI_Session_LOGIN, Empty
<1> HIDE DEF id
<1>2. Prepared(named)
  BY PreparedStays
<1> HIDE DEF named
<1>3. Prepared(v)
  <2> DEFINE c == setSecureCookie(named.r.cookies, "sessionId", id, Now, st.maxAge, Empty)
  <2>1. v = [named EXCEPT !.r.cookies = c]
    BY Zenon
  <2> HIDE DEF c, v
  <2>2. QED
    BY <1>2, <2>1, PreparedStays
<1> HIDE DEF v, a
<1>4. QED
  BY <1>1, <1>2, <1>3, BackIsPrepared DEF a

LEMMA SecretAnswers ==
  ASSUME NEW st, NEW w, Prepared(w), NEW auth, NEW text, NEW right
  PROVE  /\ Prepared(procJAPI_Session_POSTLOGIN(w, auth).w)
         /\ Prepared(WithSecret(w, right).w)
         /\ Prepared(procJAPI_Session_CHPASSWD(st, w, auth, text).w)
         /\ Prepared(procJAPI_Session_PASSWDLIST(w).w)
<1>1. Prepared(procJAPI_Session_POSTLOGIN(w, auth).w)
  <2> DEFINE none == Empty
             v == [w EXCEPT !.sid = none]
             a == procJAPI_Session_POSTLOGIN(w, auth)
  <2>1. a = BackWithJson(200, w) \/ a = LoggedOut(401, v)
    BY Zenon DEF procJAPI_Session_POSTLOGIN, Empty
  <2> HIDE DEF none
  <2>2. Prepared(v)
    BY PreparedStays
  <2> HIDE DEF v, a
  <2>3. QED
    BY <2>1, <2>2, BackIsPrepared DEF a
<1>2. ASSUME NEW x PROVE Prepared(WithSecret(w, x).w)
  <2> DEFINE a == WithSecret(w, x)
  <2>1. a = IF ~w.session.domain THEN BackWithJson(401, w)
            ELSE IF x THEN BackWithJson(200, w) ELSE LoggedOut(401, w)
    BY Zenon DEF WithSecret
  <2> HIDE DEF a
  <2>2. QED
    BY <2>1, BackIsPrepared DEF a
<1>3. Prepared(procJAPI_Session_CHPASSWD(st, w, auth, text).w)
  <2> DEFINE a == procJAPI_Session_CHPASSWD(st, w, auth, text)
  <2>1. a = Back(400, w) \/ a = WithSecret(w, auth.right)
    BY Zenon DEF procJAPI_Session_CHPASSWD
  <2> HIDE DEF a
  <2>2. QED
    BY <1>2, <2>1, BackIsPrepared DEF a
<1>4. Prepared(procJAPI_Session_PASSWDLIST(w).w)
  BY BackIsPrepared DEF procJAPI_Session_PASSWDLIST
<1>5. QED
  BY <1>1, <1>2, <1>3, <1>4

LEMMA CallAnswers ==
  ASSUME NEW st, NEW w, Prepared(w), NEW req, NEW mode
  PROVE  Prepared(SessionCall(st, w, req, mode).w)
<1> DEFINE a == SessionCall(st, w, req, mode)
           auth == Credentials(st, getStringValue(req.posted, "auth"))
           text == getStringValue(req.posted, "newAuth")
           yes == TRUE
           left == [w EXCEPT !.destroy = yes]
           login == procJAPI_Session_LOGIN(st, w, auth)
           again == procJAPI_Session_POSTLOGIN(w, auth)
           changed == procJAPI_Session_CHPASSWD(st, w, auth, text)
           tested == WithSecret(w, auth.right)
           listed == procJAPI_Session_PASSWDLIST(w)
<1>1. a \in {login, again, changed, tested, listed, BackWithJson(200, w), Back(200, left), Back(404, w)}
  <2> HIDE DEF login, again, changed, tested, listed, left, auth, text
  <2> DEFINE known == w.session.open /\ w.session.confirmed
             logged == known /\ w.session.loggedIn
             c1 == mode = "LOGIN" /\ ~w.session.open /\ (st.csrf => req.token = LoginToken)
             c2 == mode = "POSTLOGIN" /\ known
             c3 == mode = "CHPASSWD" /\ logged
             c4 == mode = "TESTPASSWD" /\ logged
             c5 == mode = "PASSWDLIST" /\ logged
             c6 == mode \in {"CSRFTOKEN", "AUTHINFO"} /\ known
             c7 == mode = "LOGOUT" /\ w.session.open
  <2>1. a = CASE c1 -> login [] c2 -> again [] c3 -> changed [] c4 -> tested [] c5 -> listed
              [] c6 -> BackWithJson(200, w) [] c7 -> Back(200, left) [] OTHER -> Back(404, w)
    BY Zenon DEF SessionCall, login, again, changed, tested, listed, left, auth, text
  <2>2. /\ c1 => ~c2 /\ ~c3 /\ ~c4 /\ ~c5 /\ ~c6 /\ ~c7
        /\ c2 => ~c3 /\ ~c4 /\ ~c5 /\ ~c6 /\ ~c7
        /\ c3 => ~c4 /\ ~c5 /\ ~c6 /\ ~c7
        /\ c4 => ~c5 /\ ~c6 /\ ~c7
        /\ c5 => ~c6 /\ ~c7
        /\ c6 => ~c7
    OBVIOUS
  <2> HIDE DEF c1, c2, c3, c4, c5, c6, c7, a
  <2>3. QED
    BY <2>1, <2>2
<1>2. Prepared(left)
  <2> HIDE DEF yes
  <2>1. QED
    BY PreparedStays
<1> HIDE DEF auth, text, left
<1>3. Prepared(login.w) /\ Prepared(again.w) /\ Prepared(changed.w) /\ Prepared(tested.w) /\ Prepared(listed.w)
  BY LoginAnswers, SecretAnswers
<1> HIDE DEF login, again, changed, tested, listed, a
<1>4. QED
  BY <1>1, <1>2, <1>3, BackIsPrepared DEF a

LEMMA SessionAnswers ==
  ASSUME NEW st, NEW w0, IsWeb(w0), Made(w0.r), NEW req, NEW mode, NEW a, a = procJAPI_Session(st, w0, req, mode)
  PROVE  IsWeb(a.w) /\ Made(a.w.r)
<1> DEFINE id == getStringValue(req.posted, "sessionId")
           v == [w0 EXCEPT !.sid = id]
           w == Reopened(st, w0, req, mode)
<1>1. Prepared(w)
  <2>1. Prepared(w0)
    BY DEF Prepared
  <2>2. w = w0 \/ w = sessionOpen(st, v)
    BY Zenon DEF Reopened
  <2> HIDE DEF w, id
  <2>3. Prepared(v)
    BY <2>1, PreparedStays
  <2> HIDE DEF v
  <2>4. Prepared(sessionOpen(st, v))
    BY <2>3, SessionOpens, SameContentKeeps DEF Prepared
  <2>5. QED
    BY <2>1, <2>2, <2>4
<1>2. a = SessionAsked(st, w, req, mode)
  BY DEF procJAPI_Session
<1> HIDE DEF w
<1>3. Prepared(confirmAuthCSRFToken(st, w, req.token).w)
  <2> DEFINE yes == TRUE
             session == [w.session EXCEPT !.confirmed = yes]
             u == [w EXCEPT !.session = session]
             t == [u EXCEPT !.r.cookies = setSecureCookie(@, "sessionId", w.sid, Now, st.maxAge, Empty)]
             b == confirmAuthCSRFToken(st, w, req.token)
  <2>1. b = IF req.token = w.session.confirmToken THEN Back(200, t) ELSE Back(401, w)
    <3> DEFINE k == [w EXCEPT !.session.confirmed = yes,
                              !.r.cookies = setSecureCookie(@, "sessionId", w.sid, Now, st.maxAge, Empty)]
    <3>1. b = IF req.token = w.session.confirmToken THEN Back(200, k) ELSE Back(401, w)
      BY Zenon DEF confirmAuthCSRFToken, Empty
    <3>2. k = t
      BY Zenon
    <3> HIDE DEF k, t, b
    <3>3. QED
      BY <3>1, <3>2, Zenon
  <2> HIDE DEF yes, session
  <2>3. Prepared(u)
    BY <1>1, PreparedStays
  <2> HIDE DEF u
  <2>4. Prepared(t)
    <3> DEFINE e == setSecureCookie(u.r.cookies, "sessionId", w.sid, Now, st.maxAge, Empty)
    <3>1. t = [u EXCEPT !.r.cookies = e]
      BY Zenon
    <3> HIDE DEF e, t
    <3>2. QED
      BY <2>3, <3>1, PreparedStays
  <2> HIDE DEF t, b
  <2>5. QED
    BY <1>1, <2>1, <2>4, BackIsPrepared DEF b
<1>4. Prepared(SessionCall(st, w, req, mode).w) /\ Prepared(Back(404, w).w)
  BY <1>1, CallAnswers, BackIsPrepared
<1>5. a = confirmAuthCSRFToken(st, w, req.token) \/ a = SessionCall(st, w, req, mode) \/ a = Back(404, w)
  BY <1>2, Zenon DEF SessionAsked
<1>6. QED
  BY <1>3, <1>4, <1>5 DEF Prepared

LEMMA DispatchAnswers ==
  ASSUME NEW st, NEW w, IsWeb(w), Made(w.r), NEW req, NEW mode, NEW gone, NEW d, d = Dispatch(st, req, w, mode, gone)
  PROVE  d.site = st /\ IsWeb(d.w) /\ Permitted(st, w.session, d.w.r)
<1> DEFINE version == HandledBy(st, w, Json(200, w.r))
           a == procJAPI_Session(st, w, req, mode)
           b == procResource_File(st, w, req, gone)
<1>1. d \in {version, HandledSession(st, a), HandledBy(st, w, b)}
  <2> HIDE DEF version, a, b
  <2>1. d = version \/ d = HandledSession(st, a) \/ d = HandledBy(st, w, b)
    BY DEF Dispatch, version, a, b
  <2>2. QED
    BY <2>1
<1>2. ASSUME NEW x, IsResponse(x.r), Permitted(st, w.session, x.r), d = HandledBy(st, w, x)
      PROVE  d.site = st /\ IsWeb(d.w) /\ Permitted(st, w.session, d.w.r)
  <2> DEFINE v == [w EXCEPT !.r = x.r]
  <2>1. IsWeb(v) /\ v.r = x.r
    BY <1>2, WebPut
  <2> HIDE DEF v
  <2>2. d.site = st /\ d.w = v
    BY <1>2 DEF HandledBy, Handled, v
  <2>3. QED
    BY <1>2, <2>1, <2>2
<1>3. CASE d = version
  <2> DEFINE x == Json(200, w.r)
  <2>1. Made(x.r)
    BY JsonIsMade
  <2>2. IsResponse(x.r) /\ Permitted(st, w.session, x.r)
    BY <2>1, MadeIsPermitted DEF Made
  <2> HIDE DEF x
  <2>3. d = HandledBy(st, w, x)
    BY <1>3 DEF x
  <2>4. QED
    BY <1>2, <2>2, <2>3
<1>4. CASE d = HandledSession(st, a)
  <2>1. IsWeb(a.w) /\ Made(a.w.r)
    BY SessionAnswers
  <2> HIDE DEF a
  <2>2. d.site = st /\ d.w = a.w
    BY <1>4 DEF HandledSession, Handled
  <2>3. QED
    BY <2>1, <2>2, MadeIsPermitted
<1>5. CASE d = HandledBy(st, w, b)
  <2>1. IsResponse(b.r) /\ Permitted(st, w.session, b.r)
    BY FileAnswers
  <2> HIDE DEF b
  <2>2. QED
    BY <1>2, <1>5, <2>1
<1>6. QED
  BY <1>1, <1>3, <1>4, <1>5

LEMMA ContentAnswers ==
  ASSUME NEW st, NEW req, NEW r, Made(r), NEW gone, NEW a, a = procHTTPClientContent(st, req, r, gone)
  PROVE  Fits(st, Known(st, req), a)
<1> DEFINE id == getStringValue(req.cookies, "sessionId")
           no == FALSE
           w0 == [r |-> r, sid |-> id, session |-> NoSession, release |-> no, destroy |-> no]
           w == sessionOpen(st, w0)
           d == Dispatch(st, req, w, getStringValue(req.vars, "mode"), gone)
           refused == [code |-> 400, r |-> r, destroyed |-> no, sid |-> id]
<1>1. a = Leave(d) \/ a = refused
  BY Zenon DEF procHTTPClientContent, SessionOf
<1>2. CASE a = refused
  <2>1. a.r = r /\ ~a.destroyed
    BY <1>2
  <2>2. QED
    BY <2>1, MadeIsPermitted DEF Fits, Made
<1>3. CASE a = Leave(d)
  <2> HIDE DEF no, id, refused
  <2>1. w0.r = r /\ w0.sid = id /\ w0.session = NoSession /\ IsWeb(w0)
    BY DEF IsWeb, Made
  <2> HIDE DEF w0
  <2>2. IsWeb(w) /\ SameContent(w.r, r) /\ w.session = Known(st, req)
    BY <2>1, SessionOpens DEF Known, id
  <2> HIDE DEF w
  <2>3. Made(w.r)
    BY <2>2, SameContentKeeps
  <2>4. d.site = st /\ IsWeb(d.w) /\ Permitted(st, Known(st, req), d.w.r)
    BY <2>2, <2>3, DispatchAnswers
  <2> HIDE DEF d
  <2>5. QED
    BY <1>3, <2>4, Leaving
<1>4. QED
  BY <1>1, <1>2, <1>3

-----------------------------------------------------------------------------
\* The server's parser.
IsServer(s) == s = [parser |-> s.parser, bad |-> s.bad, r |-> s.r, req |-> s.req] /\ Made(s.r)

\* Until it has answered nothing but codes is on its response; then all is.
HttpInv ==
    /\ server.parser # "none" => IsServer(server) /\ ~done.destroyed
    /\ Permitted(site, Known(site, server.req), server.r)
    /\ done.destroyed => CookiesAreCleared(server.r.cookies)

LEMMA Parts ==
  ASSUME NEW s, IsServer(s), NEW p, NEW b, NEW r, Made(r), NEW q, NEW v, v = [parser |-> p, bad |-> b, r |-> r, req |-> q]
  PROVE  IsServer(v) /\ v.r = r /\ v.req = q
  BY DEF IsServer

LEMMA ServerPut ==
  ASSUME NEW s, IsServer(s), NEW x
  PROVE  /\ IsServer([s EXCEPT !.parser = x]) /\ IsServer([s EXCEPT !.bad = x]) /\ IsServer([s EXCEPT !.req = x])
         /\ IsServer([s EXCEPT !.r.code = x]) /\ IsServer([s EXCEPT !.r.minor = x])
<1>1. /\ [s EXCEPT !.parser = x] = [parser |-> x, bad |-> s.bad, r |-> s.r, req |-> s.req]
      /\ [s EXCEPT !.bad = x] = [parser |-> s.parser, bad |-> x, r |-> s.r, req |-> s.req]
      /\ [s EXCEPT !.req = x] = [parser |-> s.parser, bad |-> s.bad, r |-> s.r, req |-> x]
  BY DEF IsServer
<1>2. IsServer([s EXCEPT !.parser = x]) /\ IsServer([s EXCEPT !.bad = x]) /\ IsServer([s EXCEPT !.req = x])
  BY <1>1, Parts DEF IsServer
<1>3. Made([s.r EXCEPT !.code = x]) /\ Made([s.r EXCEPT !.minor = x])
  BY CodeKeeps, SameContentKeeps DEF IsServer, Made
<1>4. ASSUME NEW r, Made(r) PROVE IsServer([s EXCEPT !.r = r])
  BY <1>4, Parts DEF IsServer
<1>5. IsServer([s EXCEPT !.r = [s.r EXCEPT !.code = x]]) /\ IsServer([s EXCEPT !.r = [s.r EXCEPT !.minor = x]])
  BY <1>3, <1>4
<1>6. QED
  BY <1>2, <1>5

LEMMA RequestPut ==
  ASSUME NEW s, IsServer(s)
  PROVE  /\ \A x : IsServer([s EXCEPT !.req.uri = x]) /\ IsServer([s EXCEPT !.req.vars = x])
                  /\ IsServer([s EXCEPT !.req.method = x]) /\ IsServer([s EXCEPT !.req.version = x])
         /\ \A x : IsServer([s EXCEPT !.req.host = x]) /\ IsServer([s EXCEPT !.req.port = x])
                  /\ IsServer([s EXCEPT !.req.user = x]) /\ IsServer([s EXCEPT !.req.pass = x])
         /\ \A x : IsServer([s EXCEPT !.req.agent = x]) /\ IsServer([s EXCEPT !.req.cookies = x])
                  /\ IsServer([s EXCEPT !.req.length = x]) /\ IsServer([s EXCEPT !.req.container = x])
         /\ \A x : IsServer([s EXCEPT !.req.posted = x]) /\ IsServer([s EXCEPT !.req.token = x])
<1>1. \A q : IsServer([s EXCEPT !.req = q])
  BY ServerPut
<1>2. QED
  BY <1>1

LEMMA AnswerFits ==
  ASSUME NEW s, IsServer(s), ~done.destroyed, site' = site, answer(s)
  PROVE  HttpInv'
<1>1. PICK gone \in BOOLEAN : \E n \in 0..3 : \E a \in {procHTTPClientContent(site, s.req, s.r, gone)} :
          \E r \in {IF s.bad THEN s.r ELSE [a.r EXCEPT !.code = a.code]} :
              /\ server' = [s EXCEPT !.parser = "none", !.r = r]
              /\ done' = IF s.bad THEN done ELSE [code |-> a.code, destroyed |-> a.destroyed, sid |-> a.sid]
  BY Zenon DEF answer
<1> DEFINE a == procHTTPClientContent(site, s.req, s.r, gone)
           known == Known(site, s.req)
           r == IF s.bad THEN s.r ELSE [a.r EXCEPT !.code = a.code]
<1>2. /\ server' = [s EXCEPT !.parser = "none", !.r = r]
      /\ done' = IF s.bad THEN done ELSE [code |-> a.code, destroyed |-> a.destroyed, sid |-> a.sid]
  BY <1>1, Zenon
<1>3. Fits(site, known, a)
  BY ContentAnswers DEF IsServer
<1> HIDE DEF a, known
<1>4. Permitted(site, known, r)
  <2>1. CASE s.bad
    BY <2>1, MadeIsPermitted DEF IsServer
  <2>2. CASE ~s.bad
    BY <1>3, <2>2, CodeKeeps, SameContentKeeps DEF Fits
  <2>3. QED
    BY <2>1, <2>2
<1>5. done'.destroyed => CookiesAreCleared(r.cookies)
  <2>1. CASE s.bad
    BY <1>2, <2>1
  <2>2. CASE ~s.bad
    <3>1. done'.destroyed = a.destroyed /\ r.cookies = a.r.cookies
      BY <1>2, <1>3, <2>2, CodeKeeps DEF Fits
    <3>2. QED
      BY <1>3, <3>1 DEF Fits
  <2>3. QED
    BY <2>1, <2>2
<1> HIDE DEF r
<1>6. server' = [parser |-> "none", bad |-> s.bad, r |-> r, req |-> s.req]
  BY <1>2 DEF IsServer
<1>7. server'.parser = "none" /\ server'.r = r /\ server'.req = s.req
  BY <1>6
<1>8. QED
  BY <1>4, <1>5, <1>7 DEF HttpInv, known

LEMMA GoesFits ==
  ASSUME NEW s, IsServer(s), ~done.destroyed, site' = site, Goes(s)
  PROVE  HttpInv'
<1>1. server' = s /\ done' = done
  BY DEF Goes
<1>2. Permitted(site, Known(site, s.req), s.r)
  BY MadeIsPermitted DEF IsServer
<1>3. QED
  BY <1>1, <1>2 DEF HttpInv

LEMMA LineRead ==
  ASSUME NEW s, IsServer(s), NEW words
  PROVE  IsServer(prepareServerVersionOnURI(parse(s, words)))
<1> DEFINE uri == words[2]
           asks == SplitOn(uri, "?")
           version == parseVersion(IF Len(words) > 2 THEN words[3] ELSE <<"HTTP", "/", "1", ".", "0">>)
           s1 == [s EXCEPT !.req.uri = decodeURLStr(asks[1])]
           query == IF Len(asks) = 1 THEN s.req.vars ELSE VarsOf(asks[2], "&")
           s2 == [s1 EXCEPT !.req.vars = query]
           s3 == [s2 EXCEPT !.req.method = words[1][1]]
           s4 == [s3 EXCEPT !.req.version = version]
<1>1. parse(s, words) = s4
  <2>1. parseURI(s, uri) = s2
    BY Zenon DEF parseURI
  <2> HIDE DEF s2, version
  <2>2. parse(s, words) = [parseURI(s, uri) EXCEPT !.req.method = words[1][1], !.req.version = version]
    BY Zenon DEF parse, version
  <2>3. QED
    BY <2>1, <2>2, Zenon
<1> HIDE DEF asks, version, query
<1>2. IsServer(s1)
  BY RequestPut
<1> HIDE DEF s1
<1>3. IsServer(s2)
  BY <1>2, RequestPut
<1> HIDE DEF s2
<1>4. IsServer(s3)
  BY <1>3, RequestPut
<1> HIDE DEF s3
<1>5. IsServer(s4)
  BY <1>4, RequestPut
<1> HIDE DEF s4
<1> DEFINE yes == TRUE
           zero == 0
           unsupported == 505
           t1 == [s4 EXCEPT !.r.minor = zero]
           t2 == [t1 EXCEPT !.r.code = unsupported]
           t3 == [t2 EXCEPT !.bad = yes]
<1>6. prepareServerVersionOnURI(s4) = t3 \/ prepareServerVersionOnURI(s4) = [s4 EXCEPT !.r.minor = s4.req.version.minor]
  BY Zenon DEF prepareServerVersionOnURI
<1> HIDE DEF yes, zero, unsupported
<1>7. IsServer(t1) /\ IsServer([s4 EXCEPT !.r.minor = s4.req.version.minor])
  BY <1>5, ServerPut
<1> HIDE DEF t1
<1>8. IsServer(t2)
  BY <1>7, ServerPut
<1> HIDE DEF t2
<1>9. IsServer(t3)
  BY <1>8, ServerPut
<1>10. QED
  BY <1>1, <1>6, <1>7, <1>9

LEMMA ContentLengthRead == ASSUME NEW s, IsServer(s), NEW h PROVE IsServer(ContentLength(s, h))
<1> DEFINE length == getOption(h, "Content-Length", 0)
           type == getOption(h, "Content-Type", Empty)
           container == CASE type = "multipart/form-data" -> "mime"
                          [] type = "application/x-www-form-urlencoded" -> "url"
                          [] OTHER -> "bin"
           yes == TRUE
           large == 413
           s1 == [s EXCEPT !.r.code = large]
           s2 == [s1 EXCEPT !.bad = yes]
           s3 == [s2 EXCEPT !.req.length = length]
           t1 == [s EXCEPT !.req.length = length]
           t2 == [t1 EXCEPT !.req.container = container]
<1>1. ContentLength(s, h) = s \/ ContentLength(s, h) = s3 \/ ContentLength(s, h) = t2
  BY Zenon DEF ContentLength, Empty
<1> HIDE DEF length, type, container, yes, large
<1>2. IsServer(s1)
  BY ServerPut
<1>3. IsServer(t1)
  BY RequestPut
<1> HIDE DEF s1, t1
<1>4. IsServer(s2)
  BY <1>2, ServerPut
<1>5. IsServer(t2)
  BY <1>3, RequestPut
<1> HIDE DEF s2, t2
<1>6. IsServer(s3)
  BY <1>4, RequestPut
<1> HIDE DEF s3
<1>7. QED
  BY <1>1, <1>5, <1>6

LEMMA HeadersRead ==
  ASSUME NEW s, IsServer(s), NEW h, NEW told,
         told = [BasicAuth(prepareServerVersionOnOptions(parseHostOptions(s, h)), h)
                     EXCEPT !.req.agent = getOption(h, "User-Agent", Empty), !.req.cookies = CookiesOf(h),
                            !.req.token = getOption(h, "CSRFToken", Empty)]
  PROVE  IsServer(IF told.bad THEN told ELSE ContentLength(told, h))
<1> DEFINE hosted == parseHostOptions(s, h)
           s1 == prepareServerVersionOnOptions(hosted)
           s2 == BasicAuth(s1, h)
           agent == getOption(h, "User-Agent", Empty)
           s3 == [s2 EXCEPT !.req.agent = agent]
<1>1. IsServer(hosted)
  <2> DEFINE parts == Words(getOption(h, "Host", <<>>), ":")
             port == IF Len(parts) = 1 THEN 80 ELSE Number[parts[2][1]] % 65536
             t1 == [s EXCEPT !.req.host = parts[1][1]]
             t2 == [t1 EXCEPT !.req.port = port]
  <2>1. hosted = IF parts = <<>> THEN s ELSE t2
    BY SMTT(60) DEF parseHostOptions
  <2> HIDE DEF parts, port
  <2>2. IsServer(t1)
    BY RequestPut
  <2> HIDE DEF t1
  <2>3. IsServer(t2)
    BY <2>2, RequestPut
  <2> HIDE DEF t2
  <2>4. QED
    BY <2>1, <2>3
<1> HIDE DEF hosted
<1>2. IsServer(s1)
  <2> DEFINE yes == TRUE
             wrong == 400
             t1 == [hosted EXCEPT !.r.code = wrong]
             t2 == [t1 EXCEPT !.bad = yes]
  <2>1. s1 = hosted \/ s1 = t2
    BY Zenon DEF prepareServerVersionOnOptions
  <2> HIDE DEF yes, wrong
  <2>2. IsServer(t1)
    BY <1>1, ServerPut
  <2> HIDE DEF t1
  <2>3. IsServer(t2)
    BY <2>2, ServerPut
  <2> HIDE DEF t2
  <2>4. QED
    BY <1>1, <2>1, <2>3
<1> HIDE DEF s1
<1>3. IsServer(s2)
  <2> DEFINE value == getOption(h, "Authorization", <<>>)
             named == SplitOn(value[2], ":")[1][1]
             pass == SplitOn(value[2], ":")[2][1]
             t1 == [s1 EXCEPT !.req.user = named]
             t2 == [t1 EXCEPT !.req.pass = pass]
  <2>1. s2 = s1 \/ s2 = t2
    BY Zenon DEF BasicAuth
  <2> HIDE DEF named, pass
  <2>2. IsServer(t1)
    BY <1>2, RequestPut
  <2> HIDE DEF t1
  <2>3. IsServer(t2)
    BY <2>2, RequestPut
  <2> HIDE DEF t2
  <2>4. QED
    BY <1>2, <2>1, <2>3
<1> HIDE DEF s2
<1>4. IsServer(s3)
  <2> HIDE DEF agent
  <2>1. QED
    BY <1>3, RequestPut
<1> DEFINE cookies == CookiesOf(h)
           s4 == [s3 EXCEPT !.req.cookies = cookies]
           token == getOption(h, "CSRFToken", Empty)
           s5 == [s4 EXCEPT !.req.token = token]
<1>5. told = s5
  BY Zenon DEF s2, s1, hosted
<1> HIDE DEF s3, cookies, token
<1>6. IsServer(s4)
  BY <1>4, RequestPut
<1> HIDE DEF s4
<1>9. IsServer(s5)
  BY <1>6, RequestPut
<1> HIDE DEF s5
<1>8. IsServer(told)
  BY <1>5, <1>9, Zenon
<1>7. QED
  BY <1>8, ContentLengthRead

-----------------------------------------------------------------------------
LEMMA PutNames == \A f, name, value : DOMAIN Put(f, name, value) = DOMAIN f \cup {name}
  BY DEF Put

LEMMA FirstHeaders == ~exist(replace(NoHeaders, "Server", "Mantids"), "Last-Modified")
<1> DEFINE none == remove(NoHeaders, "Server")
           named == add(none, "Server", "Mantids")
<1>1. DOMAIN none = {}
  BY DEF remove, NoHeaders
<1> HIDE DEF none
<1> DEFINE values == IF exist(none, "Server") THEN Append(none["Server"], "Mantids") ELSE <<"Mantids">>
<1>2. named = Put(none, "Server", values)
  BY Zenon DEF add
<1> HIDE DEF named, values
<1>3. DOMAIN named = DOMAIN none \cup {"Server"}
  BY <1>2, PutNames, Zenon
<1>4. "Last-Modified" \notin DOMAIN named
  BY <1>1, <1>3
<1>5. QED
  BY <1>4, Zenon DEF exist, replace, named, none

LEMMA HttpStarts == HInit => HttpInv
<1> SUFFICES ASSUME HInit PROVE HttpInv
  OBVIOUS
<1> DEFINE r == FirstResponse(site.security)
           no == FALSE
           none == Empty
           h == replace(NoHeaders, "Server", "Mantids")
           c == [CacheDefaults EXCEPT !.flags = NoCaching]
           x == site.security
<1>1. PICK q : server = [parser |-> "line", bad |-> no, r |-> r, req |-> q]
  BY Zenon DEF HInit
<1>2. ~done.destroyed
  <2>1. PICK id : done = [code |-> 0, destroyed |-> FALSE, sid |-> id]
    BY Zenon DEF HInit
  <2>2. QED
    BY <2>1
<1>3. Made(r)
  <2>1. r = [code |-> 0, minor |-> 0, headers |-> h, cache |-> c, contentType |-> none, noSniff |-> no,
             cookies |-> NoCookies, streamer |-> NoStreamer,
             hsts |-> x.hsts, xframe |-> x.xframe, xss |-> x.xss, realm |-> x.realm]
    BY Zenon DEF FirstResponse, Empty
  <2>2. ~exist(h, "Last-Modified")
    BY FirstHeaders
  <2>3. c = [flags |-> NoCaching, maxAge |-> 0, sMaxAge |-> 0]
    BY DEF CacheDefaults
  <2> HIDE DEF r, h, c, none, no, x
  <2>4. r.cache = c /\ r.headers = h /\ r.streamer = NoStreamer
    BY <2>1
  <2>5. IsResponse(r)
    BY <2>1, <2>3, <2>4 DEF IsResponse
  <2>6. Bare(r)
    BY <2>2, <2>3, <2>4, <2>5 DEF Bare, Uncached
  <2>7. QED
    BY <2>6, BareIsMade
<1> HIDE DEF r, no
<1>4. server.r = r /\ server.parser = "line" /\ server.bad = no /\ server.req = q
  BY <1>1
<1>5. IsServer(server)
  BY <1>1, <1>3, <1>4 DEF IsServer
<1>6. QED
  BY <1>2, <1>3, <1>4, <1>5, MadeIsPermitted DEF HttpInv

LEMMA HttpStays == HttpInv /\ [HNext]_hvars => HttpInv'
<1> SUFFICES ASSUME HttpInv, [HNext]_hvars PROVE HttpInv'
  OBVIOUS
<1>1. ASSUME UNCHANGED <<server, site, done>> PROVE HttpInv'
  BY <1>1 DEF HttpInv
<1>2. CASE UNCHANGED hvars
  BY <1>1, <1>2 DEF hvars
<1>3. CASE initProtocol \/ OnServerStatus \/ OnServerHeaders \/ OnServerContent
  <2>1. UNCHANGED <<server, site, done>>
    BY <1>3, Zenon DEF initProtocol, OnServerStatus, OnServerHeaders, OnServerContent, Gets
  <2>2. QED
    BY <1>1, <2>1
<1>4. ASSUME NEW kind \in {"line", "headers", "content"}, Reads(kind)
      PROVE  IsServer(server) /\ ~done.destroyed /\ site' = site
  BY <1>4 DEF Reads, HttpInv
<1>5. CASE OnClientRequest
  <2> DEFINE s == prepareServerVersionOnURI(parse(server, Words(up[1].value, " ")))
  <2>1. Reads("line") /\ (answer(s) \/ \E p \in {"headers", "none"} : Goes([s EXCEPT !.parser = p]))
    BY <1>5 DEF OnClientRequest
  <2>2. IsServer(server) /\ ~done.destroyed /\ site' = site
    BY <1>4, <2>1
  <2>3. IsServer(s)
    BY <2>2, LineRead
  <2> HIDE DEF s
  <2>4. QED
    BY <2>1, <2>2, <2>3, AnswerFits, GoesFits, ServerPut
<1>6. CASE OnClientHeaders
  <2> DEFINE h == up[1].value
             told == [BasicAuth(prepareServerVersionOnOptions(parseHostOptions(server, h)), h)
                          EXCEPT !.req.agent = getOption(h, "User-Agent", Empty), !.req.cookies = CookiesOf(h),
                            !.req.token = getOption(h, "CSRFToken", Empty)]
             s == IF told.bad THEN told ELSE ContentLength(told, h)
  <2>1. Reads("headers") /\ (answer(s) \/ \E p \in {"content", "none"} : Goes([s EXCEPT !.parser = p]))
    BY <1>6, Zenon DEF OnClientHeaders, Empty
  <2>2. IsServer(server) /\ ~done.destroyed /\ site' = site
    BY <1>4, <2>1
  <2> HIDE DEF h
  <2>3. IsServer(s)
    BY <2>2, HeadersRead
  <2> HIDE DEF s
  <2>4. QED
    BY <2>1, <2>2, <2>3, AnswerFits, GoesFits, ServerPut
<1>7. CASE OnClientContentData
  <2> DEFINE x == IF server.req.container = "url" THEN VarsOf(up[1].value, "&") ELSE server.req.posted
             s == [server EXCEPT !.req.posted = x]
  <2>1. Reads("content") /\ answer(s)
    BY <1>7, Zenon DEF OnClientContentData
  <2>2. IsServer(server) /\ ~done.destroyed /\ site' = site
    BY <1>4, <2>1
  <2> HIDE DEF x
  <2>3. IsServer(s)
    BY <2>2, RequestPut
  <2> HIDE DEF s
  <2>4. QED
    BY <2>1, <2>2, <2>3, AnswerFits
<1>8. QED
  BY <1>2, <1>3, <1>5, <1>6, <1>7 DEF HNext

\* procHTTPClientContent: whatever was mapped, filtered, made anew or redirected, an answer with a content is made for a
\* path that the filter lets the session of the request have and sends nowhere else (what a page includes is not judged),
\* only a stored file or element may be kept by the browser, and a request that ends its session has both cookies removed:
\* for any site, requests and broken connections.
THEOREM AnswersStayAllowed == HInit /\ [][HNext]_hvars => []AnswersAreAllowed
<1>1. HttpInv => AnswersAreAllowed
  <2> SUFFICES ASSUME HttpInv PROVE AnswersAreAllowed
    OBVIOUS
  <2>1. SentAsAllowed
    BY Zenon DEF HttpInv, SentAsAllowed, Permitted, Cleared, Known, Uncached, Empty
  <2>2. EndedSessionsLeaveNoCookie
    BY Zenon DEF HttpInv, EndedSessionsLeaveNoCookie, RemovesCookie, CookiesAreCleared, Empty
  <2>3. QED
    BY <2>1, <2>2 DEF AnswersAreAllowed
<1>2. QED
  BY <1>1, HttpStarts, HttpStays, PTL
=============================================================================
