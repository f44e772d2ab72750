---------------------------- MODULE FastRPCProofs ----------------------------
(***************************************************************************)
(* The safety of FastRPC, for any number of connections, callers and       *)
(* queries.                                                                *)
(*                                                                         *)
(* AnswersAreOwn is not inductive: an answer is matched by its number      *)
(* only, so it needs that a number of a connection is one caller's         *)
(* (NumbersAreOwn, counted from the callers that have one), that whatever  *)
(* is on the wire or kept carries the number of the caller it is for       *)
(* (TablesAreOwn), and that a caller in a call holds the connection that   *)
(* is mapped (CallsAreOnTheMapped).                                        *)
(***************************************************************************)
EXTENDS FastRPC, FiniteSetTheorems, TLAPS

Active == {"serving", "draining", "closing", "terminated", "destroying"}

ConnInv ==
  /\ \A c \in Conns : state[c] \in Active <=> mapped = c
  /\ openable => mapped # NoConn /\ state[mapped] # "destroying"

CallsAreOnTheMapped ==
  \A k \in Callers :
    /\ pc[k] = "opening" => on[k] = NoConn /\ id[k] = 0 /\ tries[k] < MaxTries
    /\ pc[k] = "opened" => id[k] = 0
    /\ pc[k] \notin {"opening", "returned"} => on[k] \in Conns /\ mapped = on[k]
    /\ pc[k] \notin {"opening", "opened", "returned"} => id[k] \in Ids
    /\ id[k] # 0 => on[k] \in Conns

Numbered(c) == {k \in Callers : on[k] = c /\ id[k] # 0}
NumbersAreOwn ==
  /\ \A c \in Conns : nextId[c] = Cardinality(Numbered(c)) + 1
  /\ \A k \in Callers : id[k] # 0 => id[k] < nextId[on[k]]
  /\ \A k, m \in Callers : on[k] = on[m] /\ id[k] = id[m] /\ id[k] # 0 => k = m

InCall == {"pending", "looping", "waiting", "woke", "cleaning"}
TablesAreOwn ==
  \A c \in Conns, i \in Ids :
    /\ \A k \in Callers : <<i, k>> \in wire[c] => on[k] = c /\ id[k] = i
    /\ answers[c][i] # NoCaller =>
         i \in pending[c] /\ on[answers[c][i]] = c /\ id[answers[c][i]] = i
    /\ i \in pending[c] => \E k \in Callers : on[k] = c /\ id[k] = i /\ pc[k] \in InCall

TaskInv ==
  \A x \in Queries : served[x] \in {"queued", "answered"} =>
    servedOn[x] \in Conns /\ state[servedOn[x]] \in {"serving", "draining"}

\* TypeOK without the bound of the counter, which NumbersAreOwn gives.
Types ==
  /\ mapped \in Conns \cup {NoConn}
  /\ openable \in BOOLEAN
  /\ state \in [Conns -> States]
  /\ terminated \in [Conns -> BOOLEAN]
  /\ nextId \in [Conns -> Nat \ {0}]
  /\ pending \in [Conns -> SUBSET Ids]
  /\ answers \in [Conns -> [Ids -> Callers \cup {NoCaller}]]
  /\ wire \in [Conns -> SUBSET (Ids \X Callers)]
  /\ served \in [Queries -> {"none", "queued", "answered", "finished"}]
  /\ servedOn \in [Queries -> Conns \cup {NoConn}]
  /\ pc \in [Callers -> CallerPC]
  /\ on \in [Callers -> Conns \cup {NoConn}]
  /\ id \in [Callers -> Ids \cup {0}]
  /\ tries \in [Callers -> 0..MaxTries]
  /\ result \in [Callers -> Callers \cup Errors]

IInv ==
  /\ Types /\ ConnInv /\ CallsAreOnTheMapped /\ NumbersAreOwn
  /\ TablesAreOwn /\ OwnAnswer /\ TaskInv

-----------------------------------------------------------------------------
LEMMA IdFacts == Cardinality(Callers) \in Nat /\ Ids \subseteq Nat \ {0}
BY FS_CardinalityType, FastRPCAssumption DEF Ids

LEMMA NumberedFacts ==
  \A c \in Conns : /\ IsFiniteSet(Numbered(c)) /\ Cardinality(Numbered(c)) \in Nat
                   /\ Cardinality(Numbered(c)) <= Cardinality(Callers)
<1> TAKE c \in Conns
<1>1. Numbered(c) \subseteq Callers
  BY DEF Numbered
<1>2. QED
  BY <1>1, FS_Subset, FS_CardinalityType, FastRPCAssumption

\* A caller that is still without a number leaves one for it.
LEMMA RoomForOne ==
  ASSUME Types, NumbersAreOwn, NEW k \in Callers, NEW c \in Conns, id[k] = 0
  PROVE  nextId[c] \in Ids
<1>1. Numbered(c) \subseteq Callers \ {k}
  BY DEF Numbered
<1>2. IsFiniteSet(Callers \ {k}) /\ Cardinality(Callers \ {k}) = Cardinality(Callers) - 1
  BY FS_RemoveElement, FastRPCAssumption
<1>3. Cardinality(Numbered(c)) <= Cardinality(Callers) - 1
  BY <1>1, <1>2, FS_Subset
<1>4. nextId[c] = Cardinality(Numbered(c)) + 1 /\ Cardinality(Numbered(c)) \in Nat
  BY NumberedFacts DEF NumbersAreOwn
<1>5. QED
  BY <1>3, <1>4, IdFacts DEF Ids

LEMMA InitIInv == Init => IInv
<1> SUFFICES ASSUME Init PROVE IInv
  OBVIOUS
<1>1. Types
  <2>1. nextId \in [Conns -> Nat \ {0}] /\ tries \in [Callers -> 0..MaxTries] /\ id \in [Callers -> Ids \cup {0}]
    BY FastRPCAssumption DEF Init
  <2>2. answers \in [Conns -> [Ids -> Callers \cup {NoCaller}]]
    BY DEF Init
  <2>3. pending \in [Conns -> SUBSET Ids] /\ wire \in [Conns -> SUBSET (Ids \X Callers)]
    BY DEF Init
  <2>4. QED
    BY <2>1, <2>2, <2>3 DEF Init, Types, States, CallerPC, Errors
<1>2. ConnInv /\ TaskInv
  BY FastRPCAssumption DEF Init, ConnInv, TaskInv, Active
<1>3. CallsAreOnTheMapped
  BY FastRPCAssumption DEF Init, CallsAreOnTheMapped
<1>4. NumbersAreOwn
  <2>1. \A c \in Conns : Numbered(c) = {}
    BY DEF Init, Numbered
  <2>2. \A c \in Conns : nextId[c] = Cardinality(Numbered(c)) + 1
    <3>1. Cardinality({}) = 0
      BY FS_EmptySet
    <3>2. \A c \in Conns : nextId[c] = 1 /\ Cardinality(Numbered(c)) = 0
      BY <2>1, <3>1 DEF Init
    <3>3. QED
      BY <3>2
  <2>3. \A k \in Callers : id[k] = 0
    BY DEF Init
  <2>4. QED
    BY <2>2, <2>3 DEF NumbersAreOwn
<1>5. TablesAreOwn /\ OwnAnswer
  BY FastRPCAssumption DEF Init, TablesAreOwn, OwnAnswer, Errors
<1>6. QED
  BY <1>1, <1>2, <1>3, <1>4, <1>5 DEF IInv

-----------------------------------------------------------------------------
(* Steps of the connections.                                               *)

\* What is woken was waiting: nothing that is known of a call tells them apart.
LEMMA Woken ==
  ASSUME IInv, NEW c \in Conns, WakeCallers(c), UNCHANGED <<on, id, tries, result>>
  PROVE  /\ pc' \in [Callers -> CallerPC]
         /\ \A k \in Callers : pc'[k] = pc[k] \/ (pc[k] = "waiting" /\ pc'[k] = "woke")
BY DEF IInv, Types, WakeCallers, CallerPC

\* Numbers depend on nothing else.
LEMMA NumbersStay ==
  ASSUME NumbersAreOwn, UNCHANGED <<nextId, on, id>>
  PROVE  NumbersAreOwn'
BY DEF NumbersAreOwn, Numbered

\* The tables depend on the calls that have a number.
LEMMA TablesStay ==
  ASSUME Types, TablesAreOwn, UNCHANGED <<wire, answers, pending>>,
         \A m \in Callers : id[m] # 0 => on'[m] = on[m] /\ id'[m] = id[m] /\ (pc[m] \in InCall => pc'[m] \in InCall)
  PROVE  TablesAreOwn'
<1> SUFFICES ASSUME NEW c \in Conns, NEW i \in Ids
             PROVE  /\ \A m \in Callers : <<i, m>> \in wire[c] => on'[m] = c /\ id'[m] = i
                    /\ answers[c][i] # NoCaller =>
                         i \in pending[c] /\ on'[answers[c][i]] = c /\ id'[answers[c][i]] = i
                    /\ i \in pending[c] => \E m \in Callers : on'[m] = c /\ id'[m] = i /\ pc'[m] \in InCall
  BY DEF TablesAreOwn
<1>1. i # 0
  BY IdFacts
<1>2. \A m \in Callers : <<i, m>> \in wire[c] => on'[m] = c /\ id'[m] = i
  BY <1>1 DEF TablesAreOwn
<1>3. answers[c][i] # NoCaller => i \in pending[c] /\ on'[answers[c][i]] = c /\ id'[answers[c][i]] = i
  <2>1. answers[c][i] \in Callers \cup {NoCaller}
    BY DEF Types
  <2>2. QED
    BY <1>1, <2>1 DEF TablesAreOwn
<1>4. i \in pending[c] => \E m \in Callers : on'[m] = c /\ id'[m] = i /\ pc'[m] \in InCall
  BY <1>1 DEF TablesAreOwn
<1>5. QED
  BY <1>2, <1>3, <1>4

LEMMA ConnSteps ==
  ASSUME IInv, NEW c \in Conns,
         Register(c) \/ RegisterRefused(c) \/ StreamEnds(c) \/ Drain(c) \/ Terminate(c) \/ Destroy(c)
  PROVE  IInv'
<1> USE DEF tables, tasks, calls
<1>1. UNCHANGED <<tables, tasks, calls>>
  BY DEF Register, RegisterRefused, StreamEnds, Drain, Terminate, Destroy
<1>2. Types'
  BY <1>1 DEF IInv, Types, Register, RegisterRefused, StreamEnds, Drain, Terminate, Destroy, States
<1>3. ConnInv'
  BY FastRPCAssumption DEF IInv, Types, ConnInv, Active, Register, RegisterRefused, StreamEnds, Drain, Terminate, Destroy, States
<1>4. CallsAreOnTheMapped'
  <2>1. CASE Register(c)
    BY <1>1, <2>1, FastRPCAssumption DEF IInv, Types, CallsAreOnTheMapped, Register
  <2>2. CASE Destroy(c)
    BY <1>1, <2>2 DEF IInv, Types, ConnInv, CallsAreOnTheMapped, Destroy, Holds, Active
  <2>3. CASE RegisterRefused(c) \/ StreamEnds(c) \/ Drain(c) \/ Terminate(c)
    BY <1>1, <2>3 DEF IInv, CallsAreOnTheMapped, RegisterRefused, StreamEnds, Drain, Terminate
  <2>4. QED
    BY <2>1, <2>2, <2>3
<1>5. NumbersAreOwn'
  BY <1>1, NumbersStay DEF IInv
<1>6. TablesAreOwn' /\ OwnAnswer'
  BY <1>1 DEF IInv, TablesAreOwn, OwnAnswer
<1>7. TaskInv'
  <2>1. CASE Drain(c)
    BY <1>1, <2>1 DEF IInv, Types, TaskInv, Drain, Unfinished
  <2>2. CASE Register(c) \/ RegisterRefused(c) \/ StreamEnds(c) \/ Terminate(c) \/ Destroy(c)
    BY <1>1, <2>2 DEF IInv, Types, TaskInv, Register, RegisterRefused, StreamEnds, Terminate, Destroy
  <2>3. QED
    BY <2>1, <2>2
<1>8. QED
  BY <1>2, <1>3, <1>4, <1>5, <1>6, <1>7 DEF IInv

LEMMA NotifySteps ==
  ASSUME IInv, NEW c \in Conns, NotifyTerminated(c)
  PROVE  IInv'
<1> USE DEF tables, tasks
<1>1. /\ UNCHANGED <<mapped, terminated, tables, tasks, on, id, tries, result>>
      /\ state[c] = "terminated" /\ state' = [state EXCEPT ![c] = "destroying"]
      /\ openable' = FALSE
  BY DEF NotifyTerminated
<1>2. /\ pc' \in [Callers -> CallerPC]
      /\ \A k \in Callers : pc'[k] = pc[k] \/ (pc[k] = "waiting" /\ pc'[k] = "woke")
  BY Woken DEF NotifyTerminated
<1>3. Types'
  BY <1>1, <1>2 DEF IInv, Types, States
<1>4. ConnInv'
  BY <1>1 DEF IInv, Types, ConnInv, Active, States
<1>5. CallsAreOnTheMapped'
  BY <1>1, <1>2 DEF IInv, CallsAreOnTheMapped
<1>6. NumbersAreOwn'
  BY <1>1, NumbersStay DEF IInv
<1>7. TablesAreOwn'
  BY <1>1, <1>2 DEF IInv, TablesAreOwn, InCall
<1>8. OwnAnswer' /\ TaskInv'
  BY <1>1 DEF IInv, Types, OwnAnswer, TaskInv
<1>9. QED
  BY <1>3, <1>4, <1>5, <1>6, <1>7, <1>8 DEF IInv

\* An answer that is kept is of the caller whose number it has.
LEMMA AnswerSteps ==
  ASSUME IInv, NEW c \in Conns, NEW i \in Ids, NEW k \in Callers,
         ProcessAnswer(c, i, k) \/ ProcessBadAnswer(c, i, k)
  PROVE  IInv'
<1> USE DEF conns, tasks, calls
<1>1. /\ UNCHANGED <<conns, nextId, tasks, on, id, tries, result>>
      /\ <<i, k>> \in wire[c]
      /\ wire' = wire \/ wire' = [wire EXCEPT ![c] = @ \ {<<i, k>>}]
  BY DEF ProcessAnswer, ProcessBadAnswer
<1>2. /\ pc' \in [Callers -> CallerPC]
      /\ \A m \in Callers : pc'[m] = pc[m] \/ (pc[m] = "waiting" /\ pc'[m] = "woke")
  BY Woken DEF ProcessAnswer, ProcessBadAnswer, IInv, Types
<1>3. \/ /\ i \in pending[c] /\ answers' = [answers EXCEPT ![c][i] = k] /\ pending' = pending
      \/ answers' = answers /\ pending' = pending
      \/ answers' = [answers EXCEPT ![c][i] = NoCaller] /\ pending' = [pending EXCEPT ![c] = @ \ {i}]
  BY DEF ProcessAnswer, ProcessBadAnswer
<1>4. on[k] = c /\ id[k] = i
  BY <1>1 DEF IInv, TablesAreOwn
<1>5. Types'
  <2>1. wire' \in [Conns -> SUBSET (Ids \X Callers)]
    <3>1. CASE wire' = wire
      BY <3>1 DEF IInv, Types
    <3>2. CASE wire' = [wire EXCEPT ![c] = @ \ {<<i, k>>}]
      BY <3>2 DEF IInv, Types
    <3>3. QED
      BY <1>1, <3>1, <3>2
  <2>2. answers' \in [Conns -> [Ids -> Callers \cup {NoCaller}]]
    <3>1. answers \in [Conns -> [Ids -> Callers \cup {NoCaller}]]
      BY DEF IInv, Types
    <3>2. CASE answers' = answers
      BY <3>1, <3>2
    <3>3. ASSUME NEW a \in {k, NoCaller}, answers' = [answers EXCEPT ![c][i] = a]
          PROVE  answers' \in [Conns -> [Ids -> Callers \cup {NoCaller}]]
      BY <3>1, <3>3
    <3>4. QED
      BY <1>3, <3>2, <3>3
  <2>3. pending' \in [Conns -> SUBSET Ids]
    BY <1>3 DEF IInv, Types
  <2>4. QED
    BY <1>1, <1>2, <2>1, <2>2, <2>3 DEF IInv, Types
<1>6. ConnInv' /\ OwnAnswer' /\ TaskInv'
  BY <1>1 DEF IInv, ConnInv, OwnAnswer, TaskInv
<1>7. CallsAreOnTheMapped'
  BY <1>1, <1>2 DEF IInv, CallsAreOnTheMapped
<1>8. NumbersAreOwn'
  BY <1>1, NumbersStay DEF IInv
<1>9. ASSUME NEW d \in Conns, NEW j \in Ids
      PROVE  /\ \A m \in Callers : <<j, m>> \in wire'[d] => on'[m] = d /\ id'[m] = j
             /\ answers'[d][j] # NoCaller =>
                  j \in pending'[d] /\ on'[answers'[d][j]] = d /\ id'[answers'[d][j]] = j
             /\ j \in pending'[d] => \E m \in Callers : on'[m] = d /\ id'[m] = j /\ pc'[m] \in InCall
  <2>0. wire'[d] \subseteq wire[d]
    <3>1. CASE wire' = wire
      BY <3>1
    <3>2. CASE wire' = [wire EXCEPT ![c] = @ \ {<<i, k>>}]
      BY <3>2 DEF IInv, Types
    <3>3. QED
      BY <1>1, <3>1, <3>2
  <2>1. wire'[d] \subseteq wire[d] /\ pending'[d] \subseteq pending[d]
    BY <2>0, <1>3 DEF IInv, Types
  <2>2. \/ answers'[d][j] = answers[d][j] /\ (answers[d][j] # NoCaller => (j \in pending[d] => j \in pending'[d]))
        \/ answers'[d][j] = NoCaller
        \/ d = c /\ j = i /\ answers'[d][j] = k /\ j \in pending'[d]
    BY <1>3 DEF IInv, Types
  <2>3. answers'[d][j] # NoCaller =>
          j \in pending'[d] /\ on'[answers'[d][j]] = d /\ id'[answers'[d][j]] = j
    BY <1>1, <1>4, <2>2 DEF IInv, TablesAreOwn
  <2>4. j \in pending'[d] => \E m \in Callers : on'[m] = d /\ id'[m] = j /\ pc'[m] \in InCall
    BY <1>1, <1>2, <2>1 DEF IInv, TablesAreOwn, InCall
  <2>5. \A m \in Callers : <<j, m>> \in wire'[d] => on'[m] = d /\ id'[m] = j
    BY <1>1, <2>1 DEF IInv, TablesAreOwn
  <2>6. QED
    BY <2>3, <2>4, <2>5
<1>10. TablesAreOwn'
  BY <1>9 DEF TablesAreOwn
<1>11. QED
  BY <1>5, <1>6, <1>7, <1>8, <1>10 DEF IInv

LEMMA TaskSteps ==
  ASSUME IInv, NEW x \in Queries,
         \/ RunTask(x) \/ FinishTask(x)
         \/ \E c \in Conns : ProcessQuery(c, x) \/ ProcessQueryDropped(c, x)
  PROVE  IInv'
<1> USE DEF conns, tables, calls
<1>1. UNCHANGED <<conns, tables, calls>>
  BY DEF RunTask, FinishTask, ProcessQuery, ProcessQueryDropped
<1>2. Types'
  <2>1. served' \in [Queries -> {"none", "queued", "answered", "finished"}]
    BY ZenonT(40) DEF IInv, Types, RunTask, FinishTask, ProcessQuery, ProcessQueryDropped
  <2>2. servedOn' \in [Queries -> Conns \cup {NoConn}]
    BY DEF IInv, Types, RunTask, FinishTask, ProcessQuery, ProcessQueryDropped
  <2>3. QED
    BY <1>1, <2>1, <2>2 DEF IInv, Types
<1>3. ConnInv' /\ CallsAreOnTheMapped' /\ TablesAreOwn' /\ OwnAnswer'
  BY <1>1 DEF IInv, ConnInv, CallsAreOnTheMapped, TablesAreOwn, OwnAnswer
<1>4. NumbersAreOwn'
  BY <1>1, NumbersStay DEF IInv
<1>5. TaskInv'
  BY <1>1, ZenonT(40) DEF IInv, Types, TaskInv, RunTask, FinishTask, ProcessQuery, ProcessQueryDropped
<1>6. QED
  BY <1>2, <1>3, <1>4, <1>5 DEF IInv

-----------------------------------------------------------------------------
(* Steps of the callers.                                                   *)

LEMMA OpenSteps ==
  ASSUME IInv, NEW k \in Callers, Open(k) \/ \E retry \in BOOLEAN : OpenFails(k, retry)
  PROVE  IInv'
<1> USE DEF conns, tables, tasks
<1>1. /\ UNCHANGED <<conns, tables, tasks, id>>
      /\ pc[k] = "opening"
      /\ on[k] = NoConn /\ id[k] = 0 /\ tries[k] < MaxTries
  BY DEF Open, OpenFails, IInv, CallsAreOnTheMapped
<1>2. \/ /\ openable /\ mapped \in Conns
         /\ on' = [on EXCEPT ![k] = mapped] /\ pc' = [pc EXCEPT ![k] = "opened"]
         /\ UNCHANGED <<tries, result>>
      \/ /\ pc' = [pc EXCEPT ![k] = "returned"] /\ result' = [result EXCEPT ![k] = "disconnected"]
         /\ tries' = [tries EXCEPT ![k] = @ + 1] /\ UNCHANGED on
      \/ /\ tries[k] + 1 < MaxTries
         /\ tries' = [tries EXCEPT ![k] = @ + 1] /\ UNCHANGED <<pc, on, result>>
  BY FastRPCAssumption DEF Open, OpenFails, IInv, Types
<1>3. MaxTries \in Nat /\ tries[k] \in Nat
  BY FastRPCAssumption DEF IInv, Types
<1>4. Types'
  <2>1. pc' \in [Callers -> CallerPC]
    BY <1>2 DEF IInv, Types, CallerPC
  <2>2. on' \in [Callers -> Conns \cup {NoConn}]
    BY <1>2 DEF IInv, Types
  <2>3. result' \in [Callers -> Callers \cup Errors]
    BY <1>2 DEF IInv, Types, Errors
  <2>4. tries[k] + 1 \in 0..MaxTries
    BY <1>1, <1>3
  <2>5. tries' \in [Callers -> 0..MaxTries]
    BY <1>2, <2>4 DEF IInv, Types
  <2>6. QED
    BY <1>1, <2>1, <2>2, <2>3, <2>5 DEF IInv, Types
<1>5. ConnInv' /\ TaskInv'
  BY <1>1 DEF IInv, ConnInv, TaskInv
<1>6. CallsAreOnTheMapped'
  <2>1. UNCHANGED <<mapped, id>> /\ id[k] = 0
    BY <1>1
  <2>2. ASSUME NEW m \in Callers, m # k
        PROVE  pc'[m] = pc[m] /\ on'[m] = on[m] /\ tries'[m] = tries[m]
    BY <1>2, <2>2 DEF IInv, Types
  <2>3. \/ pc'[k] = "opened" /\ on'[k] = mapped /\ mapped \in Conns
        \/ pc'[k] = "returned"
        \/ pc'[k] = "opening" /\ on'[k] = NoConn /\ tries'[k] < MaxTries
    BY <1>1, <1>2, <1>3 DEF IInv, Types
  <2>4. QED
    BY <2>1, <2>2, <2>3 DEF IInv, CallsAreOnTheMapped
<1>7. NumbersAreOwn'
  <2>1. \A m \in Callers : id'[m] = id[m] /\ (id[m] # 0 => on'[m] = on[m])
    BY <1>1, <1>2 DEF IInv, Types
  <2>2. \A c \in Conns : Numbered(c)' = Numbered(c)
    BY <2>1 DEF Numbered
  <2>3. nextId' = nextId
    BY <1>1
  <2>4. QED
    BY <2>1, <2>2, <2>3 DEF IInv, NumbersAreOwn
<1>8. TablesAreOwn'
  <2>1. \A m \in Callers : id[m] # 0 => on'[m] = on[m] /\ pc'[m] = pc[m]
    BY <1>1, <1>2 DEF IInv, Types
  <2>2. QED
    BY <1>1, <2>1, TablesStay DEF IInv
<1>9. OwnAnswer'
  BY <1>2, FastRPCAssumption DEF IInv, Types, OwnAnswer
<1>10. QED
  BY <1>4, <1>5, <1>6, <1>7, <1>8, <1>9 DEF IInv

\* The number that is given is nobody's yet, on this connection.
LEMMA NumberSteps ==
  ASSUME IInv, NEW k \in Callers, CreateRequestId(k)
  PROVE  IInv'
<1> USE DEF conns, tasks
<1> DEFINE c == on[k]
<1>1. /\ UNCHANGED <<conns, pending, answers, wire, tasks, on, tries, result>>
      /\ pc[k] = "opened" /\ pc' = [pc EXCEPT ![k] = "numbered"]
      /\ id' = [id EXCEPT ![k] = nextId[c]] /\ nextId' = [nextId EXCEPT ![c] = @ + 1]
  BY DEF CreateRequestId
<1>2. c \in Conns /\ id[k] = 0 /\ mapped = c
  BY <1>1 DEF IInv, CallsAreOnTheMapped
<1>3. nextId[c] \in Ids /\ nextId[c] \in Nat \ {0}
  BY <1>2, RoomForOne, IdFacts DEF IInv
<1>4. Types'
  BY <1>1, <1>2, <1>3 DEF IInv, Types, CallerPC
<1>5. ConnInv' /\ TaskInv' /\ OwnAnswer'
  BY <1>1 DEF IInv, ConnInv, TaskInv, OwnAnswer
<1>6. CallsAreOnTheMapped'
  BY <1>1, <1>2, <1>3 DEF IInv, Types, CallsAreOnTheMapped
<1>7. \A m \in Callers : m # k => id'[m] = id[m] /\ (id[m] # 0 /\ on[m] = c => id[m] < nextId[c])
  BY <1>1 DEF IInv, Types, NumbersAreOwn
<1>8. NumbersAreOwn'
  <2>1. \A d \in Conns : d = c => Numbered(d)' = Numbered(d) \cup {k} /\ k \notin Numbered(d)
    BY <1>1, <1>2, <1>3 DEF IInv, Types, Numbered
  <2>2. \A d \in Conns : d = c => Cardinality(Numbered(d)') = Cardinality(Numbered(d)) + 1
    <3> TAKE d \in Conns
    <3>1. HAVE d = c
    <3>2. Cardinality(Numbered(d) \cup {k}) = Cardinality(Numbered(d)) + 1
      BY <2>1, <3>1, NumberedFacts, FS_AddElement
    <3>3. QED
      BY <2>1, <3>1, <3>2
  <2>3. \A d \in Conns : d # c => Numbered(d)' = Numbered(d)
    BY <1>1 DEF IInv, Types, Numbered
  <2>4. \A d \in Conns : nextId'[d] = IF d = c THEN nextId[c] + 1 ELSE nextId[d]
    BY <1>1 DEF IInv, Types
  <2>5. \A d \in Conns : nextId'[d] = Cardinality(Numbered(d)') + 1
    <3> TAKE d \in Conns
    <3>1. nextId[d] = Cardinality(Numbered(d)) + 1
      BY DEF IInv, NumbersAreOwn
    <3>2. CASE d = c
      BY <1>2, <2>2, <2>4, <3>1, <3>2, NumberedFacts
    <3>3. CASE d # c
      BY <2>3, <2>4, <3>1, <3>3
    <3>4. QED
      BY <3>2, <3>3
  <2>6. \A m \in Callers : id'[m] = IF m = k THEN nextId[c] ELSE id[m]
    BY <1>1 DEF IInv, Types
  <2>7. \A m \in Callers : id[m] \in Nat /\ on[m] \in Conns \cup {NoConn}
    <3>1. \A m \in Callers : id[m] \in Ids \cup {0} /\ on[m] \in Conns \cup {NoConn}
      BY DEF IInv, Types
    <3>2. \A i \in Ids \cup {0} : i \in Nat
      BY IdFacts
    <3>3. QED
      BY <3>1, <3>2
  <2>8. \A m \in Callers : id'[m] # 0 => id'[m] < nextId'[on[m]]
    <3> TAKE m \in Callers
    <3>1. CASE m = k
      BY <3>1, <1>2, <1>3, <2>4, <2>6
    <3>2. CASE m # k
      <4>1. id[m] # 0 => on[m] \in Conns /\ id[m] < nextId[on[m]] /\ nextId[on[m]] \in Nat
        BY DEF IInv, Types, CallsAreOnTheMapped, NumbersAreOwn
      <4>2. QED
        BY <3>2, <4>1, <2>4, <2>6, <2>7
    <3>3. QED
      BY <3>1, <3>2
  <2>9. \A l, m \in Callers : on[l] = on[m] /\ id'[l] = id'[m] /\ id'[l] # 0 => l = m
    BY <1>3, <1>7, <2>6, <2>7 DEF IInv, NumbersAreOwn
  <2>10. QED
    BY <1>1, <2>5, <2>8, <2>9 DEF NumbersAreOwn
<1>9. TablesAreOwn'
  <2>1. \A m \in Callers : id[m] # 0 => id'[m] = id[m] /\ pc'[m] = pc[m]
    BY <1>1, <1>2 DEF IInv, Types
  <2>2. QED
    BY <1>1, <2>1, TablesStay DEF IInv
<1>10. QED
  BY <1>4, <1>5, <1>6, <1>8, <1>9 DEF IInv

LEMMA SendSteps ==
  ASSUME IInv, NEW k \in Callers, Authorize(k) \/ SendQuery(k)
  PROVE  IInv'
<1> USE DEF conns, tasks
<1>1. UNCHANGED <<conns, nextId, answers, tasks, on, id, tries, result>>
  BY DEF Authorize, SendQuery
<1>2. /\ pc[k] \in {"numbered", "pending"}
      /\ on[k] \in Conns /\ id[k] \in Ids /\ mapped = on[k]
  BY DEF Authorize, SendQuery, IInv, CallsAreOnTheMapped
<1>3. pc' = [pc EXCEPT ![k] = IF pc[k] = "numbered" THEN "pending" ELSE "looping"]
  BY DEF Authorize, SendQuery
<1>4. /\ wire' \in {wire, [wire EXCEPT ![on[k]] = @ \cup {<<id[k], k>>}]}
      /\ pending' \in {pending, [pending EXCEPT ![on[k]] = @ \cup {id[k]}]}
  BY DEF Authorize, SendQuery
<1>5. Types'
  <2>1. wire' \in [Conns -> SUBSET (Ids \X Callers)]
    <3>1. wire \in [Conns -> SUBSET (Ids \X Callers)]
      BY DEF IInv, Types
    <3>2. wire[on[k]] \cup {<<id[k], k>>} \in SUBSET (Ids \X Callers)
      BY <1>2, <3>1
    <3>3. QED
      BY <1>2, <1>4, <3>1, <3>2
  <2>2. pending' \in [Conns -> SUBSET Ids]
    BY <1>2, <1>4 DEF IInv, Types
  <2>3. pc' \in [Callers -> CallerPC]
    BY <1>3 DEF IInv, Types, CallerPC
  <2>4. QED
    BY <1>1, <2>1, <2>2, <2>3 DEF IInv, Types
<1>6. ConnInv' /\ TaskInv' /\ OwnAnswer'
  BY <1>1 DEF IInv, ConnInv, TaskInv, OwnAnswer
<1>7. CallsAreOnTheMapped'
  <2>1. UNCHANGED <<mapped, on, id, tries>>
    BY <1>1
  <2>2. \A m \in Callers : m # k => pc'[m] = pc[m]
    BY <1>3 DEF IInv, Types
  <2>3. pc'[k] \in {"pending", "looping"}
    BY <1>2, <1>3 DEF IInv, Types
  <2>4. QED
    BY <1>2, <2>1, <2>2, <2>3 DEF IInv, CallsAreOnTheMapped
<1>8. NumbersAreOwn'
  BY <1>1, NumbersStay DEF IInv
<1>9. ASSUME NEW d \in Conns, NEW j \in Ids
      PROVE  /\ \A m \in Callers : <<j, m>> \in wire'[d] => on'[m] = d /\ id'[m] = j
             /\ answers'[d][j] # NoCaller =>
                  j \in pending'[d] /\ on'[answers'[d][j]] = d /\ id'[answers'[d][j]] = j
             /\ j \in pending'[d] => \E m \in Callers : on'[m] = d /\ id'[m] = j /\ pc'[m] \in InCall
  <2>1. \A m \in Callers : <<j, m>> \in wire'[d] => <<j, m>> \in wire[d] \/ (d = on[k] /\ j = id[k] /\ m = k)
    BY <1>4 DEF IInv, Types
  <2>2. pending[d] \subseteq pending'[d] /\ (j \in pending'[d] => j \in pending[d] \/ (d = on[k] /\ j = id[k]))
    BY <1>4 DEF IInv, Types
  <2>3. \A m \in Callers : (pc[m] \in InCall => pc'[m] \in InCall) /\ pc'[k] \in InCall
    BY <1>3 DEF IInv, Types, InCall
  <2>4. \A m \in Callers : <<j, m>> \in wire'[d] => on'[m] = d /\ id'[m] = j
    BY <1>1, <2>1 DEF IInv, TablesAreOwn
  <2>5. answers'[d][j] # NoCaller =>
          j \in pending'[d] /\ on'[answers'[d][j]] = d /\ id'[answers'[d][j]] = j
    BY <1>1, <2>2 DEF IInv, TablesAreOwn
  <2>6. j \in pending'[d] => \E m \in Callers : on'[m] = d /\ id'[m] = j /\ pc'[m] \in InCall
    BY <1>1, <2>2, <2>3 DEF IInv, TablesAreOwn
  <2>7. QED
    BY <2>4, <2>5, <2>6
<1>10. TablesAreOwn'
  BY <1>9 DEF TablesAreOwn
<1>11. QED
  BY <1>5, <1>6, <1>7, <1>8, <1>10 DEF IInv

\* The loop takes an answer by its number: the number is the caller's own.
LEMMA LoopSteps ==
  ASSUME IInv, NEW k \in Callers,
         \/ Wait(k) \/ Timeout(k) \/ TakeAnswer(k) \/ SeeTerminated(k) \/ KeepWaiting(k) \/ WokenForOthers(k)
  PROVE  IInv'
<1> USE DEF conns, tables, tasks
<1>1. UNCHANGED <<conns, tables, tasks, on, id, tries>>
  BY DEF Wait, Timeout, TakeAnswer, SeeTerminated, KeepWaiting, WokenForOthers, Finish
<1>2. pc[k] \in {"looping", "waiting", "woke"}
      /\ \E place \in {"looping", "waiting", "woke", "cleaning"} : pc' = [pc EXCEPT ![k] = place]
  BY DEF Wait, Timeout, TakeAnswer, SeeTerminated, KeepWaiting, WokenForOthers, Finish
<1>3. on[k] \in Conns /\ id[k] \in Ids /\ id[k] # 0
  BY <1>2, IdFacts DEF IInv, CallsAreOnTheMapped
<1>4. \/ result' = result
      \/ \E r \in {"timeout", "terminated", k} : result' = [result EXCEPT ![k] = r]
  <2>1. CASE TakeAnswer(k)
    <3> DEFINE m == answers[on[k]][id[k]]
    <3>1. m # NoCaller /\ result' = [result EXCEPT ![k] = m]
      BY <2>1 DEF TakeAnswer, Finish
    <3>2. m \in Callers /\ on[m] = on[k] /\ id[m] = id[k]
      BY <1>3, <3>1 DEF IInv, Types, TablesAreOwn
    <3>3. m = k
      BY <1>3, <3>2 DEF IInv, NumbersAreOwn
    <3>4. QED
      BY <3>1, <3>3
  <2>2. CASE Wait(k) \/ Timeout(k) \/ SeeTerminated(k) \/ KeepWaiting(k) \/ WokenForOthers(k)
    BY <2>2 DEF Wait, Timeout, SeeTerminated, KeepWaiting, WokenForOthers, Finish
  <2>3. QED
    BY <2>1, <2>2
<1>5. Types'
  <2>1. pc' \in [Callers -> CallerPC]
    BY <1>2 DEF IInv, Types, CallerPC
  <2>2. result' \in [Callers -> Callers \cup Errors]
    <3>1. \A r \in {"timeout", "terminated", k} : r \in Callers \cup Errors
      BY DEF Errors
    <3>2. result \in [Callers -> Callers \cup Errors]
      BY DEF IInv, Types
    <3>3. ASSUME NEW r \in {"timeout", "terminated", k}, result' = [result EXCEPT ![k] = r]
          PROVE  result' \in [Callers -> Callers \cup Errors]
      BY <3>1, <3>2, <3>3
    <3>4. QED
      BY <1>4, <3>2, <3>3
  <2>3. QED
    BY <1>1, <2>1, <2>2 DEF IInv, Types
<1>6. ConnInv' /\ TaskInv'
  BY <1>1 DEF IInv, ConnInv, TaskInv
<1>7. CallsAreOnTheMapped'
  BY <1>1, <1>2 DEF IInv, Types, CallsAreOnTheMapped
<1>8. NumbersAreOwn'
  BY <1>1, NumbersStay DEF IInv
<1>9. TablesAreOwn'
  <2>1. \A m \in Callers : pc[m] \in InCall => pc'[m] \in InCall
    BY <1>2 DEF IInv, Types, InCall
  <2>2. QED
    BY <1>1, <2>1, TablesStay DEF IInv
<1>10. OwnAnswer'
  <2>1. result \in [Callers -> Callers \cup Errors] /\ OwnAnswer
    BY DEF IInv, Types
  <2>2. "timeout" \notin Callers /\ "terminated" \notin Callers
    BY FastRPCAssumption
  <2>3. QED
    BY <1>4, <2>1, <2>2 DEF OwnAnswer
<1>11. QED
  BY <1>5, <1>6, <1>7, <1>8, <1>9, <1>10 DEF IInv

\* What a caller removes is its own, and all it left.
LEMMA CleanUpSteps ==
  ASSUME IInv, NEW k \in Callers, CleanUp(k)
  PROVE  IInv'
<1> USE DEF conns, tasks
<1> DEFINE c == on[k]
<1>1. /\ UNCHANGED <<conns, nextId, wire, tasks, on, id, tries, result>>
      /\ pc[k] = "cleaning" /\ pc' = [pc EXCEPT ![k] = "releasing"]
      /\ answers' = [answers EXCEPT ![c][id[k]] = NoCaller]
      /\ pending' = [pending EXCEPT ![c] = @ \ {id[k]}]
  BY DEF CleanUp
<1>2. c \in Conns /\ id[k] \in Ids
  BY <1>1 DEF IInv, CallsAreOnTheMapped
<1>3. Types'
  BY <1>1, <1>2 DEF IInv, Types, CallerPC
<1>4. ConnInv' /\ TaskInv' /\ OwnAnswer'
  BY <1>1 DEF IInv, ConnInv, TaskInv, OwnAnswer
<1>5. CallsAreOnTheMapped'
  BY <1>1 DEF IInv, Types, CallsAreOnTheMapped
<1>6. NumbersAreOwn'
  BY <1>1, NumbersStay DEF IInv
<1>7. ASSUME NEW d \in Conns, NEW j \in Ids
      PROVE  /\ \A m \in Callers : <<j, m>> \in wire'[d] => on'[m] = d /\ id'[m] = j
             /\ answers'[d][j] # NoCaller =>
                  j \in pending'[d] /\ on'[answers'[d][j]] = d /\ id'[answers'[d][j]] = j
             /\ j \in pending'[d] => \E m \in Callers : on'[m] = d /\ id'[m] = j /\ pc'[m] \in InCall
  <2>1. CASE d = c /\ j = id[k]
    BY <1>1, <1>2, <2>1 DEF IInv, Types, TablesAreOwn
  <2>2. CASE ~(d = c /\ j = id[k])
    <3>1. answers'[d][j] = answers[d][j] /\ (j \in pending'[d] <=> j \in pending[d])
      BY <1>1, <1>2, <2>2 DEF IInv, Types
    <3>2. \A m \in Callers : on[m] = d /\ id[m] = j => pc'[m] = pc[m]
      BY <1>1, <2>2 DEF IInv, Types
    <3>3. QED
      BY <1>1, <3>1, <3>2 DEF IInv, TablesAreOwn
  <2>3. QED
    BY <2>1, <2>2
<1>8. TablesAreOwn'
  BY <1>7 DEF TablesAreOwn
<1>9. QED
  BY <1>3, <1>4, <1>5, <1>6, <1>8 DEF IInv

LEMMA ReleaseSteps ==
  ASSUME IInv, NEW k \in Callers, Release(k)
  PROVE  IInv'
<1> USE DEF conns, tables, tasks
<1>1. /\ UNCHANGED <<conns, tables, tasks, on, id, tries, result>>
      /\ pc[k] = "releasing" /\ pc' = [pc EXCEPT ![k] = "returned"]
  BY DEF Release
<1>2. Types'
  BY <1>1 DEF IInv, Types, CallerPC
<1>3. ConnInv' /\ TaskInv' /\ OwnAnswer'
  BY <1>1 DEF IInv, ConnInv, TaskInv, OwnAnswer
<1>4. CallsAreOnTheMapped'
  BY <1>1 DEF IInv, Types, CallsAreOnTheMapped
<1>5. NumbersAreOwn'
  BY <1>1, NumbersStay DEF IInv
<1>6. TablesAreOwn'
  <2>1. \A m \in Callers : pc[m] \in InCall => pc'[m] \in InCall
    BY <1>1 DEF IInv, Types, InCall
  <2>2. QED
    BY <1>1, <2>1, TablesStay DEF IInv
<1>7. QED
  BY <1>2, <1>3, <1>4, <1>5, <1>6 DEF IInv

-----------------------------------------------------------------------------
LEMMA StepIInv == IInv /\ [Next]_vars => IInv'
<1> SUFFICES ASSUME IInv, [Next]_vars PROVE IInv'
  OBVIOUS
<1>1. ASSUME NEW c \in Conns, Register(c) \/ RegisterRefused(c) \/ StreamEnds(c) \/ ConnStep(c) PROVE IInv'
  BY <1>1, ConnSteps, NotifySteps DEF ConnStep
<1>2. ASSUME NEW c \in Conns, NEW i \in Ids, NEW k \in Callers, ProcessAnswer(c, i, k) \/ ProcessBadAnswer(c, i, k)
      PROVE IInv'
  BY <1>2, AnswerSteps
<1>3. ASSUME NEW x \in Queries, TaskStep(x) \/ \E c \in Conns : ProcessQuery(c, x) \/ ProcessQueryDropped(c, x)
      PROVE IInv'
  BY <1>3, TaskSteps DEF TaskStep
<1>4. ASSUME NEW k \in Callers, CallStep(k) \/ Timeout(k) \/ KeepWaiting(k) \/ WokenForOthers(k) PROVE IInv'
  BY <1>4, OpenSteps, NumberSteps, SendSteps, LoopSteps, CleanUpSteps, ReleaseSteps DEF CallStep
<1>5. CASE UNCHANGED vars
  <2>1. UNCHANGED <<conns, tables, tasks, calls>>
    BY <1>5 DEF vars
  <2>2. NumbersAreOwn'
    BY <2>1, NumbersStay DEF IInv, tables, calls
  <2>3. Types' /\ ConnInv' /\ CallsAreOnTheMapped' /\ TablesAreOwn' /\ OwnAnswer' /\ TaskInv'
    BY <2>1 DEF IInv, conns, tables, tasks, calls, Types, ConnInv, CallsAreOnTheMapped, TablesAreOwn, OwnAnswer, TaskInv
  <2>4. QED
    BY <2>2, <2>3 DEF IInv
<1>6. QED
  BY <1>1, <1>2, <1>3, <1>4, <1>5 DEF Next

LEMMA Invariance == Spec => []IInv
BY InitIInv, StepIInv, PTL DEF Spec

\* The variables keep their types: requestIdCounter counts one for each call.
THEOREM TypeCorrect == Spec => []TypeOK
<1>1. ASSUME IInv PROVE nextId \in [Conns -> 1..Cardinality(Callers) + 1]
  <2>1. \A c \in Conns : nextId[c] \in 1..Cardinality(Callers) + 1
    BY <1>1, NumberedFacts, IdFacts DEF IInv, NumbersAreOwn
  <2>2. QED
    BY <1>1, <2>1 DEF IInv, Types
<1>2. IInv => TypeOK
  BY <1>1 DEF IInv, Types, TypeOK
<1>3. QED
  BY <1>2, Invariance, PTL

\* A call gets the answer to its own query or none, and leaves nothing behind,
\* whatever the peer sends and whenever a call gives up.
THEOREM AnswersAreOfTheirCalls == Spec => []AnswersAreOwn
<1>1. IInv => NoLeftovers
  BY DEF IInv, TablesAreOwn, NoLeftovers, InCall
<1>2. IInv => AnswersAreOwn
  BY <1>1 DEF IInv, AnswersAreOwn
<1>3. QED
  BY <1>2, Invariance, PTL

\* Callers and tasks never use a connection, or its stream, after its end.
THEOREM UsedIsThere == Spec => []NothingUsedIsGone
<1>1. IInv => ConnectionOutlivesCallers
  BY FastRPCAssumption DEF IInv, Types, ConnInv, CallsAreOnTheMapped, ConnectionOutlivesCallers, Holds, Active
<1>2. IInv => StreamOutlivesTasks
  BY DEF IInv, TaskInv, StreamOutlivesTasks
<1>3. IInv => NothingUsedIsGone
  BY <1>1, <1>2 DEF NothingUsedIsGone
<1>4. QED
  BY <1>3, Invariance, PTL
=============================================================================
