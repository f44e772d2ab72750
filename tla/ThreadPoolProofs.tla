-------------------------- MODULE ThreadPoolProofs --------------------------
(***************************************************************************)
(* Proofs about ThreadPool, for any number of workers, callers, tasks and  *)
(* queues.                                                                 *)
(*                                                                         *)
(* QueueBounded and TasksAreServed are inductive beside the types.  That   *)
(* the pool implements TaskService needs two more facts: where a thread is *)
(* tells what it has in hand (Holding), and a task is in one place         *)
(* (OnePlace), so that a step which moves a task leaves the fate of every  *)
(* other task alone.                                                       *)
(*                                                                         *)
(* That nobody sleeps beside room is a matter of numbers: a queue with     *)
(* sleepers has more tasks, and threads on their way to fill it, than its  *)
(* limit.                                                                  *)
(***************************************************************************)
EXTENDS ThreadPool, SequenceTheorems, FiniteSetTheorems, TLAPS

\* Where a thread is tells what it has in hand.
Holding ==
  /\ \A w \in Workers : /\ pc[w] \in WorkerPC
                        /\ pc[w] \in {"notifyRemoved", "running"} <=> task[w] # NoTask
  /\ \A t \in Pushers :
       /\ pc[t] \in PusherPC
       /\ pc[t] \in {"blocking", "waitRemoved", "wokeRemoved"} <=> task[t] # NoTask
       /\ pc[t] \in {"blocking", "waitRemoved", "wokeRemoved"} => slot[t] \in Queues
  /\ pc[Owner] \in OwnerPC /\ task[Owner] = NoTask

IInv == TypeOK /\ Holding /\ OnePlace

\* The steps that touch neither a queue nor what a thread has in hand.
Quiet ==
  \/ \E t \in Pushers : PushWait(t) \/ PushAgain(t) \/ NotifyInserted(t)
  \/ \E w \in Workers : PopWait(w) \/ PopExit(w) \/ NotifyRemoved(w)
  \/ \E from \in {"stopping", "destroying"} : Stop(from)
  \/ OwnerStep
  \/ \E n \in Limits : SetTasksByQueueLimit(n)
  \/ \E t \in Threads : SpuriousWake(t)

\* What pushTask inserts, at once or after a wait, is in no other place.
Inserts(t, x, q) ==
  /\ Insert(t, x, q)
  /\ Len(queues[q]) <= limit
  /\ x \in Tasks /\ q \in Queues /\ t \in Pushers
  /\ \/ pc[t] = "idle" /\ Fresh(x)
     \/ pc[t] = "wokeRemoved" /\ task[t] = x

-----------------------------------------------------------------------------
\* What a queue holds after push_back and after pop_front.
LEMMA AppendFacts ==
  ASSUME NEW S, NEW s \in Seq(S), NEW x \in S
  PROVE  /\ Append(s, x) \in Seq(S)
         /\ Len(Append(s, x)) = Len(s) + 1
         /\ \A n \in 1..Len(s) : Append(s, x)[n] = s[n]
         /\ Append(s, x)[Len(s) + 1] = x
OBVIOUS

\* Every step, sorted by what it does to queues and hands.
LEMMA StepCases ==
  ASSUME TypeOK, Holding, Next
  PROVE  \/ Quiet
         \/ \E t \in Pushers, x \in Tasks : Fresh(x) /\ PushRefused(t, x)
         \/ \E t \in Pushers, x \in Tasks, q \in Queues : Inserts(t, x, q)
         \/ \E t \in Pushers, x \in Tasks, q \in Queues : Fresh(x) /\ PushFull(t, x, q)
         \/ \E t \in Pushers : PushTimeout(t)
         \/ \E w \in Workers, q \in Queues : PopTake(w, q)
         \/ \E w \in Workers : RunTask(w)
<1>1. ASSUME NEW t \in Pushers, NEW x \in Tasks, NEW q \in Queues, Fresh(x), PushInsert(t, x, q)
      PROVE  Inserts(t, x, q)
  BY <1>1 DEF PushInsert, Inserts
<1>2. ASSUME NEW t \in Pushers, PushResume(t)
      PROVE  \E x \in Tasks, q \in Queues : Inserts(t, x, q)
  <2>1. task[t] \in Tasks /\ slot[t] \in Queues
    BY <1>2 DEF PushResume, TypeOK, Holding, Threads
  <2>2. PICK x \in Tasks, q \in Queues : x = task[t] /\ q = slot[t]
    BY <2>1
  <2>3. Inserts(t, x, q)
    BY <1>2, <2>2 DEF PushResume, Inserts
  <2>4. QED
    BY <2>3
<1>3. QED
  BY <1>1, <1>2 DEF Next, PusherStep, WorkerStep, Quiet

-----------------------------------------------------------------------------
LEMMA InitHolds == Init => TypeOK /\ Holding /\ OnePlace /\ QueueBounded /\ TasksAreServed
<1> SUFFICES ASSUME Init PROVE TypeOK /\ Holding /\ OnePlace /\ QueueBounded /\ TasksAreServed
  OBVIOUS
<1>1. TypeOK
  <2>1. queues \in [Queues -> Seq(Tasks)]
    BY EmptySeq DEF Init
  <2>2. pc \in [Threads -> WorkerPC \cup PusherPC \cup OwnerPC]
    BY DEF Init, WorkerPC, PusherPC, OwnerPC
  <2>3. QED
    BY <2>1, <2>2 DEF Init, TypeOK
<1>2. Holding
  BY ThreadPoolAssumption DEF Init, Holding, WorkerPC, PusherPC, OwnerPC, Threads
<1>3. OnePlace
  BY DEF Init, OnePlace, Queued, InHand
<1>4. QueueBounded
  BY ThreadPoolAssumption DEF Init, QueueBounded
<1>5. TasksAreServed
  BY DEF Init, TasksAreServed, AllEmpty
<1>6. QED
  BY <1>1, <1>2, <1>3, <1>4, <1>5

\* Types and hands, step by step.
LEMMA QuietTypes ==
  ASSUME TypeOK, Holding, Quiet
  PROVE  TypeOK' /\ Holding' /\ UNCHANGED <<queues, task, ran, refused>>
<1> USE ThreadPoolAssumption DEF TypeOK, Holding, Threads, WorkerPC, PusherPC, OwnerPC
<1>1. ASSUME NEW t \in Pushers, PushWait(t) \/ PushAgain(t)
      PROVE  TypeOK' /\ Holding' /\ UNCHANGED <<queues, task, ran, refused>>
  BY <1>1 DEF PushWait, PushAgain
<1>2. ASSUME NEW t \in Pushers, NotifyInserted(t)
      PROVE  TypeOK' /\ Holding' /\ UNCHANGED <<queues, task, ran, refused>>
  <2>1. UNCHANGED <<queues, limit, terminate, task, slot, ran, refused, passedOver>> /\ pc[t] = "notifyInserted"
    BY <1>2 DEF NotifyInserted
  <2>2. CASE WaitingInserted = {}
    <3>1. pc' = [pc EXCEPT ![t] = "idle"]
      BY <1>2, <2>2 DEF NotifyInserted, NotifyOne
    <3>2. QED
      BY <2>1, <3>1
  <2>3. CASE WaitingInserted # {}
    <3>1. PICK w \in Workers : /\ pc[w] = "waitInserted"
                               /\ pc' = [pc EXCEPT ![t] = "idle", ![w] = "wokeInserted"]
      BY <1>2, <2>3 DEF NotifyInserted, NotifyOne, WaitingInserted
    <3>2. QED
      BY <2>1, <3>1
  <2>4. QED
    BY <2>2, <2>3
<1>3. ASSUME NEW w \in Workers, PopWait(w) \/ PopExit(w)
      PROVE  TypeOK' /\ Holding' /\ UNCHANGED <<queues, task, ran, refused>>
  BY <1>3 DEF PopWait, PopExit
<1>4. ASSUME NEW w \in Workers, NotifyRemoved(w)
      PROVE  TypeOK' /\ Holding' /\ UNCHANGED <<queues, task, ran, refused>>
  <2>1. /\ UNCHANGED <<queues, limit, terminate, task, ran, refused, passedOver>>
        /\ slot' = [slot EXCEPT ![w] = NoQueue]
        /\ pc[w] = "notifyRemoved"
    BY <1>4 DEF NotifyRemoved
  <2>2. CASE WaitingRemoved(slot[w]) = {}
    <3>1. pc' = [pc EXCEPT ![w] = "running"]
      BY <1>4, <2>2 DEF NotifyRemoved, NotifyOne
    <3>2. QED
      BY <2>1, <3>1
  <2>3. CASE WaitingRemoved(slot[w]) # {}
    <3>1. PICK t \in Pushers : /\ pc[t] = "waitRemoved"
                               /\ pc' = [pc EXCEPT ![w] = "running", ![t] = "wokeRemoved"]
      BY <1>4, <2>3 DEF NotifyRemoved, NotifyOne, WaitingRemoved
    <3>2. QED
      BY <2>1, <3>1
  <2>4. QED
    BY <2>2, <2>3
<1>5. ASSUME NEW from \in {"stopping", "destroying"}, Stop(from)
      PROVE  TypeOK' /\ Holding' /\ UNCHANGED <<queues, task, ran, refused>>
  BY <1>5 DEF Stop
<1>6. ASSUME OwnerStep
      PROVE  TypeOK' /\ Holding' /\ UNCHANGED <<queues, task, ran, refused>>
  BY <1>6 DEF OwnerStep, StopNotify, LimitNotify, Join
<1>7. ASSUME NEW n \in Limits, SetTasksByQueueLimit(n)
      PROVE  TypeOK' /\ Holding' /\ UNCHANGED <<queues, task, ran, refused>>
  BY <1>7 DEF SetTasksByQueueLimit
<1>8. ASSUME NEW t \in Threads, SpuriousWake(t)
      PROVE  TypeOK' /\ Holding' /\ UNCHANGED <<queues, task, ran, refused>>
  BY <1>8 DEF SpuriousWake
<1>9. QED
  BY <1>1, <1>2, <1>3, <1>4, <1>5, <1>6, <1>7, <1>8 DEF Quiet

LEMMA StepTypes == TypeOK /\ Holding /\ [Next]_vars => TypeOK' /\ Holding'
<1> SUFFICES ASSUME TypeOK, Holding, [Next]_vars PROVE TypeOK' /\ Holding'
  OBVIOUS
<1>0. CASE UNCHANGED vars
  BY <1>0 DEF vars, TypeOK, Holding
<1>1. ASSUME NEW t \in Pushers, NEW x \in Tasks, PushRefused(t, x) PROVE TypeOK' /\ Holding'
  BY <1>1 DEF PushRefused, TypeOK, Holding
<1>2. ASSUME NEW t \in Pushers, NEW x \in Tasks, NEW q \in Queues, Inserts(t, x, q)
      PROVE  TypeOK' /\ Holding'
  <2>1. queues' \in [Queues -> Seq(Tasks)]
    BY <1>2, AppendFacts DEF Inserts, Insert, TypeOK
  <2>2. pc' = [pc EXCEPT ![t] = "notifyInserted"] /\ task' = [task EXCEPT ![t] = NoTask]
        /\ slot' = [slot EXCEPT ![t] = NoQueue] /\ passedOver' = passedOver \ {t}
        /\ UNCHANGED <<limit, terminate, ran, refused>>
    BY <1>2 DEF Inserts, Insert
  <2>3. QED
    BY <2>1, <2>2, ThreadPoolAssumption DEF TypeOK, Holding, Threads, PusherPC
<1>3. ASSUME NEW t \in Pushers, NEW x \in Tasks, NEW q \in Queues, PushFull(t, x, q)
      PROVE  TypeOK' /\ Holding'
  BY <1>3, ThreadPoolAssumption DEF PushFull, TypeOK, Holding, Threads, PusherPC
<1>4. ASSUME NEW t \in Pushers, PushTimeout(t) PROVE TypeOK' /\ Holding'
  <2>1. passedOver' \in SUBSET Pushers
    BY <1>4 DEF PushTimeout, TypeOK, WaitingRemoved
  <2>2. QED
    BY <1>4, <2>1, ThreadPoolAssumption DEF PushTimeout, TypeOK, Holding, Threads, PusherPC
<1>5. ASSUME NEW w \in Workers, NEW q \in Queues, PopTake(w, q) PROVE TypeOK' /\ Holding'
  <2>1. Head(queues[q]) \in Tasks /\ Tail(queues[q]) \in Seq(Tasks)
    BY <1>5, HeadTailProperties DEF PopTake, Take, TypeOK
  <2>2. QED
    BY <1>5, <2>1, ThreadPoolAssumption DEF PopTake, Take, TypeOK, Holding, Threads, WorkerPC
<1>6. ASSUME NEW w \in Workers, RunTask(w) PROVE TypeOK' /\ Holding'
  BY <1>6, ThreadPoolAssumption DEF RunTask, TypeOK, Holding, Threads, WorkerPC
<1>7. QED
  BY <1>0, <1>1, <1>2, <1>3, <1>4, <1>5, <1>6, StepCases, QuietTypes

\* The variables of the pool keep their types.
THEOREM TypeCorrect == Spec => []TypeOK
<1>1. Init => TypeOK /\ Holding
  BY InitHolds
<1>2. QED
  BY <1>1, StepTypes, PTL DEF Spec

-----------------------------------------------------------------------------
LEMMA StepBounded ==
  TypeOK /\ Holding /\ QueueBounded /\ [Next]_vars => QueueBounded'
<1> SUFFICES ASSUME TypeOK, Holding, QueueBounded, [Next]_vars, NEW p \in Queues
             PROVE  \E n \in Limits : Len(queues'[p]) <= n + 1
  BY DEF QueueBounded
<1>1. CASE UNCHANGED queues
  BY <1>1 DEF QueueBounded
<1>2. ASSUME NEW t \in Pushers, NEW x \in Tasks, NEW q \in Queues, Inserts(t, x, q)
      PROVE  \E n \in Limits : Len(queues'[p]) <= n + 1
  <2>1. CASE p = q
    <3>1. Len(queues'[p]) = Len(queues[q]) + 1 /\ Len(queues[q]) \in Nat
      BY <1>2, <2>1, AppendFacts, LenProperties DEF Inserts, Insert, TypeOK
    <3>2. Len(queues[q]) <= limit /\ limit \in Limits /\ limit \in Nat
      BY <1>2, ThreadPoolAssumption DEF Inserts, TypeOK
    <3>3. QED
      BY <3>1, <3>2
  <2>2. CASE p # q
    BY <1>2, <2>2 DEF Inserts, Insert, TypeOK, QueueBounded
  <2>3. QED
    BY <2>1, <2>2
<1>3. ASSUME NEW w \in Workers, NEW q \in Queues, PopTake(w, q)
      PROVE  \E n \in Limits : Len(queues'[p]) <= n + 1
  <2>1. CASE p = q
    <3>1. Len(queues'[p]) = Len(queues[p]) - 1 /\ Len(queues[p]) \in Nat
      BY <1>3, <2>1, HeadTailProperties, LenProperties DEF PopTake, Take, TypeOK
    <3>2. PICK n \in Limits : Len(queues[p]) <= n + 1
      BY DEF QueueBounded
    <3>3. QED
      BY <3>1, <3>2, ThreadPoolAssumption
  <2>2. CASE p # q
    BY <1>3, <2>2 DEF PopTake, Take, TypeOK, QueueBounded
  <2>3. QED
    BY <2>1, <2>2
<1>4. QED
  BY <1>1, <1>2, <1>3, StepCases, QuietTypes
     DEF vars, PushRefused, PushFull, PushTimeout, RunTask

\* No queue holds more than one task above the highest limit, whoever waits
\* for room in pushTask while the limit changes.
THEOREM QueuesAreBounded == Spec => []QueueBounded
<1>1. Init => TypeOK /\ Holding /\ QueueBounded
  BY InitHolds
<1>2. QED
  BY <1>1, StepTypes, StepBounded, PTL DEF Spec

-----------------------------------------------------------------------------
(* No task waits in a queue beside workers that all sleep. *)

\* What TasksAreServed asks for: a worker that is up, or a caller about to wake one.
Stirring ==
  \/ \E w \in Workers : pc[w] \in {"pop", "wokeInserted", "notifyRemoved", "running"}
  \/ \E t \in Pushers : pc[t] = "notifyInserted"

\* The step of one thread leaves the others as they are, but for the one it
\* wakes, which was not up.
LEMMA StepServed ==
  TypeOK /\ Holding /\ TasksAreServed /\ [Next]_vars => TasksAreServed'
<1> SUFFICES ASSUME TypeOK, Holding, TasksAreServed, [Next]_vars,
                    ~AllEmpty', NEW v \in Workers, pc'[v] = "waitInserted"
             PROVE  Stirring'
  BY DEF TasksAreServed, Stirring, WaitingInserted
<1> USE ThreadPoolAssumption DEF Threads
<1>0. ASSUME UNCHANGED queues, pc[v] = "waitInserted" PROVE Stirring
  BY <1>0 DEF TasksAreServed, Stirring, WaitingInserted, AllEmpty
<1>1. CASE UNCHANGED vars
  BY <1>0, <1>1 DEF vars, Stirring
<1>2. ASSUME NEW t \in Pushers, NEW x \in Tasks, PushRefused(t, x) PROVE Stirring'
  BY <1>0, <1>2 DEF PushRefused, Stirring
<1>3. ASSUME NEW t \in Pushers, NEW x \in Tasks, NEW q \in Queues, Inserts(t, x, q)
      PROVE  Stirring'
  BY <1>3 DEF Inserts, Insert, Stirring, TypeOK
<1>4. ASSUME NEW t \in Pushers, NEW x \in Tasks, NEW q \in Queues, PushFull(t, x, q)
      PROVE  Stirring'
  BY <1>0, <1>4 DEF PushFull, Stirring, TypeOK
<1>5. ASSUME NEW t \in Pushers, PushTimeout(t) PROVE Stirring'
  BY <1>0, <1>5 DEF PushTimeout, Stirring, TypeOK
<1>6. ASSUME NEW w \in Workers, NEW q \in Queues, PopTake(w, q) PROVE Stirring'
  BY <1>6 DEF PopTake, Take, Stirring, TypeOK
<1>7. ASSUME NEW w \in Workers, RunTask(w) PROVE Stirring'
  BY <1>7 DEF RunTask, Stirring, TypeOK
<1>8. ASSUME NEW t \in Pushers, PushWait(t) \/ PushAgain(t) PROVE Stirring'
  BY <1>0, <1>8 DEF PushWait, PushAgain, Stirring, TypeOK
<1>9. ASSUME NEW t \in Pushers, NotifyInserted(t) PROVE Stirring'
  <2>1. v # t /\ pc[v] = "waitInserted"
    BY <1>9 DEF NotifyInserted, NotifyOne, WaitingInserted, TypeOK
  <2>2. PICK w \in Workers : pc' = [pc EXCEPT ![t] = "idle", ![w] = "wokeInserted"]
    BY <1>9, <2>1 DEF NotifyInserted, NotifyOne, WaitingInserted
  <2>3. QED
    BY <2>2 DEF Stirring, TypeOK
<1>10. ASSUME NEW w \in Workers, PopWait(w) \/ PopExit(w) PROVE Stirring'
  BY <1>10 DEF PopWait, PopExit, AllEmpty
<1>11. ASSUME NEW w \in Workers, NotifyRemoved(w) PROVE Stirring'
  <2>1. pc'[w] = "running"
    BY <1>11 DEF NotifyRemoved, NotifyOne, WaitingRemoved, TypeOK
  <2>2. QED
    BY <2>1 DEF Stirring
<1>12. ASSUME NEW from \in {"stopping", "destroying"}, Stop(from) PROVE Stirring'
  BY <1>0, <1>12 DEF Stop, Stirring, TypeOK
<1>13. ASSUME StopNotify PROVE Stirring'
  BY <1>13 DEF StopNotify
<1>14. ASSUME Join PROVE Stirring'
  BY <1>0, <1>14 DEF Join, Stirring, TypeOK
<1>lim. ASSUME LimitNotify PROVE Stirring'
  BY <1>0, <1>lim DEF LimitNotify, Stirring, TypeOK, Holding, PusherPC
<1>15. ASSUME NEW n \in Limits, SetTasksByQueueLimit(n) PROVE Stirring'
  BY <1>0, <1>15 DEF SetTasksByQueueLimit, Stirring, TypeOK, Holding, PusherPC
<1>16. ASSUME NEW t \in Threads, SpuriousWake(t) PROVE Stirring'
  BY <1>0, <1>16 DEF SpuriousWake, Stirring, TypeOK
<1>17. QED
  BY <1>1, <1>2, <1>3, <1>4, <1>5, <1>6, <1>7, <1>8, <1>9, <1>10, <1>11, <1>12, <1>13,
     <1>14, <1>15, <1>16, <1>lim, StepCases DEF Quiet, OwnerStep

\* The notifications that pushTask, popTask and stop send after they unlock
\* leave no task in a queue beside workers that all sleep.
THEOREM NoTaskIsForgotten == Spec => []TasksAreServed
<1>1. Init => TypeOK /\ Holding /\ TasksAreServed
  BY InitHolds
<1>2. QED
  BY <1>1, StepTypes, StepServed, PTL DEF Spec

-----------------------------------------------------------------------------
(* No caller that was not passed over sleeps beside room in its queue.      *)
(* popTask wakes one caller for each task it takes, so what has to be kept  *)
(* is a number: as long as such a caller sleeps on a queue, those on their  *)
(* way to it (workers about to wake a caller, callers that were woken) are  *)
(* enough to fill it, or everyone on it is about to be woken.               *)

Comers(q) == {t \in Threads : pc[t] \in {"notifyRemoved", "wokeRemoved"} /\ slot[t] = q}
Limiting == pc[Owner] = "limiting"
Filled(q) ==
  Limiting \/ (WaitingRemoved(q) \subseteq passedOver)
    \/ Cardinality(Comers(q)) + Len(queues[q]) >= limit + 1
\* Between its test and its wait a caller is still right about its queue.
Blocked ==
  Limiting \/ \A t \in Pushers \ passedOver : pc[t] = "blocking" => Len(queues[slot[t]]) > limit
Room == Blocked /\ \A q \in Queues : Filled(q)

LEMMA Counting ==
  ASSUME NEW A, NEW B, IsFiniteSet(A), IsFiniteSet(B)
  PROVE  /\ Cardinality(A) \in Nat /\ Cardinality(B) \in Nat
         /\ A \subseteq B => Cardinality(A) <= Cardinality(B)
         /\ \A x : A \ {x} \subseteq B => Cardinality(A) <= Cardinality(B) + 1
         /\ \A x : A \cup {x} \subseteq B /\ x \notin A => Cardinality(A) + 1 <= Cardinality(B)
         /\ \A x, y : (A \ {x}) \cup {y} \subseteq B /\ y \notin A => Cardinality(A) <= Cardinality(B)
<1>1. Cardinality(A) \in Nat /\ Cardinality(B) \in Nat
  BY FS_CardinalityType
<1>2. ASSUME NEW C, C \subseteq B PROVE IsFiniteSet(C) /\ Cardinality(C) \in Nat /\ Cardinality(C) <= Cardinality(B)
  BY <1>2, FS_Subset, FS_CardinalityType
<1>3. ASSUME NEW x PROVE /\ IsFiniteSet(A \ {x}) /\ Cardinality(A \ {x}) \in Nat
                         /\ Cardinality(A) <= Cardinality(A \ {x}) + 1
  <2>1. CASE x \in A
    <3>1. IsFiniteSet(A \ {x}) /\ Cardinality(A \ {x}) = Cardinality(A) - 1
      BY <2>1, FS_RemoveElement
    <3>2. Cardinality(A \ {x}) \in Nat
      BY <3>1, FS_CardinalityType
    <3>3. QED
      BY <1>1, <3>1, <3>2
  <2>2. CASE x \notin A
    <3>1. A \ {x} = A
      BY <2>2
    <3>2. QED
      BY <1>1, <3>1
  <2>3. QED
    BY <2>1, <2>2
<1>4. ASSUME NEW C, IsFiniteSet(C), NEW x, x \notin C PROVE Cardinality(C \cup {x}) = Cardinality(C) + 1
  BY <1>4, FS_AddElement
<1>5. ASSUME NEW x, A \ {x} \subseteq B PROVE Cardinality(A) <= Cardinality(B) + 1
  <2>1. Cardinality(A \ {x}) \in Nat /\ Cardinality(A \ {x}) <= Cardinality(B) /\ Cardinality(A) <= Cardinality(A \ {x}) + 1
    BY <1>2, <1>3, <1>5
  <2>2. QED
    BY <1>1, <2>1
<1>6. ASSUME NEW x, A \cup {x} \subseteq B, x \notin A PROVE Cardinality(A) + 1 <= Cardinality(B)
  BY <1>2, <1>4, <1>6
<1>7. ASSUME NEW x, NEW y, (A \ {x}) \cup {y} \subseteq B, y \notin A PROVE Cardinality(A) <= Cardinality(B)
  <2> DEFINE C == A \ {x}
  <2>1. IsFiniteSet(C) /\ Cardinality(C) \in Nat /\ Cardinality(A) <= Cardinality(C) + 1
    BY <1>3
  <2>2. y \notin C /\ C \cup {y} \subseteq B
    BY <1>7
  <2> HIDE DEF C
  <2>3. Cardinality(C \cup {y}) = Cardinality(C) + 1 /\ Cardinality(C \cup {y}) <= Cardinality(B)
    BY <1>2, <1>4, <2>1, <2>2
  <2>4. QED
    BY <1>1, <2>1, <2>3
<1>8. QED
  BY <1>1, <1>2, <1>5, <1>6, <1>7

LEMMA StepBlocked ==
  ASSUME TypeOK, Holding, Blocked, [Next]_vars
  PROVE  Blocked'
<1> SUFFICES ASSUME ~Limiting', NEW v \in Pushers, v \notin passedOver', pc'[v] = "blocking"
             PROVE  Len(queues'[slot'[v]]) > limit'
  BY DEF Blocked
<1> USE ThreadPoolAssumption DEF Threads
<1>0. ASSUME pc[v] = "blocking", UNCHANGED <<queues, limit, passedOver>>, slot'[v] = slot[v], pc'[Owner] = pc[Owner]
      PROVE  Len(queues'[slot'[v]]) > limit'
  BY <1>0 DEF Blocked, Limiting
<1>1. CASE UNCHANGED vars
  BY <1>0, <1>1 DEF vars
<1>2. ASSUME NEW t \in Pushers, NEW x, PushRefused(t, x) PROVE FALSE
  BY <1>2 DEF PushRefused, Unlocked
<1>3. ASSUME NEW t \in Pushers, NEW x, NEW q, Unlocked, Insert(t, x, q) PROVE FALSE
  BY <1>3 DEF Insert, Unlocked, TypeOK
<1>4. ASSUME NEW t \in Pushers, NEW x, NEW q \in Queues, PushFull(t, x, q) PROVE Len(queues'[slot'[v]]) > limit'
  BY <1>4 DEF PushFull, Unlocked, TypeOK
<1>5. ASSUME NEW t \in Pushers, PushTimeout(t) PROVE FALSE
  BY <1>5 DEF PushTimeout, Unlocked, TypeOK
<1>6. ASSUME NEW t \in Pushers, PushWait(t) PROVE Len(queues'[slot'[v]]) > limit'
  BY <1>0, <1>6 DEF PushWait, TypeOK
<1>7. ASSUME NEW t \in Pushers, PushAgain(t) PROVE Len(queues'[slot'[v]]) > limit'
  BY <1>7 DEF PushAgain, Unlocked, TypeOK
<1>8. ASSUME NEW t \in Pushers, NotifyInserted(t) PROVE Len(queues'[slot'[v]]) > limit'
  BY <1>0, <1>8 DEF NotifyInserted, NotifyOne, WaitingInserted, TypeOK
<1>9. ASSUME NEW w \in Workers, NEW q \in Queues, PopTake(w, q) PROVE FALSE
  BY <1>9 DEF PopTake, Take, Unlocked, TypeOK
<1>10. ASSUME NEW w \in Workers, PopWait(w) \/ PopExit(w) PROVE FALSE
  BY <1>10 DEF PopWait, PopExit, Unlocked, TypeOK
<1>11. ASSUME NEW w \in Workers, NotifyRemoved(w) PROVE Len(queues'[slot'[v]]) > limit'
  BY <1>0, <1>11 DEF NotifyRemoved, NotifyOne, WaitingRemoved, TypeOK
<1>12. ASSUME NEW w \in Workers, RunTask(w) PROVE Len(queues'[slot'[v]]) > limit'
  BY <1>0, <1>12 DEF RunTask, TypeOK
<1>13. ASSUME NEW from \in {"stopping", "destroying"}, Stop(from) PROVE FALSE
  BY <1>13 DEF Stop, Unlocked, TypeOK
<1>14. ASSUME StopNotify \/ Join PROVE Len(queues'[slot'[v]]) > limit'
  <2>1. pc[v] = "blocking" /\ UNCHANGED <<queues, limit, slot, passedOver>> /\ pc[Owner] # "limiting"
    BY <1>14 DEF StopNotify, Join, TypeOK
  <2>2. QED
    BY <2>1 DEF Blocked, Limiting
<1>lim. ASSUME LimitNotify PROVE Len(queues'[slot'[v]]) > limit'
  <2>1. /\ UNCHANGED <<queues, limit, slot>> /\ pc[v] = "blocking" /\ slot[v] \in Queues
        /\ ~(Len(queues[slot[v]]) <= limit)
    BY <1>lim DEF LimitNotify, Holding
  <2>2. Len(queues[slot[v]]) \in Nat /\ limit \in Nat
    BY <2>1, LenProperties DEF TypeOK
  <2>3. QED
    BY <2>1, <2>2
<1>15. ASSUME NEW n \in Limits, SetTasksByQueueLimit(n) PROVE FALSE
  BY <1>15 DEF SetTasksByQueueLimit, Limiting, TypeOK
<1>16. ASSUME NEW t \in Threads, SpuriousWake(t) PROVE Len(queues'[slot'[v]]) > limit'
  BY <1>0, <1>16 DEF SpuriousWake, TypeOK, Holding, OwnerPC
<1>17. QED
  BY <1>1, <1>2, <1>3, <1>4, <1>5, <1>6, <1>7, <1>8, <1>9, <1>10, <1>11, <1>12, <1>13, <1>14, <1>15, <1>16, <1>lim
     DEF Next, PusherStep, WorkerStep, OwnerStep, PushInsert, PushResume

LEMMA StepFilled ==
  ASSUME IsFiniteSet(Threads), TypeOK, Holding, Room, [Next]_vars, NEW q \in Queues
  PROVE  Filled(q)'
<1> DEFINE A == Comers(q)
           B == Comers(q)'
           Goal == Cardinality(B) + Len(queues'[q]) >= limit' + 1
<1> SUFFICES ASSUME NEW v \in Pushers, v \notin passedOver', pc'[v] = "waitRemoved", slot'[v] = q, ~Limiting' PROVE Goal
  BY DEF Filled, WaitingRemoved
<1> USE ThreadPoolAssumption DEF Threads
<1>a. /\ Cardinality(A) \in Nat /\ Cardinality(B) \in Nat
      /\ A \subseteq B => Cardinality(A) <= Cardinality(B)
      /\ \A x : A \ {x} \subseteq B => Cardinality(A) <= Cardinality(B) + 1
      /\ \A x : A \cup {x} \subseteq B /\ x \notin A => Cardinality(A) + 1 <= Cardinality(B)
      /\ \A x, y : (A \ {x}) \cup {y} \subseteq B /\ y \notin A => Cardinality(A) <= Cardinality(B)
  <2>1. IsFiniteSet(A) /\ IsFiniteSet(B)
    BY FS_Subset DEF Comers
  <2> HIDE DEF A, B
  <2>2. QED
    BY <2>1, Counting
<1>b. limit \in Nat /\ Len(queues[q]) \in Nat /\ queues[q] \in Seq(Tasks)
  BY LenProperties DEF TypeOK
<1>c. pc[v] = "waitRemoved" /\ slot[v] = q /\ v \notin passedOver /\ pc[Owner] # "limiting"
        => Cardinality(A) + Len(queues[q]) >= limit + 1
  BY DEF Room, Filled, WaitingRemoved, Limiting
<1>d. \A t \in Threads : /\ t \in A <=> pc[t] \in {"notifyRemoved", "wokeRemoved"} /\ slot[t] = q
                         /\ t \in B <=> pc'[t] \in {"notifyRemoved", "wokeRemoved"} /\ slot'[t] = q
  BY DEF Comers
<1>e. A \subseteq Threads /\ B \subseteq Threads
  BY DEF Comers
<1> HIDE DEF A, B
<1>l. pc'[Owner] # "limiting"
  BY DEF Limiting
<1>0. ASSUME pc[v] = "waitRemoved", slot[v] = q, UNCHANGED <<queues, limit>>, v \notin passedOver,
             pc[Owner] # "limiting", A \subseteq B
      PROVE  Goal
  BY <1>0, <1>a, <1>b, <1>c
<1>full. ASSUME Len(queues[q]) > limit, UNCHANGED <<queues, limit>> PROVE Goal
  BY <1>full, <1>a, <1>b
<1>1. CASE UNCHANGED vars
  BY <1>0, <1>l, <1>1, <1>d, <1>e DEF vars
<1>2. ASSUME NEW t \in Pushers, NEW x, PushRefused(t, x) PROVE Goal
  BY <1>0, <1>l, <1>2, <1>d, <1>e DEF PushRefused
<1>3. ASSUME NEW t \in Pushers, NEW x \in Tasks, NEW r \in Queues, Insert(t, x, r),
             pc[t] = "idle" \/ (pc[t] = "wokeRemoved" /\ slot[t] = r)
      PROVE  Goal
  <2>1. /\ pc' = [pc EXCEPT ![t] = "notifyInserted"] /\ slot' = [slot EXCEPT ![t] = NoQueue] /\ limit' = limit
        /\ queues' = [queues EXCEPT ![r] = Append(queues[r], x)]
    BY <1>3 DEF Insert
  <2>2. v # t /\ pc[v] = "waitRemoved" /\ slot[v] = q /\ v \notin passedOver /\ pc[Owner] # "limiting"
    BY <1>3, <1>l, <2>1 DEF Insert, TypeOK
  <2>3. r # q => A \subseteq B /\ queues'[q] = queues[q]
    BY <1>3, <1>d, <1>e, <2>1 DEF TypeOK
  <2>4. r = q => A \ {t} \subseteq B /\ Len(queues'[q]) = Len(queues[q]) + 1
    <3>1. Len(Append(queues[q], x)) = Len(queues[q]) + 1
      BY <1>b, AppendFacts
    <3>2. A \ {t} \subseteq B
      BY <1>d, <1>e, <2>1 DEF TypeOK
    <3>3. QED
      BY <2>1, <3>1, <3>2 DEF TypeOK
  <2>5. CASE r # q
    <3>1. Cardinality(A) <= Cardinality(B)
      BY <1>a, <2>3, <2>5
    <3>2. QED
      BY <1>a, <1>b, <1>c, <1>l, <2>1, <2>2, <2>3, <2>5, <3>1
  <2>6. CASE r = q
    <3>1. Cardinality(A) <= Cardinality(B) + 1
      BY <1>a, <2>4, <2>6
    <3>2. QED
      BY <1>a, <1>b, <1>c, <1>l, <2>1, <2>2, <2>4, <2>6, <3>1
  <2>7. QED
    BY <2>5, <2>6
<1>4. ASSUME NEW t \in Pushers, NEW x, NEW r, PushFull(t, x, r) PROVE Goal
  BY <1>0, <1>l, <1>4, <1>d, <1>e DEF PushFull, TypeOK
<1>5. ASSUME NEW t \in Pushers, PushTimeout(t) PROVE Goal
  <2>1. /\ pc' = [pc EXCEPT ![t] = "idle"] /\ slot' = [slot EXCEPT ![t] = NoQueue] /\ UNCHANGED <<queues, limit>>
        /\ v # t /\ pc[v] = "waitRemoved" /\ slot[v] = q /\ v \notin passedOver /\ pc[Owner] # "limiting"
    BY <1>l, <1>5 DEF PushTimeout, TypeOK
  <2>2. CASE pc[t] = "wokeRemoved" /\ slot[t] = q
    <3>1. ~(Len(queues[q]) <= limit)
      BY <1>5, <2>1, <2>2 DEF PushTimeout, WaitingRemoved
    <3>2. Len(queues[q]) > limit
      BY <1>b, <3>1
    <3>3. QED
      BY <1>full, <2>1, <3>2
  <2>3. CASE ~(pc[t] = "wokeRemoved" /\ slot[t] = q)
    <3>1. A \subseteq B
      BY <1>5, <1>d, <1>e, <2>1, <2>3 DEF PushTimeout, TypeOK
    <3>2. QED
      BY <1>0, <2>1, <3>1
  <2>4. QED
    BY <2>2, <2>3
<1>6. ASSUME NEW t \in Pushers, PushWait(t) PROVE Goal
  <2>1. CASE t = v
    BY <1>full, <1>l, <1>6, <2>1 DEF PushWait, Room, Blocked, Limiting, TypeOK
  <2>2. CASE t # v
    BY <1>0, <1>l, <1>6, <1>d, <1>e, <2>2 DEF PushWait, TypeOK
  <2>3. QED
    BY <2>1, <2>2
<1>7. ASSUME NEW t \in Pushers, PushAgain(t) PROVE Goal
  <2>1. CASE slot[t] = q
    BY <1>full, <1>7, <2>1 DEF PushAgain
  <2>2. CASE slot[t] # q
    BY <1>0, <1>l, <1>7, <1>d, <1>e, <2>2 DEF PushAgain, TypeOK
  <2>3. QED
    BY <2>1, <2>2
<1>8. ASSUME NEW t \in Pushers, NotifyInserted(t) PROVE Goal
  <2>1. UNCHANGED <<queues, limit, slot, passedOver>> /\ pc[t] = "notifyInserted"
    BY <1>8 DEF NotifyInserted
  <2>2. CASE WaitingInserted = {}
    <3>1. pc' = [pc EXCEPT ![t] = "idle"]
      BY <1>8, <2>2 DEF NotifyInserted, NotifyOne
    <3>2. QED
      BY <1>0, <1>l, <1>d, <1>e, <2>1, <3>1 DEF TypeOK
  <2>3. CASE WaitingInserted # {}
    <3>1. PICK w \in Workers : /\ pc[w] = "waitInserted"
                               /\ pc' = [pc EXCEPT ![t] = "idle", ![w] = "wokeInserted"]
      BY <1>8, <2>3 DEF NotifyInserted, NotifyOne, WaitingInserted
    <3>2. QED
      BY <1>0, <1>l, <1>d, <1>e, <2>1, <3>1 DEF TypeOK
  <2>4. QED
    BY <2>2, <2>3
<1>9. ASSUME NEW w \in Workers, NEW r \in Queues, PopTake(w, r) PROVE Goal
  <2>1. /\ pc' = [pc EXCEPT ![w] = "notifyRemoved"] /\ slot' = [slot EXCEPT ![w] = r] /\ limit' = limit
        /\ pc[w] \in {"pop", "wokeInserted"} /\ queues[r] # <<>>
        /\ queues' = [queues EXCEPT ![r] = Tail(queues[r])]
    BY <1>9 DEF PopTake, Take
  <2>2. v # w /\ pc[v] = "waitRemoved" /\ slot[v] = q /\ v \notin passedOver /\ pc[Owner] # "limiting"
    BY <1>9, <1>l, <2>1 DEF PopTake, Take, TypeOK
  <2>3. r # q => A \subseteq B /\ queues'[q] = queues[q]
    BY <1>d, <1>e, <2>1 DEF TypeOK
  <2>4. r = q => A \cup {w} \subseteq B /\ w \notin A /\ Len(queues'[q]) = Len(queues[q]) - 1
    <3>1. queues[q] # <<>> => Len(Tail(queues[q])) = Len(queues[q]) - 1
      BY <1>b, HeadTailProperties
    <3>2. r = q => A \cup {w} \subseteq B /\ w \notin A
      BY <1>d, <1>e, <2>1 DEF TypeOK
    <3>3. QED
      BY <2>1, <3>1, <3>2 DEF TypeOK
  <2>5. QED
    BY <1>a, <1>b, <1>c, <1>l, <2>1, <2>2, <2>3, <2>4
<1>10. ASSUME NEW w \in Workers, PopWait(w) \/ PopExit(w) PROVE Goal
  BY <1>0, <1>l, <1>10, <1>d, <1>e DEF PopWait, PopExit, TypeOK
<1>11. ASSUME NEW w \in Workers, NotifyRemoved(w) PROVE Goal
  <2>1. UNCHANGED <<queues, limit>> /\ pc[w] = "notifyRemoved" /\ slot' = [slot EXCEPT ![w] = NoQueue]
    BY <1>11 DEF NotifyRemoved
  <2>2. v # w /\ pc[v] = "waitRemoved" /\ slot[v] = q /\ v \notin passedOver /\ pc[Owner] # "limiting"
    BY <1>11, <1>l, <2>1 DEF NotifyRemoved, NotifyOne, WaitingRemoved, TypeOK, Holding, OwnerPC
  <2>3. CASE slot[w] = q
    <3>1. PICK p \in Pushers : /\ pc[p] = "waitRemoved" /\ slot[p] = q
                               /\ pc' = [[pc EXCEPT ![w] = "running"] EXCEPT ![p] = "wokeRemoved"]
      BY <1>11, <2>2, <2>3 DEF NotifyRemoved, NotifyOne, WaitingRemoved
    <3>2. (A \ {w}) \cup {p} \subseteq B /\ p \notin A
      BY <1>d, <1>e, <2>1, <3>1 DEF TypeOK
    <3>3. Cardinality(A) <= Cardinality(B)
      BY <1>a, <3>2
    <3>4. QED
      BY <1>a, <1>b, <1>c, <1>l, <2>1, <2>2, <3>3
  <2>4. CASE slot[w] # q
    BY <1>0, <1>l, <1>11, <1>d, <1>e, <2>1, <2>2, <2>4 DEF NotifyRemoved, NotifyOne, WaitingRemoved, TypeOK
  <2>5. QED
    BY <2>3, <2>4
<1>12. ASSUME NEW w \in Workers, RunTask(w) PROVE Goal
  BY <1>0, <1>l, <1>12, <1>d, <1>e DEF RunTask, TypeOK
<1>13. ASSUME NEW from \in {"stopping", "destroying"}, Stop(from) PROVE Goal
  BY <1>0, <1>l, <1>13, <1>d, <1>e DEF Stop, TypeOK, Holding, OwnerPC
<1>lim. ASSUME LimitNotify PROVE Goal
  BY <1>lim DEF LimitNotify, TypeOK
<1>14. ASSUME StopNotify \/ Join PROVE Goal
  BY <1>0, <1>l, <1>14, <1>d, <1>e DEF StopNotify, Join, TypeOK
<1>15. ASSUME NEW n \in Limits, SetTasksByQueueLimit(n) PROVE Goal
  BY <1>15, <1>l DEF SetTasksByQueueLimit, TypeOK
<1>16. ASSUME NEW t \in Threads, SpuriousWake(t) PROVE Goal
  BY <1>0, <1>l, <1>16, <1>d, <1>e DEF SpuriousWake, TypeOK, Holding, OwnerPC
<1>17. ASSUME NEW t \in Pushers, NEW x \in Tasks, NEW r \in Queues, PushInsert(t, x, r) PROVE Goal
  BY <1>3, <1>17 DEF PushInsert
<1>18. ASSUME NEW t \in Pushers, PushResume(t) PROVE Goal
  <2>1. task[t] \in Tasks /\ slot[t] \in Queues
    BY <1>18 DEF PushResume, TypeOK, Holding
  <2>2. QED
    BY <1>3, <1>18, <2>1 DEF PushResume
<1> HIDE DEF Goal
<1>19. QED
  BY <1>1, <1>2, <1>4, <1>5, <1>6, <1>7, <1>8, <1>9, <1>10, <1>11, <1>12, <1>13, <1>14, <1>15, <1>16, <1>17, <1>18, <1>lim
     DEF Next, PusherStep, WorkerStep, OwnerStep

\* pushTask, popTask, setTasksByQueueLimit: whoever sleeps on a queue with room is about to be woken, or another
\* caller is up on that queue, or a notified caller gave the room up, or the limit rose between the test and the
\* wait; for any numbers of workers, callers, queues and any limits, whoever passes a timeout.
THEOREM NobodyIsStranded ==
  ASSUME IsFiniteSet(Threads)
  PROVE  Spec => []NoStrandedPusher
<1>1. Init => TypeOK /\ Holding /\ Room
  <2>1. Init => Room
    BY ThreadPoolAssumption DEF Init, Room, Blocked, Filled, WaitingRemoved, Threads
  <2>2. QED
    BY <2>1, InitHolds
<1>2. TypeOK /\ Holding /\ Room /\ [Next]_vars => TypeOK' /\ Holding' /\ Room'
  <2>1. ASSUME TypeOK, Holding, Room, [Next]_vars PROVE Room'
    BY <2>1, StepBlocked, StepFilled DEF Room
  <2>2. QED
    BY <2>1, StepTypes
<1>3. TypeOK /\ Holding /\ Room => NoStrandedPusher
  <2> SUFFICES ASSUME TypeOK, Holding, Room, NEW t \in Pushers \ passedOver, pc[t] = "waitRemoved",
                      Len(queues[slot[t]]) <= limit, pc[Owner] # "limiting"
               PROVE  \/ \E w \in Workers : pc[w] = "notifyRemoved" /\ slot[w] = slot[t]
                      \/ \E p \in Pushers : pc[p] = "wokeRemoved" /\ slot[p] = slot[t]
    BY DEF NoStrandedPusher
  <2> DEFINE q == slot[t]
  <2>1. q \in Queues /\ t \in WaitingRemoved(q)
    BY DEF Holding, WaitingRemoved
  <2>2. Cardinality(Comers(q)) + Len(queues[q]) >= limit + 1 /\ Len(queues[q]) <= limit
    BY <2>1 DEF Room, Filled, Limiting
  <2>3. Comers(q) # {}
    <3>1. limit \in Nat /\ Len(queues[q]) \in Nat
      BY <2>1, ThreadPoolAssumption, LenProperties DEF TypeOK
    <3>2. Cardinality({}) = 0
      BY FS_EmptySet
    <3> HIDE DEF q
    <3>3. ASSUME Comers(q) = {} PROVE FALSE
      <4>1. Cardinality(Comers(q)) = 0
        BY <3>2, <3>3
      <4>2. QED
        BY <2>2, <3>1, <4>1
    <3>4. QED
      BY <3>3
  <2>4. PICK u \in Threads : pc[u] \in {"notifyRemoved", "wokeRemoved"} /\ slot[u] = q
    BY <2>3 DEF Comers
  <2>5. QED
    BY <2>4 DEF Holding, Threads, WorkerPC, PusherPC, OwnerPC
<1>4. QED
  BY <1>1, <1>2, <1>3, PTL DEF Spec

-----------------------------------------------------------------------------
(* A task is in one place. *)

\* After push_back the queues hold the new task and what they held.
LEMMA InsertQueued ==
  ASSUME TypeOK, NEW t, NEW x, NEW q, Inserts(t, x, q), NEW y
  PROVE  Queued(y)' <=> Queued(y) \/ y = x
<1>1. /\ queues[q] \in Seq(Tasks)
      /\ queues' = [queues EXCEPT ![q] = Append(@, x)]
      /\ q \in Queues /\ x \in Tasks
  BY DEF Inserts, Insert, TypeOK
<1>2. /\ Len(queues[q]) \in Nat
      /\ Len(queues'[q]) = Len(queues[q]) + 1
      /\ \A n \in 1..Len(queues[q]) : queues'[q][n] = queues[q][n]
      /\ queues'[q][Len(queues[q]) + 1] = x
  BY <1>1, AppendFacts, LenProperties DEF TypeOK
<1>3. \A p \in Queues : p # q => queues'[p] = queues[p]
  BY <1>1 DEF TypeOK
<1>4. (\E n \in 1..Len(queues'[q]) : queues'[q][n] = y)
        <=> (\E n \in 1..Len(queues[q]) : queues[q][n] = y) \/ y = x
  BY <1>2, SMTT(30)
<1>5. QED
  BY <1>1, <1>3, <1>4 DEF Queued

\* After pop_front they hold all but the first task of one queue.
LEMMA TakeQueued ==
  ASSUME TypeOK, OnePlace, NEW w, NEW q \in Queues, PopTake(w, q), NEW y
  PROVE  Queued(y)' <=> Queued(y) /\ y # Head(queues[q])
<1>1. queues[q] \in Seq(Tasks) /\ queues[q] # <<>> /\ queues' = [queues EXCEPT ![q] = Tail(queues[q])]
  BY DEF PopTake, Take, TypeOK
<1>2. /\ Len(queues[q]) \in Nat \ {0}
      /\ Len(queues'[q]) = Len(queues[q]) - 1
      /\ \A n \in 1..Len(queues'[q]) : queues'[q][n] = queues[q][n + 1]
      /\ Head(queues[q]) = queues[q][1]
  BY <1>1, HeadTailProperties, EmptySeq DEF TypeOK
<1>3. \A p \in Queues : p # q => queues'[p] = queues[p]
  BY <1>1 DEF TypeOK
<1>4. \A p \in Queues : \A n \in 1..Len(queues[p]) :
        queues[p][n] = Head(queues[q]) => p = q /\ n = 1
  BY <1>2 DEF OnePlace
<1>5. (\E n \in 1..Len(queues'[q]) : queues'[q][n] = y)
        <=> (\E n \in 1..Len(queues[q]) : queues[q][n] = y /\ n # 1)
  <2>1. ASSUME NEW n \in 1..Len(queues[q]), queues[q][n] = y, n # 1
        PROVE  \E m \in 1..Len(queues'[q]) : queues'[q][m] = y
    <3>1. n - 1 \in 1..Len(queues'[q]) /\ queues'[q][n - 1] = y
      BY <1>2, <2>1
    <3>2. QED
      BY <3>1
  <2>2. ASSUME NEW n \in 1..Len(queues'[q]), queues'[q][n] = y
        PROVE  \E m \in 1..Len(queues[q]) : queues[q][m] = y /\ m # 1
    <3>1. n + 1 \in 1..Len(queues[q]) /\ queues[q][n + 1] = y /\ n + 1 # 1
      BY <1>2, <2>2
    <3>2. QED
      BY <3>1
  <2>3. QED
    BY <2>1, <2>2
<1>6. QED
  BY <1>2, <1>3, <1>4, <1>5, SMTT(30) DEF Queued

\* No two positions of the queues hold the same task: the first part of OnePlace.
Distinct(qs) ==
  \A q1, q2 \in Queues : \A n1 \in 1..Len(qs[q1]), n2 \in 1..Len(qs[q2]) :
    qs[q1][n1] = qs[q2][n2] => q1 = q2 /\ n1 = n2

LEMMA InsertOnePlace ==
  ASSUME TypeOK, Holding, OnePlace, NEW t, NEW x, NEW q, Inserts(t, x, q)
  PROVE  OnePlace'
<1>1. ~Queued(x) /\ x \notin ran \cup refused /\ \A s \in Threads : task[s] = x => s = t
  <2>1. CASE Fresh(x)
    BY <2>1 DEF Fresh, InHand
  <2>2. CASE task[t] = x
    BY <2>2, ThreadPoolAssumption DEF Inserts, OnePlace, InHand, Threads
  <2>3. QED
    BY <2>1, <2>2 DEF Inserts
<1>2. /\ queues[q] \in Seq(Tasks)
      /\ queues' = [queues EXCEPT ![q] = Append(@, x)]
      /\ task' = [task EXCEPT ![t] = NoTask]
      /\ UNCHANGED <<ran, refused>>
      /\ q \in Queues /\ x \in Tasks /\ t \in Threads
  BY DEF Inserts, Insert, TypeOK, Threads
<1>3. Distinct(queues')
  <2>1. /\ Len(queues[q]) \in Nat
        /\ Len(queues'[q]) = Len(queues[q]) + 1
        /\ \A n \in 1..Len(queues[q]) : queues'[q][n] = queues[q][n]
        /\ queues'[q][Len(queues[q]) + 1] = x
    BY <1>2, AppendFacts, LenProperties DEF TypeOK
  <2>2. \A p \in Queues : p # q => queues'[p] = queues[p]
    BY <1>2 DEF TypeOK
  <2>3. \A p \in Queues : \A n \in 1..Len(queues[p]) : queues[p][n] # x
    BY <1>1 DEF Queued
  <2>4. \A p \in Queues : \A n \in 1..Len(queues'[p]) :
          \/ n \in 1..Len(queues[p]) /\ queues'[p][n] = queues[p][n]
          \/ p = q /\ n = Len(queues[q]) + 1 /\ queues'[p][n] = x
    BY <2>1, <2>2
  <2>5. QED
    BY <2>3, <2>4 DEF Distinct, OnePlace
<1>4. \A t1, t2 \in Threads : task'[t1] = task'[t2] /\ task'[t1] # NoTask => t1 = t2
  BY <1>2 DEF OnePlace, TypeOK
<1>5. ASSUME NEW y \in Tasks, Queued(y)' PROVE ~InHand(y)'
  <2>1. CASE y = x
    BY <1>1, <1>2, <2>1, ThreadPoolAssumption DEF InHand, TypeOK
  <2>2. CASE y # x
    <3>1. Queued(y)
      BY <1>5, <2>2, InsertQueued
    <3>2. QED
      BY <1>2, <3>1, ThreadPoolAssumption DEF OnePlace, InHand, TypeOK
  <2>3. QED
    BY <2>1, <2>2
<1>6. ASSUME NEW y \in ran' \cup refused' PROVE ~Queued(y)' /\ ~InHand(y)'
  <2>1. y \in ran \cup refused /\ y # x /\ ~Queued(y) /\ ~InHand(y) /\ y \in Tasks
    BY <1>1, <1>2 DEF OnePlace, TypeOK
  <2>2. ~Queued(y)'
    BY <2>1, InsertQueued
  <2>3. ~InHand(y)'
    BY <1>2, <2>1, ThreadPoolAssumption DEF InHand, TypeOK
  <2>4. QED
    BY <2>2, <2>3
<1>7. (ran \cap refused)' = {}
  BY <1>2 DEF OnePlace
<1>8. QED
  BY <1>3, <1>4, <1>5, <1>6, <1>7 DEF OnePlace, Distinct

LEMMA TakeOnePlace ==
  ASSUME TypeOK, Holding, OnePlace, NEW w \in Workers, NEW q \in Queues, PopTake(w, q)
  PROVE  OnePlace'
<1> DEFINE x == Head(queues[q])
<1>1. /\ queues[q] \in Seq(Tasks) /\ queues[q] # <<>>
      /\ queues' = [queues EXCEPT ![q] = Tail(queues[q])]
      /\ task' = [task EXCEPT ![w] = x]
      /\ UNCHANGED <<ran, refused>>
      /\ w \in Threads
  BY DEF PopTake, Take, TypeOK, Threads
<1>2. /\ Len(queues[q]) \in Nat \ {0}
      /\ Len(queues'[q]) = Len(queues[q]) - 1
      /\ \A n \in 1..Len(queues'[q]) : queues'[q][n] = queues[q][n + 1]
      /\ x = queues[q][1] /\ x \in Tasks
  BY <1>1, HeadTailProperties, EmptySeq DEF TypeOK
<1>3. Queued(x) /\ ~InHand(x) /\ x \notin ran \cup refused
  <2>1. Queued(x)
    BY <1>2 DEF Queued
  <2>2. QED
    BY <1>2, <2>1 DEF OnePlace
<1>4. Distinct(queues')
  <2>1. \A p \in Queues : p # q => queues'[p] = queues[p]
    BY <1>1 DEF TypeOK
  <2>2. \A p \in Queues : Len(queues[p]) \in Nat
    BY LenProperties DEF TypeOK
  <2>3. \A p \in Queues : \A n \in 1..Len(queues'[p]) :
          IF p = q THEN n + 1 \in 1..Len(queues[p]) /\ queues'[p][n] = queues[p][n + 1]
                   ELSE n \in 1..Len(queues[p]) /\ queues'[p][n] = queues[p][n]
    BY <1>2, <2>1
  <2>4. QED
    BY <2>2, <2>3 DEF Distinct, OnePlace
<1>5. \A y : InHand(y)' => y = x \/ InHand(y)
  BY <1>1 DEF InHand, TypeOK
<1>6. \A t1, t2 \in Threads : task'[t1] = task'[t2] /\ task'[t1] # NoTask => t1 = t2
  BY <1>1, <1>3 DEF OnePlace, InHand, TypeOK
<1>7. ASSUME NEW y \in Tasks, Queued(y)' PROVE ~InHand(y)'
  BY <1>5, <1>7, TakeQueued DEF OnePlace
<1>8. ASSUME NEW y \in ran' \cup refused' PROVE ~Queued(y)' /\ ~InHand(y)'
  BY <1>1, <1>3, <1>5, <1>8, TakeQueued DEF OnePlace
<1>9. (ran \cap refused)' = {}
  BY <1>1 DEF OnePlace
<1>10. QED
  BY <1>4, <1>6, <1>7, <1>8, <1>9 DEF OnePlace, Distinct

LEMMA StepOnePlace ==
  TypeOK /\ Holding /\ OnePlace /\ [Next]_vars => OnePlace'
<1> SUFFICES ASSUME TypeOK, Holding, OnePlace, [Next]_vars PROVE OnePlace'
  OBVIOUS
<1> USE ThreadPoolAssumption
<1>0. CASE UNCHANGED <<queues, task, ran, refused>>
  BY <1>0 DEF OnePlace, Queued, InHand
<1>1. ASSUME NEW t \in Pushers, NEW x \in Tasks, Fresh(x), PushRefused(t, x) PROVE OnePlace'
  BY <1>1 DEF PushRefused, Fresh, OnePlace, Queued, InHand
<1>2. ASSUME NEW t \in Pushers, NEW x \in Tasks, NEW q \in Queues, Fresh(x), PushFull(t, x, q)
      PROVE  OnePlace'
  <2>1. /\ task' = [task EXCEPT ![t] = x] /\ UNCHANGED <<queues, ran, refused>>
        /\ task[t] = NoTask /\ t \in Threads
    BY <1>2 DEF PushFull, Holding, Threads
  <2>2. \A y : Queued(y)' <=> Queued(y)
    BY <2>1 DEF Queued
  <2>3. \A y : InHand(y)' => y = x \/ InHand(y)
    BY <2>1 DEF InHand, TypeOK
  <2>4. \A t1, t2 \in Threads : task'[t1] = task'[t2] /\ task'[t1] # NoTask => t1 = t2
    BY <1>2, <2>1 DEF Fresh, InHand, OnePlace, TypeOK
  <2>5. QED
    BY <1>2, <2>1, <2>2, <2>3, <2>4 DEF Fresh, OnePlace
<1>3. ASSUME NEW t \in Pushers, PushTimeout(t) PROVE OnePlace'
  <2>1. /\ task' = [task EXCEPT ![t] = NoTask] /\ refused' = refused \cup {task[t]}
        /\ UNCHANGED <<queues, ran>>
        /\ task[t] \in Tasks /\ t \in Threads /\ InHand(task[t])
    BY <1>3 DEF PushTimeout, Holding, TypeOK, Threads, InHand
  <2>2. \A y \in Tasks : Queued(y)' <=> Queued(y)
    BY <2>1 DEF Queued
  <2>3. \A y \in Tasks : InHand(y)' => y # task[t] /\ InHand(y)
    BY <2>1 DEF InHand, TypeOK, OnePlace
  <2>4. \A t1, t2 \in Threads : task'[t1] = task'[t2] /\ task'[t1] # NoTask => t1 = t2
    BY <2>1 DEF OnePlace, TypeOK
  <2>5. ~Queued(task[t]) /\ task[t] \notin ran
    BY <2>1 DEF OnePlace
  <2>6. QED
    BY <2>1, <2>2, <2>3, <2>4, <2>5 DEF OnePlace, TypeOK
<1>4. ASSUME NEW w \in Workers, RunTask(w) PROVE OnePlace'
  <2>1. /\ task' = [task EXCEPT ![w] = NoTask] /\ ran' = ran \cup {task[w]}
        /\ UNCHANGED <<queues, refused>>
        /\ task[w] \in Tasks /\ w \in Threads /\ InHand(task[w])
    BY <1>4 DEF RunTask, Holding, TypeOK, Threads, InHand
  <2>2. \A y \in Tasks : Queued(y)' <=> Queued(y)
    BY <2>1 DEF Queued
  <2>3. \A y \in Tasks : InHand(y)' => y # task[w] /\ InHand(y)
    BY <2>1 DEF InHand, TypeOK, OnePlace
  <2>4. \A t1, t2 \in Threads : task'[t1] = task'[t2] /\ task'[t1] # NoTask => t1 = t2
    BY <2>1 DEF OnePlace, TypeOK
  <2>5. ~Queued(task[w]) /\ task[w] \notin refused
    BY <2>1 DEF OnePlace
  <2>6. QED
    BY <2>1, <2>2, <2>3, <2>4, <2>5 DEF OnePlace, TypeOK
<1>5. QED
  BY <1>0, <1>1, <1>2, <1>3, <1>4, InsertOnePlace, TakeOnePlace, StepCases, QuietTypes DEF vars

\* A task that pushTask refused, and whose data its caller has deleted, is in no
\* queue and in no worker's hand; and no task is queued twice or run twice.
THEOREM TaskInOnePlace == Spec => []OnePlace
<1>1. Init => IInv
  BY InitHolds DEF IInv
<1>2. IInv /\ [Next]_vars => IInv'
  BY StepTypes, StepOnePlace DEF IInv
<1>3. IInv => OnePlace
  BY DEF IInv
<1>4. QED
  BY <1>1, <1>2, <1>3, PTL DEF Spec

-----------------------------------------------------------------------------
(* The pool implements TaskService. *)

\* A step that leaves queues, hands and results alone leaves every fate alone.
LEMMA SameFates ==
  ASSUME UNCHANGED <<queues, task, ran, refused>>
  PROVE  UNCHANGED Fate
BY DEF Fate, Held, Queued

\* A step that moves only task x takes it from one fate to another.
LEMMA OneFateMoves ==
  ASSUME NEW x \in Tasks, NEW from, NEW to, Fate[x] = from, Fate'[x] = to,
         \A y \in Tasks \ {x} : Fate'[y] = Fate[y]
  PROVE  Service!Move(x, from, to)
BY DEF Fate, Service!Move

\* pushTask, at once or after a wait, accepts a new task.
LEMMA InsertAccepts ==
  ASSUME TypeOK, Holding, OnePlace, NEW t, NEW x, NEW q, Inserts(t, x, q)
  PROVE  Service!Accept(x)
<1>1. /\ task' = [task EXCEPT ![t] = NoTask] /\ UNCHANGED <<ran, refused>>
      /\ x \in Tasks /\ t \in Threads /\ t \notin Workers
  BY ThreadPoolAssumption DEF Inserts, Insert, Threads
<1>2. ~Queued(x) /\ ~Held(x) /\ x \notin ran \cup refused
  <2>1. CASE Fresh(x)
    BY <2>1 DEF Fresh, InHand, Held, Threads
  <2>2. CASE task[t] = x
    BY <1>1, <2>2, ThreadPoolAssumption DEF OnePlace, InHand, Held, Threads
  <2>3. QED
    BY <2>1, <2>2 DEF Inserts
<1>3. \A y \in Tasks : Held(y)' <=> Held(y)
  BY <1>1 DEF Held, TypeOK, Threads
<1>4. \A y \in Tasks : Queued(y)' <=> Queued(y) \/ y = x
  BY InsertQueued
<1>5. Fate[x] = "new" /\ Fate'[x] = "accepted" /\ \A y \in Tasks \ {x} : Fate'[y] = Fate[y]
  BY <1>1, <1>2, <1>3, <1>4 DEF Fate
<1>6. QED
  BY <1>1, <1>5, OneFateMoves DEF Service!Accept

\* pushTask refuses a task: it never was in a queue.
LEMMA RefusalRefuses ==
  ASSUME TypeOK, Holding, OnePlace, NEW x \in Tasks,
         ~Queued(x), ~Held(x), x \notin ran \cup refused,
         refused' = refused \cup {x}, UNCHANGED <<queues, ran>>,
         \A w \in Workers : task'[w] = task[w]
  PROVE  Service!Refuse(x)
<1>1. \A y \in Tasks : /\ Held(y)' <=> Held(y)
                       /\ Queued(y)' <=> Queued(y)
  BY DEF Held, Queued
<1>2. Fate[x] = "new" /\ Fate'[x] = "refused" /\ \A y \in Tasks \ {x} : Fate'[y] = Fate[y]
  BY <1>1 DEF Fate
<1>3. QED
  BY <1>2, OneFateMoves DEF Service!Refuse

\* popTask starts the oldest task of a queue.
LEMMA TakeStarts ==
  ASSUME TypeOK, Holding, OnePlace, NEW w \in Workers, NEW q \in Queues, PopTake(w, q)
  PROVE  Service!Next
<1>1. Head(queues[q]) \in Tasks /\ Queued(Head(queues[q]))
  <2>1. queues[q] \in Seq(Tasks) /\ queues[q] # <<>>
    BY DEF PopTake, Take, TypeOK
  <2>2. Len(queues[q]) \in Nat \ {0} /\ Head(queues[q]) = queues[q][1]
    BY <2>1, EmptySeq
  <2>3. QED
    BY <2>1, <2>2, HeadTailProperties DEF Queued
<1>2. PICK x \in Tasks : x = Head(queues[q])
  BY <1>1
<1>3. task' = [task EXCEPT ![w] = x] /\ task[w] = NoTask /\ UNCHANGED <<ran, refused>>
  BY <1>2 DEF PopTake, Take, Holding
<1>4. \A y \in Tasks : Held(y)' <=> Held(y) \/ y = x
  BY <1>3, ThreadPoolAssumption DEF Held, TypeOK, Threads
<1>5. \A y \in Tasks : Queued(y)' <=> Queued(y) /\ y # x
  BY <1>2, TakeQueued
<1>6. ~Held(x)
  BY <1>1, <1>2 DEF OnePlace, InHand, Held, Threads
<1>7. Fate[x] = "accepted" /\ Fate'[x] = "running" /\ \A y \in Tasks \ {x} : Fate'[y] = Fate[y]
  BY <1>1, <1>2, <1>3, <1>4, <1>5, <1>6 DEF Fate
<1>8. QED
  BY <1>7, OneFateMoves DEF Service!Start, Service!Next

\* A task that returns is finished.
LEMMA RunFinishes ==
  ASSUME TypeOK, Holding, OnePlace, NEW w \in Workers, RunTask(w)
  PROVE  Service!Next
<1>1. task[w] \in Tasks /\ w \in Threads
  BY DEF RunTask, Holding, TypeOK, Threads
<1>2. PICK x \in Tasks : x = task[w]
  BY <1>1
<1>3. task' = [task EXCEPT ![w] = NoTask] /\ ran' = ran \cup {x} /\ UNCHANGED <<queues, refused>>
  BY <1>2 DEF RunTask
<1>4. \A y \in Tasks : Held(y)' <=> Held(y) /\ y # x
  BY <1>1, <1>2, <1>3, ThreadPoolAssumption DEF Held, TypeOK, OnePlace, Threads
<1>5. \A y \in Tasks : Queued(y)' <=> Queued(y)
  BY <1>3 DEF Queued
<1>6. Held(x) /\ ~Queued(x)
  BY <1>1, <1>2 DEF Held, OnePlace, InHand
<1>7. Fate[x] = "running" /\ Fate'[x] = "finished" /\ \A y \in Tasks \ {x} : Fate'[y] = Fate[y]
  BY <1>3, <1>4, <1>5, <1>6 DEF Fate
<1>8. QED
  BY <1>7, OneFateMoves DEF Service!Finish, Service!Next

LEMMA StepImplements == IInv /\ [Next]_vars => [Service!Next]_Fate
<1> SUFFICES ASSUME TypeOK, Holding, OnePlace, [Next]_vars PROVE [Service!Next]_Fate
  BY DEF IInv
<1>0. CASE UNCHANGED <<queues, task, ran, refused>>
  BY <1>0, SameFates
<1>1. ASSUME NEW t \in Pushers, NEW x \in Tasks, Fresh(x), PushRefused(t, x) PROVE Service!Next
  <2>1. Service!Refuse(x)
    BY <1>1, RefusalRefuses DEF PushRefused, Fresh, InHand, Held, Threads
  <2>2. QED
    BY <2>1 DEF Service!Next
<1>2. ASSUME NEW t \in Pushers, NEW x \in Tasks, NEW q \in Queues, Inserts(t, x, q)
      PROVE  Service!Next
  BY <1>2, InsertAccepts DEF Service!Next
<1>3. ASSUME NEW t \in Pushers, NEW x \in Tasks, NEW q \in Queues, Fresh(x), PushFull(t, x, q)
      PROVE  UNCHANGED Fate
  <2>1. UNCHANGED <<queues, ran, refused>> /\ \A w \in Workers : task'[w] = task[w]
    BY <1>3, ThreadPoolAssumption DEF PushFull, TypeOK, Threads
  <2>2. QED
    BY <2>1 DEF Fate, Held, Queued
<1>4. ASSUME NEW t \in Pushers, PushTimeout(t) PROVE Service!Next
  <2>1. task[t] \in Tasks /\ t \in Threads /\ t \notin Workers
    BY <1>4, ThreadPoolAssumption DEF PushTimeout, Holding, TypeOK, Threads
  <2>2. PICK x \in Tasks : x = task[t]
    BY <2>1
  <2>3. ~Queued(x) /\ ~Held(x) /\ x \notin ran \cup refused
    BY <2>1, <2>2, ThreadPoolAssumption DEF OnePlace, InHand, Held, Threads
  <2>4. refused' = refused \cup {x} /\ UNCHANGED <<queues, ran>> /\ \A w \in Workers : task'[w] = task[w]
    BY <1>4, <2>1, <2>2 DEF PushTimeout, TypeOK, Threads
  <2>5. QED
    BY <2>3, <2>4, RefusalRefuses DEF Service!Next
<1>5. QED
  BY <1>0, <1>1, <1>2, <1>3, <1>4, TakeStarts, RunFinishes, StepCases, QuietTypes DEF vars

\* What a task meets in the queues, the waits and the workers is one of the few
\* histories TaskService allows: refused, or accepted and run at most once.
THEOREM PoolImplementsService == Spec => ImplementsService
<1>1. Init => IInv
  BY InitHolds DEF IInv
<1>2. IInv /\ [Next]_vars => IInv'
  BY StepTypes, StepOnePlace DEF IInv
<1>3. Init => Service!Init
  <2> SUFFICES ASSUME Init, NEW x \in Tasks PROVE Fate[x] = "new"
    BY DEF Service!Init, Fate
  <2>1. ~Held(x)
    BY ThreadPoolAssumption DEF Init, Held, Threads
  <2>2. ~Queued(x)
    BY DEF Init, Queued
  <2>3. QED
    BY <2>1, <2>2 DEF Init, Fate
<1>4. QED
  BY <1>1, <1>2, <1>3, StepImplements, PTL DEF Spec, ImplementsService, Service!Spec
=============================================================================
