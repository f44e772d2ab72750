----------------------------- MODULE ThreadPool -----------------------------
(***************************************************************************)
(* Threads::Pool::ThreadPool (src/Threads/mdz_thr_threads/threadpool.cpp): *)
(* worker threads over several bounded queues, under FastRPC's queries and *)
(* the PoolThreaded acceptor's connections.                                *)
(*                                                                         *)
(* One step is one critical section of mutexQueues, or one notification    *)
(* sent after it: pushTask, popTask and stop all unlock first and notify   *)
(* afterwards.  Two things happen without the lock and are steps of their  *)
(* own: those notifications, and the two halves of setTasksByQueueLimit,   *)
(* which may therefore run while pushTask, still with the lock, is between *)
(* its test of the limit and its wait (pc "blocking").                     *)
(***************************************************************************)
EXTENDS Naturals, Sequences

CONSTANTS
  Workers,    \* the consumer threads
  Pushers,    \* callers of pushTask
  Timed,      \* those among them that pass a timeout
  Owner,      \* the thread that stops and destroys the pool
  Tasks,      \* (task, data) pairs, each handed to pushTask once
  Queues,     \* keys of queues; at least one
  Limits,     \* values that tasksByQueueLimit takes
  NoTask, NoQueue

Threads == Workers \cup Pushers \cup {Owner}

ASSUME ThreadPoolAssumption ==
  /\ Workers \cap Pushers = {}
  /\ Owner \notin Workers \cup Pushers
  /\ Timed \in SUBSET Pushers
  /\ Limits \in SUBSET Nat
  /\ NoTask \notin Tasks
  /\ NoQueue \notin Queues

VARIABLES
  queues,     \* queues[q]: the tasks of a queue, oldest first
  limit,      \* tasksByQueueLimit
  terminate,
  pc,         \* where each thread is
  task,       \* the task a thread has in hand
  slot,       \* the queue it works on
  ran,        \* tasks whose function has returned
  refused,    \* tasks pushTask returned false for
  passedOver  \* history: callers asleep whom the notification for room missed

vars == <<queues, limit, terminate, pc, task, slot, ran, refused, passedOver>>

WorkerPC == {"pop", "waitInserted", "wokeInserted", "notifyRemoved", "running", "exited"}
PusherPC == {"idle", "blocking", "waitRemoved", "wokeRemoved", "notifyInserted"}
OwnerPC == {"open", "limiting", "stopping", "destroying", "joining", "joined"}

Init ==
  /\ queues = [q \in Queues |-> <<>>]
  /\ limit \in Limits
  /\ terminate = FALSE
  /\ pc = [t \in Threads |-> IF t \in Workers THEN "pop"
                             ELSE IF t \in Pushers THEN "idle" ELSE "open"]
  /\ task = [t \in Threads |-> NoTask]
  /\ slot = [t \in Threads |-> NoQueue]
  /\ ran = {}
  /\ refused = {}
  /\ passedOver = {}

Queued(x) == \E q \in Queues : \E n \in 1..Len(queues[q]) : queues[q][n] = x
InHand(x) == \E t \in Threads : task[t] = x
Fresh(x) == ~Queued(x) /\ ~InHand(x) /\ x \notin ran \cup refused

\* mutexQueues is free: only "blocking" holds it between two steps.
Unlocked == \A t \in Pushers : pc[t] # "blocking"

NotifyOne(pcs, W, woken) ==
  IF W = {} THEN {pcs} ELSE {[pcs EXCEPT ![w] = woken] : w \in W}

WaitingInserted == {w \in Workers : pc[w] = "waitInserted"}
WaitingRemoved(q) == {t \in Pushers : pc[t] = "waitRemoved" /\ slot[t] = q}

-----------------------------------------------------------------------------
(* pushTask.  getRandomQueueByKey may choose any queue. *)

\* The pool is being stopped: false.
PushRefused(t, x) ==
  /\ pc[t] = "idle"
  /\ Unlocked
  /\ terminate
  /\ refused' = refused \cup {x}
  /\ UNCHANGED <<queues, limit, terminate, pc, task, slot, ran, passedOver>>

\* The insertion itself; the notification follows without the lock.
Insert(t, x, q) ==
  /\ queues' = [queues EXCEPT ![q] = Append(@, x)]
  /\ pc' = [pc EXCEPT ![t] = "notifyInserted"]
  /\ task' = [task EXCEPT ![t] = NoTask]
  /\ slot' = [slot EXCEPT ![t] = NoQueue]
  /\ passedOver' = passedOver \ {t}
  /\ UNCHANGED <<limit, terminate, ran, refused>>

PushInsert(t, x, q) ==
  /\ pc[t] = "idle"
  /\ Unlocked
  /\ ~terminate
  /\ Len(queues[q]) <= limit
  /\ Insert(t, x, q)

\* The queue is full: the caller keeps the lock until it waits.
PushFull(t, x, q) ==
  /\ pc[t] = "idle"
  /\ Unlocked
  /\ ~terminate
  /\ Len(queues[q]) > limit
  /\ pc' = [pc EXCEPT ![t] = "blocking"]
  /\ task' = [task EXCEPT ![t] = x]
  /\ slot' = [slot EXCEPT ![t] = q]
  /\ UNCHANGED <<queues, limit, terminate, ran, refused, passedOver>>

PushWait(t) ==
  /\ pc[t] = "blocking"
  /\ pc' = [pc EXCEPT ![t] = "waitRemoved"]
  /\ UNCHANGED <<queues, limit, terminate, task, slot, ran, refused, passedOver>>

\* Back from the wait, still full.
PushAgain(t) ==
  /\ pc[t] = "wokeRemoved"
  /\ Unlocked
  /\ Len(queues[slot[t]]) > limit
  /\ pc' = [pc EXCEPT ![t] = "blocking"]
  /\ passedOver' = passedOver \ {t}
  /\ UNCHANGED <<queues, limit, terminate, task, slot, ran, refused>>

\* (Mutant) An "if" instead of the "while" around the wait.
PushResumeUnchecked(t) ==
  /\ pc[t] = "wokeRemoved"
  /\ Unlocked
  /\ Insert(t, task[t], slot[t])

\* Back from the wait with room; terminate is not looked at again.
PushResume(t) ==
  /\ pc[t] = "wokeRemoved"
  /\ Unlocked
  /\ Len(queues[slot[t]]) <= limit
  /\ Insert(t, task[t], slot[t])

\* wait_for reports a timeout: false.  It judges by the clock once it has the
\* lock again, so a caller that was notified may report one too, and leave
\* the room it was told of to callers that go on sleeping.
PushTimeout(t) ==
  /\ t \in Timed
  /\ pc[t] \in {"waitRemoved", "wokeRemoved"}
  /\ Unlocked
  /\ pc' = [pc EXCEPT ![t] = "idle"]
  /\ refused' = refused \cup {task[t]}
  /\ task' = [task EXCEPT ![t] = NoTask]
  /\ slot' = [slot EXCEPT ![t] = NoQueue]
  /\ passedOver' =
       (IF pc[t] = "wokeRemoved" /\ Len(queues[slot[t]]) <= limit
        THEN passedOver \cup WaitingRemoved(slot[t]) ELSE passedOver) \ {t}
  /\ UNCHANGED <<queues, limit, terminate, ran>>

\* (Mutant) No notification after the insertion.
NotifyInsertedMissing(t) ==
  /\ pc[t] = "notifyInserted"
  /\ pc' = [pc EXCEPT ![t] = "idle"]
  /\ UNCHANGED <<queues, limit, terminate, task, slot, ran, refused, passedOver>>

NotifyInserted(t) ==
  /\ pc[t] = "notifyInserted"
  /\ pc' \in NotifyOne([pc EXCEPT ![t] = "idle"], WaitingInserted, "wokeInserted")
  /\ UNCHANGED <<queues, limit, terminate, task, slot, ran, refused, passedOver>>

-----------------------------------------------------------------------------
(* popTask and taskProcessor. *)

\* A worker, woken or not, takes the oldest task and leaves the rest.
Take(w, q, rest) ==
  /\ pc[w] \in {"pop", "wokeInserted"}
  /\ Unlocked
  /\ queues[q] # <<>>
  /\ queues' = [queues EXCEPT ![q] = rest]
  /\ pc' = [pc EXCEPT ![w] = "notifyRemoved"]
  /\ task' = [task EXCEPT ![w] = Head(queues[q])]
  /\ slot' = [slot EXCEPT ![w] = q]
  /\ UNCHANGED <<limit, terminate, ran, refused, passedOver>>

\* (Mutant) The task stays in its queue.
PopTakeKeeps(w, q) == Take(w, q, queues[q])

\* Some queue that is not empty is served.
PopTake(w, q) == Take(w, q, Tail(queues[q]))

AllEmpty == \A q \in Queues : queues[q] = <<>>

\* Nothing to do: wait, whatever terminate says on the way in.
PopWait(w) ==
  /\ \/ pc[w] = "pop"
     \/ pc[w] = "wokeInserted" /\ ~terminate
  /\ Unlocked
  /\ AllEmpty
  /\ pc' = [pc EXCEPT ![w] = "waitInserted"]
  /\ UNCHANGED <<queues, limit, terminate, task, slot, ran, refused, passedOver>>

\* (Mutant) On termination a worker exits whatever is queued.
PopExitAtOnce(w) ==
  /\ pc[w] = "wokeInserted"
  /\ Unlocked
  /\ terminate
  /\ pc' = [pc EXCEPT ![w] = "exited"]
  /\ UNCHANGED <<queues, limit, terminate, task, slot, ran, refused, passedOver>>

\* On termination, empty queues mean exit.
PopExit(w) ==
  /\ pc[w] = "wokeInserted"
  /\ Unlocked
  /\ terminate
  /\ AllEmpty
  /\ pc' = [pc EXCEPT ![w] = "exited"]
  /\ UNCHANGED <<queues, limit, terminate, task, slot, ran, refused, passedOver>>

\* (Mutant) No notification after the removal.
NotifyRemovedMissing(w) ==
  /\ pc[w] = "notifyRemoved"
  /\ pc' = [pc EXCEPT ![w] = "running"]
  /\ slot' = [slot EXCEPT ![w] = NoQueue]
  /\ UNCHANGED <<queues, limit, terminate, task, ran, refused, passedOver>>

NotifyRemoved(w) ==
  /\ pc[w] = "notifyRemoved"
  /\ pc' \in NotifyOne([pc EXCEPT ![w] = "running"], WaitingRemoved(slot[w]), "wokeRemoved")
  /\ slot' = [slot EXCEPT ![w] = NoQueue]
  /\ UNCHANGED <<queues, limit, terminate, task, ran, refused, passedOver>>

RunTask(w) ==
  /\ pc[w] = "running"
  /\ ran' = ran \cup {task[w]}
  /\ task' = [task EXCEPT ![w] = NoTask]
  /\ pc' = [pc EXCEPT ![w] = "pop"]
  /\ UNCHANGED <<queues, limit, terminate, slot, refused, passedOver>>

-----------------------------------------------------------------------------
(* The owner: stop, the destructor, setTasksByQueueLimit. *)

\* stop, called alone or from the destructor: the flag, under the lock.
Stop(from) ==
  /\ pc[Owner] = "open"
  /\ Unlocked
  /\ terminate' = TRUE
  /\ pc' = [pc EXCEPT ![Owner] = from]
  /\ UNCHANGED <<queues, limit, task, slot, ran, refused, passedOver>>

\* stop, after the lock: whoever waits now is woken.
StopNotify ==
  /\ pc[Owner] \in {"stopping", "destroying"}
  /\ pc' = [t \in Threads |->
              IF t = Owner THEN IF pc[t] = "stopping" THEN "open" ELSE "joining"
              ELSE IF pc[t] = "waitInserted" THEN "wokeInserted" ELSE pc[t]]
  /\ UNCHANGED <<queues, limit, terminate, task, slot, ran, refused, passedOver>>

\* The destructor joins every worker.
Join ==
  /\ pc[Owner] = "joining"
  /\ \A w \in Workers : pc[w] = "exited"
  /\ pc' = [pc EXCEPT ![Owner] = "joined"]
  /\ UNCHANGED <<queues, limit, terminate, task, slot, ran, refused, passedOver>>

\* setTasksByQueueLimit: no lock, ...
SetTasksByQueueLimit(n) ==
  /\ pc[Owner] = "open"
  /\ limit # n
  /\ limit' = n
  /\ pc' = [pc EXCEPT ![Owner] = "limiting"]
  /\ UNCHANGED <<queues, terminate, task, slot, ran, refused, passedOver>>

\* ... then every caller that waits is woken, but none that has tested the old
\* limit and is about to wait.
LimitNotify ==
  /\ pc[Owner] = "limiting"
  /\ pc' = [t \in Threads |-> IF t = Owner THEN "open"
                              ELSE IF pc[t] = "waitRemoved" THEN "wokeRemoved" ELSE pc[t]]
  /\ passedOver' = passedOver \cup {t \in Pushers : pc[t] = "blocking" /\ Len(queues[slot[t]]) <= limit}
  /\ UNCHANGED <<queues, limit, terminate, task, slot, ran, refused>>

SpuriousWake(t) ==
  /\ pc[t] \in {"waitInserted", "waitRemoved"}
  /\ pc' = [pc EXCEPT ![t] = IF @ = "waitInserted" THEN "wokeInserted" ELSE "wokeRemoved"]
  /\ UNCHANGED <<queues, limit, terminate, task, slot, ran, refused, passedOver>>

-----------------------------------------------------------------------------
PusherStep(t) ==
  \/ PushWait(t)
  \/ PushAgain(t)
  \/ PushResume(t)
  \/ NotifyInserted(t)

WorkerStep(w) ==
  \/ \E q \in Queues : PopTake(w, q)
  \/ PopWait(w)
  \/ PopExit(w)
  \/ NotifyRemoved(w)
  \/ RunTask(w)

OwnerStep == StopNotify \/ LimitNotify \/ Join

Next ==
  \/ \E t \in Pushers, x \in {y \in Tasks : Fresh(y)} :
       PushRefused(t, x) \/ \E q \in Queues : PushInsert(t, x, q) \/ PushFull(t, x, q)
  \/ \E t \in Pushers : PusherStep(t) \/ PushTimeout(t)
  \/ \E w \in Workers : WorkerStep(w)
  \/ \E from \in {"stopping", "destroying"} : Stop(from)
  \/ OwnerStep
  \/ \E n \in Limits : SetTasksByQueueLimit(n)
  \/ \E t \in Threads : SpuriousWake(t)

Spec == Init /\ [][Next]_vars

(***************************************************************************)
(* Fairness: threads run, tasks return and the owner finishes what it      *)
(* began.  It is strong for the threads that need mutexQueues, which is    *)
(* free again and again but not always: the mutex starves nobody.  Nobody  *)
(* has to push, to stop or to change the limit, and a timeout or a         *)
(* spurious wake-up may never come.                                        *)
(***************************************************************************)
FairSpec ==
  /\ Spec
  /\ \A t \in Pushers : SF_vars(PusherStep(t))
  /\ \A w \in Workers : SF_vars(WorkerStep(w))
  /\ WF_vars(OwnerStep)

-----------------------------------------------------------------------------
TypeOK ==
  /\ queues \in [Queues -> Seq(Tasks)]
  /\ limit \in Limits
  /\ terminate \in BOOLEAN
  /\ pc \in [Threads -> WorkerPC \cup PusherPC \cup OwnerPC]
  /\ task \in [Threads -> Tasks \cup {NoTask}]
  /\ slot \in [Threads -> Queues \cup {NoQueue}]
  /\ ran \in SUBSET Tasks
  /\ refused \in SUBSET Tasks
  /\ passedOver \in SUBSET Pushers

\* A task is in one place: once in one queue, in one hand, run or refused.
\* So no task runs twice, and one that pushTask refused, and whose data the
\* caller has deleted, is in no queue.
OnePlace ==
  /\ \A q1, q2 \in Queues : \A n1 \in 1..Len(queues[q1]), n2 \in 1..Len(queues[q2]) :
       queues[q1][n1] = queues[q2][n2] => q1 = q2 /\ n1 = n2
  /\ \A t1, t2 \in Threads : task[t1] = task[t2] /\ task[t1] # NoTask => t1 = t2
  /\ \A x \in Tasks : Queued(x) => ~InHand(x)
  /\ \A x \in ran \cup refused : ~Queued(x) /\ ~InHand(x)
  /\ ran \cap refused = {}

\* No queue ever holds more than one task above the highest limit in use,
\* whoever was waiting for room when the limit or the queue changed.
QueueBounded ==
  \A q \in Queues : \E n \in Limits : Len(queues[q]) <= n + 1

\* A worker sleeps beside a queued task only if another is up, or about to
\* be: the notifications sent after the unlock lose nothing.
TasksAreServed ==
  ~AllEmpty /\ WaitingInserted # {} =>
    \/ \E w \in Workers : pc[w] \in {"pop", "wokeInserted", "notifyRemoved", "running"}
    \/ \E t \in Pushers : pc[t] = "notifyInserted"

\* A caller asleep on a queue with room is about to be woken, or another on
\* the same queue is up and will fill it.  Callers with timeouts and changes of
\* the limit, which take no lock, leave two exceptions, and there are no others:
\* a caller that was notified reports its timeout beside the room it was told
\* of, and a limit rises between the test of a caller and its wait.
NoStrandedPusher ==
  \A t \in Pushers \ passedOver : pc[t] = "waitRemoved" /\ Len(queues[slot[t]]) <= limit =>
    \/ \E w \in Workers : pc[w] = "notifyRemoved" /\ slot[w] = slot[t]
    \/ \E p \in Pushers : pc[p] = "wokeRemoved" /\ slot[p] = slot[t]
    \/ pc[Owner] = "limiting"

\* A task that was in a queue before the pool was stopped is run.
QueuedTaskRuns ==
  \A x \in Tasks : Queued(x) /\ ~terminate ~> x \in ran

\* What pushTask's comment says of its result: "false if timed out or during
\* stop".  A task enters no queue once the pool is being stopped.
NoPushDuringStop ==
  [][\A x \in Tasks : terminate /\ ~Queued(x) => ~Queued(x)']_vars

\* What getTasksByQueueLimit's comment says: a queue's "max task count".
LimitIsMaximum == \A q \in Queues : Len(queues[q]) <= limit

\* What stop's comment says: it stops the consumer threads, also when it is
\* called from the destructor, which then joins them.
DestructorReturns == pc[Owner] = "joining" ~> pc[Owner] = "joined"

(***************************************************************************)
(* The pool keeps the promise of TaskService.  Where a task is comes       *)
(* before what became of it, so that a task run or refused and queued once *)
(* more has the wrong fate.                                                *)
(***************************************************************************)
Held(x) == \E w \in Workers : task[w] = x

Fate == [x \in Tasks |->
  IF Held(x) THEN "running"
  ELSE IF Queued(x) THEN "accepted"
  ELSE IF x \in ran THEN "finished"
  ELSE IF x \in refused THEN "refused" ELSE "new"]

Service == INSTANCE TaskService WITH fate <- Fate

ImplementsService == Service!Spec
=============================================================================
