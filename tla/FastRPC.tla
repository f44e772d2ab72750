------------------------------- MODULE FastRPC -------------------------------
(***************************************************************************)
(* RPC::Fast::FastRPC (src/RPC/mdz_xrpc_fast/fastrpc.cpp), one side of the *)
(* bidirectional protocol, under one connection key: the threads in        *)
(* processConnection, the callers of runRemoteRPCMethod, and the thread    *)
(* pool's workers that run the peer's queries.                             *)
(*                                                                         *)
(* connectionsByKeyId is a Safe::Map: opening, releasing and destroying    *)
(* are taken at the level of ItemLease, which SafeMap implements.  The     *)
(* pool is taken at the level of TaskService.  One step is one critical    *)
(* section of mtAnswers, or one call on the map, the socket or the pool.   *)
(***************************************************************************)
EXTENDS Naturals, FiniteSets

CONSTANTS
  Conns,      \* calls of processConnection, all with the same key
  Callers,    \* calls of runRemoteRPCMethod to that key
  Queries,    \* queries of the peer
  MaxTries,   \* remoteExecutionDisconnectedTries
  NoConn, NoCaller

ASSUME FastRPCAssumption ==
  /\ IsFiniteSet(Callers)
  /\ MaxTries \in Nat \ {0}
  /\ NoConn \notin Conns
  /\ NoCaller \notin Callers
  /\ Callers \cap {"none", "disconnected", "timeout", "terminated"} = {}

\* requestIdCounter counts from 1, once for every caller at most.
Ids == 1..Cardinality(Callers)

VARIABLES
  mapped,      \* the connection stored under the key
  openable,    \* it can be opened: its destruction has not begun
  state,       \* where each processConnection is
  terminated,  \* FastRPC_Connection::terminated
  nextId,      \* FastRPC_Connection::requestIdCounter
  pending,     \* FastRPC_Connection::pendingRequests
  answers,     \* FastRPC_Connection::answers, with executionStatus: the
               \* caller whose query the answer to a request is for
  wire,        \* queries the peer has received, and not answered yet
  served,      \* where each query of the peer is
  servedOn,    \* the connection it came by
  pc,          \* where each caller is
  on, id,      \* its connection and its requestId
  tries,       \* _tries
  result       \* what it returns: whose answer, or which error

conns == <<mapped, openable, state, terminated>>
tables == <<nextId, pending, answers, wire>>
tasks == <<served, servedOn>>
calls == <<pc, on, id, tries, result>>
vars == <<conns, tables, tasks, calls>>

States == {"new", "refused", "serving", "draining", "closing", "terminated",
           "destroying", "returned"}
CallerPC == {"opening", "opened", "numbered", "pending", "looping", "waiting",
             "woke", "cleaning", "releasing", "returned"}
Errors == {"none", "disconnected", "timeout", "terminated"}

\* A caller that opened the connection and has not released it.
Holds(k, c) == on[k] = c /\ pc[k] \notin {"opening", "returned"}

\* mtDone.lock_shared: once for every query that is not finished.
Unfinished(c) == {x \in Queries : servedOn[x] = c /\ served[x] \in {"queued", "answered"}}

Init ==
  /\ mapped = NoConn
  /\ openable = FALSE
  /\ state = [c \in Conns |-> "new"]
  /\ terminated = [c \in Conns |-> FALSE]
  /\ nextId = [c \in Conns |-> 1]
  /\ pending = [c \in Conns |-> {}]
  /\ answers = [c \in Conns |-> [i \in Ids |-> NoCaller]]
  /\ wire = [c \in Conns |-> {}]
  /\ served = [x \in Queries |-> "none"]
  /\ servedOn = [x \in Queries |-> NoConn]
  /\ pc = [k \in Callers |-> "opening"]
  /\ on = [k \in Callers |-> NoConn]
  /\ id = [k \in Callers |-> 0]
  /\ tries = [k \in Callers |-> 0]
  /\ result = [k \in Callers |-> "none"]

-----------------------------------------------------------------------------
(* processConnection: registration, and the loop that reads the stream. *)

\* addElement: the key is free.
Register(c) ==
  /\ state[c] = "new"
  /\ mapped = NoConn
  /\ mapped' = c
  /\ openable' = TRUE
  /\ state' = [state EXCEPT ![c] = "serving"]
  /\ UNCHANGED <<terminated, tables, tasks, calls>>

\* The key is taken, if only by a connection that is being destroyed: -2.
RegisterRefused(c) ==
  /\ state[c] = "new"
  /\ mapped # NoConn
  /\ state' = [state EXCEPT ![c] = "refused"]
  /\ UNCHANGED <<mapped, openable, terminated, tables, tasks, calls>>

\* notify_all on cvAnswers, for the callers of c that wait.
WakeCallers(c) ==
  pc' = [k \in Callers |-> IF pc[k] = "waiting" /\ on[k] = c THEN "woke" ELSE pc[k]]

\* 'A', with a readable answer: kept if its request is still pending.
\* (Otherwise eventUnexpectedAnswerReceived, which does nothing.)  The peer may
\* answer the same query again.
ProcessAnswer(c, i, k) ==
  /\ state[c] = "serving"
  /\ <<i, k>> \in wire[c]
  /\ \/ wire' = [wire EXCEPT ![c] = @ \ {<<i, k>>}]
     \/ UNCHANGED wire
  /\ IF i \in pending[c]
     THEN answers' = [answers EXCEPT ![c][i] = k] /\ WakeCallers(c)
     ELSE UNCHANGED <<answers, pc>>
  /\ UNCHANGED <<conns, nextId, pending, tasks, on, id, tries, result>>

\* 'A', but the answer cannot be parsed: the request is given up, unnoticed.
ProcessBadAnswer(c, i, k) ==
  /\ state[c] = "serving"
  /\ <<i, k>> \in wire[c]
  /\ i \in pending[c]
  /\ wire' = [wire EXCEPT ![c] = @ \ {<<i, k>>}]
  /\ answers' = [answers EXCEPT ![c][i] = NoCaller]
  /\ pending' = [pending EXCEPT ![c] = @ \ {i}]
  /\ UNCHANGED <<conns, nextId, tasks, calls>>

\* 'Q': mtDone is taken shared, and the pool accepts the task.
ProcessQuery(c, x) ==
  /\ state[c] = "serving"
  /\ served[x] = "none"
  /\ served' = [served EXCEPT ![x] = "queued"]
  /\ servedOn' = [servedOn EXCEPT ![x] = c]
  /\ UNCHANGED <<conns, tables, calls>>

\* 'Q', and the pool does not accept it: answered here, with status 3.
ProcessQueryDropped(c, x) ==
  /\ state[c] = "serving"
  /\ served[x] = "none"
  /\ served' = [served EXCEPT ![x] = "finished"]
  /\ servedOn' = [servedOn EXCEPT ![x] = c]
  /\ UNCHANGED <<conns, tables, calls>>

\* Remote shutdown, read timeout, bad message: the loop ends.
StreamEnds(c) ==
  /\ state[c] = "serving"
  /\ state' = [state EXCEPT ![c] = "draining"]
  /\ UNCHANGED <<mapped, openable, terminated, tables, tasks, calls>>

\* (Mutant) The end of the connection does not wait for its tasks.
DrainAtOnce(c) ==
  /\ state[c] = "draining"
  /\ state' = [state EXCEPT ![c] = "closing"]
  /\ UNCHANGED <<mapped, openable, terminated, tables, tasks, calls>>

\* mtDone.lock: every task of the connection is done.  shutdownSocket.
Drain(c) ==
  /\ state[c] = "draining"
  /\ Unfinished(c) = {}
  /\ state' = [state EXCEPT ![c] = "closing"]
  /\ UNCHANGED <<mapped, openable, terminated, tables, tasks, calls>>

\* terminated = true, without mtAnswers.
Terminate(c) ==
  /\ state[c] = "closing"
  /\ terminated' = [terminated EXCEPT ![c] = TRUE]
  /\ state' = [state EXCEPT ![c] = "terminated"]
  /\ UNCHANGED <<mapped, openable, tables, tasks, calls>>

\* cvAnswers.notify_all, without mtAnswers; then destroyElement, up to its wait.
NotifyTerminated(c) ==
  /\ state[c] = "terminated"
  /\ WakeCallers(c)
  /\ openable' = FALSE
  /\ state' = [state EXCEPT ![c] = "destroying"]
  /\ UNCHANGED <<mapped, terminated, tables, tasks, on, id, tries, result>>

\* (Mutant) The connection goes whoever has it open.
DestroyAtOnce(c) ==
  /\ state[c] = "destroying"
  /\ mapped' = NoConn
  /\ state' = [state EXCEPT ![c] = "returned"]
  /\ UNCHANGED <<openable, terminated, tables, tasks, calls>>

\* destroyElement ends when nobody has the connection open; then
\* processConnection returns, and with it go mtSocket and mtDone.
Destroy(c) ==
  /\ state[c] = "destroying"
  /\ \A k \in Callers : ~Holds(k, c)
  /\ mapped' = NoConn
  /\ state' = [state EXCEPT ![c] = "returned"]
  /\ UNCHANGED <<openable, terminated, tables, tasks, calls>>

-----------------------------------------------------------------------------
(* executeRPCTask, in a worker of the pool. *)

RunTask(x) ==
  /\ served[x] = "queued"
  /\ served' = [served EXCEPT ![x] = "answered"]
  /\ UNCHANGED <<conns, tables, servedOn, calls>>

\* (Mutant) A task that finds its connection closing keeps mtDone.
FinishTaskServing(x) ==
  /\ served[x] = "answered"
  /\ state[servedOn[x]] = "serving"
  /\ served' = [served EXCEPT ![x] = "finished"]
  /\ UNCHANGED <<conns, tables, servedOn, calls>>

\* done->unlock_shared
FinishTask(x) ==
  /\ served[x] = "answered"
  /\ served' = [served EXCEPT ![x] = "finished"]
  /\ UNCHANGED <<conns, tables, servedOn, calls>>

-----------------------------------------------------------------------------
(* runRemoteRPCMethod. *)

Open(k) ==
  /\ pc[k] = "opening"
  /\ mapped # NoConn
  /\ openable
  /\ on' = [on EXCEPT ![k] = mapped]
  /\ pc' = [pc EXCEPT ![k] = "opened"]
  /\ UNCHANGED <<conns, tables, tasks, id, tries, result>>

\* (Mutant) The tries are not counted.
OpenFailsUncounted(k, retry) ==
  /\ pc[k] = "opening"
  /\ ~openable
  /\ UNCHANGED vars

\* No connection: try again in a second, or give up (error 2).  A call with
\* retryIfDisconnected = false gives up at once.
OpenFails(k, retry) ==
  /\ pc[k] = "opening"
  /\ ~openable
  /\ tries' = [tries EXCEPT ![k] = @ + 1]
  /\ IF tries[k] + 1 >= MaxTries \/ ~retry
     THEN /\ pc' = [pc EXCEPT ![k] = "returned"]
          /\ result' = [result EXCEPT ![k] = "disconnected"]
     ELSE UNCHANGED <<pc, result>>
  /\ UNCHANGED <<conns, tables, tasks, on, id>>

\* (Mutant) The counter is read, and counted up only by those who read it late.
CreateRequestIdRacy(k) ==
  /\ pc[k] = "opened"
  /\ id' = [id EXCEPT ![k] = nextId[on[k]]]
  /\ \/ nextId' = [nextId EXCEPT ![on[k]] = @ + 1]
     \/ UNCHANGED nextId
  /\ pc' = [pc EXCEPT ![k] = "numbered"]
  /\ UNCHANGED <<conns, pending, answers, wire, tasks, on, tries, result>>

CreateRequestId(k) ==
  /\ pc[k] = "opened"
  /\ id' = [id EXCEPT ![k] = nextId[on[k]]]
  /\ nextId' = [nextId EXCEPT ![on[k]] = @ + 1]
  /\ pc' = [pc EXCEPT ![k] = "numbered"]
  /\ UNCHANGED <<conns, pending, answers, wire, tasks, on, tries, result>>

Authorize(k) ==
  /\ pc[k] = "numbered"
  /\ pending' = [pending EXCEPT ![on[k]] = @ \cup {id[k]}]
  /\ pc' = [pc EXCEPT ![k] = "pending"]
  /\ UNCHANGED <<conns, nextId, answers, wire, tasks, on, id, tries, result>>

\* The query is written under mtSocket; nobody looks at the outcome, and on a
\* stream that fails it is lost.
SendQuery(k) ==
  /\ pc[k] = "pending"
  /\ \/ /\ state[on[k]] \in {"serving", "draining"}
        /\ wire' = [wire EXCEPT ![on[k]] = @ \cup {<<id[k], k>>}]
     \/ UNCHANGED wire
  /\ pc' = [pc EXCEPT ![k] = "looping"]
  /\ UNCHANGED <<conns, nextId, pending, answers, tasks, on, id, tries, result>>

\* The loop waits before it looks for the answer.
Wait(k) ==
  /\ pc[k] = "looping"
  /\ pc' = [pc EXCEPT ![k] = "waiting"]
  /\ UNCHANGED <<conns, tables, tasks, on, id, tries, result>>

Finish(k, r) ==
  /\ pc' = [pc EXCEPT ![k] = "cleaning"]
  /\ result' = [result EXCEPT ![k] = r]
  /\ UNCHANGED <<conns, tables, tasks, on, id, tries>>

\* wait_for reports a timeout, judged by the clock even after a notification.
Timeout(k) ==
  /\ pc[k] \in {"waiting", "woke"}
  /\ Finish(k, "timeout")

TakeAnswer(k) ==
  /\ pc[k] = "woke"
  /\ answers[on[k]][id[k]] # NoCaller
  /\ Finish(k, answers[on[k]][id[k]])

SeeTerminated(k) ==
  /\ pc[k] = "woke"
  /\ answers[on[k]][id[k]] = NoCaller
  /\ terminated[on[k]]
  /\ Finish(k, "terminated")

\* The signal was for somebody else: unlock, lock, wait again.
KeepWaiting(k) ==
  /\ pc[k] = "woke"
  /\ answers[on[k]][id[k]] = NoCaller
  /\ ~terminated[on[k]]
  /\ pc' = [pc EXCEPT ![k] = "looping"]
  /\ UNCHANGED <<conns, tables, tasks, on, id, tries, result>>

\* A wake for nothing, or by the answer to a call that is not one of Callers.
WokenForOthers(k) ==
  /\ pc[k] = "waiting"
  /\ pc' = [pc EXCEPT ![k] = "woke"]
  /\ UNCHANGED <<conns, tables, tasks, on, id, tries, result>>

\* (Mutant) The answer is erased, the authorization is not.
CleanUpAnswerOnly(k) ==
  /\ pc[k] = "cleaning"
  /\ answers' = [answers EXCEPT ![on[k]][id[k]] = NoCaller]
  /\ pc' = [pc EXCEPT ![k] = "releasing"]
  /\ UNCHANGED <<conns, nextId, pending, wire, tasks, on, id, tries, result>>

\* The authorization is revoked, the answer erased, in one critical section.
CleanUp(k) ==
  /\ pc[k] = "cleaning"
  /\ answers' = [answers EXCEPT ![on[k]][id[k]] = NoCaller]
  /\ pending' = [pending EXCEPT ![on[k]] = @ \ {id[k]}]
  /\ pc' = [pc EXCEPT ![k] = "releasing"]
  /\ UNCHANGED <<conns, nextId, wire, tasks, on, id, tries, result>>

\* releaseElement
Release(k) ==
  /\ pc[k] = "releasing"
  /\ pc' = [pc EXCEPT ![k] = "returned"]
  /\ UNCHANGED <<conns, tables, tasks, on, id, tries, result>>

-----------------------------------------------------------------------------
ConnStep(c) == Drain(c) \/ Terminate(c) \/ NotifyTerminated(c) \/ Destroy(c)

TaskStep(x) == RunTask(x) \/ FinishTask(x)

CallStep(k) ==
  \/ Open(k)
  \/ \E retry \in BOOLEAN : OpenFails(k, retry)
  \/ CreateRequestId(k)
  \/ Authorize(k)
  \/ SendQuery(k)
  \/ Wait(k)
  \/ TakeAnswer(k)
  \/ SeeTerminated(k)
  \/ CleanUp(k)
  \/ Release(k)

\* Connections are alike until they register: they come in a fixed order.
Arriving(c) == state[c] = "new" /\ c = (CHOOSE d \in Conns : state[d] = "new")

Next ==
  \/ \E c \in Conns : Arriving(c) /\ (Register(c) \/ RegisterRefused(c))
  \/ \E c \in Conns :
       \/ StreamEnds(c) \/ ConnStep(c)
       \/ \E i \in Ids, k \in Callers : ProcessAnswer(c, i, k) \/ ProcessBadAnswer(c, i, k)
       \/ \E x \in Queries : ProcessQuery(c, x) \/ ProcessQueryDropped(c, x)
  \/ \E x \in Queries : TaskStep(x)
  \/ \E k \in Callers : CallStep(k) \/ Timeout(k) \/ KeepWaiting(k) \/ WokenForOthers(k)

Spec == Init /\ [][Next]_vars

(***************************************************************************)
(* Fairness: threads run, the pool runs what it accepted, and a wait that  *)
(* nobody disturbs comes to its timeout (weak: a wake for others ends the  *)
(* wait_for, and the next one starts its whole interval anew).  The peer   *)
(* need not answer, nor the stream end, nor a connection come.             *)
(***************************************************************************)
FairSpec ==
  /\ Spec
  /\ \A c \in Conns : WF_vars(ConnStep(c))
  /\ \A x \in Queries : WF_vars(TaskStep(x))
  /\ \A k \in Callers : WF_vars(CallStep(k)) /\ WF_vars(Timeout(k))

-----------------------------------------------------------------------------
TypeOK ==
  /\ mapped \in Conns \cup {NoConn}
  /\ openable \in BOOLEAN
  /\ state \in [Conns -> States]
  /\ terminated \in [Conns -> BOOLEAN]
  /\ nextId \in [Conns -> 1..Cardinality(Callers) + 1]
  /\ pending \in [Conns -> SUBSET Ids]
  /\ answers \in [Conns -> [Ids -> Callers \cup {NoCaller}]]
  /\ wire \in [Conns -> SUBSET (Ids \X Callers)]
  /\ served \in [Queries -> {"none", "queued", "answered", "finished"}]
  /\ servedOn \in [Queries -> Conns \cup {NoConn}]
  /\ pc \in [Callers -> CallerPC]
  /\ on \in [Callers -> Conns \cup {NoConn}]
  /\ id \in [Callers -> Ids \cup {0}]
  /\ tries \in [Callers -> 0..MaxTries]
  /\ result \in [Callers -> Callers \cup Errors]

\* A caller gets the answer to its own query, never somebody else's.
OwnAnswer == \A k \in Callers : result[k] \in Callers => result[k] = k

\* Everything left in the tables belongs to a call that will clean it up: an
\* answer that comes after its caller gave up is never kept.
NoLeftovers ==
  \A c \in Conns, i \in Ids :
    i \in pending[c] \/ answers[c][i] # NoCaller =>
      \E k \in Callers :
        on[k] = c /\ id[k] = i /\ pc[k] \in {"pending", "looping", "waiting", "woke", "cleaning"}

\* Both: across calls that give up, answers that come late and identifiers that
\* come again, an answer reaches the call it is for or nobody.
AnswersAreOwn == OwnAnswer /\ NoLeftovers

\* A caller uses the connection, and mtSocket on the stack of
\* processConnection, only while processConnection has not returned.
ConnectionOutlivesCallers ==
  \A k \in Callers, c \in Conns : Holds(k, c) =>
    mapped = c /\ state[c] \notin {"new", "refused", "returned"}

\* So does a task: its stream is not even shut down before it is finished.
StreamOutlivesTasks ==
  \A x \in Queries : served[x] \in {"queued", "answered"} =>
    state[servedOn[x]] \in {"serving", "draining"}

\* Both: nothing that a thread still uses is gone with its connection.
NothingUsedIsGone == ConnectionOutlivesCallers /\ StreamOutlivesTasks

\* A call comes to an end, whatever the peer does; only one that is woken for
\* others again and again, each time before its whole interval has passed, may
\* go on for ever.
CallReturns == \A k \in Callers : <>(pc[k] = "returned") \/ []<>(pc[k] = "woke")

\* Once its stream has ended, processConnection returns: neither its tasks
\* nor its callers hold it up for ever.
ConnectionReturns == \A c \in Conns : state[c] = "draining" ~> state[c] = "returned"

\* Both: nobody waits for ever for those that use a connection that has ended,
\* not even for a call that a busy connection kept waiting; and for an answer
\* nobody does but on a connection that is busy with others for ever.
AllReturn == CallReturns /\ ConnectionReturns

\* What the error of a timeout says: "No Answer Received."  A call reports a
\* timeout only if no answer to it has been received.
TimeoutMeansNoAnswer ==
  [][\A k \in Callers :
       result'[k] = "timeout" /\ result[k] = "none" => answers[on[k]][id[k]] = NoCaller]_vars
=============================================================================
