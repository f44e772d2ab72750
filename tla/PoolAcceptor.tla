----------------------------- MODULE PoolAcceptor -----------------------------
(* Acceptors::PoolThreaded: one thread accepts clients and gives each of them *)
(* to a thread pool, of which only the service is known here: a task is taken *)
(* or refused, and one that was taken runs to its end, once (TaskService).    *)
EXTENDS Naturals, FiniteSets

CONSTANTS Clients, NoClient
ASSUME PoolAcceptorAssumption == NoClient \notin Clients

VARIABLES loop,     \* run()
          accepted,  \* the client accept() gave
          fate,     \* of the task of a client, in the pool
          socketOf,   \* the socket of a client, and which callback was told of it
          listener, \* acceptorSocket
          holder,    \* what the object's owner does
          late       \* the client that was being pushed when the pool was stopped

avars == <<loop, accepted, fate, socketOf, listener, holder, late>>

Pool == INSTANCE TaskService WITH Tasks <- Clients
Outside == [socket |-> "outside", told |-> {}]

\* When the pool is gone, the listener is next, whether the loop still accepts on it or, ended, has freed it before:
\* what any thread does from there is not defined, and not modelled.
Defined == holder # "frees the listener"

\* start: the pool is made and started by the thread itself.
run ==
    /\ loop = "off" /\ holder = "uses it"
    /\ loop' = "accepting"
    /\ UNCHANGED <<accepted, fate, socketOf, listener, holder, late>>

\* A client is accepted; or accept() gives none, after a shutdown or by an error of its own, and the loop ends.
Accepts(c) ==
    /\ Defined /\ loop = "accepting" /\ listener = "open"
    /\ socketOf[c].socket = "outside"
    /\ socketOf' = [socketOf EXCEPT ![c].socket = "task"]
    /\ accepted' = c
    /\ loop' = "pushing"
    /\ UNCHANGED <<fate, listener, holder, late>>
AcceptsNone ==
    /\ Defined /\ loop = "accepting"
    /\ loop' = "leaving"
    /\ UNCHANGED <<accepted, fate, socketOf, listener, holder, late>>
\* A push that waits for room does not look again whether the pool was stopped (ThreadPool).
Pushes ==
    /\ Defined /\ loop = "pushing" /\ (holder = "uses it" \/ accepted = late)
    /\ Pool!Accept(accepted)
    /\ loop' = "accepting" /\ accepted' = NoClient
    /\ UNCHANGED <<socketOf, listener, holder, late>>
\* No room in time, or the pool was stopped: the callback is told, the task's data take the socket with them.
\* Variant: the task's data forget the socket first, as after a callback that keeps it.
TimesOutKeeping ==
    /\ Defined /\ loop = "pushing"
    /\ Pool!Refuse(accepted)
    /\ socketOf' = [socketOf EXCEPT ![accepted].told = @ \cup {"timed out"}]
    /\ loop' = "accepting" /\ accepted' = NoClient
    /\ UNCHANGED <<listener, holder, late>>
TimesOut ==
    /\ Defined /\ loop = "pushing"
    /\ Pool!Refuse(accepted)
    /\ socketOf' = [socketOf EXCEPT ![accepted] = [socket |-> "freed", told |-> @.told \cup {"timed out"}]]
    /\ loop' = "accepting" /\ accepted' = NoClient
    /\ UNCHANGED <<listener, holder, late>>
LeavesLoop ==
    /\ Defined /\ loop = "leaving"
    /\ listener' = "freed"
    /\ loop' = "ended"
    /\ UNCHANGED <<accepted, fate, socketOf, holder, late>>

\* acceptorTask: the client is greeted on a thread of the pool; the callback for the result may keep the socket,
\* which is freed with the task otherwise.
acceptorTask(c) ==
    /\ Defined /\ Pool!Start(c)
    /\ UNCHANGED <<loop, accepted, socketOf, listener, holder, late>>
Kept(answer) == IF answer THEN "freed" ELSE "kept"
TaskEnds(c) ==
    /\ Pool!Finish(c)
    /\ \E greeted \in BOOLEAN, callback \in BOOLEAN, answer \in BOOLEAN :
          socketOf' = [socketOf EXCEPT ![c] =
              IF callback THEN [socket |-> Kept(answer), told |-> @.told \cup {IF greeted THEN "connected" ELSE "failed"}]
              ELSE [@ EXCEPT !.socket = "freed"]]
    /\ UNCHANGED <<loop, accepted, listener, holder, late>>

\* stop() shuts the listener down, if it is still there.
stop ==
    /\ holder = "uses it" /\ listener = "open"
    /\ listener' = "shut"
    /\ UNCHANGED <<loop, accepted, fate, socketOf, holder, late>>

\* The destructor, wherever the loop is: it is waited for only after all this (~Threaded).  The pool first, if it is
\* there, which ends what it had taken, but for a task that came when its threads had gone.
PoolDestroys ==
    /\ holder = "uses it"
    /\ holder' = IF loop = "off" THEN "frees the listener" ELSE "waits for the pool"
    /\ late' = IF loop = "pushing" THEN accepted ELSE NoClient
    /\ UNCHANGED <<loop, accepted, fate, socketOf, listener>>
PoolGone ==
    /\ holder = "waits for the pool"
    /\ \A c \in Clients : fate[c] # "running" /\ (fate[c] = "accepted" => c = late)
    /\ holder' = "frees the listener"
    /\ UNCHANGED <<loop, accepted, fate, socketOf, listener, late>>

PaInit ==
    /\ loop = "off" /\ accepted = NoClient
    /\ Pool!Init
    /\ socketOf = [c \in Clients |-> Outside]
    /\ listener = "open"
    /\ holder = "uses it" /\ late = NoClient
PaNext ==
    \/ run \/ AcceptsNone \/ Pushes \/ TimesOut \/ LeavesLoop \/ stop \/ PoolDestroys \/ PoolGone
    \/ \E c \in Clients : Accepts(c) \/ acceptorTask(c) \/ TaskEnds(c)
PaSpec == PaInit /\ [][PaNext]_avars

---- \* Properties

\* Of a client at most one callback is told, and its socket is gone, or kept by that callback, exactly when its
\* task is over: refused clients and those still queued when the pool is destroyed are not forgotten.  With one
\* exception: of a destructor that does not wait for the loop, the client that the loop is pushing then, which may
\* get into a pool whose threads have gone, or never into one.
ClientsSettled ==
    \A c \in Clients :
        /\ Cardinality(socketOf[c].told) <= 1
        /\ socketOf[c].socket \in {"freed", "kept"} <=> fate[c] \in {"refused", "finished"}
        /\ holder = "frees the listener" /\ socketOf[c].socket = "task" => c \in {late, accepted}

\* "in server mode, use the parent keys..." (socket_tls.cpp:171): a client is greeted with its listener's keys, so
\* the listener is there for as long as a task may greet one.
ListenerOutlivesGreetings == \A c \in Clients : fate[c] = "running" => listener # "freed"
===============================================================================
