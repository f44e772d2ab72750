------------------------------ MODULE Acceptor ------------------------------
(***************************************************************************)
(* The thread-per-connection acceptor                                      *)
(* (src/Network/mdz_net_sockets/acceptor_multithreaded.cpp) and the client *)
(* threads it starts (acceptor_thread.cpp), in the mode of startThreaded.  *)
(*                                                                         *)
(* Four kinds of thread: the acceptor, one detached thread for every       *)
(* connection, a caller of the setters, and the destructor.  A section     *)
(* under mutex_clients is one step up to its wait and one after it.  The   *)
(* wait for room has a timeout, which is a step that may always happen.    *)
(* The sockets and the user's callbacks are external: accept fails once    *)
(* the listening socket is shut down, a callback returns at some time, and *)
(* for certain once its socket is shut down.                               *)
(***************************************************************************)
EXTENDS Naturals, FiniteSets

CONSTANTS
  Conns,         \* connections that clients open
  IPs,
  ClientLimits,  \* values of maxConcurrentClients
  IPLimits,      \* values of maxConnectionsPerIP
  NoConn

ASSUME AcceptorAssumption ==
  /\ ClientLimits \in SUBSET (Nat \ {0})
  /\ IPLimits \in SUBSET (Nat \ {0})
  /\ NoConn \notin Conns

VARIABLES
  threadList,       \* as a set
  connectionsPerIP,
  maxClients, maxPerIP,
  finalized,
  listening,        \* the acceptor socket has not been shut down
  acceptor,         \* where the acceptor thread is
  current,          \* the connection processClient has in hand
  ip,               \* getRemotePair
  client,           \* where the thread of a connection is
  socket,           \* clientSocket: set, null, or set and shut down
  setter,           \* a setter has stored its value and must notify
  destructor

vars == <<threadList, connectionsPerIP, maxClients, maxPerIP, finalized, listening,
          acceptor, current, ip, client, socket, setter, destructor>>

Full == Cardinality(threadList) >= maxClients

Init ==
  /\ threadList = {}
  /\ connectionsPerIP = [i \in IPs |-> 0]
  /\ maxClients \in ClientLimits
  /\ maxPerIP \in IPLimits
  /\ finalized = FALSE
  /\ listening = TRUE
  /\ acceptor = "accept"
  /\ current = NoConn
  /\ ip \in [Conns -> IPs]
  /\ client = [c \in Conns |-> "none"]
  /\ socket = [c \in Conns |-> "null"]
  /\ setter = "idle"
  /\ destructor = "none"

Configuration == <<maxClients, maxPerIP, setter>>
Shutdown == <<finalized, listening, destructor>>

-----------------------------------------------------------------------------
(* The acceptor thread. *)

\* acceptClient
Accept(c) ==
  /\ acceptor = "accept"
  /\ listening
  /\ client[c] = "none"
  /\ client' = [client EXCEPT ![c] = "accepted"]
  /\ socket' = [socket EXCEPT ![c] = "open"]
  /\ current' = c
  /\ acceptor' = "process"
  /\ UNCHANGED <<threadList, connectionsPerIP, ip, Configuration, Shutdown>>

\* No connection: the thread ends, whatever the reason was.
AcceptFails ==
  /\ acceptor = "accept"
  /\ acceptor' = "ended"
  /\ UNCHANGED <<threadList, connectionsPerIP, current, ip, client, socket, Configuration, Shutdown>>

\* delete clientThread: the connection is closed.
Drop(next) ==
  /\ client' = [client EXCEPT ![current] = "gone"]
  /\ socket' = [socket EXCEPT ![current] = "null"]
  /\ current' = NoConn
  /\ acceptor' = next
  /\ UNCHANGED <<threadList, ip, Configuration, Shutdown>>

\* (Mutant) The address's count is not given back.
RejectCounts ==
  /\ connectionsPerIP' = [connectionsPerIP EXCEPT ![ip[current]] = @ + 1]
  /\ Drop("accept")

\* Too many connections of one address: counted, reported, given back.
Reject ==
  /\ Drop("accept")
  /\ UNCHANGED connectionsPerIP

Enter ==
  /\ connectionsPerIP' = [connectionsPerIP EXCEPT ![ip[current]] = @ + 1]
  /\ threadList' = threadList \cup {current}
  /\ client' = [client EXCEPT ![current] = "running"]
  /\ current' = NoConn
  /\ acceptor' = "accept"
  /\ UNCHANGED <<ip, socket, Configuration, Shutdown>>

\* After the loop that waits for room.
Admit ==
  \/ /\ finalized
     /\ Drop("ended")
     /\ UNCHANGED connectionsPerIP
  \/ /\ ~finalized
     /\ connectionsPerIP[ip[current]] + 1 > maxPerIP
     /\ Reject
  \/ /\ ~finalized
     /\ connectionsPerIP[ip[current]] + 1 <= maxPerIP
     /\ Enter

\* (Mutant) The loop is an if: one wait, and the client enters.
ProcessClientOnce ==
  \/ /\ acceptor = "process"
     /\ Full /\ ~finalized
     /\ acceptor' = "waitRoom"
     /\ UNCHANGED <<threadList, connectionsPerIP, current, ip, client, socket, Configuration, Shutdown>>
  \/ /\ acceptor = "process" => ~Full \/ finalized
     /\ acceptor \in {"process", "wokeRoom"}
     /\ Admit

\* processClient: wait while there is no room, then admit.
ProcessClient ==
  /\ acceptor \in {"process", "wokeRoom"}
  /\ \/ /\ Full /\ ~finalized
        /\ acceptor' = "waitRoom"
        /\ UNCHANGED <<threadList, connectionsPerIP, current, ip, client, socket, Configuration, Shutdown>>
     \/ /\ ~Full \/ finalized
        /\ Admit

\* The wait reports a timeout: the client is dropped without a look at the list.
WaitTimesOut ==
  /\ acceptor \in {"waitRoom", "wokeRoom"}
  /\ Drop("accept")
  /\ UNCHANGED connectionsPerIP

SpuriousWake ==
  /\ acceptor = "waitRoom"
  /\ acceptor' = "wokeRoom"
  /\ UNCHANGED <<threadList, connectionsPerIP, current, ip, client, socket, Configuration, Shutdown>>

NotifyNotFull(a) == IF a = "waitRoom" THEN "wokeRoom" ELSE a

-----------------------------------------------------------------------------
(* The thread of a connection: postInitConnection and finalizeThreadElement. *)

\* The callback (on connect, or on a failed initialisation) returns true, or there
\* is none: the socket stays with the thread.
CallbackReturns(c) ==
  /\ client[c] = "running"
  /\ client' = [client EXCEPT ![c] = "finalize"]
  /\ UNCHANGED <<threadList, connectionsPerIP, acceptor, current, ip, socket, Configuration, Shutdown>>

\* The callback returns false: the socket is another's.
CallbackTakesSocket(c) ==
  /\ client[c] = "running"
  /\ client' = [client EXCEPT ![c] = "finalize"]
  /\ socket' = [socket EXCEPT ![c] = "null"]
  /\ UNCHANGED <<threadList, connectionsPerIP, acceptor, current, ip, Configuration, Shutdown>>

\* (Mutant) The acceptor is woken only when the last client leaves.
FinalizeWakesLast(c) ==
  /\ client[c] = "finalize"
  /\ threadList' = threadList \ {c}
  /\ connectionsPerIP' = [connectionsPerIP EXCEPT ![ip[c]] = @ - 1]
  /\ client' = [client EXCEPT ![c] = "gone"]
  /\ socket' = [socket EXCEPT ![c] = "null"]
  /\ acceptor' = IF threadList' = {} THEN NotifyNotFull(acceptor) ELSE acceptor
  /\ destructor' = IF threadList' = {} /\ destructor = "waitEmpty" THEN "wokeEmpty" ELSE destructor
  /\ UNCHANGED <<current, ip, finalized, listening, Configuration>>

\* (Mutant) The destructor is woken by every client.
FinalizeWakesAlways(c) ==
  /\ client[c] = "finalize"
  /\ threadList' = threadList \ {c}
  /\ connectionsPerIP' = [connectionsPerIP EXCEPT ![ip[c]] = @ - 1]
  /\ client' = [client EXCEPT ![c] = "gone"]
  /\ socket' = [socket EXCEPT ![c] = "null"]
  /\ acceptor' = NotifyNotFull(acceptor)
  /\ destructor' = IF destructor = "waitEmpty" THEN "freed" ELSE destructor
  /\ UNCHANGED <<current, ip, finalized, listening, Configuration>>

FinalizeThreadElement(c) ==
  /\ client[c] = "finalize"
  /\ threadList' = threadList \ {c}
  /\ connectionsPerIP' = [connectionsPerIP EXCEPT ![ip[c]] = @ - 1]
  /\ client' = [client EXCEPT ![c] = "gone"]
  /\ socket' = [socket EXCEPT ![c] = "null"]
  /\ acceptor' = NotifyNotFull(acceptor)
  /\ destructor' = IF threadList' = {} /\ destructor = "waitEmpty" THEN "wokeEmpty" ELSE destructor
  /\ UNCHANGED <<current, ip, finalized, listening, Configuration>>

-----------------------------------------------------------------------------
(* The setters. *)

SetMaxConcurrentClients(n) ==
  /\ setter = "idle"
  /\ maxClients' = n
  /\ setter' = "notify"
  /\ UNCHANGED <<threadList, connectionsPerIP, maxPerIP, acceptor, current, ip, client, socket, Shutdown>>

\* notify_all, after unlock.
SetterNotifies ==
  /\ setter = "notify"
  /\ setter' = "idle"
  /\ acceptor' = NotifyNotFull(acceptor)
  /\ UNCHANGED <<threadList, connectionsPerIP, maxClients, maxPerIP, current, ip, client, socket, Shutdown>>

SetMaxConnectionsPerIP(n) ==
  /\ setter = "idle"
  /\ maxPerIP' = n
  /\ UNCHANGED <<threadList, connectionsPerIP, maxClients, setter, acceptor, current, ip, client,
                 socket, Shutdown>>

-----------------------------------------------------------------------------
(* stop and the destructor. *)

Stop ==
  /\ destructor = "none"
  /\ listening' = FALSE
  /\ destructor' = "finalize"
  /\ UNCHANGED <<threadList, connectionsPerIP, finalized, acceptor, current, ip, client, socket, Configuration>>

Finalize ==
  /\ destructor = "finalize"
  /\ finalized' = TRUE
  /\ destructor' = "notify"
  /\ UNCHANGED <<threadList, connectionsPerIP, listening, acceptor, current, ip, client, socket, Configuration>>

\* (Mutant) Nobody is told.
FinalizeNotifiesNobody ==
  /\ destructor = "notify"
  /\ destructor' = "join"
  /\ UNCHANGED <<threadList, connectionsPerIP, finalized, listening, acceptor, current, ip, client, socket,
                 Configuration>>

FinalizeNotifies ==
  /\ destructor = "notify"
  /\ acceptor' = NotifyNotFull(acceptor)
  /\ destructor' = "join"
  /\ UNCHANGED <<threadList, connectionsPerIP, finalized, listening, current, ip, client, socket, Configuration>>

JoinAcceptor ==
  /\ destructor = "join"
  /\ acceptor = "ended"
  /\ destructor' = "stopClients"
  /\ UNCHANGED <<threadList, connectionsPerIP, finalized, listening, acceptor, current, ip, client, socket,
                 Configuration>>

WaitEmpty == destructor' = IF threadList = {} THEN "freed" ELSE "waitEmpty"

\* A child whose callback took the socket has not left the list yet.
ChildWithoutSocket == \E c \in threadList : socket[c] = "null"

\* stopSocket on every client, which looks at no pointer, and the test, in one section.
StopClients ==
  /\ destructor = "stopClients"
  /\ socket' = [c \in Conns |-> IF c \in threadList /\ socket[c] = "open" THEN "shut" ELSE socket[c]]
  /\ IF ChildWithoutSocket THEN destructor' = "crashed" ELSE WaitEmpty
  /\ UNCHANGED <<threadList, connectionsPerIP, finalized, listening, acceptor, current, ip, client,
                 Configuration>>

WaitedEmpty ==
  /\ destructor = "wokeEmpty"
  /\ WaitEmpty
  /\ UNCHANGED <<threadList, connectionsPerIP, finalized, listening, acceptor, current, ip, client, socket,
                 Configuration>>

DestructorWakesSpuriously ==
  /\ destructor = "waitEmpty"
  /\ destructor' = "wokeEmpty"
  /\ UNCHANGED <<threadList, connectionsPerIP, finalized, listening, acceptor, current, ip, client, socket,
                 Configuration>>

-----------------------------------------------------------------------------
AcceptorStep ==
  \/ ~listening /\ AcceptFails
  \/ ProcessClient

DestructorStep ==
  Finalize \/ FinalizeNotifies \/ JoinAcceptor \/ StopClients \/ WaitedEmpty

\* Nobody calls the setters of an object whose destructor runs.
SetterStep ==
  \/ SetterNotifies
  \/ /\ destructor = "none"
     /\ \/ \E n \in ClientLimits : SetMaxConcurrentClients(n)
        \/ \E n \in IPLimits : SetMaxConnectionsPerIP(n)

Next ==
  \/ \E c \in Conns :
       Accept(c) \/ CallbackReturns(c) \/ CallbackTakesSocket(c) \/ FinalizeThreadElement(c)
  \/ AcceptFails \/ ProcessClient \/ WaitTimesOut \/ SpuriousWake
  \/ SetterStep
  \/ setter = "idle" /\ Stop
  \/ DestructorStep \/ DestructorWakesSpuriously

Spec == Init /\ [][Next]_vars

\* The threads run; accept fails on a socket that was shut down, and a callback
\* returns once its client's socket was.  A timeout need not elapse.
AcceptorFairness ==
  /\ WF_vars(AcceptorStep)
  /\ WF_vars(DestructorStep)
  /\ \A c \in Conns : WF_vars(socket[c] = "shut" /\ (CallbackReturns(c) \/ CallbackTakesSocket(c)))
  /\ \A c \in Conns : WF_vars(FinalizeThreadElement(c))

FairSpec == Spec /\ AcceptorFairness

-----------------------------------------------------------------------------
TypeOK ==
  /\ threadList \subseteq Conns
  /\ connectionsPerIP \in [IPs -> Nat]
  /\ maxClients \in ClientLimits
  /\ maxPerIP \in IPLimits
  /\ finalized \in BOOLEAN
  /\ listening \in BOOLEAN
  /\ acceptor \in {"accept", "process", "waitRoom", "wokeRoom", "ended"}
  /\ current \in Conns \cup {NoConn}
  /\ ip \in [Conns -> IPs]
  /\ client \in [Conns -> {"none", "accepted", "running", "finalize", "gone"}]
  /\ socket \in [Conns -> {"null", "open", "shut"}]
  /\ setter \in {"idle", "notify"}
  /\ destructor \in {"none", "finalize", "notify", "join", "stopClients", "waitEmpty", "wokeEmpty", "freed",
                   "crashed"}

\* The counts by address are those of the clients in the list, through refusals,
\* timeouts and departures: decrementIPUsage never finds an address it does not
\* know ("decrement ip usage, but never incremented before") and no address is
\* refused for connections that are gone.
CountsAreOfTheList ==
  \A i \in IPs : connectionsPerIP[i] = Cardinality({c \in threadList : ip[c] = i})

\* No more clients than the highest limit ever set, in all or of one address.
LimitsRespected ==
  /\ \E n \in ClientLimits : Cardinality(threadList) <= n
  /\ \A i \in IPs : \E n \in IPLimits : connectionsPerIP[i] <= n

\* The acceptor never sleeps beside room for its client: whoever makes room, raises
\* the limit or ends the object wakes it.
NoLostRoom ==
  acceptor = "waitRoom" => (Full /\ ~finalized) \/ setter = "notify" \/ destructor = "notify"

\* Both: what the acceptor takes for room is room, and it never misses any.
RoomIsKnown == CountsAreOfTheList /\ NoLostRoom

\* When the destructor frees the object no thread that uses it is left, and no
\* connection is without an owner.
FreedLast ==
  destructor = "freed" =>
    /\ acceptor = "ended"
    /\ threadList = {}
    /\ \A c \in Conns : client[c] \in {"none", "gone"} /\ socket[c] = "null"

\* The destructor returns, however many clients there are and wherever the
\* acceptor waits, unless it dies on the null pointer of a child whose callback
\* took the socket: nothing else ends it, and nothing keeps it waiting.
DestructorReturns == destructor = "finalize" ~> destructor \in {"freed", "crashed"}

\* What the header says of the timeout: "max concurrent clients reached and timed
\* out".  A client is dropped for want of room only when there is none.
TimesOutWhenFull ==
  [][LET dropped == current # NoConn /\ client'[current] = "gone"
         refused == finalized \/ connectionsPerIP[ip[current]] >= maxPerIP
     IN  dropped /\ ~refused => Full]_vars

\* The destructor calls stopSocket on "every child thread": each has a socket.
ChildrenHaveSockets == destructor = "stopClients" => ~ChildWithoutSocket
=============================================================================
