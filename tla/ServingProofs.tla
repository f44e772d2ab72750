---------------------------- MODULE ServingProofs ----------------------------
(***************************************************************************)
(* What the services run over, each part with its own invariant: the       *)
(* connections of an acceptor are counted, stopped and freed (Acceptor),   *)
(* the clients of the pooled one are settled (PoolAcceptor), a method runs *)
(* by right (Methods), a client application runs on what it saved          *)
(* (RpcClient), of two programs that run the challenge only those with the *)
(* same key go on (RemoteLogin), and what crosses a bridge arrives         *)
(* (Bridge).                                                               *)
(***************************************************************************)
EXTENDS Acceptor, PoolAcceptor, Methods, RpcClient, RemoteLogin, Bridge, WellFoundedInduction,
        FiniteSetTheorems, TLAPS

-----------------------------------------------------------------------------
(* Acceptor.  The list, the counts by address, the connection in the       *)
(* acceptor's hand and the sockets are kept by four kinds of thread.       *)
(* Placed says where a connection is, InOrder what the destructor's place  *)
(* tells of the others.                                                    *)

\* The connections of an address that are in the list.
ListedOf(i) == {c \in threadList : ip[c] = i}

\* A connection is in the acceptor's hand, or in the list with its thread, or nowhere;
\* only then has it no socket for certain.
Placed ==
  /\ IsFiniteSet(threadList)
  /\ \A c \in Conns : /\ c \in threadList <=> client[c] \in {"running", "finalize"}
                      /\ client[c] = "accepted" <=> c = current
                      /\ client[c] \in {"none", "gone"} => socket[c] = "null"
  /\ acceptor \in {"process", "waitRoom", "wokeRoom"} <=> current # NoConn

\* The destructor stops clients when no new one can come, and frees the object when
\* none is left.
InOrder ==
  /\ destructor \in {"stopClients", "waitEmpty", "wokeEmpty", "freed", "crashed"} => acceptor = "ended"
  /\ destructor = "freed" => threadList = {}

AcIInv == TypeOK /\ Placed /\ InOrder /\ CountsAreOfTheList /\ LimitsRespected /\ NoLostRoom

-----------------------------------------------------------------------------
LEMMA FromIsFinite ==
  ASSUME Placed, NEW i
  PROVE  IsFiniteSet(ListedOf(i)) /\ Cardinality(ListedOf(i)) \in Nat
<1>1. ListedOf(i) \in SUBSET threadList
  BY DEF ListedOf
<1>2. QED
  BY <1>1, FS_Subset, FS_CardinalityType DEF Placed

LEMMA InitIInv == Init => AcIInv
<1> SUFFICES ASSUME Init PROVE AcIInv
  OBVIOUS
<1>1. TypeOK
  BY DEF Init, TypeOK
<1>2. Placed /\ InOrder
  BY FS_EmptySet, AcceptorAssumption DEF Init, Placed, InOrder
<1>3. CountsAreOfTheList
  <2>1. \A i \in IPs : {c \in threadList : ip[c] = i} = {}
    BY DEF Init
  <2>2. QED
    BY <2>1, FS_EmptySet DEF Init, CountsAreOfTheList
<1>4. LimitsRespected
  <2>1. Cardinality(threadList) = 0 /\ \A i \in IPs : connectionsPerIP[i] = 0
    BY FS_EmptySet DEF Init
  <2>2. maxClients \in ClientLimits /\ maxPerIP \in IPLimits /\ maxClients >= 0 /\ maxPerIP >= 0
    BY AcceptorAssumption DEF Init
  <2>3. QED
    BY <2>1, <2>2 DEF LimitsRespected
<1>5. NoLostRoom
  BY DEF Init, NoLostRoom
<1>6. QED
  BY <1>1, <1>2, <1>3, <1>4, <1>5 DEF AcIInv

\* The steps that change neither the list nor the counts.
ListStays == UNCHANGED <<threadList, connectionsPerIP, ip>>

LEMMA QuietCounts ==
  ASSUME AcIInv, ListStays
  PROVE  CountsAreOfTheList' /\ LimitsRespected' /\ IsFiniteSet(threadList')
<1>1. \A i \in IPs : {c \in threadList' : ip'[c] = i} = {c \in threadList : ip[c] = i}
  BY DEF ListStays
<1>2. QED
  BY <1>1 DEF AcIInv, ListStays, CountsAreOfTheList, LimitsRespected, Placed

\* Where everything is after a step that leaves the list alone.
LEMMA QuietStep ==
  ASSUME AcIInv, Next, ListStays
  PROVE  TypeOK' /\ Placed' /\ InOrder' /\ NoLostRoom'
<1> USE AcceptorAssumption DEF AcIInv, ListStays, Configuration, Shutdown
<1>0. IsFiniteSet(threadList')
  BY QuietCounts
<1> DEFINE Goal == TypeOK' /\ Placed' /\ InOrder' /\ NoLostRoom'
<1>1. ASSUME NEW c \in Conns, Accept(c) PROVE Goal
  BY <1>0, <1>1 DEF Accept, TypeOK, Placed, InOrder, NoLostRoom
<1>2. ASSUME NEW next \in {"accept", "ended"}, acceptor \in {"process", "waitRoom", "wokeRoom"},
             Drop(next)
      PROVE  Goal
  BY <1>0, <1>2 DEF Drop, TypeOK, Placed, InOrder, NoLostRoom
<1>3. ASSUME acceptor \in {"process", "wokeRoom"}, Full, ~finalized, acceptor' = "waitRoom",
             UNCHANGED <<current, client, socket, Configuration, Shutdown>>
      PROVE  Goal
  BY <1>0, <1>3 DEF TypeOK, Placed, InOrder, NoLostRoom, Full
<1>4. ASSUME AcceptFails \/ SpuriousWake PROVE Goal
  BY <1>0, <1>4 DEF AcceptFails, SpuriousWake, TypeOK, Placed, InOrder, NoLostRoom, Full
<1>5. ASSUME NEW c \in Conns, CallbackReturns(c) \/ CallbackTakesSocket(c) PROVE Goal
  BY <1>0, <1>5 DEF CallbackReturns, CallbackTakesSocket, TypeOK, Placed, InOrder, NoLostRoom, Full
<1>6. ASSUME SetterStep PROVE Goal
  BY <1>0, <1>6 DEF SetterStep, SetterNotifies, SetMaxConcurrentClients, SetMaxConnectionsPerIP,
                    NotifyNotFull, TypeOK, Placed, InOrder, NoLostRoom, Full
<1>7. ASSUME Stop \/ Finalize PROVE Goal
  <2>1. CASE Stop
    <3>1. destructor # "notify" /\ destructor' = "finalize" /\ Full' = Full
      BY <1>7, <2>1 DEF Stop, Full
    <3>2. TypeOK' /\ Placed' /\ InOrder'
      BY <1>0, <2>1 DEF Stop, TypeOK, Placed, InOrder
    <3>3. NoLostRoom'
      BY <2>1, <3>1 DEF Stop, NoLostRoom
    <3>4. QED
      BY <3>2, <3>3
  <2>2. CASE Finalize
    <3>1. TypeOK' /\ Placed' /\ InOrder'
      BY <1>0, <2>2 DEF Finalize, TypeOK, Placed, InOrder
    <3>2. NoLostRoom'
      BY <2>2 DEF Finalize, NoLostRoom
    <3>3. QED
      BY <3>1, <3>2
  <2>3. QED
    BY <1>7, <2>1, <2>2
<1>8. ASSUME FinalizeNotifies \/ JoinAcceptor PROVE Goal
  BY <1>0, <1>8 DEF FinalizeNotifies, JoinAcceptor, NotifyNotFull, TypeOK, Placed, InOrder,
                    NoLostRoom, Full
<1>9. ASSUME StopClients \/ WaitedEmpty \/ DestructorWakesSpuriously PROVE Goal
  BY <1>0, <1>9 DEF StopClients, WaitedEmpty, DestructorWakesSpuriously, WaitEmpty, TypeOK, Placed,
                    InOrder, NoLostRoom, Full
<1>10. ASSUME ProcessClient PROVE Goal
  <2>1. CASE Full /\ ~finalized
    BY <1>3, <1>10, <2>1 DEF ProcessClient
  <2>2. CASE ~(Full /\ ~finalized)
    <3>1. ~Enter
      BY <1>10 DEF ProcessClient, Enter, Placed, TypeOK
    <3>2. QED
      BY <1>2, <1>10, <2>2, <3>1 DEF ProcessClient, Admit, Reject
  <2>3. QED
    BY <2>1, <2>2
<1>11. ASSUME WaitTimesOut PROVE Goal
  BY <1>2, <1>11 DEF WaitTimesOut
<1>12. ASSUME NEW c \in Conns, FinalizeThreadElement(c) PROVE Goal
  BY <1>12 DEF FinalizeThreadElement, Placed
<1>13. QED
  BY <1>1, <1>4, <1>5, <1>6, <1>7, <1>8, <1>9, <1>10, <1>11, <1>12 DEF Next, DestructorStep

\* A client enters the list.
LEMMA EnterStep ==
  ASSUME AcIInv, Enter, acceptor \in {"process", "wokeRoom"}, ~Full, ~finalized,
         connectionsPerIP[ip[current]] + 1 <= maxPerIP
  PROVE  AcIInv'
<1> USE AcceptorAssumption DEF AcIInv, Configuration, Shutdown
<1>1. PICK c \in Conns, i \in IPs : c = current /\ i = ip[c]
  BY DEF Placed, TypeOK
<1>2. /\ connectionsPerIP' = [connectionsPerIP EXCEPT ![i] = @ + 1]
      /\ threadList' = threadList \cup {c}
      /\ client' = [client EXCEPT ![c] = "running"]
      /\ current' = NoConn /\ acceptor' = "accept"
      /\ UNCHANGED <<ip, socket, maxClients, maxPerIP, setter, finalized, listening, destructor>>
      /\ c \notin threadList
  BY <1>1 DEF Enter, Placed
<1>3. IsFiniteSet(threadList') /\ Cardinality(threadList') = Cardinality(threadList) + 1
      /\ Cardinality(threadList) \in Nat
  BY <1>2, FS_AddElement, FS_CardinalityType DEF Placed
<1>4. TypeOK'
  BY <1>2 DEF TypeOK
<1>5. Placed' /\ InOrder' /\ NoLostRoom'
  <2>1. \A d \in Conns : d # c => client'[d] = client[d] /\ (client[d] # "accepted")
    BY <1>1, <1>2 DEF Placed, TypeOK
  <2>2. client'[c] = "running" /\ c \in threadList' /\ NoConn # c
    BY <1>2 DEF TypeOK
  <2>3. Placed'
    BY <1>2, <1>3, <2>1, <2>2 DEF Placed
  <2>4. InOrder' /\ NoLostRoom'
    BY <1>2 DEF InOrder, NoLostRoom
  <2>5. QED
    BY <2>3, <2>4
<1>6. ASSUME NEW j \in IPs PROVE connectionsPerIP'[j] = Cardinality(ListedOf(j)')
  <2>1. CASE j = i
    <3>1. ListedOf(j)' = ListedOf(j) \cup {c} /\ c \notin ListedOf(j)
      BY <1>1, <1>2, <2>1 DEF ListedOf, TypeOK
    <3>2. Cardinality(ListedOf(j)') = Cardinality(ListedOf(j)) + 1
      BY <3>1, FromIsFinite, FS_AddElement
    <3>3. QED
      BY <1>2, <2>1, <3>2 DEF CountsAreOfTheList, ListedOf, TypeOK
  <2>2. CASE j # i
    <3>1. ListedOf(j)' = ListedOf(j)
      BY <1>1, <1>2, <2>2 DEF ListedOf, TypeOK
    <3>2. QED
      BY <1>2, <2>2, <3>1 DEF CountsAreOfTheList, ListedOf, TypeOK
  <2>3. QED
    BY <2>1, <2>2
<1>7. LimitsRespected'
  <2>1. Cardinality(threadList') <= maxClients /\ maxClients \in ClientLimits
    BY <1>3 DEF Full, TypeOK
  <2>2. connectionsPerIP'[i] <= maxPerIP /\ maxPerIP \in IPLimits
    BY <1>1, <1>2 DEF TypeOK
  <2>3. QED
    BY <1>2, <2>1, <2>2 DEF LimitsRespected, TypeOK
<1>8. QED
  BY <1>4, <1>5, <1>6, <1>7 DEF CountsAreOfTheList, ListedOf

\* A client leaves the list, and its address's count goes down.
LEMMA LeaveStep ==
  ASSUME AcIInv, NEW c \in Conns, FinalizeThreadElement(c)
  PROVE  AcIInv'
<1> USE AcceptorAssumption DEF AcIInv, Configuration, Shutdown
<1>1. PICK i \in IPs : i = ip[c]
  BY DEF TypeOK
<1>2. /\ connectionsPerIP' = [connectionsPerIP EXCEPT ![i] = @ - 1]
      /\ threadList' = threadList \ {c}
      /\ client[c] = "finalize" /\ client' = [client EXCEPT ![c] = "gone"]
      /\ socket' = [socket EXCEPT ![c] = "null"]
      /\ UNCHANGED <<current, ip, maxClients, maxPerIP, setter, finalized, listening>>
      /\ c \in threadList
  BY <1>1 DEF FinalizeThreadElement, Placed
<1>3. /\ IsFiniteSet(threadList') /\ Cardinality(threadList') = Cardinality(threadList) - 1
      /\ Cardinality(threadList) \in Nat
  BY <1>2, FS_RemoveElement, FS_CardinalityType DEF Placed
<1>4. ASSUME NEW j \in IPs PROVE connectionsPerIP'[j] = Cardinality(ListedOf(j)')
  <2>1. CASE j = i
    <3>1. ListedOf(j)' = ListedOf(j) \ {c} /\ c \in ListedOf(j)
      BY <1>1, <1>2, <2>1 DEF ListedOf, TypeOK
    <3>2. Cardinality(ListedOf(j)') = Cardinality(ListedOf(j)) - 1
      BY <3>1, FromIsFinite, FS_RemoveElement
    <3>3. QED
      BY <1>2, <2>1, <3>2 DEF CountsAreOfTheList, ListedOf, TypeOK
  <2>2. CASE j # i
    <3>1. ListedOf(j)' = ListedOf(j)
      BY <1>1, <1>2, <2>2 DEF ListedOf, TypeOK
    <3>2. QED
      BY <1>2, <2>2, <3>1 DEF CountsAreOfTheList, ListedOf, TypeOK
  <2>3. QED
    BY <2>1, <2>2
<1>5. \A j \in IPs : connectionsPerIP'[j] \in Nat /\ connectionsPerIP'[j] <= connectionsPerIP[j]
  <2>1. Placed'
    BY <1>2, <1>3 DEF FinalizeThreadElement, NotifyNotFull, Placed, TypeOK
  <2>2. \A j \in IPs : Cardinality(ListedOf(j)') \in Nat
    <3> SUFFICES ASSUME NEW j \in IPs PROVE Cardinality(ListedOf(j)') \in Nat
      OBVIOUS
    <3>1. ListedOf(j)' \in SUBSET threadList'
      BY DEF ListedOf
    <3>2. QED
      BY <1>3, <3>1, FS_Subset, FS_CardinalityType
  <2>3. QED
    BY <1>2, <1>4, <2>2 DEF TypeOK
<1>6. TypeOK'
  BY <1>2, <1>5 DEF FinalizeThreadElement, NotifyNotFull, TypeOK
<1>7. Placed' /\ InOrder'
  BY <1>2, <1>3 DEF FinalizeThreadElement, NotifyNotFull, Placed, InOrder, TypeOK
<1>8. NoLostRoom'
  BY <1>2 DEF FinalizeThreadElement, NotifyNotFull, NoLostRoom, TypeOK
<1>9. LimitsRespected'
  <2>1. PICK n \in ClientLimits : Cardinality(threadList) <= n
    BY DEF LimitsRespected
  <2>2. Cardinality(threadList') <= n
    BY <1>3, <2>1
  <2>3. ASSUME NEW j \in IPs PROVE \E m \in IPLimits : connectionsPerIP'[j] <= m
    <3>1. PICK m \in IPLimits : connectionsPerIP[j] <= m
      BY DEF LimitsRespected
    <3>2. connectionsPerIP'[j] <= m
      BY <1>5, <3>1 DEF TypeOK
    <3>3. QED
      BY <3>2
  <2>4. QED
    BY <2>2, <2>3 DEF LimitsRespected
<1>10. QED
  BY <1>4, <1>6, <1>7, <1>8, <1>9 DEF CountsAreOfTheList, ListedOf

LEMMA StepIInv == AcIInv /\ [Next]_vars => AcIInv'
<1> SUFFICES ASSUME AcIInv, [Next]_vars PROVE AcIInv'
  OBVIOUS
<1>1. CASE UNCHANGED vars
  BY <1>1 DEF vars, AcIInv, TypeOK, Placed, InOrder, CountsAreOfTheList, LimitsRespected, NoLostRoom, Full
<1>2. CASE Next /\ ListStays
  BY <1>2, QuietStep, QuietCounts DEF AcIInv
<1>3. CASE Next /\ ~ListStays
  <2>1. \/ \E c \in Conns : FinalizeThreadElement(c)
        \/ ProcessClient /\ Enter /\ ~(Full /\ ~finalized) /\ ~finalized
             /\ connectionsPerIP[ip[current]] + 1 <= maxPerIP
    <3>1. ASSUME NEW c \in Conns, Accept(c) \/ CallbackReturns(c) \/ CallbackTakesSocket(c) PROVE ListStays
      BY <3>1 DEF Accept, CallbackReturns, CallbackTakesSocket, ListStays
    <3>2. ASSUME AcceptFails \/ WaitTimesOut \/ SpuriousWake PROVE ListStays
      BY <3>2 DEF AcceptFails, WaitTimesOut, Drop, SpuriousWake, ListStays
    <3>3. ASSUME SetterStep \/ Stop \/ DestructorStep \/ DestructorWakesSpuriously PROVE ListStays
      BY <3>3 DEF SetterStep, SetterNotifies, SetMaxConcurrentClients, SetMaxConnectionsPerIP, Stop,
                  DestructorStep, Finalize, FinalizeNotifies, JoinAcceptor, StopClients, WaitedEmpty,
                  DestructorWakesSpuriously, ListStays
    <3>4. ASSUME ProcessClient
          PROVE  \/ ListStays
                 \/ Enter /\ ~(Full /\ ~finalized) /\ ~finalized
                      /\ connectionsPerIP[ip[current]] + 1 <= maxPerIP
      BY <3>4 DEF ProcessClient, Admit, Reject, Drop, ListStays
    <3>5. QED
      BY <1>3, <3>1, <3>2, <3>3, <3>4 DEF Next
  <2>2. QED
    BY <2>1, EnterStep, LeaveStep DEF ProcessClient
<1>4. QED
  BY <1>1, <1>2, <1>3

LEMMA Invariance == Spec => []AcIInv
BY InitIInv, StepIInv, PTL DEF Spec

\* The variables of the acceptor keep their types.
THEOREM TypeCorrect == Spec => []TypeOK
<1>1. AcIInv => TypeOK
  BY DEF AcIInv
<1>2. QED
  BY <1>1, Invariance, PTL

\* connectionsPerIP counts the clients of the list by address, through refusals,
\* timeouts and departures: decrementIPUsage always finds its address.
THEOREM CountsAreRight == Spec => []CountsAreOfTheList
<1>1. AcIInv => CountsAreOfTheList
  BY DEF AcIInv
<1>2. QED
  BY <1>1, Invariance, PTL

\* No more clients at a time than the highest limit set, in all or of one address.
THEOREM LimitsHold == Spec => []LimitsRespected
<1>1. AcIInv => LimitsRespected
  BY DEF AcIInv
<1>2. QED
  BY <1>1, Invariance, PTL

\* The acceptor does not sleep beside room for its client: finalizeThreadElement,
\* the setters and the destructor wake it.
THEOREM NoWakeUpIsLost == Spec => []NoLostRoom
<1>1. AcIInv => NoLostRoom
  BY DEF AcIInv
<1>2. QED
  BY <1>1, Invariance, PTL

\* Both: the room that the acceptor counts is the room there is, and it misses none.
THEOREM RoomIsAlwaysKnown == Spec => []RoomIsKnown
<1>1. AcIInv => RoomIsKnown
  BY DEF AcIInv, RoomIsKnown
<1>2. QED
  BY <1>1, Invariance, PTL

\* The destructor frees the object after the acceptor and every client thread.
THEOREM FreedAfterAll == Spec => []FreedLast
<1>1. AcIInv => FreedLast
  BY AcceptorAssumption DEF AcIInv, FreedLast, InOrder, Placed, TypeOK
<1>2. QED
  BY <1>1, Invariance, PTL

-----------------------------------------------------------------------------
(* PoolAcceptor.  ClientsSettled is about sockets and tasks at once; that  *)
(* a task's end settles its socket needs that a client without a task is   *)
(* the one the loop is about to push; when the pool is gone, the one task  *)
(* that may be left in it is of the push that outlived its stop.           *)

Told == {{}, {"timed out"}, {"connected"}, {"failed"}}
PaTypes ==
  /\ loop \in {"off", "accepting", "pushing", "leaving", "ended"}
  /\ fate \in [Clients -> {"new", "accepted", "running", "finished", "refused"}]
  /\ socketOf \in [Clients -> [socket : {"outside", "task", "freed", "kept"}, told : Told]]
  /\ holder \in {"uses it", "waits for the pool", "frees the listener"}
  /\ loop = "pushing" => accepted \in Clients

FateOfSocket ==
  \A c \in Clients :
    /\ socketOf[c].socket = "outside" => fate[c] = "new"
    /\ socketOf[c].socket = "task" => \/ fate[c] \in {"accepted", "running"}
                                      \/ fate[c] = "new" /\ loop = "pushing" /\ accepted = c
    /\ socketOf[c].socket \in {"freed", "kept"} => fate[c] \in {"refused", "finished"}
    /\ fate[c] \notin {"refused", "finished"} => socketOf[c].told = {}
    /\ loop = "pushing" /\ accepted = c => fate[c] = "new" /\ socketOf[c].socket = "task"

OwnerWaits ==
  /\ loop = "off" => \A c \in Clients : fate[c] = "new"
  /\ holder = "frees the listener" => \A c \in Clients : fate[c] # "running" /\ (fate[c] = "accepted" => c = late)

PaInv == PaTypes /\ FateOfSocket /\ OwnerWaits

LEMMA PaInitInv == PaInit => PaInv
<1> SUFFICES ASSUME PaInit PROVE PaInv
  OBVIOUS
<1>1. socketOf \in [Clients -> [socket : {"outside", "task", "freed", "kept"}, told : Told]]
  BY DEF PaInit, Outside, Told
<1>2. \A c \in Clients : socketOf[c].socket = "outside" /\ socketOf[c].told = {} /\ fate[c] = "new"
  BY DEF PaInit, Outside, Pool!Init
<1>3. PaTypes
  BY <1>1 DEF PaInit, PaTypes, Pool!Init
<1>4. FateOfSocket /\ OwnerWaits
  BY <1>2 DEF PaInit, FateOfSocket, OwnerWaits
<1>5. QED
  BY <1>3, <1>4 DEF PaInv

LEMMA PaStepInv == PaInv /\ [PaNext]_avars => PaInv'
<1> SUFFICES ASSUME PaInv, [PaNext]_avars PROVE PaInv'
  OBVIOUS
<1> USE PoolAcceptorAssumption DEF PaInv
<1>1. CASE run \/ AcceptsNone \/ LeavesLoop
  BY <1>1 DEF run, AcceptsNone, LeavesLoop, Defined, PaTypes, FateOfSocket, OwnerWaits
<1>2. CASE stop \/ PoolDestroys \/ PoolGone
  BY <1>2 DEF stop, PoolDestroys, PoolGone, PaTypes, FateOfSocket, OwnerWaits
<1>3. CASE Pushes
  <2>1. PaTypes'
    BY <1>3 DEF Pushes, Pool!Accept, Pool!Move, PaTypes
  <2>2. FateOfSocket'
    BY <1>3 DEF Pushes, Pool!Accept, Pool!Move, PaTypes, FateOfSocket
  <2>3. OwnerWaits'
    BY <1>3 DEF Pushes, Defined, OwnerWaits
  <2>4. QED
    BY <2>1, <2>2, <2>3
<1>4. CASE TimesOut
  <2>1. /\ loop = "pushing" /\ accepted \in Clients /\ fate[accepted] = "new"
        /\ fate' = [fate EXCEPT ![accepted] = "refused"]
        /\ loop' = "accepting" /\ UNCHANGED holder /\ holder # "frees the listener"
    BY <1>4 DEF TimesOut, Defined, Pool!Refuse, Pool!Move, PaTypes
  <2>2. socketOf' = [socketOf EXCEPT ![accepted] = [socket |-> "freed", told |-> {"timed out"}]]
    <3>1. socketOf[accepted].told = {}
      BY <2>1 DEF FateOfSocket
    <3>2. socketOf[accepted].told \cup {"timed out"} = {"timed out"}
      BY <3>1
    <3>3. QED
      BY <1>4, <3>2 DEF TimesOut
  <2>3. [socket |-> "freed", told |-> {"timed out"}] \in [socket : {"outside", "task", "freed", "kept"}, told : Told]
    BY DEF Told
  <2>4. socketOf' \in [Clients -> [socket : {"outside", "task", "freed", "kept"}, told : Told]]
    BY <2>1, <2>2, <2>3 DEF PaTypes
  <2>5. PaTypes'
    BY <2>1, <2>4 DEF PaTypes
  <2>6. \A c \in Clients :
            /\ fate'[c] = IF c = accepted THEN "refused" ELSE fate[c]
            /\ socketOf'[c].socket = IF c = accepted THEN "freed" ELSE socketOf[c].socket
            /\ c # accepted => socketOf'[c].told = socketOf[c].told
    BY <2>1, <2>2 DEF PaTypes
  <2>7. FateOfSocket'
    BY <2>1, <2>6 DEF FateOfSocket
  <2>8. OwnerWaits'
    BY <2>1 DEF OwnerWaits
  <2>9. QED
    BY <2>5, <2>7, <2>8
<1>5. ASSUME NEW c \in Clients, Accepts(c) PROVE PaInv'
  <2>1. /\ loop = "accepting" /\ loop' = "pushing" /\ accepted' = c /\ UNCHANGED <<fate, holder, late>>
        /\ socketOf[c].socket = "outside"
        /\ socketOf' = [socketOf EXCEPT ![c] = [socketOf[c] EXCEPT !.socket = "task"]]
    BY <1>5 DEF Accepts
  <2>2. socketOf[c] \in [socket : {"outside", "task", "freed", "kept"}, told : Told]
    BY DEF PaTypes
  <2>3. [socketOf[c] EXCEPT !.socket = "task"] \in [socket : {"outside", "task", "freed", "kept"}, told : Told]
    BY <2>2
  <2>4. PaTypes'
    BY <2>1, <2>3 DEF PaTypes
  <2>5. \A d \in Clients : /\ socketOf'[d].socket = IF d = c THEN "task" ELSE socketOf[d].socket
                           /\ socketOf'[d].told = socketOf[d].told
    BY <2>1, <2>2 DEF PaTypes
  <2>6. FateOfSocket'
    BY <2>1, <2>5 DEF FateOfSocket
  <2>7. OwnerWaits'
    BY <2>1 DEF OwnerWaits
  <2>8. QED
    BY <2>4, <2>6, <2>7
<1>6. ASSUME NEW c \in Clients, acceptorTask(c) PROVE PaInv'
  <2>1. PaTypes'
    BY <1>6 DEF acceptorTask, Pool!Start, Pool!Move, PaTypes
  <2>2. FateOfSocket'
    BY <1>6 DEF acceptorTask, Pool!Start, Pool!Move, PaTypes, FateOfSocket
  <2>3. OwnerWaits'
    BY <1>6 DEF acceptorTask, Defined, Pool!Start, Pool!Move, PaTypes, FateOfSocket, OwnerWaits
  <2>4. QED
    BY <2>1, <2>2, <2>3
<1>7. ASSUME NEW c \in Clients, TaskEnds(c) PROVE PaInv'
  <2>1. fate[c] = "running" /\ fate' = [fate EXCEPT ![c] = "finished"] /\ UNCHANGED <<loop, accepted, listener, holder, late>>
    BY <1>7 DEF TaskEnds, Pool!Finish, Pool!Move
  <2>2. socketOf[c].socket \notin {"outside"} /\ socketOf[c].told = {}
    BY <2>1 DEF FateOfSocket
  <2>3. PICK end \in {"freed", "kept"}, told \in Told :
            socketOf' = [socketOf EXCEPT ![c] = [socket |-> end, told |-> told]]
    <3>1. socketOf[c] \in [socket : {"outside", "task", "freed", "kept"}, told : Told]
      BY DEF PaTypes
    <3>2. PICK greeted \in BOOLEAN, callback \in BOOLEAN, answer \in BOOLEAN :
              socketOf' = [socketOf EXCEPT ![c] =
                  IF callback THEN [socket |-> Kept(answer),
                                    told |-> socketOf[c].told \cup {IF greeted THEN "connected" ELSE "failed"}]
                  ELSE [socketOf[c] EXCEPT !.socket = "freed"]]
      BY <1>7 DEF TaskEnds
    <3>3. CASE callback
      <4>1. Kept(answer) \in {"freed", "kept"}
        BY DEF Kept
      <4>2. {} \cup {IF greeted THEN "connected" ELSE "failed"} \in Told
        BY DEF Told
      <4>3. QED
        BY <2>2, <3>2, <3>3, <4>1, <4>2
    <3>4. CASE ~callback
      <4>1. [socketOf[c] EXCEPT !.socket = "freed"] = [socket |-> "freed", told |-> socketOf[c].told]
        BY <3>1
      <4>2. QED
        BY <3>1, <3>2, <3>4, <4>1
    <3>5. QED
      BY <3>3, <3>4
  <2>4. PaTypes'
    BY <2>1, <2>3 DEF PaTypes
  <2>5. FateOfSocket'
    BY <2>1, <2>3 DEF PaTypes, FateOfSocket
  <2>6. OwnerWaits'
    BY <2>1 DEF PaTypes, OwnerWaits
  <2>7. QED
    BY <2>4, <2>5, <2>6
<1>8. CASE UNCHANGED avars
  BY <1>8 DEF avars, PaTypes, FateOfSocket, OwnerWaits
<1>9. QED
  BY <1>1, <1>2, <1>3, <1>4, <1>5, <1>6, <1>7, <1>8 DEF PaNext

\* Each client of the pooled acceptor is told once at most, and its socket goes with its task, wherever the loop is
\* when the acceptor is destroyed: only the client that it was pushing then may be left with its socket.
THEOREM ClientsAreSettled == PaSpec => []ClientsSettled
<1>1. ASSUME PaInv PROVE ClientsSettled
  <2> SUFFICES ASSUME NEW c \in Clients
               PROVE  /\ Cardinality(socketOf[c].told) <= 1
                      /\ socketOf[c].socket \in {"freed", "kept"} <=> fate[c] \in {"refused", "finished"}
                      /\ holder = "frees the listener" /\ socketOf[c].socket = "task" => c \in {late, accepted}
    BY DEF ClientsSettled
  <2>1. socketOf[c].told \in Told /\ socketOf[c].socket \in {"outside", "task", "freed", "kept"}
    BY <1>1 DEF PaInv, PaTypes
  <2>2. \A told \in Told : Cardinality(told) \in {0, 1}
    <3>1. Cardinality({}) = 0
      BY FS_EmptySet
    <3>2. Cardinality({"timed out"}) = 1 /\ Cardinality({"connected"}) = 1 /\ Cardinality({"failed"}) = 1
      BY FS_Singleton
    <3>3. QED
      BY <3>1, <3>2 DEF Told
  <2>3. Cardinality(socketOf[c].told) <= 1
    BY <2>1, <2>2
  <2>4. QED
    BY <1>1, <2>1, <2>3 DEF PaInv, FateOfSocket, OwnerWaits
<1>2. PaSpec => []PaInv
  BY PaInitInv, PaStepInv, PTL DEF PaSpec
<1>3. QED
  BY <1>1, <1>2, PTL

-----------------------------------------------------------------------------
(* Methods.  A request looks at the account and the session several times  *)
(* and runs its method later.  Tracked says that what stands now of either *)
(* is part of what the request has seen stand, Looked that of what its     *)
(* method asks for, all has been seen but what is still to be looked at.   *)

Execs == [stage : {"idle", "extra", "super", "left"}, method : DOMAIN Table \cup {"none"},
          extra : SUBSET Indexes, factors : SUBSET Indexes, attribs : SUBSET Attribs,
          super : BOOLEAN, had : SUBSET Attribs, held : SUBSET (Indexes \X (Reasons \cup {"NONE"}))]

MethodTypes ==
  /\ clock \in Nat
  /\ rights \in [super : BOOLEAN, attribs : SUBSET Attribs]
  /\ factors \in [Indexes -> [reason : Reasons \cup {"NONE"}, at : Nat]] /\ proofs = factors
  /\ exec \in [Handlers -> Execs]

Valid(i) == getIdxAuthenticationStatus(i) \in Fine

Tracked(h) ==
  /\ exec[h].method \in DOMAIN Table
  /\ rights.attribs \subseteq exec[h].had /\ (rights.super => exec[h].super)
  /\ \A i \in Indexes : Valid(i) => <<i, factors[i].reason>> \in exec[h].held

FullOf(e) == Table[e.method].full => \A i \in Required : Held(e.held, i, {"AUTHENTICATED"})

RightOf(e) ==
  \/ e.super
  \/ /\ \A i \in getMethodPassIndexes(e.method) : i \in e.factors \cup e.extra \/ Held(e.held, i, Fine)
     /\ Table[e.method].attribs \subseteq e.attribs \cup e.had

Looked(h) ==
  /\ exec[h].stage # "idle" => Tracked(h)
  /\ exec[h].stage \in {"super", "left"} => FullOf(exec[h])
  /\ exec[h].stage = "left" => RightOf(exec[h])

MethodsInv == MethodTypes /\ (\A h \in Handlers : Looked(h)) /\ RanByRight

LEMMA MethodsInitInv == MethodsInit => MethodsInv
BY DEF MethodsInit, MethodsInv, MethodTypes, Execs, Looked, RanByRight, NoFactors, NotRun, NoExec, Fine, Reasons

LEMMA ReasonIsStatus ==
  ASSUME NEW i \in Indexes, Valid(i)
  PROVE  factors[i].reason \in Fine /\ getIdxAuthenticationStatus(i) = factors[i].reason
BY DEF Valid, getIdxAuthenticationStatus, Fine

\* A request that was tracked still is when it has seen all that is new.
LEMMA StillTracked ==
  ASSUME NEW h \in Handlers, exec[h].stage # "idle" => Tracked(h), exec'[h].stage # "idle" => exec[h].stage # "idle",
         exec'[h].stage # "idle" =>
           /\ exec'[h].method = exec[h].method
           /\ rights'.attribs \subseteq rights.attribs \cup exec'[h].had /\ (rights'.super => rights.super \/ exec'[h].super)
           /\ exec[h].had \subseteq exec'[h].had /\ (exec[h].super => exec'[h].super)
           /\ exec[h].held \subseteq exec'[h].held
           /\ \A i \in Indexes : Valid(i)' => \/ Valid(i) /\ factors'[i] = factors[i]
                                              \/ <<i, factors'[i].reason>> \in exec'[h].held
  PROVE  exec'[h].stage # "idle" => Tracked(h)'
<1> SUFFICES ASSUME exec'[h].stage # "idle" PROVE Tracked(h)'
  OBVIOUS
<1>1. Tracked(h)
  OBVIOUS
<1>2. \A i \in Indexes : Valid(i)' => <<i, factors'[i].reason>> \in exec'[h].held
  BY <1>1 DEF Tracked
<1>3. QED
  BY <1>1, <1>2 DEF Tracked

\* What a request has seen, it has seen for good.
LEMMA StillLooked ==
  ASSUME NEW e, NEW f, f.method = e.method, f.factors = e.factors, f.attribs = e.attribs, f.extra = e.extra,
         e.super => f.super, e.had \subseteq f.had, e.held \subseteq f.held
  PROVE  (FullOf(e) => FullOf(f)) /\ (RightOf(e) => RightOf(f))
<1>1. \A i, reasons : Held(e.held, i, reasons) => Held(f.held, i, reasons)
  BY DEF Held
<1>2. FullOf(e) => FullOf(f)
  BY <1>1 DEF FullOf
<1>3. RightOf(e) => RightOf(f)
  BY <1>1 DEF RightOf
<1>4. QED
  BY <1>2, <1>3

\* The account, the session and the time go on, and no request does.
LEMMA OthersKeep ==
  ASSUME MethodTypes, \A h \in Handlers : Looked(h), Quiet
  PROVE  MethodTypes' /\ \A h \in Handlers : Looked(h)'
<1>1. ASSUME NEW i \in Indexes, NEW reason \in Reasons, registerPersistentAuthentication(i, reason)
      PROVE  MethodTypes' /\ \A h \in Handlers : Looked(h)'
  <2>1. /\ factors' = [factors EXCEPT ![i] = [reason |-> reason, at |-> clock]] /\ clock' = clock /\ rights' = rights
        /\ proofs' = [proofs EXCEPT ![i] = [reason |-> reason, at |-> clock]]
        /\ exec' = [h \in Handlers |-> IF exec[h].stage = "idle" THEN exec[h]
                                       ELSE [exec[h] EXCEPT !.held = @ \cup {<<i, reason>>}]]
    BY <1>1 DEF registerPersistentAuthentication, Stands
  <2>2. MethodTypes'
    <3>1. factors' \in [Indexes -> [reason : Reasons \cup {"NONE"}, at : Nat]] /\ proofs' = factors'
      BY <2>1 DEF MethodTypes
    <3>2. \A h \in Handlers : exec[h] \in Execs /\ <<i, reason>> \in Indexes \X (Reasons \cup {"NONE"})
      BY DEF MethodTypes
    <3>3. \A h \in Handlers : [exec[h] EXCEPT !.held = @ \cup {<<i, reason>>}] \in Execs
      BY <3>2 DEF Execs
    <3>4. QED
      BY <2>1, <3>1, <3>2, <3>3 DEF MethodTypes
  <2>3. ASSUME NEW h \in Handlers PROVE Looked(h)'
    <3>1. CASE exec[h].stage = "idle"
      BY <2>1, <3>1 DEF Looked, MethodTypes
    <3>2. CASE exec[h].stage # "idle"
      <4>1. /\ exec'[h].stage = exec[h].stage /\ exec'[h].method = exec[h].method /\ exec'[h].extra = exec[h].extra
            /\ exec'[h].factors = exec[h].factors /\ exec'[h].attribs = exec[h].attribs
            /\ exec'[h].super = exec[h].super /\ exec'[h].had = exec[h].had
            /\ exec'[h].held = exec[h].held \cup {<<i, reason>>}
        BY <2>1, <3>2 DEF MethodTypes, Execs
      <4>2. \A j \in Indexes : Valid(j)' => \/ Valid(j) /\ factors'[j] = factors[j]
                                           \/ <<j, factors'[j].reason>> \in exec'[h].held
        BY <2>1, <4>1 DEF MethodTypes, Valid, getIdxAuthenticationStatus
      <4>3. exec'[h].stage # "idle" => Tracked(h)'
        BY <2>1, <3>2, <4>1, <4>2, StillTracked DEF Looked
      <4>4. (FullOf(exec[h]) => FullOf(exec'[h])) /\ (RightOf(exec[h]) => RightOf(exec'[h]))
        BY <4>1, StillLooked
      <4>5. QED
        BY <4>1, <4>3, <4>4 DEF Looked, FullOf, RightOf
    <3>3. QED
      BY <3>1, <3>2
  <2>4. QED
    BY <2>2, <2>3
<1>2. CASE Destroy
  <2>1. factors' = NoFactors /\ proofs' = NoFactors /\ clock' = clock /\ rights' = rights /\ exec' = exec
        /\ \A h \in Handlers : exec[h].stage = "idle"
    BY <1>2 DEF Destroy, Stands
  <2>2. MethodTypes'
    BY <2>1 DEF MethodTypes, NoFactors
  <2>3. QED
    BY <2>1, <2>2 DEF Looked
<1>3. ASSUME UNCHANGED <<factors, proofs, rights, exec>>, clock' \in Nat, clock' >= clock
      PROVE  MethodTypes' /\ \A h \in Handlers : Looked(h)'
  <2>1. MethodTypes'
    BY <1>3 DEF MethodTypes
  <2>2. \A i \in Indexes : Valid(i)' => Valid(i) /\ factors'[i] = factors[i]
    <3> SUFFICES ASSUME NEW i \in Indexes, Valid(i)' PROVE Valid(i)
      BY <1>3
    <3>1. ValidTime[i] \in Nat /\ factors[i].at \in Nat /\ clock \in Nat
      BY MethodsAssumption DEF MethodTypes
    <3>2. QED
      BY <1>3, <3>1 DEF Valid, getIdxAuthenticationStatus, Fine
  <2>3. ASSUME NEW h \in Handlers PROVE Looked(h)'
    <3>1. exec'[h].stage # "idle" => Tracked(h)'
      BY <1>3, <2>2, StillTracked DEF Looked
    <3>2. QED
      BY <1>3, <3>1 DEF Looked, FullOf, RightOf
  <2>4. QED
    BY <2>1, <2>3
<1>4. CASE \E i \in Indexes, reason \in Reasons : persistentAuthentication(i, reason)
  BY <1>1, <1>2, <1>4 DEF persistentAuthentication
<1>5. CASE \E reason \in Reasons : ChangePassword(reason)
  BY <1>2, <1>5 DEF ChangePassword
<1>6. CASE (\E m \in DOMAIN Table : addRPCMethod(m) \/ ExecWithoutSession(m)) \/ Tick
  BY <1>3, <1>6 DEF addRPCMethod, ExecWithoutSession, Tick, MethodTypes
<1>7. ASSUME NEW super \in BOOLEAN, NEW attribs \in SUBSET Attribs, ChangeRights(super, attribs)
      PROVE  MethodTypes' /\ \A h \in Handlers : Looked(h)'
  <2>1. /\ rights' = [super |-> super, attribs |-> attribs] /\ clock' = clock /\ factors' = factors /\ proofs' = proofs
        /\ exec' = [h \in Handlers |-> IF exec[h].stage = "idle" THEN exec[h]
                                       ELSE [exec[h] EXCEPT !.had = @ \cup attribs, !.super = @ \/ super]]
    BY <1>7 DEF ChangeRights, Stands
  <2>2. \A h \in Handlers : [exec[h] EXCEPT !.had = @ \cup attribs, !.super = @ \/ super] \in Execs
    <3> SUFFICES ASSUME NEW h \in Handlers
                 PROVE  [exec[h] EXCEPT !.had = @ \cup attribs, !.super = @ \/ super] \in Execs
      OBVIOUS
    <3>1. exec[h] \in Execs
      BY DEF MethodTypes
    <3>2. \A b, c \in BOOLEAN : (b \/ c) \in BOOLEAN
      BY Zenon
    <3>3. (exec[h].super \/ super) \in BOOLEAN
      BY <3>1, <3>2 DEF Execs
    <3>4. QED
      BY <3>1, <3>3 DEF Execs
  <2>3. MethodTypes'
    BY <2>1, <2>2 DEF MethodTypes
  <2>4. ASSUME NEW h \in Handlers PROVE Looked(h)'
    <3>1. CASE exec[h].stage = "idle"
      BY <2>1, <3>1 DEF Looked, MethodTypes
    <3>2. CASE exec[h].stage # "idle"
      <4>1. /\ exec'[h].stage = exec[h].stage /\ exec'[h].method = exec[h].method /\ exec'[h].extra = exec[h].extra
            /\ exec'[h].factors = exec[h].factors /\ exec'[h].attribs = exec[h].attribs
            /\ exec'[h].super = (exec[h].super \/ super) /\ exec'[h].had = exec[h].had \cup attribs
            /\ exec'[h].held = exec[h].held
        BY <2>1, <3>2 DEF MethodTypes, Execs
      <4>2. \A j \in Indexes : Valid(j)' => Valid(j) /\ factors'[j] = factors[j]
        BY <2>1 DEF Valid, getIdxAuthenticationStatus
      <4>3. rights'.attribs = attribs /\ rights'.super = super
        BY <2>1
      <4>4. exec'[h].stage # "idle" => Tracked(h)'
        BY <3>2, <4>1, <4>2, <4>3, StillTracked DEF Looked
      <4>5. (FullOf(exec[h]) => FullOf(exec'[h])) /\ (RightOf(exec[h]) => RightOf(exec'[h]))
        BY <4>1, StillLooked
      <4>6. QED
        BY <4>1, <4>4, <4>5 DEF Looked, FullOf, RightOf
    <3>3. QED
      BY <3>1, <3>2
  <2>5. QED
    BY <2>3, <2>4
<1>8. QED
  BY <1>2, <1>4, <1>5, <1>6, <1>7 DEF Quiet

\* One request goes on, to e, and the others stay.
LEMMA OneGoesOn ==
  ASSUME MethodTypes, \A g \in Handlers : Looked(g), NEW h \in Handlers, NEW e \in Execs, InExec(h, e),
         e.stage # "idle" => /\ e.method \in DOMAIN Table
                             /\ rights.attribs \subseteq e.had /\ (rights.super => e.super)
                             /\ \A i \in Indexes : Valid(i) => <<i, factors[i].reason>> \in e.held,
         e.stage \in {"super", "left"} => FullOf(e), e.stage = "left" => RightOf(e)
  PROVE  MethodTypes' /\ \A g \in Handlers : Looked(g)'
<1>1. /\ exec' = [exec EXCEPT ![h] = e] /\ rights' = rights /\ clock' = clock /\ factors' = factors /\ proofs' = proofs
  BY DEF InExec
<1>2. MethodTypes'
  BY <1>1 DEF MethodTypes
<1>3. \A i \in Indexes : Valid(i)' <=> Valid(i)
  BY <1>1 DEF Valid, getIdxAuthenticationStatus
<1>4. ASSUME NEW g \in Handlers, g # h PROVE Looked(g)'
  <2>1. exec'[g] = exec[g]
    BY <1>1, <1>4 DEF MethodTypes
  <2>2. exec[g].stage # "idle" /\ Tracked(g) => Tracked(g)'
    BY <1>1, <1>3, <2>1 DEF Tracked
  <2>3. QED
    BY <2>1, <2>2 DEF Looked, FullOf, RightOf
<1>5. Looked(h)'
  <2>1. exec'[h] = e
    BY <1>1 DEF MethodTypes
  <2>2. e.stage # "idle" => Tracked(h)'
    BY <1>1, <1>3, <2>1 DEF Tracked
  <2>3. QED
    BY <2>1, <2>2 DEF Looked, FullOf, RightOf
<1>6. QED
  BY <1>2, <1>4, <1>5

\* A request that is left alone, or given up.
LEMMA GivenUp ==
  ASSUME MethodTypes, \A g \in Handlers : Looked(g), NEW h \in Handlers, InExec(h, NoExec)
  PROVE  MethodTypes' /\ \A g \in Handlers : Looked(g)'
<1>1. NoExec \in Execs /\ NoExec.stage = "idle"
  BY DEF NoExec, Execs
<1>2. QED
  BY <1>1, OneGoesOn

LEMMA ExecKeeps ==
  ASSUME MethodTypes, \A g \in Handlers : Looked(g), NEW h \in Handlers, ExecGoesOn(h)
  PROVE  MethodTypes' /\ \A g \in Handlers : Looked(g)'
<1>0. exec[h] \in Execs /\ Looked(h)
  BY DEF MethodTypes
<1>1. ASSUME NEW m \in DOMAIN Table, procJAPI_Exec(h, m) PROVE MethodTypes' /\ \A g \in Handlers : Looked(g)'
  <2> DEFINE held == {<<i, proofs[i].reason>> : i \in {j \in Indexes : StillValid(j)}}
             e == [NoExec EXCEPT !.stage = "extra", !.method = m, !.super = rights.super, !.had = rights.attribs,
                                 !.held = held]
  <2>1. InExec(h, e)
    BY <1>1 DEF procJAPI_Exec
  <2>2. held \subseteq Indexes \X (Reasons \cup {"NONE"})
    BY DEF MethodTypes
  <2>3. /\ e.stage = "extra" /\ e.method = m /\ e.super = rights.super /\ e.had = rights.attribs /\ e.held = held
        /\ e \in Execs
    BY <2>2 DEF NoExec, Execs, MethodTypes
  <2>4. ASSUME NEW i \in Indexes, Valid(i) PROVE <<i, factors[i].reason>> \in held
    <3>1. factors[i].reason \in Fine /\ ~(ValidTime[i] > 0 /\ factors[i].at + ValidTime[i] < clock)
      BY <2>4 DEF Valid, getIdxAuthenticationStatus, Fine
    <3>2. ValidTime[i] \in Nat /\ factors[i].at \in Nat /\ clock \in Nat /\ proofs = factors
      BY MethodsAssumption DEF MethodTypes
    <3>3. StillValid(i)
      BY <3>1, <3>2 DEF StillValid
    <3>4. QED
      BY <3>2, <3>3
  <2> HIDE DEF e, held
  <2>5. QED
    BY <2>1, <2>3, <2>4, OneGoesOn
<1>2. ASSUME NEW extra \in SUBSET Indexes, validateRPCMethodPerms(h, extra)
      PROVE  MethodTypes' /\ \A g \in Handlers : Looked(g)'
  <2> DEFINE e == [exec[h] EXCEPT !.stage = "super", !.extra = extra]
  <2>1. exec[h].stage = "extra" /\ Tracked(h)
    BY <1>0, <1>2 DEF validateRPCMethodPerms, Stands, Looked
  <2>2. /\ e.stage = "super" /\ e.method = exec[h].method /\ e.super = exec[h].super /\ e.had = exec[h].had
        /\ e.held = exec[h].held /\ e \in Execs
    BY <1>0 DEF Execs
  <2>3. CASE InExec(h, e) /\ (Table[exec[h].method].full => getIsFullyLoggedIn({"AUTHENTICATED"}))
    <3>1. ASSUME Table[e.method].full, NEW i \in Required PROVE Held(e.held, i, {"AUTHENTICATED"})
      <4>1. i \in Indexes /\ getIdxAuthenticationStatus(i) = "AUTHENTICATED"
        BY <2>2, <2>3, <3>1, MethodsAssumption DEF getIsFullyLoggedIn
      <4>2. Valid(i)
        BY <4>1 DEF Valid, Fine
      <4>3. factors[i].reason = "AUTHENTICATED" /\ <<i, factors[i].reason>> \in exec[h].held
        BY <2>1, <4>1, <4>2, ReasonIsStatus DEF Tracked
      <4>4. QED
        BY <2>2, <4>3 DEF Held
    <3>2. FullOf(e)
      BY <3>1 DEF FullOf
    <3> HIDE DEF e
    <3>3. QED
      BY <2>1, <2>2, <2>3, <3>2, OneGoesOn DEF Tracked
  <2>4. CASE InExec(h, NoExec)
    BY <2>4, GivenUp
  <2>5. QED
    BY <1>2, <2>3, <2>4 DEF validateRPCMethodPerms
<1>3. CASE isAccountSuperUser(h)
  <2> DEFINE f == IF rights.super THEN {} ELSE getMethodPassIndexes(exec[h].method)
             a == IF rights.super THEN {} ELSE Table[exec[h].method].attribs
             e == [exec[h] EXCEPT !.stage = "left", !.factors = f, !.attribs = a]
  <2>1. InExec(h, e) /\ exec[h].stage = "super"
    BY <1>3 DEF isAccountSuperUser, Stands
  <2>2. Tracked(h) /\ FullOf(exec[h])
    BY <1>0, <2>1 DEF Looked
  <2>3. getMethodPassIndexes(exec[h].method) \subseteq Indexes /\ Table[exec[h].method].attribs \subseteq Attribs
    BY <2>2, MethodsAssumption DEF getMethodPassIndexes, Tracked
  <2>4. /\ e.stage = "left" /\ e.method = exec[h].method /\ e.super = exec[h].super /\ e.had = exec[h].had
        /\ e.held = exec[h].held /\ e.factors = f /\ e.attribs = a /\ e.extra = exec[h].extra /\ e \in Execs
    BY <1>0, <2>3 DEF Execs
  <2>5. e.super \/ (f = getMethodPassIndexes(e.method) /\ a = Table[e.method].attribs)
    BY <2>2, <2>4 DEF Tracked
  <2> HIDE DEF e, f, a
  <2>6. RightOf(e)
    BY <2>4, <2>5 DEF RightOf
  <2>7. FullOf(e)
    BY <2>2, <2>4 DEF FullOf
  <2>8. QED
    BY <2>1, <2>2, <2>4, <2>6, <2>7, OneGoesOn DEF Tracked
<1>4. ASSUME NEW i \in Indexes, validateFactor(h, i) PROVE MethodTypes' /\ \A g \in Handlers : Looked(g)'
  <2> DEFINE e == [exec[h] EXCEPT !.factors = @ \ {i}]
  <2>1. exec[h].stage = "left" /\ Tracked(h) /\ FullOf(exec[h]) /\ RightOf(exec[h])
    BY <1>0, <1>4 DEF validateFactor, Stands, Looked
  <2>2. /\ e.stage = "left" /\ e.method = exec[h].method /\ e.super = exec[h].super /\ e.had = exec[h].had
        /\ e.held = exec[h].held /\ e.factors = exec[h].factors \ {i} /\ e.attribs = exec[h].attribs
        /\ e.extra = exec[h].extra /\ e \in Execs
    BY <1>0, <2>1 DEF Execs
  <2>3. CASE InExec(h, e) /\ Provides(h, i)
    <3>1. i \in e.extra \/ Held(e.held, i, Fine)
      <4>1. i \in exec[h].extra \/ Valid(i)
        BY <2>3 DEF Provides, Valid
      <4>2. Valid(i) => factors[i].reason \in Fine /\ <<i, factors[i].reason>> \in exec[h].held
        BY <2>1, ReasonIsStatus DEF Tracked
      <4>3. QED
        BY <2>2, <4>1, <4>2 DEF Held
    <3> HIDE DEF e
    <3>2. RightOf(e)
      BY <2>1, <2>2, <3>1 DEF RightOf
    <3>3. FullOf(e)
      BY <2>1, <2>2 DEF FullOf
    <3>4. QED
      BY <2>1, <2>2, <2>3, <3>2, <3>3, OneGoesOn DEF Tracked
  <2>4. CASE InExec(h, NoExec)
    BY <2>4, GivenUp
  <2>5. QED
    BY <1>4, <2>3, <2>4 DEF validateFactor
<1>5. ASSUME NEW a \in Attribs, validateAttribute(h, a) PROVE MethodTypes' /\ \A g \in Handlers : Looked(g)'
  <2> DEFINE e == [exec[h] EXCEPT !.attribs = @ \ {a}]
  <2>1. exec[h].stage = "left" /\ Tracked(h) /\ FullOf(exec[h]) /\ RightOf(exec[h])
    BY <1>0, <1>5 DEF validateAttribute, Stands, Looked
  <2>2. /\ e.stage = "left" /\ e.method = exec[h].method /\ e.super = exec[h].super /\ e.had = exec[h].had
        /\ e.held = exec[h].held /\ e.factors = exec[h].factors /\ e.attribs = exec[h].attribs \ {a}
        /\ e.extra = exec[h].extra /\ e \in Execs
    BY <1>0, <2>1 DEF Execs
  <2>3. CASE InExec(h, e) /\ a \in rights.attribs
    <3>1. a \in e.had
      BY <2>1, <2>2, <2>3 DEF Tracked
    <3> HIDE DEF e
    <3>2. RightOf(e)
      BY <2>1, <2>2, <3>1 DEF RightOf
    <3>3. FullOf(e)
      BY <2>1, <2>2 DEF FullOf
    <3>4. QED
      BY <2>1, <2>2, <2>3, <3>2, <3>3, OneGoesOn DEF Tracked
  <2>4. CASE InExec(h, NoExec)
    BY <2>4, GivenUp
  <2>5. QED
    BY <1>5, <2>3, <2>4 DEF validateAttribute
<1>6. QED
  BY <1>1, <1>2, <1>3, <1>4, <1>5 DEF ExecGoesOn

\* What is run has passed all that was to be looked at.
LEMMA RunByRight ==
  ASSUME MethodTypes, NEW h \in Handlers, Looked(h), runRPCMethod(h)
  PROVE  RanByRight'
<1>1. /\ ran' = [method |-> exec[h].method, extra |-> exec[h].extra,
                 super |-> exec[h].super, had |-> exec[h].had, held |-> exec[h].held]
      /\ exec[h].stage = "left" /\ exec[h].factors = {} /\ exec[h].attribs = {}
  BY DEF runRPCMethod, Stands
<1>2. FullOf(exec[h]) /\ RightOf(exec[h])
  BY <1>1 DEF Looked
<1>3. /\ ran'.method = exec[h].method /\ ran'.extra = exec[h].extra /\ ran'.super = exec[h].super
      /\ ran'.had = exec[h].had /\ ran'.held = exec[h].held
  BY <1>1
<1>4. Table[ran'.method].full => \A i \in Required : Held(ran'.held, i, {"AUTHENTICATED"})
  BY <1>2, <1>3 DEF FullOf
<1>5. \/ ran'.super
      \/ /\ \A i \in getMethodPassIndexes(ran'.method) : i \in ran'.extra \/ Held(ran'.held, i, Fine)
         /\ Table[ran'.method].attribs \subseteq ran'.had
  BY <1>1, <1>2, <1>3 DEF RightOf
<1>6. \A a \in Table[ran'.method].attribs, i \in Indexes :
        i \in AttribIndexes[a] \cup {0} => i \in getMethodPassIndexes(ran'.method)
  BY DEF getMethodPassIndexes
<1>7. RequireAll => 0 \in getMethodPassIndexes(ran'.method)
  BY DEF getMethodPassIndexes
<1>8. QED
  BY <1>4, <1>5, <1>6, <1>7 DEF RanByRight

LEMMA MethodsStepInv == MethodsInv /\ [MethodsNext]_mvars => MethodsInv'
<1> SUFFICES ASSUME MethodsInv, [MethodsNext]_mvars PROVE MethodsInv'
  OBVIOUS
<1> USE DEF MethodsInv
<1>1. ran' = NotRun => RanByRight'
  BY DEF RanByRight, NotRun
<1>2. CASE Quiet /\ ran' = NotRun
  BY <1>1, <1>2, OthersKeep
<1>3. CASE (\E h \in Handlers : ExecGoesOn(h)) /\ ran' = NotRun
  BY <1>1, <1>3, ExecKeeps
<1>4. ASSUME NEW h \in Handlers, runRPCMethod(h) PROVE MethodsInv'
  <2>1. InExec(h, NoExec)
    BY <1>4 DEF runRPCMethod
  <2>2. QED
    BY <1>4, <2>1, GivenUp, RunByRight
<1>5. CASE UNCHANGED mvars
  BY <1>5 DEF mvars, MethodTypes, Looked, Tracked, FullOf, RightOf, Valid, getIdxAuthenticationStatus, RanByRight
<1>6. QED
  BY <1>2, <1>3, <1>4, <1>5 DEF MethodsNext

\* A method runs by right: although the account, the session and the time go on between
\* the steps that look at them and the call, each thing it asks for stood at some time of
\* the request.  That all stood at once, or still stand when it runs, is not so.
THEOREM MethodsRunByRight == MethodsSpec => []RanByRight
<1>1. MethodsInv => RanByRight
  BY DEF MethodsInv
<1>2. MethodsSpec => []MethodsInv
  BY MethodsInitInv, MethodsStepInv, PTL DEF MethodsSpec
<1>3. QED
  BY <1>1, <1>2, PTL

-----------------------------------------------------------------------------
(* RpcClient.  Several threads save at once.  What is known of the file is *)
(* known while no writing was cut short and no two savings crossed: then   *)
(* one saver at most is in the file, and what it has written is there.     *)

SaverPlaces == {"idle", "same", "refused", "opening", "writing", "remembering", "reporting", "saved", "failed"}
Savers == {"start"} \cup Calls
Files == [config : Configs \cup {NoConfig}, whole : BOOLEAN]
RcTypes ==
  /\ program \in [at : {"off", "checking", "loading", "asking", "saving", "started"}, boots : Nat, failed : BOOLEAN,
                  torn : BOOLEAN]
  /\ memory \in Configs \cup {NoConfig}
  /\ disk \in Files
  /\ savers \in [Savers -> [at : SaverPlaces, config : Configs \cup {NoConfig}]]
  /\ c2.config \in Configs

OneInFile == ~program.torn => \A who, other \in Savers : InFile(who) /\ InFile(other) => who = other

Saved == ~program.torn => \A who \in Savers : Saver(who, "remembering") => disk = Whole(savers[who].config)

StartIsIdle == program.at # "saving" => Saver("start", "idle")

RcInv == RcTypes /\ StartIsIdle /\ OneInFile /\ Saved /\ RunsOnWhatIsSaved

LEMMA RcInitInv == RcInit => RcInv
BY DEF RcInit, RcInv, RcTypes, StartIsIdle, OneInFile, Saved, RunsOnWhatIsSaved, InFile, Saver, NoSaving, Cut, SaverPlaces, Savers,
       Files

LEMMA OffKeeps ==
  ASSUME RcInv, Off, UNCHANGED disk, c2'.config \in Configs
  PROVE  RcInv'
<1>1. /\ program' = [program EXCEPT !.at = "off", !.failed = FALSE, !.torn = FALSE] /\ memory' = NoConfig
      /\ savers' = [w \in Savers |-> NoSaving] /\ disk' = disk
  BY DEF Off, RcInv, RcTypes
<1>2. RcTypes'
  BY <1>1 DEF RcInv, RcTypes, NoSaving, SaverPlaces
<1>3. QED
  BY <1>1, <1>2 DEF RcInv, StartIsIdle, OneInFile, Saved, RunsOnWhatIsSaved, InFile, Saver, NoSaving, Savers

\* A step of one saver, to a place: what it does to the places of all.
LEMMA MovesOne ==
  ASSUME RcTypes, NEW who \in Savers, NEW at \in SaverPlaces, SaverMoves(who, at)
  PROVE  /\ savers' \in [Savers -> [at : SaverPlaces, config : Configs \cup {NoConfig}]]
         /\ savers'[who].at = at /\ savers'[who].config = savers[who].config
         /\ \A other \in Savers : other # who => savers'[other] = savers[other]
BY DEF RcTypes, SaverMoves

LEMMA SavesKeeps ==
  ASSUME RcInv, NEW who \in Savers, Opens(who) \/ SaverWrites(who) \/ Remembers(who) \/ Reports(who)
  PROVE  RcInv'
<1>1. RcTypes /\ StartIsIdle /\ OneInFile /\ Saved /\ RunsOnWhatIsSaved /\ DOMAIN savers = Savers
      /\ program \in [at : {"off", "checking", "loading", "asking", "saving", "started"}, boots : Nat, failed : BOOLEAN,
                      torn : BOOLEAN]
      /\ c2.config \in Configs
  BY DEF RcInv, RcTypes
<1>2. Cut \in Files /\ Whole(savers[who].config) \in Files
  BY <1>1 DEF RcTypes, Files, Cut, Whole
<1>3. {"writing", "remembering", "reporting", "saved", "failed"} \subseteq SaverPlaces
  BY DEF SaverPlaces
<1>4. ASSUME NEW at \in {"writing", "remembering", "reporting", "saved", "failed"}, SaverMoves(who, at),
             disk' \in Files, memory' \in Configs \cup {NoConfig}, c2' = c2,
             \/ program' = program
             \/ \E torn \in BOOLEAN : program' = [program EXCEPT !.torn = torn]
      PROVE  RcTypes' /\ DOMAIN savers' = Savers /\ StartIsIdle'
  <2>1. savers' \in [Savers -> [at : SaverPlaces, config : Configs \cup {NoConfig}]]
    BY <1>1, <1>3, <1>4, MovesOne
  <2>2. program' \in [at : {"off", "checking", "loading", "asking", "saving", "started"}, boots : Nat, failed : BOOLEAN,
                      torn : BOOLEAN]
    BY <1>1, <1>4
  <2>3. program'.at = program.at
    BY <1>1, <1>4
  <2>4. StartIsIdle'
    <3>1. ~Saver(who, "idle")
      BY DEF Opens, SaverWrites, Remembers, Reports, Saver
    <3>2. "start" \in Savers /\ \A other \in Savers : other # who => savers'[other] = savers[other]
      BY <1>1, <1>3, <1>4, MovesOne DEF Savers
    <3>3. QED
      BY <1>1, <2>3, <3>1, <3>2 DEF StartIsIdle, Saver
  <2>5. QED
    BY <1>1, <1>4, <2>1, <2>2, <2>4 DEF RcTypes
<1>5. CASE Opens(who)
  <2>1. Saver(who, "opening") /\ memory' = memory /\ c2' = c2
    BY <1>5 DEF Opens
  <2>2. CASE FileOpened(who)
    <3> DEFINE crossed == \E other \in DOMAIN savers \ {who} : InFile(other)
    <3>1. SaverMoves(who, "writing") /\ disk' = Cut /\ program' = [program EXCEPT !.torn = crossed]
      BY <2>2 DEF FileOpened
    <3>2. crossed \in BOOLEAN
      OBVIOUS
    <3> HIDE DEF crossed
    <3>3. RcTypes' /\ DOMAIN savers' = Savers /\ StartIsIdle'
      BY <1>1, <1>2, <1>4, <2>1, <3>1, <3>2 DEF RcTypes
    <3>4. program'.torn = crossed
      BY <1>1, <3>1
    <3>5. savers'[who].at = "writing" /\ \A other \in Savers : other # who => savers'[other] = savers[other]
      BY <1>1, <1>3, <3>1, MovesOne
    <3>6. ~program'.torn => \A other \in Savers : other # who => ~InFile(other)
      BY <1>1, <3>4 DEF crossed
    <3>7. ~program'.torn => \A other \in Savers : other # who => savers'[other].at \notin {"writing", "remembering"}
      BY <3>5, <3>6 DEF InFile
    <3>8. QED
      BY <3>3, <3>5, <3>7 DEF RcInv, OneInFile, Saved, RunsOnWhatIsSaved, InFile, Saver
  <2>3. CASE SaverMoves(who, "failed") /\ UNCHANGED <<disk, program>>
    <3>1. RcTypes' /\ DOMAIN savers' = Savers /\ StartIsIdle'
      BY <1>1, <1>4, <2>1, <2>3 DEF RcTypes
    <3>2. savers'[who].at = "failed" /\ \A other \in Savers : other # who => savers'[other] = savers[other]
      BY <1>1, <1>3, <2>3, MovesOne
    <3>3. QED
      BY <1>1, <2>1, <2>3, <3>1, <3>2 DEF RcInv, OneInFile, Saved, RunsOnWhatIsSaved, InFile, Saver
  <2>4. QED
    BY <1>5, <2>2, <2>3 DEF Opens
<1>6. CASE SaverWrites(who)
  <2>1. Saver(who, "writing") /\ SaverMoves(who, "remembering") /\ memory' = memory /\ c2' = c2
    BY <1>6 DEF SaverWrites
  <2>2. /\ savers'[who].at = "remembering" /\ savers'[who].config = savers[who].config
        /\ \A other \in Savers : other # who => savers'[other] = savers[other]
    BY <1>1, <1>3, <2>1, MovesOne
  <2>3. CASE disk' = Whole(savers[who].config) /\ UNCHANGED program
    <3>1. RcTypes' /\ DOMAIN savers' = Savers /\ StartIsIdle'
      BY <1>1, <1>2, <1>4, <2>1, <2>3 DEF RcTypes
    <3>2. ~program.torn => \A other \in Savers : other # who => ~InFile(other)
      BY <1>1, <2>1 DEF OneInFile, InFile, Saver
    <3>3. QED
      BY <2>2, <2>3, <3>1, <3>2 DEF RcInv, OneInFile, Saved, RunsOnWhatIsSaved, InFile, Saver
  <2>4. CASE disk' = Cut /\ program' = [program EXCEPT !.torn = TRUE]
    <3>1. RcTypes' /\ StartIsIdle'
      BY <1>1, <1>2, <1>4, <2>1, <2>4 DEF RcTypes
    <3>2. program'.torn
      BY <1>1, <2>4
    <3>3. QED
      BY <3>1, <3>2 DEF RcInv, OneInFile, Saved, RunsOnWhatIsSaved
  <2>5. QED
    BY <1>6, <2>3, <2>4 DEF SaverWrites
<1>7. CASE Remembers(who)
  <2>1. /\ Saver(who, "remembering") /\ SaverMoves(who, "reporting") /\ memory' = savers[who].config
        /\ disk' = disk /\ program' = program /\ c2' = c2
    BY <1>7 DEF Remembers
  <2>2. savers'[who].at = "reporting" /\ \A other \in Savers : other # who => savers'[other] = savers[other]
    BY <1>1, <1>3, <2>1, MovesOne
  <2>3. RcTypes' /\ DOMAIN savers' = Savers /\ StartIsIdle'
    BY <1>1, <1>4, <2>1 DEF RcTypes
  <2>4. ~program.torn => disk = Whole(savers[who].config)
    BY <1>1, <2>1 DEF Saved
  <2>5. QED
    BY <1>1, <2>1, <2>2, <2>3, <2>4 DEF RcInv, OneInFile, Saved, RunsOnWhatIsSaved, InFile, Saver
<1>8. CASE Reports(who)
  <2>1. /\ Saver(who, "reporting") /\ SaverMoves(who, "saved")
        /\ memory' = memory /\ disk' = disk /\ program' = program /\ c2' = c2
    BY <1>8 DEF Reports
  <2>2. savers'[who].at = "saved" /\ \A other \in Savers : other # who => savers'[other] = savers[other]
    BY <1>1, <1>3, <2>1, MovesOne
  <2>3. RcTypes' /\ DOMAIN savers' = Savers /\ StartIsIdle'
    BY <1>1, <1>4, <2>1 DEF RcTypes
  <2>4. QED
    BY <1>1, <2>1, <2>2, <2>3 DEF RcInv, OneInFile, Saved, RunsOnWhatIsSaved, InFile, Saver
<1>9. QED
  BY <1>5, <1>6, <1>7, <1>8

\* What begins or ends a saving: nobody enters the file or leaves it.
LEMMA NobodyInFile ==
  ASSUME RcTypes, OneInFile, Saved, RunsOnWhatIsSaved, NEW who \in Savers, ~InFile(who),
         NEW to \in [at : {"idle", "same", "refused", "opening"}, config : Configs \cup {NoConfig}],
         savers' = [savers EXCEPT ![who] = to], memory' = memory, disk' = disk, c2' = c2, program'.torn = program.torn,
         program' \in [at : {"asking", "saving", "started"}, boots : Nat, failed : BOOLEAN, torn : BOOLEAN]
                      \cup {program}
  PROVE  RcTypes' /\ OneInFile' /\ Saved' /\ RunsOnWhatIsSaved'
<1>1. /\ savers' \in [Savers -> [at : SaverPlaces, config : Configs \cup {NoConfig}]]
      /\ DOMAIN savers' = Savers /\ DOMAIN savers = Savers
      /\ savers'[who] = to /\ \A other \in Savers : other # who => savers'[other] = savers[other]
  BY DEF RcTypes, SaverPlaces
<1>2. \A other \in Savers : /\ InFile(other)' <=> InFile(other)
                            /\ Saver(other, "remembering")' => /\ Saver(other, "remembering")
                                                               /\ savers'[other] = savers[other]
  BY <1>1 DEF InFile, Saver
<1>3. RcTypes'
  BY <1>1 DEF RcTypes
<1>4. OneInFile' /\ Saved'
  BY <1>2 DEF OneInFile, Saved
<1>5. RunsOnWhatIsSaved'
  BY <1>1, <1>2 DEF RunsOnWhatIsSaved
<1>6. QED
  BY <1>3, <1>4, <1>5

LEMMA SaversKeeps ==
  ASSUME RcInv, \/ retrieveConfigFromC2 \/ Retrieved
                \/ \E call \in Calls : updateAndSaveConfig(call) \/ Updated(call)
  PROVE  RcInv'
<1> DEFINE Stops == [at : {"idle", "same", "refused", "opening"}, config : Configs \cup {NoConfig}]
<1>1. /\ RcTypes /\ StartIsIdle /\ OneInFile /\ Saved /\ RunsOnWhatIsSaved /\ "start" \in Savers /\ Calls \subseteq Savers
      /\ memory' = memory /\ disk' = disk /\ c2' = c2 /\ "start" \notin Calls
      /\ program \in [at : {"off", "checking", "loading", "asking", "saving", "started"}, boots : Nat, failed : BOOLEAN,
                      torn : BOOLEAN]
  BY RpcClientAssumption
     DEF RcInv, RcTypes, Savers, retrieveConfigFromC2, Retrieved, updateAndSaveConfig, Updated
<1>2. NoSaving \in Stops /\ [at |-> Begins(c2.config), config |-> c2.config] \in Stops
  BY <1>1 DEF RcTypes, NoSaving, Begins
<1>3. CASE retrieveConfigFromC2
  <2>1. program' = [program EXCEPT !.at = "saving"] /\ Saver("start", "idle")
    BY <1>1, <1>3 DEF retrieveConfigFromC2, StartIsIdle
  <2>2. PICK to \in Stops : savers' = [savers EXCEPT !["start"] = to]
    <3>1. CASE savers' = [savers EXCEPT !["start"].at = "refused"]
      <4>1. [savers["start"] EXCEPT !.at = "refused"] \in Stops
        BY <1>1 DEF RcTypes
      <4>2. savers' = [savers EXCEPT !["start"] = [savers["start"] EXCEPT !.at = "refused"]]
        BY <1>1, <3>1 DEF RcTypes
      <4>3. QED
        BY <4>1, <4>2
    <3>2. QED
      BY <1>2, <1>3, <3>1 DEF retrieveConfigFromC2
  <2>3. program'.torn = program.torn /\ program'.at = "saving"
        /\ program' \in [at : {"asking", "saving", "started"}, boots : Nat, failed : BOOLEAN, torn : BOOLEAN]
    BY <1>1, <2>1
  <2>4. ~InFile("start")
    BY <2>1 DEF Saver, InFile
  <2>5. StartIsIdle'
    BY <2>3 DEF StartIsIdle
  <2>6. QED
    BY <1>1, <2>2, <2>3, <2>4, <2>5, NobodyInFile DEF RcInv
<1>4. CASE Retrieved
  <2>1. /\ program' = [program EXCEPT !.at = "started", !.failed = (savers["start"].at \in {"refused", "failed"})]
        /\ savers' = [savers EXCEPT !["start"] = NoSaving] /\ savers["start"].at \in {"same", "saved", "refused", "failed"}
    BY <1>4 DEF Retrieved
  <2>2. (savers["start"].at \in {"refused", "failed"}) \in BOOLEAN
    OBVIOUS
  <2>3. program'.torn = program.torn
        /\ program' \in [at : {"asking", "saving", "started"}, boots : Nat, failed : BOOLEAN, torn : BOOLEAN]
    BY <1>1, <2>1, <2>2
  <2>4. ~InFile("start")
    BY <2>1 DEF InFile
  <2>5. StartIsIdle'
    BY <1>1, <2>1 DEF StartIsIdle, Saver, NoSaving, RcTypes
  <2>6. QED
    BY <1>1, <1>2, <2>1, <2>3, <2>4, <2>5, NobodyInFile DEF RcInv
<1>5. ASSUME NEW call \in Calls, updateAndSaveConfig(call) \/ Updated(call) PROVE RcInv'
  <2>1. program' = program /\ ~InFile(call)
    BY <1>5 DEF updateAndSaveConfig, Updated, Saver, InFile
  <2>2. PICK to \in Stops : savers' = [savers EXCEPT ![call] = to]
    BY <1>2, <1>5 DEF updateAndSaveConfig, Updated
  <2>3. StartIsIdle'
    BY <1>1, <2>1, <2>2 DEF StartIsIdle, Saver, RcTypes
  <2>4. QED
    BY <1>1, <2>1, <2>2, <2>3, NobodyInFile DEF RcInv
<1>6. QED
  BY <1>3, <1>4, <1>5

\* The other steps that keep the program alive: nobody saves anything by them.
LEMMA OthersAlive ==
  ASSUME RcInv, disk' = disk, savers' = savers, c2'.config \in Configs,
         program' \in [at : {"off", "checking", "loading", "asking", "started"}, boots : Nat, failed : BOOLEAN,
                       torn : BOOLEAN] \cup {program},
         program'.torn = program.torn, program.at # "saving" \/ program' = program,
         memory' = memory \/ (disk.whole /\ memory' = disk.config)
  PROVE  RcInv'
<1>1. RcTypes'
  BY DEF RcInv, RcTypes, Files
<1>2. StartIsIdle' /\ OneInFile' /\ Saved'
  BY DEF RcInv, StartIsIdle, OneInFile, Saved, InFile, Saver
<1>3. RunsOnWhatIsSaved'
  <2>1. disk.whole => disk = Whole(disk.config)
    BY DEF RcInv, RcTypes, Files, Whole
  <2>2. QED
    BY <2>1 DEF RcInv, RunsOnWhatIsSaved, InFile
<1>4. QED
  BY <1>1, <1>2, <1>3 DEF RcInv

LEMMA RcStepInv == RcInv /\ [RcNext]_rcvars => RcInv'
<1> SUFFICES ASSUME RcInv, [RcNext]_rcvars PROVE RcInv'
  OBVIOUS
<1>0. /\ program \in [at : {"off", "checking", "loading", "asking", "saving", "started"}, boots : Nat, failed : BOOLEAN,
                      torn : BOOLEAN]
      /\ c2.config \in Configs /\ DOMAIN savers = Savers
  BY DEF RcInv, RcTypes
<1>1. CASE Off /\ UNCHANGED <<disk, c2>>
  BY <1>0, <1>1, OffKeeps
<1>2. CASE Boots
  <2>1. program' = [program EXCEPT !.at = "checking", !.boots = program.boots + 1] /\ program.boots + 1 \in Nat
    BY <1>0, <1>2 DEF Boots
  <2>2. QED
    BY <1>0, <1>2, <2>1, OthersAlive DEF Boots
<1>3. CASE Checks /\ KeysLoad
  BY <1>0, <1>3, OthersAlive DEF Checks
<1>4. CASE retrieveConfigFromLocalFile
  BY <1>0, <1>4, OthersAlive DEF retrieveConfigFromLocalFile
<1>5. CASE \/ retrieveConfigFromC2 \/ Retrieved
           \/ \E call \in Calls : updateAndSaveConfig(call) \/ Updated(call)
  BY <1>5, SaversKeeps
<1>6. CASE Saves
  BY <1>0, <1>6, SavesKeeps DEF Saves
<1>7. CASE \/ (ClientConnects \/ Processes) /\ ~Off
           \/ Disconnected \/ Sleeps \/ ChangesConfig \/ ChangesKeys \/ UNCHANGED rcvars
  <2>1. program' = program /\ memory' = memory /\ savers' = savers /\ disk' = disk
    BY <1>7 DEF ClientConnects, Processes, Disconnected, Sleeps, ChangesConfig, ChangesKeys, rcvars
  <2>2. c2'.config \in Configs
    <3>1. CASE ChangesConfig
      BY <3>1 DEF ChangesConfig
    <3>2. CASE ChangesKeys
      <4>1. c2' = [c2 EXCEPT !.changes = c2.changes + 1]
        BY <3>2 DEF ChangesKeys
      <4>2. c2'.config = c2.config
        BY <4>1
      <4>3. QED
        BY <1>0, <4>2
    <3>3. CASE c2' = c2
      BY <1>0, <3>3
    <3>4. QED
      BY <1>7, <3>1, <3>2, <3>3 DEF ClientConnects, Processes, Disconnected, Sleeps, rcvars
  <2>3. QED
    BY <2>1, <2>2, OthersAlive
<1>8. CASE (ClientConnects \/ Processes \/ Checks) /\ Off
  BY <1>1, <1>8 DEF ClientConnects, Processes, Checks
<1>9. QED
  BY <1>1, <1>2, <1>3, <1>4, <1>5, <1>6, <1>7, <1>8 DEF RcNext, Checks, Killed

\* Whatever else fails and whenever it is killed, with any number of calls of the method at
\* any time, a program runs on what its file holds, unless a writing was cut short, or two
\* savings crossed, since it was last saved by one alone.
THEOREM RunsOnItsFile == RcSpec => []RunsOnWhatIsSaved
<1>1. RcInv => RunsOnWhatIsSaved
  BY DEF RcInv
<1>2. RcSpec => []RcInv
  BY RcInitInv, RcStepInv, PTL DEF RcSpec
<1>3. QED
  BY <1>1, <1>2, PTL

-----------------------------------------------------------------------------
(* RemoteLogin.  ProcessesWithItsKeyOnly is about what a side concludes    *)
(* from messages: the invariant counts them, so that what a side reads is  *)
(* what the other wrote at the corresponding step of the same connection,  *)
(* and says of those under way what they show.  The client does not rely   *)
(* on its own judgement, which a stranger's empty key may satisfy, but on  *)
(* the server's word, and the server on the hash of the client's key.      *)

Programs == {"client", "server"}
Randoms == Programs \X Nat
Hashes == [key : ApiKeys \cup {EmptyKey}, first : Randoms \cup {<<>>}, second : Randoms]
Messages == Randoms \cup Hashes \cup BOOLEAN
Peers == [key : ApiKeys, theirs : Randoms \cup {<<>>}, accepts : BOOLEAN,
          at : {"apart", "greets", "random", "proves", "judges", "says", "verdict", "processing", "refused"}]
RlTypes ==
  /\ peers \in [Programs -> Peers]
  /\ pipe \in [Programs -> Seq(Messages)]
  /\ standing \in BOOLEAN /\ connections \in Nat

\* How many messages a side has read and written at its place in the challenge.
HasRead(e) ==
  IF peers[e].at \in {"greets", "random"} THEN 0
  ELSE IF Is(e, "judges") \/ (e = "client" /\ Is(e, "proves")) THEN 1
  ELSE IF Is(e, "processing") THEN 3 ELSE 2
HasWritten(e) ==
  IF Is(e, "greets") THEN 0
  ELSE IF peers[e].at \in {"random", "proves"} \/ (e = "server" /\ Is(e, "judges")) THEN 1
  ELSE IF peers[e].at \in {"judges", "says"} THEN 2 ELSE 3

SameKey == peers["client"].key = peers["server"].key
InStep ==
  standing => \A e \in Programs :
    /\ ~Is(e, "apart")
    /\ ~Is(e, "refused") => HasRead(e) + Len(pipe[e]) = HasWritten(Other(e))
Says(e, n, message) ==
  /\ n = 1 => message \in Randoms
  /\ n = 2 /\ e = "server" => message.key = peers["client"].key
  /\ n = 3 => message \in BOOLEAN /\ (e = "client" /\ message => SameKey)
Underway ==
  \A e \in Programs : peers[e].at \notin {"apart", "refused"} =>
    \A i \in 1 .. Len(pipe[e]) : Says(e, HasRead(e) + i, pipe[e][i])
Convinced ==
  /\ peers["server"].accepts => SameKey
  /\ \A e \in Programs : Is(e, "processing") => SameKey
RlInv == RlTypes /\ InStep /\ Underway /\ Convinced

LEMMA RlInitInv == RlInit => RlInv
<1> SUFFICES ASSUME RlInit PROVE RlInv
  OBVIOUS
<1>1. PICK key \in ApiKeys : peers = [client |-> Apart(key), server |-> Apart(key)]
  BY DEF RlInit
<1>2. Apart(key) \in Peers
  BY DEF Apart, Peers
<1>3. /\ peers \in [Programs -> Peers] /\ DOMAIN peers = Programs
      /\ \A e \in Programs : peers[e] = Apart(key)
  BY <1>1, <1>2 DEF Programs
<1>4. pipe = [e \in Programs |-> <<>>] /\ pipe \in [Programs -> Seq(Messages)]
  BY <1>3 DEF RlInit
<1>5. RlTypes
  BY <1>3, <1>4 DEF RlTypes, RlInit
<1>6. \A e \in Programs : Is(e, "apart") /\ peers[e].accepts = FALSE
  BY <1>3 DEF Is, Apart
<1>7. QED
  BY <1>5, <1>6 DEF RlInv, RlInit, InStep, Underway, Convinced, Programs, Is

\* A message of the kind that is due, written on a connection that stands.
LEMMA Written ==
    ASSUME RlInv, NEW e \in Programs, standing, NEW m \in Messages, NEW next \in Peers,
           peers[e].at \notin {"apart", "refused"}, next.at \notin {"apart", "refused"},
           peers' = [peers EXCEPT ![e] = next], next.key = peers[e].key, next.accepts = peers[e].accepts,
           next.at # "processing",
           pipe' = [pipe EXCEPT ![Other(e)] = Append(@, m)],
           UNCHANGED <<standing, connections>>,
           HasRead(e)' = HasRead(e), HasWritten(e)' = HasWritten(e) + 1,
           Says(Other(e), HasWritten(e) + 1, m)
    PROVE  RlInv'
<1> DEFINE o == Other(e)
<1>1. o \in Programs /\ o # e /\ Other(o) = e /\ \A x \in Programs : x = e \/ x = o
  BY DEF Programs, Other
<1>2. /\ peers' \in [Programs -> Peers] /\ peers'[e] = next /\ peers'[o] = peers[o]
      /\ pipe' \in [Programs -> Seq(Messages)] /\ pipe'[e] = pipe[e] /\ pipe'[o] = Append(pipe[o], m)
  BY <1>1 DEF RlInv, RlTypes
<1>3. \A x \in Programs : peers'[x].key = peers[x].key /\ peers'[x].accepts = peers[x].accepts
  BY <1>1, <1>2
<1>4. /\ HasRead(o)' = HasRead(o) /\ HasWritten(o)' = HasWritten(o)
      /\ \A q : Is(o, q)' <=> Is(o, q)
  BY <1>2 DEF HasRead, HasWritten, Is
<1>5. SameKey' = SameKey /\ \A x, n, message : Says(x, n, message)' <=> Says(x, n, message)
  BY <1>3 DEF SameKey, Says, Programs
<1>6. /\ Len(pipe[o]) \in Nat /\ Len(pipe'[o]) = Len(pipe[o]) + 1
      /\ \A i \in 1 .. Len(pipe'[o]) : pipe'[o][i] = IF i = Len(pipe'[o]) THEN m ELSE pipe[o][i]
  <2>1. pipe[o] \in Seq(Messages)
    BY <1>1 DEF RlInv, RlTypes
  <2>2. QED
    BY <2>1, <1>2
<1>7. HasRead(o) \in Nat /\ HasRead(e) \in Nat /\ HasWritten(e) \in Nat
  BY DEF HasRead, HasWritten
<1>8. ~Is(o, "apart") /\ ~Is(e, "apart")' /\ ~Is(e, "refused")'
  BY <1>1, <1>2 DEF RlInv, InStep, Is
<1>9. ~Is(o, "refused") => HasRead(o) + Len(pipe[o]) = HasWritten(e)
  BY <1>1 DEF RlInv, InStep
<1>10. HasRead(e) + Len(pipe[e]) = HasWritten(o)
  BY <1>1 DEF RlInv, InStep, Is
<1>11. RlTypes'
  BY <1>2 DEF RlInv, RlTypes
<1>12. InStep'
  BY <1>1, <1>2, <1>4, <1>6, <1>7, <1>8, <1>9, <1>10 DEF InStep
<1>13. ASSUME NEW x \in Programs, peers'[x].at \notin {"apart", "refused"}, NEW i \in 1 .. Len(pipe'[x])
       PROVE  Says(x, HasRead(x)' + i, pipe'[x][i])
  <2>1. CASE x = e
    <3>1. pipe'[x] = pipe[x] /\ HasRead(x)' = HasRead(x)
      BY <1>2, <2>1
    <3>2. QED
      BY <3>1, <2>1 DEF RlInv, Underway
  <2>2. CASE x = o /\ i = Len(pipe'[o])
    <3>1. HasRead(o)' + i = HasWritten(e) + 1
      BY <1>13, <2>2, <1>2, <1>4, <1>6, <1>7, <1>9 DEF Is
    <3>2. QED
      BY <3>1, <2>2, <1>6
  <2>3. CASE x = o /\ i # Len(pipe'[o])
    <3>1. i \in 1 .. Len(pipe[o]) /\ pipe'[o][i] = pipe[o][i] /\ peers[o].at \notin {"apart", "refused"}
      BY <1>13, <2>3, <1>2, <1>6
    <3>2. QED
      BY <3>1, <2>3, <1>1, <1>4 DEF RlInv, Underway
  <2>4. QED
    BY <2>1, <2>2, <2>3, <1>1
<1>14. Underway'
  BY <1>13, <1>5 DEF Underway
<1>15. Convinced'
  <2>1. \A x \in Programs : Is(x, "processing")' => Is(x, "processing")
    BY <1>1, <1>2 DEF Is
  <2>2. QED
    BY <2>1, <1>3, <1>5 DEF RlInv, Convinced, Programs
<1>16. QED
  BY <1>11, <1>12, <1>14, <1>15 DEF RlInv

\* A message read: a place further, or refused.
LEMMA Heard ==
    ASSUME RlInv, NEW e \in Programs, NEW next \in Peers, peers[e].at \notin {"apart", "refused"},
           pipe[e] # <<>>, pipe' = [pipe EXCEPT ![e] = Tail(@)],
           peers' = [peers EXCEPT ![e] = next], next.key = peers[e].key, next.at # "apart",
           UNCHANGED <<standing, connections>>,
           next.at # "refused" => HasRead(e)' = HasRead(e) + 1, HasWritten(e)' = HasWritten(e),
           e = "server" /\ next.accepts => SameKey, next.at = "processing" => SameKey
    PROVE  RlInv'
<1> DEFINE o == Other(e)
<1>1. o \in Programs /\ o # e /\ Other(o) = e /\ \A x \in Programs : x = e \/ x = o
  BY DEF Programs, Other
<1>2. /\ peers' \in [Programs -> Peers] /\ peers'[e] = next /\ peers'[o] = peers[o]
      /\ pipe' \in [Programs -> Seq(Messages)] /\ pipe'[o] = pipe[o] /\ pipe'[e] = Tail(pipe[e])
  BY <1>1 DEF RlInv, RlTypes
<1>3. \A x \in Programs : peers'[x].key = peers[x].key
  BY <1>1, <1>2
<1>4. /\ HasRead(o)' = HasRead(o) /\ HasWritten(o)' = HasWritten(o)
      /\ \A q : Is(o, q)' <=> Is(o, q)
  BY <1>2 DEF HasRead, HasWritten, Is
<1>5. SameKey' = SameKey /\ \A x, n, message : Says(x, n, message)' <=> Says(x, n, message)
  BY <1>3 DEF SameKey, Says, Programs
<1>6. /\ Len(pipe[e]) \in Nat /\ Len(pipe'[e]) = Len(pipe[e]) - 1
      /\ \A i \in 1 .. Len(pipe'[e]) : i + 1 \in 1 .. Len(pipe[e]) /\ pipe'[e][i] = pipe[e][i + 1]
  <2>1. pipe[e] \in Seq(Messages) /\ pipe[e] # <<>>
    BY <1>1 DEF RlInv, RlTypes
  <2>2. QED
    BY <2>1, <1>2
<1>7. HasRead(o) \in Nat /\ HasRead(e) \in Nat /\ HasWritten(e) \in Nat
  BY DEF HasRead, HasWritten
<1>8. standing => ~Is(o, "apart") /\ ~Is(e, "apart")'
  BY <1>1, <1>2 DEF RlInv, InStep, Is
<1>9. standing /\ ~Is(o, "refused") => HasRead(o) + Len(pipe[o]) = HasWritten(e)
  BY <1>1 DEF RlInv, InStep
<1>10. standing => HasRead(e) + Len(pipe[e]) = HasWritten(o)
  BY <1>1 DEF RlInv, InStep, Is
<1>11. RlTypes'
  BY <1>2 DEF RlInv, RlTypes
<1>12. ~Is(e, "refused")' => HasRead(e)' = HasRead(e) + 1
  BY <1>2 DEF Is
<1>13. InStep'
  BY <1>1, <1>2, <1>4, <1>6, <1>7, <1>8, <1>9, <1>10, <1>12 DEF InStep
<1>14. ASSUME NEW x \in Programs, peers'[x].at \notin {"apart", "refused"}, NEW i \in 1 .. Len(pipe'[x])
       PROVE  Says(x, HasRead(x)' + i, pipe'[x][i])
  <2>1. CASE x = o
    <3>1. pipe'[x] = pipe[x] /\ HasRead(x)' = HasRead(x) /\ peers[x].at \notin {"apart", "refused"}
      BY <1>14, <1>2, <1>4, <2>1
    <3>2. QED
      BY <3>1, <2>1 DEF RlInv, Underway
  <2>2. CASE x = e
    <3>1. HasRead(e)' + i = HasRead(e) + (i + 1)
      BY <2>2, <1>14, <1>2, <1>6, <1>7
    <3>2. i + 1 \in 1 .. Len(pipe[e]) /\ pipe'[e][i] = pipe[e][i + 1]
      BY <2>2, <1>6
    <3>3. QED
      BY <3>1, <3>2, <2>2 DEF RlInv, Underway
  <2>3. QED
    BY <2>1, <2>2, <1>1
<1>15. Underway'
  BY <1>14, <1>5 DEF Underway
<1>16. Convinced'
  <2>1. \A x \in Programs : Is(x, "processing")' => SameKey
    BY <1>1, <1>2, <1>4 DEF Is, RlInv, Convinced
  <2>2. peers'["server"].accepts => SameKey
    BY <1>1, <1>2 DEF RlInv, Convinced, Programs
  <2>3. QED
    BY <2>1, <2>2, <1>5 DEF Convinced
<1>17. QED
  BY <1>11, <1>13, <1>15, <1>16 DEF RlInv

\* A step of a side on a connection that does not stand, or that it closes.
LEMMA Unheard ==
    ASSUME RlInv, NEW e \in Programs, NEW next \in Peers, ~standing', standing' \in BOOLEAN,
           peers' = [peers EXCEPT ![e] = next], UNCHANGED <<pipe, connections>>,
           next.key = peers[e].key, next.accepts => peers[e].accepts, next.at # "processing",
           next.at \in {"apart", "refused"} \/ (peers[e].at \notin {"apart", "refused"} /\ HasRead(e)' = HasRead(e))
    PROVE  RlInv'
<1> DEFINE o == Other(e)
<1>1. o \in Programs /\ o # e /\ \A x \in Programs : x = e \/ x = o
  BY DEF Programs, Other
<1>2. peers' \in [Programs -> Peers] /\ peers'[e] = next /\ peers'[o] = peers[o]
  BY <1>1 DEF RlInv, RlTypes
<1>3. \A x \in Programs : peers'[x].key = peers[x].key /\ (peers'[x].accepts => peers[x].accepts)
  BY <1>1, <1>2
<1>4. HasRead(o)' = HasRead(o)
  BY <1>2 DEF HasRead, Is
<1>5. SameKey' = SameKey /\ \A x, n, message : Says(x, n, message)' <=> Says(x, n, message)
  BY <1>3 DEF SameKey, Says, Programs
<1>6. RlTypes'
  BY <1>2 DEF RlInv, RlTypes
<1>7. \A x \in Programs : peers'[x].at \notin {"apart", "refused"} =>
          peers[x].at \notin {"apart", "refused"} /\ HasRead(x)' = HasRead(x)
  BY <1>1, <1>2, <1>4
<1>8. Underway'
  BY <1>5, <1>7 DEF RlInv, Underway
<1>9. Convinced'
  <2>1. \A x \in Programs : Is(x, "processing")' => Is(x, "processing")
    BY <1>1, <1>2 DEF Is
  <2>2. QED
    BY <2>1, <1>3, <1>5 DEF RlInv, Convinced, Programs
<1>10. QED
  BY <1>6, <1>8, <1>9 DEF RlInv, InStep

LEMMA SideFacts ==
    ASSUME RlInv, NEW e \in Programs
    PROVE  /\ peers \in [Programs -> Peers] /\ pipe[e] \in Seq(Messages)
           /\ peers[e] \in Peers /\ Refused(e) \in Peers /\ Apart(peers[e].key) \in Peers
           /\ Refused(e).key = peers[e].key /\ Refused(e).accepts = peers[e].accepts /\ Refused(e).at = "refused"
           /\ standing \in BOOLEAN /\ connections \in Nat
<1>1. peers \in [Programs -> Peers] /\ peers[e] \in Peers /\ pipe[e] \in Seq(Messages)
      /\ standing \in BOOLEAN /\ connections \in Nat
  BY DEF RlInv, RlTypes
<1>2. QED
  BY <1>1 DEF Peers, Refused, Apart

\* What is told reaches the pipe of a connection that stands, and is refused otherwise.
LEMMA SideTells ==
    ASSUME RlInv, NEW e \in Programs, NEW m, NEW next, Tells(e, m, next), LeftAlone,
           peers[e].at \notin {"apart", "refused"},
           standing => /\ m \in Messages /\ next \in Peers
                       /\ next.key = peers[e].key /\ next.accepts = peers[e].accepts
                       /\ next.at \notin {"apart", "refused", "processing"}
                       /\ Says(Other(e), HasWritten(e) + 1, m),
           peers' = [peers EXCEPT ![e] = next] => HasRead(e)' = HasRead(e) /\ HasWritten(e)' = HasWritten(e) + 1
    PROVE  RlInv'
<1>1. CASE standing
  BY <1>1, Written DEF Tells, LeftAlone
<1>2. CASE ~standing
  BY <1>2, Unheard, SideFacts DEF Tells, LeftAlone
<1>3. QED
  BY <1>1, <1>2

LEMMA RlStepInv == RlInv /\ [RlNext]_rlvars => RlInv'
<1> SUFFICES ASSUME RlInv, [RlNext]_rlvars PROVE RlInv'
  OBVIOUS
<1>1. DOMAIN peers = Programs
  BY DEF RlInv, RlTypes
<1>2. ASSUME NEW e \in Programs, SendsRandom(e) PROVE RlInv'
  <2> DEFINE next == [peers[e] EXCEPT !.at = "random"]
  <2>1. /\ next \in Peers /\ next.key = peers[e].key /\ next.accepts = peers[e].accepts /\ next.at = "random"
    BY SideFacts DEF Peers
  <2>2. RandomOf(e) \in Randoms /\ Other(e) \in Programs /\ peers[e].at = "greets"
    BY <1>2, SideFacts DEF RandomOf, Randoms, SendsRandom, Is, Other, Programs
  <2>3. HasRead(e) = 0 /\ HasWritten(e) = 0
    BY <2>2 DEF HasRead, HasWritten, Is
  <2>4. Says(Other(e), HasWritten(e) + 1, RandomOf(e))
    BY <2>2, <2>3 DEF Says
  <2>5. ASSUME peers' = [peers EXCEPT ![e] = next] PROVE HasRead(e)' = 0 /\ HasWritten(e)' = 1
    <3>1. peers'[e].at = "random"
      BY <2>1, <2>5, SideFacts
    <3>2. QED
      BY <3>1 DEF HasRead, HasWritten, Is
  <2> HIDE DEF next
  <2>6. Tells(e, RandomOf(e), next) /\ LeftAlone
    BY <1>2 DEF SendsRandom, next
  <2>7. QED
    BY <2>1, <2>2, <2>3, <2>4, <2>5, <2>6, SideTells DEF Messages
<1>3. ASSUME NEW e \in Programs, HearsRandom(e) PROVE RlInv'
  <2>1. peers[e].at = "random" /\ LeftAlone
    BY <1>3 DEF HearsRandom, Is
  <2>2. HasRead(e) = 0 /\ HasWritten(e) = 1
    BY <2>1 DEF HasRead, HasWritten, Is
  <2>3. CASE Silence(e) /\ peers' = [peers EXCEPT ![e] = Refused(e)]
    BY <2>1, <2>3, Unheard, SideFacts DEF Silence, LeftAlone
  <2>4. CASE /\ Hears(e)
             /\ peers' = [peers EXCEPT ![e].theirs = Head(pipe[e]), ![e].at = IF e = "client" THEN "proves" ELSE "judges"]
    <3> DEFINE q == IF e = "client" THEN "proves" ELSE "judges"
               next == [peers[e] EXCEPT !.theirs = Head(pipe[e]), !.at = q]
    <3>1. q \in {"proves", "judges"} /\ Head(pipe[e]) \in Randoms
      <4>1. pipe[e] # <<>> /\ pipe[e] \in Seq(Messages)
        BY <2>4, SideFacts DEF Hears
      <4>2. 1 \in 1 .. Len(pipe[e]) /\ Head(pipe[e]) = pipe[e][1]
        BY <4>1
      <4>3. Says(e, 1, Head(pipe[e]))
        BY <2>1, <2>2, <4>2 DEF RlInv, Underway
      <4>4. QED
        BY <4>3 DEF Says
    <3>2. next \in Peers /\ next.key = peers[e].key /\ next.accepts = peers[e].accepts /\ next.at = q
      BY <3>1, SideFacts DEF Peers
    <3>3. peers' = [peers EXCEPT ![e] = next]
      BY <2>4
    <3>4. HasRead(e)' = HasRead(e) + 1 /\ HasWritten(e)' = HasWritten(e)
      <4>1. peers'[e].at = q
        BY <3>2, <3>3, SideFacts
      <4>2. QED
        BY <2>2, <4>1 DEF HasRead, HasWritten, Is, Programs
    <3> HIDE DEF next, q
    <3>5. e = "server" /\ next.accepts => SameKey
      BY <3>2 DEF RlInv, Convinced
    <3>6. QED
      BY <2>1, <2>2, <2>4, <3>1, <3>2, <3>3, <3>4, <3>5, Heard DEF Hears, LeftAlone
  <2>5. QED
    BY <1>3, <2>3, <2>4 DEF HearsRandom
<1>4. ASSUME NEW e \in Programs, Proves(e) PROVE RlInv'
  <2> DEFINE key == IF e = "client" \/ peers[e].accepts THEN peers[e].key ELSE EmptyKey
             message == calcSHA256(key, peers[e].theirs, RandomOf(e))
             q == IF e = "client" THEN "judges" ELSE "says"
             next == [peers[e] EXCEPT !.at = q]
  <2>1. q \in {"judges", "says"} /\ next \in Peers /\ next.key = peers[e].key
        /\ next.accepts = peers[e].accepts /\ next.at = q
    BY SideFacts DEF Peers
  <2>2. peers[e].at = "proves" /\ Tells(e, message, next) /\ LeftAlone
    BY <1>4 DEF Proves, Is
  <2>3. HasRead(e) = (IF e = "client" THEN 1 ELSE 2) /\ HasWritten(e) = 1
    BY <2>2 DEF HasRead, HasWritten, Is
  <2>4. message \in Messages /\ message.key = key
    BY SideFacts DEF calcSHA256, Messages, Hashes, RandomOf, Randoms, Programs, Peers
  <2>5. Other(e) = "server" => message.key = peers["client"].key
    BY <2>4 DEF Other, Programs
  <2>6. Says(Other(e), HasWritten(e) + 1, message)
    BY <2>3, <2>5 DEF Says
  <2>7. ASSUME peers' = [peers EXCEPT ![e] = next] PROVE HasRead(e)' = HasRead(e) /\ HasWritten(e)' = 2
    <3>1. peers'[e].at = q
      BY <2>1, <2>7, SideFacts
    <3>2. QED
      BY <3>1, <2>3 DEF HasRead, HasWritten, Is, Programs
  <2> HIDE DEF next, message, q
  <2>8. QED
    BY <2>1, <2>2, <2>3, <2>4, <2>6, <2>7, SideTells
<1>5. ASSUME NEW e \in Programs, Judges(e) PROVE RlInv'
  <2>1. peers[e].at = "judges" /\ LeftAlone
    BY <1>5 DEF Judges, Is
  <2>2. HasRead(e) = 1 /\ HasWritten(e) = IF e = "client" THEN 2 ELSE 1
    BY <2>1 DEF HasRead, HasWritten, Is, Programs
  <2>3. CASE Silence(e) /\ peers' = [peers EXCEPT ![e] = Refused(e)]
    BY <2>1, <2>3, Unheard, SideFacts DEF Silence, LeftAlone
  <2>4. CASE Hears(e) /\ ~Silence(e)
    <3> DEFINE q == IF e = "client" THEN "says" ELSE "proves"
               matches == Head(pipe[e]) = calcSHA256(peers[e].key, RandomOf(e), peers[e].theirs)
               next == [peers[e] EXCEPT !.accepts = matches, !.at = q]
    <3>1. q \in {"says", "proves"} /\ matches \in BOOLEAN
      OBVIOUS
    <3>2. matches /\ e = "server" => SameKey
      <4>1. pipe[e] # <<>> /\ pipe[e] \in Seq(Messages)
        BY <2>4, SideFacts DEF Hears
      <4>2. 1 \in 1 .. Len(pipe[e]) /\ Head(pipe[e]) = pipe[e][1]
        BY <4>1
      <4>3. Says(e, 2, Head(pipe[e]))
        BY <2>1, <2>2, <4>2 DEF RlInv, Underway
      <4>4. e = "server" => Head(pipe[e]).key = peers["client"].key
        BY <4>3 DEF Says
      <4>5. matches => Head(pipe[e]).key = peers[e].key
        BY DEF calcSHA256
      <4>6. QED
        BY <4>4, <4>5 DEF SameKey
    <3>3. peers' = [peers EXCEPT ![e] = next]
      BY <1>5, <2>4 DEF Judges
    <3> HIDE DEF matches
    <3>4. next \in Peers /\ next.key = peers[e].key /\ next.accepts = matches /\ next.at = q
      BY <3>1, SideFacts DEF Peers
    <3>5. HasRead(e)' = HasRead(e) + 1 /\ HasWritten(e)' = HasWritten(e)
      <4>1. peers'[e].at = q
        BY <3>3, <3>4, SideFacts
      <4>2. QED
        BY <2>2, <4>1 DEF HasRead, HasWritten, Is, Programs
    <3> HIDE DEF next, q
    <3>6. QED
      BY <2>1, <2>2, <2>4, <3>1, <3>2, <3>3, <3>4, <3>5, Heard DEF Hears, LeftAlone
  <2>5. QED
    BY <1>5, <2>3, <2>4 DEF Judges, Silence, Hears
<1>6. ASSUME NEW e \in Programs, SaysVerdict(e) PROVE RlInv'
  <2> DEFINE next == [peers[e] EXCEPT !.at = "verdict"]
  <2>1. next \in Peers /\ next.key = peers[e].key /\ next.accepts = peers[e].accepts /\ next.at = "verdict"
    BY SideFacts DEF Peers
  <2>2. peers[e].at = "says" /\ peers' = [peers EXCEPT ![e] = next] /\ LeftAlone
    BY <1>6 DEF SaysVerdict, Is
  <2>3. HasRead(e) = 2 /\ HasWritten(e) = 2
    BY <2>2 DEF HasRead, HasWritten, Is
  <2>4. peers[e].accepts \in BOOLEAN
    BY SideFacts DEF Peers
  <2>5. Says(Other(e), HasWritten(e) + 1, peers[e].accepts)
    <3>1. Other(e) = "client" => e = "server"
      BY DEF Other, Programs
    <3>2. QED
      BY <2>3, <2>4, <3>1 DEF Says, RlInv, Convinced
  <2>6. HasRead(e)' = HasRead(e) /\ HasWritten(e)' = HasWritten(e) + 1
    <3>1. peers'[e].at = "verdict"
      BY <2>1, <2>2, SideFacts
    <3>2. QED
      BY <2>3, <3>1 DEF HasRead, HasWritten, Is
  <2> HIDE DEF next
  <2>7. CASE standing
    <3>1. pipe' = [pipe EXCEPT ![Other(e)] = Append(@, peers[e].accepts)]
      BY <1>6, <2>7 DEF SaysVerdict
    <3>2. QED
      BY <2>1, <2>2, <2>3, <2>4, <2>5, <2>6, <2>7, <3>1, Written DEF LeftAlone, Messages
  <2>8. CASE ~standing
    <3>1. pipe' = pipe
      BY <1>6, <2>8 DEF SaysVerdict
    <3>2. QED
      BY <2>1, <2>2, <2>3, <2>6, <2>8, <3>1, Unheard, SideFacts DEF LeftAlone
  <2>9. QED
    BY <2>7, <2>8
<1>7. ASSUME NEW e \in Programs, HearsVerdict(e) PROVE RlInv'
  <2>1. peers[e].at = "verdict" /\ LeftAlone
    BY <1>7 DEF HearsVerdict, Is
  <2>2. HasRead(e) = 2 /\ HasWritten(e) = 3
    BY <2>1 DEF HasRead, HasWritten, Is
  <2>3. CASE Silence(e) /\ peers' = [peers EXCEPT ![e] = Refused(e)]
    BY <2>1, <2>3, Unheard, SideFacts DEF Silence, LeftAlone
  <2>4. CASE Hears(e) /\ ~Silence(e)
    <3> DEFINE q == IF Agreed(e, Head(pipe[e])) THEN "processing" ELSE "refused"
               next == [peers[e] EXCEPT !.at = q]
    <3>1. q = "processing" => SameKey
      <4>1. pipe[e] # <<>> /\ pipe[e] \in Seq(Messages)
        BY <2>4, SideFacts DEF Hears
      <4>2. 1 \in 1 .. Len(pipe[e]) /\ Head(pipe[e]) = pipe[e][1]
        BY <4>1
      <4>3. Says(e, 3, Head(pipe[e]))
        BY <2>1, <2>2, <4>2 DEF RlInv, Underway
      <4>4. e = "client" /\ Head(pipe[e]) => SameKey
        BY <4>3 DEF Says
      <4>5. e = "server" /\ peers[e].accepts => SameKey
        BY DEF RlInv, Convinced
      <4>6. QED
        BY <4>4, <4>5 DEF Agreed, Programs
    <3>2. q \in {"processing", "refused"}
      OBVIOUS
    <3>3. peers' = [peers EXCEPT ![e] = next]
      BY <1>7, <2>4 DEF HearsVerdict
    <3> HIDE DEF q
    <3>4. next \in Peers /\ next.key = peers[e].key /\ next.accepts = peers[e].accepts /\ next.at = q
      BY <3>2, SideFacts DEF Peers
    <3>5. (q # "refused" => HasRead(e)' = HasRead(e) + 1) /\ HasWritten(e)' = HasWritten(e)
      <4>1. peers'[e].at = q
        BY <3>3, <3>4, SideFacts
      <4>2. QED
        BY <2>2, <4>1, <3>2 DEF HasRead, HasWritten, Is, Programs
    <3> HIDE DEF next
    <3>6. e = "server" /\ next.accepts => SameKey
      BY <3>4 DEF RlInv, Convinced
    <3>7. QED
      BY <2>1, <2>2, <2>4, <3>1, <3>2, <3>3, <3>4, <3>5, <3>6, Heard DEF Hears, LeftAlone
  <2>5. QED
    BY <1>7, <2>3, <2>4 DEF HearsVerdict, Silence, Hears
<1>8. ASSUME NEW e \in Programs, Leaves(e) PROVE RlInv'
  <2>1. Apart(peers[e].key).key = peers[e].key /\ Apart(peers[e].key).accepts = FALSE /\ Apart(peers[e].key).at = "apart"
    BY DEF Apart
  <2>2. QED
    BY <1>8, <2>1, Unheard, SideFacts DEF Leaves
<1>9. ASSUME Reconnected PROVE RlInv'
  <2> DEFINE c == [peers["client"] EXCEPT !.at = "greets"]
  <2>1. PICK key \in ApiKeys :
          peers' = [client |-> c, server |-> [Apart(key) EXCEPT !.at = "greets"]]
    BY <1>9 DEF Reconnected
  <2>2. peers["client"] \in Peers /\ Apart(key) \in Peers
    BY SideFacts DEF Programs, Apart, Peers
  <2> DEFINE s == [Apart(key) EXCEPT !.at = "greets"]
  <2>3. c \in Peers /\ s \in Peers /\ c.at = "greets" /\ s.at = "greets" /\ s.accepts = FALSE
    BY <2>2 DEF Peers, Apart
  <2>4. peers' = [client |-> c, server |-> s]
    BY <2>1
  <2> HIDE DEF c, s
  <2>5. peers' \in [Programs -> Peers] /\ (\A e \in Programs : peers'[e].at = "greets") /\ peers'["server"].accepts = FALSE
    BY <2>3, <2>4 DEF Programs
  <2>6. pipe' = [e \in Programs |-> <<>>] /\ pipe' \in [Programs -> Seq(Messages)]
    BY <1>1, <1>9 DEF Reconnected
  <2>7. RlTypes'
    <3>1. standing' = TRUE /\ connections' = connections + 1 /\ connections \in Nat
      BY <1>9 DEF Reconnected, RlInv, RlTypes
    <3>2. QED
      BY <2>5, <2>6, <3>1 DEF RlTypes
  <2>8. \A e \in Programs : HasRead(e)' = 0 /\ HasWritten(e)' = 0 /\ Len(pipe'[e]) = 0
    BY <2>5, <2>6 DEF HasRead, HasWritten, Is
  <2>9. InStep'
    BY <2>5, <2>8 DEF InStep, Is, Other, Programs
  <2>10. Underway' /\ Convinced'
    BY <2>5, <2>8 DEF Underway, Convinced, Is
  <2>11. QED
    BY <2>7, <2>9, <2>10 DEF RlInv
<1>10. ASSUME Breaks PROVE RlInv'
  <2>1. peers' = peers /\ standing' = FALSE /\ connections' = connections
    BY <1>10 DEF Breaks
  <2>2. CASE pipe' = pipe
    <3>1. /\ \A e \in Programs : HasRead(e)' = HasRead(e) /\ peers'[e] = peers[e] /\ pipe'[e] = pipe[e]
          /\ \A e, n, message : Says(e, n, message)' <=> Says(e, n, message)
      BY <2>1, <2>2 DEF HasRead, Is, Says, SameKey
    <3>2. Underway'
      BY <3>1 DEF RlInv, Underway
    <3>3. QED
      BY <2>1, <2>2, <3>2 DEF RlInv, RlTypes, InStep, Convinced, SameKey, Is
  <2>3. CASE pipe' = [e \in Programs |-> <<>>]
    <3>1. pipe' \in [Programs -> Seq(Messages)] /\ \A e \in Programs : Len(pipe'[e]) = 0
      BY <2>3
    <3>2. Underway'
      BY <3>1 DEF Underway
    <3>3. QED
      BY <2>1, <3>1, <3>2 DEF RlInv, RlTypes, InStep, Convinced, SameKey, Is
  <2>4. QED
    BY <1>1, <1>10, <2>2, <2>3 DEF Breaks
<1>11. CASE UNCHANGED rlvars
  BY <1>11 DEF rlvars, RlInv, RlTypes, InStep, Underway, Convinced, Says, SameKey, HasRead, HasWritten, Is
<1>12. QED
  BY <1>1, <1>2, <1>3, <1>4, <1>5, <1>6, <1>7, <1>8, <1>9, <1>10, <1>11 DEF RlNext

\* LoginRPCClient::connectionClientLoop, CryptoChallenge: of two programs that both run the challenge, whatever the
\* keys they were given, however often the connection breaks and whatever is lost with it, one goes on to the calls
\* about accounts only when the other has the same key.  Of a program that does not run it nothing is claimed.
THEOREM HonestPeersShareTheKey == RlInit /\ [][RlNext]_rlvars => []ProcessesWithItsKeyOnly
<1>1. RlInv => ProcessesWithItsKeyOnly
  BY DEF RlInv, RlTypes, Convinced, SameKey, ProcessesWithItsKeyOnly, Programs, Other
<1>2. QED
  BY <1>1, RlInitInv, RlStepInv, PTL

-----------------------------------------------------------------------------
(* Bridge.  That what is written is what was sent needs to know what is    *)
(* still in the socket that is read: its blocks are those after the last   *)
(* one taken, each once and in order, and a framed socket gives a block    *)
(* only after a size, so that a thread never takes one for the other.  The *)
(* other end of a framed socket waits for a block exactly while the thread *)
(* that writes to it holds mt_fwd between the two, or will get no more.    *)
(* What it reads is a function defined along the stream, and what holds    *)
(* of it is shown from the least index at which it would fail.             *)

\* A set of numbers has a least one: how a fact is shown of every number here.
LEMMA LeastNumber ==
    ASSUME NEW T, T \subseteq Nat, T # {}
    PROVE  \E x \in T : \A y \in T : x <= y
<1>1. \E R : /\ IsWellFoundedOn(R, Nat)
             /\ \A x, y \in Nat : <<y, x>> \in R <=> y < x
  <2>1. \A x, y \in Nat : <<y, x>> \in OpToRel(<, Nat) <=> y < x
    BY DEF OpToRel
  <2>2. QED
    BY <2>1, NatLessThanWellFounded
<1>2. PICK R : /\ IsWellFoundedOn(R, Nat)
               /\ \A x, y \in Nat : <<y, x>> \in R <=> y < x
  BY <1>1
<1>3. PICK x \in T : \A y \in T : ~ (<<y, x>> \in R)
  <2>1. \E x \in T : \A y \in T : ~ (<<y, x>> \in R)
    BY <1>2, WFMin
  <2>2. QED
    BY <2>1
<1>4. \A y \in T : ~(y < x)
  BY <1>2, <1>3
<1>5. \A y \in T : x \in Nat /\ y \in Nat
  OBVIOUS
<1>6. QED
  BY <1>4, <1>5

\* How the other end of a framed socket reads on.
Unread == [wants |-> FALSE, blocks |-> <<>>]
ReadOn(before, x) ==
  IF before.wants THEN [wants |-> FALSE, blocks |-> Append(before.blocks, x)]
                  ELSE [before EXCEPT !.wants = x # Ping]
Follows(f, stream, N) == f = [n \in 0 .. N |-> IF n = 0 THEN Unread ELSE ReadOn(f[n - 1], stream[n])]
Course(stream, N) == CHOOSE f : Follows(f, stream, N)

LEMMA ReadingIsCourse ==
    ASSUME NEW stream
    PROVE  Unframed(stream) = Course(stream, Len(stream))[Len(stream)]
BY DEF Unframed, Course, Follows, Unread, ReadOn

LEMMA CourseExists ==
    ASSUME NEW stream, NEW N \in Nat
    PROVE  Follows(Course(stream, N), stream, N)
<1> DEFINE T == {M \in Nat : ~ \E f : Follows(f, stream, M)}
<1>1. ASSUME T # {} PROVE FALSE
  <2>1. PICK M \in T : \A y \in T : M <= y
    BY <1>1, LeastNumber
  <2>2. \E f : Follows(f, stream, 0)
    <3>1. Follows([n \in 0 .. 0 |-> Unread], stream, 0)
      BY DEF Follows
    <3>2. QED
      BY <3>1
  <2>3. M # 0 /\ M - 1 \in Nat /\ M - 1 \notin T
    BY <2>1, <2>2
  <2>4. PICK f : Follows(f, stream, M - 1)
    BY <2>3
  <2> DEFINE g == [n \in 0 .. M |-> IF n = M THEN ReadOn(f[M - 1], stream[M]) ELSE f[n]]
  <2>5. \A n \in 0 .. M : g[n] = IF n = 0 THEN Unread ELSE ReadOn(g[n - 1], stream[n])
    <3> SUFFICES ASSUME NEW n \in 0 .. M PROVE g[n] = IF n = 0 THEN Unread ELSE ReadOn(g[n - 1], stream[n])
      OBVIOUS
    <3>1. CASE n = M
      BY <3>1, <2>3
    <3>2. CASE n # M
      <4>1. n \in 0 .. (M - 1) /\ g[n] = f[n]
        BY <3>2, <2>1
      <4>2. n # 0 => g[n - 1] = f[n - 1]
        BY <3>2, <2>1
      <4>3. f[n] = IF n = 0 THEN Unread ELSE ReadOn(f[n - 1], stream[n])
        BY <4>1, <2>4 DEF Follows
      <4> HIDE DEF g
      <4>4. QED
        BY <4>1, <4>2, <4>3
    <3>3. QED
      BY <3>1, <3>2
  <2>6. g = [n \in 0 .. M |-> g[n]]
    OBVIOUS
  <2> HIDE DEF g
  <2>7. Follows(g, stream, M)
    BY <2>5, <2>6 DEF Follows
  <2>8. QED
    BY <2>1, <2>7
<1>2. \E f : Follows(f, stream, N)
  BY <1>1
<1>3. QED
  BY <1>2 DEF Course

\* A longer course begins with the shorter one.
SameUpTo(s, t, N) == \A i \in 1 .. N : s[i] = t[i]
LEMMA CoursesAgree ==
    ASSUME NEW s, NEW t, NEW N \in Nat, NEW M \in Nat, N <= M, SameUpTo(s, t, N)
    PROVE  \A n \in 0 .. N : Course(s, N)[n] = Course(t, M)[n]
<1> DEFINE f == Course(s, N)
           g == Course(t, M)
           T == {n \in 0 .. N : f[n] # g[n]}
<1>1. \A n \in 0 .. N : f[n] = IF n = 0 THEN Unread ELSE ReadOn(f[n - 1], s[n])
  BY CourseExists DEF Follows
<1>2. \A n \in 0 .. M : g[n] = IF n = 0 THEN Unread ELSE ReadOn(g[n - 1], t[n])
  BY CourseExists DEF Follows
<1> HIDE DEF f, g
<1>3. ASSUME T # {} PROVE FALSE
  <2>1. T \subseteq Nat
    OBVIOUS
  <2>2. PICK n \in T : \A y \in T : n <= y
    BY <1>3, <2>1, LeastNumber
  <2>3. n \in 0 .. N /\ n \in 0 .. M /\ f[n] # g[n]
    OBVIOUS
  <2>4. n # 0
    BY <2>3, <1>1, <1>2
  <2>5. n - 1 \in 0 .. N /\ n - 1 \notin T
    BY <2>2, <2>3, <2>4
  <2>6. f[n - 1] = g[n - 1] /\ s[n] = t[n]
    BY <2>3, <2>4, <2>5 DEF SameUpTo
  <2>7. QED
    BY <2>3, <2>4, <2>6, <1>1, <1>2
<1>4. QED
  BY <1>3 DEF f, g

\* What a reader has after one more item.
LEMMA ReadingGrows ==
    /\ Unframed(<<>>) = Unread
    /\ \A stream \in Seq(Int) : \A x : Unframed(Append(stream, x)) = ReadOn(Unframed(stream), x)
<1>1. Unframed(<<>>) = Unread
  <2>1. Follows(Course(<<>>, 0), <<>>, 0)
    BY CourseExists
  <2>2. Len(<<>>) = 0
    OBVIOUS
  <2>3. QED
    BY <2>1, <2>2, ReadingIsCourse DEF Follows
<1>2. ASSUME NEW stream \in Seq(Int), NEW x PROVE Unframed(Append(stream, x)) = ReadOn(Unframed(stream), x)
  <2> DEFINE N == Len(stream)
             longer == Append(stream, x)
  <2>1. N \in Nat /\ Len(longer) = N + 1 /\ longer[N + 1] = x /\ \A i \in 1 .. N : stream[i] = longer[i]
    OBVIOUS
  <2> HIDE DEF longer
  <2>2. Follows(Course(longer, N + 1), longer, N + 1)
    BY <2>1, CourseExists
  <2>3. Course(longer, N + 1)[N + 1] = ReadOn(Course(longer, N + 1)[N], longer[N + 1])
    BY <2>1, <2>2 DEF Follows
  <2>4. Course(stream, N)[N] = Course(longer, N + 1)[N]
    <3> DEFINE M == N + 1
    <3>1. N \in Nat /\ M \in Nat /\ N <= M /\ N \in 0 .. N
      BY <2>1
    <3>2. SameUpTo(stream, longer, N)
      BY <2>1 DEF SameUpTo
    <3> HIDE DEF M, N
    <3>3. \A n \in 0 .. N : Course(stream, N)[n] = Course(longer, M)[n]
      BY <3>1, <3>2, CoursesAgree
    <3>4. QED
      BY <3>1, <3>3 DEF M
  <2>5. QED
    BY <2>1, <2>3, <2>4, ReadingIsCourse DEF longer
<1>3. QED
  BY <1>1, <1>2

Places == {"read", "readBlock", "writeSize", "write", "shutdown", "finish", "ended", "endPing", "joinPing", "close", "done"}
Writing == {"writeSize", "write"}
Carrying == {"read", "readBlock"} \cup Writing
BridgeTypes ==
  /\ in \in [{0, 1} -> Seq(Int)]
  /\ out \in [{0, 1} -> Seq(Int)]
  /\ sent \in [{0, 1} -> Nat]
  /\ midFrame \in BOOLEAN
  /\ closed \in [{0, 1} -> BOOLEAN]
  /\ shut \in [{0, 1} -> BOOLEAN]
  /\ thread \in [Sides -> Places]
  /\ block \in [Sides -> Int]
  /\ Unframed(out[1]) \in [wants : BOOLEAN, blocks : Seq(Int)]

\* The blocks of a stream are those numbered from lo + 1 to hi, each once and in order.
Carries(stream, lo, hi) ==
  /\ \A i \in 1 .. Len(stream) : stream[i] > 0 => lo < stream[i] /\ stream[i] <= hi
  /\ \A b \in lo + 1 .. hi : \E i \in 1 .. Len(stream) : stream[i] = b
  /\ \A i, j \in 1 .. Len(stream) : i < j /\ stream[i] > 0 /\ stream[j] > 0 => stream[i] < stream[j]

\* A thread that may still deliver has the next block in hand, or the first of those that wait is the next one.
Passed(s) == Len(Delivered(s)) + IF thread[s] \in Writing THEN 1 ELSE 0
UnderWay(s) ==
  thread[s] \in Carrying =>
    /\ Carries(in[From(s)], Passed(s), sent[From(s)])
    /\ thread[s] \in Writing => block[s] = Passed(s)
    /\ Passed(s) <= sent[From(s)]
Ordered(s) ==
  /\ Len(Delivered(s)) <= sent[From(s)]
  /\ \A n \in 1 .. Len(Delivered(s)) : Delivered(s)[n] = n
Drained(s) ==
  thread[s] \in {"shutdown", "finish"} /\ ~shut[From(s)] =>
    closed[From(s)] /\ Len(Delivered(s)) = sent[From(s)]

\* A framed socket gives a block after a size and nowhere else, to a thread that waits for one and to no other.
InFrames(stream, waits, mid) ==
  /\ \A i \in 1 .. Len(stream) :
        stream[i] >= Size /\ (stream[i] > 0 <=> IF i = 1 THEN waits ELSE stream[i - 1] = Size)
  /\ mid <=> IF stream = <<>> THEN waits ELSE stream[Len(stream)] = Size
Framing ==
  /\ \A i \in 1 .. Len(in[0]) : in[0][i] > 0
  /\ ~Chunked => \A i \in 1 .. Len(in[1]) : in[1][i] > 0
  /\ Chunked /\ thread[0] \in Carrying => InFrames(in[1], thread[0] = "readBlock", midFrame)
  /\ thread[0] # "writeSize" /\ (thread[1] = "writeSize" => Chunked)
  /\ thread[1] # "readBlock" /\ (thread[0] = "readBlock" => Chunked)
  /\ ~Chunked => pingThread = "ended"
  /\ Chunked /\ ~shut[1] => (Unframed(out[1]).wants <=> thread[1] = "write")

InHand(s) == UnderWay(s) /\ Ordered(s) /\ Drained(s)
BridgeInv == BridgeTypes /\ Framing /\ \A s \in Sides : InHand(s)

-----------------------------------------------------------------------------

LEMMA CarriesNothing ==
    ASSUME NEW stream, Len(stream) = 0, NEW lo \in Nat, NEW hi \in Nat
    PROVE  /\ lo = hi => Carries(stream, lo, hi)
           /\ lo <= hi /\ Carries(stream, lo, hi) => lo = hi
<1>1. lo = hi => Carries(stream, lo, hi)
  BY DEF Carries
<1>2. lo <= hi /\ Carries(stream, lo, hi) => lo = hi
  <2> SUFFICES ASSUME lo < hi, Carries(stream, lo, hi) PROVE FALSE
    OBVIOUS
  <2>1. hi \in lo + 1 .. hi
    OBVIOUS
  <2>2. QED
    BY <2>1 DEF Carries
<1>3. QED
  BY <1>1, <1>2

LEMMA CarriesMore ==
    ASSUME NEW stream \in Seq(Int), NEW lo \in Nat, NEW hi \in Nat, lo <= hi, Carries(stream, lo, hi), NEW x \in Int
    PROVE  /\ x <= 0 => Carries(Append(stream, x), lo, hi)
           /\ x = hi + 1 => Carries(Append(stream, x), lo, hi + 1)
<1> DEFINE longer == Append(stream, x)
           N == Len(stream)
<1>1. /\ N \in Nat /\ Len(longer) = N + 1 /\ longer[N + 1] = x
      /\ \A i \in 1 .. N : longer[i] = stream[i] /\ stream[i] \in Int
      /\ \A i \in 1 .. N + 1 : i \in 1 .. N \/ i = N + 1
  OBVIOUS
<1>2. /\ \A i \in 1 .. N : stream[i] > 0 => lo < stream[i] /\ stream[i] <= hi
      /\ \A b \in lo + 1 .. hi : \E i \in 1 .. N : stream[i] = b
      /\ \A i, j \in 1 .. N : i < j /\ stream[i] > 0 /\ stream[j] > 0 => stream[i] < stream[j]
  BY DEF Carries
<1> HIDE DEF longer, N
<1>3. ASSUME x <= 0 PROVE Carries(longer, lo, hi)
  <2>1. \A i \in 1 .. N + 1 : longer[i] > 0 => lo < longer[i] /\ longer[i] <= hi
    BY <1>1, <1>2, <1>3
  <2>2. \A b \in lo + 1 .. hi : \E i \in 1 .. N + 1 : longer[i] = b
    BY <1>1, <1>2
  <2>3. \A i, j \in 1 .. N + 1 : i < j /\ longer[i] > 0 /\ longer[j] > 0 => longer[i] < longer[j]
    BY <1>1, <1>2, <1>3
  <2>4. QED
    BY <1>1, <2>1, <2>2, <2>3 DEF Carries
<1>4. ASSUME x = hi + 1 PROVE Carries(longer, lo, hi + 1)
  <2>1. \A i \in 1 .. N + 1 : longer[i] > 0 => lo < longer[i] /\ longer[i] <= hi + 1
    BY <1>1, <1>2, <1>4
  <2>2. \A b \in lo + 1 .. hi + 1 : \E i \in 1 .. N + 1 : longer[i] = b
    <3> SUFFICES ASSUME NEW b \in lo + 1 .. hi + 1 PROVE \E i \in 1 .. N + 1 : longer[i] = b
      OBVIOUS
    <3>1. CASE b = hi + 1
      BY <3>1, <1>1, <1>4
    <3>2. CASE b # hi + 1
      BY <3>2, <1>1, <1>2
    <3>3. QED
      BY <3>1, <3>2
  <2>3. \A i, j \in 1 .. N + 1 : i < j /\ longer[i] > 0 /\ longer[j] > 0 => longer[i] < longer[j]
    <3> SUFFICES ASSUME NEW i \in 1 .. N + 1, NEW j \in 1 .. N + 1, i < j, longer[i] > 0, longer[j] > 0
                 PROVE  longer[i] < longer[j]
      OBVIOUS
    <3>1. i \in 1 .. N /\ longer[i] = stream[i] /\ stream[i] \in Int /\ stream[i] <= hi
      BY <1>1, <1>2
    <3>2. CASE j = N + 1
      BY <3>1, <3>2, <1>1, <1>4
    <3>3. CASE j # N + 1
      BY <3>1, <3>3, <1>1, <1>2
    <3>4. QED
      BY <3>2, <3>3
  <2>4. QED
    BY <1>1, <2>1, <2>2, <2>3 DEF Carries
<1>5. QED
  BY <1>3, <1>4 DEF longer

LEMMA CarriesLess ==
    ASSUME NEW stream \in Seq(Int), stream # <<>>, NEW lo \in Nat, NEW hi \in Nat, lo <= hi, Carries(stream, lo, hi)
    PROVE  /\ Head(stream) <= 0 => Carries(Tail(stream), lo, hi)
           /\ Head(stream) > 0 => Head(stream) = lo + 1 /\ lo + 1 <= hi /\ Carries(Tail(stream), lo + 1, hi)
<1> DEFINE rest == Tail(stream)
           N == Len(stream)
<1>1. /\ N \in Nat /\ N >= 1 /\ Len(rest) = N - 1 /\ Head(stream) = stream[1]
      /\ \A i \in 1 .. N - 1 : rest[i] = stream[i + 1]
      /\ \A i \in 1 .. N : stream[i] \in Int
  OBVIOUS
<1>2. /\ \A i \in 1 .. N : stream[i] > 0 => lo < stream[i] /\ stream[i] <= hi
      /\ \A b \in lo + 1 .. hi : \E i \in 1 .. N : stream[i] = b
      /\ \A i, j \in 1 .. N : i < j /\ stream[i] > 0 /\ stream[j] > 0 => stream[i] < stream[j]
  BY DEF Carries
<1> HIDE DEF rest, N
<1>3. \A i \in 1 .. N - 1 : rest[i] \in Int /\ i + 1 \in 1 .. N /\ rest[i] = stream[i + 1]
  BY <1>1
<1>4. \A i, j \in 1 .. N - 1 : i < j /\ rest[i] > 0 /\ rest[j] > 0 => rest[i] < rest[j]
  <2> SUFFICES ASSUME NEW i \in 1 .. N - 1, NEW j \in 1 .. N - 1, i < j, rest[i] > 0, rest[j] > 0
               PROVE  rest[i] < rest[j]
    OBVIOUS
  <2>1. i + 1 \in 1 .. N /\ j + 1 \in 1 .. N /\ i + 1 < j + 1
    BY <1>1
  <2>2. stream[i + 1] > 0 /\ stream[j + 1] > 0
    BY <1>3
  <2>3. QED
    BY <1>2, <1>3, <2>1, <2>2
<1>5. ASSUME NEW b \in lo + 1 .. hi, stream[1] # b PROVE \E i \in 1 .. N - 1 : rest[i] = b
  <2>1. PICK i \in 1 .. N : stream[i] = b
    BY <1>2
  <2>2. i # 1 /\ i - 1 \in 1 .. N - 1 /\ rest[i - 1] = stream[i]
    BY <1>1, <1>5, <2>1
  <2>3. QED
    BY <2>1, <2>2
<1>6. ASSUME Head(stream) <= 0 PROVE Carries(rest, lo, hi)
  <2>1. \A i \in 1 .. N - 1 : rest[i] > 0 => lo < rest[i] /\ rest[i] <= hi
    BY <1>2, <1>3
  <2>2. \A b \in lo + 1 .. hi : stream[1] # b
    BY <1>1, <1>6
  <2>3. QED
    BY <1>1, <1>4, <1>5, <2>1, <2>2 DEF Carries
<1>7. ASSUME Head(stream) > 0 PROVE Head(stream) = lo + 1 /\ lo + 1 <= hi /\ Carries(rest, lo + 1, hi)
  <2>1. 1 \in 1 .. N /\ lo < stream[1] /\ stream[1] <= hi
    BY <1>1, <1>2, <1>7
  <2>2. stream[1] = lo + 1
    <3>1. PICK i \in 1 .. N : stream[i] = lo + 1
      <4>1. lo + 1 \in lo + 1 .. hi
        BY <1>1, <2>1
      <4>2. QED
        BY <4>1, <1>2
    <3>2. CASE i = 1
      BY <3>1, <3>2
    <3>3. CASE i # 1
      <4>1. 1 < i /\ stream[i] > 0
        BY <3>1, <3>3
      <4>2. stream[1] < stream[i]
        BY <4>1, <2>1, <1>1, <1>2, <1>7
      <4>3. QED
        BY <4>2, <3>1, <2>1, <1>1
    <3>4. QED
      BY <3>2, <3>3
  <2>3. \A i \in 1 .. N - 1 : rest[i] > 0 => lo + 1 < rest[i] /\ rest[i] <= hi
    <3> SUFFICES ASSUME NEW i \in 1 .. N - 1, rest[i] > 0 PROVE lo + 1 < rest[i] /\ rest[i] <= hi
      OBVIOUS
    <3>1. i + 1 \in 1 .. N /\ 1 < i + 1 /\ rest[i] = stream[i + 1]
      BY <1>1
    <3>2. stream[1] < stream[i + 1] /\ stream[i + 1] <= hi
      BY <3>1, <1>2, <2>1, <1>1
    <3>3. QED
      BY <3>1, <3>2, <2>2
  <2>4. \A b \in (lo + 1) + 1 .. hi : \E i \in 1 .. N - 1 : rest[i] = b
    <3>1. \A b \in (lo + 1) + 1 .. hi : b \in lo + 1 .. hi /\ stream[1] # b
      BY <2>2
    <3>2. QED
      BY <3>1, <1>5
  <2>5. QED
    BY <1>1, <1>4, <2>1, <2>2, <2>3, <2>4 DEF Carries
<1>8. QED
  BY <1>6, <1>7 DEF rest

LEMMA FramesMore ==
    ASSUME NEW stream \in Seq(Int), NEW waits \in BOOLEAN, NEW mid \in BOOLEAN, InFrames(stream, waits, mid),
           NEW x \in Int, x >= Size, x > 0 <=> mid
    PROVE  InFrames(Append(stream, x), waits, x = Size)
<1> DEFINE longer == Append(stream, x)
           N == Len(stream)
<1>1. /\ N \in Nat /\ Len(longer) = N + 1 /\ longer[N + 1] = x /\ longer # <<>>
      /\ \A i \in 1 .. N : longer[i] = stream[i]
      /\ stream = <<>> <=> N = 0
  OBVIOUS
<1>2. /\ \A i \in 1 .. N : stream[i] > 0 <=> IF i = 1 THEN waits ELSE stream[i - 1] = Size
      /\ \A i \in 1 .. N : stream[i] >= Size
      /\ mid <=> IF N = 0 THEN waits ELSE stream[N] = Size
  BY <1>1 DEF InFrames
<1> HIDE DEF longer, N
<1>3. ASSUME NEW i \in 1 .. N + 1 PROVE longer[i] > 0 <=> IF i = 1 THEN waits ELSE longer[i - 1] = Size
  <2>1. CASE i = N + 1
    <3>1. CASE N = 0
      BY <2>1, <3>1, <1>1, <1>2
    <3>2. CASE N # 0
      <4>1. longer[N] = stream[N] /\ N + 1 # 1 /\ (N + 1) - 1 = N
        BY <3>2, <1>1
      <4>2. QED
        BY <2>1, <3>2, <4>1, <1>1, <1>2
    <3>3. QED
      BY <3>1, <3>2
  <2>2. CASE i # N + 1
    <3>1. i \in 1 .. N /\ longer[i] = stream[i] /\ (i # 1 => longer[i - 1] = stream[i - 1])
      BY <2>2, <1>1
    <3>2. QED
      BY <3>1, <1>2
  <2>3. QED
    BY <2>1, <2>2
<1>4. \A i \in 1 .. N + 1 : longer[i] >= Size
  <2> SUFFICES ASSUME NEW i \in 1 .. N + 1 PROVE longer[i] >= Size
    OBVIOUS
  <2>1. longer[i] = x \/ (i \in 1 .. N /\ longer[i] = stream[i])
    BY <1>1
  <2>2. QED
    BY <2>1, <1>2
<1>5. QED
  BY <1>1, <1>3, <1>4 DEF InFrames, longer

LEMMA FramesLess ==
    ASSUME NEW stream \in Seq(Int), stream # <<>>, NEW waits \in BOOLEAN, NEW mid \in BOOLEAN,
           InFrames(stream, waits, mid)
    PROVE  Head(stream) \in Int /\ Head(stream) >= Size /\ (Head(stream) > 0 <=> waits) /\ InFrames(Tail(stream), Head(stream) = Size, mid)
<1> DEFINE rest == Tail(stream)
           N == Len(stream)
<1>1. /\ N \in Nat /\ N >= 1 /\ Len(rest) = N - 1 /\ Head(stream) = stream[1] /\ stream[1] \in Int
      /\ \A i \in 1 .. N - 1 : rest[i] = stream[i + 1]
      /\ rest = <<>> <=> N = 1
  <2>1. N \in Nat /\ N >= 1 /\ Head(stream) = stream[1] /\ stream[1] \in Int
    OBVIOUS
  <2>2. rest \in Seq(Int) /\ Len(rest) = N - 1 /\ \A i \in 1 .. N - 1 : rest[i] = stream[i + 1]
    OBVIOUS
  <2>3. rest = <<>> <=> Len(rest) = 0
    <3>1. \A q \in Seq(Int) : q = <<>> <=> Len(q) = 0
      OBVIOUS
    <3>2. QED
      BY <2>2, <3>1
  <2> HIDE DEF rest, N
  <2>4. QED
    BY <2>1, <2>2, <2>3
<1>2. /\ \A i \in 1 .. N : stream[i] > 0 <=> IF i = 1 THEN waits ELSE stream[i - 1] = Size
      /\ \A i \in 1 .. N : stream[i] >= Size
      /\ mid <=> stream[N] = Size
  BY <1>1 DEF InFrames
<1> HIDE DEF rest, N
<1>3. ASSUME NEW i \in 1 .. N - 1 PROVE rest[i] > 0 <=> IF i = 1 THEN stream[1] = Size ELSE rest[i - 1] = Size
  <2>1. i + 1 \in 1 .. N /\ i + 1 # 1 /\ (i + 1) - 1 = i /\ rest[i] = stream[i + 1]
    BY <1>1
  <2>2. rest[i] > 0 <=> stream[i] = Size
    BY <2>1, <1>2
  <2>3. i # 1 => rest[i - 1] = stream[i]
    BY <1>1
  <2>4. QED
    BY <2>2, <2>3
<1>4. mid <=> IF rest = <<>> THEN stream[1] = Size ELSE rest[Len(rest)] = Size
  BY <1>1, <1>2
<1>5. 1 \in 1 .. N
  BY <1>1
<1>6. \A i \in 1 .. N - 1 : rest[i] >= Size
  <2>1. \A i \in 1 .. N - 1 : i + 1 \in 1 .. N /\ rest[i] = stream[i + 1]
    BY <1>1
  <2>2. QED
    BY <2>1, <1>2
<1>7. QED
  BY <1>1, <1>2, <1>3, <1>4, <1>5, <1>6 DEF InFrames, rest

\* What a write delivers.
LEMMA Delivery ==
    ASSUME BridgeInv, NEW s \in Sides, NEW x \in Int, PutsOut(s, x)
    PROVE  /\ out' \in [{0, 1} -> Seq(Int)] /\ Unframed(out[1])' \in [wants : BOOLEAN, blocks : Seq(Int)]
           /\ Delivered(From(s))' = Delivered(From(s)) /\ Delivered(s) \in Seq(Int)
           /\ s = 0 => Unframed(out[1])' = Unframed(out[1])
           /\ ~Framed(s) => Delivered(s)' = Append(Delivered(s), x)
           /\ Framed(s) /\ Unframed(out[1]).wants =>
                Delivered(s)' = Append(Delivered(s), x) /\ ~Unframed(out[1])'.wants
           /\ Framed(s) /\ ~Unframed(out[1]).wants =>
                Delivered(s)' = Delivered(s) /\ (Unframed(out[1])'.wants <=> x # Ping)
<1>1. s \in {0, 1} /\ From(s) \in {0, 1} /\ From(s) # s /\ Sides = {0, 1}
  BY DEF Sides, From, FORWARD, BACKWARD
<1>2. out \in [{0, 1} -> Seq(Int)] /\ Unframed(out[1]) \in [wants : BOOLEAN, blocks : Seq(Int)]
  BY DEF BridgeInv, BridgeTypes
<1>3. out' \in [{0, 1} -> Seq(Int)] /\ out'[s] = Append(out[s], x) /\ out'[From(s)] = out[From(s)]
  BY <1>1, <1>2 DEF PutsOut
<1>4. Unframed(out'[s]) = ReadOn(Unframed(out[s]), x)
  BY <1>1, <1>2, <1>3, ReadingGrows
<1> DEFINE before == Unframed(out[1])
<1>5. before \in [wants : BOOLEAN, blocks : Seq(Int)]
  BY <1>2
<1> HIDE DEF before
<1>6. /\ ReadOn(before, x) \in [wants : BOOLEAN, blocks : Seq(Int)]
      /\ before.wants => ReadOn(before, x).blocks = Append(before.blocks, x) /\ ~ReadOn(before, x).wants
      /\ ~before.wants => ReadOn(before, x).blocks = before.blocks /\ (ReadOn(before, x).wants <=> x # Ping)
  <2>1. \A b \in BOOLEAN : /\ [before EXCEPT !.wants = b] \in [wants : BOOLEAN, blocks : Seq(Int)]
                           /\ [before EXCEPT !.wants = b].wants = b
                           /\ [before EXCEPT !.wants = b].blocks = before.blocks
    BY <1>5
  <2> DEFINE more == x # Ping
  <2>2. more \in BOOLEAN /\ ReadOn(before, x) = IF before.wants THEN [wants |-> FALSE, blocks |-> Append(before.blocks, x)]
                                                               ELSE [before EXCEPT !.wants = more]
    BY DEF ReadOn
  <2>3. CASE before.wants
    BY <1>5, <2>2, <2>3
  <2>4. CASE ~before.wants
    <3>1. ReadOn(before, x) = [before EXCEPT !.wants = more] /\ (more <=> x # Ping)
      BY <2>2, <2>4
    <3> HIDE DEF more
    <3>2. QED
      BY <2>1, <2>2, <2>4, <3>1
  <2>5. QED
    BY <2>3, <2>4
<1>7. s = 1 => Unframed(out'[1]) = ReadOn(before, x)
  BY <1>4 DEF before
<1>8. s = 0 => Unframed(out'[1]) = before
  BY <1>1, <1>3 DEF before, From
<1>9. Delivered(From(s))' = Delivered(From(s))
  BY <1>3 DEF Delivered, Framed
<1>10. Delivered(s) \in Seq(Int)
  BY <1>1, <1>2 DEF Delivered, Framed, Frames
<1>11. ~Framed(s) => Delivered(s)' = Append(Delivered(s), x)
  BY <1>3 DEF Delivered, Framed
<1>12. Framed(s) => s = 1 /\ Delivered(s) = before.blocks /\ Delivered(s)' = Unframed(out'[1]).blocks
  BY DEF Delivered, Framed, Frames, before
<1>13. Unframed(out'[1]) \in [wants : BOOLEAN, blocks : Seq(Int)]
  BY <1>1, <1>5, <1>6, <1>7, <1>8
<1>14. QED
  BY <1>3, <1>6, <1>7, <1>8, <1>9, <1>10, <1>11, <1>12, <1>13 DEF before

\* A direction of which a step moves nothing.
LEMMA SideKept ==
    ASSUME NEW s \in Sides, InHand(s), Delivered(s)' = Delivered(s), sent'[From(s)] = sent[From(s)],
           shut[From(s)] => shut'[From(s)], closed[From(s)] => closed'[From(s)],
           thread'[s] \in Carrying => /\ thread'[s] = thread[s] /\ block'[s] = block[s]
                                      /\ in'[From(s)] = in[From(s)],
           thread'[s] \in {"shutdown", "finish"} => thread[s] \in {"shutdown", "finish"}
    PROVE  InHand(s)'
<1>1. UnderWay(s)'
  BY DEF InHand, UnderWay, Passed, From
<1>2. Ordered(s)' /\ Drained(s)'
  BY DEF InHand, Ordered, Drained, From
<1>3. QED
  BY <1>1, <1>2 DEF InHand

LEMMA BridgeInitInv == BridgeInit => BridgeInv
<1> SUFFICES ASSUME BridgeInit PROVE BridgeInv
  OBVIOUS
<1>1. /\ in = [p \in {0, 1} |-> <<>>] /\ out = [p \in {0, 1} |-> <<>>]
      /\ sent = [p \in {0, 1} |-> 0] /\ midFrame = FALSE
      /\ closed = [p \in {0, 1} |-> FALSE] /\ shut = [p \in {0, 1} |-> FALSE]
      /\ thread = [s \in Sides |-> "read"] /\ block = [s \in Sides |-> 0]
      /\ (~Chunked => pingThread = "ended")
  BY DEF BridgeInit
<1>2. Sides = {0, 1} /\ \A s \in Sides : From(s) \in {0, 1}
  BY DEF Sides, From, FORWARD, BACKWARD
<1>3. /\ in \in [{0, 1} -> Seq(Int)] /\ out \in [{0, 1} -> Seq(Int)]
      /\ \A p \in {0, 1} : in[p] = <<>> /\ out[p] = <<>> /\ Len(in[p]) = 0
  BY <1>1
<1>4. Unframed(out[1]) = Unread
  BY <1>3, ReadingGrows
<1>5. Unread \in [wants : BOOLEAN, blocks : Seq(Int)] /\ ~Unread.wants /\ Unread.blocks = <<>>
  BY DEF Unread
<1>6. BridgeTypes
  <2>1. /\ sent \in [{0, 1} -> Nat] /\ midFrame \in BOOLEAN /\ closed \in [{0, 1} -> BOOLEAN]
        /\ shut \in [{0, 1} -> BOOLEAN]
    BY <1>1
  <2>2. thread \in [Sides -> Places] /\ block \in [Sides -> Int]
    BY <1>1 DEF Places
  <2>3. QED
    BY <1>3, <1>4, <1>5, <2>1, <2>2 DEF BridgeTypes
<1>7. \A s \in Sides : Delivered(s) = <<>> /\ Len(Delivered(s)) = 0
  BY <1>2, <1>3, <1>4, <1>5 DEF Delivered, Frames, Framed
<1>8. thread[0] = "read" /\ thread[1] = "read"
  BY <1>1, <1>2
<1>9. InFrames(in[1], thread[0] = "readBlock", midFrame)
  BY <1>1, <1>3, <1>8 DEF InFrames
<1>10. Framing
  BY <1>1, <1>3, <1>4, <1>5, <1>8, <1>9 DEF Framing
<1>11. ASSUME NEW s \in Sides PROVE InHand(s)
  <2>1. thread[s] = "read" /\ Passed(s) = 0 /\ sent[From(s)] = 0 /\ Len(in[From(s)]) = 0
    BY <1>1, <1>2, <1>3, <1>7 DEF Passed, Writing
  <2>2. Carries(in[From(s)], 0, 0)
    BY <2>1, CarriesNothing
  <2>3. QED
    BY <1>7, <2>1, <2>2 DEF InHand, UnderWay, Ordered, Drained, Writing
<1>12. QED
  BY <1>6, <1>10, <1>11 DEF BridgeInv

\* The two directions, and what the invariant says of each.
LEMMA BridgeFacts ==
    ASSUME BridgeInv
    PROVE  /\ Sides = {0, 1} /\ FORWARD = 1 /\ BACKWARD = 0 /\ From(0) = 1 /\ From(1) = 0
           /\ \A s \in Sides : s \in {0, 1} /\ From(s) \in {0, 1} /\ From(s) # s /\ From(From(s)) = s
           /\ \A s \in Sides : Delivered(s) \in Seq(Int) /\ Len(Delivered(s)) \in Nat /\ Passed(s) \in Nat
           /\ in \in [{0, 1} -> Seq(Int)] /\ out \in [{0, 1} -> Seq(Int)]
           /\ sent \in [{0, 1} -> Nat] /\ thread \in [Sides -> Places] /\ block \in [Sides -> Int]
           /\ closed \in [{0, 1} -> BOOLEAN] /\ shut \in [{0, 1} -> BOOLEAN] /\ midFrame \in BOOLEAN
<1>1. Sides = {0, 1} /\ FORWARD = 1 /\ BACKWARD = 0 /\ From(0) = 1 /\ From(1) = 0
  BY DEF Sides, From, FORWARD, BACKWARD
<1>2. BridgeTypes
  BY DEF BridgeInv
<1>3. ASSUME NEW s \in Sides PROVE Delivered(s) \in Seq(Int)
  BY <1>1, <1>2 DEF Delivered, Framed, Frames, BridgeTypes
<1>4. \A s \in Sides : Len(Delivered(s)) \in Nat
  BY <1>3
<1>5. \A s \in Sides : Passed(s) \in Nat
  BY <1>4 DEF Passed
<1>6. QED
  BY <1>1, <1>2, <1>3, <1>4, <1>5 DEF BridgeTypes

\* Steps of neither direction: the ping thread's own, and the end of process().
LEMMA OutsideSteps ==
    ASSUME BridgeInv,
           UNCHANGED <<in, out, sent, midFrame, closed, shut, block>>, ~Chunked => pingThread' = pingThread,
           \/ thread' = thread
           \/ \E place \in Places \ (Carrying \cup {"shutdown", "finish"}) :
                 thread' = [thread EXCEPT ![1] = place] /\ thread[1] \notin Carrying
    PROVE  BridgeInv'
<1>1. thread' \in [Sides -> Places]
  <2>1. thread \in [Sides -> Places]
    BY BridgeFacts
  <2>2. QED
    BY <2>1
<1>2. thread'[0] = thread[0] /\ \/ thread'[1] = thread[1]
                                \/ thread[1] \notin Carrying /\ thread'[1] \notin Carrying \cup {"shutdown", "finish"}
  BY BridgeFacts
<1>3. BridgeTypes'
  BY <1>1 DEF BridgeInv, BridgeTypes
<1>4. Framing'
  BY <1>2 DEF BridgeInv, Framing, Carrying, Writing
<1>5. \A s \in Sides : Delivered(s)' = Delivered(s)
  BY DEF Delivered, Framed
<1>6. \A s \in Sides : InHand(s)'
  BY <1>2, <1>5, BridgeFacts, SideKept DEF BridgeInv
<1>7. QED
  BY <1>3, <1>4, <1>6 DEF BridgeInv

\* The other end sends p something more.
LEMMA ArrivesInv ==
    ASSUME BridgeInv, NEW p \in {0, 1}, NEW x \in Int, Arrives(p, x),
           UNCHANGED <<out, closed, shut, thread, block, pingThread>>,
           \/ x \in {Ping, Size} /\ Framed(p) /\ ~midFrame /\ midFrame' = (x = Size) /\ sent' = sent
           \/ /\ sent' = [sent EXCEPT ![p] = @ + 1] /\ x = sent[p] + 1 /\ ~closed[p]
              /\ Framed(p) => midFrame
              /\ midFrame' = IF Framed(p) THEN FALSE ELSE midFrame
    PROVE  BridgeInv'
<1> DEFINE o == 1 - p
<1>1. /\ o \in Sides /\ p \in Sides /\ From(o) = p /\ From(p) = o /\ o # p /\ \A s \in Sides : s = p \/ s = o
  BY DEF Sides, From, FORWARD, BACKWARD
<1>2. /\ in' \in [{0, 1} -> Seq(Int)] /\ in'[p] = Append(in[p], x) /\ in'[o] = in[o]
      /\ sent' \in [{0, 1} -> Nat] /\ sent'[o] = sent[o] /\ midFrame' \in BOOLEAN
  <2>1. in' \in [{0, 1} -> Seq(Int)] /\ in'[p] = Append(in[p], x) /\ in'[o] = in[o]
    <3>1. in \in [{0, 1} -> Seq(Int)]
      BY BridgeFacts
    <3>2. in' \in [{0, 1} -> Seq(Int)] /\ in'[p] = Append(in[p], x)
      BY <3>1 DEF Arrives
    <3>3. in'[o] = in[o]
      BY <3>1, <1>1, BridgeFacts DEF Arrives
    <3>4. QED
      BY <3>2, <3>3
  <2>2. sent' \in [{0, 1} -> Nat] /\ sent'[o] = sent[o]
    <3>1. sent \in [{0, 1} -> Nat] /\ o \in {0, 1} /\ o # p
      BY <1>1, BridgeFacts
    <3> HIDE DEF o
    <3>2. CASE sent' = sent
      BY <3>1, <3>2
    <3>3. CASE sent' = [sent EXCEPT ![p] = @ + 1]
      BY <3>1, <3>3
    <3>4. QED
      BY <3>2, <3>3
  <2>3. midFrame' \in BOOLEAN
    BY BridgeFacts
  <2>4. QED
    BY <2>1, <2>2, <2>3
<1>3. BridgeTypes'
  BY <1>2 DEF BridgeInv, BridgeTypes
<1>4. sent[p] \in Nat /\ in[p] \in Seq(Int)
  BY BridgeFacts
<1>5. \A i \in 1 .. Len(in'[p]) : in'[p][i] = x \/ (i \in 1 .. Len(in[p]) /\ in'[p][i] = in[p][i])
  BY <1>2, <1>4
<1>6. Framing'
  <2>5. Framing /\ (~Framed(p) => x > 0)
    <3>1. x = sent[p] + 1 => x > 0
      BY <1>4
    <3>2. QED
      BY <3>1 DEF BridgeInv
  <2>1. \A i \in 1 .. Len(in'[0]) : in'[0][i] > 0
    <3>1. CASE p = 0
      BY <3>1, <2>5, <1>5 DEF Framing, Framed
    <3>2. CASE p = 1
      BY <3>2, <2>5, <1>2 DEF Framing
    <3>3. QED
      BY <3>1, <3>2
  <2>2. ~Chunked => \A i \in 1 .. Len(in'[1]) : in'[1][i] > 0
    <3>1. CASE p = 1
      BY <3>1, <2>5, <1>5 DEF Framing, Framed
    <3>2. CASE p = 0
      <4>1. in'[1] = in[1]
        BY <3>2, <1>2
      <4>2. QED
        BY <4>1, <2>5 DEF Framing
    <3>3. QED
      BY <3>1, <3>2
  <2>3. Chunked /\ thread[0] \in Carrying => InFrames(in'[1], thread[0] = "readBlock", midFrame')
    <3> SUFFICES ASSUME Chunked, thread[0] \in Carrying PROVE InFrames(in'[1], thread[0] = "readBlock", midFrame')
      OBVIOUS
    <3>1. InFrames(in[1], thread[0] = "readBlock", midFrame)
      BY DEF BridgeInv, Framing
    <3>2. CASE p = 0
      <4>1. in'[1] = in[1] /\ midFrame' = midFrame
        BY <3>2, <1>2 DEF Framed
      <4>2. QED
        BY <3>1, <4>1
    <3>3. CASE p = 1
      <4>1. x >= Size /\ (x > 0 <=> midFrame) /\ midFrame' = (x = Size)
        <5>1. Framed(p)
          BY <3>3 DEF Framed
        <5>2. CASE x \in {Ping, Size} /\ ~midFrame /\ midFrame' = (x = Size)
          BY <5>2 DEF Ping, Size
        <5>3. CASE x = sent[p] + 1 /\ midFrame /\ midFrame' = FALSE
          <6>1. x > 0 /\ x # Size /\ x >= Size
            BY <5>3, <1>4 DEF Size
          <6>2. QED
            BY <5>3, <6>1
        <5>4. QED
          BY <5>1, <5>2, <5>3
      <4>2. InFrames(Append(in[1], x), thread[0] = "readBlock", x = Size)
        BY <3>1, <3>3, <4>1, <1>4, BridgeFacts, FramesMore
      <4>3. QED
        BY <3>3, <4>1, <4>2, <1>2
    <3>4. QED
      BY <3>2, <3>3
  <2>4. QED
    BY <2>1, <2>2, <2>3 DEF BridgeInv, Framing
<1>7. \A s \in Sides : Delivered(s)' = Delivered(s)
  BY DEF Delivered, Framed
<1>8. InHand(p)'
  BY <1>1, <1>2, <1>7, SideKept DEF BridgeInv
<1>9. InHand(o)'
  <2>1. InHand(o) /\ sent[p] <= sent'[p] /\ Passed(o)' = Passed(o) /\ Passed(o) \in Nat
    <3>1. sent[p] <= sent'[p]
      <4>1. sent \in [{0, 1} -> Nat]
        BY BridgeFacts
      <4>2. sent'[p] = sent[p] \/ sent'[p] = sent[p] + 1
        BY <4>1
      <4>3. QED
        BY <4>2, <1>4
    <3>2. InHand(o) /\ Passed(o)' = Passed(o)
      BY <1>1, <1>7 DEF BridgeInv, Passed
    <3>3. QED
      BY <3>1, <3>2, <1>1, BridgeFacts
  <2>2. thread[o] \in Carrying => Carries(in'[p], Passed(o), sent'[p])
    <3> SUFFICES ASSUME thread[o] \in Carrying PROVE Carries(in'[p], Passed(o), sent'[p])
      OBVIOUS
    <3>1. Carries(in[p], Passed(o), sent[p]) /\ Passed(o) <= sent[p]
      BY <2>1, <1>1 DEF InHand, UnderWay
    <3>2. /\ x <= 0 => Carries(Append(in[p], x), Passed(o), sent[p])
          /\ x = sent[p] + 1 => Carries(Append(in[p], x), Passed(o), sent[p] + 1)
      BY <3>1, <2>1, <1>4, CarriesMore
    <3>3. \/ x <= 0 /\ sent'[p] = sent[p]
          \/ x = sent[p] + 1 /\ sent'[p] = sent[p] + 1
      <4>1. sent \in [{0, 1} -> Nat]
        BY BridgeFacts
      <4>2. CASE x \in {Ping, Size} /\ sent' = sent
        BY <4>2 DEF Ping, Size
      <4>3. CASE sent' = [sent EXCEPT ![p] = @ + 1] /\ x = sent[p] + 1
        BY <4>1, <4>3
      <4>4. QED
        BY <4>2, <4>3
    <3>4. QED
      BY <3>2, <3>3, <1>2
  <2>3. UnderWay(o)'
    <3>1. Passed(o) <= sent[p] => Passed(o) <= sent'[p]
      BY <2>1, <1>4, <1>2
    <3>2. QED
      BY <2>1, <2>2, <3>1, <1>1 DEF InHand, UnderWay
  <2>4. Ordered(o)'
    <3>1. Len(Delivered(o)) \in Nat /\ sent'[p] \in Nat
      BY <1>1, <1>2, BridgeFacts
    <3>2. QED
      BY <2>1, <3>1, <1>1, <1>4, <1>7 DEF InHand, Ordered
  <2>5. Drained(o)'
    <3>1. closed[p] => sent'[p] = sent[p]
      OBVIOUS
    <3>2. QED
      BY <2>1, <3>1, <1>1, <1>7 DEF InHand, Drained
  <2>6. QED
    BY <2>3, <2>4, <2>5 DEF InHand
<1>10. QED
  BY <1>1, <1>3, <1>6, <1>8, <1>9 DEF BridgeInv

\* A block is read: the next one, for a thread that will write it.
LEMMA TakesBlock ==
    ASSUME BridgeInv, NEW s \in Sides, Readable(s), Take(s), Head(in[From(s)]) > 0,
           thread[s] \in {"read", "readBlock"},
           NEW place \in Writing, place = "writeSize" <=> Framed(s), thread' = [thread EXCEPT ![s] = place],
           block' = [block EXCEPT ![s] = Head(in[From(s)])],
           UNCHANGED <<out, sent, midFrame, closed, shut, pingThread>>
    PROVE  BridgeInv'
<1> DEFINE p == From(s)
<1>1. /\ p \in {0, 1} /\ p \in Sides /\ s \in {0, 1} /\ p # s /\ From(p) = s /\ \A t \in Sides : t = s \/ t = p
      /\ (s = 0 => p = 1) /\ (s = 1 => p = 0)
  BY DEF Sides, From, FORWARD, BACKWARD
<1>2. in[p] \in Seq(Int) /\ in[p] # <<>> /\ Head(in[p]) \in Int
  <2>1. in \in [{0, 1} -> Seq(Int)]
    BY BridgeFacts
  <2>2. in[p] \in Seq(Int) /\ in[p] # <<>>
    BY <1>1, <2>1 DEF Readable
  <2>3. QED
    BY <2>2
<1>3. /\ in' \in [{0, 1} -> Seq(Int)] /\ in'[p] = Tail(in[p]) /\ in'[s] = in[s]
  <2>1. in \in [{0, 1} -> Seq(Int)] /\ in' = [in EXCEPT ![p] = Tail(@)] /\ Tail(in[p]) \in Seq(Int)
    BY <1>2, BridgeFacts DEF Take
  <2> HIDE DEF p
  <2>2. QED
    BY <1>1, <2>1
<1>4. /\ thread' \in [Sides -> Places] /\ thread'[s] = place /\ thread'[p] = thread[p]
      /\ block' \in [Sides -> Int] /\ block'[s] = Head(in[p]) /\ block'[p] = block[p]
  BY <1>1, <1>2, BridgeFacts DEF Writing, Places
<1>5. BridgeTypes'
  BY <1>3, <1>4 DEF BridgeInv, BridgeTypes
<1>6. Framing'
  <2>1. Framing
    BY DEF BridgeInv
  <2>2. \A i \in 1 .. Len(in'[p]) : i + 1 \in 1 .. Len(in[p]) /\ in'[p][i] = in[p][i + 1]
    <3>1. \A q \in Seq(Int) : q # <<>> => \A i \in 1 .. Len(Tail(q)) : i + 1 \in 1 .. Len(q) /\ Tail(q)[i] = q[i + 1]
      OBVIOUS
    <3>2. QED
      BY <1>2, <1>3, <3>1
  <2>3. \A i \in 1 .. Len(in'[0]) : in'[0][i] > 0
    <3>1. CASE p = 0
      BY <3>1, <2>1, <2>2 DEF Framing
    <3>2. CASE s = 0
      BY <3>2, <1>3, <2>1 DEF Framing
    <3>3. QED
      BY <3>1, <3>2, <1>1
  <2>4. ~Chunked => \A i \in 1 .. Len(in'[1]) : in'[1][i] > 0
    <3>1. CASE p = 1
      BY <3>1, <2>1, <2>2 DEF Framing
    <3>2. CASE s = 1
      BY <3>2, <1>3, <2>1 DEF Framing
    <3>3. QED
      BY <3>1, <3>2, <1>1
  <2>5. Chunked /\ thread'[0] \in Carrying => InFrames(in'[1], thread'[0] = "readBlock", midFrame)
    <3> SUFFICES ASSUME Chunked, thread'[0] \in Carrying PROVE InFrames(in'[1], thread'[0] = "readBlock", midFrame)
      OBVIOUS
    <3>1. CASE s = 0
      <4>1. InFrames(in[1], thread[0] = "readBlock", midFrame)
        BY <3>1, <2>1 DEF Framing, Carrying
      <4>2. InFrames(Tail(in[1]), Head(in[1]) = Size, midFrame)
        BY <4>1, <3>1, <1>1, <1>2, FramesLess, BridgeFacts
      <4>3. (Head(in[1]) = Size) = (thread'[0] = "readBlock")
        BY <3>1, <1>1, <1>4 DEF Size, Writing
      <4>4. in'[1] = Tail(in[1])
        BY <3>1, <1>1, <1>3
      <4>5. QED
        BY <4>2, <4>3, <4>4
    <3>2. CASE s = 1
      <4>1. in'[1] = in[1] /\ thread'[0] = thread[0]
        BY <3>2, <1>1, <1>3, <1>4
      <4>2. QED
        BY <4>1, <2>1 DEF Framing
    <3>3. QED
      BY <1>1, <3>1, <3>2
  <2>6. /\ thread'[0] # "writeSize" /\ (thread'[1] = "writeSize" => Chunked)
        /\ thread'[1] # "readBlock" /\ (thread'[0] = "readBlock" => Chunked)
    BY <1>1, <1>4, <2>1 DEF Framing, Framed, Writing
  <2>7. Chunked /\ ~shut[1] => (Unframed(out[1]).wants <=> thread'[1] = "write")
    BY <1>1, <1>4, <2>1 DEF Framing, Framed
  <2>8. QED
    BY <2>1, <2>3, <2>4, <2>5, <2>6, <2>7 DEF Framing
<1>7. \A t \in Sides : Delivered(t)' = Delivered(t)
  BY DEF Delivered, Framed
<1>8. InHand(p)'
  BY <1>1, <1>3, <1>4, <1>7, SideKept DEF BridgeInv
<1>9. InHand(s)'
  <2>1. InHand(s) /\ Passed(s) = Len(Delivered(s)) /\ Passed(s)' = Passed(s) + 1
    BY <1>4, <1>7 DEF BridgeInv, Passed, Writing
  <2>2. Carries(in[p], Passed(s), sent[p]) /\ Passed(s) <= sent[p]
    BY <2>1 DEF InHand, UnderWay, Carrying
  <2>3. Passed(s) \in Nat /\ sent[p] \in Nat
    BY <1>1, BridgeFacts
  <2>4. Head(in[p]) = Passed(s) + 1 /\ Passed(s) + 1 <= sent[p] /\ Carries(Tail(in[p]), Passed(s) + 1, sent[p])
    BY <1>2, <2>2, <2>3, CarriesLess
  <2>5. UnderWay(s)'
    BY <1>3, <1>4, <2>1, <2>4 DEF UnderWay, From
  <2>6. Ordered(s)' /\ Drained(s)'
    BY <1>4, <1>7, <2>1 DEF InHand, Ordered, Drained, From, Writing
  <2>7. QED
    BY <2>5, <2>6 DEF InHand
<1>10. QED
  BY <1>1, <1>5, <1>6, <1>8, <1>9 DEF BridgeInv

\* A size is read from the framed socket.
LEMMA TakesSize ==
    ASSUME BridgeInv, NEW s \in Sides, ReadSize(s)
    PROVE  BridgeInv'
<1> DEFINE place == IF Head(in[1]) # Ping THEN "readBlock" ELSE IF terminated THEN "ended" ELSE "read"
<1>1. s = 0 /\ From(s) = 1 /\ Chunked /\ thread[0] = "read" /\ \A t \in Sides : t = 0 \/ t = 1
  BY DEF ReadSize, Framed, From, Sides, FORWARD, BACKWARD
<1>2. /\ in[1] # <<>> /\ in[1] \in Seq(Int) /\ in' = [in EXCEPT ![1] = Tail(@)]
      /\ thread' = [thread EXCEPT ![0] = place]
      /\ UNCHANGED <<out, sent, midFrame, closed, shut, block, pingThread>>
  BY <1>1, BridgeFacts DEF ReadSize, Readable, Take, Goto, pipeVars, remoteVars
<1>3. /\ in' \in [{0, 1} -> Seq(Int)] /\ in'[1] = Tail(in[1]) /\ in'[0] = in[0]
  BY <1>2, BridgeFacts
<1>4. /\ thread' \in [Sides -> Places] /\ thread'[0] = place /\ thread'[1] = thread[1]
  BY <1>2, BridgeFacts DEF Places
<1>5. BridgeTypes'
  BY <1>2, <1>3, <1>4 DEF BridgeInv, BridgeTypes
<1>6. Head(in[1]) \in Int /\ Head(in[1]) >= Size /\ ~(Head(in[1]) > 0) /\ InFrames(Tail(in[1]), Head(in[1]) = Size, midFrame)
  <2>1. InFrames(in[1], FALSE, midFrame)
    BY <1>1 DEF BridgeInv, Framing, Carrying
  <2>2. QED
    BY <2>1, <1>2, FramesLess, BridgeFacts
<1>7. Head(in[1]) # Ping <=> Head(in[1]) = Size
  BY <1>6 DEF Ping, Size
<1>8. Framing'
  <2>1. Framing
    BY DEF BridgeInv
  <2>2. thread'[0] \in Carrying => InFrames(in'[1], thread'[0] = "readBlock", midFrame)
    <3>1. (Head(in[1]) = Size) = (thread'[0] = "readBlock")
      BY <1>4, <1>7
    <3>2. QED
      BY <1>3, <1>6, <3>1
  <2>3. thread'[0] # "writeSize"
    BY <1>4
  <2>4. QED
    BY <1>1, <1>2, <1>3, <1>4, <2>1, <2>2, <2>3 DEF Framing
<1>9. \A t \in Sides : Delivered(t)' = Delivered(t)
  BY <1>2 DEF Delivered, Framed
<1>10. InHand(1)'
  BY <1>2, <1>3, <1>4, <1>9, SideKept, BridgeFacts DEF BridgeInv
<1>11. InHand(0)'
  <2>1. InHand(0) /\ Passed(0) = Len(Delivered(0)) /\ Passed(0)' = Passed(0) /\ 0 \in Sides
    BY <1>1, <1>4, <1>9 DEF BridgeInv, Passed, Writing
  <2>2. Carries(in[1], Passed(0), sent[1]) /\ Passed(0) <= sent[1]
    BY <1>1, <2>1 DEF InHand, UnderWay, Carrying
  <2>3. Passed(0) \in Nat /\ sent[1] \in Nat
    BY <2>1, BridgeFacts
  <2>4. Carries(Tail(in[1]), Passed(0), sent[1])
    BY <1>2, <1>6, <2>2, <2>3, CarriesLess
  <2>5. UnderWay(0)'
    BY <1>1, <1>2, <1>3, <1>4, <2>1, <2>2, <2>4 DEF UnderWay, From, Writing
  <2>6. Ordered(0)' /\ Drained(0)'
    BY <1>1, <1>2, <1>4, <1>9, <2>1 DEF InHand, Ordered, Drained, From
  <2>7. QED
    BY <2>5, <2>6 DEF InHand
<1>12. QED
  BY <1>1, <1>5, <1>8, <1>10, <1>11 DEF BridgeInv

\* A thread that ends, or is on its way out: it carries nothing further.
LEMMA ThreadEnds ==
    ASSUME BridgeInv, NEW s \in Sides, NEW place \in Places \ Carrying, thread' = [thread EXCEPT ![s] = place],
           UNCHANGED <<in, out, sent, midFrame, closed, block, pingThread>>,
           shut' \in [{0, 1} -> BOOLEAN], \A q \in {0, 1} : shut[q] => shut'[q],
           thread[s] = "write" => shut'[s],
           place \in {"shutdown", "finish"} =>
             \/ thread[s] \in {"shutdown", "finish"}
             \/ in[From(s)] = <<>> /\ (closed[From(s)] \/ shut[From(s)]) /\ thread[s] \in {"read", "readBlock"}
    PROVE  BridgeInv'
<1> DEFINE p == From(s)
<1>1. /\ p \in {0, 1} /\ p \in Sides /\ s \in {0, 1} /\ p # s /\ From(p) = s /\ \A t \in Sides : t = s \/ t = p
  BY DEF Sides, From, FORWARD, BACKWARD
<1>2. thread' \in [Sides -> Places] /\ thread'[s] = place /\ thread'[p] = thread[p]
  BY <1>1, BridgeFacts
<1>3. BridgeTypes'
  BY <1>2 DEF BridgeInv, BridgeTypes
<1>4. Framing'
  <2>1. Framing
    BY DEF BridgeInv
  <2>2. \A t \in Sides : thread'[t] = thread[t] \/ (t = s /\ thread'[t] \notin Carrying)
    BY <1>1, <1>2
  <2>3. Chunked /\ thread'[0] \in Carrying => thread'[0] = thread[0]
    BY <2>2, BridgeFacts
  <2>4. /\ thread'[0] # "writeSize" /\ (thread'[1] = "writeSize" => Chunked)
        /\ thread'[1] # "readBlock" /\ (thread'[0] = "readBlock" => Chunked)
    BY <2>1, <2>2, BridgeFacts DEF Framing, Carrying, Writing
  <2>5. Chunked /\ ~shut'[1] => (Unframed(out[1]).wants <=> thread'[1] = "write")
    <3>1. ~shut'[1] => (thread'[1] = "write" <=> thread[1] = "write")
      BY <2>2, BridgeFacts DEF Carrying, Writing
    <3>2. QED
      BY <2>1, <3>1 DEF Framing
  <2>6. QED
    BY <2>1, <2>3, <2>4, <2>5 DEF Framing
<1>5. \A t \in Sides : Delivered(t)' = Delivered(t)
  BY DEF Delivered, Framed
<1>6. InHand(p)'
  BY <1>1, <1>2, <1>5, SideKept DEF BridgeInv
<1>7. InHand(s)'
  <2>1. CASE place \in {"shutdown", "finish"} => thread[s] \in {"shutdown", "finish"}
    BY <2>1, <1>1, <1>2, <1>5, SideKept DEF BridgeInv
  <2>2. CASE in[p] = <<>> /\ (closed[p] \/ shut[p]) /\ thread[s] \in {"read", "readBlock"}
    <3>1. InHand(s) /\ Passed(s) = Len(Delivered(s))
      BY <2>2 DEF BridgeInv, Passed, Writing
    <3>2. Carries(in[p], Passed(s), sent[p]) /\ Passed(s) <= sent[p]
      BY <2>2, <3>1 DEF InHand, UnderWay, Carrying
    <3>3. Passed(s) \in Nat /\ sent[p] \in Nat /\ Len(in[p]) = 0
      BY <1>1, <2>2, BridgeFacts
    <3>4. Len(Delivered(s)) = sent[p]
      BY <3>1, <3>2, <3>3, CarriesNothing
    <3>5. UnderWay(s)'
      BY <1>2 DEF UnderWay
    <3>6. Ordered(s)' /\ Drained(s)'
      BY <1>1, <1>5, <2>2, <3>1, <3>4 DEF InHand, Ordered, Drained, From
    <3>7. QED
      BY <3>5, <3>6 DEF InHand
  <2>3. QED
    BY <2>1, <2>2
<1>8. QED
  BY <1>1, <1>3, <1>4, <1>6, <1>7 DEF BridgeInv

\* Something written to s by its thread, or a ping.
LEMMA Puts ==
    ASSUME BridgeInv, NEW s \in Sides, NEW x \in Int, PutsOut(s, x), ~shut[s],
           NEW place \in Places, thread' = [thread EXCEPT ![s] = place],
           UNCHANGED <<in, sent, midFrame, closed, shut, block>>, ~Chunked => pingThread' = pingThread,
           \/ Framed(s) /\ thread[s] = "writeSize" /\ x = Size /\ place = "write"
           \/ thread[s] = "write" /\ x = block[s] /\ place = "read"
           \/ Framed(s) /\ thread[s] # "write" /\ x = Ping /\ place = thread[s]
    PROVE  BridgeInv'
<1> DEFINE p == From(s)
<1>1. /\ p \in {0, 1} /\ p \in Sides /\ s \in {0, 1} /\ p # s /\ From(p) = s /\ \A t \in Sides : t = s \/ t = p
      /\ (s = 0 => p = 1) /\ (s = 1 => p = 0)
  BY DEF Sides, From, FORWARD, BACKWARD
<1>2. thread' \in [Sides -> Places] /\ thread'[s] = place /\ thread'[p] = thread[p]
  BY <1>1, BridgeFacts DEF Places
<1>3. BridgeTypes'
  BY <1>2, Delivery DEF BridgeInv, BridgeTypes
<1>4. /\ Delivered(p)' = Delivered(p) /\ Delivered(s) \in Seq(Int)
      /\ s = 0 => Unframed(out[1])' = Unframed(out[1])
      /\ ~Framed(s) => Delivered(s)' = Append(Delivered(s), x)
      /\ Framed(s) /\ Unframed(out[1]).wants => Delivered(s)' = Append(Delivered(s), x) /\ ~Unframed(out[1])'.wants
      /\ Framed(s) /\ ~Unframed(out[1]).wants =>
           Delivered(s)' = Delivered(s) /\ (Unframed(out[1])'.wants <=> x # Ping)
  BY Delivery
<1>5. Framed(s) <=> Chunked /\ s = 1
  BY DEF Framed
<1>6. Framing
  BY DEF BridgeInv
<1>7. Framed(s) => (Unframed(out[1]).wants <=> thread[s] = "write")
  BY <1>5, <1>6 DEF Framing
<1>8. InHand(p)'
  BY <1>1, <1>2, <1>4, SideKept DEF BridgeInv
<1>9. thread'[0] = "readBlock" <=> thread[0] = "readBlock"
  BY <1>1, <1>2
<1>10. thread'[0] \in Carrying => thread[0] \in Carrying
  BY <1>1, <1>2 DEF Carrying, Writing
<1>11. /\ thread'[0] # "writeSize" /\ (thread'[1] = "writeSize" => Chunked)
       /\ thread'[1] # "readBlock" /\ (thread'[0] = "readBlock" => Chunked)
  BY <1>1, <1>2, <1>5, <1>6 DEF Framing
<1>12. Chunked /\ ~shut[1] => (Unframed(out[1])'.wants <=> thread'[1] = "write")
  <2>1. CASE s = 0
    BY <2>1, <1>1, <1>2, <1>4, <1>6 DEF Framing
  <2>2. CASE s = 1 /\ Chunked
    <3>1. CASE thread[s] = "write" /\ place = "read"
      BY <2>2, <3>1, <1>2, <1>4, <1>5, <1>7
    <3>2. CASE thread[s] = "writeSize" /\ x = Size /\ place = "write"
      BY <2>2, <3>2, <1>2, <1>4, <1>5, <1>7 DEF Size, Ping
    <3>3. CASE thread[s] # "write" /\ x = Ping /\ place = thread[s]
      BY <2>2, <3>3, <1>2, <1>4, <1>5, <1>7
    <3>4. QED
      BY <3>1, <3>2, <3>3
  <2>3. QED
    BY <2>1, <2>2, <1>1
<1>13. Framing'
  <2>1. Chunked /\ thread'[0] \in Carrying => InFrames(in[1], thread'[0] = "readBlock", midFrame)
    <3>1. (thread'[0] = "readBlock") = (thread[0] = "readBlock")
      BY <1>9
    <3>2. QED
      BY <3>1, <1>6, <1>10 DEF Framing
  <2>2. QED
    BY <2>1, <1>6, <1>11, <1>12 DEF Framing
<1>14. InHand(s)'
  <2>1. InHand(s) /\ Len(Delivered(s)) \in Nat /\ sent[p] \in Nat
    BY <1>1, BridgeFacts DEF BridgeInv
  <2>2. CASE Framed(s) /\ thread[s] # "write" /\ x = Ping /\ place = thread[s]
    BY <2>2, <1>1, <1>2, <1>4, <1>7, SideKept DEF BridgeInv
  <2>3. CASE Framed(s) /\ thread[s] = "writeSize" /\ x = Size /\ place = "write"
    <3>1. Delivered(s)' = Delivered(s) /\ Passed(s)' = Passed(s) /\ thread[s] \in Writing /\ thread'[s] \in Writing
      BY <2>3, <1>2, <1>4, <1>7 DEF Passed, Writing
    <3>2. UnderWay(s)'
      BY <2>1, <3>1 DEF InHand, UnderWay, From, Carrying
    <3>3. Ordered(s)' /\ Drained(s)'
      BY <2>1, <2>3, <3>1, <1>2 DEF InHand, Ordered, Drained, From
    <3>4. QED
      BY <3>2, <3>3 DEF InHand
  <2>4. CASE thread[s] = "write" /\ x = block[s] /\ place = "read"
    <3>1. Delivered(s)' = Append(Delivered(s), x)
      BY <2>4, <1>4, <1>7
    <3>2. thread[s] \in Writing /\ thread'[s] = "read" /\ Passed(s) = Len(Delivered(s)) + 1
      BY <2>4, <1>2 DEF Passed, Writing
    <3>3. x = Len(Delivered(s)) + 1 /\ Carries(in[p], Passed(s), sent[p]) /\ Passed(s) <= sent[p]
      BY <2>1, <2>4, <3>2 DEF InHand, UnderWay, Carrying
    <3>4. Len(Delivered(s)') = Len(Delivered(s)) + 1
      BY <1>4, <3>1
    <3>5. Passed(s)' = Passed(s)
      BY <2>1, <3>2, <3>4 DEF Passed, Writing
    <3>6. UnderWay(s)'
      BY <3>2, <3>3, <3>5 DEF UnderWay, From, Writing
    <3>7. Ordered(s)'
      <4>1. \A n \in 1 .. Len(Delivered(s)) : Delivered(s)[n] = n
        BY <2>1 DEF InHand, Ordered
      <4>2. \A n \in 1 .. Len(Delivered(s)) + 1 : Delivered(s)'[n] = n
        <5> DEFINE sofar == Delivered(s)
        <5>1. sofar \in Seq(Int)
          BY <1>4
        <5> HIDE DEF sofar
        <5>2. \A n \in 1 .. Len(sofar) + 1 : Append(sofar, x)[n] = IF n = Len(sofar) + 1 THEN x ELSE sofar[n]
          BY <5>1
        <5>3. QED
          BY <5>2, <4>1, <3>1, <3>3, <2>1 DEF sofar
      <4>3. QED
        BY <3>2, <3>3, <3>4, <4>2, <2>1 DEF Ordered, From
    <3>8. Drained(s)'
      BY <3>2 DEF Drained
    <3>9. QED
      BY <3>6, <3>7, <3>8 DEF InHand
  <2>5. QED
    BY <2>2, <2>3, <2>4
<1>15. QED
  BY <1>1, <1>3, <1>8, <1>13, <1>14 DEF BridgeInv

LEMMA BridgeStepInv == BridgeInv /\ [BridgeNext]_bridgevars => BridgeInv'
<1> SUFFICES ASSUME BridgeInv, [BridgeNext]_bridgevars PROVE BridgeInv'
  OBVIOUS
<1>1. /\ 1 \in Sides /\ 0 \in Sides /\ FORWARD = 1 /\ BACKWARD = 0
      /\ thread \in [Sides -> Places] /\ block \in [Sides -> Int] /\ sent \in [{0, 1} -> Nat]
  BY BridgeFacts
<1>2. ASSUME NEW p \in {0, 1}, SendBlock(p) PROVE BridgeInv'
  <2>1. sent[p] + 1 \in Int
    BY <1>1
  <2>2. QED
    BY <1>2, <2>1, ArrivesInv DEF SendBlock, threadVars
<1>3. CASE SendSize
  <2>1. Size \in Int /\ Framed(1) /\ Size = Size
    BY <1>3 DEF SendSize, Size
  <2>2. QED
    BY <1>3, <2>1, ArrivesInv DEF SendSize, threadVars
<1>4. CASE SendsPing
  <2>1. Ping \in Int /\ (Ping = Size) = FALSE
    BY DEF Ping, Size
  <2>2. midFrame' = FALSE /\ ~midFrame
    BY <1>4, BridgeFacts DEF SendsPing
  <2>3. QED
    BY <1>4, <2>1, <2>2, ArrivesInv DEF SendsPing, threadVars
<1>5. ASSUME NEW p \in {0, 1}, Close(p) PROVE BridgeInv'
  <2>1. /\ closed' \in [{0, 1} -> BOOLEAN] /\ \A q \in {0, 1} : closed[q] => closed'[q]
        /\ UNCHANGED <<in, out, sent, midFrame, shut, thread, block, pingThread>>
    BY <1>5, BridgeFacts DEF Close, threadVars
  <2>2. BridgeTypes' /\ Framing'
    BY <2>1 DEF BridgeInv, BridgeTypes, Framing
  <2>3. \A s \in Sides : Delivered(s)' = Delivered(s)
    BY <2>1 DEF Delivered, Framed
  <2>4. \A s \in Sides : InHand(s)'
    BY <2>1, <2>3, SideKept, BridgeFacts DEF BridgeInv
  <2>5. QED
    BY <2>2, <2>4 DEF BridgeInv
<1>6. ASSUME NEW s \in Sides, ReadBlock(s) PROVE BridgeInv'
  <2>1. Head(in[From(s)]) > 0
    <3>1. in[From(s)] \in Seq(Int) /\ in[From(s)] # <<>> /\ From(s) \in {0, 1} /\ ~Framed(From(s))
      BY <1>6, BridgeFacts DEF ReadBlock, Readable
    <3>2. 1 \in 1 .. Len(in[From(s)]) /\ Head(in[From(s)]) = in[From(s)][1]
      BY <3>1
    <3>3. \A i \in 1 .. Len(in[From(s)]) : in[From(s)][i] > 0
      BY <3>1 DEF BridgeInv, Framing, Framed
    <3>4. QED
      BY <3>2, <3>3
  <2> DEFINE place == IF Framed(s) THEN "writeSize" ELSE "write"
  <2>2. place \in Writing /\ (place = "writeSize" <=> Framed(s))
    BY DEF Writing
  <2> HIDE DEF place
  <2>3. /\ thread' = [thread EXCEPT ![s] = place] /\ Readable(s) /\ Take(s) /\ thread[s] = "read"
        /\ block' = [block EXCEPT ![s] = Head(in[From(s)])]
        /\ UNCHANGED <<out, sent, midFrame, closed, shut, pingThread>>
    BY <1>6 DEF ReadBlock, Goto, pipeVars, remoteVars, place
  <2>4. QED
    BY <2>1, <2>2, <2>3, TakesBlock
<1>7. ASSUME NEW s \in Sides, ReadFramedBlock(s) PROVE BridgeInv'
  <2>1. s = 0 /\ From(s) = 1 /\ Chunked /\ thread[s] = "readBlock" /\ ~Framed(s)
    <3>1. s = 0 \/ s = 1
      BY BridgeFacts
    <3>2. thread[s] = "readBlock"
      BY <1>7 DEF ReadFramedBlock
    <3>3. QED
      BY <3>1, <3>2, BridgeFacts DEF BridgeInv, Framing, Framed
  <2>2. InFrames(in[1], TRUE, midFrame) /\ in[1] \in Seq(Int) /\ in[1] # <<>> /\ midFrame \in BOOLEAN
    <3>1. InFrames(in[1], thread[0] = "readBlock", midFrame) /\ (thread[0] = "readBlock") = TRUE
      BY <2>1 DEF BridgeInv, Framing, Carrying
    <3>2. QED
      BY <3>1, <2>1, <1>7, BridgeFacts DEF ReadFramedBlock, Readable
  <2>3. Head(in[From(s)]) > 0
    BY <2>1, <2>2, FramesLess
  <2>4. /\ thread' = [thread EXCEPT ![s] = "write"] /\ Readable(s) /\ Take(s)
        /\ block' = [block EXCEPT ![s] = Head(in[From(s)])]
        /\ UNCHANGED <<out, sent, midFrame, closed, shut, pingThread>>
    BY <1>7 DEF ReadFramedBlock, Goto, pipeVars, remoteVars
  <2>5. "write" \in Writing
    BY DEF Writing
  <2>6. QED
    BY <2>1, <2>3, <2>4, <2>5, TakesBlock
<1>8. ASSUME NEW s \in Sides, ReadEnds(s) PROVE BridgeInv'
  <2> DEFINE place == IF ShutdownOnFinish THEN "shutdown" ELSE "ended"
  <2>1. place \in Places \ Carrying
    BY DEF Places, Carrying, Writing
  <2> HIDE DEF place
  <2>2. /\ thread' = [thread EXCEPT ![s] = place] /\ thread[s] \in {"read", "readBlock"}
        /\ in[From(s)] = <<>> /\ (closed[From(s)] \/ shut[From(s)])
        /\ UNCHANGED <<in, out, sent, midFrame, closed, shut, block, pingThread>>
    BY <1>8 DEF ReadEnds, ReadFails, Goto, pipeVars, remoteVars, place
  <2>3. QED
    BY <2>1, <2>2, ThreadEnds, BridgeFacts
<1>9. ASSUME NEW s \in Sides, WriteSize(s) PROVE BridgeInv'
  <2>1. thread[s] = "writeSize" /\ Framed(s)
    BY <1>9, BridgeFacts DEF WriteSize, BridgeInv, Framing, Framed
  <2>2. Size \in Int /\ "write" \in Places
    BY DEF Size, Places
  <2>3. QED
    BY <1>9, <2>1, <2>2, Puts DEF WriteSize, Goto, pipeVars, remoteVars
<1>10. ASSUME NEW s \in Sides, Write(s) PROVE BridgeInv'
  <2>1. block[s] \in Int /\ "read" \in Places
    BY <1>1 DEF Places
  <2>2. QED
    BY <1>10, <2>1, Puts DEF Write, Goto, pipeVars, remoteVars
<1>11. ASSUME NEW s \in Sides, BridgeWriteFails(s) \/ ShutsDown(s) \/ Finish(s) PROVE BridgeInv'
  <2>1. "ended" \in Places \ Carrying /\ "finish" \in Places \ Carrying
    BY DEF Places, Carrying, Writing
  <2>2. s \in {0, 1} /\ shut \in [{0, 1} -> BOOLEAN]
    BY BridgeFacts
  <2>3. /\ [shut EXCEPT ![s] = TRUE] \in [{0, 1} -> BOOLEAN] /\ [shut EXCEPT ![s] = TRUE][s]
        /\ \A q \in {0, 1} : shut[q] => [shut EXCEPT ![s] = TRUE][q]
    BY <2>2
  <2>4. CASE BridgeWriteFails(s)
    BY <2>1, <2>3, <2>4, ThreadEnds DEF BridgeWriteFails, Goto, remoteVars
  <2>5. CASE ShutsDown(s)
    BY <2>1, <2>3, <2>5, ThreadEnds DEF ShutsDown, Goto, remoteVars
  <2>6. CASE Finish(s)
    BY <2>1, <2>2, <2>6, ThreadEnds DEF Finish, Goto, remoteVars
  <2>7. QED
    BY <1>11, <2>4, <2>5, <2>6
<1>12. CASE PingPeer
  <2>1. Chunked /\ Framed(1)
    BY <1>12 DEF PingPeer, BridgeInv, Framing, Framed
  <2>2. thread[1] # "write" /\ thread[1] \in Places
    BY <1>1, <1>12, <2>1 DEF PingPeer
  <2>3. UNCHANGED <<in, sent, midFrame, closed, block, thread>>
    BY <1>12 DEF PingPeer, remoteVars
  <2>4. CASE ~shut[1] /\ PutsOut(1, Ping) /\ UNCHANGED shut
    <3>1. thread' = [thread EXCEPT ![1] = thread[1]] /\ Ping \in Int
      BY <1>1, <2>3 DEF Ping
    <3>2. QED
      BY <1>1, <2>1, <2>2, <2>3, <2>4, <3>1, Puts
  <2>5. CASE shut' = [shut EXCEPT ![1] = TRUE] /\ UNCHANGED out
    <3>1. shut' \in [{0, 1} -> BOOLEAN] /\ shut'[1] /\ \A q \in {0, 1} : shut[q] => shut'[q]
      BY <2>5, BridgeFacts
    <3>2. BridgeTypes' /\ Framing'
      BY <2>1, <2>3, <2>5, <3>1 DEF BridgeInv, BridgeTypes, Framing
    <3>3. \A s \in Sides : Delivered(s)' = Delivered(s)
      BY <2>5 DEF Delivered, Framed
    <3>4. \A s \in Sides : InHand(s)'
      BY <2>3, <3>1, <3>3, SideKept, BridgeFacts DEF BridgeInv
    <3>5. QED
      BY <3>2, <3>4 DEF BridgeInv
  <2>6. QED
    BY <1>12, <2>4, <2>5 DEF PingPeer
<1>13. CASE PingDue \/ PingSpurious \/ PingWoken
  <2>1. pingThread = "ended" => FALSE
    BY <1>13 DEF PingDue, PingSpurious, PingWoken
  <2>2. Chunked
    BY <2>1 DEF BridgeInv, Framing
  <2>3. QED
    BY <1>13, <2>2, OutsideSteps DEF PingDue, PingSpurious, PingWoken, endVars, remoteVars
<1>14. CASE EndStep
  <2>1. \A place \in {"endPing", "close", "joinPing", "done"} : place \in Places \ (Carrying \cup {"shutdown", "finish"})
    BY DEF Places, Carrying, Writing
  <2>2. \A place \in {"ended", "endPing", "close", "joinPing"} : place \notin Carrying
    BY DEF Carrying, Writing
  <2>3. UNCHANGED <<in, out, sent, midFrame, closed, shut, block>>
    BY <1>14 DEF EndStep, JoinBackward, EndPing, JoinPing, ProcessReturns, endVars, remoteVars
  <2>4. \E place \in {"endPing", "close", "joinPing", "done"} : thread' = [thread EXCEPT ![1] = place]
    BY <1>1, <1>14 DEF EndStep, JoinBackward, EndPing, JoinPing, ProcessReturns, Goto
  <2>5. thread[1] \in {"ended", "endPing", "close", "joinPing"}
    BY <1>1, <1>14 DEF EndStep, JoinBackward, EndPing, JoinPing, ProcessReturns
  <2>6. ~Chunked => pingThread' = pingThread
    <3>1. ~Chunked => pingThread = "ended"
      BY DEF BridgeInv, Framing
    <3>2. QED
      BY <1>14, <3>1 DEF EndStep, JoinBackward, EndPing, JoinPing, ProcessReturns
  <2>7. QED
    BY <2>1, <2>2, <2>3, <2>4, <2>5, <2>6, OutsideSteps
<1>15. CASE UNCHANGED bridgevars
  BY <1>15, OutsideSteps DEF bridgevars, remoteVars
<1>16. QED
  BY <1>2, <1>3, <1>4, <1>5, <1>6, <1>7, <1>8, <1>9, <1>10, <1>11, <1>12, <1>13, <1>14, <1>15, TakesSize
  DEF BridgeNext, PipeStep, PingStep

\* NetStreams::Bridge, Bridge_Thread::processPipe: whatever the mode, the blocks and the pings, each peer gets what the
\* other one sent, in order and framed as it can read it, and all of it when the sender closed and the reader is there.
THEOREM BlocksAlwaysArrive == BridgeSpec => []BlocksArrive
<1>1. BridgeInv => BlocksArrive
  <2> SUFFICES ASSUME BridgeInv PROVE BlocksArrive
    OBVIOUS
  <2>1. \A s \in Sides : InHand(s)
    BY DEF BridgeInv
  <2>2. DeliversInOrder
    BY <2>1, BridgeFacts DEF DeliversInOrder, InHand, Ordered, From
  <2>3. DrainsBeforeShutdown
    <3> SUFFICES ASSUME NEW s \in Sides, thread[s] \in {"shutdown", "finish"}, ~shut[From(s)]
                 PROVE  Delivered(s) = [n \in 1 .. sent[From(s)] |-> n]
      BY DEF DrainsBeforeShutdown
    <3>1. Delivered(s) \in Seq(Int) /\ Len(Delivered(s)) = sent[From(s)] /\ \A n \in 1 .. Len(Delivered(s)) : Delivered(s)[n] = n
      BY <2>1, BridgeFacts DEF InHand, Ordered, Drained
    <3> DEFINE delivered == Delivered(s)
    <3> HIDE DEF delivered
    <3>2. delivered = [n \in 1 .. Len(delivered) |-> delivered[n]]
      BY <3>1 DEF delivered
    <3>3. QED
      BY <3>1, <3>2 DEF delivered
  <2>4. QED
    BY <2>2, <2>3 DEF BlocksArrive
<1>2. QED
  BY <1>1, BridgeInitInv, BridgeStepInv, PTL DEF BridgeSpec
===============================================================================
