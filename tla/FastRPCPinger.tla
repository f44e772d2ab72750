---------------------------- MODULE FastRPCPinger ----------------------------
(***************************************************************************)
(* The pinger thread of FastRPC (src/RPC/mdz_xrpc_fast/fastrpc.cpp) and    *)
(* the destructor that stops it.  The pinger waits one interval on cvPing, *)
(* pings every connection, and waits again; the destructor sets finished,  *)
(* notifies cvPing and joins the thread.                                   *)
(***************************************************************************)
CONSTANTS
  PeerKeys,   \* keys of connections
  NoPeerKey

ASSUME PingerAssumption == NoPeerKey \notin PeerKeys

VARIABLES
  connected,  \* keys of connectionsByKeyId
  finished,   \* FastRPC::finished
  pinger,     \* where the pinger is
  todo,       \* the keys that sendPings has not reached
  pinging,    \* the key it runs the remote method on
  owner       \* where the destructor is

pingervars == <<connected, finished, pinger, todo, pinging, owner>>

PingerPC == {"entering", "waiting", "woke", "sending", "pinging", "ended"}
OwnerPC == {"running", "flagged", "joining", "destroyed"}

PingerInit ==
  /\ connected = {}
  /\ finished = FALSE
  /\ pinger = "entering"
  /\ todo = {}
  /\ pinging = NoPeerKey
  /\ owner = "running"

\* Connections come and go while the object lives.
Connect(k) ==
  /\ owner = "running"
  /\ connected' = connected \cup {k}
  /\ connected' # connected
  /\ UNCHANGED <<finished, pinger, todo, pinging, owner>>

Disconnect(k) ==
  /\ connected' = connected \ {k}
  /\ connected' # connected
  /\ UNCHANGED <<finished, pinger, todo, pinging, owner>>

-----------------------------------------------------------------------------
(* The pinger. *)

\* waitPingInterval: the wait begins, whatever finished says.
BeginWait ==
  /\ pinger = "entering"
  /\ pinger' = "waiting"
  /\ UNCHANGED <<connected, finished, todo, pinging, owner>>

\* The interval is over: true, and sendPings takes the keys of the moment.
IntervalOver ==
  /\ pinger = "waiting"
  /\ pinger' = "sending"
  /\ todo' = connected
  /\ UNCHANGED <<connected, finished, pinging, owner>>

\* The wait was cut short: false, which ends the thread.
WaitCut ==
  /\ pinger = "woke"
  /\ pinger' = "ended"
  /\ UNCHANGED <<connected, finished, todo, pinging, owner>>

PingerSpuriousWake ==
  /\ pinger = "waiting"
  /\ pinger' = "woke"
  /\ UNCHANGED <<connected, finished, todo, pinging, owner>>

\* sendPings, the next key; finished is tested before each.
SendPing(k) ==
  /\ pinger = "sending"
  /\ ~finished
  /\ k \in todo
  /\ todo' = todo \ {k}
  /\ pinging' = k
  /\ pinger' = "pinging"
  /\ UNCHANGED <<connected, finished, owner>>

\* runRemoteRPCMethod returns: no connection, an answer, or a timeout.
PingReturns ==
  /\ pinger = "pinging"
  /\ pinging' = NoPeerKey
  /\ pinger' = "sending"
  /\ UNCHANGED <<connected, finished, todo, owner>>

\* (Mutant) sendPings may return after any key.
PingsSentEarly ==
  /\ pinger = "sending"
  /\ todo' = {}
  /\ pinger' = "entering"
  /\ UNCHANGED <<connected, finished, pinging, owner>>

\* sendPings returns after the last key, or when it sees finished.
PingsSent ==
  /\ pinger = "sending"
  /\ todo = {} \/ finished
  /\ todo' = {}
  /\ pinger' = "entering"
  /\ UNCHANGED <<connected, finished, pinging, owner>>

-----------------------------------------------------------------------------
(* The destructor. *)

SetFinished ==
  /\ owner = "running"
  /\ finished' = TRUE
  /\ owner' = "flagged"
  /\ UNCHANGED <<connected, pinger, todo, pinging>>

NotifyPinger ==
  /\ owner = "flagged"
  /\ owner' = "joining"
  /\ pinger' = IF pinger = "waiting" THEN "woke" ELSE pinger
  /\ UNCHANGED <<connected, finished, todo, pinging>>

\* (Mutant) The thread is detached, not joined.
DetachPinger ==
  /\ owner = "joining"
  /\ owner' = "destroyed"
  /\ UNCHANGED <<connected, finished, pinger, todo, pinging>>

JoinPinger ==
  /\ owner = "joining"
  /\ pinger = "ended"
  /\ owner' = "destroyed"
  /\ UNCHANGED <<connected, finished, pinger, todo, pinging>>

-----------------------------------------------------------------------------
PingerStep ==
  \/ BeginWait
  \/ IntervalOver
  \/ WaitCut
  \/ \E k \in PeerKeys : SendPing(k)
  \/ PingReturns
  \/ PingsSent

OwnerStep == NotifyPinger \/ JoinPinger

PingerNext ==
  \/ \E k \in PeerKeys : Connect(k) \/ Disconnect(k)
  \/ PingerStep \/ PingerSpuriousWake
  \/ SetFinished \/ OwnerStep

PingerSpec == PingerInit /\ [][PingerNext]_pingervars

(***************************************************************************)
(* Fairness: the interval passes, a remote call returns (FastRPC checks    *)
(* that), and the destructor goes on once begun.                           *)
(***************************************************************************)
PingerFairness == WF_pingervars(PingerStep) /\ WF_pingervars(OwnerStep)

PingerFairSpec == PingerSpec /\ PingerFairness

-----------------------------------------------------------------------------
PingerTypeOK ==
  /\ connected \in SUBSET PeerKeys
  /\ finished \in BOOLEAN
  /\ pinger \in PingerPC
  /\ todo \in SUBSET PeerKeys
  /\ pinging \in PeerKeys \cup {NoPeerKey}
  /\ owner \in OwnerPC

\* Nothing touches the map or the pool once the destructor has joined: the
\* pinger is then out of sendPings for good.
NoPingAfterDestruction ==
  owner = "destroyed" => pinger = "ended" /\ pinging = NoPeerKey

\* waitPingInterval returns false "if a signal closed the wait interval (eg.
\* FastRPC destroyed)": while nobody destroys it, the pinger goes on.
PingerLives == pinger = "ended" => finished

\* "Wait until the loop ends...": the destructor comes to its end.
PingerDestructorReturns == owner = "joining" ~> owner = "destroyed"

\* A connection that stays is pinged, again and again, as long as the pinger
\* is there to do it.
StayingIsPinged ==
  \A k \in PeerKeys : []<>(pinging = k \/ k \notin connected \/ finished \/ pinger = "ended")
=============================================================================
