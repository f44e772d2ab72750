-------------------------------- MODULE MCFlow ---------------------------------
(* The parts that live in threads of their own: acceptors, bridges, the      *)
(* pinger, and the map they share.  Of one behaviour only one moves; the     *)
(* others stay where their threads have nothing to do, and owe nothing.      *)
EXTENDS SafeMap, Acceptor, PoolAcceptor, Bridge, FastRPCPinger

CONSTANT Parts   \* those that are run
VARIABLE part    \* the one of this behaviour

\* A destroyed pinger, the only part whose thread wakes by itself.
PingerGone ==
    /\ connected = {} /\ finished = TRUE /\ pinger = "ended" /\ todo = {}
    /\ pinging = NoPeerKey /\ owner = "destroyed"
AcceptorAtRest ==
    /\ Init /\ maxClients = CHOOSE n \in ClientLimits : TRUE
    /\ maxPerIP = CHOOSE n \in IPLimits : TRUE
    /\ ip = [c \in Conns |-> CHOOSE i \in IPs : TRUE]

FlowInit ==
    /\ part \in Parts
    /\ MapInit
    /\ IF part = "acceptor" THEN Init ELSE AcceptorAtRest
    /\ PaInit
    /\ BridgeInit
    /\ IF part = "pinger" THEN PingerInit ELSE PingerGone

FlowNext ==
    \/ part = "map" /\ MapNext /\ UNCHANGED <<part, vars, avars, bridgevars, pingervars>>
    \/ part = "acceptor" /\ Next /\ UNCHANGED <<part, mapvars, avars, bridgevars, pingervars>>
    \/ part = "pool acceptor" /\ PaNext /\ UNCHANGED <<part, mapvars, vars, bridgevars, pingervars>>
    \/ part = "bridge" /\ BridgeNext /\ UNCHANGED <<part, mapvars, vars, avars, pingervars>>
    \/ part = "pinger" /\ PingerNext /\ UNCHANGED <<part, mapvars, vars, avars, bridgevars>>

\* The fairness of each part.
FlowFairness ==
    /\ Fairness
    /\ AcceptorFairness
    /\ BridgeFairness
    /\ PingerFairness

FlowSpec ==
    /\ FlowInit
    /\ [][FlowNext]_<<part, mapvars, vars, avars, bridgevars, pingervars>>
    /\ FlowFairness
===============================================================================
