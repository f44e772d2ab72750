------------------------------- MODULE Bridge -------------------------------
(***************************************************************************)
(* NetStreams::Bridge (src/Network/mdz_net_sockets/streams_bridge.cpp) and *)
(* its Bridge_Thread (streams_bridge_thread.cpp): two sockets joined by    *)
(* two threads, one for each direction, and a third that pings.            *)
(*                                                                         *)
(* The thread of side s reads from peer 1-s and writes to peer s: FORWARD  *)
(* (side 1) reads peer 0 and writes peer 1.  FORWARD is the thread that    *)
(* runs process() and so also ends the bridge.  In chunk mode what crosses *)
(* peer 1 is framed: a size and a block; a size of zero is a ping.         *)
(*                                                                         *)
(* Data is abstract: the blocks of each peer are numbered in the order it  *)
(* sends them, and one read takes one block.  The sockets are external: a  *)
(* read gives what has arrived, and fails once all is read and the remote  *)
(* end has closed or the socket was shut down here; a write fails if the   *)
(* socket was shut down, may fail if the remote end has closed, fails for  *)
(* good once it has failed, and blocks for as long as the remote end is    *)
(* there and does not read.  They are plain sockets, of which              *)
(* shutdownSocket shuts the descriptor, and have no receive timeout.       *)
(***************************************************************************)
EXTENDS Integers, Sequences, FiniteSets

CONSTANTS
  Chunked,           \* transmitionMode = TRANSMITION_MODE_CHUNKSANDPING
  ShutdownOnFinish,  \* shutdownRemotePeerOnFinish
  MaxBlocks,         \* bound of the blocks a peer sends
  MaxPings           \* bound of the pings in each direction

ASSUME BridgeAssumption ==
  /\ Chunked \in BOOLEAN
  /\ ShutdownOnFinish \in BOOLEAN
  /\ MaxBlocks \in Nat
  /\ MaxPings \in Nat

FORWARD == 1
BACKWARD == 0
Sides == {FORWARD, BACKWARD}

\* What crosses a socket: numbered blocks, and two kinds of size.
Ping == 0
Size == -1

VARIABLES
  in,          \* arrived at each peer's socket and not read
  out,         \* written to each peer's socket
  sent,        \* blocks the remote end of each peer has sent
  remotePings, \* pings the remote end of peer 1 has sent
  midFrame,    \* the remote end of peer 1 has sent a size and not its block
  closed,      \* the remote end has closed
  shut,        \* no more writes: shutdownSocket was called here, or a write failed
  thread,          \* where the thread of each side is
  block,       \* the block it has read
  bytes,       \* recvBytes (0) and sentBytes (1)
  terminated,
  finishingPeer,
  pingThread,      \* where the ping thread is
  pings,       \* pings sent
  pingFinished,
  freed        \* bridgeThreadPrc is deleted

remoteVars == <<sent, remotePings, midFrame, closed>>
bridgevars == <<in, out, remoteVars, shut, thread, block, bytes, terminated, finishingPeer, pingThread, pings,
          pingFinished, freed>>

From(s) == 1 - s
Goto(s, place) == thread' = [thread EXCEPT ![s] = place]
Framed(peer) == Chunked /\ peer = 1

BridgeInit ==
  /\ in = [p \in {0, 1} |-> <<>>]
  /\ out = [p \in {0, 1} |-> <<>>]
  /\ sent = [p \in {0, 1} |-> 0]
  /\ remotePings = 0
  /\ midFrame = FALSE
  /\ closed = [p \in {0, 1} |-> FALSE]
  /\ shut = [p \in {0, 1} |-> FALSE]
  /\ thread = [s \in Sides |-> "read"]
  /\ block = [s \in Sides |-> 0]
  /\ bytes = [s \in Sides |-> 0]
  /\ terminated = FALSE
  /\ finishingPeer = -1
  /\ pingThread = IF Chunked THEN "wait" ELSE "ended"
  /\ pings = 0
  /\ pingFinished = FALSE
  /\ freed = FALSE

threadVars == <<shut, thread, block, bytes, terminated, finishingPeer, pingThread, pings, pingFinished, freed>>

-----------------------------------------------------------------------------
(* The remote ends. *)

Arrives(p, x) == in' = [in EXCEPT ![p] = Append(@, x)]

SendBlock(p) ==
  /\ ~closed[p]
  /\ sent[p] < MaxBlocks
  /\ Framed(p) => midFrame
  /\ sent' = [sent EXCEPT ![p] = @ + 1]
  /\ Arrives(p, sent[p] + 1)
  /\ midFrame' = IF Framed(p) THEN FALSE ELSE midFrame
  /\ UNCHANGED <<out, remotePings, closed, threadVars>>

SendSize ==
  /\ Framed(1) /\ ~midFrame
  /\ ~closed[1]
  /\ sent[1] < MaxBlocks
  /\ midFrame' = TRUE
  /\ Arrives(1, Size)
  /\ UNCHANGED <<out, sent, remotePings, closed, threadVars>>

SendsPing ==
  /\ Framed(1) /\ ~midFrame
  /\ ~closed[1]
  /\ remotePings < MaxPings
  /\ remotePings' = remotePings + 1
  /\ Arrives(1, Ping)
  /\ UNCHANGED <<out, sent, midFrame, closed, threadVars>>

Close(p) ==
  /\ ~closed[p]
  /\ closed' = [closed EXCEPT ![p] = TRUE]
  /\ UNCHANGED <<in, out, sent, remotePings, midFrame, threadVars>>

-----------------------------------------------------------------------------
(* The thread of side s: processPeer and processPipe. *)

pipeVars == <<remoteVars, shut, terminated, finishingPeer, pingThread, pings, pingFinished, freed>>

Readable(s) == in[From(s)] # <<>>
ReadFails(s) == in[From(s)] = <<>> /\ (closed[From(s)] \/ shut[From(s)])
Take(s) == in' = [in EXCEPT ![From(s)] = Tail(@)]

\* A block from an unframed peer.
ReadBlock(s) ==
  /\ thread[s] = "read" /\ ~Framed(From(s))
  /\ Readable(s)
  /\ Take(s)
  /\ block' = [block EXCEPT ![s] = Head(in[From(s)])]
  /\ Goto(s, IF Framed(s) THEN "writeSize" ELSE "write")
  /\ UNCHANGED <<out, bytes, pipeVars>>

\* A size from the framed peer: a ping, or the block comes next.  A ping after
\* terminate() ends the thread like a write error.
ReadSize(s) ==
  /\ thread[s] = "read" /\ Framed(From(s))
  /\ Readable(s)
  /\ Take(s)
  /\ Goto(s, IF Head(in[From(s)]) # Ping THEN "readBlock" ELSE IF terminated THEN "ended" ELSE "read")
  /\ UNCHANGED <<out, block, bytes, pipeVars>>

ReadFramedBlock(s) ==
  /\ thread[s] = "readBlock"
  /\ Readable(s)
  /\ Take(s)
  /\ block' = [block EXCEPT ![s] = Head(in[From(s)])]
  /\ Goto(s, "write")
  /\ UNCHANGED <<out, bytes, pipeVars>>

\* (Mutant) A closed peer is not read to the end.
ReadEndsEarly(s) ==
  /\ thread[s] \in {"read", "readBlock"}
  /\ closed[From(s)] \/ shut[From(s)]
  /\ Goto(s, IF ShutdownOnFinish THEN "shutdown" ELSE "ended")
  /\ UNCHANGED <<in, out, block, bytes, pipeVars>>

ReadEnds(s) ==
  /\ thread[s] \in {"read", "readBlock"}
  /\ ReadFails(s)
  /\ Goto(s, IF ShutdownOnFinish THEN "shutdown" ELSE "ended")
  /\ UNCHANGED <<in, out, block, bytes, pipeVars>>

PutsOut(s, x) == out' = [out EXCEPT ![s] = Append(@, x)]

\* The size, and then the block, under mt_fwd.
WriteSize(s) ==
  /\ thread[s] = "writeSize"
  /\ ~shut[s]
  /\ PutsOut(s, Size)
  /\ Goto(s, "write")
  /\ UNCHANGED <<in, block, bytes, pipeVars>>

Write(s) ==
  /\ thread[s] = "write"
  /\ ~shut[s]
  /\ PutsOut(s, block[s])
  /\ bytes' = [bytes EXCEPT ![s] = @ + 1]
  /\ Goto(s, "read")
  /\ UNCHANGED <<in, block, pipeVars>>

\* -2: "just bye".
BridgeWriteFails(s) ==
  /\ thread[s] \in {"writeSize", "write"}
  /\ shut[s] \/ closed[s]
  /\ shut' = [shut EXCEPT ![s] = TRUE]
  /\ Goto(s, "ended")
  /\ UNCHANGED <<in, out, remoteVars, block, bytes, terminated, finishingPeer, pingThread, pings, pingFinished, freed>>

\* (Mutant) The socket that ended is shut down instead of the other one.
ShutdownOwn(s) ==
  /\ thread[s] = "shutdown"
  /\ shut' = [shut EXCEPT ![From(s)] = TRUE]
  /\ Goto(s, "finish")
  /\ UNCHANGED <<in, out, remoteVars, block, bytes, terminated, finishingPeer, pingThread, pings, pingFinished, freed>>

\* The end of the data: the peer written to is shut down ...
ShutsDown(s) ==
  /\ thread[s] = "shutdown"
  /\ shut' = [shut EXCEPT ![s] = TRUE]
  /\ Goto(s, "finish")
  /\ UNCHANGED <<in, out, remoteVars, block, bytes, terminated, finishingPeer, pingThread, pings, pingFinished, freed>>

\* ... and the peer read from is reported.
Finish(s) ==
  /\ thread[s] = "finish"
  /\ terminated' = TRUE
  /\ finishingPeer' = From(s)
  /\ Goto(s, "ended")
  /\ UNCHANGED <<in, out, remoteVars, shut, block, bytes, pingThread, pings, pingFinished, freed>>

-----------------------------------------------------------------------------
(* The ping thread, which holds mutex_endPingLoop but while it waits. *)

endVars == <<in, remoteVars, shut, block, bytes, terminated, finishingPeer>>

PingDue ==
  /\ pingThread = "wait"
  /\ pings < MaxPings
  /\ pingThread' = "ping"
  /\ UNCHANGED <<endVars, out, thread, pings, pingFinished, freed>>

AfterPing == pingThread' = IF pingFinished THEN "ended" ELSE "wait"

\* (Mutant) The ping does not take mt_fwd.
PingUnlocked ==
  /\ pingThread = "ping"
  /\ pings' = pings + 1
  /\ \/ ~shut[1] /\ PutsOut(1, Ping) /\ UNCHANGED shut
     \/ (shut[1] \/ closed[1]) /\ shut' = [shut EXCEPT ![1] = TRUE] /\ UNCHANGED out
  /\ AfterPing
  /\ UNCHANGED <<in, remoteVars, block, bytes, terminated, finishingPeer, thread, pingFinished, freed>>

\* sendPing, under mt_fwd.  Its result is not looked at.
PingPeer ==
  /\ pingThread = "ping"
  /\ Framed(FORWARD) => ~(thread[FORWARD] = "write")
  /\ pings' = pings + 1
  /\ \/ ~shut[1] /\ PutsOut(1, Ping) /\ UNCHANGED shut
     \/ (shut[1] \/ closed[1]) /\ shut' = [shut EXCEPT ![1] = TRUE] /\ UNCHANGED out
  /\ AfterPing
  /\ UNCHANGED <<in, remoteVars, block, bytes, terminated, finishingPeer, thread, pingFinished, freed>>

\* Woken, by the notification or spuriously.
PingWoken ==
  /\ pingThread = "woken"
  /\ AfterPing
  /\ UNCHANGED <<endVars, out, thread, pings, pingFinished, freed>>

PingSpurious ==
  /\ pingThread = "wait"
  /\ pingThread' = "woken"
  /\ UNCHANGED <<endVars, out, thread, pings, pingFinished, freed>>

-----------------------------------------------------------------------------
(* process() after FORWARD has ended. *)

\* (Mutant) The other direction is not waited for.
DetachBackward ==
  /\ thread[FORWARD] = "ended"
  /\ Goto(FORWARD, IF Chunked THEN "endPing" ELSE "close")
  /\ UNCHANGED <<endVars, out, pingThread, pings, pingFinished, freed>>

JoinBackward ==
  /\ thread[FORWARD] = "ended"
  /\ thread[BACKWARD] = "ended"
  /\ Goto(FORWARD, IF Chunked THEN "endPing" ELSE "close")
  /\ UNCHANGED <<endVars, out, pingThread, pings, pingFinished, freed>>

\* Under mutex_endPingLoop: the flag, and notify_one.
EndPing ==
  /\ thread[FORWARD] = "endPing"
  /\ pingThread # "ping"
  /\ pingFinished' = TRUE
  /\ pingThread' = IF pingThread = "wait" THEN "woken" ELSE pingThread
  /\ Goto(FORWARD, "joinPing")
  /\ UNCHANGED <<endVars, out, pings, freed>>

JoinPing ==
  /\ thread[FORWARD] = "joinPing"
  /\ pingThread = "ended"
  /\ Goto(FORWARD, "close")
  /\ UNCHANGED <<endVars, out, pingThread, pings, pingFinished, freed>>

\* Both peers are closed and the Bridge_Thread deleted.
ProcessReturns ==
  /\ thread[FORWARD] = "close"
  /\ freed' = TRUE
  /\ Goto(FORWARD, "done")
  /\ UNCHANGED <<endVars, out, pingThread, pings, pingFinished>>

-----------------------------------------------------------------------------
PipeStep(s) ==
  \/ ReadBlock(s) \/ ReadSize(s) \/ ReadFramedBlock(s) \/ ReadEnds(s)
  \/ WriteSize(s) \/ Write(s) \/ BridgeWriteFails(s)
  \/ ShutsDown(s) \/ Finish(s)

\* In a write that a remote end holds which is there and does not read.
PipeBlocked(s) == thread[s] \in {"writeSize", "write"} /\ ~closed[s] /\ ~shut[s]
PingBlocked == pingThread = "ping" /\ ~closed[1] /\ ~shut[1]

EndStep == JoinBackward \/ EndPing \/ JoinPing \/ ProcessReturns

PingStep == PingPeer \/ PingWoken

BridgeNext ==
  \/ \E p \in {0, 1} : SendBlock(p) \/ Close(p)
  \/ SendSize \/ SendsPing
  \/ \E s \in Sides : PipeStep(s)
  \/ PingDue \/ PingSpurious \/ PingStep
  \/ EndStep

BridgeSpec == BridgeInit /\ [][BridgeNext]_bridgevars

\* The threads run.  The remote ends owe nothing, not even to read what is written
\* to them, and the ping timer may stop.
BridgeFairness ==
  /\ \A s \in Sides : WF_bridgevars(~PipeBlocked(s) /\ PipeStep(s))
  /\ WF_bridgevars(~PingBlocked /\ PingStep)
  /\ WF_bridgevars(EndStep)

BridgeFairSpec == BridgeSpec /\ BridgeFairness

-----------------------------------------------------------------------------
BridgeTypeOK ==
  /\ in \in [{0, 1} -> Seq({Size, Ping} \cup 1..MaxBlocks)]
  /\ out \in [{0, 1} -> Seq({Size, Ping} \cup 1..MaxBlocks)]
  /\ sent \in [{0, 1} -> 0..MaxBlocks]
  /\ remotePings \in 0..MaxPings
  /\ midFrame \in BOOLEAN
  /\ closed \in [{0, 1} -> BOOLEAN]
  /\ shut \in [{0, 1} -> BOOLEAN]
  /\ thread \in [Sides -> {"read", "readBlock", "writeSize", "write", "shutdown", "finish", "ended",
                       "endPing", "joinPing", "close", "done"}]
  /\ block \in [Sides -> 0..MaxBlocks]
  /\ bytes \in [Sides -> 0..MaxBlocks]
  /\ terminated \in BOOLEAN
  /\ finishingPeer \in {-1, 0, 1}
  /\ pingThread \in {"wait", "woken", "ping", "ended"}
  /\ pings \in 0..MaxPings
  /\ pingFinished \in BOOLEAN
  /\ freed \in BOOLEAN

\* What the other end of a framed socket makes of a stream: the blocks of its
\* complete frames.  A size is followed by whatever comes next.
Unframed(stream) ==
  LET upTo[n \in 0..Len(stream)] ==
        IF n = 0 THEN [wants |-> FALSE, blocks |-> <<>>]
        ELSE LET before == upTo[n - 1]
             IN  IF before.wants
                 THEN [wants |-> FALSE, blocks |-> Append(before.blocks, stream[n])]
                 ELSE [before EXCEPT !.wants = stream[n] # Ping]
  IN  upTo[Len(stream)]
Frames(stream) == Unframed(stream).blocks

Delivered(p) == IF Framed(p) THEN Frames(out[p]) ELSE out[p]

\* Each peer gets the blocks the other one sent: in order, none twice, none made
\* up, whatever pings cross them.
DeliversInOrder ==
  \A p \in {0, 1} :
    /\ Len(Delivered(p)) <= sent[1 - p]
    /\ \A n \in 1..Len(Delivered(p)) : Delivered(p)[n] = n

\* Data that was on its way when its sender closed is delivered, as long as the
\* receiver is there.
DrainsBeforeShutdown ==
  \A s \in Sides :
    thread[s] \in {"shutdown", "finish"} /\ ~closed[s] /\ ~shut[From(s)] =>
      Delivered(s) = [n \in 1..sent[From(s)] |-> n]

\* Both: what a peer sends arrives as it was sent, and up to its end.
BlocksArrive == DeliversInOrder /\ DrainsBeforeShutdown

\* The Bridge_Thread is deleted when nobody uses it any more.
PeersFreedLast == freed => thread[BACKWARD] = "ended" /\ pingThread = "ended"

\* When one of the peers closes, the other is let go and process() returns, unless
\* that one neither closes nor reads and so holds a thread in its write for ever:
\* the direction that writes is the one that would shut its socket down.
\* (With shutdownRemotePeerOnFinish.)
BridgeEnds ==
  \/ closed[0] \/ closed[1] ~> thread[FORWARD] = "done"
  \/ <>[](PipeBlocked(0) \/ PipeBlocked(1) \/ PingBlocked)

\* What process() is documented to return: "0: socket 0 closed the connection, 1:
\* socket 1 closed the connection."
ReportsWhoClosed ==
  thread[FORWARD] = "done" /\ finishingPeer # -1 => closed[finishingPeer]
=============================================================================
