-------------------------------- MODULE Chain ---------------------------------
(* Socket_Chain: layers over a base socket.  Each layer is a connected pair:  *)
(* the upper socket is the protocol's, the lower one is served by two threads *)
(* that carry what arrives to the layer below and back.  Level 0 is the base  *)
(* socket and its network.  A channel joins the two ends of a level in one    *)
(* direction: "wshut" when its writer was shut down, "rshut" its reader.      *)
(* The base socket and the lower ones are plain.  The upper one of a layer of *)
(* TLS is not: its shutdown is SSL_shutdown, in whatever mode.  That writes a *)
(* notice to the peer, whose bytes are not counted here, and lets nothing be  *)
(* written any more, but leaves the descriptor, so the lower socket of its    *)
(* pair sees no end.                                                          *)
EXTENDS Naturals, Sequences, SequencesExt

CONSTANTS Layers,       \* how many the application adds
          Capacity,     \* what a pair, or the network, holds
          ToSend,       \* what the application has to say
          ToGet,        \* what the other side has to say
          RemoteWaits,  \* the other side ends only after the end it is told
          SecureLayers  \* which of the layers may be those of TLS

VARIABLES channel,      \* [down | up][level]
          layers,       \* added so far
          secure,       \* those of TLS
          fwd, bwd,     \* the threads of a layer: at, and what they hold
          app, remote   \* what was written and read, and where the two are

\* What may cross the chain, which is abstract.
Said == Range(ToSend) \cup Range(ToGet)
ASSUME ChainAssumption == Layers \in Nat /\ SecureLayers \subseteq SUBSET (1..Layers) /\ ToSend \in Seq(Said) /\ ToGet \in Seq(Said)

chvars == <<channel, layers, secure, fwd, bwd, app, remote>>

Levels == 0..Layers
Empty == [data |-> <<>>, wshut |-> FALSE, rshut |-> FALSE]
Sleeping == [at |-> "none", holds |-> <<>>]
Works(t) == t.at \in {"reads", "writes"}

\* One channel: a writer finds room, is refused, or waits; a reader takes, sees the end, or waits.
Room(ch) == ~ch.wshut /\ ~ch.rshut /\ Len(ch.data) < Capacity
NoRoom(ch) == ch.wshut \/ ch.rshut
Ended(ch) == ch.data = <<>> /\ (ch.wshut \/ ch.rshut)

\* The descriptor of the upper, and of the lower socket of a level shut down in both directions.
UpperDown(c, i) == [c EXCEPT !.down[i].wshut = TRUE, !.up[i].rshut = TRUE]
LowerDown(c, i) == [c EXCEPT !.up[i].wshut = TRUE, !.down[i].rshut = TRUE]
\* SSL_shutdown.
Notified(c, i) == [c EXCEPT !.down[i].wshut = TRUE]
\* The upper socket once a write to it was refused or its protocol was not greeted: an SSL call that fails
\* may shut the descriptor as well (iPartialWrite), unless it was told that the peer had ended.
UpperFailed(c, i) == IF i \in secure THEN {Notified(c, i), UpperDown(c, i)} ELSE {UpperDown(c, i)}

---- \* chainThread

\* Forward: from the lower socket of its layer to the upper one below; backward the other way round.  A write that
\* is refused shuts the socket written to (writeFull); the end of the loop shuts what was read from for reading,
\* and what was written to for writing.
Reads(c, dir, i) == IF dir = "fwd" THEN c.down[i] ELSE c.up[i - 1]
Writes(c, dir, i) == IF dir = "fwd" THEN c.down[i - 1] ELSE c.up[i]
WriteRefused(c, dir, i) == IF dir = "fwd" THEN UpperFailed(c, i - 1) ELSE {LowerDown(c, i)}
\* A reader sees the end of what a writer shut, but not of what SSL_shutdown did; SSL_read may fail at it.
EndSeen(c, dir, i) == Ended(Reads(c, dir, i)) /\ (dir = "fwd" /\ i \in secure => Reads(c, dir, i).rshut)
ReadRefused(c, dir, i) == IF dir = "bwd" /\ i - 1 \in secure THEN {c, UpperDown(c, i - 1)} ELSE {c}
\* Variant: the socket written to is shut in both directions.
LoopEndsBoth(c, dir, i) ==
    IF dir = "fwd" THEN UpperDown([c EXCEPT !.down[i].rshut = TRUE], i - 1)
    ELSE [c EXCEPT !.up[i - 1].rshut = TRUE, !.up[i].wshut = TRUE]
\* Variant: only what was read from is shut.
LoopEndsReading(c, dir, i) ==
    IF dir = "fwd" THEN [c EXCEPT !.down[i].rshut = TRUE] ELSE [c EXCEPT !.up[i - 1].rshut = TRUE]
LoopEnds(c, dir, i) ==
    IF dir = "fwd" THEN [c EXCEPT !.down[i].rshut = TRUE, !.down[i - 1].wshut = TRUE]
    ELSE IF i - 1 \in secure THEN [Notified(c, i - 1) EXCEPT !.up[i].wshut = TRUE]
    ELSE [c EXCEPT !.up[i - 1].rshut = TRUE, !.up[i].wshut = TRUE]
Takes(c, dir, i) == IF dir = "fwd" THEN [c EXCEPT !.down[i].data = Tail(@)] ELSE [c EXCEPT !.up[i - 1].data = Tail(@)]
Puts(c, dir, i, x) ==
    IF dir = "fwd" THEN [c EXCEPT !.down[i - 1].data = Append(@, x)] ELSE [c EXCEPT !.up[i].data = Append(@, x)]

Thread(dir, i) == IF dir = "fwd" THEN fwd[i] ELSE bwd[i]
Moves(dir, i, t, c) ==
    /\ channel' = c
    /\ IF dir = "fwd" THEN fwd' = [fwd EXCEPT ![i] = t] /\ UNCHANGED bwd
                      ELSE bwd' = [bwd EXCEPT ![i] = t] /\ UNCHANGED fwd
    /\ UNCHANGED <<layers, secure, app, remote>>
ThreadEnds(dir, i, c) == Moves(dir, i, [at |-> "done", holds |-> <<>>], LoopEnds(c, dir, i))

ThreadReads(dir, i) ==
    /\ Thread(dir, i).at = "reads"
    /\ \/ /\ Reads(channel, dir, i).data # <<>>
          /\ Moves(dir, i, [at |-> "writes", holds |-> <<Head(Reads(channel, dir, i).data)>>], Takes(channel, dir, i))
       \/ /\ EndSeen(channel, dir, i)
          /\ \E c \in ReadRefused(channel, dir, i) : ThreadEnds(dir, i, c)
ThreadWrites(dir, i) ==
    /\ Thread(dir, i).at = "writes"
    /\ \/ /\ Room(Writes(channel, dir, i))
          /\ Moves(dir, i, [at |-> "reads", holds |-> <<>>], Puts(channel, dir, i, Thread(dir, i).holds[1]))
       \/ /\ NoRoom(Writes(channel, dir, i))
          /\ \E c \in WriteRefused(channel, dir, i) : ThreadEnds(dir, i, c)

---- \* The application and the other side

\* addToChain: the threads start before the protocol greets; one that is not answered shuts both its sockets.
addToChain ==
    /\ app.at = "open" /\ layers < Layers
    /\ layers' = layers + 1
    /\ fwd' = [fwd EXCEPT ![layers + 1] = [at |-> "reads", holds |-> <<>>]]
    /\ bwd' = [bwd EXCEPT ![layers + 1] = [at |-> "reads", holds |-> <<>>]]
    /\ \/ channel' = channel /\ UNCHANGED app
       \/ /\ channel' \in {LowerDown(c, layers + 1) : c \in UpperFailed(channel, layers + 1)}
          /\ app' = [app EXCEPT !.greeted = FALSE]
    /\ UNCHANGED <<secure, remote>>

\* partialWrite and partialRead go to the last layer.  Data are exchanged once the layers are there.
partialWrite ==
    /\ app.at = "open" /\ layers = Layers /\ app.wrote < Len(ToSend)
    /\ Room(channel.down[layers])
    /\ channel' = [channel EXCEPT !.down[layers].data = Append(@, ToSend[app.wrote + 1])]
    /\ app' = [app EXCEPT !.wrote = @ + 1]
    /\ UNCHANGED <<layers, secure, fwd, bwd, remote>>
partialRead ==
    /\ app.at = "open" /\ layers = Layers /\ channel.up[layers].data # <<>>
    /\ app' = [app EXCEPT !.got = Append(@, Head(channel.up[layers].data))]
    /\ channel' = [channel EXCEPT !.up[layers].data = Tail(@)]
    /\ UNCHANGED <<layers, secure, fwd, bwd, remote>>

\* The destructor ends the writing of the last layer (of TLS: by SSL_shutdown), waits for every thread, then frees the sockets.
ChainDestroys ==
    /\ app.at = "open" /\ layers > 0
    /\ app' = [app EXCEPT !.at = "waits"]
    /\ channel' = [channel EXCEPT !.down[layers].wshut = TRUE]
    /\ UNCHANGED <<layers, secure, fwd, bwd, remote>>
waitUntilFinish ==
    /\ app.at = "waits"
    /\ \A i \in 1..layers : fwd[i].at = "done" /\ bwd[i].at = "done"
    /\ app' = [app EXCEPT !.at = "gone"]
    /\ UNCHANGED <<channel, layers, secure, fwd, bwd, remote>>

RemoteReads ==
    /\ remote.at = "open" /\ channel.down[0].data # <<>>
    /\ remote' = [remote EXCEPT !.got = Append(@, Head(channel.down[0].data))]
    /\ channel' = [channel EXCEPT !.down[0].data = Tail(@)]
    /\ UNCHANGED <<layers, secure, fwd, bwd, app>>
RemoteWrites ==
    /\ remote.at = "open" /\ remote.wrote < Len(ToGet) /\ Room(channel.up[0])
    /\ remote' = [remote EXCEPT !.wrote = @ + 1]
    /\ channel' = [channel EXCEPT !.up[0].data = Append(@, ToGet[remote.wrote + 1])]
    /\ UNCHANGED <<layers, secure, fwd, bwd, app>>
RemoteEnds ==
    /\ remote.at = "open"
    /\ RemoteWaits => Ended(channel.down[0])
    /\ remote' = [remote EXCEPT !.at = IF Ended(channel.down[0]) THEN "ended" ELSE "left"]
    /\ channel' = LowerDown(channel, 0)
    /\ UNCHANGED <<layers, secure, fwd, bwd, app>>

ChInit ==
    /\ secure \in SecureLayers
    /\ channel = [down |-> [i \in Levels |-> Empty], up |-> [i \in Levels |-> Empty]]
    /\ layers = 0
    /\ fwd = [i \in 1..Layers |-> Sleeping] /\ bwd = [i \in 1..Layers |-> Sleeping]
    /\ app = [at |-> "open", wrote |-> 0, got |-> <<>>, greeted |-> TRUE]
    /\ remote = [at |-> "open", wrote |-> 0, got |-> <<>>]
ThreadsRun == \E i \in 1..Layers, dir \in {"fwd", "bwd"} : ThreadReads(dir, i) \/ ThreadWrites(dir, i)
ChNext ==
    \/ addToChain \/ partialWrite \/ partialRead \/ ChainDestroys \/ waitUntilFinish
    \/ ThreadsRun \/ RemoteReads \/ RemoteWrites \/ RemoteEnds

\* The threads run.  Nothing is assumed of the other side.
ChFairness ==
    /\ \A i \in 1..Layers, dir \in {"fwd", "bwd"} :
          WF_chvars(ThreadReads(dir, i)) /\ WF_chvars(ThreadWrites(dir, i))
    /\ WF_chvars(waitUntilFinish)

---- \* Properties

\* What the other side got is what the application wrote, in order and without holes: all of it once the chain is
\* gone, if every protocol was greeted and the other side waited for the end.  The same for the way back, as far as
\* it was read.
EverythingArrives ==
    /\ IsPrefix(remote.got, ToSend) /\ Len(remote.got) <= app.wrote
    /\ IsPrefix(app.got, ToGet)
    /\ (app.at = "gone" /\ app.greeted /\ remote.at = "ended") => Len(remote.got) = app.wrote

\* ~Socket_Chain: the threads see the end one after the other and the destructor that joins them returns, or one
\* of three things is so from some time on.  The other side stays connected: the thread that reads the base socket
\* waits for it.  What it sent and nobody reads fills a pair on the way up: the thread that writes there waits.
\* The thread of a layer of TLS waits for the end of its pair, which SSL_shutdown does not give.
WayUpFull == \E i \in 1..Layers : bwd[i].at = "writes" /\ Len(channel.up[i].data) = Capacity
EndUnseen == \E i \in secure : fwd[i].at = "reads" /\ Ended(channel.down[i]) /\ ~channel.down[i].rshut
ChainEnds ==
    \/ (app.at = "waits") ~> (app.at = "gone")
    \/ <>[](remote.at = "open" \/ WayUpFull \/ EndUnseen)
===============================================================================
