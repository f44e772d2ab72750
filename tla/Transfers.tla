------------------------------ MODULE Transfers -------------------------------
(* What a stream socket carries from one end to the other: writeFull and      *)
(* readFull, strings with their length in front, blocks up to a delimiter, on *)
(* a plain socket or under a layer that hides the bytes (XOR, AES).  The      *)
(* kernel moves any part of what it is given, and may fail at any time.       *)
EXTENDS Naturals, Sequences, SequencesExt

CONSTANTS Base,         \* values of a byte: 0..Base - 1
          Width,        \* bytes of a length
          Chunk,        \* bytes of one call, 4096 in the code
          Block,        \* bytes of a block, 65536 in the code
          Jobs          \* what is sent, how and under which layer

\* A delimiter of no bytes is found behind the first byte.
ASSUME TransfersAssumption ==
    /\ {Base, Width, Chunk, Block} \subseteq Nat \ {0} /\ Base # 1
    /\ \A d \in Jobs :
          /\ d.kind \in {"full", "string", "block"} /\ d.layer \in {"plain", "xor", "aes"}
          /\ d.text \in Seq(0..(Base - 1)) /\ d.limit \in Nat
          /\ d.kind = "block" => d.delim \in Seq(0..(Base - 1)) /\ d.delim # <<>>

VARIABLES deal,     \* the job
          wr,       \* the writer: pieces left, position in its key stream, result
          wire,     \* bytes under way, each with the key that hides it
          over,     \* what the reader finds behind them
          rd        \* the reader: what it waits for, what it has, its position, result

xvars == <<deal, wr, wire, over, rd>>

\* How many numbers n bytes can say.
Numbers[n \in 0..Width] == IF n = 0 THEN 1 ELSE Base * Numbers[n - 1]
\* A number of n bytes in network order, and back.
Big(v, n) == LET shifted[i \in 0..n] == IF i = 0 THEN v ELSE shifted[i - 1] \div Base
             IN  [i \in 1..n |-> shifted[n - i] % Base]
Value(s) == LET read[i \in 0..Len(s)] == IF i = 0 THEN 0 ELSE Base * read[i - 1] + s[i]
            IN  read[Len(s)]
Most == Numbers[Width] - 2

\* What one call of the application asks to be written: numbers and data go in calls of their own; a string longer
\* than its length can say is not written at all.
writeStringEx(s) ==
    IF Len(s) > Most THEN <<>> ELSE IF s = <<>> THEN <<Big(0, Width)>> ELSE <<Big(Len(s), Width), s>>
Pieces(d) == IF d.kind = "string" THEN writeStringEx(d.text) ELSE IF d.text = <<>> THEN <<>> ELSE <<d.text>>
Desynced(d) == d.kind = "string" /\ Len(d.text) > Most

---- \* The layers: which key hides the byte that is next.

\* XOR has one key for all; the AES layer takes its key stream byte after byte, with blocks made anew when the last
\* one is used up, and greets with a first vector and a header under the common key.
KeyOf(layer, position) ==
    CASE layer = "plain" -> "clear"
      [] layer = "xor" -> "xor byte"
      [] layer = "aes" -> <<position \div Block, position % Block>>
Hidden(s, layer, position) == [i \in DOMAIN s |-> [byte |-> s[i], key |-> KeyOf(layer, position + i - 1)]]
Shown(s, layer, position) ==
    [i \in DOMAIN s |-> IF s[i].key = KeyOf(layer, position + i - 1) THEN s[i].byte ELSE Base]
Greeting(d) ==
    IF d.layer = "aes" THEN <<[byte |-> "vector", key |-> "clear"], [byte |-> "IHDR", key |-> d.key]>> ELSE <<>>

---- \* The writer

Least(a, b) == IF a < b THEN a ELSE b
Rest(s, k) == SubSeq(s, k + 1, Len(s))
Nothing == {<<>>}
PartLeft(pieces, k) == IF k = Len(pieces[1]) THEN Tail(pieces) ELSE <<Rest(pieces[1], k)>> \o Tail(pieces)

\* partialWrite: the layer advances by what was really sent.
\* Variant: it advances by what it was given.
AdvanceGiven(k) == Least(Chunk, Len(wr.left[1]))
Advance(k) == k
Sent(k) == Hidden(SubSeq(wr.left[1], 1, k), deal.layer, wr.position)
WriteSome ==
    /\ wr.result = "going" /\ wr.left # <<>>
    /\ \E k \in 1..Least(Chunk, Len(wr.left[1])) :
          /\ wire' = wire \o Sent(k)
          /\ wr' = [wr EXCEPT !.left = PartLeft(@, k), !.position = @ + Advance(k)]
    /\ UNCHANGED <<deal, over, rd>>

\* An error, or a call that writes nothing, shuts the socket: what is under way still arrives, unless the
\* connection itself broke.
WriteFails ==
    /\ wr.result = "going" /\ over = "more"
    /\ \/ wr.left # <<>>
       \/ Desynced(deal)
    /\ wr' = [wr EXCEPT !.result = "failed"]
    /\ over' \in {"end", "error"}
    /\ wire' \in {wire} \cup IF over' = "error" THEN Nothing ELSE {}
    /\ UNCHANGED <<deal, rd>>
WriteEnds ==
    /\ wr.result = "going" /\ wr.left = <<>> /\ ~Desynced(deal)
    /\ wr' = [wr EXCEPT !.result = "ok"]
    /\ over' \in {"more", "end"}
    /\ UNCHANGED <<deal, wire, rd>>

---- \* The reader

\* readFull into the buffer, until it has what it wants; then the next stage.
Wants(stage, d) ==
    CASE stage = "full" -> d.limit [] stage = "length" -> Width [] stage = "delimited" -> 1
      [] stage \in {"vector", "header"} -> 1
FirstOfKind(d) == CASE d.kind = "full" -> "full" [] d.kind = "string" -> "length" [] d.kind = "block" -> "delimited"
First(d) == IF d.layer = "aes" THEN "vector" ELSE FirstOfKind(d)
Fails(r) == [r EXCEPT !.at = "over", !.result = "failed"]
Gives(r, s) == [r EXCEPT !.at = "over", !.result = "ok", !.out = s]
Awaits(r, stage, n) == [r EXCEPT !.at = stage, !.want = n, !.buffer = <<>>]

\* readBlock32WAllocAndDelim: byte after byte; the delimiter may begin in one block and end in the next.  A block
\* that is used up is followed by one more while the limit has room for it.
\* A limit below one block is refused at once.
Delimited(r, d) ==
    LET all == r.out \o r.buffer
        more == [Awaits(r, "delimited", 1) EXCEPT !.out = all]
    IN  IF IsSuffix(d.delim, all) THEN Gives(r, all)
        ELSE IF Len(all) % Block = 0 /\ Len(all) + Block > d.limit THEN Fails(r)
        ELSE more

\* The buffer is full.
NextStage(r, d) ==
    CASE r.at = "vector" -> Awaits(r, "header", 1)
      [] r.at = "header" -> IF r.buffer = <<"IHDR">> THEN Awaits([r EXCEPT !.position = 0], FirstOfKind(d),
                                                                Wants(FirstOfKind(d), d)) ELSE Fails(r)
      [] r.at = "full" -> Gives(r, r.buffer)
      [] r.at = "length" ->
             LET n == Value(r.buffer)
             IN  IF n > d.limit THEN Fails(r) ELSE IF n = 0 THEN Gives(r, <<>>) ELSE Awaits(r, "data", n)
      [] r.at = "data" -> Gives(r, r.buffer)
      [] r.at = "delimited" -> Delimited(r, d)

Understood(s) ==
    IF rd.at = "vector" THEN [i \in DOMAIN s |-> s[i].byte]
    ELSE IF rd.at = "header" THEN [i \in DOMAIN s |-> IF s[i].key = "common" THEN s[i].byte ELSE "noise"]
    ELSE Shown(s, deal.layer, rd.position)
Filled(r) == IF Len(r.buffer) = r.want THEN NextStage(r, deal) ELSE r
ReadSome ==
    /\ rd.at # "over" /\ wire # <<>>
    /\ rd.at = "delimited" => deal.limit >= Block
    /\ \E k \in 1..Least(Least(Chunk, rd.want - Len(rd.buffer)), Len(wire)) :
          /\ rd' = Filled([rd EXCEPT !.buffer = @ \o Understood(SubSeq(wire, 1, k)), !.position = @ + k])
          /\ wire' = Rest(wire, k)
    /\ UNCHANGED <<deal, wr, over>>
ReadEnds ==
    /\ rd.at # "over" /\ wire = <<>> /\ over # "more"
    /\ rd.want > 0 /\ (rd.at = "delimited" => deal.limit >= Block)
    /\ rd' = Fails(rd)
    /\ UNCHANGED <<deal, wr, wire, over>>
\* recv answers with an error while the connection stands and whatever is under way: a signal, the receive timeout
\* of the socket.  What was read of the message is dropped.
ReadBreaks ==
    /\ rd.at # "over"
    /\ rd.want > 0 /\ (rd.at = "delimited" => deal.limit >= Block)
    /\ rd' = [Fails(rd) EXCEPT !.result = "broken"]
    /\ UNCHANGED <<deal, wr, wire, over>>
ReadNothing ==
    /\ \/ rd.at = "full" /\ rd.want = 0 /\ rd' = Gives(rd, <<>>)
       \/ rd.at = "delimited" /\ deal.limit < Block /\ rd' = Fails(rd)
    /\ UNCHANGED <<deal, wr, wire, over>>

XInit ==
    /\ deal \in Jobs
    /\ wr = [left |-> Pieces(deal), position |-> 0, result |-> "going"]
    /\ wire = Greeting(deal)
    /\ over = "more"
    /\ rd = [at |-> First(deal), want |-> Wants(First(deal), deal), buffer |-> <<>>, out |-> <<>>, position |-> 0,
             result |-> "going"]
XNext == WriteSome \/ WriteFails \/ WriteEnds \/ ReadSome \/ ReadEnds \/ ReadBreaks \/ ReadNothing

---- \* Properties

\* What each kind of reading promises of the bytes the writer was given.
UpToDelim(d) ==
    {n \in Len(d.delim)..Len(d.text) :
        /\ n <= (d.limit \div Block) * Block
        /\ SubSeq(d.text, n - Len(d.delim) + 1, n) = d.delim}
Promised(d) ==
    CASE d.kind = "full" -> {SubSeq(d.text, 1, Least(d.limit, Len(d.text)))}
      [] d.kind = "string" -> IF Len(d.text) <= Least(d.limit, Most) THEN {d.text} ELSE {}
      [] d.kind = "block" -> IF UpToDelim(d) = {} THEN {}
                             ELSE {SubSeq(d.text, 1, CHOOSE n \in UpToDelim(d) : \A m \in UpToDelim(d) : n <= m)}

\* A reading that succeeds gives what was written, in full: whatever parts the kernel moves it in, whichever layer
\* hides it, and a delimiter cut by two blocks is found.  One in which no recv answered with an error fails for a
\* reason of the message: the writer failed, the common keys differ, or there was nothing of that kind to read.
ReadAsWritten ==
    /\ rd.result = "ok" => rd.out \in Promised(deal) /\ Len(rd.out) >= (IF deal.kind = "full" THEN deal.limit ELSE 0)
    /\ rd.result = "failed" =>
          \/ wr.result = "failed"
          \/ deal.layer = "aes" /\ deal.key # "common"
          \/ Promised(deal) = {}
          \/ deal.kind = "full" /\ Len(deal.text) < deal.limit
===============================================================================
