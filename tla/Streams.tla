-------------------------------- MODULE Streams --------------------------------
(***************************************************************************)
(* How bytes are pushed through a parser (src/Memory/mdz_mem_vars/parser   *)
(* and subparser).  A parser is a record p: subs, its sub-parsers by name, *)
(* cur, the one at work ("none" at the end), status, what it last asked    *)
(* for, finished, garbage, what memory that was not written compares to,   *)
(* misread, whether a search for the beginning of a delimiter read other   *)
(* bytes than the last, and what the protocol adds.                        *)
(***************************************************************************)
EXTENDS Chunks

CONSTANTS
    MaxTTL,                 \* maxTTL: sub-parsers one write may visit
    parse(_, _),            \* the protocol's parse() on bytes: sets p.status
    changeToNextParser(_)   \* the protocol's changeToNextParser(): [ok, p]

SubParser(mode, delims, max) ==
    [mode |-> mode, delims |-> delims, buf |-> Container(max, 0), found |-> <<>>, ended |-> FALSE]

Sub(p) == p.subs[p.cur]
unparsedBuffer(p) == Sub(p).buf
WithBuffer(p, b) == [p EXCEPT !.subs[p.cur].buf = b]
Cleared(p) == WithBuffer(p, clear(unparsedBuffer(p)))

Took(n, p) == [ok |-> TRUE, n |-> n, p |-> p]
Refused(p) == [ok |-> FALSE, n |-> 0, p |-> p]

\* parse() on the first n bytes of the buffer.
Parsed(p, n) == parse(p, appendTo(unparsedBuffer(p), n, 0).data)

\* No more than the buffer has room for, unless it has none.
Clamped(p, data) ==
    LET left == getSizeLeft(unparsedBuffer(p)) IN IF left = 0 THEN data ELSE Piece(data, 0, left)

(***************************************************************************)
(* The ways of parsing: each takes bytes, [ok, how many, p].               *)
(***************************************************************************)
Delimited(q, old, n, hit) ==
    IF hit.ok THEN Took(hit.at + Len(hit.needle) - size(old), Cleared(Parsed(q, hit.at)))
    ELSE Took(n, IF Sub(q).ended THEN Cleared(Parsed(q, size(unparsedBuffer(q)))) ELSE q)
Searched(p, n, c, hit, sets) ==
    Delimited([WithBuffer(p, c) EXCEPT !.subs[p.cur].found = IF sets THEN hit.needle ELSE @],
              unparsedBuffer(p), n, hit)
Appended(p, data, r, sets) ==
    IF data # <<>> /\ (~r.ok \/ r.n = 0) THEN Refused(Cleared(p))
    ELSE Searched(p, r.n, r.c, findAny(r.c, Sub(p).delims), sets)
parseByDelimiters(p, data, sets) == Appended(p, data, append(unparsedBuffer(p), Clamped(p, data), TRUE), sets)

parseByDelimiter(p, data) == parseByDelimiters(p, data, FALSE)
parseByMultiDelimiter(p, data) == parseByDelimiters(p, data, TRUE)

Filled(q, n) ==
    Took(n, IF getSizeLeft(unparsedBuffer(q)) = 0 THEN Cleared(Parsed(q, size(unparsedBuffer(q)))) ELSE q)
Fills(p, r) == IF r.ok THEN Filled(WithBuffer(p, r.c), r.n) ELSE Refused(WithBuffer(p, r.c))
parseBySize(p, data) ==
    IF data = <<>> THEN Took(0, Cleared([p EXCEPT !.status = "next"]))
    ELSE Fills(p, append(unparsedBuffer(p), Piece(data, 0, getSizeLeft(unparsedBuffer(p))), TRUE))

\* The bytes leave the buffer, and its limit goes down by as many.
Passes(p, r) ==
    IF r.ok
    THEN Took(r.n, [Cleared(Parsed(WithBuffer(p, r.c), size(r.c))) EXCEPT !.subs[p.cur].buf.max = @ - size(r.c)])
    ELSE Refused(p)
parseDirect(p, data) == Passes(p, append(unparsedBuffer(p), Clamped(p, data), TRUE))

\* The last v bytes, read by their offset, against the beginning of the
\* delimiter; what could not be read is memory that was never written.
LastBytes(b, v) == refCopyOut(b, size(b) - v, size(b), v, 0).data
TailIs(p, b, delim, v) ==
    LET got == LastBytes(b, v) IN
    /\ got = Piece(delim, 0, Len(got))
    /\ Len(got) = v \/ p.garbage

TailLengths(b, delim) == 1..Lesser(size(b), Len(delim) - 1)
getLastBytesInCommon(p, b, delim) ==
    Max({0} \cup {v \in TailLengths(b, delim) : TailIs(p, b, delim, v)})

\* The same, without looking for a delimiter that has only begun.
GivesAll(p, data) ==
    LET q == WithBuffer(p, append(unparsedBuffer(p), Clamped(p, data), TRUE).c) IN
    Took(Len(Clamped(p, data)), Cleared(Parsed(q, size(unparsedBuffer(q)))))

\* Whether the search for a beginning of the delimiter in b reads other bytes than the last ones.
Misreads(b, delim, whole) == \E v \in TailLengths(b, delim) : LastBytes(b, v) # From(whole, Len(whole) - v)
KeepsTail(some, b, tail) ==
    IF tail = 0 THEN Cleared(some) ELSE WithBuffer(some, displace(b, size(b) - tail).c)
GivesSome(q, b, delim, tail) ==
    [KeepsTail(Parsed(q, size(b) - tail), b, tail)
        EXCEPT !.misread = @ \/ Misreads(b, delim, appendTo(b, size(b), 0).data)]
\* Up to the delimiter, or all but what may be its beginning.
UpTo(p, r, delim, hit) ==
    IF hit.ok
    THEN Took(hit.at + Len(delim) - size(unparsedBuffer(p)),
              Cleared(Parsed([WithBuffer(p, r.c) EXCEPT !.subs[p.cur].found = delim], hit.at)))
    ELSE Took(r.n, GivesSome([WithBuffer(p, r.c) EXCEPT !.subs[p.cur].found = <<>>], r.c, delim,
                             getLastBytesInCommon(p, r.c, delim)))
Directly(p, r, delim) == IF r.ok THEN UpTo(p, r, delim, find(r.c, delim, TRUE, 0, 0)) ELSE Refused(p)
parseDirectDelimiter(p, data) ==
    IF data = <<>> THEN Refused(p)
    ELSE Directly(p, append(unparsedBuffer(p), Clamped(p, data), TRUE), Sub(p).delims[1])

writeIntoParser(p, data) ==
    LET q == [p EXCEPT !.subs[p.cur].ended = @ \/ data = <<>>] IN
    CASE Sub(p).mode = "delimiter" -> parseByDelimiter(q, data)
      [] Sub(p).mode = "multiDelimiter" -> parseByMultiDelimiter(q, data)
      [] Sub(p).mode = "size" -> parseBySize(q, data)
      [] Sub(p).mode = "direct" -> parseDirect(q, data)
      [] Sub(p).mode = "directDelimiter" -> parseDirectDelimiter(q, data)

(***************************************************************************)
(* The parser: one sub-parser after the other, until the bytes are used.   *)
(***************************************************************************)
Turned(n, next) ==
    IF next.ok THEN Took(n, [next.p EXCEPT !.finished = @ \/ next.p.cur = "none"]) ELSE Refused(next.p)
\* The turn of one sub-parser, and of the next one if it is done.
Turn(w) ==
    IF ~w.ok \/ w.p.status = "error" THEN Refused(w.p)
    ELSE IF w.p.status = "next" THEN Turned(w.n, changeToNextParser(w.p)) ELSE w
Total(n, rest) == IF rest.ok THEN Took(n + rest.n, rest.p) ELSE Refused(rest.p)

RECURSIVE parseData(_, _, _), GoesOn(_, _, _)
GoesOn(t, data, ttl) ==
    IF ~t.ok \/ t.p.cur = "none" \/ t.n = Len(data) THEN t
    ELSE Total(t.n, parseData(t.p, From(data, t.n), ttl))
parseData(p, data, ttl) ==
    IF ttl > MaxTTL \/ p.cur = "none" THEN Refused(p)
    ELSE GoesOn(Turn(writeIntoParser([p EXCEPT !.status = "more"], data)), data, ttl + 1)

write(p, data) == parseData(p, data, 0)
writeEOF(p) == parseData(p, <<>>, 0).p

\* The parser of a protocol, before the first byte.
Parser(first, subs) ==
    [cur |-> first, subs |-> subs, status |-> "more", finished |-> FALSE,
     garbage |-> FALSE, misread |-> FALSE]

===============================================================================
