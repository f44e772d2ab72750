------------------------------- MODULE Chunks --------------------------------
(***************************************************************************)
(* The byte containers of src/Memory/mdz_mem_vars as operators: B_Chunks,  *)
(* which keeps its bytes in chunks and moves them to a mapped file when    *)
(* they are too many, B_MEM, which refers to memory, B_Ref, which refers   *)
(* to a part of another container, and what B_Base builds on them.         *)
(* Sizes do not overflow: they are bounded by memory.                      *)
(***************************************************************************)
EXTENDS Naturals, Sequences, SequencesExt, FiniteSetsExt

CONSTANTS
    Fold,           \* by byte: the byte it equals when case does not matter
    Nul,            \* the byte a file grows by
    MaxChunkSize,   \* maxChunkSize of a new container
    MaxChunks       \* maxChunks of a new container

ASSUME ChunksAssumption ==
    Nul \in DOMAIN Fold /\ MaxChunkSize \in Nat \ {0} /\ MaxChunks \in Nat \ {0}

Lesser(a, b) == IF a < b THEN a ELSE b
From(s, offset) == SubSeq(s, offset + 1, Len(s))
Piece(s, offset, n) == SubSeq(s, offset + 1, Lesser(offset + n, Len(s)))
NotFound == [ok |-> FALSE, at |-> 0]
At(p) == [ok |-> TRUE, at |-> p]
NotCopied == [ok |-> FALSE, data |-> <<>>]
Copied(s) == [ok |-> TRUE, data |-> s]

(***************************************************************************)
(* B_Chunks.  chunks: data and the offset each believes it has.  file: the *)
(* bytes of the mapped file the container has moved to, if any.            *)
(***************************************************************************)
InMemory == [moved |-> FALSE, bytes |-> <<>>]
Container(max, limit) ==
    [chunks |-> <<>>, bytes |-> 0, max |-> max, limit |-> limit, file |-> InMemory,
     maxChunkSize |-> MaxChunkSize, maxChunks |-> MaxChunks]

size(c) == IF c.file.moved THEN Len(c.file.bytes) ELSE c.bytes
getSizeLeft(c) == IF size(c) > c.max THEN 0 ELSE c.max - size(c)
ChunkSize(c, i) == Len(c.chunks[i].data)
nextOffset(chunk) == chunk.offset + Len(chunk.data)
containsOffset(chunk, o) == chunk.offset <= o /\ o < nextOffset(chunk)

\* The pieces of the chunks that a copy, a comparison or a search visits: before
\* each chunk there is so much left to skip and so much to take.
Visited(chunks, offset, n) ==
    LET before[i \in 0..Len(chunks)] ==
            IF i = 0 THEN [skip |-> offset, take |-> n]
            ELSE LET w == before[i - 1]
                     held == Len(chunks[i].data)
                 IN IF w.skip > held THEN [skip |-> w.skip - held, take |-> w.take]
                    ELSE [skip |-> 0, take |-> w.take - Lesser(w.take, held - w.skip)]
    IN [i \in DOMAIN chunks |->
           Piece(chunks[i].data, before[i - 1].skip, before[i - 1].take)]

\* Memory is visited in one piece (in the source, of 64 KB each).
MemPieces(s, offset, n) == <<Piece(s, offset, n)>>

PiecesTo(c, offset, n) ==
    IF c.file.moved THEN MemPieces(c.file.bytes, offset, n) ELSE Visited(c.chunks, offset, n)

copyTo2(c, offset, n) == FlattenSeq(PiecesTo(c, offset, Lesser(n, size(c) - offset)))

Matches2(s, needle, caseSensitive) ==
    Len(s) = Len(needle)
    /\ \A i \in DOMAIN s : IF caseSensitive THEN s[i] = needle[i] ELSE Fold[s[i]] = Fold[needle[i]]

compare2(c, needle, caseSensitive, offset) ==
    offset + Len(needle) <= size(c) /\ Matches2(copyTo2(c, offset, Len(needle)), needle, caseSensitive)

Stops(b, byte, eitherCase) == IF eitherCase THEN Fold[b] = Fold[byte] ELSE b = byte

\* B_MEM: the other way round; a search space of 0 is the rest of the memory.
MemFindChar(s, byte, offset, space, caseSensitive) ==
    LET look == IF space = 0 THEN Len(s) - offset ELSE space
        hits == {p \in (offset + 1)..(offset + look) : Stops(s[p], byte, ~caseSensitive)} IN
    IF s = <<>> \/ offset + space > Len(s) \/ hits = {} THEN NotFound ELSE At(Min(hits) - 1)

\* A search in chunks stops at either case of the byte when case matters, and
\* at the byte itself when it does not, in the first piece that has it.
FirstStop(seen, byte, caseSensitive, offset) ==
    LET hits == {p \in DOMAIN seen : Stops(seen[p], byte, caseSensitive)} IN
    IF hits = {} THEN NotFound ELSE At(offset + Min(hits) - 1)

findChar(c, byte, offset, space, caseSensitive) ==
    IF c.file.moved THEN MemFindChar(c.file.bytes, byte, offset, 0, FALSE)
    ELSE IF offset + space > size(c) THEN NotFound
    ELSE FirstStop(FlattenSeq(Visited(c.chunks, offset, space)), byte, caseSensitive, offset)

(***************************************************************************)
(* Lookup by offset: a binary search on the offsets the chunks believe.    *)
(***************************************************************************)
Middle(lo, hi) == IF lo = hi THEN lo ELSE lo + ((hi + 1 - lo) \div 2) - ((hi - lo) % 2)

\* Looks at one chunk after another, each at most once; 0 is no chunk.
ThatContains(c, i, offset) == IF containsOffset(c.chunks[i], offset) THEN i ELSE 0
I_Chunk_GetPosForOffset(c, offset) ==
    LET n == Len(c.chunks)
        at[k \in 0..n] ==
            IF k = 0 THEN [cur |-> IF n = 1 THEN 0 ELSE (n \div 2) - 1, lo |-> 0, hi |-> n - 1]
            ELSE LET w == at[k - 1]
                     chunk == c.chunks[w.cur + 1]
                 IN IF containsOffset(chunk, offset) THEN w
                    ELSE IF offset < chunk.offset
                         THEN IF w.cur = w.lo THEN w
                              ELSE [cur |-> Middle(w.lo, w.cur - 1), lo |-> w.lo, hi |-> w.cur - 1]
                         ELSE IF w.cur = w.hi THEN w
                              ELSE [cur |-> Middle(w.cur + 1, w.hi), lo |-> w.cur + 1, hi |-> w.hi]
    IN IF n = 0 THEN 0 ELSE ThatContains(c, at[n].cur + 1, offset)

OffsetsHold(c) ==
    \A i \in DOMAIN c.chunks :
        c.chunks[i].offset = IF i = 1 THEN 0 ELSE nextOffset(c.chunks[i - 1])

CopiedFrom(c, i, n, offset) ==
    IF i = 0 THEN NotCopied
    ELSE Copied(FlattenSeq(Visited(From(c.chunks, i - 1), offset - c.chunks[i].offset, n)))
copyOut2(c, n, offset) ==
    IF c.file.moved THEN Copied(Piece(c.file.bytes, offset, n))
    ELSE CopiedFrom(c, I_Chunk_GetPosForOffset(c, offset), n, offset)

\* The loop never goes on to the second chunk: the first gets the offset of
\* the last, and the others keep theirs.
recalcChunkOffsets(c) ==
    IF c.chunks = <<>> THEN c
    ELSE [c EXCEPT !.chunks[1].offset = (Len(c.chunks) - 1) * ChunkSize(c, 1)]

(***************************************************************************)
(* Changes: whether it went well, how many bytes, and the container.       *)
(***************************************************************************)
Changed(ok, n, c) == [ok |-> ok, n |-> n, c |-> c]

\* mmapTruncate: the file is cut or grows, and is mapped anew.
Resized(c, bytes) == [c EXCEPT !.file.bytes = bytes]

FileDrops(c, n) == Resized(c, From(c.file.bytes, n))

\* mmapAppend and mmapPrepend.  The file is longer by as many bytes; a prepend
\* then moves what there was to the left.
FileAdds(c, s, prependMode) ==
    LET old == c.file.bytes
        grown == old \o [i \in DOMAIN s |-> Nul]
        moved == From(grown, Len(s)) \o From(grown, Len(old))
    IN Changed(TRUE, Len(s),
               Resized(c, IF prependMode THEN s \o From(moved, Len(s)) ELSE old \o s))

copyToFS(c) ==
    [c EXCEPT !.file = [moved |-> TRUE, bytes |-> copyTo2(c, 0, size(c))], !.chunks = <<>>]

Blocks(s, n) ==
    [i \in 1..((Len(s) + n - 1) \div n) |-> Piece(s, (i - 1) * n, Lesser(n, Len(s) - (i - 1) * n))]

\* Each begins where the one before it ends, as that one believes.
PushBlocks(c, blocks) ==
    LET end == IF c.chunks = <<>> THEN 0 ELSE nextOffset(Last(c.chunks)) IN
    [c EXCEPT !.chunks = @ \o [i \in DOMAIN blocks |->
        [data |-> blocks[i], offset |-> end + Len(FlattenSeq(SubSeq(blocks, 1, i - 1)))]]]

\* Each block goes to the front, so they end up in reverse.
PushBlocksAtFront(c, blocks) ==
    [c EXCEPT !.chunks = [i \in DOMAIN blocks |-> [data |-> Reverse(blocks)[i], offset |-> 0]] \o @]

append2(c, s, prependMode, opens) ==
    LET room == Blocks(s, c.maxChunkSize)
        blocks == SubSeq(room, 1, Lesser(Len(room), c.maxChunks - Len(c.chunks)))
        n == Len(FlattenSeq(blocks))
        all == blocks = room
        placed == [(IF prependMode THEN PushBlocksAtFront(c, blocks) ELSE PushBlocks(c, blocks))
                     EXCEPT !.bytes = @ + n]
    IN IF c.file.moved THEN FileAdds(c, s, prependMode)
       ELSE IF c.limit # 0 /\ Len(s) + size(c) > c.limit
            THEN IF opens THEN FileAdds(copyToFS(c), s, prependMode) ELSE Changed(FALSE, 0, c)
       ELSE Changed(all, n, IF prependMode /\ all THEN recalcChunkOffsets(placed) ELSE placed)

AddBytes(c, s, prependMode, opens) ==
    IF Len(s) + size(c) > c.max THEN Changed(FALSE, 0, c)
    ELSE IF s = <<>> THEN Changed(TRUE, 0, c)
    ELSE append2(c, s, prependMode, opens)

append(c, s, opens) == AddBytes(c, s, FALSE, opens)
prepend(c, s, opens) == AddBytes(c, s, TRUE, opens)

\* The same, but at most one chunk.
DropBytesOneChunk(chunks, n) ==
    IF n = 0 \/ chunks = <<>> THEN chunks
    ELSE IF n >= Len(Head(chunks).data) THEN Tail(chunks)
    ELSE <<[Head(chunks) EXCEPT !.data = From(@, n)]>> \o Tail(chunks)

DropBytes(chunks, n) ==
    LET left[i \in 0..Len(chunks)] ==
            IF i = 0 THEN [chunks |-> chunks, n |-> n]
            ELSE LET w == left[i - 1]
                     first == Head(w.chunks)
                 IN IF w.n = 0 \/ w.chunks = <<>> THEN w
                    ELSE IF w.n >= Len(first.data) THEN [chunks |-> Tail(w.chunks), n |-> w.n - Len(first.data)]
                    ELSE [chunks |-> <<[first EXCEPT !.data = From(@, w.n)]>> \o Tail(w.chunks), n |-> 0]
    IN left[Len(chunks)].chunks

displace(c, n) ==
    LET m == Lesser(n, size(c)) IN
    IF c.file.moved THEN Changed(TRUE, m, FileDrops(c, m))
    ELSE Changed(TRUE, m, recalcChunkOffsets([c EXCEPT !.chunks = DropBytes(@, m), !.bytes = @ - m]))

\* In a file it answers no, though it did.  The chunk that is cut is the one
\* whose believed offset is below; one that begins at the cut goes too.
truncate2(c, n) ==
    LET i == I_Chunk_GetPosForOffset(c, n)
        begins == c.chunks[i].offset = n
        kept == IF begins THEN SubSeq(c.chunks, 1, i - 1)
                ELSE [SubSeq(c.chunks, 1, i) EXCEPT ![i].data = Piece(@, 0, n - c.chunks[i].offset)]
    IN IF c.file.moved THEN Changed(FALSE, n, Resized(c, Piece(c.file.bytes, 0, n)))
       ELSE IF i = 0 THEN Changed(FALSE, 0, c)
       ELSE Changed(TRUE, n, [c EXCEPT !.chunks = kept, !.bytes = n])

truncate(c, n) == IF n >= size(c) THEN Changed(FALSE, size(c), c) ELSE truncate2(c, n)
clear(c) == [c EXCEPT !.chunks = <<>>, !.bytes = 0, !.file = InMemory]

(***************************************************************************)
(* B_Base on any container.                                                *)
(***************************************************************************)
appendTo(c, n, offset) ==
    IF n = 0 THEN Copied(<<>>) ELSE IF offset > size(c) THEN NotCopied ELSE Copied(copyTo2(c, offset, n))

\* The same into a stream of the standard library.
copyToStream2(c, offset, n) == FlattenSeq(PiecesTo(c, offset, Lesser(n, size(c) - offset)))
copyToStream(c, n, offset) ==
    IF n = 0 THEN Copied(<<>>) ELSE IF offset > size(c) THEN NotCopied ELSE Copied(copyToStream2(c, offset, n))

copyOut(c, n, offset) ==
    IF n = 0 THEN Copied(<<>>) ELSE IF offset + n > size(c) THEN NotCopied ELSE copyOut2(c, n, offset)

toString(c, n, offset) == copyOut(c, n, offset).data

compare(c, needle, caseSensitive, offset) == needle = <<>> \/ compare2(c, needle, caseSensitive, offset)

\* Where it looks for the needle in turn, each place behind the one before it,
\* until the needle is there or there is no place left.
Tried(c, needle, caseSensitive, p) ==
    [place |-> p, is |-> p.ok /\ compare2(c, needle, caseSensitive, p.at)]
TriesOn(c, needle, caseSensitive, offset, space, w) ==
    LET left == space - (w.place.at - offset) IN
    IF ~w.place.ok \/ w.is THEN w
    ELSE Tried(c, needle, caseSensitive,
               IF left = 0 THEN NotFound ELSE findChar(c, needle[1], w.place.at + 1, left - 1, caseSensitive))
PlaceOf(w) == IF w.is THEN w.place ELSE NotFound

SearchFrom(c, needle, caseSensitive, offset, space) ==
    LET tried[k \in 0..size(c)] ==
            IF k = 0 THEN Tried(c, needle, caseSensitive, findChar(c, needle[1], offset, space, caseSensitive))
            ELSE TriesOn(c, needle, caseSensitive, offset, space, tried[k - 1])
    IN PlaceOf(tried[size(c)])

find(c, needle, caseSensitive, offset, searchSpace) ==
    LET space == IF searchSpace = 0 THEN size(c) - offset ELSE searchSpace IN
    IF offset > size(c) \/ space = 0 \/ space < Len(needle) THEN NotFound
    ELSE IF needle = <<>> THEN At(0)
    ELSE SearchFrom(c, needle, caseSensitive, offset, space)

\* The first of the list that is found anywhere, not the one found first.
FirstFound(needles, tried) ==
    LET hits == {i \in DOMAIN needles : tried[i].ok} IN
    IF hits = {} THEN [ok |-> FALSE, at |-> 0, needle |-> <<>>]
    ELSE [ok |-> TRUE, at |-> tried[Min(hits)].at, needle |-> needles[Min(hits)]]
findAny(c, needles) == FirstFound(needles, [i \in DOMAIN needles |-> find(c, needles[i], TRUE, 0, 0)])

\* The search does not mind case here; the result is nothing, or what is copied:
\* what is before the needle that was found, and as much of it as is kept.
CopyFound(c, f, kept, maxCopySize) ==
    IF ~f.ok \/ f.at + kept > maxCopySize THEN NotCopied ELSE appendTo(c, f.at + kept, 0)
copyUntil(c, needle, maxCopySize, removeNeedle) ==
    CopyFound(c, find(c, needle, FALSE, 0, maxCopySize), IF removeNeedle THEN 0 ELSE Len(needle), maxCopySize)

DisplaceCopied(c, got, removed) ==
    [got |-> got, c |-> IF got.ok THEN displace(c, Len(got.data) + removed).c ELSE c]
displaceUntil(c, needle, maxCopySize, removeNeedle) ==
    DisplaceCopied(c, copyUntil(c, needle, maxCopySize, removeNeedle), IF removeNeedle THEN Len(needle) ELSE 0)

\* Writing a container into another, piece by piece until one is refused.
WriteAll(to, pieces, opens) ==
    LET wrote[i \in 0..Len(pieces)] ==
            IF i = 0 THEN Changed(TRUE, 0, to)
            ELSE IF wrote[i - 1].ok THEN append(wrote[i - 1].c, pieces[i], opens) ELSE wrote[i - 1]
    IN wrote[Len(pieces)]

streamTo(c, to, opens) == WriteAll(to, IF size(c) = 0 THEN <<>> ELSE PiecesTo(c, 0, size(c)), opens)

(***************************************************************************)
(* B_Ref: a part of a container, from offset on and of max bytes at most.  *)
(***************************************************************************)
refSize(c, offset, max) == Lesser(max, size(c) - offset)
refCopyOut(c, offset, max, n, o) ==
    IF n = 0 THEN Copied(<<>>)
    ELSE IF o + n > refSize(c, offset, max) THEN NotCopied ELSE copyOut(c, n, offset + o)
refAppendTo(c, offset, max, n, o) ==
    IF n = 0 THEN Copied(<<>>)
    ELSE IF o > refSize(c, offset, max) THEN NotCopied
    ELSE appendTo(c, Lesser(n, refSize(c, offset, max) - o), offset + o)
refCompare(c, offset, max, needle, caseSensitive, o) ==
    \/ needle = <<>>
    \/ /\ o + Len(needle) <= refSize(c, offset, max)
       /\ compare(c, needle, caseSensitive, offset + o)

===============================================================================
