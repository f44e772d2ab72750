----------------------------- MODULE Containers ------------------------------
(***************************************************************************)
(* A B_Chunks container under any sequence of changes.  text is what the   *)
(* container is documented to hold.  odd says that an operation has run    *)
(* whose result is not the documented one: a prepend of several blocks or  *)
(* in a file, and a truncation that found the wrong chunk.                 *)
(***************************************************************************)
EXTENDS Chunks

CONSTANTS
    Bytes,       \* the bytes that are written
    MaxText,     \* bound: bytes in the container
    MaxSteps,    \* bound: changes
    MaxSizes,    \* values of maxSize
    FileLimits,  \* values of maxContainerSizeUntilGoingToFS, 0 for never
    SetChunkSize,  \* its maxChunkSize
    SetMaxChunks   \* its maxChunks

ASSUME ContainersAssumption ==
    /\ Bytes \subseteq DOMAIN Fold /\ MaxText \in Nat /\ MaxSteps \in Nat
    /\ MaxSizes \subseteq Nat /\ FileLimits \subseteq Nat
    /\ SetChunkSize \in Nat \ {0} /\ SetMaxChunks \in Nat \ {0}

VARIABLES
    c,      \* the container
    text,   \* what it is documented to hold
    odd,    \* a prepend or a truncation went wrong, as the code has them
    steps   \* changes so far

cvars == <<c, text, odd, steps>>

Texts(n) == UNION {[1..k -> Bytes] : k \in 0..n}
Fits(s) == Len(text) + Len(s) <= MaxText

CInit ==
    /\ \E max \in MaxSizes, limit \in FileLimits : 
           c = [Container(max, limit) EXCEPT !.maxChunkSize = SetChunkSize, !.maxChunks = SetMaxChunks]
    /\ text = <<>> /\ odd = FALSE /\ steps = 0

\* What a change makes of the text.  Once it is odd, only clear() helps.
Becomes(r, new) ==
    /\ steps < MaxSteps /\ steps' = steps + 1
    /\ c' = r.c
    /\ text' = new

\* opens: whether the file the container moves to can be opened.
AppendBytes ==
    \E s \in Texts(MaxText), opens \in BOOLEAN :
        LET r == append(c, s, opens) IN
        /\ Fits(s) /\ Becomes(r, text \o SubSeq(s, 1, r.n))
        /\ UNCHANGED odd

PrependBytes ==
    \E s \in Texts(MaxText), opens \in BOOLEAN :
        LET r == prepend(c, s, opens) IN
        /\ Fits(s) /\ Becomes(r, SubSeq(s, 1, r.n) \o text)
        /\ odd' = (odd \/ (r.n > 0 /\ (r.c.file.moved \/ r.n > c.maxChunkSize)))

DisplaceBytes ==
    \E n \in 0..MaxText :
        LET r == displace(c, n) IN Becomes(r, From(text, r.n)) /\ UNCHANGED odd

TruncateBytes ==
    \E n \in 0..MaxText :
        LET r == truncate(c, n) IN
        /\ Becomes(r, IF n >= Len(text) THEN text ELSE Piece(text, 0, n))
        /\ odd' = (odd \/ ~(c.file.moved \/ OffsetsHold(c)))

ClearBytes == Becomes(Changed(TRUE, 0, clear(c)), <<>>) /\ odd' = FALSE

\* operator=: the bytes of the container written into an empty one.
Assign ==
    \E max \in MaxSizes, opens \in BOOLEAN :
        LET r == streamTo(c, Container(max, 0), opens) IN
        /\ Becomes(r, IF r.ok THEN text ELSE Piece(text, 0, size(r.c)))
        /\ UNCHANGED odd

DisplaceUntilNeedle ==
    \E needle \in Texts(2) \ {<<>>}, most \in {2, MaxText}, remove \in BOOLEAN :
        LET r == displaceUntil(c, needle, most, remove) IN
        /\ r.got.ok
        /\ Becomes(r, From(text, Len(text) - size(r.c)))
        /\ UNCHANGED odd

CNext ==
    \/ ClearBytes
    \/ /\ ~odd
       /\ \/ AppendBytes \/ PrependBytes \/ DisplaceBytes \/ TruncateBytes
          \/ Assign \/ DisplaceUntilNeedle

(***************************************************************************)
(* Properties.                                                             *)
(***************************************************************************)
FirstAt(s, needle, offset) ==
    LET hits == {p \in offset..Len(s) : Piece(s, p, Len(needle)) = needle} IN
    IF hits = {} THEN NotFound ELSE At(Min(hits))

\* After any sequence of changes, across chunks, limits and the move to a file,
\* a container holds the bytes it was given: every part of it, copied from it or
\* from a reference into it, is that part of the text.  Excepted are reads by
\* offset while the offsets of the chunks are stale (see recalcChunkOffsets), and
\* what a prepend or a truncation that went wrong leaves, until it is cleared (odd).
ReadsAgree ==
    odd \/ \A o, n \in 0..MaxText : \A max \in {1, MaxText} :
        /\ size(c) = Len(text)
        /\ copyToStream(c, n, o) = appendTo(c, n, o)
        /\ appendTo(c, n, o) = (IF o > Len(text) /\ n > 0 THEN NotCopied ELSE Copied(Piece(text, o, Lesser(n, Len(text) - o))))
        /\ (c.file.moved \/ OffsetsHold(c)) =>
               copyOut(c, n, o) = (IF o + n > Len(text) /\ n > 0 THEN NotCopied ELSE Copied(Piece(text, o, n)))
        /\ o <= Len(text) =>
               LET part == Piece(text, o, Lesser(max, Len(text) - o)) IN
               /\ refAppendTo(c, o, max, n, 0) = Copied(Piece(part, 0, Lesser(n, Len(part))))
               /\ \A needle \in {<<>>, Piece(text, o, n)} :
                      refCompare(c, o, max, needle, TRUE, 0) <=> Piece(part, 0, Len(needle)) = needle

\* A search that minds case finds the first place of the needle, wherever the
\* chunks end; compare sees it there and nowhere before.  (Only the delimiters of
\* the parsers are searched for, and their case matters.)
SearchesAgree ==
    odd \/ \A needle \in Texts(2) \ {<<>>}, o \in 0..Len(text) :
        LET first == FirstAt(text, needle, o) f == find(c, needle, TRUE, o, 0) IN
        /\ f.ok = first.ok
        /\ f.ok => f.at = first.at
        /\ compare(c, needle, TRUE, o) <=> (first.ok /\ first.at = o)

\* Both: what is read and what is found is what the container was given.
ContainersAgree == ReadsAgree /\ SearchesAgree
===============================================================================
