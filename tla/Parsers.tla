-------------------------------- MODULE Parsers --------------------------------
(***************************************************************************)
(* Every parser fed by a connection that cuts its text anywhere and may    *)
(* close early.  A job says which parser, the text that is sent, and what  *)
(* was written into it.                                                    *)
(***************************************************************************)
EXTENDS Fields, Mime, HttpContent

CONSTANTS
    Jobs,           \* the texts: [proto, text, wrote]
    MaxFragments    \* bound: pieces a text arrives in

ASSUME ParsersAssumption == MaxFragments \in Nat \ {0} /\ MaxTTL \in Nat

VARIABLES
    p,          \* the parser
    job,        \* what is sent
    seen,       \* bytes that have arrived
    fragments,  \* in how many pieces
    open        \* the connection is open, and the parser takes what comes

pvars == <<p, job, seen, fragments, open>>

ParserFor(j) ==
    CASE j.proto = "line" -> LineRecv
      [] j.proto = "vars" -> URLVars
      [] j.proto = "mime" -> MIME_Message
      [] j.proto = "length" -> setContentLenSize(setTransmitionMode(Content, "length"), Len(j.wrote)).p
      [] j.proto \in {"chunks", "close"} -> setTransmitionMode(Content, j.proto)

Takes(q, data) ==
    CASE job.proto = "line" -> Line!write(q, data)
      [] job.proto = "vars" -> Vars!write(q, data)
      [] job.proto = "mime" -> Mime!write(q, data)
      [] OTHER -> Http!write(q, data)

PInit ==
    /\ job \in Jobs
    /\ p = ParserFor(job)
    /\ seen = 0 /\ fragments = 0 /\ open = TRUE

left == From(job.text, seen)

Receive ==
    \E n \in 1..Len(left), garbage \in BOOLEAN :
        LET r == Takes([p EXCEPT !.garbage = garbage], Piece(left, 0, n)) IN
        /\ open /\ ~p.finished
        /\ fragments + 1 < MaxFragments \/ (fragments < MaxFragments /\ n = Len(left))
        /\ garbage => job.proto = "mime"
        /\ p' = [r.p EXCEPT !.garbage = FALSE]
        /\ seen' = seen + n
        /\ fragments' = fragments + 1
        /\ open' = r.ok
        /\ UNCHANGED job

\* The end of the connection is the end of the text.
Close ==
    /\ open /\ ~p.finished
    /\ p' = Takes(p, <<>>).p
    /\ open' = FALSE
    /\ UNCHANGED <<job, seen, fragments>>

PNext == Receive \/ Close

(***************************************************************************)
(* What the texts mean.                                                    *)
(***************************************************************************)
SplitBy(s, x) ==
    LET cuts == SetToSortSeq({0, Len(s) + 1} \cup {i \in DOMAIN s : s[i] = x}, <) IN
    [k \in 1..(Len(cuts) - 1) |-> SubSeq(s, cuts[k] + 1, cuts[k + 1] - 1)]

\* The first that is refused is the last.
UpToRefused(lines) ==
    LET bad == {i \in DOMAIN lines : lines[i] = Refuse} IN
    IF bad = {} THEN lines ELSE SubSeq(lines, 1, Min(bad))

\* A field and the byte that ends it must fit in the buffer.
TooLong(pieces) == \E i \in DOMAIN pieces : Len(pieces[i]) + (IF i < Len(pieces) THEN 1 ELSE 0) > MaxFieldSize
Ended == ~open /\ ~p.finished
Received == Piece(job.text, 0, seen)

LinesAgree ==
    LET all == SplitBy(Received, LineFeed) IN
    /\ IsPrefix(p.lines, UpToRefused(all))
    /\ ~TooLong(all) /\ Ended => p.lines = UpToRefused(all)

\* Every variable is written with its equal sign.
VarsAgree ==
    LET fields == SelectSeq(job.wrote, LAMBDA v : v.name # <<>>)
        names == {UpperCase(fields[i].name) : i \in DOMAIN fields}
        values(name) == LET of == SelectSeq(fields, LAMBDA v : UpperCase(v.name) = name) IN
                        [i \in DOMAIN of |-> of[i].value]
        longest == Max({Len(Encode(fields[i].name)) : i \in DOMAIN fields}
                       \cup {Len(Encode(fields[i].value)) : i \in DOMAIN fields}) + 1
    IN seen = Len(job.text) /\ Ended /\ longest <= MaxFieldSize =>
           /\ p.vars = [name \in names |-> values(name)]
           /\ \A name \in names : getValue(p.vars, name) = values(name)[1]
           /\ Vars!writeEOF(Vars!write(URLVars, VarsStreamTo(p.vars)).p).vars = p.vars

HeaderRead(s) == Mime!write([MIME_Message EXCEPT !.cur = "header"], s).p.header
MessageRead(s) == Mime!write(MIME_Message, s).p

PartOf(x) == [name |-> x.name, header |-> Len(x.header.options), content |-> x.content]

MimeAgrees ==
    LET got == [i \in DOMAIN p.parts |-> PartOf(p.parts[i])]
        all == Piece(job.wrote, 0, MaxParts)
    IN p.misread \/
       /\ IsPrefix(got, all)
       /\ seen = Len(job.text) => p.finished /\ got = all
       /\ \A i \in DOMAIN p.parts :
              HeaderRead(HeaderStream(p.parts[i].header)).options = p.parts[i].header.options
       /\ \A name \in {all[i].name : i \in DOMAIN all} :
              p.finished => varCount(p, name) = Cardinality({i \in DOMAIN all : UpperName(all[i].name) = UpperName(name)})

\* A chunked content that ends where the size of a chunk is awaited counts as
\* complete, so only a length tells that something is missing.
ContentAgrees ==
    /\ IsPrefix(p.out, job.wrote)
    /\ p.eof /\ job.proto = "length" => p.out = job.wrote
    /\ seen = Len(job.text) => \/ p.finished /\ p.eof /\ p.out = job.wrote
                               \/ job.proto = "close" /\ p.out = job.wrote

(***************************************************************************)
(* Properties.                                                             *)
(***************************************************************************)
\* However the connection cuts the text, and wherever it ends, lines and the
\* variables of a URL are those that were written: escapes and separators that
\* arrive in pieces included, with nothing lost or joined (lines end in one way).
\* What is written from the variables is read as the same variables.
FieldsAgree == (job.proto = "line" => LinesAgree) /\ (job.proto = "vars" => VarsAgree)

\* However the connection cuts the text, the parts of a multipart message and the
\* content of an HTTP message, by length, in chunks or to the end, are those that
\* were written, beginnings of boundaries in the content and boundaries in pieces
\* included; a connection that ends early leaves a beginning of them.  Excepted:
\* a boundary whose beginning was read by stale offsets (misread).
BodiesAgree ==
    /\ job.proto = "mime" => MimeAgrees
    /\ job.proto \in {"length", "chunks", "close"} => ContentAgrees

\* What the comments of parseDirectDelimiter say: bytes that may belong to the
\* delimiter stay in the buffer until there are more, so a message that arrives in
\* pieces is read to its end.  Refuted: read by their offset after a displacement,
\* they are not recognised, and the boundary is lost in the content.
BoundariesComeInPieces ==
    job.proto = "mime" /\ seen = Len(job.text) => p.finished

\* A message is read as it was written, and its variables are found by name.
\* Refuted, so no run states it: each boundary is written twice, and addStringVar
\* does not put the name where it is looked for.
ReadsWhatItWrites ==
    LET parts == addStringVar(<<>>, <<"a">>, <<"b">>) IN
    /\ parts[1].name = <<"a">>
    /\ MessageRead(MimeStreamTo(parts)).parts = parts

\* Both: no cut of the bytes into pieces changes what is read from them.
ParsersAgree == FieldsAgree /\ BodiesAgree
===============================================================================
