--------------------------------- MODULE Mime ----------------------------------
(***************************************************************************)
(* The parser of multipart messages (src/Protocols/mdz_proto_mime): the    *)
(* first boundary, then by part its headers, its content and what follows  *)
(* the boundary that ends it.                                              *)
(***************************************************************************)
EXTENDS Bytes

CONSTANTS
    Boundary,           \* multiPartBoundary
    Blanks,             \* the bytes that trim removes; Space is one
    SevenBit,           \* the bytes a parameter may have
    HeaderTerms,        \* "content-disposition", "form-data", "name" as bytes
    MaxTrash,           \* bytes allowed before the first boundary (512)
    MaxOptionSize,      \* maxHeaderOptionSize
    MaxOptions,         \* maxHeaderOptionsCount
    MaxSubOptions,      \* maxSubOptionsCount
    MaxSubOptionSize,   \* maxHeaderOptSize
    MaxContentSize,     \* maxVarContentSize
    MaxParts            \* maxNumberOfParts

ASSUME MimeAssumption ==
    /\ {MaxTrash, MaxOptionSize, MaxOptions, MaxSubOptions, MaxSubOptionSize, MaxContentSize, MaxParts} \subseteq Nat
    /\ Space \in Blanks

(***************************************************************************)
(* Headers: options in the order they came, [name, value, origValue, sub]. *)
(* The value's text is a sequence of atoms: bytes, and quoted texts, each  *)
(* one atom, as the placeholders make them.                                *)
(***************************************************************************)
UpperName(s) == [i \in DOMAIN s |-> Fold[s[i]]]

Bare(b) == [text |-> <<b>>, quoted |-> FALSE]
Quoted(s) == [text |-> s, quoted |-> TRUE]
Flat(atoms) == FlattenSeq([i \in DOMAIN atoms |-> atoms[i].text])
PositionsOf(s, x) == {i \in DOMAIN s : s[i] = x}

RECURSIVE Atoms(_)
Atoms(s) ==
    LET bare(t) == [i \in DOMAIN t |-> Bare(t[i])]
        quotes == PositionsOf(s, Quote)
        open == Min(quotes)
        close == Min(quotes \ {open})
    IN IF Cardinality(quotes) < 2 THEN bare(s)
       ELSE bare(SubSeq(s, 1, open - 1)) \o <<Quoted(SubSeq(s, open + 1, close - 1))>>
            \o Atoms(SubSeq(s, close + 1, Len(s)))

Trimmed(s, blanks) ==
    LET kept == {i \in DOMAIN s : s[i] \notin blanks} IN
    IF kept = {} THEN <<>> ELSE SubSeq(s, Min(kept), Max(kept))
trim(s) == Trimmed(s, Blanks)
TrimmedText(atoms) == Flat(Trimmed(atoms, {Bare(b) : b \in Blanks}))

\* Several separators together are one.
SplitValues(atoms) ==
    LET ends == PositionsOf(atoms, Bare(Semicolon))
        begins == {0} \cup {i \in ends : i + 1 \notin ends}
        firstEnd(b) == Min({e \in ends : e > b} \cup {Len(atoms) + 1})
    IN [k \in 1..Cardinality(begins) |->
           LET b == SetToSortSeq(begins, <)[k] IN SubSeq(atoms, b + 1, firstEnd(b) - 1)]

SubVar(piece) ==
    LET at == Min(PositionsOf(piece, Bare(Equal)) \cup {Len(piece) + 1}) IN
    [name |-> TrimmedText(SubSeq(piece, 1, at - 1)), value |-> TrimmedText(SubSeq(piece, at + 1, Len(piece)))]

isPermited7bitCharset(s) == \A i \in DOMAIN s : s[i] \in SevenBit

SubSize(sub) == FoldLeft(LAMBDA n, v : n + Len(v.name) + Len(v.value), 0, sub)

addSubVar(sub, v) ==
    IF \/ v.name = <<>> /\ v.value = <<>>
       \/ Len(sub) >= MaxSubOptions
       \/ Len(v.name) + Len(v.value) + SubSize(sub) > MaxSubOptionSize
       \/ ~isPermited7bitCharset(v.name) \/ ~isPermited7bitCharset(v.value)
    THEN sub ELSE Append(sub, v)

parseSubValues(opt, text) ==
    LET pieces == SplitValues(Atoms(trim(text))) IN
    [opt EXCEPT !.origValue = text, !.value = trim(TrimmedText(pieces[1])),
                !.sub = FoldLeft(LAMBDA sub, piece : addSubVar(sub, SubVar(piece)), @, pieces)]

Option(name) == [name |-> name, value |-> <<>>, origValue |-> <<>>, sub |-> <<>>]

\* state 0: a new option; state 1: more of the last one.
addOption(h, name, value, state) ==
    IF state = 0
    THEN IF Len(h.options) = MaxOptions THEN h
         ELSE [options |-> Append(h.options, parseSubValues(Option(name), value)), last |-> Len(h.options) + 1]
    ELSE IF h.last = 0 THEN h ELSE [h EXCEPT !.options[h.last] = parseSubValues(@, value)]

parseOptionValue(h, line) ==
    LET at == {i \in DOMAIN line : Piece(line, i - 1, 2) = <<Colon, Space>>} IN
    IF line[1] \in Blanks THEN addOption(h, <<>>, line, 1)
    ELSE IF at = {} THEN h
    ELSE addOption(h, SubSeq(line, 1, Min(at) - 1), From(line, Min(at) + 1), 0)

NoHeader == [options |-> <<>>, last |-> 0]

getOptionsByName(h, name) == SelectSeq(h.options, LAMBDA o : UpperName(o.name) = UpperName(name))
existOption(h, name) == getOptionsByName(h, name) # <<>>
removeOption(h, name) ==
    [h EXCEPT !.options = SelectSeq(@, LAMBDA o : UpperName(o.name) # UpperName(name))]
getOptionValue(h, name) == IF existOption(h, name) THEN getOptionsByName(h, name)[1].value ELSE <<>>
getSubVar(opt, name) ==
    LET vs == SelectSeq(opt.sub, LAMBDA v : v.name = name) IN IF vs = <<>> THEN <<>> ELSE vs[1].value

getMultiPartMessageName(h) ==
    IF existOption(h, HeaderTerms.disposition)
    THEN getSubVar(getOptionsByName(h, HeaderTerms.disposition)[1], HeaderTerms.name) ELSE <<>>

(***************************************************************************)
(* The sub-parsers.                                                        *)
(***************************************************************************)
HeaderParse(p, data) ==
    IF data = <<>> THEN [p EXCEPT !.status = "next"]
    ELSE [p EXCEPT !.header = parseOptionValue(@, data), !.status = "more"]

ContentParse(p, data) ==
    [p EXCEPT !.content = @ \o data,
              !.status = IF p.subs["content"].found # <<>> THEN "next" ELSE "more"]

EndDelims == <<DashDash \o CrLf, CrLf>>
EndPBoundaryParse(p, data) ==
    LET found == p.subs["endp"].found IN
    [p EXCEPT !.endStatus = IF found = EndDelims[1] THEN "end" ELSE IF found = EndDelims[2] THEN "continue" ELSE "error",
              !.status = IF found = <<>> THEN "error" ELSE "next"]

MimeParse(p, data) ==
    CASE p.cur = "first" -> [p EXCEPT !.status = "next"]
      [] p.cur = "header" -> HeaderParse(p, data)
      [] p.cur = "content" -> ContentParse(p, data)
      [] p.cur = "endp" -> EndPBoundaryParse(p, data)

addMultiPartMessage(p) ==
    [p EXCEPT !.parts = Append(@, [name |-> getMultiPartMessageName(p.header),
                                   header |-> p.header, content |-> p.content])]

Fresh(mode, delims, max) ==
    [mode |-> mode, delims |-> delims, buf |-> Container(max, 0), found |-> <<>>, ended |-> FALSE]
FreshHeader == Fresh("delimiter", <<CrLf>>, MaxOptionSize)
FreshContent ==
    Fresh("directDelimiter", <<CrLf \o DashDash \o Boundary>>, MaxContentSize + Len(Boundary) + 4)

\* A part that keeps the headers of the one before.
RenewContentOnly(p) ==
    [p EXCEPT !.content = <<>>, !.subs = [@ EXCEPT !["header"] = FreshHeader, !["content"] = FreshContent]]

renewCurrentPart(p) ==
    [p EXCEPT !.header = NoHeader, !.content = <<>>,
              !.subs = [@ EXCEPT !["header"] = FreshHeader, !["content"] = FreshContent]]

resetEndPBoundary(p) ==
    [p EXCEPT !.endStatus = "none", !.subs["endp"].delims = EndDelims, !.subs["endp"].buf = Container(16, 0)]

\* The callbacks see the part when its headers, and its content, are ready.
MimeNext(p) ==
    LET done == renewCurrentPart(addMultiPartMessage([p EXCEPT !.events = Append(@, "content")])) IN
    [ok |-> TRUE,
     p |-> CASE p.cur = "first" -> [p EXCEPT !.cur = "header"]
             [] p.cur = "header" -> [p EXCEPT !.cur = "content", !.events = Append(@, "header")]
             [] p.cur = "content" ->
                    IF Len(done.parts) = MaxParts THEN [done EXCEPT !.cur = "none"]
                    ELSE [resetEndPBoundary(done) EXCEPT !.cur = "endp"]
             [] p.cur = "endp" -> [p EXCEPT !.cur = IF p.endStatus = "continue" THEN "header" ELSE "none"]]

Mime == INSTANCE Streams WITH parse <- MimeParse, changeToNextParser <- MimeNext

MIME_Message ==
    Mime!Parser("first",
        [s \in {"first", "header", "content", "endp"} |->
            CASE s = "first" -> Fresh("delimiter", <<DashDash \o Boundary \o CrLf>>, Len(Boundary) + MaxTrash)
              [] s = "header" -> FreshHeader
              [] s = "content" -> FreshContent
              [] s = "endp" -> Fresh("multiDelimiter", EndDelims, 16)])
    @@ [header |-> NoHeader, content |-> <<>>, parts |-> <<>>, endStatus |-> "none", events |-> <<>>]

ByName(m, varName) == SelectSeq(m.parts, LAMBDA x : x.name # <<>> /\ UpperName(x.name) = UpperName(varName))
varCount(m, varName) == Len(ByName(m, varName))
getValues(m, varName) == [i \in DOMAIN ByName(m, varName) |-> ByName(m, varName)[i].content]

(***************************************************************************)
(* Writing.  Each part writes the boundary that ends it, and the message   *)
(* writes it once more.                                                    *)
(***************************************************************************)
HeaderStream(h) ==
    FlattenSeq([i \in DOMAIN h.options |-> h.options[i].name \o <<Colon, Space>> \o h.options[i].origValue \o CrLf])
    \o CrLf
ContentStream(content) == content \o CrLf \o DashDash \o Boundary
PartStream(x) == HeaderStream(x.header) \o ContentStream(x.content)
MimeStreamTo(parts) ==
    DashDash \o Boundary
    \o FlattenSeq([i \in DOMAIN parts |-> CrLf \o PartStream(parts[i]) \o DashDash \o Boundary])
    \o DashDash \o CrLf

\* addStringVar gives the name a header of its own.
addStringVar(parts, varName, value) ==
    LET h == addOption(addOption(NoHeader, HeaderTerms.disposition, HeaderTerms.formData, 0), HeaderTerms.name, varName, 0) IN
    IF Len(h.options) < 2 THEN parts
    ELSE Append(parts, [name |-> getMultiPartMessageName(h), header |-> h, content |-> value])

===============================================================================
