-------------------------------- MODULE Fields ---------------------------------
(***************************************************************************)
(* Two parsers of fields: lines (src/Protocols/mdz_proto_linerecv), and    *)
(* the variables of a URL or a form, with their encoding                   *)
(* (src/Protocols/mdz_proto_http/common_urlvars, streamencoder_url,        *)
(* streamdecoder_url).                                                     *)
(***************************************************************************)
EXTENDS Bytes

CONSTANTS
    MaxFieldSize,       \* maxLineSize, maxVarNameSize and maxVarContentSize
    Plain,              \* the bytes that are not encoded
    Hex,                \* by byte: its two digits
    Digits,             \* hexadecimal digits
    Refuse              \* the line for which processParsedLine answers no

ASSUME FieldsAssumption ==
    MaxFieldSize \in Nat /\ Digits \subseteq DOMAIN Fold /\ DOMAIN Fold \ Plain \subseteq DOMAIN Hex

(***************************************************************************)
(* Lines.                                                                  *)
(***************************************************************************)
LineParse(p, data) == [p EXCEPT !.parsedString = data, !.status = "next"]

processParsedLine(line) == line # Refuse

LineNext(p) ==
    LET taken == [p EXCEPT !.lines = Append(@, p.parsedString)] IN
    IF processParsedLine(p.parsedString) THEN [ok |-> TRUE, p |-> taken]
    ELSE [ok |-> FALSE, p |-> [taken EXCEPT !.cur = "none"]]

Line == INSTANCE Streams WITH parse <- LineParse, changeToNextParser <- LineNext

LineRecv ==
    Line!Parser("line", [s \in {"line"} |->
        Line!SubParser("multiDelimiter", <<<<LineFeed>>, <<CarriageReturn>>>>, MaxFieldSize)])
    @@ [lines |-> <<>>, parsedString |-> <<>>]

(***************************************************************************)
(* The URL decoder: one byte at a time, pending is what follows a percent. *)
(***************************************************************************)
hexPairToByte(pair) ==
    LET is == {b \in DOMAIN Hex : Hex[b] = [i \in 1..2 |-> Fold[pair[i]]]} IN
    IF is = {} THEN Nul ELSE CHOOSE b \in is : TRUE

Decoder == [out |-> <<>>, pending |-> <<>>]
flushBytes(d) == [out |-> d.out \o d.pending, pending |-> <<>>]

DecodeByte(d, b) ==
    LET more == Append(d.pending, b) IN
    IF d.pending = <<>>
    THEN IF b = Percent THEN [d EXCEPT !.pending = more]
         ELSE [d EXCEPT !.out = Append(@, IF b = Plus THEN Space ELSE b)]
    ELSE IF b \notin Digits THEN flushBytes([d EXCEPT !.pending = more])
    ELSE IF Len(more) < 3 THEN [d EXCEPT !.pending = more]
    ELSE [out |-> Append(d.out, hexPairToByte(Tail(more))), pending |-> <<>>]

\* A decoder that forgets what is pending at the end.
DecodeUnflushed(s) == FoldLeft(DecodeByte, Decoder, s).out

Decode(s) == flushBytes(FoldLeft(DecodeByte, Decoder, s)).out

shouldEncodeThisByte(b) == b \notin Plain
Encode(s) ==
    FlattenSeq([i \in DOMAIN s |->
        IF shouldEncodeThisByte(s[i]) THEN <<Percent>> \o Hex[s[i]] ELSE <<s[i]>>])

(***************************************************************************)
(* Variables: by upper-case name, the values in the order they came.       *)
(***************************************************************************)
UpperCase(s) == [i \in DOMAIN s |-> Fold[s[i]]]

NameDelims == <<<<Equal>>, <<Ampersand>>>>
setVarType(p, varName) ==
    [p EXCEPT !.subs["var"].delims = IF varName THEN NameDelims ELSE <<<<Ampersand>>>>]

\* An empty field asks for more: neither its name nor its value is taken.
VarParse(p, data) ==
    IF data = <<>> THEN [p EXCEPT !.pData = <<>>, !.status = "more"]
    ELSE [p EXCEPT !.pData = Decode(data), !.status = "next"]

addVar(p, varName, data) ==
    LET name == UpperCase(varName) IN
    IF varName = <<>> THEN p
    ELSE [p EXCEPT !.vars = IF name \in DOMAIN @ THEN [@ EXCEPT ![name] = Append(@, data)]
                            ELSE (name :> <<data>>) @@ @]

VarNext(p) ==
    LET sub == p.subs["var"]
        flushed == [p EXCEPT !.pData = <<>>]
    IN [ok |-> TRUE,
        p |-> IF p.currentStat = "content"
              THEN setVarType([addVar(flushed, p.currentVarName, p.pData) EXCEPT !.currentStat = "name"], TRUE)
              ELSE IF sub.found = <<Ampersand>> \/ sub.ended
              THEN [addVar(flushed, p.pData, <<>>) EXCEPT !.currentVarName = p.pData]
              ELSE setVarType([flushed EXCEPT !.currentVarName = p.pData, !.currentStat = "content"], FALSE)]

Vars == INSTANCE Streams WITH parse <- VarParse, changeToNextParser <- VarNext

URLVars ==
    Vars!Parser("var", [s \in {"var"} |-> Vars!SubParser("multiDelimiter", NameDelims, MaxFieldSize)])
    @@ [vars |-> <<>>, currentStat |-> "name", currentVarName |-> <<>>, pData |-> <<>>]

getValue(vars, varName) ==
    LET name == UpperCase(varName) IN IF name \in DOMAIN vars THEN vars[name][1] ELSE "none"
getKeysList(vars) == DOMAIN vars

\* By name, every value; an empty value is written without its equal sign.
VarsStreamTo(vars) ==
    LET one(name, value) == Encode(name) \o (IF value = <<>> THEN <<>> ELSE <<Equal>> \o Encode(value))
        ofName(name) == [i \in DOMAIN vars[name] |-> one(name, vars[name][i])]
        all == FlattenSeq([i \in DOMAIN SetToSeq(DOMAIN vars) |-> ofName(SetToSeq(DOMAIN vars)[i])])
    IN FlattenSeq([i \in DOMAIN all |-> (IF i = 1 THEN <<>> ELSE <<Ampersand>>) \o all[i]])

===============================================================================
