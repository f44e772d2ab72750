------------------------------ MODULE HttpContent ------------------------------
(***************************************************************************)
(* The body of an HTTP message (src/Protocols/mdz_proto_http/              *)
(* common_content): by length, in chunks, or until the connection closes.  *)
(* out is what has gone into the streamable object, eof that it was told   *)
(* of the end.                                                             *)
(***************************************************************************)
EXTENDS Bytes

CONSTANTS
    HexDigits,              \* the bytes of 0, 1, 2 ... F, in order
    MaxChunkLine,           \* 64
    MaxLaterChunkLine,      \* 1 KB
    Unlimited,              \* the largest size there is
    SecurityMaxPostDataSize,
    SecurityMaxHttpChunkSize

ASSUME HttpContentAssumption ==
    {MaxChunkLine, MaxLaterChunkLine, Unlimited, SecurityMaxPostDataSize, SecurityMaxHttpChunkSize} \subseteq Nat

DigitOf(b) == (CHOOSE i \in DOMAIN HexDigits : HexDigits[i] = b) - 1
HexBytes == {HexDigits[i] : i \in DOMAIN HexDigits}

\* strtoul: the digits at the beginning; none of them is 0.
HexPrefix(s) ==
    LET n == Max({k \in 0..Len(s) : \A i \in 1..k : s[i] \in HexBytes}) IN
    FoldLeft(LAMBDA v, b : 16 * v + DigitOf(b), 0, SubSeq(s, 1, n))

Body(p, mode, delims, max, procmode) ==
    [p EXCEPT !.subs["content"].mode = mode, !.subs["content"].delims = delims,
              !.subs["content"].buf.max = max, !.currentMode = procmode]
More(p) == [p EXCEPT !.status = "more"]
Ends(p) == [p EXCEPT !.status = "next", !.eof = TRUE]

BySize(p, n, procmode) == Body(p, "size", <<CrLf>>, n, procmode)

\* A chunk of which the first byte of the line's end that follows is taken too.
ChunkDataShortEnd(p, data) == More(BySize([p EXCEPT !.out = @ \o data], 1, "chunkCrLf"))

ChunkData(p, data) == More(BySize([p EXCEPT !.out = @ \o data], 2, "chunkCrLf"))

BodyParse(p, data) ==
    CASE p.currentMode = "chunkSize" ->
             IF HexPrefix(data) > SecurityMaxHttpChunkSize THEN [p EXCEPT !.status = "error"]
             ELSE IF HexPrefix(data) > 0 THEN More(BySize(p, HexPrefix(data), "chunkData"))
             ELSE Ends(p)
      [] p.currentMode = "chunkData" -> ChunkData(p, data)
      [] p.currentMode = "chunkCrLf" -> More(Body(p, "delimiter", <<CrLf>>, MaxLaterChunkLine, "chunkSize"))
      [] p.currentMode = "length" ->
             LET taken == [p EXCEPT !.out = @ \o data] IN
             IF getSizeLeft(p.subs["content"].buf) > 0 THEN More(taken) ELSE Ends(taken)
      [] p.currentMode = "close" ->
             IF data # <<>> THEN More([p EXCEPT !.out = @ \o data]) ELSE Ends(p)

\* The content is the last sub-parser of a message.
BodyNext(p) == [ok |-> TRUE, p |-> [p EXCEPT !.cur = "none"]]

Http == INSTANCE Streams WITH parse <- BodyParse, changeToNextParser <- BodyNext

setTransmitionMode(p, mode) ==
    CASE mode = "close" -> Body(p, "direct", <<CrLf>>, SecurityMaxPostDataSize, "close")
      [] mode = "chunks" -> Body(p, "delimiter", <<CrLf>>, MaxChunkLine, "chunkSize")
      [] mode = "length" -> Body(p, "direct", <<CrLf>>, Unlimited, "length")

\* [ok, p]
setContentLenSize(p, n) ==
    LET fits == n <= SecurityMaxPostDataSize IN
    [ok |-> fits, p |-> [p EXCEPT !.subs["content"].buf.max = IF fits THEN n ELSE 0]]

Content ==
    setTransmitionMode(
        Http!Parser("content", [s \in {"content"} |-> Http!SubParser("direct", <<CrLf>>, Unlimited)])
        @@ [out |-> <<>>, eof |-> FALSE, currentMode |-> "close"], "close")

(***************************************************************************)
(* Writing a body in chunks: one by write, and the last one at the end.    *)
(***************************************************************************)
RECURSIVE HexText(_)
HexText(n) ==
    (IF n < 16 THEN <<>> ELSE HexText(n \div 16)) \o <<HexDigits[(n % 16) + 1]>>

ChunkLine(before, n) == (IF before = <<>> THEN <<>> ELSE CrLf) \o HexText(n) \o CrLf
endBuffer(out) == out \o ChunkLine(out, 0) \o CrLf
ChunkedStream(pieces) ==
    endBuffer(FoldLeft(LAMBDA out, s : out \o ChunkLine(out, Len(s)) \o s, <<>>, pieces))

===============================================================================
