------------------------------ MODULE DataProofs ------------------------------
(***************************************************************************)
(* Of what is written and read back: the values that a stream socket       *)
(* carries (Transfers), the names and rows of a statement (Statement), and *)
(* the bytes of a container (Containers), for any texts.                   *)
(*                                                                         *)
(* Their operators are recursive functions.  What such a function is       *)
(* follows from the least number for which it would not be: by induction   *)
(* on sets of numbers, then once that a function exists, and only one.     *)
(***************************************************************************)
EXTENDS Transfers, Statement, Containers, WellFoundedInduction, SequenceTheorems, FiniteSetTheorems, TLAPS

-----------------------------------------------------------------------------
\* A set of numbers has a least one.
LEMMA LeastNumber ==
    ASSUME NEW T, T \subseteq Nat, T # {}
    PROVE  \E x \in T : \A y \in T : x <= y
<1>1. \E R : /\ IsWellFoundedOn(R, Nat)
             /\ \A x, y \in Nat : <<y, x>> \in R <=> y < x
  <2>1. \A x, y \in Nat : <<y, x>> \in OpToRel(<, Nat) <=> y < x
    BY DEF OpToRel
  <2>2. QED
    BY <2>1, NatLessThanWellFounded
<1>2. PICK R : /\ IsWellFoundedOn(R, Nat)
               /\ \A x, y \in Nat : <<y, x>> \in R <=> y < x
  BY <1>1
<1>3. PICK x \in T : \A y \in T : ~ (<<y, x>> \in R)
  <2>1. \E x \in T : \A y \in T : ~ (<<y, x>> \in R)
    BY <1>2, WFMin
  <2>2. QED
    BY <2>1
<1>4. \A y \in T : ~(y < x)
  BY <1>2, <1>3
<1>5. \A y \in T : x \in Nat /\ y \in Nat
  OBVIOUS
<1>6. QED
  BY <1>4, <1>5

\* Induction, on a set of numbers.
LEMMA SetInduction ==
    ASSUME NEW S, 0 \in S, \A n \in Nat : n \in S => n + 1 \in S
    PROVE  Nat \subseteq S
<1> SUFFICES ASSUME Nat \ S # {} PROVE FALSE
  OBVIOUS
<1>1. PICK m \in Nat \ S : \A k \in Nat \ S : m <= k
  BY LeastNumber
<1>2. m # 0 /\ m - 1 \in Nat
  BY <1>1
<1>3. m - 1 \in S
  BY <1>1, <1>2
<1>4. QED
  BY <1>1, <1>2, <1>3

\* A function defined by recursion exists: a value for zero, and a step from each value to the next.
Iterated(n, V, a, step, f) ==
    f \in [0..n -> V] /\ f[0] = a /\ \A i \in 1..n : f[i - 1] \in V /\ f[i] = step[i][f[i - 1]]
StepsOf(n, V) == [1..n -> [V -> V]]
LEMMA Iterates ==
    ASSUME NEW n \in Nat, NEW V, NEW a \in V, NEW step \in StepsOf(n, V)
    PROVE  \E f : Iterated(n, V, a, step, f)
<1>a. step \in [1..n -> [V -> V]]
  BY DEF StepsOf
<1> DEFINE Follows(k, f) == f[0] = a /\ \A i \in 1..k : f[i] = step[i][f[i - 1]]
           Reached(k) == \E f \in [0..k -> V] : Follows(k, f)
           S == {k \in Nat : k <= n => Reached(k)}
<1>1. Reached(0)
  <2> DEFINE f == [i \in 0..0 |-> a]
  <2>1. f \in [0..0 -> V] /\ Follows(0, f)
    OBVIOUS
  <2>2. QED
    BY <2>1
<1>2. ASSUME NEW k \in Nat, k + 1 <= n, Reached(k) PROVE Reached(k + 1)
  <2>1. PICK f \in [0..k -> V] : Follows(k, f)
    BY <1>2
  <2> DEFINE next == step[k + 1][f[k]]
             g == [i \in 0..(k + 1) |-> IF i = k + 1 THEN next ELSE f[i]]
  <2>2. next \in V
    <3>1. k + 1 \in 1..n /\ f[k] \in V
      BY <1>2, <2>1
    <3>2. QED
      BY <3>1, <1>a
  <2> HIDE DEF next
  <2>3. g \in [0..(k + 1) -> V] /\ g[0] = a
    BY <2>1, <2>2
  <2>4. ASSUME NEW i \in 1..(k + 1) PROVE g[i] = step[i][g[i - 1]]
    <3>1. CASE i = k + 1
      <4>1. g[i] = next /\ g[i - 1] = f[k]
        BY <3>1
      <4>2. QED
        BY <3>1, <4>1 DEF next
    <3>2. CASE i # k + 1
      <4>1. i \in 1..k /\ g[i] = f[i] /\ g[i - 1] = f[i - 1]
        BY <3>2
      <4>2. QED
        BY <2>1, <4>1
    <3>3. QED
      BY <3>1, <3>2
  <2>5. QED
    BY <2>3, <2>4
<1> HIDE DEF Reached
<1>3. 0 \in S /\ \A k \in Nat : k \in S => k + 1 \in S
  BY <1>1, <1>2
<1> HIDE DEF S
<1>4. n \in S
  BY <1>3, SetInduction
<1>5. Reached(n)
  BY <1>4 DEF S
<1>6. PICK f \in [0..n -> V] : f[0] = a /\ \A i \in 1..n : f[i] = step[i][f[i - 1]]
  BY <1>5 DEF Reached
<1>7. \A i \in 1..n : f[i - 1] \in V
  OBVIOUS
<1>8. QED
  BY <1>6, <1>7 DEF Iterated

-----------------------------------------------------------------------------
\* There is only one such function.
SameRule(n, f, g) == f[0] = g[0] /\ \A i \in 1..n : f[i - 1] = g[i - 1] => f[i] = g[i]
LEMMA IteratesOnce ==
    ASSUME NEW n \in Nat, NEW f, NEW g, SameRule(n, f, g)
    PROVE  \A i \in 0..n : f[i] = g[i]
<1> DEFINE S == {i \in Nat : i \in 0..n => f[i] = g[i]}
<1>1. 0 \in S
  BY DEF SameRule
<1>2. ASSUME NEW i \in Nat, i \in S PROVE i + 1 \in S
  <2>1. CASE i + 1 \in 1..n
    <3> DEFINE j == i + 1
    <3>1. j \in 1..n /\ j - 1 = i /\ i \in 0..n
      BY <2>1
    <3>2. f[j - 1] = g[j - 1]
      BY <3>1, <1>2
    <3>3. f[j] = g[j]
      BY <3>1, <3>2 DEF SameRule
    <3>4. QED
      BY <3>3
  <2>2. CASE ~ (i + 1 \in 1..n)
    BY <2>2
  <2>3. QED
    BY <2>1, <2>2
<1> HIDE DEF S
<1>3. Nat \subseteq S
  BY <1>1, <1>2, SetInduction
<1>4. QED
  BY <1>3 DEF S

-----------------------------------------------------------------------------
\* The constants are numbers.
LEMMA TransfersNumbers == Base \in Nat /\ Base > 1 /\ Width \in Nat /\ Width > 0 /\ Chunk \in Nat /\ Block \in Nat /\ Block > 0
BY TransfersAssumption

LEMMA NumbersFacts ==
    /\ Numbers \in [0..Width -> Nat] /\ Numbers[0] = 1
    /\ \A i \in 1..Width : Numbers[i] = Base * Numbers[i - 1]
<1>0. Width \in Nat /\ Base \in Nat
  BY TransfersNumbers
<1> DEFINE one == 1
           step == [i \in 1..Width |-> [v \in Nat |-> Base * v]]
<1>1. step \in StepsOf(Width, Nat) /\ one \in Nat
  BY <1>0 DEF StepsOf
<1>2. \A i \in 1..Width, v \in Nat : step[i][v] = Base * v
  OBVIOUS
<1> HIDE DEF step, one
<1>3. PICK f : Iterated(Width, Nat, one, step, f)
  BY <1>0, <1>1, Iterates, Zenon
<1>4. f \in [0..Width -> Nat] /\ f[0] = 1 /\ \A i \in 1..Width : f[i] = Base * f[i - 1]
  BY <1>2, <1>3 DEF Iterated, one
<1>5. f = [i \in 0..Width |-> IF i = 0 THEN 1 ELSE Base * f[i - 1]]
  BY <1>0, <1>4
<1>6. Numbers = [i \in 0..Width |-> IF i = 0 THEN 1 ELSE Base * Numbers[i - 1]]
  BY <1>5, Zenon DEF Numbers
<1>7. DOMAIN Numbers = 0..Width /\ Numbers[0] = 1 /\ \A i \in 1..Width : Numbers[i] = Base * Numbers[i - 1]
  BY <1>0, <1>6
<1>8. SameRule(Width, Numbers, f)
  BY <1>4, <1>7 DEF SameRule
<1>9. \A i \in 0..Width : Numbers[i] = f[i]
  BY <1>0, <1>8, IteratesOnce
<1>10. Numbers = [i \in 0..Width |-> Numbers[i]]
  BY <1>6
<1>11. Numbers = f
  BY <1>4, <1>9, <1>10
<1>12. QED
  BY <1>4, <1>7, <1>11

-----------------------------------------------------------------------------
\* Base, put aside.
LEMMA DivisionFacts ==
    \A v \in Nat : /\ v \div Base \in Nat /\ v % Base \in 0..(Base - 1)
                   /\ v = Base * (v \div Base) + (v % Base)
BY TransfersNumbers

\* The bytes of a number, each of what those behind it leave.
LEMMA BigFacts ==
    ASSUME NEW n \in Nat, NEW v \in Nat
    PROVE  \E low \in [0..n -> Nat] :
              /\ low[0] = v /\ \A i \in 1..n : low[i] = low[i - 1] \div Base
              /\ Big(v, n) = [i \in 1..n |-> low[n - i] % Base]
<1> DEFINE step == [i \in 1..n |-> [w \in Nat |-> w \div Base]]
<1>1. step \in StepsOf(n, Nat)
  BY DivisionFacts DEF StepsOf
<1>2. \A i \in 1..n, w \in Nat : step[i][w] = w \div Base
  OBVIOUS
<1> HIDE DEF step
<1>3. PICK f : Iterated(n, Nat, v, step, f)
  BY <1>1, Iterates, Zenon
<1>4. f \in [0..n -> Nat] /\ f[0] = v /\ \A i \in 1..n : f[i] = f[i - 1] \div Base
  BY <1>2, <1>3 DEF Iterated
<1>5. f = [i \in 0..n |-> IF i = 0 THEN v ELSE f[i - 1] \div Base]
  BY <1>4
<1> DEFINE low == CHOOSE low : low = [i \in 0..n |-> IF i = 0 THEN v ELSE low[i - 1] \div Base]
<1>6. low = [i \in 0..n |-> IF i = 0 THEN v ELSE low[i - 1] \div Base]
  BY <1>5, Zenon
<1>7. Big(v, n) = [i \in 1..n |-> low[n - i] % Base]
  BY Zenon DEF Big
<1> HIDE DEF low
<1>8. low[0] = v /\ (\A i \in 1..n : low[i] = low[i - 1] \div Base) /\ low = [i \in 0..n |-> low[i]]
  <2>1. low[0] = v
    BY <1>6
  <2>2. ASSUME NEW i \in 1..n PROVE low[i] = low[i - 1] \div Base
    <3>1. i \in 0..n /\ i # 0
      OBVIOUS
    <3>2. QED
      BY <1>6, <3>1, Zenon
  <2>3. DOMAIN low = 0..n /\ low = [i \in DOMAIN low |-> low[i]]
    BY <1>6
  <2>4. QED
    BY <2>1, <2>2, <2>3
<1>9. SameRule(n, low, f)
  BY <1>4, <1>8 DEF SameRule
<1>10. \A i \in 0..n : low[i] = f[i]
  BY <1>9, IteratesOnce
<1>11. low = f
  BY <1>4, <1>8, <1>10
<1>12. QED
  BY <1>4, <1>7, <1>11

\* What is read off a sequence of bytes.
LEMMA ValueFacts ==
    ASSUME NEW s \in Seq(Nat)
    PROVE  \E read \in [0..Len(s) -> Nat] :
              /\ read[0] = 0 /\ \A i \in 1..Len(s) : read[i] = Base * read[i - 1] + s[i]
              /\ Value(s) = read[Len(s)]
<1> DEFINE n == Len(s)
           nil == 0
           step == [i \in 1..n |-> [w \in Nat |-> Base * w + s[i]]]
<1>0. n \in Nat /\ Base \in Nat /\ \A i \in 1..n : s[i] \in Nat
  BY TransfersNumbers
<1>1. step \in StepsOf(n, Nat) /\ nil \in Nat
  BY <1>0 DEF StepsOf
<1>2. \A i \in 1..n, w \in Nat : step[i][w] = Base * w + s[i]
  OBVIOUS
<1>a. n = Len(s) /\ nil = 0
  OBVIOUS
<1> HIDE DEF step, n, nil
<1>3. PICK f : Iterated(n, Nat, nil, step, f)
  BY <1>0, <1>1, Iterates, Zenon
<1>4. f \in [0..n -> Nat] /\ f[0] = 0 /\ \A i \in 1..n : f[i] = Base * f[i - 1] + s[i]
  BY <1>2, <1>3, <1>a DEF Iterated
<1>5. f = [i \in 0..Len(s) |-> IF i = 0 THEN 0 ELSE Base * f[i - 1] + s[i]]
  BY <1>0, <1>4, <1>a
<1> DEFINE read == CHOOSE read : read = [i \in 0..Len(s) |-> IF i = 0 THEN 0 ELSE Base * read[i - 1] + s[i]]
<1>6. read = [i \in 0..Len(s) |-> IF i = 0 THEN 0 ELSE Base * read[i - 1] + s[i]]
  BY <1>5, Zenon
<1>7. Value(s) = read[Len(s)]
  BY Zenon DEF Value
<1> HIDE DEF read
<1>8. read[0] = 0 /\ (\A i \in 1..n : read[i] = Base * read[i - 1] + s[i]) /\ read = [i \in 0..n |-> read[i]]
  <2>1. read[0] = 0
    BY <1>0, <1>6, <1>a
  <2>2. ASSUME NEW i \in 1..n PROVE read[i] = Base * read[i - 1] + s[i]
    <3>1. i \in 0..Len(s) /\ i # 0
      BY <1>0, <1>a
    <3>2. QED
      BY <1>6, <3>1, Zenon
  <2>3. DOMAIN read = 0..n /\ read = [i \in DOMAIN read |-> read[i]]
    BY <1>6, <1>a
  <2>4. QED
    BY <2>1, <2>2, <2>3
<1>9. SameRule(n, read, f)
  BY <1>4, <1>8 DEF SameRule
<1>10. \A i \in 0..n : read[i] = f[i]
  BY <1>0, <1>9, IteratesOnce
<1>11. read = f
  BY <1>4, <1>8, <1>10
<1>12. QED
  BY <1>4, <1>7, <1>11, <1>a

-----------------------------------------------------------------------------
\* A number that so many bytes can say, each of the rests in turn.
LEMMA RestsFit ==
    ASSUME NEW low \in [0..Width -> Nat], low[0] < Numbers[Width],
           \A i \in 1..Width : low[i] = low[i - 1] \div Base
    PROVE  low[Width] = 0
<1> DEFINE Fit(i) == low[i] < Numbers[Width - i]
           S == {i \in Nat : i \in 0..Width => Fit(i)}
<1>0. Width \in Nat /\ Base \in Nat /\ Base > 1
  BY TransfersNumbers
<1>1. 0 \in S
  BY <1>0
<1>2. ASSUME NEW i \in Nat, i \in S PROVE i + 1 \in S
  <2> SUFFICES ASSUME i + 1 \in 0..Width PROVE Fit(i + 1)
    OBVIOUS
  <2> DEFINE j == i + 1
             w == low[i]
             v == low[j]
             m == Numbers[Width - j]
  <2>1. i \in 0..Width /\ j \in 1..Width /\ Width - i \in 1..Width /\ Width - j \in 0..Width
    BY <1>0
  <2>2. v = w \div Base /\ w \in Nat /\ m \in Nat
    BY <2>1, NumbersFacts
  <2>3. w < Base * m
    <3>1. (Width - i) - 1 = Width - j
      BY <1>0
    <3>2. Numbers[Width - i] = Base * Numbers[(Width - i) - 1]
      BY <2>1, NumbersFacts
    <3>3. w < Numbers[Width - i]
      BY <1>2, <2>1
    <3>4. QED
      BY <3>1, <3>2, <3>3
  <2> HIDE DEF w, v, m
  <2>4. v < m
    <3>1. v \in Nat /\ w = Base * v + (w % Base) /\ w % Base >= 0
      BY <2>2, DivisionFacts
    <3> DEFINE r == w % Base
    <3> HIDE DEF r
    <3>2. r \in Nat /\ w = Base * v + r
      BY <3>1, <2>2, DivisionFacts DEF r
    <3>3. SUFFICES ASSUME v >= m PROVE FALSE
      BY <3>1, <2>2
    <3>4. Base * v >= Base * m
      BY <3>3, <3>1, <2>2, <1>0
    <3> DEFINE bv == Base * v
               bm == Base * m
    <3>5. bv \in Nat /\ bm \in Nat /\ w = bv + r /\ bv >= bm /\ w < bm
      BY <3>1, <3>2, <3>4, <2>3, <2>2, <1>0
    <3> HIDE DEF bv, bm
    <3>6. QED
      BY <3>2, <3>5
  <2>5. QED
    BY <2>4 DEF v, m
<1> HIDE DEF S
<1>3. Width \in S
  BY <1>0, <1>1, <1>2, SetInduction
<1>4. Fit(Width)
  BY <1>0, <1>3 DEF S
<1>5. QED
  BY <1>0, <1>4, NumbersFacts

\* A number in network order reads back as it was.
LEMMA NumbersReadBack ==
    ASSUME NEW v \in Nat, v < Numbers[Width]
    PROVE  /\ Big(v, Width) \in Seq(0..(Base - 1)) /\ Len(Big(v, Width)) = Width
           /\ Value(Big(v, Width)) = v
<1> DEFINE s == Big(v, Width)
<1>0. Width \in Nat /\ Base \in Nat /\ Base > 1
  BY TransfersNumbers
<1>1. PICK low \in [0..Width -> Nat] :
         /\ low[0] = v /\ \A i \in 1..Width : low[i] = low[i - 1] \div Base
         /\ s = [i \in 1..Width |-> low[Width - i] % Base]
  BY <1>0, BigFacts
<1> HIDE DEF s
<1>2. \A i \in 1..Width : low[Width - i] \in Nat /\ low[Width - i] % Base \in 0..(Base - 1)
  <2> SUFFICES ASSUME NEW i \in 1..Width PROVE low[Width - i] \in Nat /\ low[Width - i] % Base \in 0..(Base - 1)
    OBVIOUS
  <2>1. Width - i \in 0..Width
    BY <1>0
  <2>2. low[Width - i] \in Nat
    BY <2>1
  <2>3. QED
    BY <2>2, DivisionFacts
<1>3. s \in Seq(0..(Base - 1)) /\ Len(s) = Width
  BY <1>0, <1>1, <1>2
<1>4. s \in Seq(Nat)
  BY <1>0, <1>1, <1>2
<1>5. PICK read \in [0..Width -> Nat] :
         /\ read[0] = 0 /\ \A i \in 1..Width : read[i] = Base * read[i - 1] + s[i]
         /\ Value(s) = read[Width]
  BY <1>3, <1>4, ValueFacts
<1>6. low[Width] = 0
  BY <1>1, RestsFit
<1> DEFINE up == [i \in 0..Width |-> low[Width - i]]
<1>7. SameRule(Width, read, up)
  <2>1. read[0] = up[0]
    BY <1>0, <1>5, <1>6
  <2>2. ASSUME NEW i \in 1..Width, read[i - 1] = up[i - 1] PROVE read[i] = up[i]
    <3>1. Width - i \in 0..Width /\ Width - (i - 1) \in 1..Width /\ (Width - (i - 1)) - 1 = Width - i /\ i - 1 \in 0..Width
      BY <1>0
    <3> DEFINE w == low[Width - i]
    <3>2. w \in Nat /\ up[i] = w
      BY <3>1
    <3>3. low[Width - (i - 1)] = w \div Base
      BY <3>1, <1>1
    <3>4. up[i - 1] = w \div Base
      BY <3>1, <3>3
    <3>5. s[i] = w % Base
      BY <1>1
    <3> HIDE DEF w, up
    <3>6. read[i] = Base * (w \div Base) + (w % Base)
      BY <1>5, <2>2, <3>4, <3>5
    <3>7. QED
      BY <3>2, <3>6, DivisionFacts
  <2>3. QED
    BY <2>1, <2>2 DEF SameRule
<1> HIDE DEF up
<1>8. \A i \in 0..Width : read[i] = up[i]
  BY <1>0, <1>7, IteratesOnce
<1>9. read[Width] = v
  BY <1>0, <1>1, <1>8 DEF up
<1>10. QED
  BY <1>3, <1>5, <1>9 DEF s

(***************************************************************************)
(* What a stream socket carries.  ReadAsWritten is not inductive: that the *)
(* bytes a reading gives are those that were written needs that what is    *)
(* under way is what was written from where the reader is to where the     *)
(* writer is, hidden by the keys of those very places; that the pieces     *)
(* still to be written are the rest of it; and that a reader that searches *)
(* for a delimiter has not passed one.                                     *)
(***************************************************************************)
ByteValues == 0..(Base - 1)
Payload(d) == IF d.kind # "string" THEN d.text ELSE IF Desynced(d) THEN <<>> ELSE Big(Len(d.text), Width) \o d.text
\* The greeting goes in front of it.
Ahead(d) == IF d.layer = "aes" THEN 2 ELSE 0
Hid(d, i) == [byte |-> Payload(d)[i], key |-> KeyOf(d.layer, i - 1)]
Carried(d, i) == IF i <= Ahead(d) THEN Greeting(d)[i] ELSE Hid(d, i - Ahead(d))
Loads(d) == {Carried(d, i) : i \in Nat}
\* Where the reader is in all that is carried.
ReadUpTo(d, r) == IF r.at \in {"vector", "header"} THEN r.position ELSE Ahead(d) + r.position

WriterType ==
    /\ wr.result \in {"going", "ok", "failed"} /\ over \in {"more", "end", "error"}
    /\ wr.position \in 0..Len(Payload(deal)) /\ wr = [left |-> wr.left, position |-> wr.position, result |-> wr.result]
    /\ wire \in Seq(Loads(deal))
LeftAt(d, left, position) ==
    \/ left = <<>> /\ position = Len(Payload(d))
    \/ left = <<Rest(Payload(d), position)>>
    \/ /\ left = <<Rest(SubSeq(Payload(d), 1, Width), position), d.text>>
       /\ d.kind = "string" /\ ~Desynced(d) /\ position < Width
LeftIsTheRest == LeftAt(deal, wr.left, wr.position)
EndsInOrder ==
    /\ wr.result = "going" => over = "more"
    /\ wr.result = "ok" => wr.left = <<>> /\ ~Desynced(deal)
WireAsWritten ==
    rd.at # "over" =>
       /\ ReadUpTo(deal, rd) + Len(wire) <= Ahead(deal) + Len(Payload(deal))
       /\ \A i \in 1..Len(wire) : wire[i] = Carried(deal, ReadUpTo(deal, rd) + i)
       /\ wr.result # "failed" => ReadUpTo(deal, rd) + Len(wire) = Ahead(deal) + wr.position

\* The reader, at each stage.
DelimAt(d, n) == SubSeq(d.text, n - Len(d.delim) + 1, n) = d.delim
Whole(d) == (d.limit \div Block) * Block
Has(r, s) == r.buffer = SubSeq(s, 1, r.position) /\ r.position \in 0..Len(s)
Greets(d, r) ==
    /\ d.layer = "aes" /\ r.at \in {"vector", "header"} /\ r.position = (IF r.at = "vector" THEN 0 ELSE 1)
    /\ r.want = 1 /\ r.buffer = <<>> /\ r.out = <<>>
Fills(d, r) ==
    /\ d.kind = "full" /\ r.at = "full" /\ r.want = d.limit /\ Has(r, d.text)
    /\ r.position <= d.limit /\ (r.position = d.limit => d.limit = 0)
Measures(d, r) ==
    d.kind = "string" /\ r.at = "length" /\ r.want = Width /\ Has(r, Payload(d)) /\ r.position < Width
Gathers(d, r) ==
    /\ d.kind = "string" /\ r.at = "data" /\ ~Desynced(d) /\ Len(d.text) <= d.limit
    /\ r.want = Len(d.text) /\ r.position - Width \in 0..(Len(d.text) - 1) /\ r.position \in Nat
    /\ r.buffer = SubSeq(d.text, 1, r.position - Width)
Searches(d, r) ==
    /\ d.kind = "block" /\ r.at = "delimited" /\ r.want = 1 /\ r.buffer = <<>>
    /\ r.position \in 0..Len(d.text) /\ r.out = SubSeq(d.text, 1, r.position)
    /\ \A n \in Len(d.delim)..r.position : ~DelimAt(d, n)
    /\ d.limit >= Block => r.position < Whole(d)
ReaderAsGiven ==
    /\ rd = [at |-> rd.at, want |-> rd.want, buffer |-> rd.buffer, out |-> rd.out, position |-> rd.position,
             result |-> rd.result]
    /\ rd.at # "over" => /\ rd.result = "going"
                         /\ \/ Greets(deal, rd) \/ Fills(deal, rd) \/ Measures(deal, rd)
                            \/ Gathers(deal, rd) \/ Searches(deal, rd)
    /\ rd.at = "over" => ReadAsWritten
TransfersIInv ==
    deal \in Jobs /\ WriterType /\ LeftIsTheRest /\ EndsInOrder /\ WireAsWritten /\ ReaderAsGiven

LEMMA TwoPieces == \A x, y : <<x>> \o <<y>> = <<x, y>>
<1> SUFFICES ASSUME NEW x, NEW y PROVE <<x>> \o <<y>> = <<x, y>>
  OBVIOUS
<1> DEFINE S == {x, y}
           a == <<x>>
           b == <<y>>
           t == <<x, y>>
           z == a \o b
<1>1. a \in Seq(S) /\ Len(a) = 1 /\ a[1] = x /\ b \in Seq(S) /\ Len(b) = 1 /\ b[1] = y
  OBVIOUS
<1>2. t \in Seq(S) /\ Len(t) = 2 /\ t[1] = x /\ t[2] = y
  OBVIOUS
<1> HIDE DEF a, b, t, S
<1>3. z \in Seq(S) /\ Len(z) = 2 /\ \A i \in 1..2 : z[i] = IF i <= 1 THEN a[i] ELSE b[i - 1]
  BY <1>1, ConcatProperties
<1> HIDE DEF z
<1>4. z = t
  <2>1. z[1] = t[1] /\ z[2] = t[2]
    BY <1>1, <1>2, <1>3
  <2>2. \A i \in 1..Len(z) : z[i] = t[i]
    BY <1>3, <2>1
  <2>3. QED
    BY <1>2, <1>3, <2>2, SeqEqual
<1>5. QED
  BY <1>4 DEF a, b, z, t

LEMMA JobFacts ==
    ASSUME NEW d \in Jobs
    PROVE  /\ d.text \in Seq(ByteValues) /\ Len(d.text) \in Nat /\ d.limit \in Nat
           /\ d.kind \in {"full", "string", "block"} /\ d.layer \in {"plain", "xor", "aes"}
           /\ d.kind = "block" => d.delim \in Seq(ByteValues) /\ Len(d.delim) \in Nat \ {0}
<1>1. d.text \in Seq(ByteValues) /\ Len(d.text) \in Nat /\ d.limit \in Nat
  BY TransfersAssumption DEF ByteValues
<1>2. d.kind = "block" => d.delim \in Seq(ByteValues) /\ Len(d.delim) \in Nat \ {0}
  BY TransfersAssumption, EmptySeq DEF ByteValues
<1>3. QED
  BY <1>1, <1>2, TransfersAssumption

\* The rest of a sequence, and the rest of that.
LEMMA RestFacts ==
    ASSUME NEW S, NEW s \in Seq(S), NEW a \in 0..Len(s)
    PROVE  /\ Rest(s, a) \in Seq(S) /\ Len(Rest(s, a)) = Len(s) - a
           /\ \A i \in 1..(Len(s) - a) : Rest(s, a)[i] = s[a + i]
<1>1. \A i \in (a + 1)..Len(s) : s[i] \in S
  BY ElementOfSeq
<1>2. Len(s) \in Nat /\ a \in Nat
  OBVIOUS
<1>3. /\ SubSeq(s, a + 1, Len(s)) \in Seq(S)
      /\ Len(SubSeq(s, a + 1, Len(s))) = IF a + 1 <= Len(s) THEN Len(s) - (a + 1) + 1 ELSE 0
      /\ \A i \in 1..(Len(s) - (a + 1) + 1) : SubSeq(s, a + 1, Len(s))[i] = s[(a + 1) + i - 1]
  BY <1>1, <1>2, SubSeqProperties
<1>4. QED
  BY <1>2, <1>3 DEF Rest

LEMMA RestOfRest ==
    ASSUME NEW S, NEW s \in Seq(S), NEW a \in 0..Len(s), NEW k \in 0..(Len(s) - a)
    PROVE  Rest(Rest(s, a), k) = Rest(s, a + k)
<1> DEFINE t == Rest(s, a)
           u == Rest(s, a + k)
           w == Rest(t, k)
<1>0. Len(s) \in Nat /\ a \in Nat /\ k \in Nat /\ a + k \in 0..Len(s)
  OBVIOUS
<1>1. t \in Seq(S) /\ Len(t) = Len(s) - a /\ \A i \in 1..(Len(s) - a) : t[i] = s[a + i]
  BY RestFacts
<1>2. u \in Seq(S) /\ Len(u) = Len(s) - (a + k) /\ \A i \in 1..(Len(s) - (a + k)) : u[i] = s[(a + k) + i]
  BY <1>0, RestFacts
<1> HIDE DEF t, u
<1>3. w \in Seq(S) /\ Len(w) = Len(t) - k /\ \A i \in 1..(Len(t) - k) : w[i] = t[k + i]
  <2>1. k \in 0..Len(t)
    BY <1>0, <1>1
  <2>2. QED
    BY <2>1, <1>1, RestFacts, ZenonT(40)
<1> HIDE DEF w
<1>4. Len(w) = Len(u) /\ \A i \in 1..Len(w) : w[i] = u[i]
  <2>1. Len(w) = Len(u) /\ Len(w) = Len(s) - (a + k)
    BY <1>0, <1>1, <1>2, <1>3
  <2>2. ASSUME NEW i \in 1..Len(w) PROVE w[i] = u[i]
    <3>1. i \in 1..(Len(s) - (a + k)) /\ i \in 1..(Len(t) - k) /\ k + i \in 1..(Len(s) - a) /\ a + (k + i) = (a + k) + i
      BY <1>0, <1>1, <1>3, <2>1
    <3>2. w[i] = t[k + i] /\ t[k + i] = s[a + (k + i)] /\ u[i] = s[(a + k) + i]
      BY <3>1, <1>1, <1>2, <1>3
    <3>3. QED
      BY <3>1, <3>2
  <2>3. QED
    BY <2>1, <2>2
<1>5. w = u
  BY <1>2, <1>3, <1>4, SeqEqual
<1>6. QED
  BY <1>5 DEF w, t, u

\* What is before a place, with what follows it.
LEMMA FrontFacts ==
    ASSUME NEW S, NEW s \in Seq(S), NEW a \in 0..Len(s)
    PROVE  /\ SubSeq(s, 1, a) \in Seq(S) /\ Len(SubSeq(s, 1, a)) = a
           /\ \A i \in 1..a : SubSeq(s, 1, a)[i] = s[i]
<1>1. \A i \in 1..a : s[i] \in S
  BY ElementOfSeq
<1>2. Len(s) \in Nat /\ a \in Nat
  OBVIOUS
<1>3. QED
  BY <1>1, <1>2, SubSeqProperties

\* What is carried of a job: the number of its bytes and they.
LEMMA PayloadFacts ==
    ASSUME NEW d \in Jobs
    PROVE  /\ Payload(d) \in Seq(ByteValues) /\ Len(Payload(d)) \in Nat
           /\ d.kind # "string" => Payload(d) = d.text /\ ~Desynced(d)
           /\ Desynced(d) => Payload(d) = <<>>
           /\ d.kind = "string" /\ ~Desynced(d) =>
                 /\ Len(Payload(d)) = Width + Len(d.text)
                 /\ SubSeq(Payload(d), 1, Width) = Big(Len(d.text), Width)
                 /\ Value(SubSeq(Payload(d), 1, Width)) = Len(d.text)
                 /\ Rest(Payload(d), Width) = d.text
                 /\ \A i \in 1..Len(d.text) : Payload(d)[Width + i] = d.text[i]
<1>0. d.text \in Seq(ByteValues) /\ Len(d.text) \in Nat /\ d.kind \in {"full", "string", "block"}
  BY JobFacts
<1>1. CASE d.kind # "string"
  BY <1>0, <1>1 DEF Payload, Desynced
<1>2. CASE d.kind = "string" /\ Desynced(d)
  <2>1. Payload(d) = <<>>
    BY <1>2 DEF Payload
  <2>2. <<>> \in Seq(ByteValues) /\ Len(<<>>) = 0
    BY EmptySeq
  <2>3. QED
    BY <1>2, <2>1, <2>2
<1>3. CASE d.kind = "string" /\ ~Desynced(d)
  <2> DEFINE n == Len(d.text)
             b == Big(n, Width)
             p == Payload(d)
             t == d.text
  <2>0. Width \in Nat /\ n \in Nat /\ t \in Seq(ByteValues) /\ Len(t) = n
    BY <1>0, TransfersNumbers
  <2>1. p = b \o t
    BY <1>3 DEF Payload
  <2>2. n < Numbers[Width]
    <3>2. Numbers[Width] \in Nat
      BY <2>0, NumbersFacts
    <3>1. n <= Numbers[Width] - 2
      BY <1>3, <2>0, <3>2 DEF Desynced, Most
    <3>3. QED
      BY <2>0, <3>1, <3>2
  <2> HIDE DEF n
  <2>3. b \in Seq(ByteValues) /\ Len(b) = Width /\ Value(b) = n
    BY <2>0, <2>2, NumbersReadBack DEF ByteValues
  <2> HIDE DEF b, t, p
  <2>4. /\ p \in Seq(ByteValues) /\ Len(p) = Width + n
        /\ \A i \in 1..(Width + n) : p[i] = IF i <= Width THEN b[i] ELSE t[i - Width]
    <3> DEFINE q == b \o t
    <3>1. /\ q \in Seq(ByteValues) /\ Len(q) = Len(b) + Len(t)
          /\ \A i \in 1..(Len(b) + Len(t)) : q[i] = IF i <= Len(b) THEN b[i] ELSE t[i - Len(b)]
      BY <2>0, <2>3, ConcatProperties
    <3> HIDE DEF q
    <3>2. p = q
      BY <2>1 DEF q
    <3>3. QED
      BY <2>0, <2>3, <3>1, <3>2
  <2>5. \A i \in 1..Width : p[i] = b[i]
    BY <2>0, <2>4
  <2>6. \A i \in 1..n : p[Width + i] = t[i]
    BY <2>0, <2>4
  <2>7. SubSeq(p, 1, Width) = b
    <3>0. Width \in 0..Len(p)
      BY <2>0, <2>4
    <3>1. /\ SubSeq(p, 1, Width) \in Seq(ByteValues) /\ Len(SubSeq(p, 1, Width)) = Width
          /\ \A i \in 1..Width : SubSeq(p, 1, Width)[i] = p[i]
      BY <3>0, <2>4, FrontFacts
    <3>2. QED
      BY <3>1, <2>3, <2>5, SeqEqual
  <2>8. Rest(p, Width) = t
    <3>0. Width \in 0..Len(p)
      BY <2>0, <2>4
    <3>1. /\ Rest(p, Width) \in Seq(ByteValues) /\ Len(Rest(p, Width)) = Len(p) - Width
          /\ \A i \in 1..(Len(p) - Width) : Rest(p, Width)[i] = p[Width + i]
      BY <3>0, <2>4, RestFacts
    <3>2. Len(p) - Width = n
      BY <2>0, <2>4
    <3>3. QED
      BY <3>1, <3>2, <2>0, <2>6, SeqEqual
  <2>9. Value(SubSeq(p, 1, Width)) = n
    BY <2>3, <2>7
  <2>10. Len(p) \in Nat
    BY <2>0, <2>4
  <2>11. QED
    BY <1>3, <2>4, <2>6, <2>7, <2>8, <2>9, <2>10, Zenon DEF n, p, t, b
<1>4. QED
  BY <1>1, <1>2, <1>3 DEF Desynced

\* What is left to write, after k bytes of its first piece.
LEMMA PieceFacts ==
    ASSUME NEW d \in Jobs, NEW pos \in 0..Len(Payload(d)), NEW left, LeftAt(d, left, pos), left # <<>>,
           NEW k \in 1..Len(left[1])
    PROVE  /\ left[1] \in Seq(ByteValues) /\ pos + k \in 0..Len(Payload(d))
           /\ \A i \in 1..k : left[1][i] = Payload(d)[pos + i]
           /\ LeftAt(d, PartLeft(left, k), pos + k)
<1> DEFINE p == Payload(d)
           piece == left[1]
<1>0. Width \in Nat /\ p \in Seq(ByteValues) /\ Len(p) \in Nat
  BY PayloadFacts, TransfersNumbers
<1>1. CASE left = <<Rest(p, pos)>>
  <2>1. piece = Rest(p, pos) /\ Tail(left) = <<>>
    BY <1>1
  <2>2. piece \in Seq(ByteValues) /\ Len(piece) = Len(p) - pos /\ \A i \in 1..(Len(p) - pos) : piece[i] = p[pos + i]
    BY <2>1, <1>0, RestFacts
  <2> HIDE DEF piece, p
  <2>3. k \in 1..(Len(p) - pos) /\ k \in Nat /\ pos \in Nat
    BY <1>0, <2>2 DEF p, piece
  <2>4. pos + k \in 0..Len(p) /\ \A i \in 1..k : piece[i] = p[pos + i]
    BY <1>0, <2>2, <2>3
  <2>5. CASE k = Len(piece)
    <3>1. PartLeft(left, k) = <<>>
      BY <2>1, <2>5 DEF PartLeft, piece
    <3>2. pos + k = Len(p)
      BY <2>2, <2>3, <2>5, <1>0
    <3>3. QED
      BY <2>2, <2>4, <3>1, <3>2 DEF LeftAt, p, piece
  <2>6. CASE k # Len(piece)
    <3>1. PartLeft(left, k) = <<Rest(piece, k)>>
      <4>1. PartLeft(left, k) = <<Rest(piece, k)>> \o <<>>
        BY <2>1, <2>6 DEF PartLeft, piece
      <4>2. QED
        BY <4>1
    <3>2. Rest(piece, k) = Rest(p, pos + k)
      <4>1. pos \in 0..Len(p) /\ k \in 0..(Len(p) - pos)
        BY <1>0, <2>3 DEF p
      <4>2. QED
        BY <1>0, <2>1, <4>1, RestOfRest
    <3>3. QED
      BY <2>2, <2>4, <3>1, <3>2 DEF LeftAt, p, piece
  <2>7. QED
    BY <2>5, <2>6
<1>2. CASE /\ left = <<Rest(SubSeq(p, 1, Width), pos), d.text>>
           /\ d.kind = "string" /\ ~Desynced(d) /\ pos < Width
  <2> DEFINE h == SubSeq(p, 1, Width)
  <2>a. Len(p) = Width + Len(d.text) /\ Rest(p, Width) = d.text /\ Len(d.text) \in Nat
    BY <1>2, PayloadFacts, JobFacts
  <2>b. Width \in 0..Len(p)
    BY <1>0, <2>a
  <2>c. h \in Seq(ByteValues) /\ Len(h) = Width /\ \A i \in 1..Width : h[i] = p[i]
    BY <1>0, <2>b, FrontFacts
  <2>1. piece = Rest(h, pos) /\ Tail(left) = <<d.text>>
    BY <1>2
  <2> HIDE DEF h, p, piece
  <2>d. pos \in 0..Len(h) /\ pos \in Nat
    BY <1>0, <1>2, <2>c DEF p
  <2>2. piece \in Seq(ByteValues) /\ Len(piece) = Width - pos /\ \A i \in 1..(Width - pos) : piece[i] = h[pos + i]
    BY <2>1, <2>c, <2>d, RestFacts
  <2>3. k \in 1..(Width - pos) /\ k \in Nat
    BY <1>0, <2>2, <2>d DEF piece
  <2>4. pos + k \in 0..Len(p) /\ \A i \in 1..k : piece[i] = p[pos + i]
    <3>1. pos + k \in 0..Len(p)
      BY <1>0, <2>3, <2>a, <2>d
    <3>2. ASSUME NEW i \in 1..k PROVE piece[i] = p[pos + i]
      <4>1. i \in 1..(Width - pos) /\ pos + i \in 1..Width
        BY <1>0, <2>3, <2>d
      <4>2. QED
        BY <4>1, <2>2, <2>c
    <3>3. QED
      BY <3>1, <3>2
  <2>5. CASE k = Len(piece)
    <3>1. PartLeft(left, k) = <<d.text>>
      BY <2>1, <2>5 DEF PartLeft, piece
    <3>2. pos + k = Width
      BY <2>2, <2>3, <2>5, <2>d, <1>0
    <3>3. LeftAt(d, PartLeft(left, k), pos + k)
      BY <2>a, <3>1, <3>2 DEF LeftAt, p
    <3>4. QED
      BY <2>2, <2>4, <3>3 DEF p, piece
  <2>6. CASE k # Len(piece)
    <3>1. PartLeft(left, k) = <<Rest(piece, k), d.text>>
      <4>1. PartLeft(left, k) = <<Rest(piece, k)>> \o <<d.text>>
        BY <2>1, <2>6 DEF PartLeft, piece
      <4>2. QED
        BY <4>1, TwoPieces, Zenon
    <3>2. Rest(piece, k) = Rest(h, pos + k)
      <4>1. k \in 0..(Len(h) - pos)
        BY <1>0, <2>3, <2>c, <2>d
      <4>2. QED
        BY <2>c, <2>d, <2>1, <4>1, RestOfRest
    <3>3. pos + k < Width
      BY <2>2, <2>3, <2>6, <2>d, <1>0
    <3>4. LeftAt(d, PartLeft(left, k), pos + k)
      BY <1>2, <3>1, <3>2, <3>3 DEF LeftAt, p, h
    <3>5. QED
      BY <2>2, <2>4, <3>4 DEF p, piece
  <2>7. QED
    BY <2>5, <2>6
<1>3. QED
  BY <1>1, <1>2 DEF LeftAt

\* The blocks a limit has room for.
LEMMA WholeFacts ==
    ASSUME NEW d \in Jobs
    PROVE  /\ Whole(d) \in Nat /\ (d.limit >= Block => Whole(d) > 0) /\ (d.limit < Block => Whole(d) = 0)
           /\ \A n \in Nat : n % Block = 0 /\ n + Block > d.limit => Whole(d) <= n
           /\ \A n \in Nat : n % Block = 0 /\ n + Block <= d.limit => n < Whole(d)
           /\ Whole(d) % Block = 0 /\ Whole(d) + Block > d.limit
<1> DEFINE b == Block
           m == d.limit
           q == m \div b
           w == q * b
<1>1. b \in Nat /\ b > 0 /\ m \in Nat
  BY JobFacts, TransfersNumbers
<1>2. Whole(d) = w
  BY DEF Whole
<1>3. q \in Nat /\ w \in Nat /\ w <= m /\ m < w + b
  <2> HIDE DEF b, m
  <2>1. m % b \in 0..(b - 1) /\ q \in Nat /\ m = q * b + (m % b)
    BY <1>1
  <2> DEFINE r == m % b
  <2> HIDE DEF r, q
  <2>2. w \in Nat
    BY <1>1, <2>1
  <2> HIDE DEF w
  <2>3. m = w + r /\ r \in 0..(b - 1)
    BY <2>1 DEF w, r
  <2>4. QED
    BY <1>1, <2>1, <2>2, <2>3
<1> HIDE DEF b, m, q
<1>4. w % b = 0
  BY <1>1, <1>3
<1>5. (m >= b => w > 0) /\ (m < b => w = 0)
  <2>1. m >= b => q >= 1
    BY <1>1, <1>3
  <2>2. m < b => q = 0
    BY <1>1, <1>3
  <2>3. q >= 1 => w > 0
    BY <1>1, <1>3
  <2>4. q = 0 => w = 0
    BY <1>1
  <2>5. QED
    BY <2>1, <2>2, <2>3, <2>4
<1>6. ASSUME NEW n \in Nat, n % b = 0
      PROVE  (n + b > m => w <= n) /\ (n + b <= m => n < w)
  <2> DEFINE x == n \div b
  <2>1. x \in Nat /\ n = x * b
    BY <1>1, <1>6
  <2> HIDE DEF x
  <2>2. x >= q => n >= w
    BY <1>1, <1>3, <2>1
  <2>3. x < q => n + b <= w
    <3>1. x < q => x + 1 <= q
      BY <1>3, <2>1
    <3>2. x + 1 <= q => (x + 1) * b <= q * b
      BY <1>1, <1>3, <2>1
    <3>3. (x + 1) * b = n + b
      BY <1>1, <2>1
    <3>4. QED
      BY <3>1, <3>2, <3>3
  <2> HIDE DEF w
  <2>4. QED
    BY <1>1, <1>3, <2>1, <2>2, <2>3
<1>7. w + b > m
  BY <1>1, <1>3
<1> HIDE DEF w
<1>8. /\ w \in Nat /\ (m >= b => w > 0) /\ (m < b => w = 0)
      /\ \A n \in Nat : n % b = 0 /\ n + b > m => w <= n
      /\ \A n \in Nat : n % b = 0 /\ n + b <= m => n < w
      /\ w % b = 0 /\ w + b > m
  BY <1>3, <1>4, <1>5, <1>6, <1>7
<1>9. QED
  BY <1>2, <1>8 DEF b, m

\* A reader that begins with what it is asked for.
LEMMA StartsReading ==
    ASSUME NEW d \in Jobs, NEW r, r.at = FirstOfKind(d), r.want = Wants(FirstOfKind(d), d), r.buffer = <<>>,
           r.out = <<>>, r.position = 0
    PROVE  Fills(d, r) \/ Measures(d, r) \/ Searches(d, r)
<1>0. /\ Width \in Nat /\ Width > 0 /\ d.limit \in Nat /\ Len(d.text) \in Nat /\ Len(Payload(d)) \in Nat
      /\ d.kind \in {"full", "string", "block"}
  BY JobFacts, PayloadFacts, TransfersNumbers
<1>1. \A s : SubSeq(s, 1, 0) = <<>>
  BY SubSeqEmpty
<1>2. CASE d.kind = "full"
  <2>1. r.at = "full" /\ r.want = d.limit
    BY <1>2 DEF FirstOfKind, Wants
  <2>2. QED
    BY <1>0, <1>1, <1>2, <2>1 DEF Fills, Has
<1>3. CASE d.kind = "string"
  <2>1. r.at = "length" /\ r.want = Width
    BY <1>3 DEF FirstOfKind, Wants
  <2>2. QED
    BY <1>0, <1>1, <1>3, <2>1 DEF Measures, Has
<1>4. CASE d.kind = "block"
  <2>1. r.at = "delimited" /\ r.want = 1
    BY <1>4 DEF FirstOfKind, Wants
  <2>2. \A n \in Len(d.delim)..0 : FALSE
    BY <1>4, JobFacts
  <2>3. d.limit >= Block => 0 < Whole(d)
    BY WholeFacts
  <2>4. QED
    BY <1>0, <1>1, <1>4, <2>1, <2>2, <2>3 DEF Searches
<1>5. QED
  BY <1>0, <1>2, <1>3, <1>4

\* The whole is the rest of nothing read.
LEMMA RestOfAll ==
    ASSUME NEW S, NEW s \in Seq(S)
    PROVE  Rest(s, 0) = s
BY SubSeqFull DEF Rest

LEMMA TransfersInit == XInit => TransfersIInv
<1> SUFFICES ASSUME XInit PROVE TransfersIInv
  OBVIOUS
<1> DEFINE d == deal
<1>0. d \in Jobs
  BY DEF XInit
<1>1. /\ d.text \in Seq(ByteValues) /\ d.kind \in {"full", "string", "block"} /\ d.layer \in {"plain", "xor", "aes"}
      /\ Payload(d) \in Seq(ByteValues) /\ Len(Payload(d)) \in Nat /\ Width \in Nat /\ Width > 0
  BY <1>0, JobFacts, PayloadFacts, TransfersNumbers
<1>2. /\ wr = [left |-> Pieces(d), position |-> 0, result |-> "going"] /\ wire = Greeting(d) /\ over = "more"
      /\ rd = [at |-> First(d), want |-> Wants(First(d), d), buffer |-> <<>>, out |-> <<>>, position |-> 0,
               result |-> "going"]
  BY DEF XInit
<1>3. LeftAt(d, Pieces(d), 0)
  <2>1. CASE d.kind # "string"
    <3>1. Payload(d) = d.text
      BY <2>1 DEF Payload
    <3>2. CASE d.text = <<>>
      BY <2>1, <3>1, <3>2 DEF Pieces, LeftAt
    <3>3. CASE d.text # <<>>
      BY <1>1, <2>1, <3>1, <3>3, RestOfAll DEF Pieces, LeftAt
    <3>4. QED
      BY <3>2, <3>3
  <2>2. CASE d.kind = "string" /\ Desynced(d)
    <3>1. Pieces(d) = <<>>
      BY <2>2 DEF Pieces, writeStringEx, Desynced
    <3>2. Payload(d) = <<>>
      BY <2>2 DEF Payload
    <3>3. QED
      BY <3>1, <3>2 DEF LeftAt
  <2>3. CASE d.kind = "string" /\ ~Desynced(d)
    <3> DEFINE p == Payload(d)
               h == SubSeq(p, 1, Width)
    <3>1. h = Big(Len(d.text), Width) /\ Len(p) = Width + Len(d.text) /\ Len(d.text) \in Nat
      BY <1>0, <1>1, <2>3, PayloadFacts
    <3>2. h \in Seq(ByteValues)
      <4>1. Width \in 0..Len(p)
        BY <1>1, <3>1
      <4>2. QED
        BY <1>1, <4>1, FrontFacts
    <3>3. ~ (Len(d.text) > Most)
      BY <2>3 DEF Desynced
    <3>4. CASE d.text = <<>>
      <4>1. Len(d.text) = 0
        BY <3>4
      <4>2. Pieces(d) = <<Big(0, Width)>>
        BY <2>3, <3>3, <3>4 DEF Pieces, writeStringEx
      <4>3. h = p
        BY <1>1, <3>1, <4>1, SubSeqFull
      <4>4. QED
        BY <1>1, <3>1, <4>1, <4>2, <4>3, RestOfAll DEF LeftAt
    <3>5. CASE d.text # <<>>
      <4>1. Pieces(d) = <<Big(Len(d.text), Width), d.text>>
        BY <2>3, <3>3, <3>5 DEF Pieces, writeStringEx
      <4>2. Rest(h, 0) = Big(Len(d.text), Width)
        BY <3>1, <3>2, RestOfAll
      <4>3. QED
        BY <1>1, <2>3, <4>1, <4>2 DEF LeftAt
    <3>6. QED
      BY <3>4, <3>5
  <2>4. QED
    BY <2>1, <2>2, <2>3 DEF Desynced
<1>4. LeftIsTheRest /\ EndsInOrder
  BY <1>2, <1>3 DEF LeftIsTheRest, EndsInOrder
<1>5. CASE d.layer = "aes"
  <2>1. Ahead(d) = 2 /\ First(d) = "vector" /\ Wants("vector", d) = 1
    BY <1>5 DEF Ahead, First, Wants
  <2> DEFINE one == [byte |-> "vector", key |-> "clear"]
             two == [byte |-> "IHDR", key |-> d.key]
  <2> HIDE DEF one, two
  <2>2. Greeting(d) = <<one, two>>
    BY <1>5 DEF Greeting, one, two
  <2>3. Carried(d, 1) = one /\ Carried(d, 2) = two
    BY <2>1, <2>2 DEF Carried
  <2>4. one \in Loads(d) /\ two \in Loads(d)
    BY <2>3 DEF Loads
  <2>5. wire \in Seq(Loads(d)) /\ Len(wire) = 2 /\ \A i \in 1..2 : wire[i] = Carried(d, i)
    BY <1>2, <2>2, <2>3, <2>4
  <2>6. ReadUpTo(d, rd) = 0
    BY <1>2, <2>1 DEF ReadUpTo
  <2>7. WriterType
    BY <1>1, <1>2, <2>5 DEF WriterType
  <2>8. WireAsWritten
    BY <1>1, <1>2, <2>1, <2>5, <2>6 DEF WireAsWritten
  <2>9. ReaderAsGiven
    BY <1>2, <1>5, <2>1 DEF ReaderAsGiven, Greets
  <2>10. QED
    BY <1>0, <1>4, <2>7, <2>8, <2>9 DEF TransfersIInv
<1>6. CASE d.layer # "aes"
  <2>1. Ahead(d) = 0 /\ First(d) = FirstOfKind(d) /\ Greeting(d) = <<>>
    BY <1>6 DEF Ahead, First, Greeting
  <2>2. FirstOfKind(d) \in {"full", "length", "delimited"}
    BY <1>1 DEF FirstOfKind
  <2>3. wire \in Seq(Loads(d)) /\ Len(wire) = 0
    BY <1>2, <2>1
  <2>4. ReadUpTo(d, rd) = 0
    BY <1>2, <2>1, <2>2 DEF ReadUpTo
  <2>5. WriterType
    BY <1>1, <1>2, <2>3 DEF WriterType
  <2>6. WireAsWritten
    BY <1>1, <1>2, <2>1, <2>3, <2>4 DEF WireAsWritten
  <2>7. Fills(d, rd) \/ Measures(d, rd) \/ Searches(d, rd)
    <3>1. /\ rd.at = FirstOfKind(d) /\ rd.want = Wants(FirstOfKind(d), d) /\ rd.buffer = <<>> /\ rd.out = <<>>
          /\ rd.position = 0
      BY <1>2, <2>1
    <3>2. QED
      BY <1>0, <3>1, StartsReading
  <2>8. ReaderAsGiven
    BY <1>2, <2>1, <2>2, <2>7 DEF ReaderAsGiven
  <2>9. QED
    BY <1>0, <1>4, <2>5, <2>6, <2>8 DEF TransfersIInv
<1>7. QED
  BY <1>5, <1>6

\* A step of the writer leaves the reader as it is, and fails no more than before.
LEMMA ReaderStays ==
    ASSUME ReaderAsGiven, rd' = rd, deal' = deal, wr.result = "failed" => wr'.result = "failed"
    PROVE  ReaderAsGiven'
<1>1. CASE rd.at = "over"
  <2>1. ReadAsWritten
    BY <1>1 DEF ReaderAsGiven
  <2>2. ReadAsWritten'
    BY <2>1 DEF ReadAsWritten, Promised, UpToDelim, Most
  <2>3. QED
    BY <1>1, <2>2 DEF ReaderAsGiven
<1>2. CASE rd.at # "over"
  BY <1>2 DEF ReaderAsGiven, Greets, Fills, Measures, Gathers, Searches, Has, Whole, DelimAt, Payload, Desynced, Most
<1>3. QED
  BY <1>1, <1>2

\* Behind the greeting comes what is hidden.
LEMMA CarriedFacts ==
    ASSUME NEW d, NEW n \in Nat \ {0}
    PROVE  Ahead(d) \in Nat /\ Carried(d, Ahead(d) + n) = Hid(d, n)
<1>1. Ahead(d) \in Nat
  BY DEF Ahead
<1> DEFINE g == Ahead(d)
<1> HIDE DEF g
<1>2. g \in Nat
  BY <1>1 DEF g
<1>3. ~ (g + n <= g) /\ (g + n) - g = n
  BY <1>2
<1>4. Carried(d, g + n) = Hid(d, (g + n) - g)
  BY <1>3 DEF Carried, g
<1>5. QED
  BY <1>1, <1>3, <1>4 DEF g

\* Where the reader is, is a number.
LEMMA PassedIsANumber ==
    ASSUME ReaderAsGiven, deal \in Jobs, rd.at # "over"
    PROVE  ReadUpTo(deal, rd) \in Nat
<1>1. Len(Payload(deal)) \in Nat /\ Len(deal.text) \in Nat /\ Width \in Nat
  BY PayloadFacts, JobFacts, TransfersNumbers
<1>2. rd.position \in Nat
  BY <1>1 DEF ReaderAsGiven, Greets, Fills, Measures, Gathers, Searches, Has
<1>3. QED
  BY <1>2 DEF ReadUpTo, Ahead

\* The first piece of what is left is of bytes.
LEMMA FirstPiece ==
    ASSUME NEW d \in Jobs, NEW pos \in 0..Len(Payload(d)), NEW left, LeftAt(d, left, pos), left # <<>>
    PROVE  left[1] \in Seq(ByteValues)
<1>0. Payload(d) \in Seq(ByteValues) /\ Len(Payload(d)) \in Nat /\ Width \in Nat /\ Len(d.text) \in Nat
  BY PayloadFacts, JobFacts, TransfersNumbers
<1>1. CASE left = <<Rest(Payload(d), pos)>>
  BY <1>0, <1>1, RestFacts
<1>2. CASE /\ left = <<Rest(SubSeq(Payload(d), 1, Width), pos), d.text>>
           /\ d.kind = "string" /\ ~Desynced(d) /\ pos < Width
  <2> DEFINE h == SubSeq(Payload(d), 1, Width)
  <2>1. Width \in 0..Len(Payload(d))
    BY <1>0, <1>2, PayloadFacts
  <2>2. h \in Seq(ByteValues) /\ Len(h) = Width
    BY <1>0, <2>1, FrontFacts
  <2>3. pos \in 0..Len(h)
    BY <1>0, <1>2, <2>2
  <2>4. left[1] = Rest(h, pos)
    BY <1>2
  <2> HIDE DEF h
  <2>5. QED
    BY <2>2, <2>3, <2>4, RestFacts
<1>3. QED
  BY <1>1, <1>2 DEF LeftAt

\* The bytes of one call, hidden by the keys of their places.
LEMMA SentFacts ==
    ASSUME TransfersIInv, wr.left # <<>>, NEW k \in 1..Len(wr.left[1])
    PROVE  /\ Sent(k) \in Seq(Loads(deal)) /\ Len(Sent(k)) = k
           /\ \A i \in 1..k : Sent(k)[i] = Carried(deal, Ahead(deal) + wr.position + i)
<1> DEFINE d == deal
           pos == wr.position
           piece == wr.left[1]
           s == SubSeq(piece, 1, k)
           g == Ahead(d)
<1>1. d \in Jobs /\ pos \in 0..Len(Payload(d)) /\ LeftAt(d, wr.left, pos) /\ Len(Payload(d)) \in Nat /\ g \in Nat
  BY PayloadFacts DEF TransfersIInv, WriterType, LeftIsTheRest, Ahead
<1>2. piece \in Seq(ByteValues) /\ \A i \in 1..k : piece[i] = Payload(d)[pos + i]
  BY <1>1, PieceFacts, SMTT(30)
<1>3. k \in 0..Len(piece) /\ k \in Nat
  BY <1>2
<1>4. s \in Seq(ByteValues) /\ Len(s) = k /\ \A i \in 1..k : s[i] = piece[i]
  BY <1>2, <1>3, FrontFacts
<1>5. Sent(k) = [i \in 1..k |-> [byte |-> s[i], key |-> KeyOf(d.layer, pos + i - 1)]]
  <2>1. DOMAIN s = 1..k
    BY <1>4
  <2>2. Sent(k) = [i \in DOMAIN s |-> [byte |-> s[i], key |-> KeyOf(d.layer, pos + i - 1)]]
    BY DEF Sent, Hidden
  <2>3. QED
    BY <2>1, <2>2
<1> HIDE DEF s, piece
<1>6. ASSUME NEW i \in 1..k
      PROVE  [byte |-> s[i], key |-> KeyOf(d.layer, pos + i - 1)] = Carried(d, g + pos + i)
  <2>1. g + pos + i = g + (pos + i) /\ pos + i \in Nat \ {0}
    BY <1>1
  <2>2. Carried(d, g + pos + i) = Hid(d, pos + i)
    BY <2>1, CarriedFacts
  <2>3. s[i] = Payload(d)[pos + i]
    BY <1>2, <1>4
  <2>4. pos + i - 1 = (pos + i) - 1
    BY <1>1
  <2>5. QED
    BY <2>2, <2>3, <2>4 DEF Hid
<1>7. \A i \in 1..k : g + pos + i \in Nat
  BY <1>1
<1>8. \A i \in 1..k : Carried(d, g + pos + i) \in Loads(d)
  BY <1>7 DEF Loads
<1>9. Sent(k) = [i \in 1..k |-> Carried(d, g + pos + i)]
  BY <1>5, <1>6
<1>10. QED
  BY <1>3, <1>8, <1>9

LEMMA WriteSomeKeeps ==
    ASSUME TransfersIInv, WriteSome
    PROVE  TransfersIInv'
<1> DEFINE d == deal
           pos == wr.position
           g == Ahead(d)
<1>0. /\ d \in Jobs /\ pos \in 0..Len(Payload(d)) /\ LeftAt(d, wr.left, pos) /\ Len(Payload(d)) \in Nat /\ g \in Nat
      /\ wire \in Seq(Loads(d)) /\ Len(wire) \in Nat
  BY PayloadFacts DEF TransfersIInv, WriterType, LeftIsTheRest, Ahead
<1>1. wr.result = "going" /\ wr.left # <<>> /\ deal' = d /\ over' = over /\ rd' = rd
  BY DEF WriteSome
<1>2. PICK k \in 1..Least(Chunk, Len(wr.left[1])) :
         /\ wire' = wire \o Sent(k)
         /\ wr' = [wr EXCEPT !.left = PartLeft(@, k), !.position = @ + Advance(k)]
  BY DEF WriteSome
<1>3. k \in 1..Len(wr.left[1]) /\ k \in Nat
  <2>1. wr.left[1] \in Seq(ByteValues)
    BY <1>0, <1>1, FirstPiece
  <2>2. QED
    BY <1>2, <2>1, TransfersNumbers DEF Least
<1>4. /\ wr' = [left |-> PartLeft(wr.left, k), position |-> pos + k, result |-> "going"]
  <2>1. wr = [left |-> wr.left, position |-> wr.position, result |-> wr.result]
    BY DEF TransfersIInv, WriterType
  <2>2. QED
    BY <1>1, <1>2, <2>1 DEF Advance
<1>5. pos + k \in 0..Len(Payload(d)) /\ LeftAt(d, PartLeft(wr.left, k), pos + k)
  BY <1>0, <1>1, <1>3, PieceFacts
<1>6. /\ Sent(k) \in Seq(Loads(d)) /\ Len(Sent(k)) = k
      /\ \A i \in 1..k : Sent(k)[i] = Carried(d, g + pos + i)
  BY <1>1, <1>3, SentFacts
<1> DEFINE s == Sent(k)
<1> HIDE DEF s
<1>7. /\ wire' \in Seq(Loads(d)) /\ Len(wire') = Len(wire) + k
      /\ \A i \in 1..(Len(wire) + k) : wire'[i] = IF i <= Len(wire) THEN wire[i] ELSE s[i - Len(wire)]
  <2> DEFINE w == wire \o s
  <2>1. /\ w \in Seq(Loads(d)) /\ Len(w) = Len(wire) + Len(s)
        /\ \A i \in 1..(Len(wire) + Len(s)) : w[i] = IF i <= Len(wire) THEN wire[i] ELSE s[i - Len(wire)]
    BY <1>0, <1>6, ConcatProperties DEF s
  <2>2. wire' = w
    BY <1>2 DEF s
  <2> HIDE DEF w
  <2>3. QED
    BY <1>6, <2>1, <2>2 DEF s
<1>8. WriterType'
  <2>1. Loads(deal)' = Loads(d) /\ Payload(deal)' = Payload(d)
    BY <1>1 DEF Loads, Carried, Hid, Payload, Ahead, Greeting, Desynced, Most
  <2>2. over \in {"more", "end", "error"}
    BY DEF TransfersIInv, WriterType
  <2>3. QED
    BY <1>1, <1>4, <1>5, <1>7, <2>1, <2>2 DEF WriterType
<1>9. LeftIsTheRest'
  BY <1>1, <1>4, <1>5 DEF LeftIsTheRest, LeftAt, Payload, Desynced, Most
<1>10. EndsInOrder'
  BY <1>1, <1>4 DEF EndsInOrder, TransfersIInv
<1>11. WireAsWritten'
  <2> SUFFICES ASSUME rd.at # "over"
               PROVE  /\ ReadUpTo(d, rd) + Len(wire') <= g + Len(Payload(d))
                      /\ \A i \in 1..Len(wire') : wire'[i] = Carried(d, ReadUpTo(d, rd) + i)
                      /\ ReadUpTo(d, rd) + Len(wire') = g + (pos + k)
    BY <1>1, <1>4 DEF WireAsWritten, ReadUpTo, Carried, Hid, Payload, Ahead, Greeting, Desynced, Most
  <2> DEFINE a == ReadUpTo(d, rd)
  <2>1. /\ \A i \in 1..Len(wire) : wire[i] = Carried(d, a + i)
        /\ a + Len(wire) = g + pos
    BY <1>1 DEF TransfersIInv, WireAsWritten
  <2>2. a \in Int
    BY <1>0, PassedIsANumber DEF TransfersIInv
  <2> HIDE DEF a, g, d, pos
  <2>3. a + Len(wire') = g + (pos + k)
    <3> DEFINE len == Len(wire)
               more == Len(wire')
    <3>1. len \in Nat /\ more = len + k /\ a + len = g + pos /\ pos \in Nat /\ g \in Nat
      BY <1>0, <1>7, <2>1
    <3> HIDE DEF len, more
    <3>2. a + more = g + (pos + k)
      BY <1>3, <2>2, <3>1
    <3>3. QED
      BY <3>2 DEF more
  <2>4. ASSUME NEW i \in 1..Len(wire') PROVE wire'[i] = Carried(d, a + i)
    <3>1. CASE i <= Len(wire)
      BY <1>0, <1>7, <2>1, <3>1
    <3>2. CASE i > Len(wire)
      <4> DEFINE j == i - Len(wire)
      <4>a. i \in 1..(Len(wire) + k) /\ i \in Nat /\ ~ (i <= Len(wire))
        BY <1>0, <1>3, <1>7, <3>2
      <4>b. pos \in Nat /\ g \in Nat
        BY <1>0
      <4>1. j \in 1..k /\ g + pos + j = a + i /\ i \in 1..(Len(wire) + k) /\ ~ (i <= Len(wire))
        <5> DEFINE len == Len(wire)
        <5>1. len \in Nat /\ a + len = g + pos /\ i \in 1..(len + k) /\ i > len
          BY <1>0, <2>1, <4>a
        <5> HIDE DEF len
        <5>2. i - len \in 1..k /\ g + pos + (i - len) = a + i
          BY <1>3, <2>2, <4>a, <4>b, <5>1
        <5>3. QED
          BY <4>a, <5>2 DEF len
      <4>2. wire'[i] = s[j]
        BY <1>7, <4>1
      <4>3. s[j] = Carried(d, g + pos + j)
        BY <1>6, <4>1 DEF s
      <4>4. QED
        BY <4>1, <4>2, <4>3
    <3>3. QED
      BY <1>0, <1>7, <3>1, <3>2
  <2>5. g + (pos + k) <= g + Len(Payload(d))
    BY <1>0, <1>3, <1>5 DEF d, pos, g
  <2>6. QED
    BY <2>3, <2>4, <2>5 DEF a, g, d, pos
<1>12. ReaderAsGiven'
  BY <1>1, <1>4, ReaderStays DEF TransfersIInv
<1>13. QED
  BY <1>0, <1>1, <1>8, <1>9, <1>10, <1>11, <1>12 DEF TransfersIInv

LEMMA WriteFailsKeeps ==
    ASSUME TransfersIInv, WriteFails
    PROVE  TransfersIInv'
<1> DEFINE d == deal
           g == Ahead(d)
<1>0. /\ d \in Jobs /\ Len(Payload(d)) \in Nat /\ g \in Nat /\ wire \in Seq(Loads(d)) /\ Len(wire) \in Nat
  BY PayloadFacts DEF TransfersIInv, WriterType, Ahead
<1>1. /\ deal' = d /\ rd' = rd /\ wr'.result = "failed" /\ wr'.left = wr.left /\ wr'.position = wr.position
      /\ over' \in {"end", "error"} /\ wr' = [left |-> wr.left, position |-> wr.position, result |-> "failed"]
  <2>1. wr = [left |-> wr.left, position |-> wr.position, result |-> wr.result]
    BY DEF TransfersIInv, WriterType
  <2>2. wr' = [wr EXCEPT !.result = "failed"] /\ deal' = d /\ rd' = rd /\ over' \in {"end", "error"}
    BY DEF WriteFails
  <2>3. QED
    BY <2>1, <2>2
<1>2. wire' = wire \/ wire' = <<>>
  BY DEF WriteFails, Nothing
<1>3. /\ Loads(deal)' = Loads(d) /\ Payload(deal)' = Payload(d) /\ Ahead(deal)' = g
      /\ ReadUpTo(deal, rd)' = ReadUpTo(d, rd) /\ \A i : Carried(deal, i)' = Carried(d, i)
  BY <1>1 DEF Loads, Carried, Hid, Payload, Ahead, Greeting, Desynced, Most, ReadUpTo
<1>4. WriterType'
  <2>1. wr.position \in 0..Len(Payload(d))
    BY DEF WriterType, TransfersIInv
  <2>2. wire' \in Seq(Loads(d))
    BY <1>0, <1>2, EmptySeq
  <2>3. QED
    BY <1>1, <1>3, <2>1, <2>2 DEF WriterType
<1>5. LeftIsTheRest' /\ EndsInOrder'
  BY <1>1, <1>3 DEF LeftIsTheRest, LeftAt, EndsInOrder, TransfersIInv, Desynced, Most
<1>6. WireAsWritten'
  <2> SUFFICES ASSUME rd.at # "over"
               PROVE  /\ ReadUpTo(d, rd) + Len(wire') <= g + Len(Payload(d))
                      /\ \A i \in 1..Len(wire') : wire'[i] = Carried(d, ReadUpTo(d, rd) + i)
    BY <1>1, <1>3 DEF WireAsWritten
  <2>1. ReadUpTo(d, rd) \in Nat
    BY PassedIsANumber DEF TransfersIInv
  <2>2. /\ ReadUpTo(d, rd) + Len(wire) <= g + Len(Payload(d))
        /\ \A i \in 1..Len(wire) : wire[i] = Carried(d, ReadUpTo(d, rd) + i)
    BY DEF WireAsWritten, TransfersIInv
  <2> HIDE DEF g, d
  <2>3. CASE wire' = wire
    BY <2>2, <2>3
  <2>4. CASE wire' = <<>>
    BY <1>0, <2>1, <2>2, <2>4
  <2>5. QED
    BY <1>2, <2>3, <2>4
<1>7. ReaderAsGiven'
  BY <1>1, ReaderStays DEF TransfersIInv
<1>8. QED
  BY <1>0, <1>1, <1>4, <1>5, <1>6, <1>7 DEF TransfersIInv

LEMMA WriteEndsKeeps ==
    ASSUME TransfersIInv, WriteEnds
    PROVE  TransfersIInv'
<1> DEFINE d == deal
<1>1. /\ deal' = d /\ rd' = rd /\ wire' = wire /\ wr'.result = "ok" /\ wr'.left = wr.left /\ wr'.position = wr.position
      /\ wr = [left |-> wr.left, position |-> wr.position, result |-> wr.result]
      /\ wr' = [left |-> wr.left, position |-> wr.position, result |-> "ok"]
      /\ wr.left = <<>> /\ ~Desynced(d) /\ wr.result = "going" /\ over' \in {"more", "end"}
  <2>1. wr = [left |-> wr.left, position |-> wr.position, result |-> wr.result]
    BY DEF TransfersIInv, WriterType
  <2>2. /\ wr' = [wr EXCEPT !.result = "ok"] /\ deal' = d /\ rd' = rd /\ wire' = wire
        /\ wr.left = <<>> /\ ~Desynced(d) /\ wr.result = "going" /\ over' \in {"more", "end"}
    BY DEF WriteEnds
  <2>3. QED
    BY <2>1, <2>2
<1>3. /\ Loads(deal)' = Loads(d) /\ Payload(deal)' = Payload(d) /\ Ahead(deal)' = Ahead(d) /\ Desynced(deal)' = Desynced(d)
      /\ ReadUpTo(deal, rd)' = ReadUpTo(d, rd) /\ \A i : Carried(deal, i)' = Carried(d, i)
  BY <1>1 DEF Loads, Carried, Hid, Payload, Ahead, Greeting, Desynced, Most, ReadUpTo
<1>4. WriterType'
  BY <1>1, <1>3 DEF WriterType, TransfersIInv
<1>5. LeftIsTheRest' /\ EndsInOrder'
  BY <1>1, <1>3 DEF LeftIsTheRest, LeftAt, EndsInOrder, TransfersIInv
<1>6. WireAsWritten'
  BY <1>1, <1>3 DEF WireAsWritten, TransfersIInv
<1>7. ReaderAsGiven'
  BY <1>1, ReaderStays DEF TransfersIInv
<1>8. QED
  BY <1>1, <1>4, <1>5, <1>6, <1>7 DEF TransfersIInv

-----------------------------------------------------------------------------
IsReader(r) ==
    r = [at |-> r.at, want |-> r.want, buffer |-> r.buffer, out |-> r.out, position |-> r.position, result |-> r.result]

LEMMA ReaderRecords ==
    ASSUME NEW r, IsReader(r)
    PROVE  /\ Fails(r) = [at |-> "over", want |-> r.want, buffer |-> r.buffer, out |-> r.out, position |-> r.position,
                          result |-> "failed"]
           /\ \A s : Gives(r, s) = [at |-> "over", want |-> r.want, buffer |-> r.buffer, out |-> s,
                                    position |-> r.position, result |-> "ok"]
           /\ \A stage, n : Awaits(r, stage, n) =
                  [at |-> stage, want |-> n, buffer |-> <<>>, out |-> r.out, position |-> r.position, result |-> r.result]
<1>1. Fails(r) = [at |-> "over", want |-> r.want, buffer |-> r.buffer, out |-> r.out, position |-> r.position,
                  result |-> "failed"]
  <2> DEFINE one == [r EXCEPT !.at = "over"]
  <2>1. one = [at |-> "over", want |-> r.want, buffer |-> r.buffer, out |-> r.out, position |-> r.position,
               result |-> r.result]
    BY DEF IsReader
  <2>2. Fails(r) = [one EXCEPT !.result = "failed"]
    BY DEF Fails
  <2> HIDE DEF one
  <2>3. QED
    BY <2>1, <2>2
<1>2. ASSUME NEW s
      PROVE  Gives(r, s) = [at |-> "over", want |-> r.want, buffer |-> r.buffer, out |-> s, position |-> r.position,
                            result |-> "ok"]
  <2> DEFINE one == [r EXCEPT !.at = "over"]
             two == [one EXCEPT !.result = "ok"]
  <2>1. one = [at |-> "over", want |-> r.want, buffer |-> r.buffer, out |-> r.out, position |-> r.position,
               result |-> r.result]
    BY DEF IsReader
  <2>2. Gives(r, s) = [two EXCEPT !.out = s]
    BY DEF Gives
  <2> HIDE DEF one
  <2>3. two = [at |-> "over", want |-> r.want, buffer |-> r.buffer, out |-> r.out, position |-> r.position,
               result |-> "ok"]
    BY <2>1
  <2> HIDE DEF two
  <2>4. QED
    BY <2>2, <2>3
<1>3. ASSUME NEW stage, NEW n
      PROVE  Awaits(r, stage, n) = [at |-> stage, want |-> n, buffer |-> <<>>, out |-> r.out, position |-> r.position,
                                    result |-> r.result]
  <2> DEFINE none == <<>>
             one == [r EXCEPT !.at = stage]
             two == [one EXCEPT !.want = n]
  <2> HIDE DEF none
  <2>1. one = [at |-> stage, want |-> r.want, buffer |-> r.buffer, out |-> r.out, position |-> r.position,
               result |-> r.result]
    BY DEF IsReader
  <2> HIDE DEF one
  <2>2. two = [at |-> stage, want |-> n, buffer |-> r.buffer, out |-> r.out, position |-> r.position,
               result |-> r.result]
    BY <2>1
  <2> HIDE DEF two
  <2>3. [two EXCEPT !.buffer = none] = [at |-> stage, want |-> n, buffer |-> none, out |-> r.out,
                                        position |-> r.position, result |-> r.result]
    BY <2>2
  <2>4. Awaits(r, stage, n) = [two EXCEPT !.buffer = none]
    BY DEF Awaits, one, two, none
  <2>5. QED
    BY <2>3, <2>4 DEF none
<1>4. QED
  BY <1>1, <1>2, <1>3
\* Why a reading may fail, and what it may give.
Excused(d, w) ==
    \/ w.result = "failed"
    \/ d.layer = "aes" /\ d.key # "common"
    \/ Promised(d) = {}
    \/ d.kind = "full" /\ Len(d.text) < d.limit
AsPromised(d, s) == s \in Promised(d) /\ Len(s) >= (IF d.kind = "full" THEN d.limit ELSE 0)

LEMMA FailsFairly ==
    ASSUME NEW r, IsReader(r), rd' = Fails(r), deal' = deal, wr' = wr, Excused(deal, wr)
    PROVE  ReaderAsGiven' /\ rd'.at = "over"
<1>1. rd' = [at |-> "over", want |-> r.want, buffer |-> r.buffer, out |-> r.out, position |-> r.position,
             result |-> "failed"]
  BY ReaderRecords
<1>2. rd'.at = "over" /\ rd'.result = "failed"
  BY <1>1
<1>3. ReadAsWritten'
  BY <1>2 DEF ReadAsWritten, Excused, Promised, UpToDelim, Most
<1>4. QED
  BY <1>1, <1>2, <1>3 DEF ReaderAsGiven

LEMMA GivesFairly ==
    ASSUME NEW r, NEW s, IsReader(r), rd' = Gives(r, s), deal' = deal, wr' = wr, AsPromised(deal, s)
    PROVE  ReaderAsGiven' /\ rd'.at = "over"
<1>1. rd' = [at |-> "over", want |-> r.want, buffer |-> r.buffer, out |-> s, position |-> r.position, result |-> "ok"]
  BY ReaderRecords
<1>2. rd'.at = "over" /\ rd'.result = "ok" /\ rd'.out = s
  BY <1>1
<1>3. ReadAsWritten'
  BY <1>2 DEF ReadAsWritten, AsPromised, Promised, UpToDelim, Most
<1>4. QED
  BY <1>1, <1>2, <1>3 DEF ReaderAsGiven

\* A delimiter is only where the blocks the limit has room for reach.
LEMMA NoDelimiter ==
    ASSUME NEW d \in Jobs, d.kind = "block", NEW n \in Nat, Whole(d) <= n,
           \A m \in Len(d.delim)..n : m <= Len(d.text) => ~DelimAt(d, m)
    PROVE  Promised(d) = {}
<1>1. UpToDelim(d) = {}
  <2> SUFFICES ASSUME NEW m \in UpToDelim(d) PROVE FALSE
    OBVIOUS
  <2>1. Len(d.delim) \in Nat /\ Len(d.text) \in Nat /\ Whole(d) \in Nat
    BY JobFacts, WholeFacts
  <2>2. m \in Len(d.delim)..Len(d.text) /\ m <= Whole(d) /\ DelimAt(d, m)
    BY DEF UpToDelim, Whole, DelimAt
  <2>3. m \in Len(d.delim)..n /\ m <= Len(d.text)
    BY <2>1, <2>2
  <2>4. QED
    BY <2>2, <2>3
<1>2. QED
  BY <1>1 DEF Promised

\* A step of the reader that is its last leaves the rest to itself.
LEMMA OverIsOver ==
    ASSUME TransfersIInv, deal' = deal, wr' = wr, over' = over, wire' \in Seq(Loads(deal)),
           ReaderAsGiven', rd'.at = "over"
    PROVE  TransfersIInv'
<1>1. Loads(deal)' = Loads(deal) /\ Payload(deal)' = Payload(deal) /\ Desynced(deal)' = Desynced(deal)
  BY DEF Loads, Carried, Hid, Payload, Ahead, Greeting, Desynced, Most
<1>2. WriterType'
  BY <1>1 DEF WriterType, TransfersIInv
<1>3. LeftIsTheRest' /\ EndsInOrder'
  BY <1>1 DEF LeftIsTheRest, LeftAt, EndsInOrder, TransfersIInv
<1>4. WireAsWritten'
  BY DEF WireAsWritten
<1>5. QED
  BY <1>2, <1>3, <1>4 DEF TransfersIInv

LEMMA ReadNothingKeeps ==
    ASSUME TransfersIInv, ReadNothing
    PROVE  TransfersIInv'
<1> DEFINE d == deal
<1>1. /\ deal' = d /\ wr' = wr /\ over' = over /\ wire' = wire /\ wire \in Seq(Loads(d)) /\ d \in Jobs
      /\ ReaderAsGiven
  BY DEF ReadNothing, TransfersIInv, WriterType
<1>2. IsReader(rd)
  BY <1>1 DEF ReaderAsGiven, IsReader
<1>3. CASE rd.at = "full" /\ rd.want = 0 /\ rd' = Gives(rd, <<>>)
  <2>1. Fills(d, rd)
    BY <1>1, <1>3 DEF ReaderAsGiven, Greets, Fills, Measures, Gathers, Searches
  <2>2. d.kind = "full" /\ d.limit = 0
    BY <1>3, <2>1 DEF Fills
  <2>3. Least(d.limit, Len(d.text)) = 0
    BY <1>1, <2>2, JobFacts DEF Least
  <2>4. SubSeq(d.text, 1, 0) = <<>>
    BY SubSeqEmpty
  <2>5. AsPromised(d, <<>>)
    BY <2>2, <2>3, <2>4 DEF AsPromised, Promised
  <2>6. ReaderAsGiven' /\ rd'.at = "over"
    BY <1>1, <1>2, <1>3, <2>5, GivesFairly
  <2>7. QED
    BY <1>1, <2>6, OverIsOver
<1>4. CASE rd.at = "delimited" /\ d.limit < Block /\ rd' = Fails(rd)
  <2>1. Searches(d, rd)
    BY <1>1, <1>4 DEF ReaderAsGiven, Greets, Fills, Measures, Gathers, Searches
  <2>2. d.kind = "block" /\ Whole(d) = 0
    BY <1>1, <1>4, <2>1, WholeFacts DEF Searches
  <2>3. Len(d.delim) \in Nat \ {0}
    BY <1>1, <2>2, JobFacts
  <2>4. \A m \in Len(d.delim)..0 : FALSE
    BY <2>3
  <2>5. Promised(d) = {}
    BY <1>1, <2>2, <2>4, NoDelimiter
  <2>6. Excused(d, wr)
    BY <2>5 DEF Excused
  <2>7. ReaderAsGiven' /\ rd'.at = "over"
    BY <1>1, <1>2, <1>4, <2>6, FailsFairly
  <2>8. QED
    BY <1>1, <2>7, OverIsOver
<1>5. QED
  BY <1>3, <1>4 DEF ReadNothing

LEMMA ReadEndsKeeps ==
    ASSUME TransfersIInv, ReadEnds
    PROVE  TransfersIInv'
<1> DEFINE d == deal
           p == Payload(d)
           g == Ahead(d)
<1>1. /\ deal' = d /\ wr' = wr /\ over' = over /\ wire' = wire /\ wire \in Seq(Loads(d)) /\ d \in Jobs
      /\ ReaderAsGiven /\ rd.at # "over" /\ wire = <<>> /\ over # "more" /\ rd' = Fails(rd)
  BY DEF ReadEnds, TransfersIInv, WriterType
<1>2. IsReader(rd)
  BY <1>1 DEF ReaderAsGiven, IsReader
<1>3. /\ Len(p) \in Nat /\ Len(d.text) \in Nat /\ Width \in Nat /\ Width > 0 /\ d.limit \in Nat
      /\ d.text \in Seq(ByteValues) /\ g \in Nat /\ g = (IF d.layer = "aes" THEN 2 ELSE 0)
  BY <1>1, PayloadFacts, JobFacts, TransfersNumbers DEF Ahead
<1>4. CASE wr.result = "failed"
  <2>1. Excused(d, wr)
    BY <1>4 DEF Excused
  <2>2. QED
    BY <1>1, <1>2, <2>1, FailsFairly, OverIsOver
<1>5. CASE wr.result # "failed"
  <2>1. wr.result = "ok" /\ wr.left = <<>> /\ ~Desynced(d)
    BY <1>1, <1>5 DEF TransfersIInv, WriterType, EndsInOrder
  <2>2. wr.position = Len(p)
    BY <2>1 DEF TransfersIInv, LeftIsTheRest, LeftAt
  <2>3. ReadUpTo(d, rd) = g + Len(p)
    <3>1. ReadUpTo(d, rd) + Len(wire) = g + wr.position
      BY <1>1, <1>5 DEF TransfersIInv, WireAsWritten
    <3>2. ReadUpTo(d, rd) \in Nat /\ Len(wire) = 0
      BY <1>1, PassedIsANumber
    <3> HIDE DEF p, g
    <3>3. QED
      BY <1>3, <2>2, <3>1, <3>2
  <2>4. ~ Greets(d, rd)
    BY <1>3, <2>3 DEF Greets, ReadUpTo
  <2>5. rd.at \notin {"vector", "header"}
    BY <1>1, <2>4 DEF ReaderAsGiven, Fills, Measures, Gathers, Searches
  <2>6. rd.position = Len(p)
    <3>1. g + rd.position = g + Len(p)
      BY <2>3, <2>5 DEF ReadUpTo
    <3>2. rd.position \in Nat
      BY <1>1, <1>3, <2>4 DEF ReaderAsGiven, Fills, Measures, Gathers, Searches, Has
    <3> HIDE DEF p, g
    <3>3. QED
      BY <1>3, <3>1, <3>2
  <2>c. rd.want > 0
    BY DEF ReadEnds
  <2>7. CASE Fills(d, rd)
    <3>1. /\ d.kind = "full" /\ rd.position <= d.limit /\ (rd.position = d.limit => d.limit = 0) /\ p = d.text
          /\ rd.want = d.limit
      BY <1>1, <2>7, PayloadFacts DEF Fills
    <3>2. Len(d.text) < d.limit
      BY <1>3, <2>6, <3>1, <2>c
    <3>3. Excused(d, wr)
      BY <3>1, <3>2 DEF Excused
    <3>4. QED
      BY <1>1, <1>2, <3>3, FailsFairly, OverIsOver
  <2>8. CASE Measures(d, rd)
    BY <1>1, <1>3, <2>1, <2>6, <2>8, PayloadFacts DEF Measures
  <2>9. CASE Gathers(d, rd)
    BY <1>1, <1>3, <2>1, <2>6, <2>9, PayloadFacts DEF Gathers
  <2>10. CASE Searches(d, rd)
    <3>1. d.kind = "block" /\ p = d.text /\ rd.position = Len(d.text) /\ \A n \in Len(d.delim)..rd.position : ~DelimAt(d, n)
      BY <1>1, <2>6, <2>10, PayloadFacts DEF Searches
    <3>2. Len(d.delim) \in Nat /\ Whole(d) \in Nat
      BY <1>1, <3>1, JobFacts, WholeFacts
    <3> DEFINE n == Len(d.text) + Whole(d)
    <3>3. n \in Nat /\ Whole(d) <= n
      BY <1>3, <3>2
    <3>4. \A m \in Len(d.delim)..n : m <= Len(d.text) => ~DelimAt(d, m)
      BY <1>3, <3>1, <3>2
    <3> HIDE DEF n
    <3>5. Promised(d) = {}
      BY <1>1, <3>1, <3>3, <3>4, NoDelimiter
    <3>6. Excused(d, wr)
      BY <3>5 DEF Excused
    <3>7. QED
      BY <1>1, <1>2, <3>6, FailsFairly, OverIsOver
  <2>11. QED
    BY <1>1, <2>4, <2>7, <2>8, <2>9, <2>10 DEF ReaderAsGiven
<1>6. QED
  BY <1>4, <1>5

LEMMA ReadBreaksKeeps ==
    ASSUME TransfersIInv, ReadBreaks
    PROVE  TransfersIInv'
<1>1. /\ deal' = deal /\ wr' = wr /\ over' = over /\ wire' = wire /\ wire \in Seq(Loads(deal))
      /\ rd' = [Fails(rd) EXCEPT !.result = "broken"] /\ ReaderAsGiven
  BY DEF ReadBreaks, TransfersIInv, WriterType
<1>2. Fails(rd) = [at |-> "over", want |-> rd.want, buffer |-> rd.buffer, out |-> rd.out, position |-> rd.position,
                   result |-> "failed"]
  BY <1>1, ReaderRecords DEF ReaderAsGiven, IsReader
<1>3. rd' = [at |-> "over", want |-> rd.want, buffer |-> rd.buffer, out |-> rd.out, position |-> rd.position,
             result |-> "broken"]
  BY <1>1, <1>2
<1>4. ReadAsWritten'
  BY <1>3 DEF ReadAsWritten
<1>5. ReaderAsGiven' /\ rd'.at = "over"
  BY <1>3, <1>4 DEF ReaderAsGiven
<1>6. QED
  BY <1>1, <1>5, OverIsOver

\* One reading of k bytes, and the reader once they are in its buffer.
Reading(k, r) ==
    /\ rd.at # "over" /\ k \in 1..Len(wire) /\ k <= rd.want - Len(rd.buffer)
    /\ r = [at |-> rd.at, want |-> rd.want, buffer |-> rd.buffer \o Understood(SubSeq(wire, 1, k)), out |-> rd.out,
            position |-> rd.position + k, result |-> "going"]
    /\ rd' = (IF Len(r.buffer) = r.want THEN NextStage(r, deal) ELSE r)
    /\ wire' = Rest(wire, k) /\ deal' = deal /\ wr' = wr /\ over' = over

LEMMA ReadingFacts ==
    ASSUME TransfersIInv, NEW k, NEW r, Reading(k, r)
    PROVE  /\ deal \in Jobs /\ wire \in Seq(Loads(deal)) /\ Len(wire) \in Nat /\ wire' \in Seq(Loads(deal))
           /\ k \in Nat /\ k > 0 /\ Len(wire') = Len(wire) - k /\ \A i \in 1..(Len(wire) - k) : wire'[i] = wire[k + i]
           /\ ReaderAsGiven /\ IsReader(r) /\ ReadUpTo(deal, rd) \in Nat /\ rd.result = "going"
           /\ ReadUpTo(deal, rd) + Len(wire) <= Ahead(deal) + Len(Payload(deal))
           /\ \A i \in 1..Len(wire) : wire[i] = Carried(deal, ReadUpTo(deal, rd) + i)
           /\ wr.result # "failed" => ReadUpTo(deal, rd) + Len(wire) = Ahead(deal) + wr.position
<1>1. deal \in Jobs /\ wire \in Seq(Loads(deal)) /\ Len(wire) \in Nat /\ ReaderAsGiven /\ rd.at # "over"
  BY DEF TransfersIInv, WriterType, Reading
<1>2. k \in 1..Len(wire) /\ k \in Nat /\ k > 0 /\ k \in 0..Len(wire) /\ wire' = Rest(wire, k)
  BY <1>1 DEF Reading
<1>3. wire' \in Seq(Loads(deal)) /\ Len(wire') = Len(wire) - k /\ \A i \in 1..(Len(wire) - k) : wire'[i] = wire[k + i]
  BY <1>1, <1>2, RestFacts
<1>4. IsReader(r)
  BY DEF IsReader, Reading
<1>5. ReadUpTo(deal, rd) \in Nat /\ rd.result = "going"
  BY <1>1, PassedIsANumber DEF ReaderAsGiven
<1>6. /\ ReadUpTo(deal, rd) + Len(wire) <= Ahead(deal) + Len(Payload(deal))
      /\ \A i \in 1..Len(wire) : wire[i] = Carried(deal, ReadUpTo(deal, rd) + i)
      /\ wr.result # "failed" => ReadUpTo(deal, rd) + Len(wire) = Ahead(deal) + wr.position
  BY <1>1 DEF TransfersIInv, WireAsWritten
<1>7. QED
  BY <1>1, <1>2, <1>3, <1>4, <1>5, <1>6

\* A reading that is not the last leaves what is under way where it was.
LEMMA KeepsGoing ==
    ASSUME TransfersIInv, NEW k, NEW r, Reading(k, r), ReaderAsGiven', ReadUpTo(deal, rd') = ReadUpTo(deal, rd) + k
    PROVE  TransfersIInv'
<1> DEFINE d == deal
           a == ReadUpTo(d, rd)
           top == Ahead(d) + Len(Payload(d))
           written == Ahead(d) + wr.position
           n == Len(wire)
<1>1. deal' = d /\ wr' = wr /\ over' = over
  BY DEF Reading
<1>2. /\ Loads(deal)' = Loads(d) /\ Payload(deal)' = Payload(d) /\ Ahead(deal)' = Ahead(d) /\ Desynced(deal)' = Desynced(d)
      /\ ReadUpTo(deal, rd)' = a + k /\ \A i : Carried(deal, i)' = Carried(d, i)
  BY <1>1 DEF Loads, Carried, Hid, Payload, Ahead, Greeting, Desynced, Most, ReadUpTo
<1>3. WriterType'
  BY <1>1, <1>2, ReadingFacts DEF WriterType, TransfersIInv
<1>4. LeftIsTheRest' /\ EndsInOrder'
  BY <1>1, <1>2 DEF LeftIsTheRest, LeftAt, EndsInOrder, TransfersIInv
<1>5. /\ n \in Nat /\ k \in Nat /\ a \in Nat /\ Len(wire') = n - k /\ \A i \in 1..(n - k) : wire'[i] = wire[k + i]
      /\ a + n <= top /\ \A i \in 1..n : wire[i] = Carried(d, a + i)
      /\ wr.result # "failed" => a + n = written
      /\ top \in Nat /\ written \in Nat /\ k > 0
  <2>1. Ahead(d) \in Nat /\ Len(Payload(d)) \in Nat /\ wr.position \in 0..Len(Payload(d))
    BY PayloadFacts DEF TransfersIInv, WriterType, Ahead
  <2>2. QED
    BY <2>1, ReadingFacts, SMTT(30)
<1> HIDE DEF a, top, written, n
<1>6. (a + k) + Len(wire') = a + n
  BY <1>5
<1>7. ASSUME NEW i \in 1..Len(wire') PROVE wire'[i] = Carried(d, (a + k) + i)
  <2>1. i \in 1..(n - k) /\ k + i \in 1..n /\ a + (k + i) = (a + k) + i
    BY <1>5
  <2>2. wire'[i] = wire[k + i] /\ wire[k + i] = Carried(d, a + (k + i))
    BY <1>5, <2>1
  <2>3. QED
    BY <2>1, <2>2
<1>8. WireAsWritten'
  BY <1>1, <1>2, <1>5, <1>6, <1>7 DEF WireAsWritten, top, written
<1>9. deal' \in Jobs
  BY <1>1 DEF TransfersIInv
<1>10. QED
  BY <1>3, <1>4, <1>8, <1>9 DEF TransfersIInv

\* Behind the greeting, what is read is what was to be carried.
LEMMA Understands ==
    ASSUME TransfersIInv, NEW k, NEW r, Reading(k, r), rd.at \notin {"vector", "header"}, rd.position \in Nat
    PROVE  /\ Understood(SubSeq(wire, 1, k)) = SubSeq(Payload(deal), rd.position + 1, rd.position + k)
           /\ rd.position + k <= Len(Payload(deal)) /\ k \in Nat /\ k > 0
<1> DEFINE d == deal
           p == Payload(d)
           pos == rd.position
           s == SubSeq(wire, 1, k)
           g == Ahead(d)
           n == Len(wire)
<1>1. /\ wire \in Seq(Loads(d)) /\ n \in Nat /\ k \in 0..n /\ k \in Nat /\ k > 0 /\ g \in Nat /\ pos \in Nat
      /\ Len(p) \in Nat /\ p \in Seq(ByteValues)
  <2>1. d \in Jobs /\ wire \in Seq(Loads(d)) /\ n \in Nat /\ k \in Nat /\ k > 0 /\ k \in 1..n
    BY ReadingFacts DEF Reading
  <2>2. Len(p) \in Nat /\ p \in Seq(ByteValues) /\ g \in Nat
    BY <2>1, PayloadFacts DEF Ahead
  <2>3. k \in 0..n
    BY <2>1
  <2>4. QED
    BY <2>1, <2>2, <2>3
<1>2. ReadUpTo(d, rd) = g + pos
  BY DEF ReadUpTo
<1>3. /\ (g + pos) + n <= g + Len(p)
      /\ \A i \in 1..n : wire[i] = Carried(d, (g + pos) + i)
  BY <1>2, ReadingFacts
<1>4. s \in Seq(Loads(d)) /\ Len(s) = k /\ \A i \in 1..k : s[i] = wire[i]
  BY <1>1, FrontFacts
<1>5. Understood(s) = [i \in 1..k |-> IF s[i].key = KeyOf(d.layer, pos + i - 1) THEN s[i].byte ELSE Base]
  <2>1. DOMAIN s = 1..k
    BY <1>4
  <2>2. Understood(s) = [i \in DOMAIN s |-> IF s[i].key = KeyOf(d.layer, pos + i - 1) THEN s[i].byte ELSE Base]
    BY DEF Understood, Shown
  <2>3. QED
    BY <2>1, <2>2
<1> HIDE DEF s, p, n, g, pos
<1>6. pos + k <= Len(p)
  BY <1>1, <1>3
<1>7. ASSUME NEW i \in 1..k
      PROVE  (IF s[i].key = KeyOf(d.layer, pos + i - 1) THEN s[i].byte ELSE Base) = p[pos + i]
  <2>1. i \in 1..n /\ (g + pos) + i = g + (pos + i) /\ pos + i \in Nat \ {0} /\ pos + i - 1 = (pos + i) - 1
    BY <1>1
  <2>2. s[i] = Hid(d, pos + i)
    BY <1>3, <1>4, <2>1, CarriedFacts DEF g
  <2>3. Hid(d, pos + i) = [byte |-> p[pos + i], key |-> KeyOf(d.layer, pos + i - 1)]
    BY <2>1 DEF Hid, p
  <2>4. QED
    BY <2>2, <2>3
<1>8. Understood(s) = [i \in 1..k |-> p[pos + i]]
  BY <1>5, <1>7
<1>9. SubSeq(p, pos + 1, pos + k) = [i \in 1..k |-> p[pos + i]]
  <2>1. \A i \in (pos + 1)..(pos + k) : p[i] \in ByteValues
    BY <1>1, <1>6, ElementOfSeq
  <2> DEFINE t == SubSeq(p, pos + 1, pos + k)
  <2>2. /\ t \in Seq(ByteValues) /\ Len(t) = (IF pos + 1 <= pos + k THEN pos + k - (pos + 1) + 1 ELSE 0)
        /\ \A i \in 1..(pos + k - (pos + 1) + 1) : t[i] = p[(pos + 1) + i - 1]
    BY <1>1, <2>1, SubSeqProperties
  <2> HIDE DEF t
  <2>3. Len(t) = k /\ \A i \in 1..k : t[i] = p[pos + i]
    BY <1>1, <2>2, SMTT(30)
  <2>4. t = [i \in 1..Len(t) |-> t[i]]
    BY <2>2
  <2>5. QED
    BY <2>3, <2>4 DEF t
<1>10. QED
  BY <1>1, <1>6, <1>8, <1>9 DEF s, p, pos

\* What was read, with what follows it.
LEMMA Grows ==
    ASSUME NEW S, NEW s \in Seq(S), NEW p \in 0..Len(s), NEW k \in Nat, p + k <= Len(s)
    PROVE  SubSeq(s, 1, p) \o SubSeq(s, p + 1, p + k) = SubSeq(s, 1, p + k)
<1>1. 1 \in 1..(Len(s) + 1) /\ p \in (1 - 1)..Len(s) /\ p + k \in p..Len(s)
  OBVIOUS
<1> DEFINE one == 1
           n == p + k
<1>2. one \in 1..(Len(s) + 1) /\ p \in (one - 1)..Len(s) /\ n \in p..Len(s)
  BY <1>1
<1> HIDE DEF one, n
<1>3. SubSeq(s, one, p) \o SubSeq(s, p + 1, n) = SubSeq(s, one, n)
  BY <1>2, ConcatAdjacentSubSeq
<1>4. QED
  BY <1>3 DEF one, n

LEMMA FillsKeeps ==
    ASSUME TransfersIInv, NEW k, NEW r, Reading(k, r), Fills(deal, rd)
    PROVE  TransfersIInv'
<1> DEFINE d == deal
           p == rd.position
           t == d.text
           n == Len(t)
           u == Understood(SubSeq(wire, 1, k))
<1>0. /\ d \in Jobs /\ t \in Seq(ByteValues) /\ n \in Nat /\ d.limit \in Nat /\ Payload(d) = t
      /\ p \in 0..n /\ rd.buffer = SubSeq(t, 1, p) /\ rd.want = d.limit /\ d.kind = "full" /\ rd.at = "full"
      /\ p <= d.limit /\ p \in Nat
  <2>1. d \in Jobs /\ d.kind = "full" /\ rd.at = "full" /\ rd.want = d.limit /\ Has(rd, t) /\ p <= d.limit
    BY DEF Fills, TransfersIInv
  <2>2. t \in Seq(ByteValues) /\ n \in Nat /\ d.limit \in Nat /\ Payload(d) = t
    BY <2>1, JobFacts, PayloadFacts
  <2>3. QED
    BY <2>1, <2>2 DEF Has
<1>1. u = SubSeq(t, p + 1, p + k) /\ p + k <= n /\ k \in Nat /\ k > 0
  BY <1>0, Understands
<1>2. Len(rd.buffer) = p /\ p + k \in 0..n
  BY <1>0, <1>1, FrontFacts
<1>3. rd.buffer \o u = SubSeq(t, 1, p + k) /\ Len(SubSeq(t, 1, p + k)) = p + k
  <2>1. SubSeq(t, 1, p) \o SubSeq(t, p + 1, p + k) = SubSeq(t, 1, p + k)
    BY <1>0, <1>1, Grows
  <2>2. Len(SubSeq(t, 1, p + k)) = p + k
    BY <1>0, <1>2, FrontFacts
  <2> HIDE DEF u
  <2>3. QED
    BY <1>0, <1>1, <2>1, <2>2
<1>4. p + k <= d.limit
  <2>1. k <= rd.want - Len(rd.buffer)
    BY DEF Reading
  <2>2. QED
    BY <1>0, <1>1, <1>2, <2>1
<1>5. /\ r = [at |-> "full", want |-> d.limit, buffer |-> SubSeq(t, 1, p + k), out |-> rd.out, position |-> p + k,
              result |-> "going"]
      /\ rd' = (IF Len(r.buffer) = r.want THEN NextStage(r, d) ELSE r)
  BY <1>0, <1>3 DEF Reading
<1>6. /\ deal' = d /\ wr' = wr /\ over' = over /\ wire' \in Seq(Loads(d)) /\ IsReader(r)
  BY ReadingFacts DEF Reading
<1> HIDE DEF u
<1>7. CASE p + k = d.limit
  <2>1. rd' = Gives(r, SubSeq(t, 1, p + k))
    <3>1. Len(r.buffer) = r.want /\ r.at = "full" /\ r.buffer = SubSeq(t, 1, p + k)
      BY <1>3, <1>5, <1>7
    <3>2. rd' = NextStage(r, d)
      BY <1>5, <3>1
    <3>3. NextStage(r, d) = Gives(r, r.buffer)
      BY <3>1 DEF NextStage
    <3>4. QED
      BY <3>1, <3>2, <3>3
  <2>2. Least(d.limit, n) = p + k
    BY <1>0, <1>1, <1>7 DEF Least
  <2>3. AsPromised(d, SubSeq(t, 1, p + k))
    BY <1>0, <1>1, <1>3, <1>7, <2>2 DEF AsPromised, Promised
  <2>4. ReaderAsGiven' /\ rd'.at = "over"
    BY <1>6, <2>1, <2>3, GivesFairly
  <2>5. QED
    BY <1>6, <2>4, OverIsOver
<1>8. CASE p + k # d.limit
  <2>1. rd' = r
    BY <1>3, <1>5, <1>8
  <2>2. Fills(d, r)
    BY <1>0, <1>2, <1>4, <1>5, <1>8 DEF Fills, Has
  <2>3. r.at = "full" /\ r.result = "going" /\ r.position = p + k
    BY <1>5
  <2>4. ReaderAsGiven'
    <3>1. Fills(deal, rd)'
      BY <1>6, <2>1, <2>2 DEF Fills, Has
    <3>2. QED
      BY <1>6, <2>1, <2>3, <3>1 DEF ReaderAsGiven, IsReader
  <2>5. ReadUpTo(d, rd') = ReadUpTo(d, rd) + k
    BY <1>0, <1>1, <2>1, <2>3 DEF ReadUpTo, Ahead
  <2>6. QED
    BY <2>4, <2>5, KeepsGoing
<1>9. QED
  BY <1>7, <1>8

\* The length of a string.
LEMMA MeasuresKeeps ==
    ASSUME TransfersIInv, NEW k, NEW r, Reading(k, r), Measures(deal, rd)
    PROVE  TransfersIInv'
<1> DEFINE d == deal
           p == rd.position
           t == Payload(d)
           n == Len(t)
           u == Understood(SubSeq(wire, 1, k))
           b == SubSeq(t, 1, p + k)
           m == Len(d.text)
<1>0. /\ d \in Jobs /\ t \in Seq(ByteValues) /\ n \in Nat /\ d.limit \in Nat /\ Width \in Nat /\ m \in Nat
      /\ p \in 0..n /\ rd.buffer = SubSeq(t, 1, p) /\ rd.want = Width /\ d.kind = "string" /\ rd.at = "length"
      /\ p < Width /\ p \in Nat
  <2>1. d \in Jobs /\ d.kind = "string" /\ rd.at = "length" /\ rd.want = Width /\ Has(rd, t) /\ p < Width
    BY DEF Measures, TransfersIInv
  <2>2. t \in Seq(ByteValues) /\ n \in Nat /\ d.limit \in Nat /\ Width \in Nat /\ m \in Nat
    BY <2>1, JobFacts, PayloadFacts, TransfersNumbers
  <2>3. QED
    BY <2>1, <2>2 DEF Has
<1>1. u = SubSeq(t, p + 1, p + k) /\ p + k <= n /\ k \in Nat /\ k > 0
  BY <1>0, Understands
<1>2. Len(rd.buffer) = p /\ p + k \in 0..n
  BY <1>0, <1>1, FrontFacts
<1>3. rd.buffer \o u = b /\ Len(b) = p + k
  <2>1. SubSeq(t, 1, p) \o SubSeq(t, p + 1, p + k) = b
    BY <1>0, <1>1, Grows
  <2>2. Len(b) = p + k
    BY <1>0, <1>2, FrontFacts
  <2> HIDE DEF u, t, b
  <2>3. QED
    BY <1>0, <1>1, <2>1, <2>2
<1>4. p + k <= Width
  <2>1. k <= rd.want - Len(rd.buffer)
    BY DEF Reading
  <2>2. QED
    BY <1>0, <1>1, <1>2, <2>1
<1> HIDE DEF b, u
<1>5. /\ r = [at |-> "length", want |-> Width, buffer |-> b, out |-> rd.out, position |-> p + k, result |-> "going"]
      /\ rd' = (IF Len(r.buffer) = r.want THEN NextStage(r, d) ELSE r)
  BY <1>0, <1>3 DEF Reading, u
<1>6. deal' = d /\ wr' = wr /\ over' = over /\ wire' \in Seq(Loads(d)) /\ IsReader(r)
  BY ReadingFacts DEF Reading
<1>7. CASE p + k = Width
  <2>0. ~Desynced(d)
    <3>1. n > 0
      BY <1>0, <1>1
    <3>2. QED
      BY <1>0, <3>1, PayloadFacts
  <2>1. Value(b) = m
    BY <1>0, <1>7, <2>0, PayloadFacts DEF b
  <2>2. rd' = NextStage(r, d) /\ r.at = "length" /\ r.buffer = b
    BY <1>3, <1>5, <1>7
  <2>3. NextStage(r, d) = IF m > d.limit THEN Fails(r) ELSE IF m = 0 THEN Gives(r, <<>>) ELSE Awaits(r, "data", m)
    BY <2>1, <2>2 DEF NextStage
  <2>a. ~ (m > Most) /\ Most \in Int
    <3>1. Numbers[Width] \in Nat
      BY <1>0, NumbersFacts
    <3>2. QED
      BY <1>0, <2>0, <3>1 DEF Desynced, Most
  <2>4. CASE m > d.limit
    <3>1. Promised(d) = {}
      BY <1>0, <2>4, <2>a DEF Promised, Least
    <3>2. Excused(d, wr) /\ rd' = Fails(r)
      BY <2>2, <2>3, <2>4, <3>1 DEF Excused
    <3>3. ReaderAsGiven' /\ rd'.at = "over"
      BY <1>6, <3>2, FailsFairly
    <3>4. QED
      BY <1>6, <3>3, OverIsOver
  <2>5. CASE ~ (m > d.limit) /\ m = 0
    <3>1. d.text = <<>>
      BY <1>0, <2>5, JobFacts, EmptySeq
    <3>2. m <= Least(d.limit, Most)
      BY <1>0, <2>5, <2>a DEF Least
    <3>3. AsPromised(d, <<>>) /\ rd' = Gives(r, <<>>)
      BY <1>0, <2>2, <2>3, <2>5, <3>1, <3>2 DEF AsPromised, Promised
    <3>4. ReaderAsGiven' /\ rd'.at = "over"
      BY <1>6, <3>3, GivesFairly
    <3>5. QED
      BY <1>6, <3>4, OverIsOver
  <2>6. CASE ~ (m > d.limit) /\ m # 0
    <3>1. rd' = Awaits(r, "data", m)
      BY <2>2, <2>3, <2>6
    <3>2. rd' = [at |-> "data", want |-> m, buffer |-> <<>>, out |-> rd.out, position |-> Width, result |-> "going"]
      <4>1. Awaits(r, "data", m) = [at |-> "data", want |-> m, buffer |-> <<>>, out |-> r.out, position |-> r.position,
                                    result |-> r.result]
        BY <1>6, ReaderRecords
      <4>2. r.out = rd.out /\ r.position = Width /\ r.result = "going"
        BY <1>5, <1>7
      <4>3. QED
        BY <3>1, <4>1, <4>2
    <3>3. Width - Width = 0 /\ SubSeq(d.text, 1, 0) = <<>>
      BY <1>0, SubSeqEmpty
    <3>4. Gathers(deal, rd)'
      <4>1. Desynced(deal)' = Desynced(d)
        BY <1>6 DEF Desynced, Most
      <4>2. rd'.at = "data" /\ rd'.want = m /\ rd'.buffer = <<>> /\ rd'.position = Width
        BY <3>2
      <4>3. QED
        BY <1>0, <1>6, <2>0, <2>6, <3>3, <4>1, <4>2 DEF Gathers
    <3>5. ReaderAsGiven'
      <4>1. rd'.at = "data" /\ rd'.result = "going"
        BY <3>2
      <4>2. rd' = [at |-> rd'.at, want |-> rd'.want, buffer |-> rd'.buffer, out |-> rd'.out, position |-> rd'.position,
                   result |-> rd'.result]
        BY <3>2
      <4>3. QED
        BY <3>4, <4>1, <4>2 DEF ReaderAsGiven
    <3>6. ReadUpTo(d, rd') = ReadUpTo(d, rd) + k
      <4>1. rd'.at = "data" /\ rd'.position = p + k
        BY <1>7, <3>2
      <4>2. QED
        BY <1>0, <1>1, <4>1 DEF ReadUpTo, Ahead
    <3>7. QED
      BY <3>5, <3>6, KeepsGoing
  <2>7. QED
    BY <2>4, <2>5, <2>6
<1>8. CASE p + k # Width
  <2>1. rd' = r
    BY <1>3, <1>5, <1>8
  <2>2. r.at = "length" /\ r.result = "going" /\ r.position = p + k /\ r.want = Width /\ r.buffer = b
    BY <1>5
  <2>3. Measures(d, r)
    BY <1>0, <1>2, <1>4, <1>8, <2>2 DEF Measures, Has, b
  <2>4. ReaderAsGiven'
    <3>1. Measures(deal, rd)'
      BY <1>6, <2>1, <2>3 DEF Measures, Has, Payload, Desynced, Most
    <3>2. QED
      BY <1>6, <2>1, <2>2, <3>1 DEF ReaderAsGiven, IsReader
  <2>5. ReadUpTo(d, rd') = ReadUpTo(d, rd) + k
    BY <1>0, <1>1, <2>1, <2>2 DEF ReadUpTo, Ahead
  <2>6. QED
    BY <2>4, <2>5, KeepsGoing
<1>9. QED
  BY <1>7, <1>8

\* The data of a string, behind their length.
LEMMA GathersKeeps ==
    ASSUME TransfersIInv, NEW k, NEW r, Reading(k, r), Gathers(deal, rd)
    PROVE  TransfersIInv'
<1> DEFINE d == deal
           p == rd.position
           q == p - Width
           t == d.text
           m == Len(t)
           u == Understood(SubSeq(wire, 1, k))
           v == SubSeq(t, q + 1, q + k)
           b == SubSeq(t, 1, q + k)
           all == Payload(d)
<1>0. /\ d \in Jobs /\ t \in Seq(ByteValues) /\ m \in Nat /\ d.limit \in Nat /\ Width \in Nat /\ p \in Nat
      /\ q \in 0..m /\ q < m /\ q \in Nat /\ rd.buffer = SubSeq(t, 1, q) /\ rd.want = m
      /\ d.kind = "string" /\ rd.at = "data" /\ ~Desynced(d) /\ m <= d.limit
  <2>1. /\ d \in Jobs /\ d.kind = "string" /\ rd.at = "data" /\ ~Desynced(d) /\ m <= d.limit /\ rd.want = m
        /\ q \in 0..(m - 1) /\ p \in Nat /\ rd.buffer = SubSeq(t, 1, q)
    BY DEF Gathers, TransfersIInv
  <2>2. t \in Seq(ByteValues) /\ m \in Nat /\ d.limit \in Nat /\ Width \in Nat
    BY <2>1, JobFacts, TransfersNumbers
  <2> HIDE DEF q, m
  <2>3. q \in 0..m /\ q < m /\ q \in Nat
    BY <2>1, <2>2
  <2>4. QED
    BY <2>1, <2>2, <2>3
<1>1. u = SubSeq(all, p + 1, p + k) /\ p + k <= Len(all) /\ k \in Nat /\ k > 0
  BY <1>0, Understands
<1>2. Len(all) = Width + m /\ \A i \in 1..m : all[Width + i] = t[i]
  BY <1>0, PayloadFacts
<1>3. q + k \in 0..m /\ Len(rd.buffer) = q /\ p = Width + q
  <2>1. Len(rd.buffer) = q
    BY <1>0, FrontFacts
  <2>2. p = Width + q
    BY <1>0
  <2> DEFINE len == Len(all)
  <2>3. p + k <= len /\ len = Width + m
    BY <1>1, <1>2
  <2> HIDE DEF q, m, p, len
  <2>4. q + k \in 0..m
    BY <1>0, <1>1, <2>2, <2>3
  <2>5. QED
    BY <2>1, <2>2, <2>4
<1>4. u = v
  <2> HIDE DEF q, m, p, t, all
  <2>1. \A i \in (q + 1)..(q + k) : t[i] \in ByteValues
    BY <1>0, <1>1, <1>3, ElementOfSeq DEF m
  <2>2. \A i \in (p + 1)..(p + k) : all[i] \in ByteValues
    <3>1. all \in Seq(ByteValues)
      BY <1>0, PayloadFacts DEF all
    <3>2. QED
      BY <1>0, <1>1, <1>3, <3>1, ElementOfSeq
  <2> DEFINE w == SubSeq(all, p + 1, p + k)
  <2>3. /\ v \in Seq(ByteValues) /\ Len(v) = (IF q + 1 <= q + k THEN q + k - (q + 1) + 1 ELSE 0)
        /\ \A i \in 1..(q + k - (q + 1) + 1) : v[i] = t[(q + 1) + i - 1]
    BY <1>0, <1>1, <2>1, SubSeqProperties
  <2>4. /\ w \in Seq(ByteValues) /\ Len(w) = (IF p + 1 <= p + k THEN p + k - (p + 1) + 1 ELSE 0)
        /\ \A i \in 1..(p + k - (p + 1) + 1) : w[i] = all[(p + 1) + i - 1]
    BY <1>0, <1>1, <2>2, SubSeqProperties
  <2> HIDE DEF v, w
  <2>5. Len(v) = k /\ Len(w) = k
    <3>1. q \in Nat /\ p \in Nat /\ k \in Nat
      BY <1>0, <1>1, Zenon
    <3>2. Len(v) = k
      BY <2>3, <3>1
    <3>3. Len(w) = k
      BY <2>4, <3>1
    <3>4. QED
      BY <3>2, <3>3
  <2>6. ASSUME NEW i \in 1..k PROVE v[i] = w[i]
    <3>0. q \in Nat /\ p \in Nat /\ k \in Nat
      BY <1>0, <1>1, Zenon
    <3>a. /\ i \in 1..(q + k - (q + 1) + 1) /\ (q + 1) + i - 1 = q + i
          /\ i \in 1..(p + k - (p + 1) + 1) /\ (p + 1) + i - 1 = p + i
      BY <3>0
    <3>1. v[i] = t[q + i]
      BY <2>3, <3>a
    <3>2. w[i] = all[p + i]
      BY <2>4, <3>a
    <3>3. p + i = Width + (q + i) /\ q + i \in 1..m
      BY <1>0, <1>1, <1>3
    <3>4. QED
      BY <1>2, <3>1, <3>2, <3>3
  <2>7. v = w
    BY <2>3, <2>4, <2>5, <2>6, SeqEqual
  <2>8. QED
    BY <1>1, <2>7 DEF w
<1>5. rd.buffer \o u = b /\ Len(b) = q + k
  <2> HIDE DEF q, u
  <2>1. SubSeq(t, 1, q) \o v = b
    BY <1>0, <1>1, <1>3, Grows, SMTT(30)
  <2>2. Len(b) = q + k
    BY <1>0, <1>3, FrontFacts
  <2> HIDE DEF v, b
  <2>3. QED
    BY <1>0, <1>4, <2>1, <2>2
<1> HIDE DEF b, u, v
<1>6. /\ r = [at |-> "data", want |-> m, buffer |-> b, out |-> rd.out, position |-> p + k, result |-> "going"]
      /\ rd' = (IF Len(r.buffer) = r.want THEN NextStage(r, d) ELSE r)
  BY <1>0, <1>5 DEF Reading, u
<1>7. deal' = d /\ wr' = wr /\ over' = over /\ wire' \in Seq(Loads(d)) /\ IsReader(r)
  BY ReadingFacts DEF Reading
<1>8. CASE q + k = m
  <2>1. rd' = Gives(r, b)
    <3>1. Len(r.buffer) = r.want /\ r.at = "data" /\ r.buffer = b
      BY <1>5, <1>6, <1>8
    <3>2. NextStage(r, d) = Gives(r, r.buffer)
      BY <3>1 DEF NextStage
    <3>3. QED
      BY <1>6, <3>1, <3>2
  <2>2. b = t
    BY <1>0, <1>8, SubSeqFull DEF b
  <2>3. m <= Least(d.limit, Most)
    <3>1. Numbers[Width] \in Nat
      BY <1>0, NumbersFacts
    <3>2. Most \in Int /\ ~ (m > Most)
      BY <1>0, <3>1 DEF Desynced, Most
    <3>3. QED
      BY <1>0, <3>2 DEF Least
  <2>4. AsPromised(d, b)
    BY <1>0, <2>2, <2>3 DEF AsPromised, Promised
  <2>5. ReaderAsGiven' /\ rd'.at = "over"
    BY <1>7, <2>1, <2>4, GivesFairly
  <2>6. QED
    BY <1>7, <2>5, OverIsOver
<1>9. CASE q + k # m
  <2>1. rd' = r
    BY <1>5, <1>6, <1>9
  <2>2. r.at = "data" /\ r.result = "going" /\ r.position = p + k /\ r.want = m /\ r.buffer = b
    BY <1>6
  <2>3. (p + k) - Width = q + k /\ q + k \in 0..(m - 1) /\ p + k \in Nat
    <3> HIDE DEF q, m, p
    <3>1. (p + k) - Width = q + k /\ p + k \in Nat
      BY <1>0, <1>1, <1>3
    <3>2. q + k \in 0..(m - 1)
      BY <1>0, <1>1, <1>3, <1>9
    <3>3. QED
      BY <3>1, <3>2 DEF p
  <2>4. Gathers(deal, rd)'
    <3>1. Desynced(deal)' = Desynced(d)
      BY <1>7 DEF Desynced, Most
    <3>2. QED
      BY <1>0, <1>7, <2>1, <2>2, <2>3, <3>1 DEF Gathers, b
  <2>5. ReaderAsGiven'
    BY <1>7, <2>1, <2>2, <2>4 DEF ReaderAsGiven, IsReader
  <2>6. ReadUpTo(d, rd') = ReadUpTo(d, rd) + k
    BY <1>0, <1>1, <2>1, <2>2 DEF ReadUpTo, Ahead
  <2>7. QED
    BY <2>5, <2>6, KeepsGoing
<1>10. QED
  BY <1>8, <1>9

\* The greeting: the first vector, then the header under the common key.
LEMMA GreetsKeeps ==
    ASSUME TransfersIInv, NEW k, NEW r, Reading(k, r), Greets(deal, rd)
    PROVE  TransfersIInv'
<1> DEFINE d == deal
           s == SubSeq(wire, 1, k)
           u == Understood(s)
           b == rd.buffer \o u
<1>0. /\ d \in Jobs /\ d.layer = "aes" /\ rd.want = 1 /\ rd.buffer = <<>> /\ rd.out = <<>>
      /\ wire \in Seq(Loads(d)) /\ Ahead(d) = 2
  BY DEF Greets, TransfersIInv, WriterType, Ahead
<1>1. k = 1 /\ Len(wire) \in Nat /\ Len(wire) > 0
  <2>1. Len(rd.buffer) = 0
    BY <1>0
  <2>2. k \in 1..Len(wire) /\ k <= rd.want - Len(rd.buffer) /\ Len(wire) \in Nat
    BY <1>0 DEF Reading
  <2>3. QED
    BY <1>0, <2>1, <2>2
<1>2. Len(s) = 1 /\ s[1] = wire[1]
  <2>1. 1 \in 0..Len(wire)
    BY <1>1
  <2> DEFINE one == 1
  <2>2. one \in 0..Len(wire) /\ one = 1 /\ s = SubSeq(wire, 1, one)
    BY <1>1, <2>1
  <2> HIDE DEF one, s
  <2>3. Len(s) = one /\ \A i \in 1..one : s[i] = wire[i]
    BY <1>0, <2>2, FrontFacts
  <2>4. QED
    BY <2>2, <2>3
<1>a. DOMAIN s = 1..1
  <2>1. k \in 0..Len(wire)
    BY <1>1
  <2>2. s \in Seq(Loads(d))
    BY <1>0, <2>1, FrontFacts
  <2>3. QED
    BY <1>2, <2>2
<1>3. wire[1] = Carried(d, ReadUpTo(d, rd) + 1)
  <2>1. \A i \in 1..Len(wire) : wire[i] = Carried(d, ReadUpTo(d, rd) + i)
    BY ReadingFacts
  <2>2. 1 \in 1..Len(wire)
    BY <1>1
  <2>3. QED
    BY <2>1, <2>2
<1>4. /\ r = [at |-> rd.at, want |-> 1, buffer |-> b, out |-> <<>>, position |-> rd.position + 1, result |-> "going"]
      /\ rd' = (IF Len(r.buffer) = r.want THEN NextStage(r, d) ELSE r)
  BY <1>0, <1>1 DEF Reading
<1>5. deal' = d /\ wr' = wr /\ over' = over /\ wire' \in Seq(Loads(d)) /\ IsReader(r)
  BY ReadingFacts DEF Reading
<1>6. CASE rd.at = "vector"
  <2>1. rd.position = 0
    BY <1>6 DEF Greets
  <2>2. u = [i \in 1..1 |-> s[i].byte]
    BY <1>a, <1>6 DEF Understood
  <2>3. b = u /\ Len(b) = 1
    BY <1>0, <2>2
  <2> HIDE DEF b, u
  <2>4. rd' = Awaits(r, "header", 1)
    <3>1. Len(r.buffer) = r.want /\ r.at = "vector"
      BY <1>4, <1>6, <2>3
    <3>2. NextStage(r, d) = Awaits(r, "header", 1)
      BY <3>1 DEF NextStage
    <3>3. QED
      BY <1>4, <3>1, <3>2
  <2>5. rd' = [at |-> "header", want |-> 1, buffer |-> <<>>, out |-> <<>>, position |-> 1, result |-> "going"]
    <3> DEFINE one == 1
    <3>1. Awaits(r, "header", one) = [at |-> "header", want |-> one, buffer |-> <<>>, out |-> r.out,
                                      position |-> r.position, result |-> r.result]
      BY <1>5, ReaderRecords
    <3>2. r.out = <<>> /\ r.position = 1 /\ r.result = "going"
      BY <1>4, <2>1
    <3>3. QED
      BY <2>4, <3>1, <3>2
  <2>6. /\ rd'.at = "header" /\ rd'.want = 1 /\ rd'.buffer = <<>> /\ rd'.out = <<>> /\ rd'.position = 1
        /\ rd'.result = "going"
        /\ rd' = [at |-> rd'.at, want |-> rd'.want, buffer |-> rd'.buffer, out |-> rd'.out, position |-> rd'.position,
                  result |-> rd'.result]
    BY <2>5
  <2>7. ReaderAsGiven'
    BY <1>0, <1>5, <2>6 DEF ReaderAsGiven, Greets
  <2>8. ReadUpTo(d, rd') = ReadUpTo(d, rd) + k
    BY <1>1, <1>6, <2>1, <2>6 DEF ReadUpTo
  <2>9. QED
    BY <2>7, <2>8, KeepsGoing
<1>7. CASE rd.at = "header"
  <2>1. rd.position = 1
    BY <1>7 DEF Greets
  <2>2. u = [i \in 1..1 |-> IF s[i].key = "common" THEN s[i].byte ELSE "noise"]
    BY <1>a, <1>7 DEF Understood
  <2>3. wire[1] = [byte |-> "IHDR", key |-> d.key]
    <3>1. ReadUpTo(d, rd) + 1 = 2
      BY <1>7, <2>1 DEF ReadUpTo
    <3>2. Carried(d, 2) = Greeting(d)[2]
      BY <1>0 DEF Carried
    <3>3. Greeting(d)[2] = [byte |-> "IHDR", key |-> d.key]
      BY <1>0 DEF Greeting
    <3>4. QED
      BY <1>3, <3>1, <3>2, <3>3
  <2>4. b = <<IF d.key = "common" THEN "IHDR" ELSE "noise">> /\ Len(b) = 1
    <3> DEFINE x == IF d.key = "common" THEN "IHDR" ELSE "noise"
    <3> HIDE DEF s
    <3>1. s[1].key = d.key /\ s[1].byte = "IHDR"
      BY <1>2, <2>3
    <3>2. u = [i \in 1..1 |-> x]
      BY <2>2, <3>1
    <3> HIDE DEF x, u
    <3>3. u = <<x>>
      BY <3>2
    <3>4. b = u
      BY <1>0, <3>3
    <3>5. QED
      BY <3>3, <3>4 DEF x
  <2> HIDE DEF b, u
  <2> DEFINE zeroed == [r EXCEPT !.position = 0]
             stage == FirstOfKind(d)
             want == Wants(FirstOfKind(d), d)
  <2>5. rd' = IF b = <<"IHDR">> THEN Awaits(zeroed, stage, want) ELSE Fails(r)
    <3>1. Len(r.buffer) = r.want /\ r.at = "header" /\ r.buffer = b
      BY <1>4, <1>7, <2>4
    <3>2. NextStage(r, d) = IF r.buffer = <<"IHDR">> THEN Awaits(zeroed, stage, want) ELSE Fails(r)
      BY <3>1 DEF NextStage
    <3>3. QED
      BY <1>4, <3>1, <3>2
  <2>6. CASE d.key # "common"
    <3>1. b # <<"IHDR">>
      BY <2>4, <2>6
    <3>2. rd' = Fails(r) /\ Excused(d, wr)
      BY <1>0, <2>5, <2>6, <3>1 DEF Excused
    <3>3. ReaderAsGiven' /\ rd'.at = "over"
      BY <1>5, <3>2, FailsFairly
    <3>4. QED
      BY <1>5, <3>3, OverIsOver
  <2>7. CASE d.key = "common"
    <3>1. rd' = Awaits(zeroed, stage, want)
      BY <2>4, <2>5, <2>7
    <3>2. zeroed = [at |-> r.at, want |-> 1, buffer |-> b, out |-> <<>>, position |-> 0, result |-> "going"]
      BY <1>4
    <3> HIDE DEF zeroed, stage, want
    <3>3. IsReader(zeroed)
      BY <3>2 DEF IsReader
    <3>4. rd' = [at |-> stage, want |-> want, buffer |-> <<>>, out |-> <<>>, position |-> 0, result |-> "going"]
      <4>1. Awaits(zeroed, stage, want) = [at |-> stage, want |-> want, buffer |-> <<>>, out |-> zeroed.out,
                                          position |-> zeroed.position, result |-> zeroed.result]
        BY <3>3, ReaderRecords
      <4>2. zeroed.out = <<>> /\ zeroed.position = 0 /\ zeroed.result = "going"
        BY <3>2
      <4>3. QED
        BY <3>1, <4>1, <4>2
    <3>5. /\ rd'.at = stage /\ rd'.want = want /\ rd'.buffer = <<>> /\ rd'.out = <<>> /\ rd'.position = 0
          /\ rd'.result = "going"
          /\ rd' = [at |-> rd'.at, want |-> rd'.want, buffer |-> rd'.buffer, out |-> rd'.out,
                    position |-> rd'.position, result |-> rd'.result]
      BY <3>4
    <3>6. Fills(d, rd') \/ Measures(d, rd') \/ Searches(d, rd')
      BY <1>0, <3>5, StartsReading DEF stage, want
    <3>7. Fills(deal, rd)' \/ Measures(deal, rd)' \/ Searches(deal, rd)'
      BY <1>5, <3>6 DEF Fills, Measures, Searches, Has, Payload, Desynced, Most, DelimAt, Whole
    <3>8. stage \in {"full", "length", "delimited"}
      BY <1>0, JobFacts DEF stage, FirstOfKind
    <3>9. ReaderAsGiven'
      BY <3>5, <3>7, <3>8 DEF ReaderAsGiven
    <3>10. ReadUpTo(d, rd') = ReadUpTo(d, rd) + k
      BY <1>0, <1>1, <1>7, <2>1, <3>5, <3>8 DEF ReadUpTo
    <3>11. QED
      BY <3>9, <3>10, KeepsGoing
  <2>8. QED
    BY <2>6, <2>7
<1>8. QED
  BY <1>6, <1>7 DEF Greets

\* A sequence that ends in another.
LEMMA SuffixFacts ==
    ASSUME NEW S, NEW s \in Seq(S), NEW t \in Seq(S)
    PROVE  IsSuffix(s, t) <=> Len(s) <= Len(t) /\ SubSeq(t, Len(t) - Len(s) + 1, Len(t)) = s
<1> DEFINE m == Len(s)
           n == Len(t)
           rs == Reverse(s)
           rt == Reverse(t)
           e == SubSeq(t, n - m + 1, n)
<1>0. m \in Nat /\ n \in Nat
  OBVIOUS
<1>1. rs = [i \in 1..m |-> s[m - i + 1]] /\ rt = [i \in 1..n |-> t[n - i + 1]]
  BY DEF Reverse
<1>2. (\A i \in 1..m : s[m - i + 1] \in S) /\ (\A i \in 1..n : t[n - i + 1] \in S)
  <2>1. ASSUME NEW i \in 1..m PROVE s[m - i + 1] \in S
    <3>1. m - i + 1 \in 1..m
      BY <1>0
    <3>2. QED
      BY <3>1, ElementOfSeq
  <2>2. ASSUME NEW i \in 1..n PROVE t[n - i + 1] \in S
    <3>1. n - i + 1 \in 1..n
      BY <1>0
    <3>2. QED
      BY <3>1, ElementOfSeq
  <2>3. QED
    BY <2>1, <2>2
<1>3. rs \in Seq(S) /\ Len(rs) = m /\ rt \in Seq(S) /\ Len(rt) = n
  BY <1>0, <1>1, <1>2
<1>4. IsSuffix(s, t) <=> m <= n /\ SubSeq(rs, 1, m) = SubSeq(rt, 1, m)
  BY <1>3 DEF IsSuffix, IsPrefix
<1> HIDE DEF rs, rt
<1>5. CASE m <= n
  <2>1. m \in 0..Len(rs) /\ m \in 0..Len(rt)
    BY <1>0, <1>3, <1>5
  <2> DEFINE fs == SubSeq(rs, 1, m)
             ft == SubSeq(rt, 1, m)
  <2>2. fs \in Seq(S) /\ Len(fs) = m /\ \A i \in 1..m : fs[i] = rs[i]
    BY <1>3, <2>1, FrontFacts
  <2>3. ft \in Seq(S) /\ Len(ft) = m /\ \A i \in 1..m : ft[i] = rt[i]
    BY <1>3, <2>1, FrontFacts
  <2>4. e \in Seq(S) /\ Len(e) = m /\ \A i \in 1..m : e[i] = t[n - m + i]
    <3>1. \A i \in (n - m + 1)..n : t[i] \in S
      BY <1>0, <1>5, ElementOfSeq
    <3>2. /\ e \in Seq(S) /\ Len(e) = (IF n - m + 1 <= n THEN n - (n - m + 1) + 1 ELSE 0)
          /\ \A i \in 1..(n - (n - m + 1) + 1) : e[i] = t[(n - m + 1) + i - 1]
      BY <1>0, <1>5, <3>1, SubSeqProperties
    <3> HIDE DEF e, m, n
    <3>3. n - (n - m + 1) + 1 = m
      BY <1>0
    <3>4. Len(e) = m
      BY <1>0, <3>2
    <3>5. ASSUME NEW i \in 1..m PROVE e[i] = t[n - m + i]
      <4>1. (n - m + 1) + i - 1 = n - m + i
        BY <1>0
      <4>2. QED
        BY <3>2, <3>3, <4>1
    <3>6. QED
      BY <3>2, <3>4, <3>5
  <2> HIDE DEF fs, ft, e
  <2>5. fs = ft <=> \A i \in 1..m : rs[i] = rt[i]
    BY <2>2, <2>3, SeqEqual
  <2>6. e = s <=> \A i \in 1..m : t[n - m + i] = s[i]
    BY <2>4, SeqEqual
  <2> HIDE DEF m, n
  <2>7. (\A i \in 1..m : rs[i] = rt[i]) => \A i \in 1..m : t[n - m + i] = s[i]
    <3> SUFFICES ASSUME \A i \in 1..m : rs[i] = rt[i], NEW i \in 1..m PROVE t[n - m + i] = s[i]
      OBVIOUS
    <3> DEFINE j == m - i + 1
    <3>1. j \in 1..m /\ j \in 1..n /\ m - j + 1 = i /\ n - j + 1 = n - m + i
      BY <1>0, <1>5
    <3>2. rs[j] = s[m - j + 1] /\ rt[j] = t[n - j + 1] /\ rs[j] = rt[j]
      BY <1>1, <3>1
    <3>3. QED
      BY <3>1, <3>2
  <2>8. (\A i \in 1..m : t[n - m + i] = s[i]) => \A i \in 1..m : rs[i] = rt[i]
    <3> SUFFICES ASSUME \A i \in 1..m : t[n - m + i] = s[i], NEW i \in 1..m PROVE rs[i] = rt[i]
      OBVIOUS
    <3> DEFINE j == m - i + 1
    <3>1. j \in 1..m /\ i \in 1..n /\ n - m + j = n - i + 1
      BY <1>0, <1>5
    <3>2. rs[i] = s[j] /\ rt[i] = t[n - i + 1] /\ t[n - m + j] = s[j]
      BY <1>1, <3>1
    <3>3. QED
      BY <3>1, <3>2
  <2>9. fs = ft <=> e = s
    BY <2>5, <2>6, <2>7, <2>8
  <2>10. QED
    BY <1>4, <1>5, <2>9 DEF fs, ft, e, m, n
<1>6. CASE ~ (m <= n)
  BY <1>4, <1>6
<1>7. QED
  BY <1>5, <1>6

\* The delimiter is found exactly where the text has it.
LEMMA DelimiterFound ==
    ASSUME NEW d \in Jobs, d.kind = "block", NEW n \in 0..Len(d.text)
    PROVE  IsSuffix(d.delim, SubSeq(d.text, 1, n)) <=> Len(d.delim) <= n /\ DelimAt(d, n)
<1> DEFINE t == d.text
           m == Len(d.delim)
           all == SubSeq(t, 1, n)
           low == n - m + 1
<1>1. t \in Seq(ByteValues) /\ d.delim \in Seq(ByteValues) /\ m \in Nat \ {0} /\ n \in Nat /\ Len(t) \in Nat
  BY JobFacts
<1>2. all \in Seq(ByteValues) /\ Len(all) = n
  BY <1>1, FrontFacts
<1>3. IsSuffix(d.delim, all) <=> m <= n /\ SubSeq(all, low, n) = d.delim
  <2> HIDE DEF all
  <2>1. IsSuffix(d.delim, all) <=> m <= Len(all) /\ SubSeq(all, Len(all) - m + 1, Len(all)) = d.delim
    BY <1>1, <1>2, SuffixFacts
  <2>2. QED
    BY <1>2, <2>1
<1>4. m <= n => SubSeq(all, low, n) = SubSeq(t, low, n)
  <2> SUFFICES ASSUME m <= n PROVE SubSeq(all, low, n) = SubSeq(t, low, n)
    OBVIOUS
  <2> DEFINE one == 1
  <2> HIDE DEF m
  <2>1. /\ one \in 1..Len(t) /\ n \in 1..Len(t) /\ low \in 1..(n - one + 1) /\ n \in 1..(n - one + 1)
        /\ one + low - 1 = low /\ one + n - 1 = n
    BY <1>1
  <2>2. all = SubSeq(t, one, n)
    OBVIOUS
  <2> HIDE DEF one, low
  <2>3. SubSeq(SubSeq(t, one, n), low, n) = SubSeq(t, one + low - 1, one + n - 1)
    BY <1>1, <2>1, SubSeqOfSubSeq
  <2>4. QED
    BY <2>1, <2>2, <2>3
<1>5. QED
  BY <1>3, <1>4 DEF DelimAt

\* The search for a delimiter, byte after byte.
LEMMA SearchesKeeps ==
    ASSUME TransfersIInv, NEW k, NEW r, Reading(k, r), Searches(deal, rd), deal.limit >= Block
    PROVE  TransfersIInv'
<1> DEFINE d == deal
           p == rd.position
           n == p + 1
           t == d.text
           u == Understood(SubSeq(wire, 1, k))
           all == SubSeq(t, 1, n)
           m == Len(d.delim)
           whole == Whole(d)
<1>0. /\ d \in Jobs /\ d.kind = "block" /\ rd.at = "delimited" /\ rd.want = 1 /\ rd.buffer = <<>>
      /\ p \in 0..Len(t) /\ rd.out = SubSeq(t, 1, p) /\ p < whole /\ \A i \in m..p : ~DelimAt(d, i)
      /\ t \in Seq(ByteValues) /\ Len(t) \in Nat /\ m \in Nat \ {0} /\ Payload(d) = t /\ p \in Nat /\ n \in Nat
      /\ whole \in Nat /\ Block \in Nat /\ Block > 0 /\ d.limit \in Nat
  <2>1. /\ d \in Jobs /\ d.kind = "block" /\ rd.at = "delimited" /\ rd.want = 1 /\ rd.buffer = <<>>
        /\ p \in 0..Len(t) /\ rd.out = SubSeq(t, 1, p) /\ p < whole /\ \A i \in m..p : ~DelimAt(d, i)
    BY DEF Searches, TransfersIInv
  <2>2. /\ t \in Seq(ByteValues) /\ Len(t) \in Nat /\ m \in Nat \ {0} /\ Payload(d) = t
        /\ whole \in Nat /\ Block \in Nat /\ Block > 0 /\ d.limit \in Nat
    BY <2>1, JobFacts, PayloadFacts, WholeFacts, TransfersNumbers
  <2>3. p \in Nat /\ n \in Nat
    BY <2>1, <2>2
  <2>4. QED
    BY <2>1, <2>2, <2>3
<1>1. k = 1
  <2>1. Len(rd.buffer) = 0
    BY <1>0
  <2>2. k \in 1..Len(wire) /\ k <= rd.want - Len(rd.buffer)
    BY DEF Reading
  <2>3. Len(wire) \in Nat
    BY ReadingFacts
  <2>4. QED
    BY <1>0, <2>1, <2>2, <2>3
<1>a. k \in Nat
  BY <1>1
<1>2. u = SubSeq(t, p + 1, p + k) /\ p + k <= Len(t) /\ n <= Len(t) /\ n \in 0..Len(t)
  <2>1. u = SubSeq(t, p + 1, p + k) /\ p + k <= Len(t)
    BY <1>0, Understands
  <2>2. QED
    BY <1>0, <1>1, <2>1
<1>3. rd.out \o u = all /\ Len(all) = n
  <2>1. SubSeq(t, 1, p) \o SubSeq(t, p + 1, p + k) = SubSeq(t, 1, p + k)
    BY <1>0, <1>a, <1>2, Grows
  <2>2. Len(all) = n
    BY <1>0, <1>2, FrontFacts
  <2> HIDE DEF u
  <2>3. QED
    BY <1>0, <1>1, <1>2, <2>1, <2>2
<1>4. u \in Seq(ByteValues) /\ Len(u) = 1
  <2>1. \A i \in (p + 1)..(p + k) : t[i] \in ByteValues
    <3> SUFFICES ASSUME NEW i \in (p + 1)..(p + k) PROVE t[i] \in ByteValues
      OBVIOUS
    <3>1. i \in 1..Len(t)
      <4>1. p \in Nat /\ Len(t) \in Nat
        BY <1>0, Zenon
      <4>2. p + k <= Len(t)
        BY <1>2, Zenon
      <4>3. QED
        BY <1>a, <4>1, <4>2
    <3>2. QED
      BY <1>0, <3>1, ElementOfSeq
  <2>2. /\ SubSeq(t, p + 1, p + k) \in Seq(ByteValues)
        /\ Len(SubSeq(t, p + 1, p + k)) = IF p + 1 <= p + k THEN p + k - (p + 1) + 1 ELSE 0
    BY <1>0, <1>1, <2>1, SubSeqProperties
  <2> HIDE DEF u
  <2>3. QED
    BY <1>0, <1>1, <1>2, <2>2
<1> HIDE DEF u, all
<1>5. rd.buffer \o u = u
  BY <1>0, <1>4, ConcatEmptySeq
<1>6. /\ r = [at |-> "delimited", want |-> 1, buffer |-> u, out |-> rd.out, position |-> n, result |-> "going"]
      /\ rd' = (IF Len(r.buffer) = r.want THEN NextStage(r, d) ELSE r)
  BY <1>0, <1>1, <1>5 DEF Reading, u
<1>7. deal' = d /\ wr' = wr /\ over' = over /\ wire' \in Seq(Loads(d)) /\ IsReader(r)
  BY ReadingFacts DEF Reading
<1> DEFINE more == [Awaits(r, "delimited", 1) EXCEPT !.out = all]
<1>8. rd' = IF IsSuffix(d.delim, all) THEN Gives(r, all)
            ELSE IF Len(all) % Block = 0 /\ Len(all) + Block > d.limit THEN Fails(r) ELSE more
  <2>1. Len(r.buffer) = r.want /\ r.at = "delimited" /\ r.out \o r.buffer = all
    BY <1>3, <1>4, <1>6
  <2>2. NextStage(r, d) = Delimited(r, d)
    BY <2>1 DEF NextStage
  <2>3. rd' = Delimited(r, d)
    BY <1>6, <2>1, <2>2
  <2>4. QED
    BY <2>1, <2>3 DEF Delimited
<1>9. IsSuffix(d.delim, all) <=> m <= n /\ DelimAt(d, n)
  BY <1>0, <1>2, DelimiterFound DEF all
<1>10. CASE IsSuffix(d.delim, all)
  <2>1. n \in UpToDelim(d)
    <3>1. n \in m..Len(t) /\ n <= whole /\ DelimAt(d, n)
      BY <1>0, <1>2, <1>9, <1>10
    <3>2. QED
      BY <3>1 DEF UpToDelim, Whole, DelimAt
  <2>2. \A i \in UpToDelim(d) : i \in Nat /\ n <= i
    <3> SUFFICES ASSUME NEW i \in UpToDelim(d) PROVE i \in Nat /\ n <= i
      OBVIOUS
    <3>1. i \in m..Len(t) /\ DelimAt(d, i)
      BY DEF UpToDelim, DelimAt
    <3>2. ~ (i \in m..p)
      BY <1>0, <3>1
    <3>3. QED
      BY <1>0, <3>1, <3>2
  <2>3. (CHOOSE i \in UpToDelim(d) : \A j \in UpToDelim(d) : i <= j) = n
    <3> DEFINE z == CHOOSE i \in UpToDelim(d) : \A j \in UpToDelim(d) : i <= j
    <3>1. z \in UpToDelim(d) /\ \A j \in UpToDelim(d) : z <= j
      BY <2>1, <2>2
    <3> HIDE DEF z
    <3>2. z <= n /\ n <= z /\ z \in Nat
      BY <2>1, <2>2, <3>1
    <3>3. z = n
      BY <1>0, <3>2
    <3>4. QED
      BY <3>3 DEF z
  <2>4. Promised(d) = {all}
    <3>1. UpToDelim(d) # {}
      BY <2>1
    <3> DEFINE z == CHOOSE i \in UpToDelim(d) : \A j \in UpToDelim(d) : i <= j
    <3>2. Promised(d) = {SubSeq(d.text, 1, z)}
      BY <1>0, <3>1 DEF Promised
    <3> HIDE DEF z
    <3>3. z = n
      BY <2>3 DEF z
    <3>4. QED
      BY <3>2, <3>3 DEF all
  <2>5. AsPromised(d, all) /\ rd' = Gives(r, all)
    BY <1>0, <1>3, <1>8, <1>10, <2>4 DEF AsPromised
  <2>6. ReaderAsGiven' /\ rd'.at = "over"
    BY <1>7, <2>5, GivesFairly
  <2>7. QED
    BY <1>7, <2>6, OverIsOver
<1>11. CASE ~ IsSuffix(d.delim, all)
  <2>1. \A i \in m..n : ~DelimAt(d, i)
    <3> SUFFICES ASSUME NEW i \in m..n PROVE ~DelimAt(d, i)
      OBVIOUS
    <3>1. CASE i = n
      BY <1>0, <1>9, <1>11, <3>1
    <3>2. CASE i # n
      <4>1. i \in m..p
        BY <1>0, <3>2
      <4>2. QED
        BY <1>0, <4>1
    <3>3. QED
      BY <3>1, <3>2
  <2>2. CASE n % Block = 0 /\ n + Block > d.limit
    <3>1. whole <= n
      BY <1>0, <2>2, WholeFacts
    <3>2. Promised(d) = {}
      BY <1>0, <2>1, <3>1, NoDelimiter
    <3>3. Excused(d, wr) /\ rd' = Fails(r)
      BY <1>3, <1>8, <1>11, <2>2, <3>2 DEF Excused
    <3>4. ReaderAsGiven' /\ rd'.at = "over"
      BY <1>7, <3>3, FailsFairly
    <3>5. QED
      BY <1>7, <3>4, OverIsOver
  <2>3. CASE ~ (n % Block = 0 /\ n + Block > d.limit)
    <3>1. n < whole
      <4>1. n <= whole
        BY <1>0
      <4>2. n # whole
        BY <1>0, <2>3, WholeFacts
      <4>3. QED
        BY <1>0, <4>1, <4>2
    <3>2. rd' = more
      BY <1>3, <1>8, <1>11, <2>3
    <3>3. rd' = [at |-> "delimited", want |-> 1, buffer |-> <<>>, out |-> all, position |-> n, result |-> "going"]
      <4> DEFINE one == 1
                 w == Awaits(r, "delimited", one)
      <4>1. w = [at |-> "delimited", want |-> one, buffer |-> <<>>, out |-> r.out, position |-> r.position,
                 result |-> r.result]
        BY <1>7, ReaderRecords
      <4>2. r.position = n /\ r.result = "going"
        BY <1>6
      <4>3. rd' = [w EXCEPT !.out = all]
        BY <3>2
      <4> HIDE DEF w
      <4>4. QED
        BY <4>1, <4>2, <4>3
    <3>4. /\ rd'.at = "delimited" /\ rd'.want = 1 /\ rd'.buffer = <<>> /\ rd'.out = all /\ rd'.position = n
          /\ rd'.result = "going"
          /\ rd' = [at |-> rd'.at, want |-> rd'.want, buffer |-> rd'.buffer, out |-> rd'.out,
                    position |-> rd'.position, result |-> rd'.result]
      BY <3>3
    <3>5. Searches(d, rd')
      BY <1>0, <1>2, <2>1, <3>1, <3>4 DEF Searches, all
    <3>6. Searches(deal, rd)'
      BY <1>7, <3>5 DEF Searches, DelimAt, Whole
    <3>7. ReaderAsGiven'
      BY <3>4, <3>6 DEF ReaderAsGiven
    <3>8. ReadUpTo(d, rd') = ReadUpTo(d, rd) + k
      BY <1>0, <1>1, <3>4 DEF ReadUpTo, Ahead
    <3>9. QED
      BY <3>7, <3>8, KeepsGoing
  <2>4. QED
    BY <2>2, <2>3
<1>12. QED
  BY <1>10, <1>11

LEMMA ReadSomeKeeps ==
    ASSUME TransfersIInv, ReadSome
    PROVE  TransfersIInv'
<1>0. /\ deal \in Jobs /\ wire \in Seq(Loads(deal)) /\ Len(wire) \in Nat /\ ReaderAsGiven /\ rd.at # "over"
      /\ (rd.at = "delimited" => deal.limit >= Block) /\ Chunk \in Nat
  BY TransfersNumbers DEF TransfersIInv, WriterType, ReadSome
<1>1. PICK k \in 1..Least(Least(Chunk, rd.want - Len(rd.buffer)), Len(wire)) :
         /\ rd' = Filled([rd EXCEPT !.buffer = @ \o Understood(SubSeq(wire, 1, k)), !.position = @ + k])
         /\ wire' = Rest(wire, k)
  BY DEF ReadSome
<1> DEFINE r == [at |-> rd.at, want |-> rd.want, buffer |-> rd.buffer \o Understood(SubSeq(wire, 1, k)), out |-> rd.out,
                 position |-> rd.position + k, result |-> "going"]
<1>2. rd.want - Len(rd.buffer) \in Int
  <2>1. /\ Len(deal.text) \in Nat /\ deal.limit \in Nat /\ Width \in Nat /\ deal.text \in Seq(ByteValues)
        /\ Payload(deal) \in Seq(ByteValues) /\ Len(Payload(deal)) \in Nat
    BY <1>0, JobFacts, PayloadFacts, TransfersNumbers
  <2>2. rd.want \in Nat
    BY <1>0, <2>1 DEF ReaderAsGiven, Greets, Fills, Measures, Gathers, Searches
  <2>3. \E n \in Nat : n = Len(rd.buffer)
    <3>1. CASE rd.buffer = <<>>
      BY <3>1
    <3>2. CASE Fills(deal, rd)
      BY <2>1, <3>2, FrontFacts DEF Fills, Has
    <3>3. CASE Measures(deal, rd)
      BY <2>1, <3>3, FrontFacts DEF Measures, Has
    <3>4. CASE Gathers(deal, rd)
      <4> DEFINE q == rd.position - Width
      <4>1. q \in 0..Len(deal.text) /\ rd.buffer = SubSeq(deal.text, 1, q) /\ q \in Nat
        BY <2>1, <3>4 DEF Gathers
      <4> HIDE DEF q
      <4>2. QED
        BY <2>1, <4>1, FrontFacts
    <3>5. QED
      BY <1>0, <3>1, <3>2, <3>3, <3>4 DEF ReaderAsGiven, Greets, Searches
  <2>4. QED
    BY <2>2, <2>3
<1>3. k \in 1..Len(wire) /\ k <= rd.want - Len(rd.buffer)
  <2> DEFINE left == rd.want - Len(rd.buffer)
  <2>1. k \in 1..Least(Least(Chunk, left), Len(wire))
    BY <1>1
  <2>2. left \in Int
    BY <1>2
  <2> HIDE DEF left
  <2>3. k \in 1..Len(wire) /\ k <= left
    BY <1>0, <2>1, <2>2 DEF Least
  <2>4. QED
    BY <2>3 DEF left
<1>4. [rd EXCEPT !.buffer = @ \o Understood(SubSeq(wire, 1, k)), !.position = @ + k] = r
  <2> DEFINE b == rd.buffer \o Understood(SubSeq(wire, 1, k))
             pos == rd.position + k
             one == [rd EXCEPT !.buffer = b]
  <2>0. /\ rd = [at |-> rd.at, want |-> rd.want, buffer |-> rd.buffer, out |-> rd.out, position |-> rd.position,
                 result |-> rd.result]
        /\ rd.result = "going"
    BY <1>0 DEF ReaderAsGiven
  <2>1. [rd EXCEPT !.buffer = @ \o Understood(SubSeq(wire, 1, k)), !.position = @ + k] = [one EXCEPT !.position = pos]
    OBVIOUS
  <2>2. r = [at |-> rd.at, want |-> rd.want, buffer |-> b, out |-> rd.out, position |-> pos, result |-> "going"]
    OBVIOUS
  <2> HIDE DEF b, pos, r
  <2>3. one = [at |-> rd.at, want |-> rd.want, buffer |-> b, out |-> rd.out, position |-> rd.position,
               result |-> "going"]
    BY <2>0
  <2> HIDE DEF one
  <2>4. [one EXCEPT !.position = pos] = [at |-> rd.at, want |-> rd.want, buffer |-> b, out |-> rd.out,
                                         position |-> pos, result |-> "going"]
    BY <2>3
  <2>5. QED
    BY <2>1, <2>2, <2>4
<1>5. Reading(k, r)
  <2>1. rd' = Filled(r)
    BY <1>1, <1>4
  <2>2. rd' = (IF Len(r.buffer) = r.want THEN NextStage(r, deal) ELSE r)
    BY <2>1 DEF Filled
  <2>3. deal' = deal /\ wr' = wr /\ over' = over
    BY DEF ReadSome
  <2>4. QED
    BY <1>0, <1>1, <1>3, <2>2, <2>3 DEF Reading
<1> HIDE DEF r
<1>6. CASE Greets(deal, rd)
  BY <1>5, <1>6, GreetsKeeps
<1>7. CASE Fills(deal, rd)
  BY <1>5, <1>7, FillsKeeps
<1>8. CASE Measures(deal, rd)
  BY <1>5, <1>8, MeasuresKeeps
<1>9. CASE Gathers(deal, rd)
  BY <1>5, <1>9, GathersKeeps
<1>10. CASE Searches(deal, rd)
  <2>1. deal.limit >= Block
    BY <1>0, <1>10 DEF Searches
  <2>2. QED
    BY <1>5, <1>10, <2>1, SearchesKeeps
<1>11. QED
  BY <1>0, <1>6, <1>7, <1>8, <1>9, <1>10 DEF ReaderAsGiven

LEMMA TransfersStep ==
    ASSUME TransfersIInv, [XNext]_xvars
    PROVE  TransfersIInv'
<1>1. CASE XNext
  BY <1>1, WriteSomeKeeps, WriteFailsKeeps, WriteEndsKeeps, ReadSomeKeeps, ReadEndsKeeps,
     ReadBreaksKeeps, ReadNothingKeeps DEF XNext
<1>2. CASE UNCHANGED xvars
  <2>1. deal' = deal /\ wr' = wr /\ wire' = wire /\ over' = over /\ rd' = rd
    BY <1>2 DEF xvars
  <2>2. /\ Loads(deal)' = Loads(deal) /\ Payload(deal)' = Payload(deal) /\ Ahead(deal)' = Ahead(deal)
        /\ Desynced(deal)' = Desynced(deal) /\ ReadUpTo(deal, rd)' = ReadUpTo(deal, rd)
        /\ \A i : Carried(deal, i)' = Carried(deal, i)
    BY <2>1 DEF Loads, Carried, Hid, Payload, Ahead, Greeting, Desynced, Most, ReadUpTo
  <2>3. WriterType' /\ LeftIsTheRest' /\ EndsInOrder' /\ WireAsWritten'
    BY <2>1, <2>2 DEF TransfersIInv, WriterType, LeftIsTheRest, LeftAt, EndsInOrder, WireAsWritten
  <2>4. ReaderAsGiven'
    BY <2>1, ReaderStays DEF TransfersIInv
  <2>5. QED
    BY <2>1, <2>3, <2>4 DEF TransfersIInv
<1>3. QED
  BY <1>1, <1>2

\* A reading that succeeds gives what was written, and one that fails although no recv answered with an error does so
\* for a reason of the message, for jobs of any kind and number, bytes of any number of values, and calls that move any
\* part of what they are given.
THEOREM ReadingsAreAsWritten == XInit /\ [][XNext]_xvars => []ReadAsWritten
<1>1. TransfersIInv => ReadAsWritten
  BY DEF TransfersIInv, ReaderAsGiven, ReadAsWritten
<1>2. QED
  BY <1>1, TransfersInit, TransfersStep, PTL

-----------------------------------------------------------------------------
\* What a text joined of pieces has up to each of them.
Joined(seqs, V, upTo) ==
    /\ upTo \in [0..Len(seqs) -> V] /\ upTo[0] = <<>>
    /\ \A i \in 1..Len(seqs) : upTo[i] = upTo[i - 1] \o seqs[i]
LEMMA FlattenFacts ==
    ASSUME NEW A, NEW seqs \in Seq(Seq(A))
    PROVE  \E upTo : Joined(seqs, Seq(A), upTo) /\ FlattenSeq(seqs) = upTo[Len(seqs)]
<1> DEFINE n == Len(seqs)
           V == Seq(A)
           none == << >>
           step == [i \in 1..n |-> [s \in V |-> s \o seqs[i]]]
<1>0. n \in Nat /\ \A i \in 1..n : seqs[i] \in V
  OBVIOUS
<1>1. step \in StepsOf(n, V) /\ none \in V
  <2>1. \A i \in 1..n, s \in V : s \o seqs[i] \in V
    BY <1>0
  <2>2. QED
    BY <2>1 DEF StepsOf
<1>2. \A i \in 1..n, s \in V : step[i][s] = s \o seqs[i]
  OBVIOUS
<1> HIDE DEF step, none
<1>3. PICK f : Iterated(n, V, none, step, f)
  BY <1>0, <1>1, Iterates, Zenon
<1>4. f \in [0..n -> V] /\ f[0] = none /\ \A i \in 1..n : f[i] = f[i - 1] \o seqs[i]
  BY <1>2, <1>3 DEF Iterated
<1>5. Joined(seqs, V, f)
  BY <1>4 DEF Joined, none
<1>6. CASE n = 0
  <2>1. FlattenSeq(seqs) = seqs /\ seqs = << >>
    BY <1>6 DEF FlattenSeq
  <2>2. QED
    BY <1>4, <1>5, <1>6, <2>1 DEF none
<1>7. CASE n # 0
  <2> DEFINE g == [i \in 1..n |-> f[i]]
             flatten == CHOOSE flatten : flatten = [i \in 1..n |-> IF i = 1 THEN seqs[i] ELSE flatten[i - 1] \o seqs[i]]
  <2>0. f[1] = seqs[1]
    <3>1. 1 \in 1..n /\ 1 - 1 = 0
      BY <1>0, <1>7
    <3>2. f[1] = f[0] \o seqs[1] /\ seqs[1] \in Seq(A)
      BY <1>0, <1>4, <3>1
    <3>3. f[0] = << >>
      BY <1>4 DEF none
    <3>4. QED
      BY <3>2, <3>3
  <2>1. g = [i \in 1..n |-> IF i = 1 THEN seqs[i] ELSE g[i - 1] \o seqs[i]]
    <3>1. ASSUME NEW i \in 1..n PROVE g[i] = IF i = 1 THEN seqs[i] ELSE g[i - 1] \o seqs[i]
      <4>1. CASE i = 1
        BY <2>0, <4>1
      <4>2. CASE i # 1
        <5>1. i - 1 \in 1..n
          BY <4>2
        <5>2. QED
          BY <1>4, <4>2, <5>1
      <4>3. QED
        BY <4>1, <4>2
    <3>2. QED
      BY <3>1
  <2>2. flatten = [i \in 1..n |-> IF i = 1 THEN seqs[i] ELSE flatten[i - 1] \o seqs[i]]
    BY <2>1, Zenon
  <2>3. FlattenSeq(seqs) = flatten[n]
    BY <1>7, Zenon DEF FlattenSeq
  <2> HIDE DEF flatten
  <2> DEFINE h == [i \in 0..n |-> IF i = 0 THEN none ELSE flatten[i]]
  <2>4. ASSUME NEW i \in 1..n, h[i - 1] = f[i - 1] PROVE h[i] = f[i]
    <3>1. CASE i = 1
      <4>1. h[1] = seqs[1]
        BY <2>2, <3>1
      <4>2. QED
        BY <2>0, <3>1, <4>1
    <3>2. CASE i # 1
      <4>1. flatten[i] = flatten[i - 1] \o seqs[i]
        BY <2>2, <3>2, Zenon
      <4>a. h[i - 1] = flatten[i - 1] /\ h[i] = flatten[i]
        <5>1. i \in 0..n /\ i # 0 /\ i - 1 \in 0..n /\ i - 1 # 0
          BY <3>2
        <5>2. QED
          BY <5>1
      <4>2. QED
        BY <1>4, <2>4, <4>1, <4>a
    <3>3. QED
      BY <3>1, <3>2
  <2>5. h[0] = f[0] /\ h[n] = flatten[n]
    BY <1>4, <1>7
  <2> HIDE DEF h
  <2>6. SameRule(n, h, f)
    BY <2>4, <2>5 DEF SameRule
  <2>7. h[n] = f[n]
    BY <1>0, <2>6, IteratesOnce
  <2>8. QED
    BY <1>5, <2>3, <2>5, <2>7
<1>8. QED
  BY <1>6, <1>7

-----------------------------------------------------------------------------
(***************************************************************************)
(* The statement of a query.  What was replaced of its text are marks, and *)
(* what was not is as it was written: the text behind each name is no      *)
(* variable of the code, so the invariant says that it is some suffix.     *)
(***************************************************************************)
Letters == UNION {ToSet(Names[i]) : i \in DOMAIN Names}
Signs == Letters \cup {Blank}
Behind(ts, rest) ==
    /\ rest \in [0..Len(ts) -> Seq(Signs)] /\ rest[Len(ts)] = <<>>
    /\ \A k \in 1..Len(ts) : rest[k - 1] = ts[k] \o <<Blank>> \o rest[k]

LEMMA NamesFacts ==
    /\ Names \in Seq(Seq(Letters)) /\ Mark \notin {Names[i][1] : i \in DOMAIN Names}
    /\ Blank \notin Letters
    /\ \A i \in DOMAIN Names : Names[i] \in Seq(Letters) /\ Len(Names[i]) > 0
    /\ \A i, j \in DOMAIN Names : IsPrefix(Names[i], Names[j]) => i <= j
<1>1. /\ Names \in Seq(Seq(Letters) \ {<<>>}) /\ Blank \notin Letters
      /\ \A i \in DOMAIN Names : Names[i][1] # Mark
      /\ \A i, j \in DOMAIN Names : IsPrefix(Names[i], Names[j]) => i <= j
  BY StatementAssumption, Zenon DEF Letters
<1> DEFINE Spelled == Seq(Letters)
<1>2. Names \in Seq(Spelled \ {<<>>})
  BY <1>1
<1>3. \A i \in DOMAIN Names : Names[i] \in Spelled \ {<<>>}
  <2> HIDE DEF Spelled
  <2>1. QED
    BY <1>2
<1>4. Names \in Seq(Spelled)
  <2> HIDE DEF Spelled
  <2>1. QED
    BY <1>2
<1>5. \A i \in DOMAIN Names : Len(Names[i]) > 0
  BY <1>3
<1>6. QED
  BY <1>1, <1>3, <1>4, <1>5

Associates(V) == \A s, t, u \in V : (s \o t) \o u = s \o (t \o u)
LEMMA JoiningAssociates == \A A : Associates(Seq(A))
BY ConcatAssociative DEF Associates

\* A text begins with its first name, and what is behind that is a text again.
LEMMA TextBehind ==
    ASSUME NEW ts \in Seq(Seq(Letters))
    PROVE  \E rest : Behind(ts, rest) /\ rest[0] = TextOf(ts)
<1> DEFINE n == Len(ts)
           V == Seq(Signs)
           none == << >>
           pieces == [i \in DOMAIN ts |-> ts[i] \o <<Blank>>]
           step == [i \in 1..n |-> [s \in V |-> pieces[n + 1 - i] \o s]]
<1>0. n \in Nat /\ DOMAIN ts = 1..n /\ \A i \in 1..n : ts[i] \in Seq(Letters)
  OBVIOUS
<1>1. \A i \in 1..n : pieces[i] = ts[i] \o <<Blank>> /\ pieces[i] \in V
  <2>1. ASSUME NEW i \in 1..n PROVE pieces[i] = ts[i] \o <<Blank>> /\ pieces[i] \in V
    <3>1. ts[i] \in Seq(Signs) /\ <<Blank>> \in Seq(Signs)
      BY <1>0 DEF Signs
    <3>2. QED
      BY <1>0, <3>1
  <2>2. QED
    BY <2>1
<1>2. pieces \in Seq(V) /\ Len(pieces) = n
  BY <1>0, <1>1
<1>3. TextOf(ts) = FlattenSeq(pieces)
  BY DEF TextOf
<1> HIDE DEF pieces
<1>4. step \in StepsOf(n, V) /\ none \in V
  <2>1. \A i \in 1..n, s \in V : pieces[n + 1 - i] \o s \in V
    <3>1. ASSUME NEW i \in 1..n, NEW s \in V PROVE pieces[n + 1 - i] \o s \in V
      <4>1. n + 1 - i \in 1..n
        BY <1>0
      <4>2. pieces[n + 1 - i] \in V
        BY <1>1, <4>1
      <4>3. QED
        BY <4>2
    <3>2. QED
      BY <3>1
  <2>2. QED
    BY <2>1 DEF StepsOf
<1>5. \A i \in 1..n, s \in V : step[i][s] = pieces[n + 1 - i] \o s
  OBVIOUS
<1> HIDE DEF step, none
<1>6. PICK f : Iterated(n, V, none, step, f)
  BY <1>0, <1>4, Iterates, Zenon
<1>7. f \in [0..n -> V] /\ f[0] = none /\ \A i \in 1..n : f[i] = pieces[n + 1 - i] \o f[i - 1]
  BY <1>5, <1>6 DEF Iterated
<1> DEFINE rest == [k \in 0..n |-> f[n - k]]
<1>8. Behind(ts, rest)
  <2>1. rest \in [0..n -> V] /\ rest[n] = << >>
    BY <1>0, <1>7 DEF none
  <2>2. ASSUME NEW k \in 1..n PROVE rest[k - 1] = ts[k] \o <<Blank>> \o rest[k]
    <3> DEFINE i == n + 1 - k
    <3>1. i \in 1..n /\ n + 1 - i = k /\ n - (k - 1) = i /\ i - 1 = n - k /\ k \in 0..n /\ k - 1 \in 0..n
      BY <1>0
    <3>2. f[i] = pieces[n + 1 - i] \o f[i - 1]
      BY <1>7, <3>1
    <3>3. rest[k - 1] = f[i] /\ rest[k] = f[i - 1]
      BY <3>1
    <3>4. pieces[k] = ts[k] \o <<Blank>>
      BY <1>1
    <3>5. rest[k - 1] = pieces[k] \o rest[k]
      BY <3>1, <3>2, <3>3
    <3>6. QED
      BY <3>4, <3>5
  <2>3. QED
    BY <2>1, <2>2 DEF Behind
<1>9. \A k \in 1..n : rest[k - 1] = pieces[k] \o rest[k] /\ rest[k] \in V /\ rest[k - 1] \in V
  <2>1. ASSUME NEW k \in 1..n PROVE rest[k - 1] = pieces[k] \o rest[k] /\ rest[k] \in V /\ rest[k - 1] \in V
    <3>0. pieces[k] = ts[k] \o <<Blank>>
      BY <1>1, Zenon
    <3>1. k \in 0..n /\ k - 1 \in 0..n
      BY <1>0
    <3>2. rest[k - 1] = ts[k] \o <<Blank>> \o rest[k] /\ rest \in [0..n -> V]
      BY <1>8 DEF Behind
    <3> HIDE DEF rest, V
    <3>3. QED
      BY <3>0, <3>1, <3>2
  <2>2. QED
    BY <2>1
<1>10. rest[n] = << >>
  BY <1>8 DEF Behind
<1> HIDE DEF rest
<1>11. PICK upTo : Joined(pieces, V, upTo) /\ FlattenSeq(pieces) = upTo[n]
  BY <1>2, FlattenFacts
<1>12. /\ upTo \in [0..n -> V] /\ upTo[0] = << >>
       /\ \A i \in 1..n : upTo[i] = upTo[i - 1] \o pieces[i]
  BY <1>2, <1>11 DEF Joined
<1>13. rest[0] \in V
  BY <1>0, <1>8 DEF Behind
<1>a. Associates(V)
  BY JoiningAssociates, Zenon
<1> DEFINE S == {k \in Nat : k \in 0..n => upTo[k] \o rest[k] = rest[0]}
<1>14. 0 \in S
  <2>1. << >> \o rest[0] = rest[0]
    BY <1>13, ConcatEmptySeq
  <2>2. QED
    BY <1>12, <2>1
<1>15. ASSUME NEW k \in Nat, k \in S PROVE k + 1 \in S
  <2>1. CASE k + 1 \in 1..n
    <3> DEFINE j == k + 1
    <3>1. j \in 1..n /\ j - 1 = k /\ k \in 0..n
      BY <2>1
    <3>2. upTo[k] \in V /\ rest[j] \in V /\ pieces[j] \in V
      BY <1>1, <1>9, <1>12, <3>1
    <3>3. upTo[j] = upTo[k] \o pieces[j] /\ rest[k] = pieces[j] \o rest[j]
      BY <1>9, <1>12, <3>1
    <3> HIDE DEF j
    <3>4. (upTo[k] \o pieces[j]) \o rest[j] = upTo[k] \o (pieces[j] \o rest[j])
      BY <1>a, <3>2, Zenon DEF Associates
    <3>5. upTo[k] \o rest[k] = rest[0]
      BY <1>15, <3>1
    <3>6. upTo[j] \o rest[j] = rest[0]
      BY <3>3, <3>4, <3>5
    <3>7. j \in Nat
      BY <3>1
    <3>8. j \in S
      BY <3>6, <3>7, Zenon
    <3>9. QED
      BY <3>8 DEF j
  <2>2. CASE ~ (k + 1 \in 1..n)
    <3>1. ~ (k + 1 \in 0..n) /\ k + 1 \in Nat
      BY <1>0, <2>2
    <3>2. QED
      BY <3>1, Zenon
  <2>3. QED
    BY <2>1, <2>2
<1> HIDE DEF S
<1>16. n \in S
  BY <1>0, <1>14, <1>15, SetInduction
<1>17. upTo[n] \o rest[n] = rest[0] /\ upTo[n] \in V
  BY <1>0, <1>12, <1>16 DEF S
<1>18. rest[0] = TextOf(ts)
  BY <1>3, <1>10, <1>11, <1>17
<1>19. QED
  BY <1>8, <1>18

\* The least and the greatest of a set of numbers, for who knows them.
LEMMA MinIs == ASSUME NEW S \in SUBSET Int, NEW m \in S, \A x \in S : m <= x PROVE Min(S) = m
<1> DEFINE y == CHOOSE y \in S : \A x \in S : y =< x
<1>1. y \in S /\ \A x \in S : y =< x
  OBVIOUS
<1>2. Min(S) = y
  BY DEF Min
<1> HIDE DEF y
<1>3. QED
  BY <1>1, <1>2
LEMMA MaxIs == ASSUME NEW S \in SUBSET Int, NEW m \in S, \A x \in S : x <= m PROVE Max(S) = m
<1> DEFINE y == CHOOSE y \in S : \A x \in S : y >= x
<1>1. y \in S /\ \A x \in S : y >= x
  OBVIOUS
<1>2. Max(S) = y
  BY DEF Max
<1> HIDE DEF y
<1>3. QED
  BY <1>1, <1>2

\* A part of a text between two others, and what is cut off before and behind it.
LEMMA MiddleOf ==
    ASSUME NEW A, NEW a \in Seq(A), NEW t \in Seq(A), NEW z \in Seq(A)
    PROVE  LET q == a \o (t \o z) IN
           /\ Len(q) = Len(a) + Len(t) + Len(z) /\ q \in Seq(A)
           /\ \A i \in 1..Len(a) : q[i] = a[i]
           /\ \A i \in 1..Len(t) : q[Len(a) + i] = t[i]
           /\ SubSeq(q, 1, Len(a)) = a
           /\ SubSeq(q, Len(a) + 1, Len(a) + Len(t)) = t
           /\ SubSeq(q, Len(a) + 1 + Len(t), Len(q)) = z
<1> DEFINE b == t \o z
           q == a \o b
           la == Len(a)
           lt == Len(t)
           lc == Len(z)
<1>1. la \in Nat /\ lt \in Nat /\ lc \in Nat
  OBVIOUS
<1>2. /\ b \in Seq(A) /\ Len(b) = lt + lc
      /\ \A i \in 1..(lt + lc) : b[i] = IF i <= lt THEN t[i] ELSE z[i - lt]
  BY ConcatProperties
<1>b. b \in Seq(A)
  BY <1>2
<1> HIDE DEF b
<1>3. /\ q \in Seq(A) /\ Len(q) = la + Len(b)
      /\ \A i \in 1..(la + Len(b)) : q[i] = IF i <= la THEN a[i] ELSE b[i - la]
  BY <1>b, ConcatProperties, Zenon
<1> HIDE DEF q
<1>4. \A i \in 1..la : q[i] = a[i]
  BY <1>1, <1>2, <1>3
<1>5. \A i \in 1..lt : q[la + i] = t[i]
  <2>1. ASSUME NEW i \in 1..lt PROVE q[la + i] = t[i]
    <3>1. la + i \in 1..(la + Len(b)) /\ ~ (la + i <= la) /\ (la + i) - la = i /\ i \in 1..(lt + lc)
      BY <1>1, <1>2
    <3>2. q[la + i] = b[i]
      BY <1>3, <3>1
    <3>3. QED
      BY <1>2, <3>1, <3>2
  <2>2. QED
    BY <2>1
<1>6. \A i \in 1..lc : q[la + lt + i] = z[i]
  <2>1. ASSUME NEW i \in 1..lc PROVE q[la + lt + i] = z[i]
    <3>1. /\ la + lt + i \in 1..(la + Len(b)) /\ ~ (la + lt + i <= la) /\ (la + lt + i) - la = lt + i
          /\ lt + i \in 1..(lt + lc) /\ ~ (lt + i <= lt) /\ (lt + i) - lt = i
      BY <1>1, <1>2
    <3>2. q[la + lt + i] = b[lt + i]
      BY <1>3, <3>1
    <3>3. b[lt + i] = z[i]
      BY <1>2, <3>1
    <3>4. QED
      BY <3>2, <3>3
  <2>2. QED
    BY <2>1
<1>7. SubSeq(q, 1, la) = a
  <2>1. SubSeq(q, 1, la) = [i \in 1..la |-> q[i]]
    BY <1>1, <1>2, <1>3
  <2>2. QED
    BY <1>4, <2>1
<1>8. SubSeq(q, la + 1, la + lt) = t
  <2> DEFINE s == SubSeq(q, la + 1, la + lt)
  <2>1. s \in Seq(A) /\ Len(s) = lt /\ \A i \in 1..lt : s[i] = q[la + i]
    BY <1>1, <1>2, <1>3, SMTT(30)
  <2> HIDE DEF s
  <2>2. \A i \in 1..lt : s[i] = t[i]
    BY <1>5, <2>1
  <2>3. s = t
    BY <2>1, <2>2, SeqEqual
  <2>4. QED
    BY <2>3 DEF s
<1>9. SubSeq(q, la + 1 + lt, Len(q)) = z
  <2> DEFINE s == SubSeq(q, la + 1 + lt, Len(q))
  <2>1. s \in Seq(A) /\ Len(s) = lc /\ \A i \in 1..lc : s[i] = q[la + lt + i]
    BY <1>1, <1>2, <1>3
  <2> HIDE DEF s
  <2>2. \A i \in 1..lc : s[i] = z[i]
    BY <1>6, <2>1
  <2>3. s = z
    BY <2>1, <2>2, SeqEqual
  <2>4. QED
    BY <2>3 DEF s
<1>10. Len(q) = la + lt + lc
  BY <1>1, <1>2, <1>3
<1>11. q = a \o (t \o z)
  BY DEF q, b
<1> HIDE DEF la, lt, lc
<1>12. QED
  BY <1>3, <1>4, <1>5, <1>7, <1>8, <1>9, <1>10, <1>11, Zenon DEF la, lt, lc

\* What is behind a name ends with what is behind any later one.
LEMMA RestWithin ==
    ASSUME NEW ts \in Seq(Seq(Letters)), NEW rest, Behind(ts, rest), NEW j \in 0..Len(ts)
    PROVE  \A k \in 0..j : \E a \in Seq(Signs) : rest[k] = a \o rest[j]
<1> DEFINE V == Seq(Signs)
           n == Len(ts)
           EndsWith(k) == \E a \in V : rest[k] = a \o rest[j]
           S == {d \in Nat : d <= j => EndsWith(j - d)}
<1>0. /\ rest \in [0..n -> V] /\ \A k \in 1..n : rest[k - 1] = ts[k] \o <<Blank>> \o rest[k]
      /\ \A k \in 1..n : ts[k] \in V
  <2>1. \A k \in 1..n : ts[k] \in V
    BY DEF Signs
  <2>2. QED
    BY <2>1, Zenon DEF Behind
<1>a. Associates(V)
  BY JoiningAssociates, Zenon
<1>1. EndsWith(j)
  <2>1. << >> \in V /\ << >> \o rest[j] = rest[j]
    BY <1>0, ConcatEmptySeq
  <2>2. QED
    BY <2>1
<1>2. ASSUME NEW k \in 1..j, EndsWith(k) PROVE EndsWith(k - 1)
  <2>1. PICK a \in V : rest[k] = a \o rest[j]
    BY <1>2
  <2> DEFINE piece == ts[k] \o <<Blank>>
  <2>2. rest[k - 1] = piece \o rest[k] /\ piece \in V /\ rest[j] \in V
    <3>1. k \in 1..n /\ j \in 0..n /\ <<Blank>> \in V
      BY <1>2 DEF Signs
    <3>2. rest[k - 1] = piece \o rest[k] /\ ts[k] \in V /\ rest[j] \in V
      <4> HIDE DEF V
      <4>1. QED
        BY <1>0, <3>1
    <3>3. QED
      BY <3>1, <3>2
  <2> HIDE DEF piece
  <2>3. rest[k - 1] = (piece \o a) \o rest[j]
    <3>1. (piece \o a) \o rest[j] = piece \o (a \o rest[j])
      BY <1>a, <2>1, <2>2, Zenon DEF Associates
    <3>2. QED
      BY <2>1, <2>2, <3>1, Zenon
  <2>4. piece \o a \in V
    BY <2>1, <2>2
  <2>5. QED
    BY <2>3, <2>4
<1> HIDE DEF EndsWith
<1>3. 0 \in S
  BY <1>1
<1>4. ASSUME NEW d \in Nat, d \in S PROVE d + 1 \in S
  <2>1. CASE d + 1 <= j
    <3>1. j - d \in 1..j /\ d <= j /\ (j - d) - 1 = j - (d + 1)
      BY <2>1
    <3>2. EndsWith(j - d)
      BY <1>4, <3>1
    <3>3. EndsWith((j - d) - 1)
      BY <1>2, <3>1, <3>2
    <3>4. QED
      BY <3>1, <3>3
  <2>2. CASE ~ (d + 1 <= j)
    BY <2>2
  <2>3. QED
    BY <2>1, <2>2
<1> HIDE DEF S
<1>5. Nat \subseteq S
  BY <1>3, <1>4, SetInduction
<1>6. ASSUME NEW k \in 0..j PROVE EndsWith(k)
  <2>1. j - k \in Nat /\ j - k <= j /\ j - (j - k) = k
    OBVIOUS
  <2>2. j - k \in S
    BY <1>5, <2>1
  <2>3. EndsWith(j - (j - k))
    BY <2>1, <2>2 DEF S
  <2>4. QED
    BY <2>1, <2>3
<1>7. QED
  BY <1>6 DEF EndsWith

\* A name is found only behind the marks, and behind them only where it begins the next one.
Written == Seq(Signs \cup {Mark})
Marks == Seq({Mark, Blank})
LEMMA FoundBehind ==
    ASSUME NEW marks \in Marks, NEW r \in Seq(Signs), query = marks \o r, NEW n \in DOMAIN Names
    PROVE  \A i \in Occurrences(query, Names[n]) : i \in Nat /\ i > Len(marks)
<1> DEFINE key == Names[n]
<1>1. key \in Seq(Letters) /\ Len(key) > 0 /\ key[1] \in Letters /\ key[1] # Mark /\ key[1] # Blank
  <2>1. key \in Seq(Letters) /\ Len(key) > 0
    BY NamesFacts
  <2>2. Mark # key[1] /\ Blank \notin Letters
    BY NamesFacts
  <2> HIDE DEF key
  <2>3. key[1] \in Letters
    BY <2>1
  <2>4. QED
    BY <2>1, <2>2, <2>3
<1> HIDE DEF key
<1>2. query \in Written /\ Len(query) = Len(marks) + Len(r) /\ \A i \in 1..Len(marks) : query[i] = marks[i]
  <2>1. marks \in Written /\ r \in Written
    BY DEF Marks, Written, Signs
  <2>2. QED
    BY <2>1, ConcatProperties DEF Written
<1>3. ASSUME NEW i \in Occurrences(query, key) PROVE i \in Nat /\ i > Len(marks)
  <2>1. i \in 1..(Len(query) - Len(key) + 1) /\ SubSeq(query, i, i + Len(key) - 1) = key
    BY <1>3 DEF Occurrences
  <2>2. i \in Nat /\ i \in 1..Len(query) /\ i + Len(key) - 1 \in Nat /\ i + Len(key) - 1 >= i /\ i + Len(key) - 1 <= Len(query)
    BY <1>1, <1>2, <2>1 DEF Written
  <2>3. SubSeq(query, i, i + Len(key) - 1)[1] = query[i]
    BY <1>2, <2>2 DEF Written
  <2>4. query[i] = key[1]
    BY <2>1, <2>3
  <2>5. CASE i <= Len(marks)
    <3>1. i \in 1..Len(marks) /\ marks[i] \in {Mark, Blank}
      BY <2>2, <2>5 DEF Marks
    <3>2. QED
      BY <1>1, <1>2, <2>4, <3>1
  <2>6. QED
    BY <2>2, <2>5 DEF Marks
<1>4. QED
  BY <1>3 DEF key

LEMMA FoundHere ==
    ASSUME NEW marks \in Marks, NEW t \in Seq(Letters), NEW r \in Seq(Signs),
           query = marks \o (t \o <<Blank>> \o r),
           NEW n \in DOMAIN Names, Len(marks) + 1 \in Occurrences(query, Names[n])
    PROVE  IsPrefix(Names[n], t)
<1> DEFINE key == Names[n]
           lk == Len(key)
           lt == Len(t)
           lm == Len(marks)
           z == <<Blank>> \o r
<1>1. key \in Seq(Letters) /\ lk \in Nat /\ lk > 0 /\ \A i \in 1..lk : key[i] \in Letters
  BY NamesFacts
<1> HIDE DEF key
<1>2. marks \in Written /\ t \in Written /\ <<Blank>> \in Written /\ r \in Written
  BY DEF Marks, Written, Signs
<1>3. z \in Written /\ Len(z) > 0 /\ z[1] = Blank
  BY <1>2 DEF Written
<1>4. query = marks \o (t \o z)
  <2>1. (t \o <<Blank>>) \o r = t \o z
    BY <1>2, ConcatAssociative DEF Written
  <2>2. QED
    BY <2>1
<1> HIDE DEF z
<1>5. lt \in Nat /\ lm \in Nat /\ Len(z) \in Nat
  BY <1>3 DEF Marks, Written
<1>6. /\ query \in Written /\ Len(query) = lm + lt + Len(z)
      /\ \A i \in 1..lt : query[lm + i] = t[i]
  <2>1. LET q == marks \o (t \o z) IN q \in Written /\ Len(q) = lm + lt + Len(z) /\ \A i \in 1..lt : q[lm + i] = t[i]
    BY <1>2, <1>3, MiddleOf DEF Written
  <2>2. QED
    BY <1>4, <2>1
<1>7. query[lm + lt + 1] = Blank
  <2>1. t \o z \in Written /\ Len(t \o z) = lt + Len(z) /\ (t \o z)[lt + 1] = z[1]
    BY <1>2, <1>3, <1>5 DEF Written
  <2> DEFINE b == t \o z
  <2> HIDE DEF b
  <2>2. b \in Written /\ Len(b) = lt + Len(z) /\ b[lt + 1] = Blank
    BY <1>3, <2>1 DEF b
  <2>3. (marks \o b)[lm + (lt + 1)] = b[lt + 1]
    BY <1>2, <1>3, <1>5, <2>2 DEF Written
  <2>4. QED
    BY <1>4, <1>5, <2>2, <2>3 DEF b
<1>8. lm + 1 \in 1..(Len(query) - lk + 1) /\ SubSeq(query, lm + 1, (lm + 1) + lk - 1) = key
  BY DEF Occurrences, key
<1> HIDE DEF lk, lt, lm
<1>9. \A i \in 1..lk : query[lm + i] = key[i]
  <2>1. ASSUME NEW i \in 1..lk PROVE query[lm + i] = key[i]
    <3>1. (lm + 1) + lk - 1 <= Len(query) /\ lm + 1 >= 1 /\ (lm + 1) + lk - 1 \in Nat /\ Len(query) \in Nat
      BY <1>1, <1>3, <1>5, <1>6, <1>8
    <3> DEFINE b == lm + 1
               e == (lm + 1) + lk - 1
               V == Signs \cup {Mark}
    <3>0. query \in Seq(V)
      BY <1>6 DEF Written
    <3>a. b \in Nat /\ b >= 1 /\ e \in Nat /\ e <= Len(query) /\ e - b + 1 = lk /\ lk \in Nat
      BY <1>1, <1>5, <3>1
    <3> HIDE DEF b, e, V
    <3>b. SubSeq(query, b, e)[i] = query[b + i - 1]
      BY <3>0, <3>a
    <3>2. SubSeq(query, lm + 1, (lm + 1) + lk - 1)[i] = query[(lm + 1) + i - 1]
      BY <3>b DEF b, e
    <3>3. (lm + 1) + i - 1 = lm + i
      BY <1>1, <1>5
    <3>4. QED
      BY <1>8, <3>2, <3>3
  <2>2. QED
    BY <2>1
<1>10. lk <= lt
  <2> SUFFICES ASSUME lk > lt PROVE FALSE
    BY <1>1, <1>5
  <2>1. lt + 1 \in 1..lk /\ lm + (lt + 1) = lm + lt + 1
    BY <1>1, <1>5
  <2>2. key[lt + 1] = Blank
    BY <1>7, <1>9, <2>1
  <2>3. QED
    BY <1>1, <2>1, <2>2, NamesFacts
<1>11. \A i \in 1..lk : key[i] = t[i]
  <2>1. ASSUME NEW i \in 1..lk PROVE key[i] = t[i]
    <3>1. i \in 1..lt
      BY <1>1, <1>5, <1>10
    <3>2. QED
      BY <1>6, <1>9, <3>1
  <2>2. QED
    BY <2>1
<1>12. SubSeq(key, 1, lk) = SubSeq(t, 1, lk)
  <2>1. SubSeq(key, 1, lk) = [i \in 1..lk |-> key[i]]
    BY <1>1 DEF lk
  <2>2. SubSeq(t, 1, lk) = [i \in 1..lk |-> t[i]]
    BY <1>1, <1>5, <1>10 DEF lt
  <2>3. QED
    BY <1>11, <2>1, <2>2
<1>13. QED
  BY <1>10, <1>12 DEF IsPrefix, key, lk, lt

\* As far as the names were replaced: k of them, and the text behind them is as it was written.
Replaced(rest, marks, k) ==
    /\ Behind(tokens, rest) /\ k \in 0..Len(tokens)
    /\ marks \in Marks /\ query = marks \o rest[k]
    /\ keysByPos = SubSeq(tokens, 1, k)
    /\ \A i \in (k + 1)..Len(tokens) : \E n \in keysIn : Names[n] = tokens[i]
StatementIInv ==
    /\ tokens \in Seq(ToSet(Names)) /\ keysIn \subseteq DOMAIN Names
    /\ \E rest, marks, k : Replaced(rest, marks, k)

LEMMA TokensFacts ==
    ASSUME NEW ts \in Seq(ToSet(Names))
    PROVE  ts \in Seq(Seq(Letters)) /\ Len(ts) \in Nat /\ \A i \in 1..Len(ts) : ts[i] \in Seq(Letters)
<1>1. ToSet(Names) \subseteq Seq(Letters)
  BY NamesFacts DEF ToSet
<1> DEFINE T == ToSet(Names)
           V == Seq(Letters)
<1> HIDE DEF T, V
<1>2. T \subseteq V /\ ts \in Seq(T)
  BY <1>1 DEF T, V
<1>3. ts \in Seq(V) /\ Len(ts) \in Nat /\ \A i \in 1..Len(ts) : ts[i] \in V
  BY <1>2
<1>4. QED
  BY <1>3 DEF V

\* Every name that is still to come is found.
LEMMA StillFound ==
    ASSUME StatementIInv, NEW rest, NEW marks, NEW k, Replaced(rest, marks, k),
           NEW i \in (k + 1)..Len(tokens), NEW n \in keysIn, Names[n] = tokens[i]
    PROVE  n \in Present /\ (i = k + 1 => Len(marks) + 1 \in Occurrences(query, Names[n]))
<1> DEFINE t == tokens[i]
           r == rest[i]
           X == Signs \cup {Mark}
<1>1. /\ tokens \in Seq(Seq(Letters)) /\ Len(tokens) \in Nat /\ t \in Seq(Letters) /\ k \in Nat
      /\ i \in 1..Len(tokens) /\ i - 1 \in 0..Len(tokens) /\ k \in 0..(i - 1) /\ i \in 0..Len(tokens)
  <2>1. tokens \in Seq(Seq(Letters)) /\ Len(tokens) \in Nat /\ \A j \in 1..Len(tokens) : tokens[j] \in Seq(Letters)
    BY TokensFacts DEF StatementIInv
  <2>2. k \in 0..Len(tokens)
    BY DEF Replaced
  <2>3. QED
    BY <2>1, <2>2
<1>2. Behind(tokens, rest) /\ marks \in Marks /\ query = marks \o rest[k]
  BY DEF Replaced
<1>3. PICK a \in Seq(Signs) : rest[k] = a \o rest[i - 1]
  BY <1>1, <1>2, RestWithin
<1>4. rest[i - 1] = t \o <<Blank>> \o r /\ r \in Seq(Signs) /\ rest[i - 1] \in Seq(Signs)
  <2> DEFINE V == Seq(Signs)
  <2> HIDE DEF V
  <2>1. rest \in [0..Len(tokens) -> V] /\ rest[i - 1] = tokens[i] \o <<Blank>> \o rest[i]
    BY <1>1, <1>2 DEF Behind, V
  <2>2. rest[i] \in V /\ rest[i - 1] \in V
    BY <1>1, <2>1
  <2>3. QED
    BY <2>1, <2>2 DEF V
<1> DEFINE z == <<Blank>> \o r
           m == marks \o a
<1>5. t \in Seq(X) /\ z \in Seq(X) /\ a \in Seq(X) /\ marks \in Seq(X) /\ r \in Seq(X) /\ <<Blank>> \in Seq(X)
  <2>1. t \in Seq(X)
    BY <1>1 DEF Signs
  <2>2. a \in Seq(X) /\ r \in Seq(X)
    BY <1>3, <1>4
  <2>3. marks \in Seq(X) /\ <<Blank>> \in Seq(X)
    BY <1>2 DEF Marks, Signs
  <2>4. <<Blank>> \o r \in Seq(X)
    BY <2>2, <2>3
  <2>5. QED
    BY <2>1, <2>2, <2>3, <2>4
<1>a. Associates(Seq(X))
  BY JoiningAssociates, Zenon
<1>6. rest[i - 1] = t \o z
  <2>1. t \in Seq(X) /\ <<Blank>> \in Seq(X) /\ r \in Seq(X)
    BY <1>5
  <2>2. rest[i - 1] = (t \o <<Blank>>) \o r
    BY <1>4
  <2> HIDE DEF t, r, X
  <2>3. (t \o <<Blank>>) \o r = t \o (<<Blank>> \o r)
    BY <1>a, <2>1, Zenon DEF Associates
  <2>4. QED
    BY <2>2, <2>3
<1>7. m \in Seq(X) /\ Len(m) = Len(marks) + Len(a) /\ Len(a) \in Nat /\ Len(marks) \in Nat
  BY <1>5
<1> HIDE DEF z
<1>8. query = m \o (t \o z)
  <2>1. t \o z \in Seq(X)
    BY <1>5
  <2>a. marks \in Seq(X) /\ a \in Seq(X)
    BY <1>5
  <2> HIDE DEF t, r, X
  <2>2. (marks \o a) \o (t \o z) = marks \o (a \o (t \o z))
    BY <1>a, <2>a, <2>1, Zenon DEF Associates
  <2>3. QED
    BY <1>2, <1>3, <1>6, <2>2, Zenon
<1> HIDE DEF m, t, r, X
<1>9. Len(m) + 1 \in Occurrences(query, t)
  <2>1. /\ Len(query) = Len(m) + Len(t) + Len(z)
        /\ SubSeq(query, Len(m) + 1, Len(m) + Len(t)) = t
    <3>1. LET q == m \o (t \o z) IN
            Len(q) = Len(m) + Len(t) + Len(z) /\ SubSeq(q, Len(m) + 1, Len(m) + Len(t)) = t
      <4>1. m \in Seq(X) /\ t \in Seq(X) /\ z \in Seq(X)
        BY <1>5, <1>7
      <4>2. QED
        BY <4>1, MiddleOf, SMTT(30)
    <3>2. QED
      BY <1>8, <3>1
  <2>2. Len(m) \in Nat /\ Len(t) \in Nat /\ Len(z) \in Nat
    BY <1>5, <1>7
  <2>3. Len(m) + 1 + Len(t) - 1 = Len(m) + Len(t) /\ Len(m) + 1 \in 1..(Len(query) - Len(t) + 1)
    BY <2>1, <2>2
  <2>4. QED
    BY <2>1, <2>3 DEF Occurrences
<1>10. n \in Present
  BY <1>9 DEF Present, t
<1>11. ASSUME i = k + 1 PROVE Len(marks) + 1 \in Occurrences(query, Names[n])
  <2>1. query = marks \o (t \o z)
    <3>1. i - 1 = k
      BY <1>1, <1>11
    <3>2. QED
      BY <1>2, <1>6, <3>1
  <2>2. /\ Len(query) = Len(marks) + Len(t) + Len(z)
        /\ SubSeq(query, Len(marks) + 1, Len(marks) + Len(t)) = t
    BY <1>5, <2>1, MiddleOf
  <2>3. Len(marks) \in Nat /\ Len(t) \in Nat /\ Len(z) \in Nat
    BY <1>5
  <2>4. Len(marks) + 1 + Len(t) - 1 = Len(marks) + Len(t) /\ Len(marks) + 1 \in 1..(Len(query) - Len(t) + 1)
    BY <2>2, <2>3
  <2>5. Len(marks) + 1 \in Occurrences(query, t)
    BY <2>2, <2>4 DEF Occurrences
  <2>6. QED
    BY <2>5 DEF t
<1>12. QED
  BY <1>10, <1>11

\* None is found when none is to come.
LEMMA NoneLeft ==
    ASSUME StatementIInv, NEW rest, NEW marks, NEW k, Replaced(rest, marks, k), k = Len(tokens)
    PROVE  Present = {}
<1> SUFFICES ASSUME NEW n \in Present PROVE FALSE
  OBVIOUS
<1>1. marks \in Marks /\ rest[k] = << >> /\ query = marks \o << >>
  BY DEF Replaced, Behind
<1>2. query = marks /\ << >> \in Seq(Signs) /\ Len(marks) \in Nat
  BY <1>1 DEF Marks
<1>3. n \in keysIn /\ Occurrences(query, Names[n]) # {} /\ n \in DOMAIN Names
  BY DEF Present, StatementIInv
<1>4. PICK i \in Occurrences(query, Names[n]) : i > Len(marks) /\ i \in Nat
  BY <1>1, <1>2, <1>3, FoundBehind
<1>5. i <= Len(query) - Len(Names[n]) + 1
  BY DEF Occurrences
<1>6. Len(Names[n]) > 0 /\ Len(Names[n]) \in Nat
  BY <1>3, NamesFacts
<1>7. QED
  BY <1>2, <1>4, <1>5, <1>6

\* The name that is replaced is the next of the text.
LEMMA NextKey ==
    ASSUME StatementIInv, NEW rest, NEW marks, NEW k, Replaced(rest, marks, k), k # Len(tokens)
    PROVE  /\ Present # {} /\ FirstKey = tokens[k + 1]
           /\ Find(query, tokens[k + 1]) = Len(marks) + 1
<1> DEFINE t == tokens[k + 1]
           at == Len(marks) + 1
<1>1. /\ k \in Nat /\ k + 1 \in 1..Len(tokens) /\ k + 1 \in (k + 1)..Len(tokens) /\ Len(tokens) \in Nat
      /\ t \in Seq(Letters)
  <2>1. Len(tokens) \in Nat /\ \A j \in 1..Len(tokens) : tokens[j] \in Seq(Letters)
    BY TokensFacts DEF StatementIInv
  <2>2. k \in 0..Len(tokens)
    BY DEF Replaced
  <2>3. k + 1 \in 1..Len(tokens) /\ k \in Nat /\ k + 1 \in (k + 1)..Len(tokens)
    BY <2>1, <2>2
  <2>4. QED
    BY <2>1, <2>3
<1>2. /\ marks \in Marks /\ rest[k] \in Seq(Signs) /\ query = marks \o rest[k]
      /\ rest[k] = t \o <<Blank>> \o rest[k + 1] /\ rest[k + 1] \in Seq(Signs) /\ at \in Nat
  <2> DEFINE V == Seq(Signs)
  <2> HIDE DEF V
  <2>1. /\ rest \in [0..Len(tokens) -> V] /\ k \in 0..Len(tokens) /\ marks \in Marks /\ query = marks \o rest[k]
        /\ \A j \in 1..Len(tokens) : rest[j - 1] = tokens[j] \o <<Blank>> \o rest[j]
    BY DEF Replaced, Behind, V
  <2>2. k + 1 \in 0..Len(tokens) /\ (k + 1) - 1 = k
    BY <1>1
  <2>3. rest[k] = tokens[k + 1] \o <<Blank>> \o rest[k + 1]
    BY <1>1, <2>1, <2>2
  <2>4. at \in Nat
    BY <2>1 DEF Marks
  <2>5. QED
    BY <2>1, <2>2, <2>3, <2>4 DEF V
<1>3. PICK n0 \in keysIn : Names[n0] = t
  BY <1>1 DEF Replaced
<1>4. n0 \in Present /\ at \in Occurrences(query, t)
  BY <1>1, <1>3, StillFound
<1> HIDE DEF t
<1>5. ASSUME NEW n \in Present
      PROVE  /\ n \in DOMAIN Names /\ Find(query, Names[n]) \in Occurrences(query, Names[n])
             /\ Find(query, Names[n]) \in Nat /\ at <= Find(query, Names[n])
  <2> DEFINE O == Occurrences(query, Names[n])
  <2>1. n \in DOMAIN Names /\ O # {}
    BY DEF Present, StatementIInv
  <2>2. \A i \in O : i \in Nat /\ i > Len(marks)
    BY <1>2, <2>1, FoundBehind
  <2>3. O \subseteq Nat
    BY <2>2
  <2>a. Find(query, Names[n]) = Min(O)
    BY DEF Find
  <2> HIDE DEF O
  <2>4. PICK x \in O : \A y \in O : x <= y
    BY <2>1, <2>3, LeastNumber
  <2>5. Min(O) = x
    <3>1. O \in SUBSET Int
      BY <2>3
    <3>2. QED
      BY <2>4, <3>1, MinIs
  <2>6. x \in Nat /\ at <= x
    BY <1>2, <2>2, <2>4 DEF Marks
  <2>7. QED
    BY <2>1, <2>4, <2>5, <2>6, <2>a DEF O
<1>6. Find(query, t) = at
  <2> DEFINE O == Occurrences(query, t)
  <2>1. \A i \in O : i \in Nat /\ i > Len(marks)
    BY <1>2, <1>3, <1>4, <1>5, FoundBehind
  <2>2. Find(query, t) = Min(O)
    BY DEF Find
  <2>3. at \in O
    BY <1>4
  <2> HIDE DEF O
  <2>4. O \in SUBSET Int /\ \A i \in O : at <= i
    BY <1>2, <2>1 DEF Marks
  <2>5. QED
    BY <2>2, <2>3, <2>4, MinIs
<1> HIDE DEF at
<1>7. Min({Find(query, Names[i]) : i \in Present}) = at
  <2> DEFINE F == {Find(query, Names[i]) : i \in Present}
  <2>1. at \in F
    BY <1>3, <1>4, <1>6
  <2>2. F \in SUBSET Int /\ \A x \in F : at <= x
    BY <1>5
  <2> HIDE DEF F
  <2>3. Min(F) = at
    BY <2>1, <2>2, MinIs
  <2>4. QED
    BY <2>3 DEF F
<1> DEFINE Here == {i \in Present : Find(query, Names[i]) = at}
<1>8. n0 \in Here /\ n0 \in DOMAIN Names
  BY <1>3, <1>4, <1>5, <1>6
<1>9. ASSUME NEW n \in Here PROVE n \in DOMAIN Names /\ n <= n0
  <2>1. n \in Present /\ Find(query, Names[n]) = at
    OBVIOUS
  <2>2. n \in DOMAIN Names /\ at \in Occurrences(query, Names[n])
    BY <1>5, <2>1
  <2>3. query = marks \o (t \o <<Blank>> \o rest[k + 1])
    BY <1>2
  <2>4. t \in Seq(Letters)
    BY <1>1
  <2>5. IsPrefix(Names[n], t)
    BY <1>2, <2>2, <2>3, <2>4, FoundHere DEF at
  <2>6. QED
    BY <1>3, <1>8, <2>2, <2>5, NamesFacts
<1>10. Max(Here) = n0
  <2>1. DOMAIN Names \subseteq Int
    BY NamesFacts
  <2> HIDE DEF Here
  <2>2. Here \in SUBSET Int /\ \A n \in Here : n <= n0
    BY <1>9, <2>1
  <2>3. QED
    BY <1>8, <2>2, MaxIs
<1>11. FirstKey = Names[Max(Here)]
  BY <1>7, Zenon DEF FirstKey
<1>12. QED
  BY <1>3, <1>4, <1>6, <1>10, <1>11 DEF t, at

LEMMA ReplaceStaysIInv == ASSUME StatementIInv, ReplaceFirstKey PROVE StatementIInv'
<1>1. PICK rest, marks, k : Replaced(rest, marks, k)
  BY DEF StatementIInv
<1>2. k # Len(tokens)
  BY <1>1, NoneLeft DEF ReplaceFirstKey
<1> DEFINE t == tokens[k + 1]
           at == Len(marks) + 1
           r == rest[k + 1]
           z == <<Blank>> \o r
           X == Signs \cup {Mark}
           more == (marks \o <<Mark>>) \o <<Blank>>
<1>3. FirstKey = t /\ Find(query, t) = at
  BY <1>1, <1>2, NextKey
<1>4. /\ query' = SubSeq(query, 1, at - 1) \o <<Mark>> \o SubSeq(query, at + Len(t), Len(query))
      /\ keysByPos' = Append(keysByPos, t) /\ keysIn' = Present /\ UNCHANGED tokens
  BY <1>3 DEF ReplaceFirstKey
<1>5. /\ k \in Nat /\ k + 1 \in 1..Len(tokens) /\ k + 1 \in 0..Len(tokens) /\ Len(tokens) \in Nat
      /\ t \in Seq(Letters)
  <2>1. Len(tokens) \in Nat /\ \A j \in 1..Len(tokens) : tokens[j] \in Seq(Letters)
    BY TokensFacts DEF StatementIInv
  <2>2. k \in 0..Len(tokens)
    BY <1>1 DEF Replaced
  <2>3. k + 1 \in 1..Len(tokens) /\ k \in Nat /\ k + 1 \in 0..Len(tokens)
    BY <1>2, <2>1, <2>2
  <2>4. QED
    BY <2>1, <2>3
<1>6. marks \in Marks /\ query = marks \o (t \o <<Blank>> \o r) /\ r \in Seq(Signs)
  <2> DEFINE V == Seq(Signs)
  <2> HIDE DEF V
  <2>1. /\ rest \in [0..Len(tokens) -> V] /\ marks \in Marks /\ query = marks \o rest[k]
        /\ \A j \in 1..Len(tokens) : rest[j - 1] = tokens[j] \o <<Blank>> \o rest[j]
    BY <1>1 DEF Replaced, Behind, V
  <2>2. (k + 1) - 1 = k
    BY <1>5
  <2>3. rest[k] = t \o <<Blank>> \o r
    BY <1>5, <2>1, <2>2
  <2>4. r \in V
    BY <1>5, <2>1
  <2>5. QED
    BY <2>1, <2>3, <2>4 DEF V
<1>7. marks \in Seq(X) /\ t \in Seq(X) /\ r \in Seq(X) /\ <<Blank>> \in Seq(X) /\ <<Mark>> \in Seq(X)
  <2>1. t \in Seq(X)
    BY <1>5 DEF Signs
  <2>2. r \in Seq(X)
    BY <1>6
  <2>3. marks \in Seq(X) /\ <<Blank>> \in Seq(X) /\ <<Mark>> \in Seq(X)
    BY <1>6 DEF Marks, Signs
  <2>4. QED
    BY <2>1, <2>2, <2>3
<1>8. z \in Seq(X) /\ marks \o <<Mark>> \in Seq(X)
  BY <1>7
<1>a. Associates(Seq(X))
  BY JoiningAssociates, Zenon
<1>9. more \in Marks
  BY <1>6 DEF Marks
<1> HIDE DEF t, r, X
<1>10. query = marks \o (t \o z)
  <2>a. t \in Seq(X) /\ <<Blank>> \in Seq(X) /\ r \in Seq(X)
    BY <1>7
  <2>1. (t \o <<Blank>>) \o r = t \o (<<Blank>> \o r)
    BY <1>a, <2>a, Zenon DEF Associates
  <2>2. QED
    BY <1>6, <2>1, Zenon
<1>11. SubSeq(query, 1, at - 1) = marks /\ SubSeq(query, at + Len(t), Len(query)) = z
  <2>1. marks \in Seq(X) /\ t \in Seq(X) /\ z \in Seq(X)
    BY <1>7, <1>8
  <2> HIDE DEF z
  <2>2. LET q == marks \o (t \o z) IN
          SubSeq(q, 1, Len(marks)) = marks /\ SubSeq(q, Len(marks) + 1 + Len(t), Len(q)) = z
    BY <2>1, MiddleOf, SMTT(30)
  <2>3. at - 1 = Len(marks)
    BY <2>1
  <2>4. QED
    BY <1>10, <2>2, <2>3
<1>12. query' = more \o r
  <2>1. query' = (marks \o <<Mark>>) \o (<<Blank>> \o r)
    BY <1>4, <1>11
  <2>2. ((marks \o <<Mark>>) \o <<Blank>>) \o r = (marks \o <<Mark>>) \o (<<Blank>> \o r)
    <3> DEFINE head == marks \o <<Mark>>
    <3>1. head \in Seq(X) /\ <<Blank>> \in Seq(X) /\ r \in Seq(X)
      BY <1>7, <1>8
    <3> HIDE DEF head
    <3>2. (head \o <<Blank>>) \o r = head \o (<<Blank>> \o r)
      BY <1>a, <3>1, Zenon DEF Associates
    <3>3. QED
      BY <3>2 DEF head
  <2>3. QED
    BY <2>1, <2>2, Zenon
<1>13. keysByPos' = SubSeq(tokens, 1, k + 1)
  <2>1. keysByPos = SubSeq(tokens, 1, k)
    BY <1>1 DEF Replaced
  <2>2. tokens \in Seq(ToSet(Names))
    BY DEF StatementIInv
  <2>3. Append(SubSeq(tokens, 1, k), tokens[k + 1]) = SubSeq(tokens, 1, k + 1)
    <3> DEFINE T == ToSet(Names)
    <3> HIDE DEF T
    <3>1. tokens \in Seq(T)
      BY <2>2 DEF T
    <3>2. QED
      BY <1>5, <3>1
  <2>4. QED
    BY <1>4, <2>1, <2>3 DEF t
<1>14. ASSUME NEW i \in ((k + 1) + 1)..Len(tokens) PROVE \E n \in Present : Names[n] = tokens[i]
  <2>1. i \in (k + 1)..Len(tokens)
    BY <1>5
  <2>2. PICK n \in keysIn : Names[n] = tokens[i]
    BY <1>1, <2>1 DEF Replaced
  <2>3. QED
    BY <1>1, <2>1, <2>2, StillFound
<1> HIDE DEF more, at, z
<1>15. Replaced(rest, more, k + 1)'
  <2>1. Behind(tokens, rest)'
    BY <1>1, <1>4 DEF Replaced, Behind
  <2>2. QED
    BY <1>4, <1>5, <1>9, <1>12, <1>13, <1>14, <2>1 DEF Replaced, r
<1>16. Present \subseteq DOMAIN Names
  BY DEF Present, StatementIInv
<1>17. (tokens \in Seq(ToSet(Names)) /\ keysIn \subseteq DOMAIN Names)'
  BY <1>4, <1>16 DEF StatementIInv
<1>18. QED
  BY <1>15, <1>17 DEF StatementIInv

LEMMA StatementStarts == SInit => StatementIInv
<1> SUFFICES ASSUME SInit PROVE StatementIInv
  OBVIOUS
<1>1. tokens \in Seq(ToSet(Names)) /\ query = TextOf(tokens) /\ keysIn = DOMAIN Names /\ keysByPos = << >>
  <2>1. tokens \in Seq(ToSet(Names))
    <3> DEFINE T == ToSet(Names)
    <3> HIDE DEF T
    <3>1. CASE tokens \in UNION {[1..n -> T] : n \in 1..MaxTokens}
      <4>1. PICK n \in 1..MaxTokens : tokens \in [1..n -> T]
        BY <3>1
      <4>2. n \in Nat
        BY StatementAssumption
      <4>3. QED
        BY <4>1, <4>2 DEF T
    <3>2. CASE tokens = << >>
      BY <3>2
    <3>3. QED
      BY <3>1, <3>2 DEF SInit, T
  <2>2. QED
    BY <2>1 DEF SInit
<1>2. tokens \in Seq(Seq(Letters)) /\ Len(tokens) \in Nat
  BY <1>1, TokensFacts
<1>3. PICK rest : Behind(tokens, rest) /\ rest[0] = TextOf(tokens)
  BY <1>2, TextBehind
<1> DEFINE none == << >>
<1>4. none \in Marks /\ query = none \o rest[0]
  <2>1. rest[0] \in Seq(Signs)
    <3> DEFINE V == Seq(Signs)
    <3> HIDE DEF V
    <3>1. rest \in [0..Len(tokens) -> V]
      BY <1>3 DEF Behind, V
    <3>2. QED
      BY <1>2, <3>1 DEF V
  <2>2. QED
    BY <1>1, <1>3, <2>1 DEF Marks
<1>5. SubSeq(tokens, 1, 0) = << >>
  BY <1>1
<1>6. ASSUME NEW i \in 1..Len(tokens) PROVE \E n \in keysIn : Names[n] = tokens[i]
  <2>1. tokens[i] \in ToSet(Names)
    BY <1>1
  <2>2. QED
    BY <1>1, <2>1 DEF ToSet
<1> HIDE DEF none
<1>7. Replaced(rest, none, 0)
  BY <1>1, <1>2, <1>3, <1>4, <1>5, <1>6 DEF Replaced
<1>8. QED
  BY <1>1, <1>7 DEF StatementIInv

LEMMA StatementStays == StatementIInv /\ [SNext]_svars => StatementIInv'
<1> SUFFICES ASSUME StatementIInv, [SNext]_svars PROVE StatementIInv'
  OBVIOUS
<1>1. CASE ReplaceFirstKey
  BY <1>1, ReplaceStaysIInv
<1>2. CASE UNCHANGED <<tokens, query, keysIn, keysByPos>>
  <2>1. PICK rest, marks, k : Replaced(rest, marks, k)
    BY DEF StatementIInv
  <2>2. Replaced(rest, marks, k)'
    BY <1>2, <2>1 DEF Replaced, Behind
  <2>3. QED
    BY <1>2, <2>2 DEF StatementIInv
<1>3. QED
  BY <1>1, <1>2 DEF SNext, Insert, Step, Step0, StepEnds, svars

\* Query::replaceFirstKey: each position has the name that the text has there, for any names and
\* any text of them: those replaced are marks, and the next name is found first and whole.
THEOREM PositionsAreRight == SInit /\ [][SNext]_svars => []PositionsAreOfTheText
<1>1. StatementIInv => PositionsAreOfTheText
  <2> SUFFICES ASSUME StatementIInv
               PROVE  IsPrefix(keysByPos, tokens) /\ (Present = {} => keysByPos = tokens)
    BY DEF PositionsAreOfTheText
  <2>1. PICK rest, marks, k : Replaced(rest, marks, k)
    BY DEF StatementIInv
  <2> DEFINE T == ToSet(Names)
  <2> HIDE DEF T
  <2>2. tokens \in Seq(T) /\ k \in 0..Len(tokens) /\ keysByPos = SubSeq(tokens, 1, k)
    BY <2>1 DEF StatementIInv, Replaced, T
  <2>3. IsPrefix(keysByPos, tokens)
    <3>1. Len(keysByPos) = k /\ k <= Len(tokens)
      BY <2>2
    <3>2. SubSeq(keysByPos, 1, k) = SubSeq(tokens, 1, k)
      BY <2>2
    <3>3. QED
      BY <3>1, <3>2 DEF IsPrefix
  <2>4. ASSUME Present = {} PROVE keysByPos = tokens
    <3>1. k = Len(tokens)
      BY <2>1, <2>4, NextKey
    <3>2. SubSeq(tokens, 1, Len(tokens)) = tokens
      BY <2>2
    <3>3. QED
      BY <2>2, <3>1, <3>2
  <2>5. QED
    BY <2>3, <2>4
<1>2. QED
  BY <1>1, StatementStarts, StatementStays, PTL

\* Query::step and the drivers' step0: what a variable holds is of the row that was given last.
THEOREM ColumnsAreRight == SInit /\ [][SNext]_svars => []ColumnsAreOfTheRow
<1> DEFINE Flags == got => isNull \in [Columns -> BOOLEAN] /\ \A column \in Columns : isNull[column] <=> row[column] = "none"
           Held == got => \A column \in Columns :
                     row[column] # "none" /\ ~(driver = "mariadb" /\ row[column] = "empty" /\ types[column] \in {"text", "bin"})
                       => resultVars[column] = row[column]
           Read == driver \in Drivers /\ Flags /\ Held
<1>1. SInit => Read
  BY DEF SInit
<1>2. Read /\ [SNext]_svars => Read'
  <2> SUFFICES ASSUME Read, [SNext]_svars PROVE Read'
    OBVIOUS
  <2>1. CASE Step
    <3>1. /\ row' = Head(rows) /\ got' = (driver # "pgsql") /\ UNCHANGED <<driver, types>>
          /\ resultVars' = [column \in Columns |-> Fetched(types[column], resultVars[column], Head(rows)[column])]
          /\ isNull' = [column \in Columns |-> Head(rows)[column] = "none"]
      BY <2>1 DEF Step, Step0, NullFlags
    <3>2. Flags'
      BY <3>1
    <3>a. driver \in {"mariadb", "pgsql", "sqlite3"}
      BY StatementAssumption
    <3>3. Held'
      BY <3>1, <3>a DEF Fetched, FetchedMariaDB, FetchedSQLite3, FetchedPostgreSQL
    <3>4. QED
      BY <3>1, <3>2, <3>3
  <2>2. CASE StepEnds
    BY <2>2 DEF StepEnds
  <2>3. CASE UNCHANGED <<driver, types, row, resultVars, isNull, got>>
    BY <2>3
  <2>4. QED
    BY <2>1, <2>2, <2>3 DEF SNext, ReplaceFirstKey, Insert, svars
<1>3. Read => ColumnsAreOfTheRow
  <2> SUFFICES ASSUME Read, got, NEW column \in Columns
               PROVE  /\ getIsNull(column) <=> row[column] = "none"
                      /\ ~getIsNull(column)
                           /\ ~(driver = "mariadb" /\ row[column] = "empty" /\ types[column] \in {"text", "bin"})
                           => resultVars[column] = row[column]
    BY DEF ColumnsAreOfTheRow
  <2>1. Columns = 1..2
    BY DEF Columns
  <2>2. Len(isNull) = 2
    BY <2>1
  <2>3. getIsNull(column) <=> row[column] = "none"
    BY <2>1, <2>2 DEF getIsNull
  <2>4. QED
    BY <2>3
<1>4. QED
  BY <1>1, <1>2, <1>3, PTL

-----------------------------------------------------------------------------
(***************************************************************************)
(* A container holds a text, which its chunks are when they are joined.    *)
(* Parts of texts first: those of two joined texts.                        *)
(***************************************************************************)
\* How much of n bytes from o on a text of so many has.
Taken(o, n, length) == IF o >= length THEN 0 ELSE IF n < length - o THEN n ELSE length - o
IsPiece(A, t, s, o, n) == t \in Seq(A) /\ Len(t) = Taken(o, n, Len(s)) /\ \A i \in 1..Len(t) : t[i] = s[o + i]
IsJoined(A, q, a, b) ==
    /\ q \in Seq(A) /\ Len(q) = Len(a) + Len(b)
    /\ \A i \in 1..Len(a) : q[i] = a[i]
    /\ \A i \in 1..Len(b) : q[Len(a) + i] = b[i]

LEMMA PieceIs ==
    ASSUME NEW A, NEW s \in Seq(A), NEW o \in Nat, NEW n \in Nat
    PROVE  IsPiece(A, Piece(s, o, n), s, o, n)
<1> DEFINE m == Lesser(o + n, Len(s))
           t == SubSeq(s, o + 1, m)
<1>1. Len(s) \in Nat /\ m \in Nat /\ m <= Len(s) /\ m <= o + n /\ (m = o + n \/ m = Len(s))
  BY DEF Lesser
<1> HIDE DEF m
<1>2. \A i \in (o + 1)..m : s[i] \in A
  BY <1>1, ElementOfSeq
<1>3. /\ t \in Seq(A) /\ Len(t) = IF o + 1 <= m THEN m - (o + 1) + 1 ELSE 0
      /\ \A i \in 1..(m - (o + 1) + 1) : t[i] = s[(o + 1) + i - 1]
  BY <1>1, <1>2, SubSeqProperties
<1> HIDE DEF t
<1>4. \A i \in 1..Len(t) : t[i] = s[o + i]
  BY <1>1, <1>3
<1>5. Len(t) = Taken(o, n, Len(s))
  BY <1>1, <1>3 DEF Taken
<1>6. QED
  BY <1>3, <1>4, <1>5 DEF IsPiece, Piece, t, m

LEMMA JoinIs ==
    ASSUME NEW A, NEW a \in Seq(A), NEW b \in Seq(A)
    PROVE  IsJoined(A, a \o b, a, b)
<1> DEFINE q == a \o b
<1>0. Len(a) \in Nat /\ Len(b) \in Nat
  OBVIOUS
<1>1. q \in Seq(A) /\ Len(q) = Len(a) + Len(b) /\ \A i \in 1..(Len(a) + Len(b)) : q[i] = IF i <= Len(a) THEN a[i] ELSE b[i - Len(a)]
  BY ConcatProperties
<1> HIDE DEF q
<1>2. ASSUME NEW i \in 1..Len(b) PROVE q[Len(a) + i] = b[i]
  <2>1. Len(a) + i \in 1..(Len(a) + Len(b)) /\ ~(Len(a) + i <= Len(a)) /\ (Len(a) + i) - Len(a) = i
    BY <1>0
  <2>2. QED
    BY <1>1, <2>1
<1>3. IsJoined(A, q, a, b)
  BY <1>0, <1>1, <1>2 DEF IsJoined
<1>4. QED
  BY <1>3 DEF q

\* What a part of two joined texts takes of each.
Skipped(o, length) == IF o > length THEN o - length ELSE 0
TakenOfBoth(o, n, j, k) ==
    /\ Taken(o, n, j) \in 0..j /\ n - Taken(o, n, j) \in Nat /\ Skipped(o, j) \in Nat
    /\ Taken(o, n, j + k) = Taken(o, n, j) + Taken(Skipped(o, j), n - Taken(o, n, j), k)
LEMMA TakenTogether == \A o, n, j, k \in Nat : TakenOfBoth(o, n, j, k)
BY DEF Taken, Skipped, TakenOfBoth

LEMMA PieceOfJoined ==
    ASSUME NEW A, NEW a \in Seq(A), NEW b \in Seq(A), NEW o \in Nat, NEW n \in Nat
    PROVE  Piece(a \o b, o, n)
               = Piece(a, o, n) \o Piece(b, Skipped(o, Len(a)), n - Taken(o, n, Len(a)))
<1> DEFINE la == Len(a)
           lb == Len(b)
           skip == Skipped(o, la)
           take == n - Taken(o, n, la)
           q == a \o b
           s == Piece(a, o, n)
           t == Piece(b, skip, take)
           u == Piece(q, o, n)
           w == s \o t
<1>0. la \in Nat /\ lb \in Nat
  OBVIOUS
<1>b. q \in Seq(A)
  OBVIOUS
<1>1. IsJoined(A, q, a, b)
  BY JoinIs, Zenon
<1> HIDE DEF la, lb, q
<1>a. /\ Taken(o, n, la) \in 0..la /\ take \in Nat /\ skip \in Nat
      /\ Taken(o, n, la + lb) = Taken(o, n, la) + Taken(skip, take, lb)
  <2>1. TakenOfBoth(o, n, la, lb)
    BY <1>0, TakenTogether, Zenon
  <2>2. QED
    BY <2>1, Zenon DEF TakenOfBoth, skip, take
<1> HIDE DEF take, skip
<1>2. IsPiece(A, s, a, o, n)
  BY PieceIs, Zenon
<1>3. IsPiece(A, t, b, skip, take)
  BY <1>a, PieceIs, Zenon
<1>4. IsPiece(A, u, q, o, n)
  BY <1>b, PieceIs, Zenon
<1> HIDE DEF s, t, u
<1>c. s \in Seq(A) /\ t \in Seq(A) /\ u \in Seq(A)
  BY <1>2, <1>3, <1>4 DEF IsPiece
<1>5. IsJoined(A, w, s, t)
  BY <1>c, JoinIs, Zenon
<1> HIDE DEF w
<1>6. Len(s) = Taken(o, n, la) /\ Len(t) = Taken(skip, take, lb) /\ Len(u) = Len(s) + Len(t)
  <2>1. Len(q) = la + lb
    BY <1>1 DEF IsJoined, la, lb
  <2>2. QED
    BY <1>2, <1>3, <1>4, <1>a, <2>1, Zenon DEF IsPiece, la, lb
<1>7. ASSUME NEW i \in 1..Len(u) PROVE u[i] = w[i]
  <2>0. Len(s) \in Nat /\ Len(t) \in Nat /\ Len(u) \in Nat
    BY <1>c
  <2>1. CASE i <= Len(s)
    <3>1. i \in 1..Len(s) /\ o + i \in 1..la
      BY <1>0, <1>6, <2>0, <2>1 DEF Taken
    <3>2. u[i] = q[o + i] /\ s[i] = a[o + i] /\ w[i] = s[i] /\ q[o + i] = a[o + i]
      BY <1>1, <1>2, <1>4, <1>5, <3>1, <1>7, Zenon DEF IsPiece, IsJoined, la
    <3>3. QED
      BY <3>2
  <2>2. CASE i > Len(s)
    <3> DEFINE j == i - Len(s)
    <3>1. j \in 1..Len(t) /\ i = Len(s) + j
      BY <1>6, <2>0, <2>2
    <3>2. skip + j \in 1..lb /\ o + i = la + (skip + j)
      BY <1>0, <1>6, <1>a, <3>1 DEF Taken, Skipped, skip, take
    <3> HIDE DEF j
    <3>3. w[Len(s) + j] = t[j] /\ t[j] = b[skip + j] /\ u[i] = q[o + i] /\ q[la + (skip + j)] = b[skip + j]
      BY <1>1, <1>3, <1>4, <1>5, <3>1, <3>2, <1>7, Zenon DEF IsPiece, IsJoined, la, lb
    <3>4. QED
      BY <3>1, <3>2, <3>3
  <2>3. QED
    BY <2>0, <2>1, <2>2
<1>8. u = w
  <2>1. w \in Seq(A) /\ Len(w) = Len(u)
    BY <1>5, <1>6 DEF IsJoined
  <2>2. QED
    BY <1>c, <1>7, <2>1, SeqEqual
<1>9. QED
  BY <1>8 DEF u, w, s, t, q, la, skip, take

-----------------------------------------------------------------------------
\* Joined sequences joined, and the joined text of one more.
LEMMA FlatIsText == ASSUME NEW A, NEW seqs \in Seq(Seq(A)) PROVE FlattenSeq(seqs) \in Seq(A)
<1>1. PICK upTo : Joined(seqs, Seq(A), upTo) /\ FlattenSeq(seqs) = upTo[Len(seqs)]
  BY FlattenFacts
<1>2. Len(seqs) \in 0..Len(seqs)
  OBVIOUS
<1>3. QED
  BY <1>1, <1>2, Zenon DEF Joined

LEMMA FlatOfNone == FlattenSeq(<< >>) = << >>
BY DEF FlattenSeq

LEMMA FlatOfJoined ==
    ASSUME NEW A, NEW a \in Seq(Seq(A)), NEW b \in Seq(Seq(A))
    PROVE  FlattenSeq(a \o b) = FlattenSeq(a) \o FlattenSeq(b)
<1> DEFINE V == Seq(A)
           q == a \o b
           la == Len(a)
           lb == Len(b)
           whole == FlattenSeq(a)
<1>0. la \in Nat /\ lb \in Nat
  OBVIOUS
<1>1. IsJoined(V, q, a, b)
  BY JoinIs, Zenon
<1> HIDE DEF q
<1>2. q \in Seq(V) /\ Len(q) = la + lb /\ (\A i \in 1..la : q[i] = a[i]) /\ \A i \in 1..lb : q[la + i] = b[i]
  BY <1>1 DEF IsJoined
<1>3. PICK ua : Joined(a, V, ua) /\ FlattenSeq(a) = ua[la]
  BY FlattenFacts
<1>4. PICK ub : Joined(b, V, ub) /\ FlattenSeq(b) = ub[lb]
  BY FlattenFacts
<1>5. PICK uq : Joined(q, V, uq) /\ FlattenSeq(q) = uq[Len(q)]
  BY <1>2, FlattenFacts
<1>6. /\ ua[0] = << >> /\ ua \in [0..la -> V] /\ \A i \in 1..la : ua[i] = ua[i - 1] \o a[i]
      /\ ub[0] = << >> /\ ub \in [0..lb -> V] /\ \A i \in 1..lb : ub[i] = ub[i - 1] \o b[i]
      /\ uq[0] = << >> /\ uq \in [0..(la + lb) -> V] /\ \A i \in 1..(la + lb) : uq[i] = uq[i - 1] \o q[i]
  BY <1>2, <1>3, <1>4, <1>5, Zenon DEF Joined, la, lb
<1>a. (\A i \in 1..la : a[i] \in V) /\ (\A i \in 1..lb : b[i] \in V)
  OBVIOUS
<1> HIDE DEF la, lb, V
<1>7. SameRule(la, uq, ua)
  <2>1. ASSUME NEW i \in 1..la, uq[i - 1] = ua[i - 1] PROVE uq[i] = ua[i]
    <3>1. i \in 1..(la + lb)
      BY <1>0
    <3>2. QED
      BY <1>2, <1>6, <2>1, <3>1, Zenon
  <2>2. QED
    BY <1>6, <2>1, Zenon DEF SameRule
<1>8. uq[la] = whole
  BY <1>0, <1>3, <1>7, IteratesOnce
<1>b. whole \in V
  BY <1>0, <1>3, <1>6
<1> HIDE DEF whole
<1> DEFINE f == [i \in 0..lb |-> uq[la + i]]
           g == [i \in 0..lb |-> whole \o ub[i]]
<1>9. SameRule(lb, f, g)
  <2>1. f[0] = g[0]
    <3>1. f[0] = uq[la] /\ g[0] = whole \o << >>
      <4>1. 0 \in 0..lb /\ la + 0 = la
        BY <1>0
      <4>2. QED
        BY <1>6, <4>1
    <3>2. whole \o << >> = whole
      BY <1>b, ConcatEmptySeq DEF V
    <3>3. QED
      BY <1>8, <3>1, <3>2
  <2>2. ASSUME NEW i \in 1..lb, f[i - 1] = g[i - 1] PROVE f[i] = g[i]
    <3> DEFINE k == la + i
    <3>1. i \in 0..lb /\ i - 1 \in 0..lb /\ k \in 1..(la + lb) /\ k - 1 = la + (i - 1)
      BY <1>0
    <3>2. f[i] = uq[k] /\ f[i - 1] = uq[k - 1] /\ g[i] = whole \o ub[i] /\ g[i - 1] = whole \o ub[i - 1]
      BY <3>1
    <3>3. uq[k] = uq[k - 1] \o b[i]
      BY <1>2, <1>6, <3>1
    <3>4. ub[i] = ub[i - 1] \o b[i] /\ ub[i - 1] \in V /\ b[i] \in V
      BY <1>6, <1>a, <3>1
    <3>5. whole \o (ub[i - 1] \o b[i]) = (whole \o ub[i - 1]) \o b[i]
      <4>1. Associates(V)
        BY JoiningAssociates DEF V
      <4>2. QED
        BY <1>b, <3>4, <4>1, Zenon DEF Associates
    <3> HIDE DEF f, g, k
    <3>6. QED
      BY <2>2, <3>2, <3>3, <3>4, <3>5
  <2> HIDE DEF f, g
  <2>3. QED
    BY <2>1, <2>2 DEF SameRule
<1>10. f[lb] = g[lb]
  <2> HIDE DEF f, g
  <2>1. lb \in 0..lb
    BY <1>0
  <2>2. QED
    BY <1>0, <1>9, <2>1, IteratesOnce
<1>11. uq[la + lb] = whole \o ub[lb]
  BY <1>0, <1>10
<1>12. QED
  BY <1>2, <1>4, <1>5, <1>11 DEF q, whole, lb

LEMMA FlatOfOne == ASSUME NEW A, NEW x \in Seq(A) PROVE FlattenSeq(<<x>>) = x
<1> DEFINE q == <<x>>
<1>1. q \in Seq(Seq(A)) /\ Len(q) = 1 /\ q[1] = x
  OBVIOUS
<1> HIDE DEF q
<1>2. PICK u : Joined(q, Seq(A), u) /\ FlattenSeq(q) = u[Len(q)]
  BY <1>1, FlattenFacts
<1>3. u[0] = << >> /\ u[1] = u[1 - 1] \o x /\ FlattenSeq(q) = u[1]
  BY <1>1, <1>2 DEF Joined
<1>4. u[1] = << >> \o x
  BY <1>3
<1>5. << >> \o x = x
  BY ConcatEmptySeq
<1>6. QED
  BY <1>3, <1>4, <1>5 DEF q

\* The first k of sequences, and the next.
LEMMA FlatOfNext ==
    ASSUME NEW A, NEW seqs \in Seq(Seq(A)), NEW k \in 1..Len(seqs)
    PROVE  FlattenSeq(SubSeq(seqs, 1, k)) = FlattenSeq(SubSeq(seqs, 1, k - 1)) \o seqs[k]
<1> DEFINE V == Seq(A)
           front == SubSeq(seqs, 1, k - 1)
           next == SubSeq(seqs, 1, k)
           x == seqs[k]
           one == <<x>>
           q == front \o one
<1>0. k - 1 \in 0..Len(seqs) /\ k \in 0..Len(seqs) /\ x \in V
  OBVIOUS
<1>1. front \in Seq(V) /\ Len(front) = k - 1 /\ \A i \in 1..(k - 1) : front[i] = seqs[i]
  BY <1>0, FrontFacts
<1>2. next \in Seq(V) /\ Len(next) = k /\ \A i \in 1..k : next[i] = seqs[i]
  BY <1>0, FrontFacts
<1>3. one \in Seq(V) /\ Len(one) = 1 /\ one[1] = x
  BY <1>0
<1> HIDE DEF front, next, one
<1>4. IsJoined(V, q, front, one)
  BY <1>1, <1>3, JoinIs, Zenon
<1> HIDE DEF q
<1>5. q \in Seq(V) /\ Len(q) = k /\ (\A i \in 1..(k - 1) : q[i] = front[i]) /\ q[k] = x
  <2>1. Len(front) = k - 1 /\ Len(one) = 1 /\ k - 1 + 1 = k /\ 1 \in 1..1
    BY <1>1, <1>3
  <2>2. q \in Seq(V) /\ Len(q) = (k - 1) + 1 /\ (\A i \in 1..(k - 1) : q[i] = front[i]) /\ \A i \in 1..1 : q[(k - 1) + i] = one[i]
    BY <1>4, <2>1 DEF IsJoined
  <2>3. QED
    BY <1>3, <2>2, SMTT(30)
<1>6. ASSUME NEW i \in 1..k PROVE q[i] = next[i]
  <2>1. i = k \/ i \in 1..(k - 1)
    BY <1>0
  <2>2. QED
    BY <1>1, <1>2, <1>5, <2>1
<1>7. q = next
  BY <1>2, <1>5, <1>6, SeqEqual
<1>8. FlattenSeq(q) = FlattenSeq(front) \o FlattenSeq(one)
  BY <1>1, <1>3, FlatOfJoined DEF q
<1>9. FlattenSeq(one) = x
  BY <1>0, FlatOfOne DEF one
<1>10. QED
  BY <1>7, <1>8, <1>9 DEF front, next

-----------------------------------------------------------------------------
\* The chunks, and what a walk over them visits.
ChunkSet == [data : Seq(Bytes), offset : Nat]
Datas(chunks) == [i \in DOMAIN chunks |-> chunks[i].data]

LEMMA DatasFacts ==
    ASSUME NEW chunks \in Seq(ChunkSet)
    PROVE  /\ Datas(chunks) \in Seq(Seq(Bytes)) /\ Len(Datas(chunks)) = Len(chunks)
           /\ \A i \in 1..Len(chunks) : Datas(chunks)[i] = chunks[i].data /\ chunks[i] \in ChunkSet
                                        /\ chunks[i].data \in Seq(Bytes) /\ chunks[i].offset \in Nat
                                        /\ Len(chunks[i].data) \in Nat
<1>1. \A i \in 1..Len(chunks) : chunks[i] \in ChunkSet
  OBVIOUS
<1>2. \A x \in ChunkSet : x.data \in Seq(Bytes) /\ x.offset \in Nat /\ Len(x.data) \in Nat
  BY DEF ChunkSet
<1>3. DOMAIN chunks = 1..Len(chunks) /\ Len(chunks) \in Nat
  OBVIOUS
<1> DEFINE n == Len(chunks)
           V == Seq(Bytes)
<1> HIDE DEF n, V
<1>4. \A i \in 1..n : chunks[i].data \in V
  BY <1>1, <1>2 DEF n, V
<1>5. Datas(chunks) = [i \in 1..n |-> chunks[i].data]
  BY <1>3 DEF Datas, n
<1>6. Datas(chunks) \in Seq(V) /\ Len(Datas(chunks)) = n
  BY <1>3, <1>4, <1>5 DEF n
<1>7. QED
  BY <1>1, <1>2, <1>5, <1>6 DEF n, V

\* What is left to skip and to take behind one more chunk.
LeftBehind(o, n, j, k) ==
    LET skip == Skipped(o, j)
        take == n - Taken(o, n, j)
    IN /\ Skipped(o, j + k) = IF skip > k THEN skip - k ELSE 0
       /\ n - Taken(o, n, j + k) = IF skip > k THEN take ELSE take - Lesser(take, k - skip)
LEMMA LeftBehindNext == \A o, n, j, k \in Nat : LeftBehind(o, n, j, k)
BY DEF Taken, Skipped, LeftBehind, Lesser

LEMMA VisitedIs ==
    ASSUME NEW chunks \in Seq(ChunkSet), NEW offset \in Nat, NEW n \in Nat
    PROVE  /\ Visited(chunks, offset, n) \in Seq(Seq(Bytes)) /\ Len(Visited(chunks, offset, n)) = Len(chunks)
           /\ FlattenSeq(Visited(chunks, offset, n)) = Piece(FlattenSeq(Datas(chunks)), offset, n)
<1> DEFINE m == Len(chunks)
           V == Seq(Bytes)
           D == Datas(chunks)
           size_(i) == Len(chunks[i].data)
<1>0. /\ m \in Nat /\ D \in Seq(V) /\ Len(D) = m /\ DOMAIN chunks = 1..m
      /\ \A i \in 1..m : D[i] = chunks[i].data /\ D[i] \in V /\ size_(i) \in Nat
  BY DatasFacts
<1>1. PICK u : Joined(D, V, u) /\ FlattenSeq(D) = u[Len(D)]
  BY <1>0, FlattenFacts, Zenon
<1>2. u \in [0..m -> V] /\ u[0] = << >> /\ \A i \in 1..m : u[i] = u[i - 1] \o D[i]
  BY <1>0, <1>1 DEF Joined
<1> HIDE DEF D
<1> DEFINE ended(i) == Len(u[i])
           f == [i \in 0..m |-> [skip |-> Skipped(offset, ended(i)), take |-> n - Taken(offset, n, ended(i))]]
           b == CHOOSE before : before = [i \in 0..m |->
                   IF i = 0 THEN [skip |-> offset, take |-> n]
                   ELSE LET w == before[i - 1]
                            held == size_(i)
                        IN IF w.skip > held THEN [skip |-> w.skip - held, take |-> w.take]
                           ELSE [skip |-> 0, take |-> w.take - Lesser(w.take, held - w.skip)]]
<1>3. \A i \in 1..m : ended(i) = ended(i - 1) + size_(i) /\ ended(i - 1) \in Nat /\ ended(i) \in Nat /\ u[i - 1] \in V
  <2>1. ASSUME NEW i \in 1..m
        PROVE  ended(i) = ended(i - 1) + size_(i) /\ ended(i - 1) \in Nat /\ ended(i) \in Nat /\ u[i - 1] \in V
    <3>1. i \in 0..m /\ i - 1 \in 0..m
      BY <1>0
    <3>2. u[i] = u[i - 1] \o D[i] /\ u[i - 1] \in V /\ D[i] \in V /\ D[i] = chunks[i].data
      BY <1>0, <1>2, <3>1
    <3>3. IsJoined(Bytes, u[i - 1] \o D[i], u[i - 1], D[i])
      BY <3>2, JoinIs, Zenon
    <3>4. Len(u[i]) = Len(u[i - 1]) + Len(D[i])
      BY <3>2, <3>3, Zenon DEF IsJoined
    <3>5. Len(u[i - 1]) \in Nat /\ Len(u[i]) \in Nat
      BY <1>0, <1>2, <3>1
    <3>6. QED
      BY <3>2, <3>4, <3>5, Zenon
  <2>2. QED
    BY <2>1
<1>4. f[0] = [skip |-> offset, take |-> n]
  <2>1. ended(0) = 0 /\ 0 \in 0..m
    BY <1>0, <1>2
  <2>2. Skipped(offset, 0) = offset /\ n - Taken(offset, n, 0) = n
    BY DEF Skipped, Taken
  <2>3. QED
    BY <2>1, <2>2
<1> HIDE DEF ended
<1>5. \A i \in 1..m : f[i] = LET w == f[i - 1]
                                 held == size_(i)
                             IN IF w.skip > held THEN [skip |-> w.skip - held, take |-> w.take]
                                ELSE [skip |-> 0, take |-> w.take - Lesser(w.take, held - w.skip)]
  <2> SUFFICES ASSUME NEW i \in 1..m
               PROVE  f[i] = LET w == f[i - 1]
                                 held == size_(i)
                             IN IF w.skip > held THEN [skip |-> w.skip - held, take |-> w.take]
                                ELSE [skip |-> 0, take |-> w.take - Lesser(w.take, held - w.skip)]
    OBVIOUS
  <2> DEFINE j == ended(i - 1)
             k == size_(i)
             skip == Skipped(offset, j)
             take == n - Taken(offset, n, j)
  <2>1. i \in 0..m /\ i - 1 \in 0..m /\ ended(i) = j + k /\ j \in Nat /\ k \in Nat
    BY <1>0, <1>3
  <2>2. f[i] = [skip |-> Skipped(offset, j + k), take |-> n - Taken(offset, n, j + k)]
    BY <2>1
  <2>3. f[i - 1] = [skip |-> skip, take |-> take]
    BY <2>1
  <2> HIDE DEF f, j, k
  <2>4. LeftBehind(offset, n, j, k)
    BY <2>1, LeftBehindNext, Zenon
  <2>5. /\ Skipped(offset, j + k) = IF skip > k THEN skip - k ELSE 0
        /\ n - Taken(offset, n, j + k) = IF skip > k THEN take ELSE take - Lesser(take, k - skip)
    BY <2>4 DEF LeftBehind
  <2> HIDE DEF skip, take
  <2>6. f[i] = IF skip > k THEN [skip |-> skip - k, take |-> take]
               ELSE [skip |-> 0, take |-> take - Lesser(take, k - skip)]
    BY <2>2, <2>5
  <2>7. f[i - 1].skip = skip /\ f[i - 1].take = take
    BY <2>3
  <2>8. QED
    BY <2>6, <2>7, Zenon DEF k
<1>6. f = [i \in 0..m |-> IF i = 0 THEN [skip |-> offset, take |-> n]
                          ELSE LET w == f[i - 1]
                                   held == size_(i)
                               IN IF w.skip > held THEN [skip |-> w.skip - held, take |-> w.take]
                                  ELSE [skip |-> 0, take |-> w.take - Lesser(w.take, held - w.skip)]]
  <2>1. f = [i \in 0..m |-> f[i]]
    OBVIOUS
  <2> HIDE DEF f
  <2>2. \A i \in 0..m : i = 0 \/ i \in 1..m
    BY <1>0
  <2>3. QED
    BY <1>4, <1>5, <2>1, <2>2, Zenon
<1> HIDE DEF f
<1>7. b = [i \in 0..m |-> IF i = 0 THEN [skip |-> offset, take |-> n]
                          ELSE LET w == b[i - 1]
                                   held == size_(i)
                               IN IF w.skip > held THEN [skip |-> w.skip - held, take |-> w.take]
                                  ELSE [skip |-> 0, take |-> w.take - Lesser(w.take, held - w.skip)]]
  BY <1>6, Zenon
<1>8. Visited(chunks, offset, n) = [i \in 1..m |-> Piece(chunks[i].data, b[i - 1].skip, b[i - 1].take)]
  BY <1>0, Zenon DEF Visited
<1> HIDE DEF b
<1>9. SameRule(m, b, f)
  <2>1. b[0] = f[0]
    <3>1. 0 \in 0..m
      BY <1>0
    <3>2. QED
      BY <1>4, <1>7, <3>1, Zenon
  <2>2. ASSUME NEW i \in 1..m, b[i - 1] = f[i - 1] PROVE b[i] = f[i]
    <3>1. i \in 0..m /\ i # 0
      BY <1>0
    <3>2. QED
      BY <1>5, <1>7, <2>2, <3>1, Zenon
  <2>3. QED
    BY <2>1, <2>2 DEF SameRule
<1>10. \A i \in 0..m : b[i] = f[i]
  BY <1>0, <1>9, IteratesOnce
<1> DEFINE vis == Visited(chunks, offset, n)
           part(i) == Piece(u[i], offset, n)
<1>11. \A i \in 1..m : vis[i] = Piece(D[i], Skipped(offset, ended(i - 1)), n - Taken(offset, n, ended(i - 1)))
  <2>1. ASSUME NEW i \in 1..m
        PROVE  vis[i] = Piece(D[i], Skipped(offset, ended(i - 1)), n - Taken(offset, n, ended(i - 1)))
    <3>1. i - 1 \in 0..m
      BY <1>0
    <3>2. f[i - 1] = [skip |-> Skipped(offset, ended(i - 1)), take |-> n - Taken(offset, n, ended(i - 1))]
      BY <3>1 DEF f
    <3>3. b[i - 1].skip = Skipped(offset, ended(i - 1)) /\ b[i - 1].take = n - Taken(offset, n, ended(i - 1))
      BY <1>10, <3>1, <3>2
    <3>4. vis[i] = Piece(chunks[i].data, b[i - 1].skip, b[i - 1].take)
      BY <1>8
    <3>5. QED
      BY <1>0, <3>3, <3>4
  <2>2. QED
    BY <2>1
<1>12. \A i \in 1..m : part(i) = part(i - 1) \o vis[i] /\ vis[i] \in V /\ part(i - 1) \in V /\ part(i) \in V
  <2>1. ASSUME NEW i \in 1..m
        PROVE  part(i) = part(i - 1) \o vis[i] /\ vis[i] \in V /\ part(i - 1) \in V /\ part(i) \in V
    <3> DEFINE a == u[i - 1]
               d == D[i]
               skip == Skipped(offset, ended(i - 1))
               take == n - Taken(offset, n, ended(i - 1))
    <3>1. a \in V /\ d \in V /\ u[i] = a \o d /\ ended(i - 1) \in Nat
      BY <1>0, <1>2, <1>3
    <3>2. TakenOfBoth(offset, n, ended(i - 1), 0)
      BY <3>1, TakenTogether, Zenon
    <3>3. skip \in Nat /\ take \in Nat
      BY <3>2, Zenon DEF TakenOfBoth
    <3>4. vis[i] = Piece(d, skip, take)
      BY <1>11, Zenon
    <3> HIDE DEF a, d, vis
    <3>5. Piece(a \o d, offset, n) = Piece(a, offset, n) \o Piece(d, skip, take)
      BY <3>1, PieceOfJoined DEF ended, a
    <3> HIDE DEF skip, take
    <3>6. IsPiece(Bytes, Piece(d, skip, take), d, skip, take) /\ IsPiece(Bytes, Piece(a, offset, n), a, offset, n)
      BY <3>1, <3>3, PieceIs, Zenon
    <3>7. Piece(d, skip, take) \in V /\ Piece(a, offset, n) \in V
      BY <3>6 DEF IsPiece
    <3>8. Piece(a, offset, n) \o Piece(d, skip, take) \in V
      BY <3>7
    <3>9. QED
      BY <3>1, <3>4, <3>5, <3>7, <3>8 DEF a
  <2>2. QED
    BY <2>1
<1>13. vis \in Seq(V) /\ Len(vis) = m
  BY <1>0, <1>8, <1>12
<1>14. PICK v : Joined(vis, V, v) /\ FlattenSeq(vis) = v[Len(vis)]
  BY <1>13, FlattenFacts, Zenon
<1>15. v[0] = << >> /\ \A i \in 1..m : v[i] = v[i - 1] \o vis[i]
  BY <1>13, <1>14 DEF Joined
<1> HIDE DEF vis
<1> DEFINE g == [i \in 0..m |-> part(i)]
<1>16. SameRule(m, v, g)
  <2>1. v[0] = g[0]
    <3>1. Piece(<< >>, offset, n) = << >>
      <4>1. << >> \in Seq(Bytes)
        OBVIOUS
      <4>2. IsPiece(Bytes, Piece(<< >>, offset, n), << >>, offset, n)
        BY <4>1, PieceIs, Zenon
      <4> DEFINE t == Piece(<< >>, offset, n)
      <4>3. t \in Seq(Bytes) /\ Len(t) = Taken(offset, n, 0)
        BY <4>2 DEF IsPiece
      <4> HIDE DEF t
      <4>4. Len(t) = 0
        BY <4>3 DEF Taken
      <4>5. t = << >>
        BY <4>3, <4>4, EmptySeq
      <4>6. QED
        BY <4>5 DEF t
    <3>2. g[0] = Piece(u[0], offset, n)
      BY <1>0
    <3>3. QED
      BY <1>2, <1>15, <3>1, <3>2, Zenon
  <2>2. ASSUME NEW i \in 1..m, v[i - 1] = g[i - 1] PROVE v[i] = g[i]
    <3>1. i \in 0..m /\ i - 1 \in 0..m
      BY <1>0
    <3>2. g[i] = part(i) /\ g[i - 1] = part(i - 1)
      BY <3>1
    <3>3. QED
      BY <1>12, <1>15, <2>2, <3>2, Zenon
  <2> HIDE DEF g
  <2>3. QED
    BY <2>1, <2>2 DEF SameRule
<1>17. v[m] = g[m] /\ g[m] = part(m)
  <2>1. m \in 0..m
    BY <1>0
  <2>2. g[m] = part(m)
    BY <2>1
  <2> HIDE DEF g, m
  <2>3. \A i \in 0..m : v[i] = g[i]
    BY <1>0, <1>16, IteratesOnce
  <2>4. QED
    BY <2>1, <2>2, <2>3, Zenon
<1>18. FlattenSeq(D) = u[m] /\ FlattenSeq(vis) = v[m]
  BY <1>0, <1>1, <1>13, <1>14
<1>19. FlattenSeq(vis) = Piece(FlattenSeq(D), offset, n)
  BY <1>17, <1>18, Zenon
<1>20. QED
  BY <1>13, <1>19 DEF vis, D

-----------------------------------------------------------------------------
\* What a container is, and what it is to hold a text.
Formed(d) ==
    /\ d = [chunks |-> d.chunks, bytes |-> d.bytes, max |-> d.max, limit |-> d.limit, file |-> d.file,
            maxChunkSize |-> d.maxChunkSize, maxChunks |-> d.maxChunks]
    /\ d.file = [moved |-> d.file.moved, bytes |-> d.file.bytes] /\ d.file.moved \in BOOLEAN
    /\ d.max \in Nat /\ d.limit \in Nat /\ d.maxChunkSize \in Nat \ {0} /\ d.maxChunks \in Nat \ {0}
Holds(d, s) ==
    /\ Formed(d) /\ s \in Seq(Bytes)
    /\ d.file.moved => d.file.bytes = s /\ d.chunks = << >>
    /\ ~d.file.moved => d.chunks \in Seq(ChunkSet) /\ FlattenSeq(Datas(d.chunks)) = s /\ d.bytes = Len(s)
ContainersIInv == Formed(c) /\ odd \in BOOLEAN /\ (odd \/ Holds(c, text))

\* It has as many bytes as the text.
LEMMA SizeIs == ASSUME NEW d, NEW s, Holds(d, s) PROVE size(d) = Len(s) /\ Len(s) \in Nat /\ s \in Seq(Bytes)
BY DEF Holds, Formed, size

\* A part of it is that part of the text.
LEMMA SeenIs ==
    ASSUME NEW d, NEW s, Holds(d, s), NEW o \in Nat, NEW n \in Nat
    PROVE  FlattenSeq(PiecesTo(d, o, n)) = Piece(s, o, n)
<1>1. s \in Seq(Bytes)
  BY DEF Holds
<1>2. CASE d.file.moved
  <2>1. PiecesTo(d, o, n) = <<Piece(s, o, n)>>
    BY <1>2 DEF PiecesTo, MemPieces, Holds
  <2>2. IsPiece(Bytes, Piece(s, o, n), s, o, n)
    BY <1>1, PieceIs, Zenon
  <2>3. Piece(s, o, n) \in Seq(Bytes)
    BY <2>2 DEF IsPiece
  <2>4. QED
    BY <2>1, <2>3, FlatOfOne
<1>3. CASE ~d.file.moved
  <2>1. PiecesTo(d, o, n) = Visited(d.chunks, o, n) /\ d.chunks \in Seq(ChunkSet) /\ FlattenSeq(Datas(d.chunks)) = s
    BY <1>3 DEF PiecesTo, Holds
  <2>2. QED
    BY <2>1, VisitedIs
<1>4. QED
  BY <1>2, <1>3

LEMMA CopyIs ==
    ASSUME NEW d, NEW s, Holds(d, s), NEW o \in Nat, NEW n \in Nat, o <= Len(s)
    PROVE  /\ copyTo2(d, o, n) = Piece(s, o, Lesser(n, Len(s) - o))
           /\ copyToStream2(d, o, n) = Piece(s, o, Lesser(n, Len(s) - o))
<1>1. size(d) = Len(s) /\ Len(s) \in Nat
  BY SizeIs
<1> DEFINE m == Lesser(n, Len(s) - o)
<1>2. m \in Nat
  BY <1>1 DEF Lesser
<1>3. copyTo2(d, o, n) = FlattenSeq(PiecesTo(d, o, m)) /\ copyToStream2(d, o, n) = FlattenSeq(PiecesTo(d, o, m))
  BY <1>1 DEF copyTo2, copyToStream2
<1> HIDE DEF m
<1>4. FlattenSeq(PiecesTo(d, o, m)) = Piece(s, o, m)
  BY <1>2, SeenIs
<1>5. QED
  BY <1>3, <1>4 DEF m

\* Nothing of a text, and as much as there is of it.
LEMMA PieceOfNone ==
    ASSUME NEW A, NEW s \in Seq(A), NEW o \in Nat
    PROVE  Piece(s, o, 0) = << >>
<1>1. IsPiece(A, Piece(s, o, 0), s, o, 0)
  BY PieceIs, Zenon
<1>2. Piece(s, o, 0) \in Seq(A) /\ Len(Piece(s, o, 0)) = Taken(o, 0, Len(s)) /\ Len(s) \in Nat
  BY <1>1 DEF IsPiece
<1>3. Len(Piece(s, o, 0)) = 0
  BY <1>2 DEF Taken
<1>4. QED
  BY <1>2, <1>3, EmptySeq

LEMMA PieceBehind ==
    ASSUME NEW A, NEW s \in Seq(A), NEW o \in Nat, o > Len(s)
    PROVE  Piece(s, o, Len(s) - o) = << >>
<1> DEFINE m == Lesser(o + (Len(s) - o), Len(s))
           t == SubSeq(s, o + 1, m)
<1>1. Len(s) \in Nat /\ o + (Len(s) - o) = Len(s)
  OBVIOUS
<1>2. m = Len(s)
  BY <1>1 DEF Lesser
<1>3. t = << >>
  <2> HIDE DEF m
  <2>1. \A i \in (o + 1)..m : s[i] \in A
    BY <1>1, <1>2
  <2>2. t \in Seq(A) /\ Len(t) = IF o + 1 <= m THEN m - (o + 1) + 1 ELSE 0
    BY <1>1, <1>2, <2>1, SubSeqProperties
  <2> HIDE DEF t
  <2>a. ~(o + 1 <= m)
    BY <1>1, <1>2
  <2>3. Len(t) = 0
    BY <2>a, <2>2, Zenon
  <2>4. QED
    BY <2>2, <2>3, EmptySeq
<1>4. QED
  BY <1>3 DEF Piece

LEMMA AppendToIs ==
    ASSUME NEW d, NEW s, Holds(d, s), NEW o \in Nat, NEW n \in Nat
    PROVE  /\ appendTo(d, n, o) = IF o > Len(s) /\ n > 0 THEN NotCopied
                                  ELSE Copied(Piece(s, o, Lesser(n, Len(s) - o)))
           /\ copyToStream(d, n, o) = appendTo(d, n, o)
<1>1. size(d) = Len(s) /\ Len(s) \in Nat /\ s \in Seq(Bytes)
  BY SizeIs
<1>2. CASE n = 0
  <2>1. appendTo(d, n, o) = Copied(<< >>) /\ copyToStream(d, n, o) = Copied(<< >>) /\ ~(n > 0)
    BY <1>2 DEF appendTo, copyToStream
  <2>2. CASE o > Len(s)
    <3>1. Lesser(n, Len(s) - o) = Len(s) - o
      BY <1>1, <1>2, <2>2 DEF Lesser
    <3>2. Piece(s, o, Len(s) - o) = << >>
      BY <1>1, <2>2, PieceBehind
    <3>3. QED
      BY <2>1, <3>1, <3>2
  <2>3. CASE ~(o > Len(s))
    <3>1. Lesser(n, Len(s) - o) = 0
      BY <1>1, <1>2, <2>3 DEF Lesser
    <3>2. Piece(s, o, 0) = << >>
      BY <1>1, PieceOfNone
    <3>3. QED
      BY <2>1, <3>1, <3>2
  <2>4. QED
    BY <2>2, <2>3
<1>3. CASE n # 0 /\ o > Len(s)
  BY <1>1, <1>3 DEF appendTo, copyToStream
<1>4. CASE n # 0 /\ ~(o > Len(s))
  <2>1. o <= Len(s)
    BY <1>1, <1>4
  <2>2. copyTo2(d, o, n) = Piece(s, o, Lesser(n, Len(s) - o)) /\ copyToStream2(d, o, n) = Piece(s, o, Lesser(n, Len(s) - o))
    BY <2>1, CopyIs
  <2>3. appendTo(d, n, o) = Copied(copyTo2(d, o, n)) /\ copyToStream(d, n, o) = Copied(copyToStream2(d, o, n))
    BY <1>1, <1>4 DEF appendTo, copyToStream
  <2>4. QED
    BY <1>4, <2>2, <2>3
<1>5. QED
  BY <1>2, <1>3, <1>4

-----------------------------------------------------------------------------
\* What the first chunks hold, and the others.
Upto(chunks, i) == FlattenSeq(Datas(SubSeq(chunks, 1, i)))
LEMMA DatasOfFront ==
    ASSUME NEW chunks \in Seq(ChunkSet), NEW i \in 0..Len(chunks)
    PROVE  Datas(SubSeq(chunks, 1, i)) = SubSeq(Datas(chunks), 1, i) /\ SubSeq(chunks, 1, i) \in Seq(ChunkSet)
<1> DEFINE V == Seq(Bytes)
           m == Len(chunks)
           front == SubSeq(chunks, 1, i)
           D == Datas(chunks)
           E == Datas(front)
           F == SubSeq(D, 1, i)
<1>1. D \in Seq(V) /\ Len(D) = m /\ m \in Nat /\ \A j \in 1..m : D[j] = chunks[j].data
  BY DatasFacts
<1>2. front \in Seq(ChunkSet) /\ Len(front) = i /\ \A j \in 1..i : front[j] = chunks[j]
  BY FrontFacts
<1> HIDE DEF front, D
<1>3. E \in Seq(V) /\ Len(E) = i /\ \A j \in 1..i : E[j] = front[j].data
  BY <1>2, DatasFacts
<1>4. F \in Seq(V) /\ Len(F) = i /\ \A j \in 1..i : F[j] = D[j]
  BY <1>1, FrontFacts
<1> HIDE DEF E, F, m
<1>5. ASSUME NEW j \in 1..i PROVE E[j] = F[j]
  <2>1. j \in 1..m
    BY <1>1 DEF m
  <2>2. QED
    BY <1>1, <1>2, <1>3, <1>4, <2>1
<1>6. E = F
  BY <1>3, <1>4, <1>5, SeqEqual
<1>7. QED
  BY <1>2, <1>6 DEF E, F, D, front

LEMMA UptoFacts ==
    ASSUME NEW chunks \in Seq(ChunkSet)
    PROVE  /\ Upto(chunks, 0) = << >> /\ Upto(chunks, Len(chunks)) = FlattenSeq(Datas(chunks))
           /\ \A i \in 0..Len(chunks) : Upto(chunks, i) \in Seq(Bytes) /\ Len(Upto(chunks, i)) \in Nat
           /\ \A i \in 1..Len(chunks) : /\ Upto(chunks, i) = Upto(chunks, i - 1) \o chunks[i].data
                                        /\ Len(Upto(chunks, i)) = Len(Upto(chunks, i - 1)) + Len(chunks[i].data)
<1> DEFINE V == Seq(Bytes)
           m == Len(chunks)
           D == Datas(chunks)
<1>1. D \in Seq(V) /\ Len(D) = m /\ m \in Nat /\ \A j \in 1..m : D[j] = chunks[j].data /\ chunks[j].data \in V
  BY DatasFacts
<1>2. \A i \in 0..m : Upto(chunks, i) = FlattenSeq(SubSeq(D, 1, i))
  BY DatasOfFront DEF Upto
<1> HIDE DEF D
<1>3. \A i \in 0..m : Upto(chunks, i) \in V /\ Len(Upto(chunks, i)) \in Nat
  <2>1. ASSUME NEW i \in 0..m PROVE Upto(chunks, i) \in V
    <3>1. SubSeq(D, 1, i) \in Seq(V)
      BY <1>1, FrontFacts
    <3>2. QED
      BY <1>2, <3>1, FlatIsText
  <2>2. QED
    BY <2>1
<1>4. Upto(chunks, 0) = << >>
  <2>1. SubSeq(D, 1, 0) \in Seq(V) /\ Len(SubSeq(D, 1, 0)) = 0
    BY <1>1, FrontFacts
  <2>2. SubSeq(D, 1, 0) = << >>
    BY <2>1, EmptySeq
  <2>3. 0 \in 0..m
    BY <1>1
  <2>4. QED
    BY <1>2, <2>2, <2>3, FlatOfNone
<1>5. Upto(chunks, m) = FlattenSeq(D)
  <2> DEFINE F == SubSeq(D, 1, m)
  <2>1. F \in Seq(V) /\ Len(F) = m /\ \A j \in 1..m : F[j] = D[j]
    BY <1>1, FrontFacts
  <2> HIDE DEF F
  <2>2. F = D
    BY <1>1, <2>1, SeqEqual
  <2>3. m \in 0..m
    BY <1>1
  <2>4. Upto(chunks, m) = FlattenSeq(F)
    BY <1>2, <2>3 DEF F
  <2>5. QED
    BY <2>2, <2>4
<1>6. ASSUME NEW i \in 1..m
      PROVE  /\ Upto(chunks, i) = Upto(chunks, i - 1) \o chunks[i].data
             /\ Len(Upto(chunks, i)) = Len(Upto(chunks, i - 1)) + Len(chunks[i].data)
  <2>1. i \in 0..m /\ i - 1 \in 0..m /\ D[i] = chunks[i].data
    BY <1>1
  <2>2. FlattenSeq(SubSeq(D, 1, i)) = FlattenSeq(SubSeq(D, 1, i - 1)) \o D[i]
    BY <1>1, FlatOfNext
  <2>3. Upto(chunks, i) = Upto(chunks, i - 1) \o chunks[i].data
    BY <1>2, <2>1, <2>2
  <2>4. Upto(chunks, i - 1) \in V /\ chunks[i].data \in V
    BY <1>1, <1>3, <2>1
  <2>5. IsJoined(Bytes, Upto(chunks, i - 1) \o chunks[i].data, Upto(chunks, i - 1), chunks[i].data)
    BY <2>4, JoinIs, Zenon
  <2>6. QED
    BY <2>3, <2>5 DEF IsJoined
<1>7. QED
  BY <1>3, <1>4, <1>5, <1>6 DEF D

LEMMA UptoGrows ==
    ASSUME NEW chunks \in Seq(ChunkSet), NEW i \in 0..Len(chunks), NEW j \in i..Len(chunks)
    PROVE  Len(Upto(chunks, i)) <= Len(Upto(chunks, j))
<1> DEFINE m == Len(chunks)
           L(k) == Len(Upto(chunks, k))
           S == {k \in Nat : i + k <= m => L(i) <= L(i + k)}
<1>0. m \in Nat /\ i \in Nat /\ j \in Nat
  OBVIOUS
<1>1. \A k \in 0..m : L(k) \in Nat
  BY UptoFacts
<1>2. \A k \in 1..m : L(k) = L(k - 1) + Len(chunks[k].data) /\ Len(chunks[k].data) \in Nat
  <2>1. \A k \in 1..m : L(k) = L(k - 1) + Len(chunks[k].data)
    BY UptoFacts
  <2>2. \A k \in 1..m : Len(chunks[k].data) \in Nat
    BY DatasFacts
  <2>3. QED
    BY <2>1, <2>2
<1> HIDE DEF L
<1>3. 0 \in S
  <2>1. L(i + 0) = L(i) /\ L(i) \in Nat
    BY <1>0, <1>1
  <2>2. QED
    BY <2>1
<1>4. ASSUME NEW k \in Nat, k \in S PROVE k + 1 \in S
  <2>1. CASE i + (k + 1) <= m
    <3>1. i + k <= m /\ i + (k + 1) \in 1..m /\ (i + (k + 1)) - 1 = i + k /\ i + k \in 0..m
      BY <1>0, <2>1
    <3>2. L(i) <= L(i + k)
      BY <1>4, <3>1
    <3>3. L(i + (k + 1)) = L(i + k) + Len(chunks[i + (k + 1)].data) /\ Len(chunks[i + (k + 1)].data) \in Nat
      BY <1>2, <3>1
    <3>4. L(i) \in Nat /\ L(i + k) \in Nat
      BY <1>0, <1>1, <3>1
    <3>5. L(i) <= L(i + (k + 1))
      BY <3>2, <3>3, <3>4
    <3>6. QED
      BY <3>5
  <2>2. QED
    BY <2>1
<1> HIDE DEF S
<1>5. j - i \in S
  <2>1. j - i \in Nat
    BY <1>0
  <2>2. QED
    BY <1>3, <1>4, <2>1, SetInduction
<1>6. i + (j - i) = j
  BY <1>0
<1>7. L(i) <= L(j)
  BY <1>0, <1>5, <1>6 DEF S
<1>8. QED
  BY <1>7 DEF L

\* Each chunk begins where it believes to.
LEMMA BeginsWhere ==
    ASSUME NEW d, d.chunks \in Seq(ChunkSet), OffsetsHold(d), NEW i \in 1..Len(d.chunks)
    PROVE  /\ d.chunks[i].offset = Len(Upto(d.chunks, i - 1))
           /\ nextOffset(d.chunks[i]) = Len(Upto(d.chunks, i))
<1> DEFINE q == d.chunks
           m == Len(q)
           L(k) == Len(Upto(q, k))
           f == [k \in 0..m |-> IF k = 0 THEN 0 ELSE nextOffset(q[k])]
           g == [k \in 0..m |-> L(k)]
<1>0. m \in Nat /\ L(0) = 0 /\ DOMAIN q = 1..m
  <2>1. Upto(q, 0) = << >>
    BY UptoFacts
  <2>2. QED
    BY <2>1
<1>1. \A k \in 1..m : L(k) = L(k - 1) + Len(q[k].data) /\ Len(q[k].data) \in Nat /\ L(k) \in Nat /\ L(k - 1) \in Nat
  <2>1. \A k \in 1..m : L(k) = L(k - 1) + Len(q[k].data) /\ Len(q[k].data) \in Nat
    <3>1. \A k \in 1..m : L(k) = L(k - 1) + Len(q[k].data)
      BY UptoFacts
    <3>2. \A k \in 1..m : Len(q[k].data) \in Nat
      BY DatasFacts
    <3>3. QED
      BY <3>1, <3>2
  <2>2. \A k \in 0..m : L(k) \in Nat
    BY UptoFacts
  <2> HIDE DEF L
  <2>3. \A k \in 1..m : k \in 0..m /\ k - 1 \in 0..m
    BY <1>0
  <2>4. QED
    BY <2>1, <2>2, <2>3
<1>2. \A k \in 1..m : q[k].offset = IF k = 1 THEN 0 ELSE nextOffset(q[k - 1])
  BY <1>0 DEF OffsetsHold
<1> HIDE DEF q, L
<1>3. \A k \in 1..m : q[k].offset = f[k - 1] /\ f[k] = f[k - 1] + Len(q[k].data)
  <2>1. ASSUME NEW k \in 1..m PROVE q[k].offset = f[k - 1] /\ f[k] = f[k - 1] + Len(q[k].data)
    <3>1. k \in 0..m /\ k - 1 \in 0..m /\ (k = 1 <=> k - 1 = 0) /\ k # 0
      BY <1>0
    <3>2. f[k - 1] = (IF k = 1 THEN 0 ELSE nextOffset(q[k - 1])) /\ f[k] = nextOffset(q[k])
      BY <3>1
    <3>3. q[k].offset = f[k - 1]
      BY <1>2, <3>2
    <3> HIDE DEF f
    <3>4. QED
      BY <3>2, <3>3 DEF nextOffset
  <2>2. QED
    BY <2>1
<1>4. f[0] = g[0] /\ \A k \in 1..m : g[k] = g[k - 1] + Len(q[k].data)
  <2>1. f[0] = g[0]
    BY <1>0
  <2>2. ASSUME NEW k \in 1..m PROVE g[k] = g[k - 1] + Len(q[k].data)
    <3>1. k \in 0..m /\ k - 1 \in 0..m
      BY <1>0
    <3>2. QED
      BY <1>1, <3>1
  <2>3. QED
    BY <2>1, <2>2
<1> HIDE DEF f, g
<1>5. SameRule(m, f, g)
  BY <1>3, <1>4, Zenon DEF SameRule
<1>6. \A k \in 0..m : f[k] = g[k]
  <2> HIDE DEF m
  <2>1. QED
    BY <1>0, <1>5, IteratesOnce
<1>7. i \in 1..m /\ i \in 0..m /\ i - 1 \in 0..m /\ i # 0
  BY <1>0 DEF m, q
<1>8. q[i].offset = g[i - 1] /\ g[i - 1] = L(i - 1) /\ g[i] = L(i) /\ f[i] = nextOffset(q[i])
  BY <1>3, <1>6, <1>7 DEF f, g
<1>9. q[i].offset = L(i - 1) /\ nextOffset(q[i]) = L(i)
  BY <1>6, <1>7, <1>8
<1>10. QED
  BY <1>9 DEF q, L

-----------------------------------------------------------------------------
\* The search for the chunk of an offset finds it.
LEMMA MiddleIs == \A lo, hi \in Nat : lo <= hi => Middle(lo, hi) \in lo..hi
<1> SUFFICES ASSUME NEW lo \in Nat, NEW hi \in Nat, lo < hi PROVE Middle(lo, hi) \in lo..hi
  BY DEF Middle
<1> DEFINE x == hi - lo
           y == (hi + 1 - lo) \div 2
           r == (hi - lo) % 2
<1>1. x \in Nat /\ x >= 1 /\ r \in 0..1 /\ y \in Nat /\ 2 * y <= x + 1 /\ x + 1 < 2 * y + 2
  OBVIOUS
<1>2. Middle(lo, hi) = lo + y - r
  BY DEF Middle
<1> HIDE DEF y, r
<1>3. y >= 1 /\ y <= x
  BY <1>1
<1>4. QED
  BY <1>1, <1>2, <1>3

Probes == [cur : Int, lo : Int, hi : Int]
Looks(q, offset, w) ==
    IF containsOffset(q[w.cur + 1], offset) THEN w
    ELSE IF offset < q[w.cur + 1].offset
         THEN IF w.cur = w.lo THEN w
              ELSE [cur |-> Middle(w.lo, w.cur - 1), lo |-> w.lo, hi |-> w.cur - 1]
         ELSE IF w.cur = w.hi THEN w
              ELSE [cur |-> Middle(w.cur + 1, w.hi), lo |-> w.cur + 1, hi |-> w.hi]
FirstProbe(n) == [cur |-> IF n = 1 THEN 0 ELSE (n \div 2) - 1, lo |-> 0, hi |-> n - 1]

LEMMA ProbesFacts ==
    ASSUME NEW d, d.chunks \in Seq(ChunkSet), NEW offset \in Nat, Len(d.chunks) # 0
    PROVE  \E at : /\ at[0] = FirstProbe(Len(d.chunks))
                   /\ \A k \in 1..Len(d.chunks) : at[k] = Looks(d.chunks, offset, at[k - 1])
                   /\ LET i == at[Len(d.chunks)].cur + 1
                      IN I_Chunk_GetPosForOffset(d, offset) = IF containsOffset(d.chunks[i], offset) THEN i ELSE 0
<1> DEFINE q == d.chunks
           n == Len(q)
           first == FirstProbe(n)
           step == [i \in 1..n |-> [w \in Probes |-> Looks(q, offset, w)]]
<1>0. n \in Nat
  OBVIOUS
<1>1. first \in Probes
  <2>1. n - 1 \in Int /\ (IF n = 1 THEN 0 ELSE (n \div 2) - 1) \in Int
    BY <1>0
  <2>2. QED
    BY <2>1 DEF FirstProbe, Probes
<1>2. ASSUME NEW w \in Probes PROVE Looks(q, offset, w) \in Probes
  <2>1. \A a, b \in Int : Middle(a, b) \in Int
    BY DEF Middle
  <2>2. w.cur \in Int /\ w.lo \in Int /\ w.hi \in Int
    BY DEF Probes
  <2>3. Middle(w.lo, w.cur - 1) \in Int /\ Middle(w.cur + 1, w.hi) \in Int /\ w.cur - 1 \in Int /\ w.cur + 1 \in Int
    <3>1. w.cur - 1 \in Int /\ w.cur + 1 \in Int
      BY <2>2
    <3>2. QED
      BY <2>1, <2>2, <3>1, Zenon
  <2>4. QED
    BY <2>2, <2>3 DEF Looks, Probes
<1>3. step \in StepsOf(n, Probes)
  BY <1>2 DEF StepsOf
<1>4. \A i \in 1..n, w \in Probes : step[i][w] = Looks(q, offset, w)
  OBVIOUS
<1> HIDE DEF step, first, n, q
<1>5. PICK f : Iterated(n, Probes, first, step, f)
  BY <1>0, <1>1, <1>3, Iterates, Zenon
<1>6. f \in [0..n -> Probes] /\ f[0] = first /\ \A i \in 1..n : f[i] = Looks(q, offset, f[i - 1])
  BY <1>4, <1>5 DEF Iterated
<1>7. f = [k \in 0..n |-> IF k = 0 THEN first ELSE Looks(q, offset, f[k - 1])]
  <2>1. f = [k \in 0..n |-> f[k]]
    BY <1>6
  <2>2. \A k \in 0..n : k = 0 \/ k \in 1..n
    BY <1>0
  <2>3. QED
    BY <1>6, <2>1, <2>2, Zenon
<1> DEFINE at == CHOOSE at : at = [k \in 0..n |-> IF k = 0 THEN first ELSE Looks(q, offset, at[k - 1])]
           i == at[n].cur + 1
<1>8. at = [k \in 0..n |-> IF k = 0 THEN first ELSE Looks(q, offset, at[k - 1])]
  BY <1>7, Zenon
<1>9. I_Chunk_GetPosForOffset(d, offset) = IF containsOffset(q[i], offset) THEN i ELSE 0
  BY Zenon DEF I_Chunk_GetPosForOffset, ThatContains, Looks, first, FirstProbe, n, q
<1> HIDE DEF at
<1>10. at[0] = first /\ \A k \in 1..n : at[k] = Looks(q, offset, at[k - 1])
  <2>1. \A k \in 1..n : k \in 0..n /\ k # 0
    BY <1>0
  <2>2. 0 \in 0..n
    BY <1>0
  <2>3. QED
    BY <1>8, <2>1, <2>2, Zenon
<1>11. QED
  BY <1>9, <1>10 DEF first, n, q

\* Between lo and hi there is the chunk, and there are ever less.
Near(q, offset, t, n, w) ==
    /\ w.lo \in Nat /\ w.hi \in Nat /\ w.cur \in w.lo..w.hi /\ w.hi < Len(q) /\ t - 1 \in w.lo..w.hi
    /\ containsOffset(q[w.cur + 1], offset) \/ w.hi - w.lo < n

LEMMA LooksNearer ==
    ASSUME NEW q \in Seq(ChunkSet), NEW offset \in Nat, NEW t \in 1..Len(q), NEW n \in Nat, NEW w,
           Near(q, offset, t, n + 1, w),
           \A i \in 1..Len(q) : offset < q[i].offset => t < i,
           \A i \in 1..Len(q) : ~(offset < q[i].offset) /\ ~containsOffset(q[i], offset) => i < t
    PROVE  Near(q, offset, t, n, Looks(q, offset, w))
<1> DEFINE cur == w.cur
           lo == w.lo
           hi == w.hi
           i == cur + 1
           v == Looks(q, offset, w)
<1>0. /\ lo \in Nat /\ hi \in Nat /\ cur \in lo..hi /\ hi < Len(q) /\ t - 1 \in lo..hi /\ Len(q) \in Nat
      /\ containsOffset(q[i], offset) \/ hi - lo < n + 1
  BY DEF Near
<1>1. CASE containsOffset(q[i], offset)
  <2>1. v = w
    BY <1>1 DEF Looks
  <2>2. QED
    BY <1>0, <1>1, <2>1 DEF Near
<1>2. CASE ~containsOffset(q[i], offset)
  <2>0. i \in 1..Len(q) /\ hi - lo < n + 1 /\ cur \in Nat
    BY <1>0, <1>2, SMTT(30)
  <2>1. CASE offset < q[i].offset
    <3>1. t < i
      BY <2>0, <2>1
    <3> HIDE DEF cur, lo, hi
    <3>2. lo # cur /\ cur - 1 \in Nat /\ lo <= cur - 1 /\ cur - 1 < Len(q) /\ t - 1 \in lo..(cur - 1) /\ (cur - 1) - lo < n
      BY <1>0, <2>0, <3>1
    <3> DEFINE mid == Middle(lo, cur - 1)
    <3>3. mid \in lo..(cur - 1)
      BY <1>0, <3>2, MiddleIs
    <3> HIDE DEF mid
    <3>4. v = [cur |-> mid, lo |-> lo, hi |-> cur - 1]
      BY <1>2, <2>1, <3>2 DEF Looks, cur, lo, hi, mid
    <3> HIDE DEF v
    <3>5. v.cur = mid /\ v.lo = lo /\ v.hi = cur - 1
      BY <3>4
    <3>6. Near(q, offset, t, n, v)
      BY <1>0, <3>2, <3>3, <3>5 DEF Near
    <3>7. QED
      BY <3>6 DEF v
  <2>2. CASE ~(offset < q[i].offset)
    <3>1. i < t
      BY <1>2, <2>0, <2>2
    <3> HIDE DEF cur, lo, hi
    <3>2. hi # cur /\ cur + 1 \in Nat /\ cur + 1 <= hi /\ t - 1 \in (cur + 1)..hi /\ hi - (cur + 1) < n
      BY <1>0, <2>0, <3>1
    <3> DEFINE mid == Middle(cur + 1, hi)
    <3>3. mid \in (cur + 1)..hi
      BY <1>0, <3>2, MiddleIs
    <3> HIDE DEF mid
    <3>4. v = [cur |-> mid, lo |-> cur + 1, hi |-> hi]
      BY <1>2, <2>2, <3>2 DEF Looks, cur, lo, hi, mid
    <3> HIDE DEF v
    <3>5. v.cur = mid /\ v.lo = cur + 1 /\ v.hi = hi
      BY <3>4
    <3>6. Near(q, offset, t, n, v)
      BY <1>0, <3>2, <3>3, <3>5 DEF Near
    <3>7. QED
      BY <3>6 DEF v
  <2>3. QED
    BY <2>1, <2>2
<1>3. QED
  BY <1>1, <1>2

LEMMA ChunkFound ==
    ASSUME NEW d, d.chunks \in Seq(ChunkSet), OffsetsHold(d), NEW offset \in Nat,
           offset < Len(FlattenSeq(Datas(d.chunks)))
    PROVE  /\ I_Chunk_GetPosForOffset(d, offset) \in 1..Len(d.chunks)
           /\ containsOffset(d.chunks[I_Chunk_GetPosForOffset(d, offset)], offset)
<1> DEFINE q == d.chunks
           m == Len(q)
           L(i) == Len(Upto(q, i))
           T == {i \in Nat : i \in 1..m /\ offset < L(i)}
<1>0. m \in Nat /\ L(0) = 0 /\ L(m) = Len(FlattenSeq(Datas(q))) /\ \A i \in 0..m : L(i) \in Nat
  <2>1. Upto(q, 0) = << >> /\ Upto(q, m) = FlattenSeq(Datas(q)) /\ \A i \in 0..m : L(i) \in Nat
    BY UptoFacts
  <2>2. QED
    BY <2>1
<1>1. m \in T
  <2>1. m # 0
    BY <1>0
  <2>2. QED
    BY <1>0, <2>1
<1>2. PICK t \in T : \A y \in T : t <= y
  BY <1>1, LeastNumber
<1>3. t \in 1..m /\ offset < L(t) /\ L(t - 1) <= offset
  <2>1. t \in 1..m /\ offset < L(t) /\ t - 1 \in 0..m
    BY <1>0, <1>2
  <2>2. CASE t = 1
    <3>1. L(t - 1) = 0
      BY <1>0, <2>2
    <3>2. QED
      BY <2>1, <3>1
  <2>3. CASE t # 1
    <3>1. t - 1 \in 1..m /\ ~(t - 1 \in T)
      BY <1>2, <2>1, <2>3
    <3>2. ~(offset < L(t - 1)) /\ L(t - 1) \in Nat
      BY <1>0, <2>1, <3>1
    <3> HIDE DEF L
    <3>3. QED
      BY <2>1, <3>2
  <2>4. QED
    BY <2>2, <2>3
<1>4. \A i \in 1..m : q[i].offset = L(i - 1) /\ nextOffset(q[i]) = L(i)
  BY BeginsWhere
<1>5. ASSUME NEW i \in 1..m, offset < q[i].offset PROVE t < i
  <2> SUFFICES ASSUME i <= t PROVE FALSE
    BY <1>0, <1>3
  <2>1. i - 1 \in 0..m /\ t - 1 \in (i - 1)..m /\ t - 1 \in 0..m
    BY <1>0, <1>3
  <2>2. L(i - 1) <= L(t - 1)
    BY <2>1, UptoGrows
  <2>3. offset < L(i - 1) /\ L(t - 1) <= offset /\ L(i - 1) \in Nat /\ L(t - 1) \in Nat
    BY <1>0, <1>3, <1>4, <1>5, <2>1
  <2> HIDE DEF L
  <2>4. QED
    BY <2>2, <2>3
<1>6. ASSUME NEW i \in 1..m, ~(offset < q[i].offset), ~containsOffset(q[i], offset) PROVE i < t
  <2> SUFFICES ASSUME t <= i PROVE FALSE
    BY <1>0, <1>3
  <2>1. t \in 0..m /\ i \in t..m /\ i \in 0..m /\ i - 1 \in 0..m
    BY <1>0, <1>3
  <2>2. L(t) <= L(i)
    BY <2>1, UptoGrows
  <2>3. L(i) \in Nat /\ L(t) \in Nat /\ L(i - 1) \in Nat /\ offset < L(t)
    BY <1>0, <1>3, <2>1
  <2>4. q[i].offset = L(i - 1) /\ nextOffset(q[i]) = L(i)
    BY <1>4
  <2> HIDE DEF L
  <2>5. L(i - 1) <= offset /\ ~(offset < L(i))
    <3>1. ~(offset < L(i - 1))
      BY <1>6, <2>4
    <3>2. L(i - 1) <= offset
      BY <2>3, <3>1
    <3>3. QED
      BY <1>6, <2>4, <3>2 DEF containsOffset
  <2>6. QED
    BY <2>2, <2>3, <2>5
<1>7. PICK at : /\ at[0] = FirstProbe(m)
                /\ \A k \in 1..m : at[k] = Looks(q, offset, at[k - 1])
                /\ I_Chunk_GetPosForOffset(d, offset) = IF containsOffset(q[at[m].cur + 1], offset) THEN at[m].cur + 1 ELSE 0
  <2>1. m # 0
    BY <1>0, <1>3
  <2>2. QED
    BY <2>1, ProbesFacts
<1> HIDE DEF q, L, T, m
<1> DEFINE S == {k \in Nat : k <= m => Near(q, offset, t, m - k, at[k])}
<1>8. 0 \in S
  <2>1. t \in 1..m /\ m \in Nat /\ m >= 1
    BY <1>0, <1>3
  <2> DEFINE first == IF m = 1 THEN 0 ELSE (m \div 2) - 1
  <2>2. first \in 0..(m - 1)
    BY <2>1
  <2> HIDE DEF first
  <2>3. at[0] = [cur |-> first, lo |-> 0, hi |-> m - 1]
    BY <1>7 DEF FirstProbe, first
  <2>4. at[0].cur = first /\ at[0].lo = 0 /\ at[0].hi = m - 1
    BY <2>3
  <2>5. Near(q, offset, t, m - 0, at[0])
    BY <2>1, <2>2, <2>4 DEF Near, m
  <2>6. QED
    BY <2>5
<1>9. ASSUME NEW k \in Nat, k \in S PROVE k + 1 \in S
  <2> SUFFICES ASSUME k + 1 <= m PROVE Near(q, offset, t, m - (k + 1), at[k + 1])
    OBVIOUS
  <2> DEFINE n == m - (k + 1)
  <2>1. k <= m /\ n \in Nat /\ n + 1 = m - k /\ k + 1 \in 1..m /\ (k + 1) - 1 = k
    BY <1>0
  <2>2. Near(q, offset, t, n + 1, at[k])
    BY <1>9, <2>1
  <2> HIDE DEF n
  <2>3. at[k + 1] = Looks(q, offset, at[k])
    BY <1>7, <2>1
  <2>4. Near(q, offset, t, n, Looks(q, offset, at[k]))
    <3>1. q \in Seq(ChunkSet) /\ t \in 1..Len(q)
      BY <1>3 DEF q, m
    <3>2. \A i \in 1..Len(q) : offset < q[i].offset => t < i
      BY <1>5 DEF m
    <3>3. \A i \in 1..Len(q) : ~(offset < q[i].offset) /\ ~containsOffset(q[i], offset) => i < t
      BY <1>6 DEF m
    <3>4. QED
      BY <2>1, <2>2, <3>1, <3>2, <3>3, LooksNearer
  <2>5. QED
    BY <2>3, <2>4 DEF n
<1> HIDE DEF S
<1>10. m \in S
  BY <1>0, <1>8, <1>9, SetInduction
<1>11. Near(q, offset, t, m - m, at[m])
  BY <1>0, <1>10 DEF S
<1> DEFINE i == at[m].cur + 1
<1>12. i \in 1..m /\ containsOffset(q[i], offset)
  <2> DEFINE w == at[m]
  <2> HIDE DEF w
  <2>1. /\ w.lo \in Nat /\ w.hi \in Nat /\ w.cur \in w.lo..w.hi /\ w.hi < m
        /\ containsOffset(q[w.cur + 1], offset) \/ w.hi - w.lo < m - m
    BY <1>11 DEF Near, w, m
  <2>2. ~(w.hi - w.lo < m - m) /\ w.cur + 1 \in 1..m
    BY <1>0, <2>1, SMTT(30)
  <2>3. QED
    BY <2>1, <2>2 DEF w
<1>13. QED
  BY <1>7, <1>12 DEF q, m

-----------------------------------------------------------------------------
\* A sequence is its front and its rest, and so is the text of chunks.
LEMMA FromFacts ==
    ASSUME NEW S, NEW s \in Seq(S), NEW a \in 0..Len(s)
    PROVE  /\ From(s, a) \in Seq(S) /\ Len(From(s, a)) = Len(s) - a
           /\ \A i \in 1..(Len(s) - a) : From(s, a)[i] = s[a + i]
<1>1. From(s, a) = Rest(s, a)
  BY DEF From, Rest
<1>2. QED
  BY <1>1, RestFacts

LEMMA FrontAndRest ==
    ASSUME NEW S, NEW s \in Seq(S), NEW a \in 0..Len(s)
    PROVE  SubSeq(s, 1, a) \o From(s, a) = s
<1> DEFINE f == SubSeq(s, 1, a)
           r == From(s, a)
           q == f \o r
           n == Len(s)
<1>1. f \in Seq(S) /\ Len(f) = a /\ \A i \in 1..a : f[i] = s[i]
  BY FrontFacts
<1>2. r \in Seq(S) /\ Len(r) = n - a /\ \A i \in 1..(n - a) : r[i] = s[a + i]
  BY FromFacts
<1>0. n \in Nat /\ a \in 0..n
  OBVIOUS
<1> HIDE DEF f, r, n
<1>3. IsJoined(S, q, f, r)
  BY <1>1, <1>2, JoinIs, Zenon
<1> HIDE DEF q
<1>4. /\ q \in Seq(S) /\ Len(q) = n
      /\ (\A i \in 1..a : q[i] = f[i]) /\ (\A i \in 1..(n - a) : q[a + i] = r[i])
  BY <1>0, <1>1, <1>2, <1>3 DEF IsJoined
<1>5. ASSUME NEW i \in 1..n PROVE q[i] = s[i]
  <2>1. CASE i <= a
    BY <1>0, <1>1, <1>4, <2>1
  <2>2. CASE ~(i <= a)
    <3>1. i - a \in 1..(n - a) /\ a + (i - a) = i
      BY <1>0, <2>2
    <3>2. q[a + (i - a)] = r[i - a] /\ r[i - a] = s[a + (i - a)]
      BY <1>2, <1>4, <3>1, Zenon
    <3>3. QED
      BY <3>1, <3>2
  <2>3. QED
    BY <2>1, <2>2
<1>6. q = s
  BY <1>4, <1>5, SeqEqual DEF n
<1>7. QED
  BY <1>6 DEF q, f, r

LEMMA DatasOfJoined ==
    ASSUME NEW a \in Seq(ChunkSet), NEW b \in Seq(ChunkSet)
    PROVE  Datas(a \o b) = Datas(a) \o Datas(b) /\ a \o b \in Seq(ChunkSet)
<1> DEFINE V == Seq(Bytes)
           q == a \o b
           x == Datas(a)
           y == Datas(b)
           z == Datas(q)
           w == x \o y
<1>1. IsJoined(ChunkSet, q, a, b)
  BY JoinIs, Zenon
<1> HIDE DEF q
<1>a. q \in Seq(ChunkSet)
  BY <1>1 DEF IsJoined
<1>2. x \in Seq(V) /\ Len(x) = Len(a) /\ \A i \in 1..Len(a) : x[i] = a[i].data
  BY DatasFacts
<1>3. y \in Seq(V) /\ Len(y) = Len(b) /\ \A i \in 1..Len(b) : y[i] = b[i].data
  BY DatasFacts
<1>4. z \in Seq(V) /\ Len(z) = Len(q) /\ \A i \in 1..Len(q) : z[i] = q[i].data
  BY <1>a, DatasFacts
<1> HIDE DEF x, y, z, V
<1>5. IsJoined(V, w, x, y)
  BY <1>2, <1>3, JoinIs, Zenon
<1> HIDE DEF w
<1>0. Len(a) \in Nat /\ Len(b) \in Nat
  OBVIOUS
<1>6. w \in Seq(V) /\ Len(w) = Len(a) + Len(b) /\ Len(z) = Len(a) + Len(b) /\ Len(q) = Len(a) + Len(b)
  BY <1>1, <1>2, <1>3, <1>4, <1>5, Zenon DEF IsJoined
<1>7. ASSUME NEW i \in 1..Len(z) PROVE z[i] = w[i]
  <2>1. CASE i <= Len(a)
    <3>1. i \in 1..Len(a) /\ i \in 1..Len(q)
      BY <1>0, <1>6, <2>1
    <3>2. z[i] = q[i].data /\ q[i] = a[i] /\ w[i] = x[i] /\ x[i] = a[i].data
      BY <1>1, <1>2, <1>4, <1>5, <3>1, Zenon DEF IsJoined
    <3>3. QED
      BY <3>2
  <2>2. CASE ~(i <= Len(a))
    <3> DEFINE j == i - Len(a)
    <3>1. j \in 1..Len(b) /\ Len(a) + j = i /\ i \in 1..Len(q)
      BY <1>0, <1>6, <2>2
    <3> HIDE DEF j
    <3>2. z[i] = q[i].data /\ q[Len(a) + j] = b[j] /\ w[Len(x) + j] = y[j] /\ y[j] = b[j].data /\ Len(x) = Len(a)
      BY <1>1, <1>2, <1>3, <1>4, <1>5, <3>1, Zenon DEF IsJoined
    <3>3. QED
      BY <3>1, <3>2
  <2>3. QED
    BY <2>1, <2>2
<1>8. z = w
  BY <1>4, <1>6, <1>7, SeqEqual
<1>9. QED
  BY <1>a, <1>8 DEF z, w, x, y, q

LEMMA TextSplit ==
    ASSUME NEW chunks \in Seq(ChunkSet), NEW i \in 0..Len(chunks)
    PROVE  /\ From(chunks, i) \in Seq(ChunkSet) /\ SubSeq(chunks, 1, i) \in Seq(ChunkSet)
           /\ FlattenSeq(Datas(From(chunks, i))) \in Seq(Bytes)
           /\ FlattenSeq(Datas(chunks)) = Upto(chunks, i) \o FlattenSeq(Datas(From(chunks, i)))
<1> DEFINE f == SubSeq(chunks, 1, i)
           r == From(chunks, i)
<1>1. f \in Seq(ChunkSet) /\ r \in Seq(ChunkSet) /\ f \o r = chunks
  <2>1. f \in Seq(ChunkSet)
    BY FrontFacts
  <2>2. r \in Seq(ChunkSet)
    BY FromFacts
  <2>3. f \o r = chunks
    BY FrontAndRest
  <2>4. QED
    BY <2>1, <2>2, <2>3
<1>2. Upto(chunks, i) = FlattenSeq(Datas(f))
  BY DEF Upto
<1> HIDE DEF f, r
<1>3. Datas(f) \in Seq(Seq(Bytes)) /\ Datas(r) \in Seq(Seq(Bytes)) /\ Datas(f \o r) = Datas(f) \o Datas(r)
  BY <1>1, DatasFacts, DatasOfJoined
<1>4. FlattenSeq(Datas(f) \o Datas(r)) = FlattenSeq(Datas(f)) \o FlattenSeq(Datas(r))
  BY <1>3, FlatOfJoined
<1>5. FlattenSeq(Datas(r)) \in Seq(Bytes)
  BY <1>3, FlatIsText
<1>6. QED
  BY <1>1, <1>2, <1>3, <1>4, <1>5 DEF f, r

\* Reading by offset, while the offsets hold.
LEMMA CopyOutIs ==
    ASSUME NEW d, NEW s, Holds(d, s), d.file.moved \/ OffsetsHold(d), NEW o \in Nat, NEW n \in Nat
    PROVE  copyOut(d, n, o) = IF o + n > Len(s) /\ n > 0 THEN NotCopied ELSE Copied(Piece(s, o, n))
<1>1. size(d) = Len(s) /\ Len(s) \in Nat /\ s \in Seq(Bytes)
  BY SizeIs
<1>2. CASE n = 0
  <2>1. Piece(s, o, 0) = << >>
    BY <1>1, PieceOfNone
  <2>2. QED
    BY <1>2, <2>1 DEF copyOut
<1>3. CASE n # 0 /\ o + n > Len(s)
  BY <1>1, <1>3 DEF copyOut
<1>4. CASE n # 0 /\ ~(o + n > Len(s))
  <2>0. copyOut(d, n, o) = copyOut2(d, n, o)
    BY <1>1, <1>4 DEF copyOut
  <2>1. CASE d.file.moved
    <3>1. copyOut2(d, n, o) = Copied(Piece(s, o, n))
      BY <2>1 DEF copyOut2, Holds
    <3>2. QED
      BY <1>4, <2>0, <3>1
  <2>2. CASE ~d.file.moved
    <3> DEFINE q == d.chunks
               i == I_Chunk_GetPosForOffset(d, o)
               b == FlattenSeq(Datas(From(q, i - 1)))
               a == Upto(q, i - 1)
               skip == o - q[i].offset
    <3>1. q \in Seq(ChunkSet) /\ OffsetsHold(d) /\ FlattenSeq(Datas(q)) = s
      BY <2>2 DEF Holds
    <3>2. o < Len(s)
      BY <1>1, <1>4
    <3>3. i \in 1..Len(q) /\ containsOffset(q[i], o)
      BY <3>1, <3>2, ChunkFound
    <3>4. q[i].offset = Len(a)
      BY <3>1, <3>3, BeginsWhere
    <3>5. i # 0 /\ i - 1 \in 0..Len(q)
      BY <3>3
    <3>6. copyOut2(d, n, o) = Copied(FlattenSeq(Visited(From(q, i - 1), skip, n)))
      BY <2>2, <3>5 DEF copyOut2, CopiedFrom
    <3> HIDE DEF i, q
    <3>7. From(q, i - 1) \in Seq(ChunkSet) /\ b \in Seq(Bytes) /\ s = a \o b
      BY <3>1, <3>5, TextSplit
    <3>8. a \in Seq(Bytes) /\ Len(a) \in Nat
      BY <3>1, <3>5, UptoFacts
    <3>9. Len(a) <= o
      BY <3>3, <3>4 DEF containsOffset
    <3>10. skip \in Nat /\ skip = o - Len(a)
      BY <3>4, <3>8, <3>9
    <3> HIDE DEF skip
    <3>11. FlattenSeq(Visited(From(q, i - 1), skip, n)) = Piece(b, skip, n)
      BY <3>7, <3>10, VisitedIs
    <3> HIDE DEF a, b
    <3>12. Piece(s, o, n) = Piece(a, o, n) \o Piece(b, Skipped(o, Len(a)), n - Taken(o, n, Len(a)))
      BY <3>7, <3>8, PieceOfJoined
    <3>13. Skipped(o, Len(a)) = skip /\ n - Taken(o, n, Len(a)) = n
      BY <3>8, <3>9, <3>10 DEF Skipped, Taken
    <3>14. IsPiece(Bytes, Piece(a, o, n), a, o, n) /\ IsPiece(Bytes, Piece(b, skip, n), b, skip, n)
      BY <3>7, <3>8, <3>10, PieceIs, Zenon
    <3>15. Piece(a, o, n) = << >> /\ Piece(b, skip, n) \in Seq(Bytes)
      <4>1. Piece(a, o, n) \in Seq(Bytes) /\ Len(Piece(a, o, n)) = Taken(o, n, Len(a)) /\ Piece(b, skip, n) \in Seq(Bytes)
        BY <3>14 DEF IsPiece
      <4>2. Len(Piece(a, o, n)) = 0
        BY <3>8, <3>9, <4>1 DEF Taken
      <4>3. QED
        BY <4>1, <4>2, EmptySeq
    <3>16. Piece(s, o, n) = Piece(b, skip, n)
      <4>1. << >> \o Piece(b, skip, n) = Piece(b, skip, n)
        BY <3>15, ConcatEmptySeq
      <4>2. QED
        BY <3>12, <3>13, <3>15, <4>1
    <3>17. QED
      BY <1>4, <2>0, <3>6, <3>11, <3>16
  <2>3. QED
    BY <2>1, <2>2
<1>5. QED
  BY <1>2, <1>3, <1>4

-----------------------------------------------------------------------------
\* Parts of parts, and what is seen by a reference.
LEMMA PieceOfPiece ==
    ASSUME NEW A, NEW s \in Seq(A), NEW o \in Nat, NEW r \in Nat, o + r <= Len(s), NEW k \in Nat, k <= r
    PROVE  Piece(Piece(s, o, r), 0, k) = Piece(s, o, k) /\ Len(Piece(s, o, r)) = r /\ Len(Piece(s, o, k)) = k
           /\ Piece(s, o, k) \in Seq(A)
<1> DEFINE part == Piece(s, o, r)
           x == Piece(part, 0, k)
           y == Piece(s, o, k)
<1>0. Len(s) \in Nat
  OBVIOUS
<1>1. IsPiece(A, part, s, o, r) /\ IsPiece(A, y, s, o, k)
  BY PieceIs, Zenon
<1> HIDE DEF part, y
<1>2. part \in Seq(A) /\ Len(part) = r /\ \A i \in 1..r : part[i] = s[o + i]
  <2>1. Taken(o, r, Len(s)) = r
    BY <1>0 DEF Taken
  <2>2. QED
    BY <1>1, <2>1 DEF IsPiece
<1>3. y \in Seq(A) /\ Len(y) = k /\ \A i \in 1..k : y[i] = s[o + i]
  <2>1. Taken(o, k, Len(s)) = k
    BY <1>0 DEF Taken
  <2>2. QED
    BY <1>1, <2>1 DEF IsPiece
<1>4. IsPiece(A, x, part, 0, k)
  <2>1. 0 \in Nat
    OBVIOUS
  <2>2. QED
    BY <1>2, <2>1, PieceIs, Zenon
<1> HIDE DEF x
<1>5. x \in Seq(A) /\ Len(x) = k /\ \A i \in 1..k : x[i] = part[0 + i]
  <2>1. Taken(0, k, r) = k
    BY DEF Taken
  <2>2. QED
    BY <1>2, <1>4, <2>1 DEF IsPiece
<1>6. ASSUME NEW i \in 1..k PROVE x[i] = y[i]
  <2>1. i \in 1..r /\ 0 + i = i
    OBVIOUS
  <2>2. QED
    BY <1>2, <1>3, <1>5, <2>1
<1>7. x = y
  BY <1>3, <1>5, <1>6, SeqEqual
<1>8. QED
  BY <1>2, <1>3, <1>7 DEF x, y, part

\* A comparison that minds case sees whether the part is the needle.
Sees(d, s, needle, o) == compare2(d, needle, TRUE, o) <=> Piece(s, o, Len(needle)) = needle
LEMMA SeesWhether ==
    ASSUME NEW d, NEW s, Holds(d, s), NEW needle \in Seq(Bytes), NEW o \in Nat, needle # << >>
    PROVE  Sees(d, s, needle, o)
<1> DEFINE k == Len(needle)
           part == Piece(s, o, k)
<1>1. size(d) = Len(s) /\ Len(s) \in Nat /\ s \in Seq(Bytes) /\ k \in Nat /\ k > 0
  <2>1. size(d) = Len(s) /\ Len(s) \in Nat /\ s \in Seq(Bytes)
    BY SizeIs
  <2>2. k \in Nat /\ k # 0
    BY EmptySeq
  <2>3. QED
    BY <2>1, <2>2
<1> HIDE DEF k
<1>2. IsPiece(Bytes, part, s, o, k)
  BY <1>1, PieceIs, Zenon
<1> HIDE DEF part
<1>3. part \in Seq(Bytes) /\ Len(part) = Taken(o, k, Len(s))
  BY <1>2 DEF IsPiece
<1>4. CASE o + k <= Len(s)
  <2>1. copyTo2(d, o, k) = part
    <3>1. o <= Len(s) /\ Lesser(k, Len(s) - o) = k
      BY <1>1, <1>4 DEF Lesser
    <3>2. copyTo2(d, o, k) = Piece(s, o, Lesser(k, Len(s) - o))
      BY <1>1, <3>1, CopyIs
    <3>3. QED
      BY <3>1, <3>2 DEF part
  <2>2. compare2(d, needle, TRUE, o) <=> Matches2(part, needle, TRUE)
    BY <1>1, <1>4, <2>1 DEF compare2, k
  <2>3. Matches2(part, needle, TRUE) <=> part = needle
    <3>1. DOMAIN part = 1..Len(part)
      BY <1>3
    <3>2. Matches2(part, needle, TRUE) <=> Len(part) = Len(needle) /\ \A i \in 1..Len(part) : part[i] = needle[i]
      BY <3>1, Zenon DEF Matches2
    <3>3. (Len(part) = Len(needle) /\ \A i \in 1..Len(part) : part[i] = needle[i]) => part = needle
      BY <1>3, SeqEqual
    <3>4. QED
      BY <3>2, <3>3
  <2>4. QED
    BY <2>2, <2>3 DEF part, k, Sees
<1>5. CASE ~(o + k <= Len(s))
  <2>1. ~compare2(d, needle, TRUE, o)
    BY <1>1, <1>5 DEF compare2, k
  <2>2. Taken(o, k, Len(s)) < k
    BY <1>1, <1>5 DEF Taken
  <2>3. Len(part) # Len(needle)
    BY <1>1, <1>3, <2>2 DEF k
  <2>4. part # needle
    BY <2>3
  <2>5. QED
    BY <2>1, <2>4 DEF part, k, Sees
<1>6. QED
  BY <1>4, <1>5

\* What a reference to a part of a container copies, and what it compares.
RefSees(d, s, o, max, n) ==
    LET part == Piece(s, o, Lesser(max, Len(s) - o)) IN
    /\ refAppendTo(d, o, max, n, 0) = Copied(Piece(part, 0, Lesser(n, Len(part))))
    /\ \A needle \in {<< >>, Piece(s, o, n)} :
           refCompare(d, o, max, needle, TRUE, 0) <=> Piece(part, 0, Len(needle)) = needle
LEMMA RefsSee ==
    ASSUME NEW d, NEW s, Holds(d, s), NEW o \in Nat, o <= Len(s), NEW max \in Nat, NEW n \in Nat
    PROVE  RefSees(d, s, o, max, n)
<1> DEFINE r == Lesser(max, Len(s) - o)
           part == Piece(s, o, r)
<1>1. size(d) = Len(s) /\ Len(s) \in Nat /\ s \in Seq(Bytes)
  BY SizeIs
<1>2. r \in Nat /\ o + r <= Len(s)
  BY <1>1 DEF Lesser
<1>3. refSize(d, o, max) = r
  BY <1>1 DEF refSize
<1> HIDE DEF r
<1>4. \A k \in Nat : k <= r => Piece(part, 0, k) = Piece(s, o, k) /\ Len(part) = r
  <2>1. ASSUME NEW k \in Nat, k <= r PROVE Piece(part, 0, k) = Piece(s, o, k) /\ Len(part) = r
    BY <1>1, <1>2, <2>1, PieceOfPiece
  <2>2. QED
    BY <2>1
<1>5. Len(part) = r /\ part \in Seq(Bytes)
  <2>1. r <= r
    BY <1>2
  <2>2. QED
    BY <1>1, <1>2, <2>1, PieceOfPiece
<1> HIDE DEF part
<1>6. refAppendTo(d, o, max, n, 0) = Copied(Piece(part, 0, Lesser(n, Len(part))))
  <2> DEFINE k == Lesser(n, r)
  <2>1. k \in Nat /\ k <= r /\ r - 0 = r /\ o + 0 = o /\ ~(0 > r) /\ Lesser(k, Len(s) - o) = k
    BY <1>1, <1>2 DEF Lesser
  <2>2. CASE n = 0
    <3>1. k = 0
      BY <1>2, <2>2 DEF Lesser
    <3>2. Piece(part, 0, 0) = << >>
      BY <1>5, PieceOfNone
    <3>3. refAppendTo(d, o, max, n, 0) = Copied(<< >>)
      BY <2>2 DEF refAppendTo
    <3>4. QED
      BY <1>5, <3>1, <3>2, <3>3
  <2>3. CASE n # 0
    <3>1. refAppendTo(d, o, max, n, 0) = appendTo(d, k, o)
      BY <1>3, <2>1, <2>3 DEF refAppendTo
    <3> HIDE DEF k
    <3>2. appendTo(d, k, o) = Copied(Piece(s, o, Lesser(k, Len(s) - o)))
      <4>1. ~(o > Len(s))
        BY <1>1
      <4>2. appendTo(d, k, o) = IF o > Len(s) /\ k > 0 THEN NotCopied ELSE Copied(Piece(s, o, Lesser(k, Len(s) - o)))
        BY <2>1, AppendToIs
      <4>3. QED
        BY <4>1, <4>2
    <3>3. Piece(part, 0, k) = Piece(s, o, k)
      BY <1>4, <2>1
    <3>4. QED
      BY <1>5, <2>1, <3>1, <3>2, <3>3 DEF k
  <2>4. QED
    BY <2>2, <2>3
<1>7. ASSUME NEW needle \in {<< >>, Piece(s, o, n)}
      PROVE  refCompare(d, o, max, needle, TRUE, 0) <=> Piece(part, 0, Len(needle)) = needle
  <2>1. CASE needle = << >>
    <3>1. Piece(part, 0, 0) = << >> /\ Len(needle) = 0
      BY <1>5, <2>1, PieceOfNone
    <3>2. QED
      BY <2>1, <3>1 DEF refCompare
  <2>2. CASE needle # << >>
    <3> DEFINE k == Len(needle)
    <3>1. needle \in Seq(Bytes) /\ k \in Nat
      <4>1. IsPiece(Bytes, Piece(s, o, n), s, o, n)
        BY <1>1, PieceIs, Zenon
      <4>2. needle \in Seq(Bytes)
        BY <1>7, <2>2, <4>1 DEF IsPiece
      <4>3. QED
        BY <4>2
    <3>a. Sees(d, s, needle, o)
      BY <2>2, <3>1, SeesWhether
    <3>2. compare2(d, needle, TRUE, o) <=> Piece(s, o, k) = needle
      BY <3>a DEF Sees
    <3>3. refCompare(d, o, max, needle, TRUE, 0) <=> k <= r /\ compare2(d, needle, TRUE, o)
      <4>1. 0 + k = k /\ o + 0 = o
        BY <3>1
      <4>2. QED
        BY <1>3, <2>2, <4>1 DEF refCompare, compare
    <3> HIDE DEF k
    <3>4. CASE k <= r
      <4>1. Piece(part, 0, k) = Piece(s, o, k)
        BY <1>4, <3>1, <3>4
      <4>2. QED
        BY <3>2, <3>3, <3>4, <4>1 DEF k
    <3>5. CASE ~(k <= r)
      <4>1. IsPiece(Bytes, Piece(part, 0, k), part, 0, k)
        <5>1. 0 \in Nat
          OBVIOUS
        <5>2. QED
          BY <1>5, <3>1, <5>1, PieceIs, Zenon
      <4>2. Len(Piece(part, 0, k)) = Taken(0, k, r)
        BY <1>5, <4>1 DEF IsPiece
      <4>3. Taken(0, k, r) # k
        BY <1>2, <3>1, <3>5 DEF Taken
      <4>4. Piece(part, 0, k) # needle
        BY <4>2, <4>3 DEF k
      <4>5. QED
        BY <3>3, <3>5, <4>4 DEF k
    <3>6. QED
      BY <3>4, <3>5
  <2>3. QED
    BY <2>1, <2>2
<1>8. QED
  BY <1>6, <1>7 DEF part, r, RefSees

\* Everything that is read from a container is of its text.
LEMMA ReadsRight == ASSUME MaxText \in Nat, Holds(c, text) PROVE ReadsAgree
<1> SUFFICES ASSUME NEW o \in 0..MaxText, NEW n \in 0..MaxText, NEW max \in {1, MaxText}
             PROVE  /\ size(c) = Len(text)
                    /\ copyToStream(c, n, o) = appendTo(c, n, o)
                    /\ appendTo(c, n, o) = (IF o > Len(text) /\ n > 0 THEN NotCopied ELSE Copied(Piece(text, o, Lesser(n, Len(text) - o))))
                    /\ (c.file.moved \/ OffsetsHold(c)) =>
                           copyOut(c, n, o) = (IF o + n > Len(text) /\ n > 0 THEN NotCopied ELSE Copied(Piece(text, o, n)))
                    /\ o <= Len(text) =>
                           LET part == Piece(text, o, Lesser(max, Len(text) - o)) IN
                           /\ refAppendTo(c, o, max, n, 0) = Copied(Piece(part, 0, Lesser(n, Len(part))))
                           /\ \A needle \in {<< >>, Piece(text, o, n)} :
                                  refCompare(c, o, max, needle, TRUE, 0) <=> Piece(part, 0, Len(needle)) = needle
  BY Zenon DEF ReadsAgree
<1>1. o \in Nat /\ n \in Nat /\ max \in Nat
  OBVIOUS
<1>2. size(c) = Len(text)
  BY SizeIs
<1>3. /\ appendTo(c, n, o) = (IF o > Len(text) /\ n > 0 THEN NotCopied ELSE Copied(Piece(text, o, Lesser(n, Len(text) - o))))
      /\ copyToStream(c, n, o) = appendTo(c, n, o)
  BY <1>1, AppendToIs
<1>4. c.file.moved \/ OffsetsHold(c) => copyOut(c, n, o) = (IF o + n > Len(text) /\ n > 0 THEN NotCopied ELSE Copied(Piece(text, o, n)))
  BY <1>1, CopyOutIs
<1>5. o <= Len(text) => LET part == Piece(text, o, Lesser(max, Len(text) - o)) IN
                        /\ refAppendTo(c, o, max, n, 0) = Copied(Piece(part, 0, Lesser(n, Len(part))))
                        /\ \A needle \in {<< >>, Piece(text, o, n)} :
                               refCompare(c, o, max, needle, TRUE, 0) <=> Piece(part, 0, Len(needle)) = needle
  <2>1. o <= Len(text) => RefSees(c, text, o, max, n)
    BY <1>1, RefsSee
  <2>2. QED
    BY <2>1, Zenon DEF RefSees
<1>6. QED
  BY <1>2, <1>3, <1>4, <1>5, Zenon

-----------------------------------------------------------------------------
(***************************************************************************)
(* Searching.                                                              *)
(***************************************************************************)
\* The least of some numbers.
LEMMA LeastIs == ASSUME NEW S, S \subseteq Nat, S # {} PROVE Min(S) \in S /\ \A x \in S : Min(S) <= x
<1>1. PICK m \in S : \A y \in S : m <= y
  BY LeastNumber
<1>2. S \in SUBSET Int /\ m \in S
  BY <1>1
<1>3. Min(S) = m
  BY <1>1, <1>2, MinIs
<1>4. QED
  BY <1>1, <1>3

\* Where a search for a byte that stops at either case of it stops.
Stands(s, byte, offset, r) ==
    LET is(p) == Fold[s[p + 1]] = Fold[byte] IN
    \/ r = NotFound /\ \A p \in offset..(Len(s) - 1) : ~is(p)
    \/ \E q \in offset..(Len(s) - 1) : r = At(q) /\ \A p \in offset..(q - 1) : ~is(p)

LEMMA StopsAt ==
    ASSUME NEW d, NEW s, Holds(d, s), NEW byte, NEW offset \in Nat, offset <= Len(s)
    PROVE  Stands(s, byte, offset, findChar(d, byte, offset, Len(s) - offset, TRUE))
<1> DEFINE n == Len(s)
           space == n - offset
           r == findChar(d, byte, offset, space, TRUE)
           is(p) == Fold[s[p + 1]] = Fold[byte]
<1>1. size(d) = n /\ n \in Nat /\ s \in Seq(Bytes) /\ space \in Nat /\ offset + space = n
  BY SizeIs
<1> HIDE DEF space
<1>2. CASE d.file.moved
  <2> DEFINE hits == {p \in (offset + 1)..n : Fold[s[p]] = Fold[byte]}
  <2>1. d.file.bytes = s
    BY <1>2 DEF Holds
  <2>2. r = MemFindChar(s, byte, offset, 0, FALSE)
    BY <1>2, <2>1 DEF findChar
  <2>3. MemFindChar(s, byte, offset, 0, FALSE)
            = IF s = << >> \/ offset + 0 > n \/ hits = {} THEN NotFound ELSE At(Min(hits) - 1)
    <3>1. offset + (n - offset) = n
      BY <1>1
    <3> DEFINE all == {p \in (offset + 1)..(offset + (n - offset)) : Stops(s[p], byte, ~FALSE)}
    <3>2. all = hits
      BY <3>1 DEF Stops
    <3>3. MemFindChar(s, byte, offset, 0, FALSE)
              = IF s = << >> \/ offset + 0 > n \/ all = {} THEN NotFound ELSE At(Min(all) - 1)
      BY DEF MemFindChar
    <3>4. QED
      BY <3>2, <3>3, Zenon
  <2>4. s = << >> => hits = {}
    BY <1>1
  <2>5. ~(offset + 0 > n)
    BY <1>1
  <2>6. CASE hits = {}
    <3>1. r = NotFound
      BY <2>2, <2>3, <2>6
    <3>2. \A p \in offset..(n - 1) : ~is(p)
      <4>1. ASSUME NEW p \in offset..(n - 1), is(p) PROVE FALSE
        <5>1. p + 1 \in hits
          BY <1>1, <4>1
        <5>2. QED
          BY <2>6, <5>1
      <4>2. QED
        BY <4>1
    <3>3. QED
      BY <3>1, <3>2 DEF Stands, space
  <2>7. CASE hits # {}
    <3> DEFINE m == Min(hits)
    <3>1. hits \subseteq Nat
      BY <1>1
    <3>2. m \in hits /\ \A x \in hits : m <= x
      <4> HIDE DEF hits
      <4>1. QED
        BY <2>7, <3>1, LeastIs
    <3>3. r = At(m - 1)
      BY <2>2, <2>3, <2>4, <2>5, <2>7
    <3> HIDE DEF m, r
    <3>a. m \in (offset + 1)..n
      BY <3>2
    <3>4. m - 1 \in offset..(n - 1)
      BY <1>1, <3>a
    <3>5. ASSUME NEW p \in offset..((m - 1) - 1), is(p) PROVE FALSE
      <4>1. p + 1 \in (offset + 1)..n /\ ~(m <= p + 1)
        BY <1>1, <3>a
      <4>2. p + 1 \in hits
        BY <3>5, <4>1
      <4>3. QED
        BY <3>2, <4>1, <4>2
    <3>6. Stands(s, byte, offset, r)
      BY <3>3, <3>4, <3>5 DEF Stands
    <3>7. QED
      BY <3>6 DEF r, space
  <2>8. QED
    BY <2>6, <2>7
<1>3. CASE ~d.file.moved
  <2> DEFINE seen == FlattenSeq(Visited(d.chunks, offset, space))
             hits == {p \in DOMAIN seen : Stops(seen[p], byte, TRUE)}
  <2>1. d.chunks \in Seq(ChunkSet) /\ FlattenSeq(Datas(d.chunks)) = s
    BY <1>3 DEF Holds
  <2>2. seen = Piece(s, offset, space)
    BY <1>1, <2>1, VisitedIs
  <2>3. r = IF offset + space > n \/ hits = {} THEN NotFound ELSE At(offset + Min(hits) - 1)
    BY <1>1, <1>3 DEF findChar, FirstStop
  <2> HIDE DEF seen
  <2>4. seen \in Seq(Bytes) /\ Len(seen) = space /\ \A i \in 1..space : seen[i] = s[offset + i]
    <3>1. IsPiece(Bytes, Piece(s, offset, space), s, offset, space)
      BY <1>1, PieceIs, Zenon
    <3>2. Taken(offset, space, n) = space
      BY <1>1 DEF Taken
    <3>3. QED
      BY <2>2, <3>1, <3>2 DEF IsPiece
  <2>a. hits = {p \in 1..space : Fold[s[offset + p]] = Fold[byte]}
    <3>1. DOMAIN seen = 1..space
      BY <2>4
    <3>2. QED
      BY <2>4, <3>1 DEF Stops
  <2>5. ~(offset + space > n)
    BY <1>1
  <2>6. CASE hits = {}
    <3>1. r = NotFound
      BY <2>3, <2>6
    <3>2. \A p \in offset..(n - 1) : ~is(p)
      <4>1. ASSUME NEW p \in offset..(n - 1), is(p) PROVE FALSE
        <5>1. (p + 1) - offset \in 1..space /\ offset + ((p + 1) - offset) = p + 1
          BY <1>1
        <5>2. (p + 1) - offset \in hits
          BY <2>a, <4>1, <5>1
        <5>3. QED
          BY <2>6, <5>2
      <4>2. QED
        BY <4>1
    <3>3. QED
      BY <3>1, <3>2 DEF Stands, space
  <2>7. CASE hits # {}
    <3> DEFINE m == Min(hits)
               q == offset + m - 1
    <3>1. hits \subseteq Nat
      <4> HIDE DEF hits
      <4>1. hits \subseteq 1..space
        BY <2>a
      <4>2. 1..space \subseteq Nat
        BY <1>1
      <4>3. QED
        BY <4>1, <4>2
    <3>2. m \in hits /\ \A x \in hits : m <= x
      <4> HIDE DEF hits
      <4>1. QED
        BY <2>7, <3>1, LeastIs
    <3>3. r = At(q)
      BY <2>3, <2>5, <2>7
    <3> HIDE DEF m, r, hits
    <3>a. m \in 1..space
      BY <2>a, <3>2
    <3>4. q \in offset..(n - 1)
      BY <1>1, <3>a
    <3>5. ASSUME NEW p \in offset..(q - 1), is(p) PROVE FALSE
      <4> DEFINE x == (p + 1) - offset
      <4>1. x \in 1..space /\ ~(m <= x) /\ offset + x = p + 1
        BY <1>1, <3>a
      <4> HIDE DEF x
      <4>2. x \in hits
        BY <2>a, <3>5, <4>1
      <4>3. QED
        BY <3>2, <4>1, <4>2
    <3> HIDE DEF q
    <3>6. Stands(s, byte, offset, r)
      BY <3>3, <3>4, <3>5 DEF Stands
    <3>7. QED
      BY <3>6 DEF r, space
  <2>8. QED
    BY <2>6, <2>7
<1>4. QED
  BY <1>2, <1>3

\* The places a search can come to, and from each the next.
Places(d, offset, space) ==
    {NotFound} \cup {At(p) : p \in {x \in Nat : d.file.moved \/ x \in offset..(offset + space - 1)}}
Tries(d, needle, cs, offset, space, pos) ==
    LET left == space - (pos.at - offset) IN
    IF ~pos.ok \/ compare2(d, needle, cs, pos.at) THEN pos
    ELSE IF left = 0 THEN NotFound
    ELSE findChar(d, needle[1], pos.at + 1, left - 1, cs)

LEMMA PlacesFacts ==
    ASSUME NEW d, NEW offset \in Nat, NEW space \in Nat, NEW w \in Places(d, offset, space)
    PROVE  \/ w = NotFound /\ ~w.ok
           \/ w = At(w.at) /\ w.ok /\ w.at \in Nat /\ (d.file.moved \/ w.at \in offset..(offset + space - 1))
<1>1. CASE w = NotFound
  BY <1>1 DEF NotFound
<1>2. CASE w # NotFound
  <2>1. PICK p \in Nat : w = At(p) /\ (d.file.moved \/ p \in offset..(offset + space - 1))
    BY <1>2 DEF Places
  <2>2. w.ok /\ w.at = p
    BY <2>1 DEF At
  <2>3. QED
    BY <2>1, <2>2
<1>3. QED
  BY <1>1, <1>2

LEMMA ComesToPlaces ==
    ASSUME NEW d, NEW s, Holds(d, s), NEW byte, NEW cs, NEW offset \in Nat, NEW space \in Nat,
           NEW from \in Nat, offset <= from, NEW left,
           d.file.moved \/ (left \in Nat /\ from + left = offset + space)
    PROVE  findChar(d, byte, from, left, cs) \in Places(d, offset, space)
<1> DEFINE n == Len(s)
           r == findChar(d, byte, from, left, cs)
<1>1. size(d) = n /\ n \in Nat /\ s \in Seq(Bytes)
  BY SizeIs
<1>2. NotFound \in Places(d, offset, space)
  BY DEF Places
<1>3. CASE d.file.moved
  <2> DEFINE hits == {p \in (from + 1)..(from + (n - from)) : Stops(s[p], byte, ~FALSE)}
  <2>1. r = MemFindChar(s, byte, from, 0, FALSE)
    BY <1>3 DEF findChar, Holds
  <2>2. r = NotFound \/ (hits # {} /\ r = At(Min(hits) - 1))
    <3>1. MemFindChar(s, byte, from, 0, FALSE)
              = IF s = << >> \/ from + 0 > n \/ hits = {} THEN NotFound ELSE At(Min(hits) - 1)
      BY DEF MemFindChar
    <3> HIDE DEF hits, r
    <3>2. QED
      BY <2>1, <3>1, Zenon
  <2>3. CASE hits # {} /\ r = At(Min(hits) - 1)
    <3>1. hits \subseteq Nat /\ \A x \in hits : x > 0
      BY <1>1
    <3> DEFINE m == Min(hits)
    <3>2. m \in hits
      <4> HIDE DEF hits
      <4>1. QED
        BY <2>3, <3>1, LeastIs
    <3> HIDE DEF m, hits
    <3>3. m - 1 \in Nat
      BY <3>1, <3>2
    <3>4. r = At(m - 1)
      BY <2>3 DEF m
    <3>5. QED
      BY <1>3, <3>3, <3>4 DEF Places
  <2>4. QED
    BY <1>2, <2>2, <2>3
<1>4. CASE ~d.file.moved
  <2> DEFINE seen == FlattenSeq(Visited(d.chunks, from, left))
             hits == {p \in DOMAIN seen : Stops(seen[p], byte, cs)}
  <2>0. left \in Nat /\ from + left = offset + space
    BY <1>4
  <2>1. d.chunks \in Seq(ChunkSet) /\ FlattenSeq(Datas(d.chunks)) = s
    BY <1>4 DEF Holds
  <2>2. seen = Piece(s, from, left)
    BY <2>0, <2>1, VisitedIs
  <2>3. r = NotFound \/ (hits # {} /\ r = At(from + Min(hits) - 1))
    <3>1. r = IF from + left > size(d) \/ hits = {} THEN NotFound ELSE At(from + Min(hits) - 1)
      BY <1>4 DEF findChar, FirstStop
    <3> HIDE DEF hits, r
    <3>2. QED
      BY <3>1, Zenon
  <2> HIDE DEF seen
  <2>4. DOMAIN seen \subseteq 1..left
    <3>1. IsPiece(Bytes, Piece(s, from, left), s, from, left)
      BY <1>1, <2>0, PieceIs, Zenon
    <3>2. seen \in Seq(Bytes) /\ Len(seen) = Taken(from, left, n)
      BY <2>2, <3>1 DEF IsPiece
    <3>3. Taken(from, left, n) \in Nat /\ Taken(from, left, n) <= left
      BY <1>1, <2>0 DEF Taken
    <3>4. DOMAIN seen = 1..Len(seen)
      BY <3>2
    <3>5. QED
      BY <2>0, <3>2, <3>3, <3>4
  <2>5. CASE hits # {} /\ r = At(from + Min(hits) - 1)
    <3> DEFINE m == Min(hits)
    <3>1. hits \subseteq 1..left
      BY <2>4
    <3>2. m \in hits
      <4> HIDE DEF hits
      <4>1. hits \subseteq Nat
        BY <2>0, <3>1
      <4>2. QED
        BY <2>5, <4>1, LeastIs
    <3>3. r = At(from + m - 1)
      BY <2>5
    <3> HIDE DEF m, hits, r
    <3>4. m \in 1..left
      BY <3>1, <3>2
    <3>5. from + m - 1 \in Nat /\ from + m - 1 \in offset..(offset + space - 1)
      BY <2>0, <3>4
    <3>6. r \in Places(d, offset, space)
      BY <3>3, <3>5 DEF Places
    <3>7. QED
      BY <3>6 DEF r
  <2>6. QED
    BY <1>2, <2>3, <2>5
<1>5. QED
  BY <1>3, <1>4

\* The search keeps with each place whether the needle is there.
LEMMA TriesAreTried ==
    ASSUME NEW d, NEW needle, NEW cs, NEW offset, NEW space, NEW p
    PROVE  TriesOn(d, needle, cs, offset, space, Tried(d, needle, cs, p))
             = Tried(d, needle, cs, Tries(d, needle, cs, offset, space, p))
<1> DEFINE w == Tried(d, needle, cs, p)
           is == compare2(d, needle, cs, p.at)
           left == space - (p.at - offset)
           next == IF left = 0 THEN NotFound ELSE findChar(d, needle[1], p.at + 1, left - 1, cs)
<1>1. w.place = p /\ w.is = (p.ok /\ is)
  BY DEF Tried
<1> HIDE DEF w, is
<1>2. CASE ~p.ok \/ is
  <2>1. ~w.place.ok \/ w.is
    BY <1>1, <1>2
  <2>2. TriesOn(d, needle, cs, offset, space, w) = w
    BY <2>1 DEF TriesOn
  <2>3. Tries(d, needle, cs, offset, space, p) = p
    BY <1>2 DEF Tries, is
  <2>4. QED
    BY <2>2, <2>3 DEF w
<1>3. CASE ~(~p.ok \/ is)
  <2>1. ~(~w.place.ok \/ w.is)
    BY <1>1, <1>3
  <2>2. TriesOn(d, needle, cs, offset, space, w) = Tried(d, needle, cs, next)
    BY <1>1, <2>1 DEF TriesOn
  <2>3. Tries(d, needle, cs, offset, space, p) = next
    BY <1>3 DEF Tries, is
  <2>4. QED
    BY <2>2, <2>3 DEF w
<1>4. QED
  BY <1>2, <1>3

\* The search comes to one place after another.
Searched(d, needle, cs, offset, space, tried) ==
    /\ tried \in [0..size(d) -> Places(d, offset, space)]
    /\ tried[0] = findChar(d, needle[1], offset, space, cs)
    /\ \A k \in 1..size(d) : tried[k] = Tries(d, needle, cs, offset, space, tried[k - 1])
    /\ LET last == tried[size(d)]
       IN SearchFrom(d, needle, cs, offset, space) = IF last.ok /\ compare2(d, needle, cs, last.at) THEN last ELSE NotFound

LEMMA SearchFacts ==
    ASSUME NEW d, NEW s, Holds(d, s), NEW needle, NEW cs, NEW offset \in Nat, NEW space \in Nat
    PROVE  \E tried : Searched(d, needle, cs, offset, space, tried)
<1> DEFINE n == size(d)
           V == Places(d, offset, space)
           first == findChar(d, needle[1], offset, space, cs)
           T(w) == Tries(d, needle, cs, offset, space, w)
           step == [i \in 1..n |-> [w \in V |-> T(w)]]
<1>0. n \in Nat
  BY SizeIs
<1>1. first \in V
  BY ComesToPlaces
<1>2. ASSUME NEW w \in V PROVE T(w) \in V
  <2> DEFINE left == space - (w.at - offset)
             next == findChar(d, needle[1], w.at + 1, left - 1, cs)
  <2>1. NotFound \in V
    BY DEF Places
  <2>2. CASE ~w.ok
    BY <2>2 DEF Tries
  <2>3. CASE w.ok
    <3>1. w.at \in Nat /\ (d.file.moved \/ w.at \in offset..(offset + space - 1))
      BY <2>3, PlacesFacts
    <3>2. d.file.moved \/ (offset <= w.at + 1 /\ left - 1 \in Nat /\ (w.at + 1) + (left - 1) = offset + space)
      BY <3>1
    <3>3. CASE ~d.file.moved
      <4>1. w.at + 1 \in Nat /\ offset <= w.at + 1 /\ left - 1 \in Nat /\ (w.at + 1) + (left - 1) = offset + space
        BY <3>1, <3>2, <3>3
      <4>2. next \in V
        BY <4>1, ComesToPlaces
      <4>3. QED
        BY <2>1, <4>2 DEF Tries
    <3>4. CASE d.file.moved
      <4>1. w.at + 1 \in Nat
        BY <3>1
      <4>2. findChar(d, needle[1], w.at + 1, left - 1, cs) \in Places(d, 0, 0)
        <5>1. 0 \in Nat /\ 0 <= w.at + 1
          BY <4>1
        <5>2. QED
          BY <3>4, <4>1, <5>1, ComesToPlaces
      <4>3. Places(d, 0, 0) = V
        BY <3>4 DEF Places
      <4>4. QED
        BY <2>1, <4>2, <4>3 DEF Tries
    <3>5. QED
      BY <3>3, <3>4
  <2>4. QED
    BY <2>2, <2>3
<1>3. step \in StepsOf(n, V)
  BY <1>2 DEF StepsOf
<1>4. \A i \in 1..n, w \in V : step[i][w] = T(w)
  OBVIOUS
<1> HIDE DEF step, first, n, V
<1>5. PICK f : Iterated(n, V, first, step, f)
  BY <1>0, <1>1, <1>3, Iterates, Zenon
<1>6. f \in [0..n -> V] /\ f[0] = first /\ \A i \in 1..n : f[i] = T(f[i - 1])
  BY <1>4, <1>5 DEF Iterated
<1>7. f = [k \in 0..n |-> IF k = 0 THEN first ELSE T(f[k - 1])]
  <2>1. f = [k \in 0..n |-> f[k]]
    BY <1>6
  <2>2. \A k \in 0..n : k = 0 \/ k \in 1..n
    BY <1>0
  <2>3. QED
    BY <1>6, <2>1, <2>2, Zenon
<1> DEFINE W(p) == Tried(d, needle, cs, p)
           N(w) == TriesOn(d, needle, cs, offset, space, w)
           g == [k \in 0..n |-> W(f[k])]
<1>8. g = [k \in 0..n |-> IF k = 0 THEN W(first) ELSE N(g[k - 1])]
  <2>1. \A p : N(W(p)) = W(T(p))
    BY TriesAreTried
  <2> HIDE DEF W, N, T
  <2>2. \A k \in 0..n : k = 0 \/ (k \in 1..n /\ k - 1 \in 0..n)
    BY <1>0
  <2>3. \A k \in 0..n : g[k] = W(f[k])
    OBVIOUS
  <2>4. \A k \in 0..n : W(f[k]) = IF k = 0 THEN W(first) ELSE N(g[k - 1])
    <3> SUFFICES ASSUME NEW k \in 0..n PROVE W(f[k]) = IF k = 0 THEN W(first) ELSE N(g[k - 1])
      OBVIOUS
    <3> HIDE DEF g
    <3>1. CASE k = 0
      BY <1>6, <3>1
    <3>2. CASE k # 0
      <4>1. k \in 1..n /\ k - 1 \in 0..n
        BY <2>2, <3>2
      <4>2. f[k] = T(f[k - 1]) /\ g[k - 1] = W(f[k - 1])
        BY <1>6, <2>3, <4>1
      <4>3. W(f[k]) = N(g[k - 1])
        BY <2>1, <4>2
      <4>4. QED
        BY <3>2, <4>3
    <3>3. QED
      BY <3>1, <3>2
  <2>5. QED
    BY <2>4, Zenon
<1> DEFINE tried == CHOOSE tried : tried = [k \in 0..n |-> IF k = 0 THEN W(first) ELSE N(tried[k - 1])]
<1>9. tried = [k \in 0..n |-> IF k = 0 THEN W(first) ELSE N(tried[k - 1])]
  BY <1>8, Zenon
<1>10. SearchFrom(d, needle, cs, offset, space) = IF tried[n].is THEN tried[n].place ELSE NotFound
  BY Zenon DEF SearchFrom, PlaceOf, W, N, first, n
<1> HIDE DEF tried, g, W, N
<1>11. tried[0] = g[0] /\ \A k \in 1..n : tried[k] = N(tried[k - 1]) /\ g[k] = N(g[k - 1])
  <2>1. \A k \in 1..n : k \in 0..n /\ k # 0
    BY <1>0
  <2>2. 0 \in 0..n
    BY <1>0
  <2>3. QED
    BY <1>8, <1>9, <2>1, <2>2, Zenon
<1>12. SameRule(n, tried, g)
  BY <1>11, Zenon DEF SameRule
<1>13. tried[n] = W(f[n])
  <2>1. n \in 0..n
    BY <1>0
  <2>2. tried[n] = g[n]
    BY <1>0, <1>12, <2>1, IteratesOnce
  <2>3. QED
    BY <2>1, <2>2 DEF g
<1>14. LET last == f[n]
       IN SearchFrom(d, needle, cs, offset, space) = IF last.ok /\ compare2(d, needle, cs, last.at) THEN last ELSE NotFound
  <2> DEFINE last == f[n]
             is == compare2(d, needle, cs, last.at)
  <2> HIDE DEF is, last
  <2>1. tried[n] = [place |-> last, is |-> last.ok /\ is]
    BY <1>13, Zenon DEF W, Tried, last, is
  <2>2. tried[n].place = last /\ tried[n].is = (last.ok /\ is)
    BY <2>1
  <2>3. QED
    BY <1>10, <2>2, Zenon DEF last, is
<1>15. Searched(d, needle, cs, offset, space, f)
  BY <1>6, <1>14, Zenon DEF Searched, n, V, first
<1>16. QED
  BY <1>15

\* Where a text has a needle, and that a search finds the first such place.
HasAt(s, needle, p) == Piece(s, p, Len(needle)) = needle
Finds(s, needle, o, r) ==
    \/ r = NotFound /\ \A p \in o..(Len(s) - 1) : ~HasAt(s, needle, p)
    \/ \E q \in o..(Len(s) - 1) : r = At(q) /\ HasAt(s, needle, q) /\ \A p \in o..(q - 1) : ~HasAt(s, needle, p)

LEMMA HasBegins ==
    ASSUME NEW s \in Seq(Bytes), NEW needle \in Seq(Bytes), needle # << >>, NEW p \in Nat, HasAt(s, needle, p)
    PROVE  p + Len(needle) <= Len(s) /\ s[p + 1] = needle[1] /\ Len(needle) \in Nat /\ Len(needle) > 0
<1> DEFINE k == Len(needle)
           part == Piece(s, p, k)
<1>1. k \in Nat /\ k > 0 /\ Len(s) \in Nat
  <2>1. k \in Nat /\ k # 0
    BY EmptySeq
  <2>2. QED
    BY <2>1
<1> HIDE DEF k
<1>2. IsPiece(Bytes, part, s, p, k)
  BY <1>1, PieceIs, Zenon
<1>3. part = needle
  BY DEF HasAt, k
<1> HIDE DEF part
<1>4. k = Taken(p, k, Len(s)) /\ \A i \in 1..k : needle[i] = s[p + i]
  BY <1>2, <1>3, Zenon DEF IsPiece, k
<1>5. p + k <= Len(s)
  BY <1>1, <1>4 DEF Taken
<1>6. needle[1] = s[p + 1]
  BY <1>1, <1>4
<1>7. QED
  BY <1>1, <1>5, <1>6 DEF k

\* Where a search stands after k steps.
Stood(d, s, needle, o, k, w) ==
    \/ w = NotFound /\ \A p \in o..(Len(s) - 1) : ~HasAt(s, needle, p)
    \/ \E q \in o..(Len(s) - 1) :
          /\ w = At(q) /\ \A p \in o..(q - 1) : ~HasAt(s, needle, p)
          /\ compare2(d, needle, TRUE, q) \/ q >= o + k

LEMMA StopsBefore ==
    ASSUME NEW d, NEW s, Holds(d, s), NEW needle \in Seq(Bytes), needle # << >>, NEW o \in Nat,
           NEW k \in Nat, NEW from \in Nat, o + k <= from, from <= Len(s),
           \A p \in o..(from - 1) : ~HasAt(s, needle, p)
    PROVE  Stood(d, s, needle, o, k, findChar(d, needle[1], from, Len(s) - from, TRUE))
<1> DEFINE n == Len(s)
           r == findChar(d, needle[1], from, n - from, TRUE)
           is(p) == Fold[s[p + 1]] = Fold[needle[1]]
<1>1. size(d) = n /\ n \in Nat /\ s \in Seq(Bytes)
  BY SizeIs
<1>2. Stands(s, needle[1], from, r)
  BY StopsAt
<1> HIDE DEF r
<1>3. \A p \in Nat : HasAt(s, needle, p) => is(p)
  <2>1. ASSUME NEW p \in Nat, HasAt(s, needle, p) PROVE is(p)
    <3>1. s[p + 1] = needle[1]
      BY <1>1, <2>1, HasBegins
    <3>2. QED
      BY <3>1
  <2>2. QED
    BY <2>1
<1>4. \/ r = NotFound /\ \A p \in from..(n - 1) : ~is(p)
      \/ \E q \in from..(n - 1) : r = At(q) /\ \A p \in from..(q - 1) : ~is(p)
  BY <1>2, Zenon DEF Stands
<1> HIDE DEF is
<1>5. ASSUME NEW q \in from..n, \A p \in from..(q - 1) : ~is(p) PROVE \A p \in o..(q - 1) : ~HasAt(s, needle, p)
  <2>1. ASSUME NEW p \in o..(q - 1), HasAt(s, needle, p) PROVE FALSE
    <3>1. p \in Nat /\ (p \in o..(from - 1) \/ p \in from..(q - 1))
      OBVIOUS
    <3>2. is(p)
      BY <1>3, <2>1, <3>1
    <3>3. QED
      BY <1>5, <2>1, <3>1, <3>2
  <2>2. QED
    BY <2>1
<1>6. CASE r = NotFound /\ \A p \in from..(n - 1) : ~is(p)
  <2>1. n \in from..n
    BY <1>1
  <2>2. \A p \in o..(n - 1) : ~HasAt(s, needle, p)
    BY <1>5, <1>6, <2>1
  <2>3. Stood(d, s, needle, o, k, r)
    BY <1>6, <2>2 DEF Stood
  <2>4. QED
    BY <2>3 DEF r
<1>7. CASE \E q \in from..(n - 1) : r = At(q) /\ \A p \in from..(q - 1) : ~is(p)
  <2>1. PICK q \in from..(n - 1) : r = At(q) /\ \A p \in from..(q - 1) : ~is(p)
    BY <1>7
  <2>2. q \in from..n /\ q \in o..(n - 1) /\ q >= o + k
    BY <1>1
  <2>3. \A p \in o..(q - 1) : ~HasAt(s, needle, p)
    BY <1>5, <2>1, <2>2
  <2>4. Stood(d, s, needle, o, k, r)
    BY <2>1, <2>2, <2>3 DEF Stood
  <2>5. QED
    BY <2>4 DEF r
<1>8. QED
  BY <1>4, <1>6, <1>7

LEMMA TriesStand ==
    ASSUME NEW d, NEW s, Holds(d, s), NEW needle \in Seq(Bytes), needle # << >>, NEW o \in Nat, o <= Len(s),
           NEW k \in Nat, NEW w, Stood(d, s, needle, o, k, w)
    PROVE  Stood(d, s, needle, o, k + 1, Tries(d, needle, TRUE, o, Len(s) - o, w))
<1> DEFINE n == Len(s)
           v == Tries(d, needle, TRUE, o, n - o, w)
<1>1. size(d) = n /\ n \in Nat /\ s \in Seq(Bytes)
  BY SizeIs
<1>2. CASE w = NotFound /\ \A p \in o..(n - 1) : ~HasAt(s, needle, p)
  <2>1. v = w
    BY <1>2 DEF Tries, NotFound
  <2>2. QED
    BY <1>2, <2>1 DEF Stood
<1>3. CASE \E q \in o..(n - 1) :
              /\ w = At(q) /\ \A p \in o..(q - 1) : ~HasAt(s, needle, p)
              /\ compare2(d, needle, TRUE, q) \/ q >= o + k
  <2>1. PICK q \in o..(n - 1) :
              /\ w = At(q) /\ \A p \in o..(q - 1) : ~HasAt(s, needle, p)
              /\ compare2(d, needle, TRUE, q) \/ q >= o + k
    BY <1>3
  <2>2. w.ok /\ w.at = q
    BY <2>1 DEF At
  <2>3. CASE compare2(d, needle, TRUE, q)
    <3>1. v = w
      BY <2>2, <2>3 DEF Tries
    <3>2. QED
      BY <2>1, <2>3, <3>1 DEF Stood
  <2>4. CASE ~compare2(d, needle, TRUE, q)
    <3>a. q \in Nat
      OBVIOUS
    <3>b. q >= o + k
      BY <2>1, <2>4, Zenon
    <3>1. q >= o + k /\ q \in Nat
      BY <3>a, <3>b
    <3>2. v = findChar(d, needle[1], q + 1, n - (q + 1), TRUE)
      <4>1. (n - o) - (q - o) # 0 /\ ((n - o) - (q - o)) - 1 = n - (q + 1)
        BY <1>1
      <4>2. v = findChar(d, needle[1], q + 1, ((n - o) - (q - o)) - 1, TRUE)
        BY <2>2, <2>4, <4>1 DEF Tries
      <4>3. QED
        BY <4>1, <4>2
    <3>3. ~HasAt(s, needle, q)
      <4>1. Sees(d, s, needle, q)
        BY <3>1, SeesWhether
      <4>2. QED
        BY <2>4, <4>1 DEF Sees, HasAt
    <3>4. \A p \in o..((q + 1) - 1) : ~HasAt(s, needle, p)
      <4>1. \A p \in o..((q + 1) - 1) : p = q \/ p \in o..(q - 1)
        BY <3>1
      <4>2. QED
        BY <2>1, <3>3, <4>1
    <3>5. q + 1 \in Nat /\ o + (k + 1) <= q + 1 /\ q + 1 <= n /\ k + 1 \in Nat
      BY <1>1, <3>1
    <3>6. Stood(d, s, needle, o, k + 1, findChar(d, needle[1], q + 1, n - (q + 1), TRUE))
      BY <3>4, <3>5, StopsBefore
    <3>7. QED
      BY <3>2, <3>6
  <2>5. QED
    BY <2>3, <2>4
<1>4. QED
  BY <1>2, <1>3 DEF Stood

LEMMA SearchIs ==
    ASSUME NEW d, NEW s, Holds(d, s), NEW needle \in Seq(Bytes), needle # << >>, NEW o \in Nat, o <= Len(s)
    PROVE  Finds(s, needle, o, SearchFrom(d, needle, TRUE, o, Len(s) - o))
<1> DEFINE n == Len(s)
           space == n - o
<1>1. size(d) = n /\ n \in Nat /\ s \in Seq(Bytes) /\ space \in Nat
  BY SizeIs
<1>2. PICK tried : Searched(d, needle, TRUE, o, space, tried)
  BY <1>1, SearchFacts
<1>3. /\ tried[0] = findChar(d, needle[1], o, space, TRUE)
      /\ \A k \in 1..n : tried[k] = Tries(d, needle, TRUE, o, space, tried[k - 1])
      /\ SearchFrom(d, needle, TRUE, o, space)
             = IF tried[n].ok /\ compare2(d, needle, TRUE, tried[n].at) THEN tried[n] ELSE NotFound
  BY <1>1, <1>2 DEF Searched
<1> DEFINE S == {k \in Nat : k <= n => Stood(d, s, needle, o, k, tried[k])}
<1>4. 0 \in S
  <2>1. 0 \in Nat /\ o + 0 <= o /\ \A p \in o..(o - 1) : ~HasAt(s, needle, p)
    OBVIOUS
  <2>2. Stood(d, s, needle, o, 0, findChar(d, needle[1], o, n - o, TRUE))
    BY <2>1, StopsBefore
  <2>3. QED
    BY <1>3, <2>2
<1>5. ASSUME NEW k \in Nat, k \in S PROVE k + 1 \in S
  <2> SUFFICES ASSUME k + 1 <= n PROVE Stood(d, s, needle, o, k + 1, tried[k + 1])
    OBVIOUS
  <2>1. Stood(d, s, needle, o, k, tried[k])
    BY <1>1, <1>5
  <2>2. k + 1 \in 1..n /\ (k + 1) - 1 = k
    BY <1>1
  <2>3. tried[k + 1] = Tries(d, needle, TRUE, o, n - o, tried[k])
    BY <1>3, <2>2
  <2>4. QED
    BY <2>1, <2>3, TriesStand
<1> HIDE DEF S
<1>6. n \in S
  BY <1>1, <1>4, <1>5, SetInduction
<1>7. Stood(d, s, needle, o, n, tried[n])
  BY <1>1, <1>6 DEF S
<1> DEFINE w == tried[n]
           r == SearchFrom(d, needle, TRUE, o, space)
<1>8. r = IF w.ok /\ compare2(d, needle, TRUE, w.at) THEN w ELSE NotFound
  BY <1>3
<1> HIDE DEF w, r
<1>9. CASE w = NotFound /\ \A p \in o..(n - 1) : ~HasAt(s, needle, p)
  <2>1. r = NotFound
    BY <1>8, <1>9
  <2>2. Finds(s, needle, o, r)
    BY <1>9, <2>1 DEF Finds
  <2>3. QED
    BY <2>2 DEF r
<1>10. CASE \E q \in o..(n - 1) :
              /\ w = At(q) /\ \A p \in o..(q - 1) : ~HasAt(s, needle, p)
              /\ compare2(d, needle, TRUE, q) \/ q >= o + n
  <2>1. PICK q \in o..(n - 1) :
              /\ w = At(q) /\ \A p \in o..(q - 1) : ~HasAt(s, needle, p)
              /\ compare2(d, needle, TRUE, q) \/ q >= o + n
    BY <1>10
  <2>2. w.ok /\ w.at = q /\ q \in Nat /\ compare2(d, needle, TRUE, q)
    <3>1. ~(q >= o + n) /\ q \in Nat
      BY <1>1
    <3>2. QED
      BY <2>1, <3>1 DEF At
  <2>3. r = At(q)
    BY <1>8, <2>1, <2>2
  <2>4. HasAt(s, needle, q)
    <3>1. Sees(d, s, needle, q)
      BY <2>2, SeesWhether
    <3>2. QED
      BY <2>2, <3>1 DEF Sees, HasAt
  <2>5. Finds(s, needle, o, r)
    BY <2>1, <2>3, <2>4 DEF Finds
  <2>6. QED
    BY <2>5 DEF r
<1>11. QED
  BY <1>7, <1>9, <1>10 DEF Stood, w

\* What find answers, and with what compare agrees.
LEMMA FindIs ==
    ASSUME NEW d, NEW s, Holds(d, s), NEW needle \in Seq(Bytes), needle # << >>, NEW o \in Nat, o <= Len(s)
    PROVE  Finds(s, needle, o, find(d, needle, TRUE, o, 0))
<1> DEFINE n == Len(s)
           r == find(d, needle, TRUE, o, 0)
<1>1. size(d) = n /\ n \in Nat /\ s \in Seq(Bytes)
  BY SizeIs
<1>2. r = IF o > n \/ n - o = 0 \/ n - o < Len(needle) THEN NotFound
          ELSE SearchFrom(d, needle, TRUE, o, n - o)
  BY <1>1 DEF find
<1>3. CASE n - o = 0 \/ n - o < Len(needle)
  <2>1. r = NotFound
    BY <1>2, <1>3
  <2>2. ASSUME NEW p \in o..(n - 1), HasAt(s, needle, p) PROVE FALSE
    <3>1. p \in Nat
      OBVIOUS
    <3>2. p + Len(needle) <= n /\ Len(needle) \in Nat /\ Len(needle) > 0
      BY <1>1, <2>2, <3>1, HasBegins
    <3>3. QED
      BY <1>1, <1>3, <3>2
  <2> HIDE DEF r
  <2>3. Finds(s, needle, o, r)
    BY <2>1, <2>2 DEF Finds
  <2>4. QED
    BY <2>3 DEF r
<1>4. CASE ~(n - o = 0 \/ n - o < Len(needle))
  <2>a. ~(o > n)
    BY <1>1
  <2>1. r = SearchFrom(d, needle, TRUE, o, n - o)
    BY <1>2, <1>4, <2>a, Zenon
  <2>2. QED
    BY <2>1, SearchIs
<1>5. QED
  BY <1>3, <1>4

LEMMA SearchesRight == ASSUME Holds(c, text) PROVE SearchesAgree
<1>1. text \in Seq(Bytes) /\ Len(text) \in Nat
  BY SizeIs
<1>2. ASSUME NEW needle \in Texts(2) \ {<< >>}, NEW o \in 0..Len(text)
      PROVE  LET first == FirstAt(text, needle, o)
                 f == find(c, needle, TRUE, o, 0)
             IN /\ f.ok = first.ok
                /\ f.ok => f.at = first.at
                /\ compare(c, needle, TRUE, o) <=> (first.ok /\ first.at = o)
  <2> DEFINE n == Len(text)
             hits == {p \in o..n : Piece(text, p, Len(needle)) = needle}
             first == FirstAt(text, needle, o)
             f == find(c, needle, TRUE, o, 0)
  <2>1. needle \in Seq(Bytes) /\ needle # << >> /\ o \in Nat /\ o <= n
    <3>1. PICK k \in 0..2 : needle \in [1..k -> Bytes]
      BY DEF Texts
    <3>2. QED
      BY <1>1, <3>1
  <2>2. Finds(text, needle, o, f)
    BY <2>1, FindIs
  <2>3. first = IF hits = {} THEN NotFound ELSE At(Min(hits))
    BY DEF FirstAt
  <2>4. \A p \in o..n : HasAt(text, needle, p) => p \in o..(n - 1) /\ p \in hits
    <3>1. ASSUME NEW p \in o..n, HasAt(text, needle, p) PROVE p \in o..(n - 1) /\ p \in hits
      <4>1. p \in Nat
        BY <2>1
      <4>2. p + Len(needle) <= n /\ Len(needle) \in Nat /\ Len(needle) > 0
        BY <1>1, <2>1, <3>1, <4>1, HasBegins
      <4>3. p \in o..(n - 1)
        BY <1>1, <4>2
      <4>4. QED
        BY <3>1, <4>3 DEF HasAt
    <3>2. QED
      BY <3>1
  <2>5. \A p \in hits : p \in o..n /\ HasAt(text, needle, p)
    BY DEF HasAt
  <2>6. compare(c, needle, TRUE, o) <=> HasAt(text, needle, o)
    <3>1. Sees(c, text, needle, o)
      BY <2>1, SeesWhether
    <3>2. QED
      BY <2>1, <3>1 DEF Sees, HasAt, compare
  <2> HIDE DEF hits, first, f
  <2>7. CASE f = NotFound /\ \A p \in o..(n - 1) : ~HasAt(text, needle, p)
    <3>1. \A p \in o..n : ~HasAt(text, needle, p)
      BY <2>4, <2>7
    <3>2. hits = {}
      BY <2>5, <3>1
    <3>3. first = NotFound /\ ~HasAt(text, needle, o)
      <4>1. o \in o..n
        BY <1>1, <2>1
      <4>2. QED
        BY <2>3, <3>1, <3>2, <4>1
    <3>4. ~NotFound.ok
      BY DEF NotFound
    <3>5. f.ok = first.ok /\ (f.ok => f.at = first.at) /\ (compare(c, needle, TRUE, o) <=> (first.ok /\ first.at = o))
      BY <2>6, <2>7, <3>3, <3>4
    <3>6. QED
      BY <3>5 DEF f, first
  <2>8. CASE \E q \in o..(n - 1) : f = At(q) /\ HasAt(text, needle, q) /\ \A p \in o..(q - 1) : ~HasAt(text, needle, p)
    <3>1. PICK q \in o..(n - 1) : f = At(q) /\ HasAt(text, needle, q) /\ \A p \in o..(q - 1) : ~HasAt(text, needle, p)
      BY <2>8
    <3>2. q \in o..n /\ q \in Nat /\ q \in hits
      <4>1. q \in o..n /\ q \in Nat
        BY <1>1, <2>1
      <4>2. QED
        BY <2>4, <3>1, <4>1
    <3>3. \A x \in hits : q <= x
      <4>1. ASSUME NEW x \in hits, ~(q <= x) PROVE FALSE
        <5>1. x \in o..n /\ HasAt(text, needle, x)
          BY <2>5
        <5>2. x \in o..(q - 1)
          BY <2>1, <3>2, <4>1, <5>1
        <5>3. QED
          BY <3>1, <5>1, <5>2
      <4>2. QED
        BY <4>1
    <3>4. hits \in SUBSET Int
      <4>1. \A x \in o..n : x \in Int
        BY <2>1
      <4>2. QED
        BY <2>5, <4>1
    <3>5. Min(hits) = q
      BY <3>2, <3>3, <3>4, MinIs
    <3>6. first = At(q)
      BY <2>3, <3>2, <3>5
    <3>7. HasAt(text, needle, o) <=> q = o
      <4>1. CASE q = o
        BY <3>1, <4>1
      <4>2. CASE q # o
        <5>1. o \in o..(q - 1)
          BY <2>1, <3>2, <4>2
        <5>2. QED
          BY <3>1, <4>2, <5>1
      <4>3. QED
        BY <4>1, <4>2
    <3>8. At(q).ok /\ At(q).at = q
      BY DEF At
    <3>9. f.ok = first.ok /\ (f.ok => f.at = first.at) /\ (compare(c, needle, TRUE, o) <=> (first.ok /\ first.at = o))
      BY <2>6, <3>1, <3>6, <3>7, <3>8
    <3>10. QED
      BY <3>9 DEF f, first
  <2>9. QED
    BY <2>2, <2>7, <2>8 DEF Finds
<1>3. QED
  BY <1>2, Zenon DEF SearchesAgree

\* What is read and what is found is right while the container holds its text.
LEMMA HoldsIsRight == MaxText \in Nat /\ ContainersIInv => ContainersAgree
<1> SUFFICES ASSUME MaxText \in Nat, ContainersIInv PROVE ReadsAgree /\ SearchesAgree
  BY DEF ContainersAgree
<1>1. CASE odd
  BY <1>1, Zenon DEF ReadsAgree, SearchesAgree
<1>2. CASE Holds(c, text)
  BY <1>2, ReadsRight, SearchesRight
<1>3. QED
  BY <1>1, <1>2 DEF ContainersIInv

-----------------------------------------------------------------------------
(***************************************************************************)
(* Changes.  What a text begins with, and the blocks it is cut into.       *)
(***************************************************************************)
LEMMA FrontIsPiece ==
    ASSUME NEW A, NEW s \in Seq(A), NEW n \in Nat
    PROVE  /\ n <= Len(s) => Piece(s, 0, n) = SubSeq(s, 1, n)
           /\ n >= Len(s) => Piece(s, 0, n) = s
<1>1. Len(s) \in Nat /\ 0 + 1 = 1 /\ 0 + n = n
  OBVIOUS
<1>2. CASE n <= Len(s)
  <2>1. Lesser(n, Len(s)) = n
    BY <1>1, <1>2 DEF Lesser
  <2>2. Piece(s, 0, n) = SubSeq(s, 1, n)
    BY <1>1, <2>1 DEF Piece
  <2>3. n >= Len(s) => SubSeq(s, 1, n) = s
    <3>1. ASSUME n >= Len(s) PROVE SubSeq(s, 1, n) = s
      <4>1. n = Len(s)
        BY <1>1, <1>2, <3>1
      <4> DEFINE f == SubSeq(s, 1, n)
      <4>2. n \in 0..Len(s)
        BY <1>1, <4>1
      <4>3. f \in Seq(A) /\ Len(f) = n /\ \A i \in 1..n : f[i] = s[i]
        BY <4>2, FrontFacts
      <4> HIDE DEF f
      <4>4. f = s
        BY <4>1, <4>3, SeqEqual
      <4>5. QED
        BY <4>4 DEF f
    <3>2. QED
      BY <3>1
  <2>4. QED
    BY <2>2, <2>3
<1>3. CASE ~(n <= Len(s))
  <2> DEFINE t == Piece(s, 0, n)
  <2>1. IsPiece(A, t, s, 0, n)
    <3>1. 0 \in Nat
      OBVIOUS
    <3>2. QED
      BY <3>1, PieceIs, Zenon
  <2> HIDE DEF t
  <2>2. t \in Seq(A) /\ Len(t) = Taken(0, n, Len(s)) /\ \A i \in 1..Len(t) : t[i] = s[0 + i]
    BY <2>1 DEF IsPiece
  <2>3. Taken(0, n, Len(s)) = Len(s)
    BY <1>1, <1>3 DEF Taken
  <2>4. \A i \in 1..Len(t) : t[i] = s[i]
    BY <2>2
  <2>5. t = s
    BY <2>2, <2>3, <2>4, SeqEqual
  <2>6. QED
    BY <1>3, <2>5 DEF t
<1>4. QED
  BY <1>2, <1>3

LEMMA PieceGoesOn ==
    ASSUME NEW A, NEW s \in Seq(A), NEW a \in Nat, NEW b \in Nat
    PROVE  Piece(s, 0, a + b) = Piece(s, 0, a) \o Piece(s, a, b)
<1> DEFINE n == Len(s)
           x == Piece(s, 0, a)
           y == Piece(s, a, b)
           z == Piece(s, 0, a + b)
           w == x \o y
<1>1. n \in Nat /\ 0 \in Nat /\ a + b \in Nat
  OBVIOUS
<1>2. IsPiece(A, x, s, 0, a) /\ IsPiece(A, y, s, a, b) /\ IsPiece(A, z, s, 0, a + b)
  BY <1>1, PieceIs, Zenon
<1> HIDE DEF x, y, z, n
<1>3. x \in Seq(A) /\ y \in Seq(A) /\ z \in Seq(A)
  BY <1>2 DEF IsPiece
<1>4. Len(x) = Taken(0, a, n) /\ Len(y) = Taken(a, b, n) /\ Len(z) = Taken(0, a + b, n)
  BY <1>2 DEF IsPiece, n
<1>5. IsJoined(A, w, x, y)
  BY <1>3, JoinIs, Zenon
<1> HIDE DEF w
<1>6. w \in Seq(A) /\ Len(w) = Len(x) + Len(y)
  BY <1>5 DEF IsJoined
<1>7. Len(z) = Len(x) + Len(y) /\ Len(x) \in Nat /\ Len(y) \in Nat
  BY <1>1, <1>4 DEF Taken
<1>8. ASSUME NEW i \in 1..Len(z) PROVE z[i] = w[i]
  <2>1. z[i] = s[0 + i]
    BY <1>2 DEF IsPiece
  <2>2. CASE i <= Len(x)
    <3>1. i \in 1..Len(x)
      BY <1>7, <2>2
    <3>2. w[i] = x[i] /\ x[i] = s[0 + i]
      BY <1>2, <1>5, <3>1, Zenon DEF IsPiece, IsJoined
    <3>3. QED
      BY <2>1, <3>2
  <2>3. CASE ~(i <= Len(x))
    <3> DEFINE j == i - Len(x)
    <3>1. j \in 1..Len(y) /\ Len(x) + j = i
      BY <1>7, <2>3
    <3>2. Len(x) = a
      BY <1>1, <1>4, <3>1 DEF Taken
    <3>3. a + j = 0 + i
      BY <3>1, <3>2
    <3> HIDE DEF j
    <3>4. w[Len(x) + j] = y[j] /\ y[j] = s[a + j]
      BY <1>2, <1>5, <3>1, Zenon DEF IsPiece, IsJoined
    <3>5. QED
      BY <2>1, <3>1, <3>3, <3>4
  <2>4. QED
    BY <2>2, <2>3
<1>9. z = w
  BY <1>3, <1>6, <1>7, <1>8, SeqEqual
<1>10. QED
  BY <1>9 DEF z, w, x, y

LEMMA JoinedFront ==
    ASSUME NEW A, NEW a \in Seq(A), NEW b \in Seq(A)
    PROVE  /\ SubSeq(a \o b, 1, Len(a)) = a /\ Len(a) <= Len(a \o b) /\ Len(a) \in Nat
           /\ Piece(a \o b, 0, Len(a)) = a
<1> DEFINE q == a \o b
           n == Len(a)
           f == SubSeq(q, 1, n)
<1>1. IsJoined(A, q, a, b)
  BY JoinIs, Zenon
<1>2. n \in Nat /\ Len(b) \in Nat
  OBVIOUS
<1> HIDE DEF q
<1>3. q \in Seq(A) /\ Len(q) = n + Len(b) /\ \A i \in 1..n : q[i] = a[i]
  BY <1>1 DEF IsJoined
<1>4. n \in 0..Len(q) /\ n <= Len(q)
  BY <1>2, <1>3
<1>5. f \in Seq(A) /\ Len(f) = n /\ \A i \in 1..n : f[i] = q[i]
  BY <1>3, <1>4, FrontFacts
<1> HIDE DEF f
<1>6. f = a
  BY <1>3, <1>5, SeqEqual
<1>7. Piece(q, 0, n) = f
  BY <1>2, <1>3, <1>4, FrontIsPiece DEF f
<1>8. QED
  BY <1>2, <1>4, <1>6, <1>7 DEF f, q

LEMMA FlatSplit ==
    ASSUME NEW A, NEW seqs \in Seq(Seq(A)), NEW k \in 0..Len(seqs)
    PROVE  /\ FlattenSeq(seqs) = FlattenSeq(SubSeq(seqs, 1, k)) \o FlattenSeq(From(seqs, k))
           /\ FlattenSeq(SubSeq(seqs, 1, k)) \in Seq(A) /\ FlattenSeq(From(seqs, k)) \in Seq(A)
<1> DEFINE f == SubSeq(seqs, 1, k)
           r == From(seqs, k)
<1>1. f \in Seq(Seq(A)) /\ r \in Seq(Seq(A)) /\ f \o r = seqs
  <2>1. f \in Seq(Seq(A))
    BY FrontFacts
  <2>2. r \in Seq(Seq(A))
    BY FromFacts
  <2>3. f \o r = seqs
    BY FrontAndRest
  <2>4. QED
    BY <2>1, <2>2, <2>3
<1> HIDE DEF f, r
<1>2. FlattenSeq(f \o r) = FlattenSeq(f) \o FlattenSeq(r)
  BY <1>1, FlatOfJoined
<1>3. FlattenSeq(f) \in Seq(A) /\ FlattenSeq(r) \in Seq(A)
  BY <1>1, FlatIsText
<1>4. QED
  BY <1>1, <1>2, <1>3 DEF f, r

\* How many blocks there are, and where each begins.
LEMMA Rounded ==
    ASSUME NEW x \in Nat, NEW n \in Nat \ {0}
    PROVE  LET k == (x + n - 1) \div n IN
           /\ k \in Nat /\ x <= k * n
           /\ \A i \in 1..k : (i - 1) * n < x /\ (i - 1) * n \in Nat /\ (i - 1) * n + n = i * n
<1> DEFINE k == (x + n - 1) \div n
<1>1. k \in Nat /\ n * k <= x + n - 1 /\ x + n - 1 < n * k + n
  <2> DEFINE y == x + n - 1
  <2>1. y \in Nat /\ n > 0
    OBVIOUS
  <2> HIDE DEF y
  <2>2. y \div n \in Nat /\ n * (y \div n) <= y /\ y < n * (y \div n) + n
    BY <2>1
  <2>3. QED
    BY <2>2 DEF y
<1> HIDE DEF k
<1>2. k * n = n * k /\ n * k \in Nat
  BY <1>1
<1>3. x <= k * n
  BY <1>1, <1>2
<1>4. ASSUME NEW i \in 1..k PROVE (i - 1) * n < x /\ (i - 1) * n \in Nat /\ (i - 1) * n + n = i * n
  <2>1. (i - 1) * n \in Nat /\ (i - 1) * n + n = i * n
    OBVIOUS
  <2>2. (k - i) * n \in Nat
    <3>1. k - i \in Nat
      BY <1>1
    <3>2. QED
      BY <3>1
  <2>3. (i - 1) * n = k * n - (k - i) * n - n
    BY <1>1
  <2>4. QED
    BY <1>1, <1>2, <2>1, <2>2, <2>3
<1>5. QED
  BY <1>1, <1>3, <1>4 DEF k

LEMMA BlocksAre ==
    ASSUME NEW s \in Seq(Bytes), NEW n \in Nat \ {0}
    PROVE  /\ Blocks(s, n) \in Seq(Seq(Bytes)) /\ FlattenSeq(Blocks(s, n)) = s
           /\ Len(Blocks(s, n)) > 1 => Len(Blocks(s, n)[1]) = n /\ Len(Blocks(s, n)[2]) > 0
<1> DEFINE V == Seq(Bytes)
           l == Len(s)
           k == (l + n - 1) \div n
           b == Blocks(s, n)
<1>1. l \in Nat /\ n > 0
  OBVIOUS
<1>2. /\ k \in Nat /\ l <= k * n
      /\ \A i \in 1..k : (i - 1) * n < l /\ (i - 1) * n \in Nat /\ (i - 1) * n + n = i * n
  BY <1>1, Rounded
<1>3. b = [i \in 1..k |-> Piece(s, (i - 1) * n, Lesser(n, l - (i - 1) * n))]
  BY DEF Blocks
<1> HIDE DEF k, b
<1>4. \A i \in 1..k : b[i] = Piece(s, (i - 1) * n, n) /\ b[i] \in V /\ Len(b[i]) = Taken((i - 1) * n, n, l)
  <2> SUFFICES ASSUME NEW i \in 1..k
               PROVE  b[i] = Piece(s, (i - 1) * n, n) /\ b[i] \in V /\ Len(b[i]) = Taken((i - 1) * n, n, l)
    OBVIOUS
  <2> DEFINE o == (i - 1) * n
             m == Lesser(n, l - o)
  <2>1. o < l /\ o \in Nat
    BY <1>2
  <2>2. b[i] = Piece(s, o, m)
    BY <1>3
  <2> HIDE DEF o, l
  <2>3. Lesser(o + m, l) = Lesser(o + n, l)
    BY <1>1, <2>1 DEF Lesser
  <2>4. Piece(s, o, m) = Piece(s, o, n)
    BY <2>3 DEF Piece, l
  <2>5. IsPiece(Bytes, Piece(s, o, n), s, o, n)
    BY <2>1, PieceIs, Zenon
  <2>6. b[i] = Piece(s, o, n) /\ b[i] \in V /\ Len(b[i]) = Taken(o, n, l)
    BY <2>2, <2>4, <2>5 DEF IsPiece, l
  <2>7. QED
    BY <2>6 DEF o, l
<1>5. b \in Seq(V) /\ Len(b) = k
  <2>1. b = [i \in 1..k |-> b[i]]
    BY <1>3
  <2>2. \A i \in 1..k : b[i] \in V
    BY <1>4
  <2> HIDE DEF V
  <2>3. b \in [1..k -> V]
    BY <2>1, <2>2
  <2>4. k \in Nat
    BY <1>2
  <2>5. QED
    BY <2>3, <2>4
<1>6. PICK u : Joined(b, V, u) /\ FlattenSeq(b) = u[Len(b)]
  BY <1>5, FlattenFacts, Zenon
<1>7. u[0] = << >> /\ \A i \in 1..k : u[i] = u[i - 1] \o b[i]
  BY <1>5, <1>6 DEF Joined
<1> DEFINE g == [i \in 0..k |-> Piece(s, 0, i * n)]
<1>8. SameRule(k, u, g)
  <2>1. u[0] = g[0]
    <3>1. 0 \in 0..k /\ 0 * n = 0
      BY <1>2
    <3>2. Piece(s, 0, 0) = << >>
      BY PieceOfNone
    <3>3. g[0] = Piece(s, 0, 0)
      BY <3>1
    <3>4. QED
      BY <1>7, <3>2, <3>3
  <2>2. ASSUME NEW i \in 1..k, u[i - 1] = g[i - 1] PROVE u[i] = g[i]
    <3> DEFINE o == (i - 1) * n
    <3>1. i \in 0..k /\ i - 1 \in 0..k
      BY <1>2
    <3>2. g[i] = Piece(s, 0, i * n) /\ g[i - 1] = Piece(s, 0, o)
      BY <3>1
    <3>3. o \in Nat /\ o + n = i * n
      BY <1>2
    <3>4. b[i] = Piece(s, o, n)
      BY <1>4
    <3> HIDE DEF o, g
    <3>5. Piece(s, 0, o + n) = Piece(s, 0, o) \o Piece(s, o, n)
      BY <3>3, PieceGoesOn
    <3>6. QED
      BY <1>7, <2>2, <3>2, <3>3, <3>4, <3>5
  <2> HIDE DEF g
  <2>3. QED
    BY <2>1, <2>2 DEF SameRule
<1>9. u[k] = Piece(s, 0, k * n)
  <2>1. k \in 0..k
    BY <1>2
  <2>2. g[k] = Piece(s, 0, k * n)
    BY <2>1
  <2> HIDE DEF g
  <2>3. QED
    BY <1>2, <1>8, <2>1, <2>2, IteratesOnce
<1>10. FlattenSeq(b) = s
  <2>1. k * n \in Nat
    BY <1>2
  <2> DEFINE all == k * n
  <2> HIDE DEF all
  <2>2. Piece(s, 0, all) = s
    <3>1. all \in Nat /\ all >= Len(s)
      BY <1>1, <1>2, <2>1 DEF all
    <3>2. QED
      BY <3>1, FrontIsPiece
  <2>3. QED
    BY <1>5, <1>6, <1>9, <2>2 DEF all
<1>11. k > 1 => Len(b[1]) = n /\ Len(b[2]) > 0
  <2> SUFFICES ASSUME k > 1 PROVE Len(b[1]) = n /\ Len(b[2]) > 0
    OBVIOUS
  <2>1. 1 \in 1..k /\ 2 \in 1..k /\ (1 - 1) * n = 0 /\ (2 - 1) * n = n
    BY <1>2
  <2>2. Len(b[1]) = Taken(0, n, l) /\ Len(b[2]) = Taken(n, n, l)
    BY <1>4, <2>1
  <2>3. n < l
    BY <1>2, <2>1
  <2> HIDE DEF l
  <2>4. QED
    BY <1>1, <2>2, <2>3 DEF Taken
<1>12. QED
  BY <1>5, <1>10, <1>11 DEF b

\* What fits of the blocks of a text is what the text begins with.
LEMMA BlocksThatFit ==
    ASSUME NEW s \in Seq(Bytes), NEW n \in Nat \ {0}, NEW m \in Int
    PROVE  LET room == Blocks(s, n)
               blocks == SubSeq(room, 1, Lesser(Len(room), m))
               k == Len(FlattenSeq(blocks))
           IN /\ blocks \in Seq(Seq(Bytes)) /\ k \in 0..Len(s) /\ FlattenSeq(blocks) = SubSeq(s, 1, k)
              /\ blocks = room => k = Len(s)
              /\ k <= n => Len(blocks) <= 1
<1> DEFINE room == Blocks(s, n)
           V == Seq(Bytes)
           e == Lesser(Len(room), m)
           blocks == SubSeq(room, 1, e)
           flat == FlattenSeq(blocks)
           k == Len(flat)
<1>1. /\ room \in Seq(V) /\ FlattenSeq(room) = s
      /\ Len(room) > 1 => Len(room[1]) = n /\ Len(room[2]) > 0
  BY BlocksAre
<1> HIDE DEF room
<1>2. PICK j \in 0..Len(room) : blocks = SubSeq(room, 1, j)
  <2>1. Len(room) \in Nat
    BY <1>1
  <2>2. e \in Int /\ e <= Len(room)
    BY <2>1 DEF Lesser
  <2> HIDE DEF e
  <2>3. CASE e >= 0
    BY <2>1, <2>2, <2>3
  <2>4. CASE ~(e >= 0)
    <3>1. SubSeq(room, 1, 0) \in Seq(V) /\ Len(SubSeq(room, 1, 0)) = 0
      <4>1. 0 \in 0..Len(room)
        BY <2>1
      <4>2. QED
        BY <1>1, <4>1, FrontFacts
    <3>2. SubSeq(room, 1, 0) = << >>
      BY <3>1, EmptySeq
    <3>3. blocks \in Seq(V) /\ Len(blocks) = 0
      <4>1. e < 1
        BY <2>2, <2>4
      <4>a. \A i \in 1..e : room[i] \in V
        BY <2>2, <4>1
      <4>2. SubSeq(room, 1, e) \in Seq(V) /\ Len(SubSeq(room, 1, e)) = IF 1 <= e THEN e - 1 + 1 ELSE 0
        BY <2>2, <4>a, SubSeqProperties
      <4>3. QED
        BY <2>2, <4>1, <4>2
    <3>4. blocks = << >>
      BY <3>3, EmptySeq
    <3>5. 0 \in 0..Len(room)
      BY <2>1
    <3>6. QED
      BY <3>2, <3>4, <3>5
  <2>5. QED
    BY <2>3, <2>4
<1> HIDE DEF blocks
<1>3. blocks \in Seq(V) /\ Len(blocks) = j /\ \A i \in 1..j : blocks[i] = room[i]
  BY <1>1, <1>2, FrontFacts
<1> DEFINE rest == FlattenSeq(From(room, j))
<1>4. s = flat \o rest /\ flat \in V /\ rest \in V
  BY <1>1, <1>2, FlatSplit
<1>5. k \in Nat /\ k <= Len(s) /\ SubSeq(s, 1, k) = flat
  BY <1>4, JoinedFront
<1>6. k \in 0..Len(s)
  BY <1>5
<1>7. blocks = room => k = Len(s)
  BY <1>1
<1>8. ASSUME Len(blocks) > 1 PROVE k > n
  <2>0. Len(blocks) \in Nat /\ j \in Nat /\ j <= Len(room) /\ Len(room) \in Nat
    BY <1>1, <1>3
  <2>1. Len(room) > 1 /\ 1 \in 1..j /\ 2 \in 1..j /\ 2 \in 0..Len(blocks)
    BY <1>3, <1>8, <2>0
  <2>2. Len(blocks[1]) = n /\ Len(blocks[2]) > 0 /\ blocks[1] \in V /\ blocks[2] \in V
    BY <1>1, <1>3, <2>1, SMTT(30)
  <2> DEFINE two == SubSeq(blocks, 1, 2)
             others == FlattenSeq(From(blocks, 2))
             one == SubSeq(blocks, 1, 1)
             none == SubSeq(blocks, 1, 0)
  <2>3. flat = FlattenSeq(two) \o others /\ FlattenSeq(two) \in V /\ others \in V
    BY <1>3, <2>1, FlatSplit
  <2>4. FlattenSeq(two) = FlattenSeq(one) \o blocks[2]
    <3>1. 2 \in 1..Len(blocks) /\ 2 - 1 = 1
      BY <1>3, <2>1
    <3>2. FlattenSeq(SubSeq(blocks, 1, 2)) = FlattenSeq(SubSeq(blocks, 1, 2 - 1)) \o blocks[2]
      BY <1>3, <3>1, FlatOfNext
    <3>3. QED
      BY <3>1, <3>2
  <2>5. FlattenSeq(one) = FlattenSeq(none) \o blocks[1]
    <3>1. 1 \in 1..Len(blocks) /\ 1 - 1 = 0
      BY <1>3, <2>1
    <3>2. FlattenSeq(SubSeq(blocks, 1, 1)) = FlattenSeq(SubSeq(blocks, 1, 1 - 1)) \o blocks[1]
      BY <1>3, <3>1, FlatOfNext
    <3>3. QED
      BY <3>1, <3>2
  <2>6. FlattenSeq(none) = << >>
    <3>1. 0 \in 0..Len(blocks)
      BY <2>0
    <3>2. none \in Seq(V) /\ Len(none) = 0
      BY <1>3, <3>1, FrontFacts
    <3>3. none = << >>
      BY <3>2, EmptySeq
    <3>4. QED
      BY <3>3, FlatOfNone
  <2>7. FlattenSeq(one) = blocks[1]
    BY <2>2, <2>5, <2>6, ConcatEmptySeq
  <2> DEFINE x == blocks[1]
             y == blocks[2]
             z == FlattenSeq(two)
  <2>8. z = x \o y /\ x \in V /\ y \in V /\ flat = z \o others /\ z \in V /\ others \in V
    BY <2>2, <2>3, <2>4, <2>7
  <2> HIDE DEF x, y, z, others, flat
  <2>9. Len(z) = Len(x) + Len(y) /\ Len(flat) = Len(z) + Len(others)
    <3>1. IsJoined(Bytes, x \o y, x, y) /\ IsJoined(Bytes, z \o others, z, others)
      BY <2>8, JoinIs, Zenon
    <3>2. QED
      BY <2>8, <3>1 DEF IsJoined
  <2>10. Len(x) = n /\ Len(y) > 0 /\ Len(others) \in Nat /\ Len(y) \in Nat
    BY <2>2, <2>8 DEF x, y
  <2>11. QED
    BY <2>9, <2>10
<1>9. k <= n => Len(blocks) <= 1
  <2>1. Len(blocks) \in Nat
    BY <1>3
  <2>2. QED
    BY <1>5, <1>8, <2>1
<1>10. QED
  BY <1>3, <1>5, <1>6, <1>7, <1>9 DEF blocks, room

-----------------------------------------------------------------------------
\* A container with other chunks, or with another file.
WithChunks(d, q, n) == [d EXCEPT !.chunks = q, !.bytes = n]
LEMMA WithChunksIs ==
    ASSUME NEW d, Formed(d), NEW q, NEW n
    PROVE  /\ Formed(WithChunks(d, q, n)) /\ WithChunks(d, q, n).chunks = q /\ WithChunks(d, q, n).bytes = n
           /\ WithChunks(d, q, n).file = d.file
<1> DEFINE e == WithChunks(d, q, n)
<1>a. e = [d EXCEPT !.chunks = q, !.bytes = n]
  BY DEF WithChunks
<1>b. d = [chunks |-> d.chunks, bytes |-> d.bytes, max |-> d.max, limit |-> d.limit, file |-> d.file,
           maxChunkSize |-> d.maxChunkSize, maxChunks |-> d.maxChunks]
  BY DEF Formed
<1> HIDE DEF e
<1>1. e = [chunks |-> q, bytes |-> n, max |-> d.max, limit |-> d.limit, file |-> d.file,
           maxChunkSize |-> d.maxChunkSize, maxChunks |-> d.maxChunks]
  BY <1>a, <1>b
<1>2. /\ e.chunks = q /\ e.bytes = n /\ e.max = d.max /\ e.limit = d.limit /\ e.file = d.file
      /\ e.maxChunkSize = d.maxChunkSize /\ e.maxChunks = d.maxChunks
  BY <1>1
<1>3. Formed(e)
  <2>1. e = [chunks |-> e.chunks, bytes |-> e.bytes, max |-> e.max, limit |-> e.limit, file |-> e.file,
             maxChunkSize |-> e.maxChunkSize, maxChunks |-> e.maxChunks]
    BY <1>1, <1>2
  <2>2. QED
    BY <1>2, <2>1 DEF Formed
<1>4. QED
  BY <1>2, <1>3 DEF e

LEMMA HoldsInChunks ==
    ASSUME NEW d, Formed(d), ~d.file.moved, NEW q \in Seq(ChunkSet), NEW s, FlattenSeq(Datas(q)) = s, NEW n, n = Len(s)
    PROVE  Holds(WithChunks(d, q, n), s)
<1>1. s \in Seq(Bytes)
  <2>1. Datas(q) \in Seq(Seq(Bytes))
    BY DatasFacts
  <2>2. QED
    BY <2>1, FlatIsText
<1> DEFINE e == WithChunks(d, q, n)
<1>2. Formed(e) /\ e.chunks = q /\ e.bytes = n /\ e.file = d.file
  BY WithChunksIs
<1> HIDE DEF e
<1>3. Holds(e, s)
  BY <1>1, <1>2 DEF Holds
<1>4. QED
  BY <1>3 DEF e

LEMMA HoldsInFile ==
    ASSUME NEW d, Formed(d), d.file.moved, NEW s
    PROVE  /\ Formed(Resized(d, s)) /\ Resized(d, s).file.moved
           /\ d.chunks = << >> /\ s \in Seq(Bytes) => Holds(Resized(d, s), s)
<1> DEFINE e == Resized(d, s)
<1>a. e = [d EXCEPT !.file.bytes = s]
  BY DEF Resized
<1>b. /\ d = [chunks |-> d.chunks, bytes |-> d.bytes, max |-> d.max, limit |-> d.limit, file |-> d.file,
              maxChunkSize |-> d.maxChunkSize, maxChunks |-> d.maxChunks]
      /\ d.file = [moved |-> d.file.moved, bytes |-> d.file.bytes]
  BY DEF Formed
<1> HIDE DEF e
<1>1. e = [chunks |-> d.chunks, bytes |-> d.bytes, max |-> d.max, limit |-> d.limit,
           file |-> [moved |-> d.file.moved, bytes |-> s],
           maxChunkSize |-> d.maxChunkSize, maxChunks |-> d.maxChunks]
  BY <1>a, <1>b
<1>2. /\ e.chunks = d.chunks /\ e.bytes = d.bytes /\ e.max = d.max /\ e.limit = d.limit
      /\ e.maxChunkSize = d.maxChunkSize /\ e.maxChunks = d.maxChunks
      /\ e.file = [moved |-> d.file.moved, bytes |-> s]
  BY <1>1
<1>3. e.file.moved = d.file.moved /\ e.file.bytes = s
  BY <1>2
<1>4. Formed(e)
  <2>1. e = [chunks |-> e.chunks, bytes |-> e.bytes, max |-> e.max, limit |-> e.limit, file |-> e.file,
             maxChunkSize |-> e.maxChunkSize, maxChunks |-> e.maxChunks]
    BY <1>1, <1>2
  <2>2. e.file = [moved |-> e.file.moved, bytes |-> e.file.bytes] /\ e.file.moved \in BOOLEAN
    BY <1>2, <1>3 DEF Formed
  <2>3. QED
    BY <1>2, <2>1, <2>2 DEF Formed
<1>5. e.file.moved
  BY <1>3
<1>6. d.chunks = << >> /\ s \in Seq(Bytes) => Holds(e, s)
  BY <1>2, <1>3, <1>4, <1>5 DEF Holds
<1>7. QED
  BY <1>4, <1>5, <1>6 DEF e

LEMMA MovesWithItsText ==
    ASSUME NEW d, NEW s, Holds(d, s), ~d.file.moved
    PROVE  Holds(copyToFS(d), s) /\ copyToFS(d).file.moved
<1> DEFINE e == copyToFS(d)
           b == copyTo2(d, 0, size(d))
<1>1. b = s /\ s \in Seq(Bytes)
  <2>1. size(d) = Len(s) /\ Len(s) \in Nat /\ s \in Seq(Bytes)
    BY SizeIs
  <2>2. 0 \in Nat /\ 0 <= Len(s) /\ Lesser(Len(s), Len(s) - 0) = Len(s)
    BY <2>1 DEF Lesser
  <2>3. b = Piece(s, 0, Lesser(Len(s), Len(s) - 0))
    BY <2>1, <2>2, CopyIs
  <2>4. Len(s) >= Len(s)
    BY <2>1
  <2>5. Piece(s, 0, Len(s)) = s
    BY <2>1, <2>4, FrontIsPiece
  <2>6. QED
    BY <2>1, <2>2, <2>3, <2>5
<1> HIDE DEF b
<1>2. Formed(d)
  BY DEF Holds
<1>3. e = [d EXCEPT !.file = [moved |-> TRUE, bytes |-> b], !.chunks = << >>]
  BY DEF copyToFS, b
<1> HIDE DEF e
<1>4. e = [chunks |-> << >>, bytes |-> d.bytes, max |-> d.max, limit |-> d.limit,
           file |-> [moved |-> TRUE, bytes |-> b],
           maxChunkSize |-> d.maxChunkSize, maxChunks |-> d.maxChunks]
  BY <1>2, <1>3 DEF Formed
<1>5. /\ e.chunks = << >> /\ e.bytes = d.bytes /\ e.max = d.max /\ e.limit = d.limit
      /\ e.maxChunkSize = d.maxChunkSize /\ e.maxChunks = d.maxChunks
      /\ e.file = [moved |-> TRUE, bytes |-> b]
  BY <1>4
<1>6. e.file.moved /\ e.file.bytes = b /\ e.file.moved \in BOOLEAN /\ e.file = [moved |-> e.file.moved, bytes |-> e.file.bytes]
  BY <1>5
<1>7. Formed(e)
  <2>1. e = [chunks |-> e.chunks, bytes |-> e.bytes, max |-> e.max, limit |-> e.limit, file |-> e.file,
             maxChunkSize |-> e.maxChunkSize, maxChunks |-> e.maxChunks]
    BY <1>4, <1>5
  <2>2. QED
    BY <1>2, <1>5, <1>6, <2>1 DEF Formed
<1>8. Holds(e, s)
  BY <1>1, <1>5, <1>6, <1>7 DEF Holds
<1>9. QED
  BY <1>6, <1>8 DEF e

\* The offsets are computed anew: the text stays.
LEMMA RecalcKeeps ==
    ASSUME NEW d, NEW s, Holds(d, s), ~d.file.moved
    PROVE  Holds(recalcChunkOffsets(d), s)
<1> DEFINE q == d.chunks
           e == recalcChunkOffsets(d)
           o == (Len(q) - 1) * ChunkSize(d, 1)
           p == [q EXCEPT ![1] = [@ EXCEPT !.offset = o]]
<1>1. Formed(d) /\ q \in Seq(ChunkSet) /\ FlattenSeq(Datas(q)) = s /\ d.bytes = Len(s)
  BY DEF Holds
<1>2. CASE q = << >>
  <2>1. e = d
    BY <1>2 DEF recalcChunkOffsets
  <2>2. QED
    BY <2>1
<1>3. CASE q # << >>
  <2>1. e = WithChunks(d, p, d.bytes)
    BY <1>1, <1>3 DEF recalcChunkOffsets, WithChunks, Formed
  <2>2. Len(q) \in Nat /\ Len(q) > 0 /\ 1 \in 1..Len(q)
    BY <1>1, <1>3, EmptySeq
  <2>3. o \in Nat
    <3>1. ChunkSize(d, 1) \in Nat
      BY <1>1, <2>2, DatasFacts DEF ChunkSize
    <3>2. Len(q) - 1 \in Nat
      BY <2>2
    <3>3. QED
      BY <3>1, <3>2
  <2> HIDE DEF o, e
  <2>4. q[1] \in ChunkSet
    BY <1>1, <2>2
  <2>5. [q[1] EXCEPT !.offset = o] \in ChunkSet /\ [q[1] EXCEPT !.offset = o].data = q[1].data
    BY <2>3, <2>4 DEF ChunkSet
  <2>6. p \in Seq(ChunkSet) /\ Len(p) = Len(q) /\ \A i \in 1..Len(q) : p[i].data = q[i].data
    <3> DEFINE x == [q[1] EXCEPT !.offset = o]
    <3> HIDE DEF x, q
    <3>1. p = [q EXCEPT ![1] = x]
      BY <1>1, <2>2 DEF x
    <3>2. p \in Seq(ChunkSet) /\ Len(p) = Len(q) /\ p[1] = x /\ \A i \in 1..Len(q) : i # 1 => p[i] = q[i]
      BY <1>1, <2>2, <2>5, <3>1 DEF x
    <3>3. QED
      BY <2>5, <3>2 DEF x
  <2> HIDE DEF p, q
  <2>7. Datas(p) = Datas(q)
    <3> DEFINE dp == Datas(p)
               dq == Datas(q)
               V == Seq(Bytes)
    <3>1. dp \in Seq(V) /\ Len(dp) = Len(p) /\ \A i \in 1..Len(p) : dp[i] = p[i].data
      BY <2>6, DatasFacts
    <3>2. dq \in Seq(V) /\ Len(dq) = Len(q) /\ \A i \in 1..Len(q) : dq[i] = q[i].data
      BY <1>1, DatasFacts
    <3> HIDE DEF dp, dq, V
    <3>3. dp = dq
      BY <2>6, <3>1, <3>2, SeqEqual
    <3>4. QED
      BY <3>3 DEF dp, dq
  <2>8. Holds(WithChunks(d, p, d.bytes), s)
    BY <1>1, <2>6, <2>7, HoldsInChunks
  <2>9. QED
    BY <2>1, <2>8 DEF e
<1>4. QED
  BY <1>2, <1>3

LEMMA RecalcForms ==
    ASSUME NEW d, Formed(d)
    PROVE  Formed(recalcChunkOffsets(d)) /\ recalcChunkOffsets(d).file = d.file
<1> DEFINE q == d.chunks
           e == recalcChunkOffsets(d)
           p == [q EXCEPT ![1] = [@ EXCEPT !.offset = (Len(q) - 1) * ChunkSize(d, 1)]]
<1>1. CASE q = << >>
  <2>1. e = d
    BY <1>1 DEF recalcChunkOffsets
  <2>2. QED
    BY <2>1
<1>2. CASE q # << >>
  <2>1. e = WithChunks(d, p, d.bytes)
    BY <1>2 DEF recalcChunkOffsets, WithChunks, Formed
  <2> HIDE DEF p
  <2>2. Formed(WithChunks(d, p, d.bytes)) /\ WithChunks(d, p, d.bytes).file = d.file
    BY WithChunksIs
  <2>3. QED
    BY <2>1, <2>2
<1>3. QED
  BY <1>1, <1>2

\* Blocks as the last chunks, and one block as the first.
LEMMA BlocksPushed ==
    ASSUME NEW d, NEW s, Holds(d, s), ~d.file.moved, NEW blocks \in Seq(Seq(Bytes)), NEW n, n = Len(FlattenSeq(blocks))
    PROVE  Holds([PushBlocks(d, blocks) EXCEPT !.bytes = @ + n], s \o FlattenSeq(blocks))
<1> DEFINE q == d.chunks
           V == Seq(Bytes)
           end == IF q = << >> THEN 0 ELSE nextOffset(Last(q))
           begin(i) == end + Len(FlattenSeq(SubSeq(blocks, 1, i - 1)))
           new == [i \in DOMAIN blocks |-> [data |-> blocks[i], offset |-> begin(i)]]
           m == Len(blocks)
           f == FlattenSeq(blocks)
           e == [PushBlocks(d, blocks) EXCEPT !.bytes = @ + n]
<1>1. Formed(d) /\ q \in Seq(ChunkSet) /\ FlattenSeq(Datas(q)) = s /\ d.bytes = Len(s) /\ s \in V
  BY DEF Holds
<1>2. e = WithChunks(d, q \o new, d.bytes + n)
  BY <1>1 DEF PushBlocks, WithChunks, Formed
<1>3. m \in Nat /\ DOMAIN blocks = 1..m /\ \A i \in 1..m : blocks[i] \in V
  OBVIOUS
<1>4. end \in Nat
  <2>1. CASE q = << >>
    BY <2>1
  <2>2. CASE q # << >>
    <3>1. Len(q) \in 1..Len(q)
      BY <1>1, <2>2, EmptySeq
    <3>2. q[Len(q)].offset \in Nat /\ Len(q[Len(q)].data) \in Nat
      BY <1>1, <3>1, DatasFacts
    <3>3. end = q[Len(q)].offset + Len(q[Len(q)].data)
      BY <2>2 DEF Last, nextOffset
    <3>4. QED
      BY <3>2, <3>3
  <2>3. QED
    BY <2>1, <2>2
<1> HIDE DEF end
<1>5. \A i \in 1..m : begin(i) \in Nat
  <2>1. ASSUME NEW i \in 1..m PROVE begin(i) \in Nat
    <3>1. i - 1 \in 0..Len(blocks)
      BY <1>3
    <3>2. SubSeq(blocks, 1, i - 1) \in Seq(V)
      BY <3>1, FrontFacts
    <3>3. FlattenSeq(SubSeq(blocks, 1, i - 1)) \in V
      BY <3>2, FlatIsText
    <3>4. Len(FlattenSeq(SubSeq(blocks, 1, i - 1))) \in Nat
      BY <3>3
    <3>5. QED
      BY <1>4, <3>4
  <2>2. QED
    BY <2>1
<1> HIDE DEF begin
<1>6. new = [i \in 1..m |-> [data |-> blocks[i], offset |-> begin(i)]]
  BY <1>3
<1> HIDE DEF new, e
<1>7. new \in Seq(ChunkSet) /\ Len(new) = m /\ \A i \in 1..m : new[i].data = blocks[i]
  <2>1. \A i \in 1..m : new[i] = [data |-> blocks[i], offset |-> begin(i)]
    BY <1>6
  <2>2. \A i \in 1..m : new[i] \in ChunkSet /\ new[i].data = blocks[i]
    <3>1. ASSUME NEW i \in 1..m PROVE new[i] \in ChunkSet /\ new[i].data = blocks[i]
      <4> DEFINE o == begin(i)
                 x == blocks[i]
      <4>1. o \in Nat /\ x \in V /\ new[i] = [data |-> x, offset |-> o]
        BY <1>3, <1>5, <2>1
      <4> HIDE DEF o, x
      <4>2. new[i] \in ChunkSet /\ new[i].data = x
        BY <4>1 DEF ChunkSet
      <4>3. QED
        BY <4>2 DEF x
    <3>2. QED
      BY <3>1
  <2>3. new \in [1..m -> ChunkSet]
    BY <1>6, <2>2
  <2> HIDE DEF m
  <2>4. new \in Seq(ChunkSet) /\ Len(new) = m
    BY <1>3, <2>3
  <2>5. QED
    BY <2>2, <2>4
<1>8. Datas(new) = blocks
  <2> DEFINE D == Datas(new)
  <2>1. D \in Seq(V) /\ Len(D) = m /\ \A i \in 1..m : D[i] = new[i].data
    BY <1>7, DatasFacts
  <2> HIDE DEF D, V
  <2>2. D = blocks
    BY <1>7, <2>1, SeqEqual DEF V
  <2>3. QED
    BY <2>2 DEF D
<1>9. q \o new \in Seq(ChunkSet) /\ Datas(q \o new) = Datas(q) \o blocks
  BY <1>1, <1>7, <1>8, DatasOfJoined
<1>10. FlattenSeq(Datas(q \o new)) = s \o f /\ f \in V
  <2>1. Datas(q) \in Seq(V)
    BY <1>1, DatasFacts
  <2>2. FlattenSeq(Datas(q) \o blocks) = FlattenSeq(Datas(q)) \o f
    BY <2>1, FlatOfJoined
  <2>3. f \in V
    BY FlatIsText
  <2>4. QED
    BY <1>1, <1>9, <2>2, <2>3
<1>11. d.bytes + n = Len(s \o f)
  <2> HIDE DEF f
  <2>1. IsJoined(Bytes, s \o f, s, f)
    BY <1>1, <1>10, JoinIs, Zenon
  <2>2. Len(s \o f) = Len(s) + Len(f)
    BY <2>1 DEF IsJoined
  <2>3. QED
    BY <1>1, <2>2 DEF f
<1> HIDE DEF q
<1>12. Holds(WithChunks(d, q \o new, d.bytes + n), s \o f)
  BY <1>1, <1>9, <1>10, <1>11, HoldsInChunks
<1>13. QED
  BY <1>2, <1>12 DEF e

LEMMA BlocksPushedAtFront ==
    ASSUME NEW d, NEW s, Holds(d, s), ~d.file.moved, NEW blocks \in Seq(Seq(Bytes)), NEW n, n = Len(FlattenSeq(blocks))
    PROVE  LET e == [PushBlocksAtFront(d, blocks) EXCEPT !.bytes = @ + n]
           IN /\ Formed(e) /\ e.file = d.file
              /\ Len(blocks) <= 1 => Holds(e, FlattenSeq(blocks) \o s)
<1> DEFINE q == d.chunks
           V == Seq(Bytes)
           new == [i \in DOMAIN blocks |-> [data |-> Reverse(blocks)[i], offset |-> 0]]
           m == Len(blocks)
           f == FlattenSeq(blocks)
           e == [PushBlocksAtFront(d, blocks) EXCEPT !.bytes = @ + n]
<1>1. Formed(d) /\ q \in Seq(ChunkSet) /\ FlattenSeq(Datas(q)) = s /\ d.bytes = Len(s) /\ s \in V
  BY DEF Holds
<1>2. e = WithChunks(d, new \o q, d.bytes + n)
  BY <1>1 DEF PushBlocksAtFront, WithChunks, Formed
<1> HIDE DEF new, e
<1>3. Formed(e) /\ e.file = d.file
  BY <1>1, <1>2, WithChunksIs
<1>4. ASSUME m <= 1 PROVE Holds(e, f \o s)
  <2>1. m \in Nat /\ DOMAIN blocks = 1..m /\ \A i \in 1..m : blocks[i] \in V
    OBVIOUS
  <2>2. \A i \in 1..m : Reverse(blocks)[i] = blocks[i]
    <3>1. ASSUME NEW i \in 1..m PROVE Reverse(blocks)[i] = blocks[i]
      <4>1. m = 1 /\ i = 1 /\ (m - i) + 1 = i
        BY <1>4, <2>1
      <4>2. Reverse(blocks) = [j \in 1..m |-> blocks[(m - j) + 1]]
        BY DEF Reverse
      <4>3. Reverse(blocks)[i] = blocks[(m - i) + 1]
        BY <4>2
      <4>4. QED
        BY <4>1, <4>3
    <3>2. QED
      BY <3>1
  <2>3. new = [i \in 1..m |-> [data |-> blocks[i], offset |-> 0]]
    BY <2>1, <2>2 DEF new
  <2>4. new \in Seq(ChunkSet) /\ Len(new) = m /\ \A i \in 1..m : new[i].data = blocks[i]
    <3>1. \A i \in 1..m : new[i] \in ChunkSet /\ new[i].data = blocks[i]
      BY <2>1, <2>3 DEF ChunkSet
    <3>2. new \in [1..m -> ChunkSet]
      BY <2>3, <3>1
    <3> HIDE DEF m
    <3>3. new \in Seq(ChunkSet) /\ Len(new) = m
      BY <2>1, <3>2
    <3>4. QED
      BY <3>1, <3>3
  <2>5. Datas(new) = blocks
    <3> DEFINE D == Datas(new)
    <3>1. D \in Seq(V) /\ Len(D) = m /\ \A i \in 1..m : D[i] = new[i].data
      BY <2>4, DatasFacts
    <3> HIDE DEF D, V
    <3>2. D = blocks
      BY <2>4, <3>1, SeqEqual DEF V
    <3>3. QED
      BY <3>2 DEF D
  <2>6. new \o q \in Seq(ChunkSet) /\ Datas(new \o q) = blocks \o Datas(q)
    BY <1>1, <2>4, <2>5, DatasOfJoined
  <2>7. FlattenSeq(Datas(new \o q)) = f \o s /\ f \in V
    <3>1. Datas(q) \in Seq(V)
      BY <1>1, DatasFacts
    <3>2. FlattenSeq(blocks \o Datas(q)) = f \o FlattenSeq(Datas(q))
      BY <3>1, FlatOfJoined
    <3>3. f \in V
      BY FlatIsText
    <3>4. QED
      BY <1>1, <2>6, <3>2, <3>3
  <2>8. d.bytes + n = Len(f \o s)
    <3> HIDE DEF f
    <3>1. IsJoined(Bytes, f \o s, f, s)
      BY <1>1, <2>7, JoinIs, Zenon
    <3>2. Len(f \o s) = Len(f) + Len(s) /\ Len(f) \in Nat /\ Len(s) \in Nat
      BY <1>1, <2>7, <3>1 DEF IsJoined
    <3>3. QED
      BY <1>1, <3>2 DEF f
  <2> HIDE DEF q
  <2>9. Holds(WithChunks(d, new \o q, d.bytes + n), f \o s)
    BY <1>1, <2>6, <2>7, <2>8, HoldsInChunks
  <2>10. QED
    BY <1>2, <2>9
<1>5. QED
  BY <1>3, <1>4 DEF e

-----------------------------------------------------------------------------
\* What an append and a prepend of a text make of a container with another.
Appended(s, t, r) ==
    /\ r.ok \in BOOLEAN /\ r.n \in 0..Len(t) /\ (r.ok => r.n = Len(t))
    /\ Holds(r.c, s \o SubSeq(t, 1, r.n))
Prepended(s, t, r, max) ==
    /\ r.n \in 0..Len(t) /\ Formed(r.c)
    /\ (r.n > 0 /\ (r.c.file.moved \/ r.n > max)) \/ Holds(r.c, SubSeq(t, 1, r.n) \o s)

LEMMA NothingAdded ==
    ASSUME NEW d, NEW s, Holds(d, s), NEW t \in Seq(Bytes), NEW ok \in BOOLEAN, ok => t = << >>, NEW max
    PROVE  Appended(s, t, Changed(ok, 0, d)) /\ Prepended(s, t, Changed(ok, 0, d), max)
<1> DEFINE r == Changed(ok, 0, d)
           x == SubSeq(t, 1, 0)
<1>1. r.ok = ok /\ r.n = 0 /\ r.c = d
  BY DEF Changed
<1> HIDE DEF r
<1>2. Len(t) \in Nat /\ s \in Seq(Bytes) /\ Formed(d) /\ (t = << >> => Len(t) = 0)
  BY DEF Holds
<1>3. x = << >>
  <2>1. 0 \in 0..Len(t)
    BY <1>2
  <2>2. x \in Seq(Bytes) /\ Len(x) = 0
    BY <2>1, FrontFacts
  <2>3. QED
    BY <2>2, EmptySeq
<1>4. s \o << >> = s /\ << >> \o s = s
  BY <1>2, ConcatEmptySeq
<1> HIDE DEF x
<1>5. s \o x = s /\ x \o s = s
  BY <1>3, <1>4
<1>6. 0 \in 0..Len(t)
  BY <1>2
<1>7. Appended(s, t, r)
  BY <1>1, <1>2, <1>5, <1>6 DEF Appended, x
<1>8. Prepended(s, t, r, max)
  BY <1>1, <1>2, <1>5, <1>6 DEF Prepended, x
<1>9. QED
  BY <1>7, <1>8 DEF r

LEMMA AddsToFile ==
    ASSUME NEW d, NEW s, Holds(d, s), d.file.moved, NEW t \in Seq(Bytes), t # << >>, NEW max
    PROVE  Appended(s, t, FileAdds(d, t, FALSE)) /\ Prepended(s, t, FileAdds(d, t, TRUE), max)
<1>1. Formed(d) /\ s \in Seq(Bytes) /\ d.file.bytes = s /\ d.chunks = << >>
  BY DEF Holds
<1>2. Len(t) \in Nat /\ Len(t) > 0 /\ SubSeq(t, 1, Len(t)) = t
  <2>1. Len(t) \in Nat /\ Len(t) # 0
    BY EmptySeq
  <2>2. Len(t) <= Len(t) /\ Len(t) >= Len(t)
    BY <2>1
  <2>3. Piece(t, 0, Len(t)) = t /\ Piece(t, 0, Len(t)) = SubSeq(t, 1, Len(t))
    BY <2>1, <2>2, FrontIsPiece
  <2>4. QED
    BY <2>1, <2>3
<1> DEFINE r == FileAdds(d, t, FALSE)
<1>3. r.ok = TRUE /\ r.n = Len(t) /\ r.c = Resized(d, s \o t)
  BY <1>1 DEF FileAdds, Changed
<1>4. Holds(Resized(d, s \o t), s \o t)
  <2>1. s \o t \in Seq(Bytes)
    BY <1>1
  <2>2. QED
    BY <1>1, <2>1, HoldsInFile
<1> HIDE DEF r
<1>5. Appended(s, t, r)
  <2>1. r.n \in 0..Len(t) /\ r.n = Len(t)
    BY <1>2, <1>3
  <2>2. Holds(r.c, s \o SubSeq(t, 1, r.n))
    BY <1>2, <1>3, <1>4
  <2>3. TRUE \in BOOLEAN
    OBVIOUS
  <2>4. r.ok \in BOOLEAN
    BY <1>3, <2>3, Zenon
  <2>5. QED
    BY <2>1, <2>2, <2>4 DEF Appended
<1> DEFINE v == FileAdds(d, t, TRUE)
           new == t \o From(From(d.file.bytes \o [i \in DOMAIN t |-> Nul], Len(t)) \o From(d.file.bytes \o [i \in DOMAIN t |-> Nul], Len(d.file.bytes)), Len(t))
<1>6. v.n = Len(t) /\ v.c = Resized(d, new)
  BY DEF FileAdds, Changed
<1> HIDE DEF v, new
<1>7. Formed(Resized(d, new)) /\ Resized(d, new).file.moved
  BY <1>1, HoldsInFile
<1>8. Prepended(s, t, v, max)
  BY <1>2, <1>6, <1>7 DEF Prepended
<1>9. QED
  BY <1>5, <1>8 DEF r, v

LEMMA AddsToMemory ==
    ASSUME NEW d, NEW s, Holds(d, s), ~d.file.moved, NEW t \in Seq(Bytes), NEW mode \in BOOLEAN, NEW opens
    PROVE  LET room == Blocks(t, d.maxChunkSize)
               blocks == SubSeq(room, 1, Lesser(Len(room), d.maxChunks - Len(d.chunks)))
               n == Len(FlattenSeq(blocks))
               all == blocks = room
               placed == [(IF mode THEN PushBlocksAtFront(d, blocks) ELSE PushBlocks(d, blocks))
                            EXCEPT !.bytes = @ + n]
               r == Changed(all, n, IF mode /\ all THEN recalcChunkOffsets(placed) ELSE placed)
           IN /\ ~mode => Appended(s, t, r)
              /\ mode => Prepended(s, t, r, d.maxChunkSize)
<1> DEFINE max == d.maxChunkSize
           m == d.maxChunks - Len(d.chunks)
           room == Blocks(t, max)
           blocks == SubSeq(room, 1, Lesser(Len(room), m))
           f == FlattenSeq(blocks)
           n == Len(f)
           all == blocks = room
           back == [PushBlocks(d, blocks) EXCEPT !.bytes = @ + n]
           front == [PushBlocksAtFront(d, blocks) EXCEPT !.bytes = @ + n]
<1>1. max \in Nat \ {0} /\ m \in Int
  <2>1. d.chunks \in Seq(ChunkSet) /\ d.maxChunks \in Nat /\ max \in Nat \ {0}
    BY DEF Holds, Formed
  <2>2. Len(d.chunks) \in Nat
    BY <2>1
  <2>3. QED
    BY <2>1, <2>2
<1> HIDE DEF m, max
<1>2. /\ blocks \in Seq(Seq(Bytes)) /\ n \in 0..Len(t) /\ f = SubSeq(t, 1, n)
      /\ blocks = room => n = Len(t)
      /\ n <= max => Len(blocks) <= 1
  BY <1>1, BlocksThatFit
<1> HIDE DEF blocks, room
<1>3. Holds(back, s \o f)
  BY <1>2, BlocksPushed
<1>4. Formed(front) /\ front.file = d.file /\ (Len(blocks) <= 1 => Holds(front, f \o s))
  BY <1>2, BlocksPushedAtFront
<1> HIDE DEF n, f, back, front
<1>5. CASE ~mode
  <2> DEFINE r == Changed(all, n, back)
  <2>1. r.ok = all /\ r.n = n /\ r.c = back
    BY DEF Changed
  <2> HIDE DEF r
  <2>2. all \in BOOLEAN
    OBVIOUS
  <2>3. Appended(s, t, r)
    BY <1>2, <1>3, <2>1, <2>2 DEF Appended
  <2>4. QED
    BY <1>5, <2>3 DEF r, back, blocks, room, n, f, max, m
<1>6. CASE mode
  <2> DEFINE e == IF all THEN recalcChunkOffsets(front) ELSE front
             r == Changed(all, n, e)
  <2>1. r.n = n /\ r.c = e
    BY DEF Changed
  <2>2. Formed(e)
    BY <1>4, RecalcForms
  <2>3. n <= max => Holds(e, f \o s)
    <3>1. ASSUME n <= max PROVE Holds(e, f \o s)
      <4>1. Holds(front, f \o s) /\ ~front.file.moved
        BY <1>2, <1>4, <3>1
      <4>2. Holds(recalcChunkOffsets(front), f \o s)
        BY <4>1, RecalcKeeps
      <4>3. QED
        BY <4>1, <4>2
    <3>2. QED
      BY <3>1
  <2> HIDE DEF r, e
  <2>4. CASE n <= max
    <3>1. Holds(e, SubSeq(t, 1, n) \o s)
      BY <1>2, <2>3, <2>4
    <3>2. Prepended(s, t, r, max)
      BY <1>2, <2>1, <2>2, <3>1 DEF Prepended
    <3>3. QED
      BY <1>6, <3>2 DEF r, e, front, blocks, room, n, f, max, m
  <2>5. CASE ~(n <= max)
    <3>1. n > 0 /\ n > max
      <4>1. n \in Nat
        BY <1>2
      <4>2. QED
        BY <1>1, <2>5, <4>1
    <3>2. Prepended(s, t, r, max)
      BY <1>2, <2>1, <2>2, <3>1 DEF Prepended
    <3>3. QED
      BY <1>6, <3>2 DEF r, e, front, blocks, room, n, f, max, m
  <2>6. QED
    BY <2>4, <2>5
<1>7. QED
  BY <1>5, <1>6

LEMMA AddsBytes ==
    ASSUME NEW d, NEW s, Holds(d, s), NEW t \in Seq(Bytes), NEW opens \in BOOLEAN
    PROVE  Appended(s, t, append(d, t, opens)) /\ Prepended(s, t, prepend(d, t, opens), d.maxChunkSize)
<1> DEFINE max == d.maxChunkSize
           Right(mode, r) == IF mode THEN Prepended(s, t, r, max) ELSE Appended(s, t, r)
<1>1. ASSUME NEW mode \in BOOLEAN PROVE Right(mode, AddBytes(d, t, mode, opens))
  <2> DEFINE r == AddBytes(d, t, mode, opens)
             no == Changed(FALSE, 0, d)
  <2>1. Right(mode, no)
    BY NothingAdded
  <2>2. CASE Len(t) + size(d) > d.max
    <3>1. r = no
      BY <2>2 DEF AddBytes
    <3>2. QED
      BY <2>1, <3>1
  <2>3. CASE ~(Len(t) + size(d) > d.max) /\ t = << >>
    <3>1. r = Changed(TRUE, 0, d)
      BY <2>3 DEF AddBytes
    <3>2. Right(mode, Changed(TRUE, 0, d))
      BY <2>3, NothingAdded
    <3>3. QED
      BY <3>1, <3>2
  <2>4. CASE ~(Len(t) + size(d) > d.max) /\ t # << >>
    <3>1. r = append2(d, t, mode, opens)
      BY <2>4 DEF AddBytes
    <3>2. CASE d.file.moved
      <4>1. r = FileAdds(d, t, mode)
        BY <3>1, <3>2 DEF append2
      <4>2. Right(mode, FileAdds(d, t, mode))
        <5>1. Appended(s, t, FileAdds(d, t, FALSE)) /\ Prepended(s, t, FileAdds(d, t, TRUE), max)
          BY <2>4, <3>2, AddsToFile
        <5>2. QED
          BY <5>1
      <4>3. QED
        BY <4>1, <4>2
    <3>3. CASE ~d.file.moved /\ d.limit # 0 /\ Len(t) + size(d) > d.limit
      <4>1. CASE opens
        <5>1. r = FileAdds(copyToFS(d), t, mode)
          BY <3>1, <3>3, <4>1 DEF append2
        <5> DEFINE e == copyToFS(d)
        <5>2. Holds(e, s) /\ e.file.moved
          BY <3>3, MovesWithItsText
        <5> HIDE DEF e
        <5>3. Appended(s, t, FileAdds(e, t, FALSE)) /\ Prepended(s, t, FileAdds(e, t, TRUE), max)
          BY <2>4, <5>2, AddsToFile
        <5>4. Right(mode, FileAdds(e, t, mode))
          BY <5>3
        <5>5. QED
          BY <5>1, <5>4 DEF e
      <4>2. CASE ~opens
        <5>1. r = no
          BY <3>1, <3>3, <4>2 DEF append2
        <5>2. QED
          BY <2>1, <5>1
      <4>3. QED
        BY <4>1, <4>2
    <3>4. CASE ~d.file.moved /\ ~(d.limit # 0 /\ Len(t) + size(d) > d.limit)
      <4> DEFINE room == Blocks(t, d.maxChunkSize)
                 blocks == SubSeq(room, 1, Lesser(Len(room), d.maxChunks - Len(d.chunks)))
                 n == Len(FlattenSeq(blocks))
                 all == blocks = room
                 placed == [(IF mode THEN PushBlocksAtFront(d, blocks) ELSE PushBlocks(d, blocks)) EXCEPT !.bytes = @ + n]
                 v == Changed(all, n, IF mode /\ all THEN recalcChunkOffsets(placed) ELSE placed)
      <4>1. (~mode => Appended(s, t, v)) /\ (mode => Prepended(s, t, v, d.maxChunkSize))
        BY <3>4, AddsToMemory
      <4>2. r = v
        <5> HIDE DEF r
        <5>1. r = append2(d, t, mode, opens)
          BY <3>1
        <5>2. append2(d, t, mode, opens) = v
          BY <3>4, Zenon DEF append2
        <5>3. QED
          BY <5>1, <5>2
      <4> HIDE DEF v, r
      <4>3. Right(mode, r)
        BY <4>1, <4>2
      <4>4. QED
        BY <4>3 DEF r
    <3>5. QED
      BY <3>2, <3>3, <3>4
  <2>5. QED
    BY <2>2, <2>3, <2>4
<1>2. Right(FALSE, AddBytes(d, t, FALSE, opens)) /\ Right(TRUE, AddBytes(d, t, TRUE, opens))
  BY <1>1, Zenon
<1>3. QED
  BY <1>2 DEF append, prepend

-----------------------------------------------------------------------------
\* What is left of two joined texts when some bytes of them go.
LEMMA RestOfJoined ==
    ASSUME NEW A, NEW a \in Seq(A), NEW b \in Seq(A), NEW k \in Nat
    PROVE  /\ k <= Len(a) => From(a \o b, k) = From(a, k) \o b
           /\ k >= Len(a) /\ k <= Len(a) + Len(b) => From(a \o b, k) = From(b, k - Len(a))
<1> DEFINE q == a \o b
           r == From(q, k)
           la == Len(a)
           lb == Len(b)
<1>1. la \in Nat /\ lb \in Nat
  OBVIOUS
<1>2. IsJoined(A, q, a, b)
  BY JoinIs, Zenon
<1> HIDE DEF q
<1>3. q \in Seq(A) /\ Len(q) = la + lb /\ (\A i \in 1..la : q[i] = a[i]) /\ \A i \in 1..lb : q[la + i] = b[i]
  BY <1>2 DEF IsJoined
<1>4. k <= la + lb => r \in Seq(A) /\ Len(r) = (la + lb) - k /\ \A i \in 1..((la + lb) - k) : r[i] = q[k + i]
  <2>1. ASSUME k <= la + lb PROVE r \in Seq(A) /\ Len(r) = (la + lb) - k /\ \A i \in 1..((la + lb) - k) : r[i] = q[k + i]
    <3>1. k \in 0..Len(q)
      BY <1>1, <1>3, <2>1
    <3>2. r \in Seq(A) /\ Len(r) = Len(q) - k /\ \A i \in 1..(Len(q) - k) : r[i] = q[k + i]
      BY <1>3, <3>1, FromFacts
    <3>3. QED
      BY <1>3, <3>2
  <2>2. QED
    BY <2>1
<1> HIDE DEF r, la, lb
<1>5. ASSUME k <= la PROVE r = From(a, k) \o b
  <2> DEFINE x == From(a, k)
             w == x \o b
  <2>1. k \in 0..la /\ k <= la + lb
    BY <1>1, <1>5
  <2>2. x \in Seq(A) /\ Len(x) = la - k /\ \A i \in 1..(la - k) : x[i] = a[k + i]
    BY <2>1, FromFacts DEF la
  <2> HIDE DEF x
  <2>3. IsJoined(A, w, x, b)
    BY <2>2, JoinIs, Zenon
  <2> HIDE DEF w
  <2>4. w \in Seq(A) /\ Len(w) = (la - k) + lb
    BY <2>2, <2>3 DEF IsJoined, lb
  <2>5. ASSUME NEW i \in 1..((la + lb) - k) PROVE r[i] = w[i]
    <3>1. CASE i <= la - k
      <4>1. i \in 1..(la - k) /\ k + i \in 1..la
        BY <1>1, <2>1, <3>1
      <4>2. r[i] = q[k + i] /\ q[k + i] = a[k + i] /\ x[i] = a[k + i]
        BY <1>3, <1>4, <2>1, <2>2, <4>1
      <4>3. w[i] = x[i]
        BY <2>2, <2>3, <4>1 DEF IsJoined
      <4>4. QED
        BY <4>2, <4>3
    <3>2. CASE ~(i <= la - k)
      <4> DEFINE j == i - (la - k)
      <4>1. j \in 1..lb /\ (la - k) + j = i /\ k + i = la + j
        BY <1>1, <2>1, <3>2
      <4> HIDE DEF j
      <4>2. w[Len(x) + j] = b[j]
        BY <2>3, <4>1, Zenon DEF IsJoined, lb
      <4>3. r[i] = q[la + j] /\ q[la + j] = b[j]
        BY <1>3, <1>4, <2>1, <4>1
      <4>4. QED
        BY <2>2, <4>1, <4>2, <4>3
    <3>3. QED
      BY <3>1, <3>2
  <2>6. r = w
    <3>1. (la - k) + lb = (la + lb) - k
      BY <1>1
    <3>2. QED
      BY <1>4, <2>1, <2>4, <2>5, <3>1, SeqEqual
  <2>7. QED
    BY <2>6 DEF w, x
<1>6. ASSUME k >= la, k <= la + lb PROVE r = From(b, k - la)
  <2> DEFINE y == From(b, k - la)
  <2>1. k - la \in 0..lb /\ lb - (k - la) = (la + lb) - k
    BY <1>1, <1>6
  <2>2. y \in Seq(A) /\ Len(y) = (la + lb) - k /\ \A i \in 1..((la + lb) - k) : y[i] = b[(k - la) + i]
    <3>1. y \in Seq(A) /\ Len(y) = lb - (k - la) /\ \A i \in 1..(lb - (k - la)) : y[i] = b[(k - la) + i]
      BY <2>1, FromFacts DEF lb
    <3>2. QED
      BY <2>1, <3>1
  <2> HIDE DEF y
  <2>3. ASSUME NEW i \in 1..((la + lb) - k) PROVE r[i] = y[i]
    <3> DEFINE j == (k - la) + i
    <3>1. j \in 1..lb /\ la + j = k + i
      BY <1>1, <1>6
    <3> HIDE DEF j
    <3>2. r[i] = q[la + j] /\ q[la + j] = b[j]
      BY <1>3, <1>4, <1>6, <3>1
    <3>3. y[i] = b[j]
      BY <2>2 DEF j
    <3>4. QED
      BY <3>2, <3>3
  <2>4. r = y
    BY <1>4, <1>6, <2>2, <2>3, SeqEqual
  <2>5. QED
    BY <2>4 DEF y
<1>7. QED
  BY <1>5, <1>6 DEF r, q, la, lb

LEMMA HeadAndTail ==
    ASSUME NEW chunks \in Seq(ChunkSet), chunks # << >>
    PROVE  /\ Head(chunks) \in ChunkSet /\ Tail(chunks) \in Seq(ChunkSet) /\ Len(Tail(chunks)) = Len(chunks) - 1
           /\ FlattenSeq(Datas(chunks)) = Head(chunks).data \o FlattenSeq(Datas(Tail(chunks)))
<1>1. Len(chunks) \in Nat /\ Len(chunks) > 0
  <2>1. Len(chunks) \in Nat /\ Len(chunks) # 0
    BY EmptySeq
  <2>2. QED
    BY <2>1
<1>2. /\ Head(chunks) = chunks[1] /\ Tail(chunks) \in Seq(ChunkSet) /\ Len(Tail(chunks)) = Len(chunks) - 1
      /\ \A i \in 1..(Len(chunks) - 1) : Tail(chunks)[i] = chunks[i + 1]
  BY <1>1
<1>3. 1 \in 0..Len(chunks) /\ 1 \in 1..Len(chunks) /\ 1 - 1 = 0 /\ 0 \in 0..Len(chunks)
  BY <1>1
<1>4. Tail(chunks) = From(chunks, 1)
  <2> DEFINE r == From(chunks, 1)
             t == Tail(chunks)
  <2>1. r \in Seq(ChunkSet) /\ Len(r) = Len(chunks) - 1 /\ \A i \in 1..(Len(chunks) - 1) : r[i] = chunks[1 + i]
    BY <1>3, FromFacts
  <2> HIDE DEF r, t
  <2>2. ASSUME NEW i \in 1..(Len(chunks) - 1) PROVE t[i] = r[i]
    <3>1. i + 1 = 1 + i
      BY <1>1
    <3>2. QED
      BY <1>2, <2>1, <3>1 DEF t
  <2>3. t = r
    BY <1>2, <2>1, <2>2, SeqEqual DEF t
  <2>4. QED
    BY <2>3 DEF t, r
<1>5. FlattenSeq(Datas(chunks)) = Upto(chunks, 1) \o FlattenSeq(Datas(From(chunks, 1)))
  BY <1>3, TextSplit
<1>6. Upto(chunks, 1) = chunks[1].data
  <2>1. Upto(chunks, 1) = Upto(chunks, 1 - 1) \o chunks[1].data
    BY <1>3, UptoFacts
  <2>2. Upto(chunks, 0) = << >>
    BY UptoFacts
  <2>3. chunks[1].data \in Seq(Bytes)
    BY <1>3, DatasFacts
  <2>4. << >> \o chunks[1].data = chunks[1].data
    BY <2>3, ConcatEmptySeq
  <2>5. QED
    BY <1>3, <2>1, <2>2, <2>4
<1>7. Head(chunks) \in ChunkSet
  BY <1>2, <1>3
<1>8. QED
  BY <1>2, <1>4, <1>5, <1>6, <1>7

\* Some chunks and what is left to drop of them; and one chunk, or a part of it, dropped.
Lefts == [chunks : Seq(ChunkSet), n : Nat]
TextLeft(w) == FlattenSeq(Datas(w.chunks))
Drops(w) ==
    LET first == Head(w.chunks)
    IN IF w.n = 0 \/ w.chunks = << >> THEN w
       ELSE IF w.n >= Len(first.data) THEN [chunks |-> Tail(w.chunks), n |-> w.n - Len(first.data)]
       ELSE [chunks |-> <<[first EXCEPT !.data = From(@, w.n)]>> \o Tail(w.chunks), n |-> 0]

LEMMA DropsKeeps ==
    ASSUME NEW w \in Lefts
    PROVE  /\ Drops(w) \in Lefts
           /\ w.n <= Len(TextLeft(w)) =>
                  /\ Drops(w).n <= Len(TextLeft(Drops(w)))
                  /\ From(TextLeft(Drops(w)), Drops(w).n) = From(TextLeft(w), w.n)
           /\ Drops(w).n = 0 \/ w.chunks = << >> \/ Len(Drops(w).chunks) = Len(w.chunks) - 1
           /\ w.chunks = << >> => Drops(w) = w
<1> DEFINE q == w.chunks
           n == w.n
           first == Head(q)
           x == first.data
           rest == FlattenSeq(Datas(Tail(q)))
           v == Drops(w)
<1>1. q \in Seq(ChunkSet) /\ n \in Nat
  BY DEF Lefts
<1>2. CASE n = 0 \/ q = << >>
  <2>1. v = w
    BY <1>2 DEF Drops
  <2>2. v.n = 0 \/ w.chunks = << >>
    BY <1>2, <2>1
  <2> HIDE DEF v
  <2>3. QED
    BY <2>1, <2>2 DEF v
<1>3. CASE n # 0 /\ q # << >>
  <2>1. first \in ChunkSet /\ Tail(q) \in Seq(ChunkSet) /\ Len(Tail(q)) = Len(q) - 1 /\ FlattenSeq(Datas(q)) = x \o rest
    BY <1>1, <1>3, HeadAndTail
  <2>2. x \in Seq(Bytes) /\ Len(x) \in Nat /\ rest \in Seq(Bytes) /\ Len(rest) \in Nat
    <3>1. x \in Seq(Bytes)
      BY <2>1 DEF ChunkSet
    <3>2. Datas(Tail(q)) \in Seq(Seq(Bytes))
      BY <2>1, DatasFacts
    <3>3. rest \in Seq(Bytes)
      BY <3>2, FlatIsText
    <3> HIDE DEF x, rest
    <3>4. QED
      BY <3>1, <3>3
  <2>3. TextLeft(w) = x \o rest
    BY <2>1 DEF TextLeft
  <2>4. Len(x \o rest) = Len(x) + Len(rest)
    <3> HIDE DEF x, rest
    <3>1. IsJoined(Bytes, x \o rest, x, rest)
      BY <2>2, JoinIs, Zenon
    <3>2. QED
      BY <3>1 DEF IsJoined
  <2>5. CASE n >= Len(x)
    <3> DEFINE k == n - Len(x)
    <3>1. v = [chunks |-> Tail(q), n |-> k]
      BY <1>3, <2>5 DEF Drops
    <3>2. k \in Nat
      BY <1>1, <2>2, <2>5
    <3> HIDE DEF v
    <3>3. v \in Lefts /\ v.n = k /\ v.chunks = Tail(q)
      BY <2>1, <3>1, <3>2 DEF Lefts
    <3>4. TextLeft(v) = rest
      BY <3>3 DEF TextLeft
    <3>5. n <= Len(TextLeft(w)) => k <= Len(rest) /\ From(rest, k) = From(x \o rest, n)
      <4>1. ASSUME n <= Len(TextLeft(w)) PROVE k <= Len(rest) /\ From(rest, k) = From(x \o rest, n)
        <5>1. n <= Len(x) + Len(rest)
          BY <2>3, <2>4, <4>1
        <5> HIDE DEF x, rest
        <5>2. k <= Len(rest)
          BY <1>1, <2>2, <5>1
        <5>3. From(x \o rest, n) = From(rest, n - Len(x))
          BY <1>1, <2>2, <2>5, <5>1, RestOfJoined
        <5>4. QED
          BY <5>2, <5>3
      <4>2. QED
        BY <4>1
    <3>6. Len(v.chunks) = Len(w.chunks) - 1
      BY <2>1, <3>3
    <3>7. QED
      BY <1>3, <2>3, <3>3, <3>4, <3>5, <3>6 DEF v
  <2>6. CASE ~(n >= Len(x))
    <3> DEFINE cut == [first EXCEPT !.data = From(@, n)]
               one == <<cut>>
               y == From(x, n)
    <3>1. v = [chunks |-> one \o Tail(q), n |-> 0]
      BY <1>3, <2>6 DEF Drops
    <3>2. n \in 0..Len(x) /\ n <= Len(x)
      BY <1>1, <2>2, <2>6
    <3>3. y \in Seq(Bytes)
      BY <2>2, <3>2, FromFacts
    <3>4. cut \in ChunkSet /\ cut.data = y
      BY <2>1, <3>3 DEF ChunkSet
    <3>5. one \in Seq(ChunkSet) /\ Len(one) = 1 /\ one[1] = cut
      BY <3>4
    <3> HIDE DEF v, cut, one, y
    <3>6. one \o Tail(q) \in Seq(ChunkSet) /\ Datas(one \o Tail(q)) = Datas(one) \o Datas(Tail(q))
      BY <2>1, <3>5, DatasOfJoined
    <3>7. Datas(one) = <<y>>
      <4> DEFINE D == Datas(one)
      <4>1. D \in Seq(Seq(Bytes)) /\ Len(D) = 1 /\ D[1] = y
        BY <3>4, <3>5, DatasFacts
      <4> HIDE DEF D
      <4>2. D = <<y>>
        BY <4>1
      <4>3. QED
        BY <4>2 DEF D
    <3>8. FlattenSeq(Datas(one \o Tail(q))) = y \o rest
      <4>a. Datas(Tail(q)) \in Seq(Seq(Bytes))
        BY <2>1, DatasFacts
      <4>1. <<y>> \in Seq(Seq(Bytes)) /\ Datas(Tail(q)) \in Seq(Seq(Bytes))
        BY <3>3, <4>a
      <4>2. FlattenSeq(<<y>> \o Datas(Tail(q))) = FlattenSeq(<<y>>) \o rest
        BY <4>1, FlatOfJoined
      <4>3. FlattenSeq(<<y>>) = y
        BY <3>3, FlatOfOne
      <4>4. QED
        BY <3>6, <3>7, <4>2, <4>3
    <3>9. v \in Lefts /\ v.n = 0 /\ v.chunks = one \o Tail(q)
      BY <3>1, <3>6 DEF Lefts
    <3>10. TextLeft(v) = y \o rest
      BY <3>8, <3>9 DEF TextLeft
    <3>11. From(x \o rest, n) = y \o rest
      <4> HIDE DEF x, rest
      <4>1. From(x \o rest, n) = From(x, n) \o rest
        BY <1>1, <2>2, <3>2, RestOfJoined
      <4>2. QED
        BY <4>1 DEF y
    <3>12. 0 <= Len(y \o rest) /\ From(y \o rest, 0) = y \o rest
      <4> DEFINE z == y \o rest
      <4>1. z \in Seq(Bytes)
        BY <2>2, <3>3
      <4> HIDE DEF z
      <4>2. Len(z) \in Nat /\ 0 + 1 = 1
        BY <4>1
      <4>3. From(z, 0) = SubSeq(z, 1, Len(z))
        BY <4>2 DEF From
      <4>4. Piece(z, 0, Len(z)) = z /\ Piece(z, 0, Len(z)) = SubSeq(z, 1, Len(z))
        <5>1. Len(z) <= Len(z) /\ Len(z) >= Len(z)
          BY <4>2
        <5>2. QED
          BY <4>1, <4>2, <5>1, FrontIsPiece
      <4>5. 0 <= Len(z) /\ From(z, 0) = z
        BY <4>2, <4>3, <4>4
      <4>6. QED
        BY <4>5 DEF z
    <3>13. QED
      BY <1>3, <2>3, <3>9, <3>10, <3>11, <3>12 DEF v
  <2>7. QED
    BY <2>5, <2>6
<1>4. QED
  BY <1>2, <1>3

LEMMA DropBytesIs ==
    ASSUME NEW q \in Seq(ChunkSet), NEW n \in Nat, n <= Len(FlattenSeq(Datas(q)))
    PROVE  /\ DropBytes(q, n) \in Seq(ChunkSet)
           /\ FlattenSeq(Datas(DropBytes(q, n))) = From(FlattenSeq(Datas(q)), n)
<1> DEFINE m == Len(q)
           whole == FlattenSeq(Datas(q))
           first == [chunks |-> q, n |-> n]
           step == [i \in 1..m |-> [w \in Lefts |-> Drops(w)]]
<1>0. m \in Nat /\ whole \in Seq(Bytes)
  <2>1. Datas(q) \in Seq(Seq(Bytes))
    BY DatasFacts
  <2>2. whole \in Seq(Bytes)
    BY <2>1, FlatIsText
  <2>3. QED
    BY <2>2
<1>1. first \in Lefts
  BY DEF Lefts
<1>2. step \in StepsOf(m, Lefts)
  <2>1. \A w \in Lefts : Drops(w) \in Lefts
    BY DropsKeeps
  <2>2. QED
    BY <2>1 DEF StepsOf
<1>3. \A i \in 1..m, w \in Lefts : step[i][w] = Drops(w)
  OBVIOUS
<1> HIDE DEF step, first, m
<1>4. PICK f : Iterated(m, Lefts, first, step, f)
  BY <1>0, <1>1, <1>2, Iterates, Zenon
<1>5. f \in [0..m -> Lefts] /\ f[0] = first /\ \A i \in 1..m : f[i] = Drops(f[i - 1])
  BY <1>3, <1>4 DEF Iterated
<1>6. f = [i \in 0..m |-> IF i = 0 THEN first ELSE Drops(f[i - 1])]
  <2>1. f = [i \in 0..m |-> f[i]]
    BY <1>5
  <2>2. \A i \in 0..m : i = 0 \/ i \in 1..m
    BY <1>0
  <2>3. QED
    BY <1>5, <2>1, <2>2, Zenon
<1> DEFINE left == CHOOSE left : left = [i \in 0..m |-> IF i = 0 THEN first ELSE Drops(left[i - 1])]
<1>7. left = [i \in 0..m |-> IF i = 0 THEN first ELSE Drops(left[i - 1])]
  BY <1>6, Zenon
<1>8. DropBytes(q, n) = left[m].chunks
  BY Zenon DEF DropBytes, Drops, first, m
<1> HIDE DEF left
<1>9. left[0] = first /\ \A i \in 1..m : left[i] = Drops(left[i - 1])
  <2>1. \A i \in 1..m : i \in 0..m /\ i # 0
    BY <1>0
  <2>2. 0 \in 0..m
    BY <1>0
  <2>3. QED
    BY <1>7, <2>1, <2>2, Zenon
<1>10. \A i \in 0..m : left[i] = f[i]
  <2>1. SameRule(m, left, f)
    BY <1>5, <1>9, Zenon DEF SameRule
  <2>2. QED
    BY <1>0, <2>1, IteratesOnce
<1>11. \A i \in 0..m : left[i] \in Lefts
  BY <1>5, <1>10
<1> DEFINE Fine(i, w) ==
               /\ w.n <= Len(TextLeft(w)) /\ From(TextLeft(w), w.n) = From(whole, n)
               /\ w.n = 0 \/ Len(w.chunks) + i <= m
           S == {i \in Nat : i <= m => Fine(i, left[i])}
<1> HIDE DEF whole
<1>12. 0 \in S
  <2>1. first.n = n /\ first.chunks = q
    BY DEF first
  <2>2. TextLeft(first) = whole
    BY <2>1 DEF TextLeft, whole
  <2>3. Len(q) + 0 <= m /\ n <= Len(whole)
    BY <1>0 DEF m, whole
  <2>4. Fine(0, first)
    BY <2>1, <2>2, <2>3
  <2>5. QED
    BY <1>9, <2>4
<1>13. ASSUME NEW i \in Nat, i \in S PROVE i + 1 \in S
  <2> SUFFICES ASSUME i + 1 <= m PROVE Fine(i + 1, left[i + 1])
    OBVIOUS
  <2> DEFINE w == left[i]
             v == left[i + 1]
  <2>1. i + 1 \in 1..m /\ (i + 1) - 1 = i /\ i <= m /\ i \in 0..m
    BY <1>0
  <2>2. v = Drops(w) /\ w \in Lefts /\ Fine(i, w)
    BY <1>9, <1>11, <1>13, <2>1
  <2> HIDE DEF v, w
  <2>3. /\ v.n <= Len(TextLeft(v)) /\ From(TextLeft(v), v.n) = From(TextLeft(w), w.n)
        /\ v.n = 0 \/ w.chunks = << >> \/ Len(v.chunks) = Len(w.chunks) - 1
        /\ w.chunks = << >> => v = w
    BY <2>2, DropsKeeps
  <2>4. v.n = 0 \/ Len(v.chunks) + (i + 1) <= m
    <3>1. w.chunks \in Seq(ChunkSet) /\ w.n \in Nat
      BY <2>2 DEF Lefts
    <3>2. CASE v.n = 0
      BY <3>2
    <3>3. CASE v.n # 0 /\ w.chunks = << >>
      <4>1. v = w /\ Len(w.chunks) = 0
        BY <2>3, <3>3
      <4>2. Len(v.chunks) = 0
        BY <4>1
      <4>3. QED
        BY <1>0, <2>1, <4>2
    <3>4. CASE v.n # 0 /\ w.chunks # << >>
      <4>1. Len(v.chunks) = Len(w.chunks) - 1 /\ Len(w.chunks) \in Nat
        BY <2>3, <3>1, <3>4
      <4>2. w.n # 0
        <5>1. ASSUME w.n = 0 PROVE FALSE
          <6>1. Drops(w) = w
            BY <5>1 DEF Drops
          <6>2. QED
            BY <2>2, <3>4, <5>1, <6>1
        <5>2. QED
          BY <5>1
      <4>3. Len(w.chunks) + i <= m
        BY <2>2, <4>2
      <4> DEFINE a == Len(w.chunks)
                 b == Len(v.chunks)
      <4>4. b = a - 1 /\ a + i <= m /\ a \in Nat
        BY <4>1, <4>3
      <4> HIDE DEF a, b
      <4>5. b + (i + 1) <= m
        BY <1>0, <4>4
      <4>6. QED
        BY <4>5 DEF b
    <3>5. QED
      BY <3>2, <3>3, <3>4
  <2>5. Fine(i + 1, v)
    BY <2>2, <2>3, <2>4
  <2>6. QED
    BY <2>5 DEF v
<1> HIDE DEF S
<1>14. m \in S
  BY <1>0, <1>12, <1>13, SetInduction
<1> DEFINE w == left[m]
<1>15. w \in Lefts /\ Fine(m, w)
  <2>1. m \in 0..m /\ m <= m
    BY <1>0
  <2>2. QED
    BY <1>11, <1>14, <2>1 DEF S
<1> HIDE DEF w
<1>16. w.chunks \in Seq(ChunkSet) /\ w.n \in Nat /\ TextLeft(w) \in Seq(Bytes)
  <2>1. w.chunks \in Seq(ChunkSet) /\ w.n \in Nat
    BY <1>15 DEF Lefts
  <2>2. Datas(w.chunks) \in Seq(Seq(Bytes))
    BY <2>1, DatasFacts
  <2>3. TextLeft(w) \in Seq(Bytes)
    BY <2>2, FlatIsText DEF TextLeft
  <2>4. QED
    BY <2>1, <2>3
<1>17. w.n = 0
  <2>1. ASSUME w.n # 0 PROVE FALSE
    <3>1. Len(w.chunks) + m <= m /\ Len(w.chunks) \in Nat
      BY <1>15, <1>16, <2>1
    <3>2. Len(w.chunks) = 0
      BY <1>0, <3>1
    <3>3. w.chunks = << >>
      BY <1>16, <3>2, EmptySeq
    <3>4. TextLeft(w) = << >>
      <4>1. Datas(<< >>) = << >>
        BY DEF Datas
      <4>2. QED
        BY <3>3, <4>1, FlatOfNone DEF TextLeft
    <3>5. w.n <= Len(TextLeft(w)) /\ Len(TextLeft(w)) = 0
      BY <1>15, <3>4
    <3>6. QED
      BY <1>16, <2>1, <3>5
  <2>2. QED
    BY <2>1
<1>18. From(TextLeft(w), 0) = TextLeft(w)
  <2> DEFINE z == TextLeft(w)
  <2> HIDE DEF z
  <2>1. z \in Seq(Bytes) /\ Len(z) \in Nat
    BY <1>16 DEF z
  <2>2. Len(z) <= Len(z) /\ Len(z) >= Len(z) /\ 0 + 1 = 1
    BY <2>1
  <2>3. Piece(z, 0, Len(z)) = z /\ Piece(z, 0, Len(z)) = SubSeq(z, 1, Len(z))
    BY <2>1, <2>2, FrontIsPiece
  <2>4. From(z, 0) = z
    BY <2>2, <2>3 DEF From
  <2>5. QED
    BY <2>4 DEF z
<1>19. TextLeft(w) = From(whole, n)
  BY <1>15, <1>17, <1>18
<1>20. QED
  BY <1>8, <1>16, <1>19 DEF w, TextLeft, whole

-----------------------------------------------------------------------------
(***************************************************************************)
(* The changes one by one.                                                 *)
(***************************************************************************)
LEMMA Displaces ==
    ASSUME NEW d, NEW s, Holds(d, s), NEW n \in Nat
    PROVE  LET r == displace(d, n)
           IN r.n = Lesser(n, Len(s)) /\ r.n \in 0..Len(s) /\ Holds(r.c, From(s, r.n))
<1> DEFINE m == Lesser(n, Len(s))
           r == displace(d, n)
           t == From(s, m)
<1>1. size(d) = Len(s) /\ Len(s) \in Nat /\ s \in Seq(Bytes) /\ Formed(d)
  BY SizeIs DEF Holds
<1>2. m \in 0..Len(s) /\ Lesser(n, size(d)) = m
  BY <1>1 DEF Lesser
<1> HIDE DEF m
<1>3. t \in Seq(Bytes) /\ Len(t) = Len(s) - m
  BY <1>1, <1>2, FromFacts
<1>4. r.n = m
  BY <1>2 DEF displace, Changed
<1>5. Holds(r.c, t)
  <2>1. CASE d.file.moved
    <3>1. r.c = Resized(d, t)
      BY <1>2, <2>1 DEF displace, Changed, FileDrops, Holds
    <3>2. d.chunks = << >>
      BY <2>1 DEF Holds
    <3>3. Holds(Resized(d, t), t)
      BY <1>1, <1>3, <2>1, <3>2, HoldsInFile
    <3>4. QED
      BY <3>1, <3>3
  <2>2. CASE ~d.file.moved
    <3> DEFINE q == DropBytes(d.chunks, m)
               e == WithChunks(d, q, d.bytes - m)
    <3>1. d.chunks \in Seq(ChunkSet) /\ FlattenSeq(Datas(d.chunks)) = s /\ d.bytes = Len(s)
      BY <2>2 DEF Holds
    <3>2. q \in Seq(ChunkSet) /\ FlattenSeq(Datas(q)) = t
      BY <1>1, <1>2, <3>1, DropBytesIs
    <3>3. r.c = recalcChunkOffsets(e)
      <4>1. [d EXCEPT !.chunks = DropBytes(@, m), !.bytes = @ - m] = e
        BY <1>1 DEF Formed, WithChunks
      <4>2. QED
        BY <1>2, <2>2, <4>1 DEF displace, Changed
    <3> HIDE DEF q, r
    <3>4. Holds(e, t)
      <4>1. d.bytes - m = Len(t)
        BY <1>3, <3>1
      <4>2. QED
        BY <1>1, <2>2, <3>2, <4>1, HoldsInChunks
    <3>5. ~e.file.moved
      BY <1>1, <2>2, WithChunksIs
    <3> HIDE DEF e
    <3>6. Holds(recalcChunkOffsets(e), t)
      BY <3>4, <3>5, RecalcKeeps
    <3>7. QED
      BY <3>3, <3>6
  <2>3. QED
    BY <2>1, <2>2
<1>6. QED
  BY <1>2, <1>4, <1>5 DEF m

LEMMA Clears ==
    ASSUME NEW d, Formed(d)
    PROVE  Holds(clear(d), << >>)
<1> DEFINE e == clear(d)
<1>a. e = [d EXCEPT !.chunks = << >>, !.bytes = 0, !.file = InMemory]
  BY DEF clear
<1> HIDE DEF e
<1>1. e = [chunks |-> << >>, bytes |-> 0, max |-> d.max, limit |-> d.limit, file |-> InMemory,
           maxChunkSize |-> d.maxChunkSize, maxChunks |-> d.maxChunks]
  BY <1>a DEF Formed
<1>2. /\ e.chunks = << >> /\ e.bytes = 0 /\ e.max = d.max /\ e.limit = d.limit /\ e.file = InMemory
      /\ e.maxChunkSize = d.maxChunkSize /\ e.maxChunks = d.maxChunks
  BY <1>1
<1>3. e.file = [moved |-> e.file.moved, bytes |-> e.file.bytes] /\ ~e.file.moved /\ e.file.moved \in BOOLEAN
  <2>1. e.file.moved = FALSE /\ e.file.bytes = << >>
    BY <1>2 DEF InMemory
  <2>2. FALSE \in BOOLEAN
    OBVIOUS
  <2>3. e.file = [moved |-> e.file.moved, bytes |-> e.file.bytes]
    BY <1>2, <2>1 DEF InMemory
  <2>4. e.file.moved \in BOOLEAN
    BY <2>1, <2>2, Zenon
  <2>5. QED
    BY <2>1, <2>3, <2>4
<1>4. Formed(e)
  <2>1. e = [chunks |-> e.chunks, bytes |-> e.bytes, max |-> e.max, limit |-> e.limit, file |-> e.file,
             maxChunkSize |-> e.maxChunkSize, maxChunks |-> e.maxChunks]
    BY <1>1, <1>2
  <2>2. QED
    BY <1>2, <1>3, <2>1 DEF Formed
<1>5. << >> \in Seq(Bytes) /\ << >> \in Seq(ChunkSet) /\ Len(<< >>) = 0 /\ Datas(<< >>) = << >>
  BY DEF Datas
<1>6. Holds(e, << >>)
  BY <1>2, <1>3, <1>4, <1>5, FlatOfNone DEF Holds
<1>7. QED
  BY <1>6 DEF e

\* A truncation: right while the offsets hold.
LEMMA Truncates ==
    ASSUME NEW d, NEW s, Holds(d, s), NEW n \in Nat
    PROVE  LET r == truncate(d, n)
           IN /\ Formed(r.c)
              /\ d.file.moved \/ OffsetsHold(d) => Holds(r.c, IF n >= Len(s) THEN s ELSE Piece(s, 0, n))
<1> DEFINE r == truncate(d, n)
           t == Piece(s, 0, n)
<1>1. size(d) = Len(s) /\ Len(s) \in Nat /\ s \in Seq(Bytes) /\ Formed(d)
  BY SizeIs DEF Holds
<1>2. CASE n >= Len(s)
  <2>1. r.c = d
    BY <1>1, <1>2 DEF truncate, Changed
  <2>2. QED
    BY <1>1, <1>2, <2>1
<1>3. CASE ~(n >= Len(s))
  <2>1. r = truncate2(d, n)
    BY <1>1, <1>3 DEF truncate
  <2>2. n < Len(s)
    BY <1>1, <1>3
  <2>3. t \in Seq(Bytes) /\ Len(t) = n
    <3>1. 0 \in Nat
      OBVIOUS
    <3>2. IsPiece(Bytes, t, s, 0, n)
      BY <1>1, <3>1, PieceIs, Zenon
    <3>3. t \in Seq(Bytes) /\ Len(t) = Taken(0, n, Len(s))
      BY <3>2 DEF IsPiece
    <3>4. Taken(0, n, Len(s)) = n
      BY <1>1, <2>2 DEF Taken
    <3>5. QED
      BY <3>3, <3>4
  <2>4. CASE d.file.moved
    <3>1. r.c = Resized(d, t)
      BY <2>1, <2>4 DEF truncate2, Changed, Holds
    <3>2. d.chunks = << >>
      BY <2>4 DEF Holds
    <3>3. Holds(Resized(d, t), t) /\ Formed(Resized(d, t))
      BY <1>1, <2>3, <2>4, <3>2, HoldsInFile
    <3>4. QED
      BY <1>3, <3>1, <3>3
  <2>5. CASE ~d.file.moved
    <3> DEFINE q == d.chunks
               i == I_Chunk_GetPosForOffset(d, n)
               begins == q[i].offset = n
               a == SubSeq(q, 1, i - 1)
               b == [SubSeq(q, 1, i) EXCEPT ![i].data = Piece(@, 0, n - q[i].offset)]
               kept == IF begins THEN a ELSE b
    <3>1. q \in Seq(ChunkSet) /\ FlattenSeq(Datas(q)) = s /\ d.bytes = Len(s)
      BY <2>5 DEF Holds
    <3>2. r = IF i = 0 THEN Changed(FALSE, 0, d) ELSE Changed(TRUE, n, [d EXCEPT !.chunks = kept, !.bytes = n])
      BY <2>1, <2>5 DEF truncate2
    <3> HIDE DEF i, r
    <3>3. r.c = IF i = 0 THEN d ELSE WithChunks(d, kept, n)
      BY <3>2 DEF Changed, WithChunks
    <3>4. Formed(r.c)
      BY <1>1, <3>3, WithChunksIs
    <3>5. ASSUME OffsetsHold(d) PROVE Holds(r.c, t)
      <4>1. i \in 1..Len(q) /\ containsOffset(q[i], n)
        BY <2>2, <3>1, <3>5, ChunkFound DEF i
      <4> DEFINE x == Upto(q, i - 1)
                 y == q[i].data
                 o == q[i].offset
                 rest == FlattenSeq(Datas(From(q, i)))
                 k == n - o
      <4>2. o = Len(x)
        BY <3>1, <3>5, <4>1, BeginsWhere
      <4>3. i # 0 /\ i - 1 \in 0..Len(q) /\ i \in 0..Len(q) /\ i \in Nat
        BY <4>1
      <4>4. x \in Seq(Bytes) /\ Len(x) \in Nat /\ Upto(q, i) = x \o y
        BY <3>1, <4>1, <4>3, UptoFacts
      <4>5. y \in Seq(Bytes) /\ Len(y) \in Nat /\ o \in Nat /\ q[i] \in ChunkSet
        BY <3>1, <4>1, DatasFacts
      <4>6. rest \in Seq(Bytes) /\ s = (x \o y) \o rest
        BY <3>1, <4>3, <4>4, TextSplit
      <4>7. o <= n /\ n < o + Len(y)
        BY <4>1 DEF containsOffset, nextOffset
      <4> HIDE DEF x, y, o, rest
      <4>8. t = x \o Piece(y, 0, k)
        <5> DEFINE xy == x \o y
                   lxy == Len(xy)
        <5>1. xy \in Seq(Bytes) /\ lxy = Len(x) + Len(y)
          <6>1. IsJoined(Bytes, xy, x, y)
            BY <4>4, <4>5, JoinIs, Zenon
          <6>2. QED
            BY <6>1 DEF IsJoined
        <5> HIDE DEF xy
        <5>2. Piece(xy \o rest, 0, n) = Piece(xy, 0, n) \o Piece(rest, Skipped(0, Len(xy)), n - Taken(0, n, Len(xy)))
          BY <4>6, <5>1, PieceOfJoined
        <5>3. Skipped(0, lxy) = 0 /\ n - Taken(0, n, lxy) = 0
          <6> HIDE DEF lxy
          <6>1. QED
            BY <4>2, <4>4, <4>5, <4>7, <5>1 DEF Skipped, Taken
        <5>4. Piece(rest, 0, 0) = << >>
          BY <4>6, PieceOfNone
        <5>5. Piece(x \o y, 0, n) = Piece(x, 0, n) \o Piece(y, Skipped(0, Len(x)), n - Taken(0, n, Len(x)))
          BY <4>4, <4>5, PieceOfJoined
        <5>6. Skipped(0, Len(x)) = 0 /\ n - Taken(0, n, Len(x)) = k
          BY <4>2, <4>4, <4>7 DEF Skipped, Taken
        <5>7. Piece(x, 0, n) = x
          <6>1. n >= Len(x)
            BY <4>2, <4>4, <4>7
          <6>2. QED
            BY <4>4, <6>1, FrontIsPiece
        <5>8. Piece(xy, 0, n) = x \o Piece(y, 0, k)
          BY <5>5, <5>6, <5>7 DEF xy
        <5>9. Piece(xy, 0, n) \in Seq(Bytes)
          <6>1. IsPiece(Bytes, Piece(xy, 0, n), xy, 0, n)
            <7>1. 0 \in Nat
              OBVIOUS
            <7>2. QED
              BY <5>1, <7>1, PieceIs, Zenon
          <6>2. QED
            BY <6>1 DEF IsPiece
        <5>10. Piece(xy, 0, n) \o << >> = Piece(xy, 0, n)
          BY <5>9, ConcatEmptySeq
        <5>11. t = Piece(xy, 0, n) \o << >>
          BY <4>6, <5>2, <5>3, <5>4 DEF xy
        <5>12. QED
          BY <5>8, <5>10, <5>11
      <4>9. k \in Nat /\ k <= Len(y)
        BY <4>5, <4>7
      <4> HIDE DEF k
      <4>10. kept \in Seq(ChunkSet) /\ FlattenSeq(Datas(kept)) = t
        <5>1. CASE begins
          <6>1. a \in Seq(ChunkSet) /\ FlattenSeq(Datas(a)) = x
            <7>1. a \in Seq(ChunkSet)
              BY <3>1, <4>3, FrontFacts
            <7>2. QED
              BY <7>1 DEF Upto, x
          <6>2. k = 0
            BY <4>5, <5>1 DEF k, o
          <6>3. Piece(y, 0, 0) = << >>
            BY <4>5, PieceOfNone
          <6>4. x \o << >> = x
            BY <4>4, ConcatEmptySeq
          <6>5. QED
            BY <4>8, <5>1, <6>1, <6>2, <6>3, <6>4
        <5>2. CASE ~begins
          <6> DEFINE f == SubSeq(q, 1, i)
                     p == Piece(y, 0, k)
                     cut == [q[i] EXCEPT !.data = p]
          <6>1. f \in Seq(ChunkSet) /\ Len(f) = i /\ \A j \in 1..i : f[j] = q[j]
            BY <3>1, <4>3, FrontFacts
          <6>2. i \in 1..i /\ f[i] = q[i]
            BY <4>1, <6>1
          <6>3. p \in Seq(Bytes)
            <7>1. IsPiece(Bytes, p, y, 0, k)
              <8>1. 0 \in Nat
                OBVIOUS
              <8>2. QED
                BY <4>5, <4>9, <8>1, PieceIs, Zenon
            <7>2. QED
              BY <7>1 DEF IsPiece
          <6>4. b = [f EXCEPT ![i] = cut]
            BY <6>1, <6>2 DEF y, k, o
          <6> HIDE DEF f, p, b
          <6>5. cut \in ChunkSet /\ cut.data = p
            BY <4>5, <6>3 DEF ChunkSet
          <6> HIDE DEF cut
          <6>6. b \in Seq(ChunkSet) /\ Len(b) = i /\ b[i] = cut /\ \A j \in 1..(i - 1) : b[j] = q[j]
            <7>1. b \in Seq(ChunkSet) /\ Len(b) = i /\ b[i] = cut /\ \A j \in 1..i : j # i => b[j] = f[j]
              BY <6>1, <6>2, <6>4, <6>5
            <7>2. \A j \in 1..(i - 1) : j \in 1..i /\ j # i
              BY <4>3
            <7>3. QED
              BY <6>1, <7>1, <7>2
          <6>7. Upto(b, i) = Upto(b, i - 1) \o b[i].data /\ Upto(b, i) = FlattenSeq(Datas(b))
            <7>1. i \in 1..Len(b) /\ i = Len(b)
              BY <6>2, <6>6
            <7>2. QED
              BY <6>6, <7>1, UptoFacts
          <6>8. SubSeq(b, 1, i - 1) = a
            <7> DEFINE g == SubSeq(b, 1, i - 1)
            <7>1. i - 1 \in 0..Len(b)
              BY <4>3, <6>6
            <7>2. g \in Seq(ChunkSet) /\ Len(g) = i - 1 /\ \A j \in 1..(i - 1) : g[j] = b[j]
              BY <6>6, <7>1, FrontFacts
            <7>3. a \in Seq(ChunkSet) /\ Len(a) = i - 1 /\ \A j \in 1..(i - 1) : a[j] = q[j]
              BY <3>1, <4>3, FrontFacts
            <7> HIDE DEF g, a
            <7>4. \A j \in 1..(i - 1) : g[j] = a[j]
              BY <6>6, <7>2, <7>3
            <7>5. g = a
              BY <7>2, <7>3, <7>4, SeqEqual
            <7>6. QED
              BY <7>5 DEF g
          <6>9. Upto(b, i - 1) = x
            BY <6>8 DEF Upto, x
          <6>10. FlattenSeq(Datas(b)) = t
            BY <4>8, <6>5, <6>6, <6>7, <6>9 DEF p
          <6>11. QED
            BY <5>2, <6>6, <6>10 DEF b
        <5>3. QED
          BY <5>1, <5>2
      <4> HIDE DEF kept, t
      <4>11. Holds(WithChunks(d, kept, n), t)
        BY <1>1, <2>3, <2>5, <4>10, HoldsInChunks
      <4>12. QED
        BY <3>3, <4>3, <4>11
    <3>6. QED
      BY <1>3, <2>5, <3>4, <3>5 DEF r
  <2>6. QED
    BY <2>4, <2>5
<1>4. QED
  BY <1>2, <1>3
\* Writing pieces, one after another until one is refused: what is written
\* is a front of them joined.
WritesNext(w, x, opens) == IF w.ok THEN append(w.c, x, opens) ELSE w
PartWritten(pieces, i, w) ==
    /\ w.ok \in BOOLEAN
    /\ w.ok => Holds(w.c, FlattenSeq(SubSeq(pieces, 1, i)))
    /\ ~w.ok => \E p, q \in Seq(Bytes) : Holds(w.c, p) /\ FlattenSeq(pieces) = p \o q

LEMMA WritesOn ==
    ASSUME NEW pieces \in Seq(Seq(Bytes)), NEW i \in 1..Len(pieces), NEW w, PartWritten(pieces, i - 1, w),
           NEW opens \in BOOLEAN
    PROVE  PartWritten(pieces, i, WritesNext(w, pieces[i], opens))
<1> DEFINE x == pieces[i]
           s == FlattenSeq(SubSeq(pieces, 1, i - 1))
           rest == FlattenSeq(From(pieces, i))
           whole == FlattenSeq(pieces)
           r == WritesNext(w, x, opens)
<1>1. CASE ~w.ok
  <2>1. r = w
    BY <1>1 DEF WritesNext
  <2> HIDE DEF r
  <2>2. QED
    BY <1>1, <2>1 DEF PartWritten, r
<1>2. CASE w.ok
  <2>1. i \in 0..Len(pieces) /\ i - 1 \in 0..Len(pieces) /\ x \in Seq(Bytes)
    OBVIOUS
  <2>2. FlattenSeq(SubSeq(pieces, 1, i)) = s \o x
    BY FlatOfNext
  <2>3. whole = (s \o x) \o rest /\ rest \in Seq(Bytes)
    BY <2>1, <2>2, FlatSplit
  <2>4. s \in Seq(Bytes)
    BY <2>1, FlatSplit
  <2>5. Holds(w.c, s)
    BY <1>2 DEF PartWritten
  <2>6. r = append(w.c, x, opens)
    BY <1>2 DEF WritesNext
  <2> HIDE DEF r, x, s, rest, whole
  <2>7. Appended(s, x, r)
    BY <2>1, <2>5, <2>6, AddsBytes
  <2>8. r.ok \in BOOLEAN /\ r.n \in 0..Len(x) /\ (r.ok => r.n = Len(x)) /\ Holds(r.c, s \o SubSeq(x, 1, r.n))
    BY <2>7 DEF Appended
  <2>9. r.ok => Holds(r.c, s \o x)
    <3>1. SubSeq(x, 1, Len(x)) = x
      BY <2>1
    <3>2. QED
      BY <2>8, <3>1
  <2>10. ASSUME ~r.ok PROVE \E p, q \in Seq(Bytes) : Holds(r.c, p) /\ whole = p \o q
    <3> DEFINE a == SubSeq(x, 1, r.n)
               b == From(x, r.n)
               p == s \o a
               q == b \o rest
    <3>1. a \in Seq(Bytes)
      BY <2>1, <2>8, FrontFacts
    <3>2. b \in Seq(Bytes)
      BY <2>1, <2>8, FromFacts
    <3>3. a \o b = x
      BY <2>1, <2>8, FrontAndRest
    <3>4. Holds(r.c, p)
      BY <2>8
    <3> HIDE DEF a, b
    <3>a. Associates(Seq(Bytes))
      BY JoiningAssociates, Zenon
    <3>5. (s \o a) \o b = s \o (a \o b)
      BY <2>4, <3>a, <3>1, <3>2, Zenon DEF Associates
    <3>6. p \in Seq(Bytes) /\ q \in Seq(Bytes)
      BY <2>3, <2>4, <3>1, <3>2
    <3>7. (p \o b) \o rest = p \o (b \o rest)
      <4> HIDE DEF p
      <4>1. QED
        BY <2>3, <3>a, <3>2, <3>6, Zenon DEF Associates
    <3>8. whole = p \o q
      BY <2>3, <3>3, <3>5, <3>7
    <3> HIDE DEF p, q
    <3>9. QED
      BY <3>4, <3>6, <3>8
  <2>11. PartWritten(pieces, i, r)
    BY <2>2, <2>8, <2>9, <2>10 DEF PartWritten, whole
  <2>12. QED
    BY <2>11 DEF r, x
<1>3. w.ok \in BOOLEAN
  BY DEF PartWritten
<1>4. QED
  BY <1>1, <1>2, <1>3

\* The container after each piece.
Writes(to, pieces, opens, k, f) ==
    f[0] = Changed(TRUE, 0, to) /\ \A i \in 1..k : f[i] = WritesNext(f[i - 1], pieces[i], opens)

LEMMA WritesExist ==
    ASSUME NEW to, NEW pieces, NEW opens, NEW m \in Nat
    PROVE  \E f : f = [i \in 0..m |-> f[i]] /\ Writes(to, pieces, opens, m, f)
<1> DEFINE Reached(k) == \E f : f = [i \in 0..k |-> f[i]] /\ Writes(to, pieces, opens, k, f)
           S == {k \in Nat : Reached(k)}
<1>1. Reached(0)
  <2> DEFINE f == [i \in 0..0 |-> Changed(TRUE, 0, to)]
  <2>1. f[0] = Changed(TRUE, 0, to) /\ f = [i \in 0..0 |-> f[i]]
    OBVIOUS
  <2>2. \A i \in 1..0 : FALSE
    OBVIOUS
  <2> HIDE DEF f
  <2>3. Writes(to, pieces, opens, 0, f)
    BY <2>1, <2>2 DEF Writes
  <2>4. QED
    BY <2>1, <2>3
<1>2. ASSUME NEW k \in Nat, Reached(k) PROVE Reached(k + 1)
  <2>1. PICK f : f = [i \in 0..k |-> f[i]] /\ Writes(to, pieces, opens, k, f)
    BY <1>2
  <2> DEFINE n == k + 1
             next == WritesNext(f[k], pieces[n], opens)
             g == [i \in 0..n |-> IF i = n THEN next ELSE f[i]]
  <2>2. n \in Nat /\ n - 1 = k
    OBVIOUS
  <2> HIDE DEF next
  <2>3. g[n] = next /\ \A i \in 0..k : g[i] = f[i]
    OBVIOUS
  <2>4. g = [i \in 0..n |-> g[i]]
    OBVIOUS
  <2> HIDE DEF g
  <2>5. g[0] = Changed(TRUE, 0, to)
    <3>1. 0 \in 0..k
      OBVIOUS
    <3>2. f[0] = Changed(TRUE, 0, to)
      BY <2>1, Zenon DEF Writes
    <3>3. QED
      BY <2>3, <3>1, <3>2
  <2>6. ASSUME NEW i \in 1..n PROVE g[i] = WritesNext(g[i - 1], pieces[i], opens)
    <3>1. i = n \/ i \in 1..k
      OBVIOUS
    <3>2. CASE i = n
      <4>1. g[i - 1] = f[k]
        BY <2>2, <2>3, <3>2
      <4>2. g[n] = WritesNext(g[i - 1], pieces[n], opens)
        BY <2>3, <4>1 DEF next
      <4>3. QED
        BY <3>2, <4>2, Zenon
    <3>3. CASE i \in 1..k
      <4>1. i \in 0..k /\ i - 1 \in 0..k
        BY <3>3
      <4>2. g[i] = f[i] /\ g[i - 1] = f[i - 1]
        BY <2>3, <4>1
      <4>3. f[i] = WritesNext(f[i - 1], pieces[i], opens)
        BY <2>1, <3>3 DEF Writes
      <4>4. QED
        BY <4>2, <4>3
    <3>4. QED
      BY <3>1, <3>2, <3>3
  <2>7. Writes(to, pieces, opens, n, g)
    BY <2>5, <2>6 DEF Writes
  <2>8. QED
    BY <2>4, <2>7
<1> HIDE DEF Reached
<1>3. 0 \in S
  BY <1>1
<1>4. \A k \in Nat : k \in S => k + 1 \in S
  BY <1>2
<1>5. m \in S
  <2> HIDE DEF S
  <2>1. QED
    BY <1>3, <1>4, SetInduction
<1>6. QED
  BY <1>5 DEF Reached

LEMMA WriteAllIs ==
    ASSUME NEW to, Holds(to, << >>), NEW pieces \in Seq(Seq(Bytes)), NEW opens \in BOOLEAN
    PROVE  PartWritten(pieces, Len(pieces), WriteAll(to, pieces, opens))
<1> DEFINE m == Len(pieces)
           first == Changed(TRUE, 0, to)
           wrote == CHOOSE wrote : wrote = [i \in 0..m |-> IF i = 0 THEN first ELSE WritesNext(wrote[i - 1], pieces[i], opens)]
           S == {i \in Nat : i <= m => PartWritten(pieces, i, wrote[i])}
<1>1. m \in Nat
  OBVIOUS
<1>2. PICK f : f = [i \in 0..m |-> f[i]] /\ Writes(to, pieces, opens, m, f)
  BY <1>1, WritesExist
<1>3. WriteAll(to, pieces, opens) = wrote[m]
  BY Zenon DEF WriteAll, WritesNext
<1> HIDE DEF first, m
<1>4. f = [i \in 0..m |-> IF i = 0 THEN first ELSE WritesNext(f[i - 1], pieces[i], opens)]
  <2>1. f[0] = first /\ \A i \in 1..m : f[i] = WritesNext(f[i - 1], pieces[i], opens)
    BY <1>2 DEF Writes, first
  <2>2. \A i \in 0..m : i = 0 \/ i \in 1..m
    BY <1>1
  <2>3. QED
    BY <1>2, <2>1, <2>2, Zenon
<1>5. wrote = [i \in 0..m |-> IF i = 0 THEN first ELSE WritesNext(wrote[i - 1], pieces[i], opens)]
  BY <1>4, Zenon
<1> HIDE DEF wrote
<1>6. wrote[0] = first /\ \A i \in 1..m : wrote[i] = WritesNext(wrote[i - 1], pieces[i], opens)
  <2>1. \A i \in 1..m : i \in 0..m /\ i # 0
    BY <1>1
  <2>2. 0 \in 0..m
    BY <1>1
  <2>3. QED
    BY <1>5, <2>1, <2>2, Zenon
<1>7. 0 \in S
  <2> DEFINE none == SubSeq(pieces, 1, 0)
  <2>1. first.ok /\ first.c = to /\ first.ok \in BOOLEAN
    <3>1. first.ok = TRUE /\ first.c = to /\ TRUE \in BOOLEAN
      BY DEF first, Changed
    <3>2. QED
      BY <3>1, Zenon
  <2>2. none = << >>
    <3>1. 0 \in 0..Len(pieces)
      OBVIOUS
    <3>2. none \in Seq(Seq(Bytes)) /\ Len(none) = 0
      BY <3>1, FrontFacts
    <3>3. QED
      BY <3>2, EmptySeq
  <2>3. FlattenSeq(none) = << >>
    BY <2>2, FlatOfNone
  <2>4. PartWritten(pieces, 0, first)
    BY <2>1, <2>3 DEF PartWritten
  <2>5. QED
    BY <1>6, <2>4
<1>8. ASSUME NEW i \in Nat, i \in S PROVE i + 1 \in S
  <2> SUFFICES ASSUME i + 1 <= m PROVE PartWritten(pieces, i + 1, wrote[i + 1])
    OBVIOUS
  <2> DEFINE j == i + 1
             w == wrote[i]
  <2>1. j \in 1..m /\ j - 1 = i /\ i <= m
    BY <1>1
  <2>2. PartWritten(pieces, j - 1, w)
    BY <1>8, <2>1
  <2> HIDE DEF j, w
  <2>3. PartWritten(pieces, j, WritesNext(w, pieces[j], opens))
    BY <2>1, <2>2, WritesOn DEF m
  <2>4. wrote[j] = WritesNext(w, pieces[j], opens)
    BY <1>6, <2>1 DEF w
  <2>5. QED
    BY <2>3, <2>4 DEF j
<1>9. m \in S
  <2> HIDE DEF S
  <2>1. QED
    BY <1>1, <1>7, <1>8, SetInduction
<1>10. PartWritten(pieces, m, wrote[m])
  BY <1>1, <1>9
<1>11. QED
  BY <1>3, <1>10 DEF m

\* A new container is empty.
LEMMA NewHoldsNothing == ASSUME NEW max \in Nat, NEW limit \in Nat PROVE Holds(Container(max, limit), << >>)
<1> DEFINE e == Container(max, limit)
<1>1. e = [chunks |-> << >>, bytes |-> 0, max |-> max, limit |-> limit, file |-> InMemory,
           maxChunkSize |-> MaxChunkSize, maxChunks |-> MaxChunks]
  BY DEF Container
<1> HIDE DEF e
<1>2. Formed(e)
  <2>1. /\ e.chunks = << >> /\ e.bytes = 0 /\ e.max = max /\ e.limit = limit /\ e.file = InMemory
        /\ e.maxChunkSize = MaxChunkSize /\ e.maxChunks = MaxChunks
    BY <1>1
  <2>2. e = [chunks |-> e.chunks, bytes |-> e.bytes, max |-> e.max, limit |-> e.limit, file |-> e.file,
             maxChunkSize |-> e.maxChunkSize, maxChunks |-> e.maxChunks]
    BY <1>1, <2>1
  <2>3. e.file.moved = FALSE /\ e.file.bytes = << >> /\ FALSE \in BOOLEAN
    BY <2>1 DEF InMemory
  <2>4. e.file = [moved |-> e.file.moved, bytes |-> e.file.bytes]
    BY <2>1, <2>3 DEF InMemory
  <2>5. e.file.moved \in BOOLEAN
    BY <2>3, Zenon
  <2>6. e.maxChunkSize \in Nat \ {0} /\ e.maxChunks \in Nat \ {0}
    BY <2>1, ChunksAssumption
  <2>7. QED
    BY <2>1, <2>2, <2>4, <2>5, <2>6 DEF Formed
<1>3. ~e.file.moved /\ e.chunks = << >> /\ e.bytes = 0
  BY <1>1 DEF InMemory
<1>4. << >> \in Seq(Bytes) /\ << >> \in Seq(ChunkSet) /\ Len(<< >>) = 0 /\ Datas(<< >>) = << >>
  BY DEF Datas
<1>5. Holds(e, << >>)
  BY <1>2, <1>3, <1>4, FlatOfNone DEF Holds
<1>6. QED
  BY <1>5 DEF e

LEMMA PiecesAreTexts ==
    ASSUME NEW d, NEW s, Holds(d, s), NEW o \in Nat, NEW n \in Nat
    PROVE  PiecesTo(d, o, n) \in Seq(Seq(Bytes))
<1>1. s \in Seq(Bytes)
  BY DEF Holds
<1>2. CASE d.file.moved
  <2>1. PiecesTo(d, o, n) = <<Piece(s, o, n)>>
    BY <1>2 DEF PiecesTo, MemPieces, Holds
  <2>2. IsPiece(Bytes, Piece(s, o, n), s, o, n)
    BY <1>1, PieceIs, Zenon
  <2>3. Piece(s, o, n) \in Seq(Bytes)
    BY <2>2 DEF IsPiece
  <2>4. QED
    BY <2>1, <2>3
<1>3. CASE ~d.file.moved
  <2>1. PiecesTo(d, o, n) = Visited(d.chunks, o, n) /\ d.chunks \in Seq(ChunkSet)
    BY <1>3 DEF PiecesTo, Holds
  <2>2. QED
    BY <2>1, VisitedIs
<1>4. QED
  BY <1>2, <1>3

\* The copy of a container: all of its text, or the front of it that fitted.
LEMMA Copies ==
    ASSUME NEW d, NEW s, Holds(d, s), NEW max \in Nat, NEW opens \in BOOLEAN
    PROVE  LET r == streamTo(d, Container(max, 0), opens)
           IN Holds(r.c, IF r.ok THEN s ELSE Piece(s, 0, size(r.c)))
<1> DEFINE to == Container(max, 0)
           pieces == IF size(d) = 0 THEN << >> ELSE PiecesTo(d, 0, size(d))
           m == Len(pieces)
           r == streamTo(d, to, opens)
<1>1. size(d) = Len(s) /\ Len(s) \in Nat /\ s \in Seq(Bytes)
  BY SizeIs
<1>2. pieces \in Seq(Seq(Bytes)) /\ FlattenSeq(pieces) = s
  <2>1. CASE size(d) = 0
    <3>1. pieces = << >>
      BY <2>1
    <3>2. s = << >>
      BY <1>1, <2>1, EmptySeq
    <3>3. << >> \in Seq(Seq(Bytes))
      OBVIOUS
    <3>4. QED
      BY <3>1, <3>2, <3>3, FlatOfNone
  <2>2. CASE size(d) # 0
    <3>1. pieces = PiecesTo(d, 0, size(d)) /\ 0 \in Nat /\ size(d) \in Nat
      BY <1>1, <2>2
    <3>2. pieces \in Seq(Seq(Bytes))
      BY <3>1, PiecesAreTexts
    <3>3. FlattenSeq(pieces) = Piece(s, 0, Len(s))
      BY <1>1, <3>1, SeenIs
    <3>4. Len(s) >= Len(s)
      BY <1>1
    <3>5. Piece(s, 0, Len(s)) = s
      BY <1>1, <3>4, FrontIsPiece
    <3>6. QED
      BY <3>2, <3>3, <3>5
  <2>3. QED
    BY <2>1, <2>2
<1>3. r = WriteAll(to, pieces, opens)
  BY DEF streamTo
<1>4. Holds(to, << >>)
  BY NewHoldsNothing
<1> HIDE DEF to, pieces, r
<1>5. PartWritten(pieces, m, r)
  BY <1>2, <1>3, <1>4, WriteAllIs
<1>6. CASE r.ok
  <2>1. SubSeq(pieces, 1, m) = pieces
    BY <1>2
  <2>2. Holds(r.c, s)
    BY <1>2, <1>5, <1>6, <2>1 DEF PartWritten
  <2>3. QED
    BY <1>6, <2>2 DEF r, to
<1>7. CASE ~r.ok
  <2>1. PICK p \in Seq(Bytes), q \in Seq(Bytes) : Holds(r.c, p) /\ s = p \o q
    BY <1>2, <1>5, <1>7 DEF PartWritten
  <2>2. size(r.c) = Len(p)
    BY <2>1, SizeIs
  <2>3. Piece(s, 0, Len(p)) = p
    BY <2>1, JoinedFront
  <2>4. QED
    BY <1>7, <2>1, <2>2, <2>3 DEF r, to
<1>8. QED
  BY <1>6, <1>7

\* What is taken up to a needle is displaced; what is left is the end of the text.
LEMMA FoundInPlace ==
    ASSUME NEW d, NEW s, Holds(d, s), NEW needle, NEW cs, NEW most \in Nat
    PROVE  LET f == find(d, needle, cs, 0, most) IN f.ok => f.at \in Nat
<1> DEFINE space == IF most = 0 THEN size(d) - 0 ELSE most
           f == find(d, needle, cs, 0, most)
           found == SearchFrom(d, needle, cs, 0, space)
<1>1. size(d) \in Nat /\ 0 \in Nat
  BY SizeIs
<1>2. space \in Nat
  BY <1>1
<1>3. f = NotFound \/ f = At(0) \/ f = found
  BY DEF find
<1> HIDE DEF space
<1>4. PICK tried : Searched(d, needle, cs, 0, space, tried)
  BY <1>1, <1>2, SearchFacts
<1> DEFINE last == tried[size(d)]
<1>5. last \in Places(d, 0, space) /\ (found = last \/ found = NotFound)
  <2>1. size(d) \in 0..size(d)
    BY <1>1
  <2>2. QED
    BY <1>4, <2>1 DEF Searched
<1> HIDE DEF last, f, found
<1>6. last.ok => last.at \in Nat
  BY <1>1, <1>2, <1>5, PlacesFacts
<1>7. NotFound.ok = FALSE /\ At(0).at = 0
  BY DEF NotFound, At
<1>8. f.ok => f.at \in Nat
  BY <1>1, <1>3, <1>5, <1>6, <1>7
<1>9. QED
  BY <1>8 DEF f

LEMMA DisplacesUntil ==
    ASSUME NEW d, NEW s, Holds(d, s), NEW needle \in Seq(Bytes), NEW most \in Nat, NEW remove \in BOOLEAN
    PROVE  LET r == displaceUntil(d, needle, most, remove)
           IN r.got.ok => Holds(r.c, From(s, Len(s) - size(r.c)))
<1> DEFINE f == find(d, needle, FALSE, 0, most)
           end == f.at + (IF remove THEN 0 ELSE Len(needle))
           taken == copyUntil(d, needle, most, remove)
           n == Len(taken.data) + (IF remove THEN Len(needle) ELSE 0)
           e == displace(d, n)
           r == displaceUntil(d, needle, most, remove)
<1>1. r.got = taken /\ (taken.ok => r.c = e.c)
  BY DEF displaceUntil, DisplaceCopied
<1>2. size(d) = Len(s) /\ Len(s) \in Nat /\ s \in Seq(Bytes) /\ Len(needle) \in Nat
  BY SizeIs
<1>3. ASSUME taken.ok PROVE Holds(e.c, From(s, Len(s) - size(e.c)))
  <2>1. f.ok /\ taken = appendTo(d, end, 0)
    BY <1>3 DEF copyUntil, CopyFound, NotCopied
  <2>2. f.at \in Nat
    BY <2>1, FoundInPlace
  <2> HIDE DEF f
  <2>3. end \in Nat
    BY <1>2, <2>2
  <2> HIDE DEF taken, end
  <2>4. taken.data \in Seq(Bytes)
    <3> DEFINE m == Lesser(end, Len(s) - 0)
               t == Piece(s, 0, m)
    <3>1. m \in Nat /\ 0 \in Nat
      BY <1>2, <2>3 DEF Lesser
    <3>2. ~(0 > Len(s))
      BY <1>2
    <3>3. appendTo(d, end, 0) = Copied(t)
      BY <2>3, <3>1, <3>2, AppendToIs
    <3> HIDE DEF m
    <3>4. IsPiece(Bytes, t, s, 0, m)
      BY <1>2, <3>1, PieceIs, Zenon
    <3>5. t \in Seq(Bytes)
      BY <3>4 DEF IsPiece
    <3> HIDE DEF t
    <3>6. QED
      BY <2>1, <3>3, <3>5 DEF Copied
  <2>5. n \in Nat
    <3>1. Len(taken.data) \in Nat
      BY <2>4
    <3>2. Len(taken.data) + Len(needle) \in Nat /\ Len(taken.data) + 0 \in Nat
      BY <1>2, <3>1
    <3>3. QED
      BY <3>2, Zenon
  <2> HIDE DEF n
  <2>6. e.n \in 0..Len(s) /\ Holds(e.c, From(s, e.n))
    BY <2>5, Displaces
  <2> HIDE DEF e
  <2>7. size(e.c) = Len(From(s, e.n))
    BY <2>6, SizeIs
  <2>8. Len(From(s, e.n)) = Len(s) - e.n
    BY <1>2, <2>6, FromFacts
  <2>9. Len(s) - size(e.c) = e.n
    BY <1>2, <2>6, <2>7, <2>8
  <2>10. QED
    BY <2>6, <2>9
<1> HIDE DEF r, taken, e
<1>4. r.got.ok => Holds(r.c, From(s, Len(s) - size(r.c)))
  BY <1>1, <1>3
<1>5. QED
  BY <1>4 DEF r

-----------------------------------------------------------------------------
(***************************************************************************)
(* Every change keeps the invariant, and with it the container's promise.  *)
(***************************************************************************)
LEMMA TextsAreOfBytes == ASSUME NEW n, NEW s \in Texts(n) PROVE s \in Seq(Bytes)
<1>1. PICK k \in 0..n : s \in [1..k -> Bytes]
  BY DEF Texts
<1>2. QED
  BY <1>1

LEMMA ContainersIInvInit == CInit => ContainersIInv
<1> SUFFICES ASSUME CInit PROVE ContainersIInv
  OBVIOUS
<1>1. PICK max \in MaxSizes, limit \in FileLimits :
        c = [Container(max, limit) EXCEPT !.maxChunkSize = SetChunkSize, !.maxChunks = SetMaxChunks]
  BY DEF CInit
<1>2. max \in Nat /\ limit \in Nat /\ SetChunkSize \in Nat \ {0} /\ SetMaxChunks \in Nat \ {0}
  BY ContainersAssumption
<1>3. c = [chunks |-> << >>, bytes |-> 0, max |-> max, limit |-> limit, file |-> InMemory,
           maxChunkSize |-> SetChunkSize, maxChunks |-> SetMaxChunks]
  BY <1>1 DEF Container
<1>4. /\ c.chunks = << >> /\ c.bytes = 0 /\ c.max = max /\ c.limit = limit /\ c.file = InMemory
      /\ c.maxChunkSize = SetChunkSize /\ c.maxChunks = SetMaxChunks
  BY <1>3
<1>5. Formed(c)
  <2>1. c = [chunks |-> c.chunks, bytes |-> c.bytes, max |-> c.max, limit |-> c.limit, file |-> c.file,
             maxChunkSize |-> c.maxChunkSize, maxChunks |-> c.maxChunks]
    BY <1>3, <1>4
  <2>2. c.file.moved = FALSE /\ c.file.bytes = << >> /\ FALSE \in BOOLEAN
    BY <1>4 DEF InMemory
  <2>3. c.file = [moved |-> c.file.moved, bytes |-> c.file.bytes]
    BY <1>4, <2>2 DEF InMemory
  <2>4. c.file.moved \in BOOLEAN
    BY <2>2, Zenon
  <2>5. QED
    BY <1>2, <1>4, <2>1, <2>3, <2>4 DEF Formed
<1>6. ~c.file.moved
  BY <1>4 DEF InMemory
<1>7. << >> \in Seq(Bytes) /\ << >> \in Seq(ChunkSet) /\ Len(<< >>) = 0 /\ Datas(<< >>) = << >>
  BY DEF Datas
<1>8. Holds(c, << >>)
  BY <1>4, <1>5, <1>6, <1>7, FlatOfNone DEF Holds
<1>9. text = << >> /\ odd \in BOOLEAN
  <2>1. text = << >> /\ odd = FALSE /\ FALSE \in BOOLEAN
    BY DEF CInit
  <2>2. QED
    BY <2>1, Zenon
<1>10. QED
  BY <1>5, <1>8, <1>9 DEF ContainersIInv

\* A change after which the container holds its text, or is odd.
LEMMA StillHolds ==
    ASSUME Formed(c'), odd' \in BOOLEAN, odd' \/ Holds(c', text')
    PROVE  ContainersIInv'
BY DEF ContainersIInv, Formed, Holds, ChunkSet, Datas

LEMMA ContainersIInvStep == ContainersIInv /\ [CNext]_cvars => ContainersIInv'
<1> SUFFICES ASSUME ContainersIInv, [CNext]_cvars PROVE ContainersIInv'
  OBVIOUS
<1>1. Formed(c) /\ odd \in BOOLEAN /\ (odd \/ Holds(c, text)) /\ MaxText \in Nat
  BY ContainersAssumption DEF ContainersIInv
<1>2. CASE UNCHANGED cvars
  <2>1. c' = c /\ text' = text /\ odd' = odd
    BY <1>2 DEF cvars
  <2>2. QED
    BY <1>1, <2>1, StillHolds
<1>3. CASE ClearBytes
  <2>1. c' = clear(c) /\ text' = << >> /\ odd' = FALSE
    BY <1>3 DEF ClearBytes, Becomes, Changed
  <2>2. Holds(clear(c), << >>)
    BY <1>1, Clears
  <2>3. Formed(c') /\ Holds(c', text')
    BY <2>1, <2>2 DEF Holds
  <2>4. odd' \in BOOLEAN
    BY <2>1, Zenon
  <2>5. QED
    BY <2>3, <2>4, StillHolds
<1>4. CASE ~odd /\ AppendBytes
  <2>1. PICK s \in Texts(MaxText), opens \in BOOLEAN :
          LET r == append(c, s, opens) IN Becomes(r, text \o SubSeq(s, 1, r.n)) /\ odd' = odd
    BY <1>4 DEF AppendBytes
  <2> DEFINE r == append(c, s, opens)
  <2>2. c' = r.c /\ text' = text \o SubSeq(s, 1, r.n) /\ odd' = odd
    BY <2>1 DEF Becomes
  <2>3. Holds(c, text) /\ s \in Seq(Bytes)
    BY <1>1, <1>4, TextsAreOfBytes
  <2>4. Appended(text, s, r)
    BY <2>3, AddsBytes
  <2> HIDE DEF r
  <2>5. Holds(c', text')
    BY <2>2, <2>4 DEF Appended
  <2>6. Formed(c') /\ odd' \in BOOLEAN
    BY <1>1, <2>2, <2>5 DEF Holds
  <2>7. QED
    BY <2>5, <2>6, StillHolds
<1>5. CASE ~odd /\ PrependBytes
  <2>1. PICK s \in Texts(MaxText), opens \in BOOLEAN :
          LET r == prepend(c, s, opens) IN
          /\ Becomes(r, SubSeq(s, 1, r.n) \o text)
          /\ odd' = (odd \/ (r.n > 0 /\ (r.c.file.moved \/ r.n > c.maxChunkSize)))
    BY <1>5 DEF PrependBytes
  <2> DEFINE r == prepend(c, s, opens)
             differs == r.n > 0 /\ (r.c.file.moved \/ r.n > c.maxChunkSize)
  <2>2. c' = r.c /\ text' = SubSeq(s, 1, r.n) \o text /\ odd' = (odd \/ differs)
    BY <2>1 DEF Becomes
  <2>3. Holds(c, text) /\ s \in Seq(Bytes)
    BY <1>1, <1>5, TextsAreOfBytes
  <2>4. Prepended(text, s, r, c.maxChunkSize)
    BY <2>3, AddsBytes
  <2> HIDE DEF r
  <2>5. Formed(c') /\ (differs \/ Holds(c', text'))
    BY <2>2, <2>4 DEF Prepended
  <2> HIDE DEF differs
  <2>6. odd' \in BOOLEAN
    BY <2>2, Zenon
  <2>7. odd' \/ Holds(c', text')
    BY <2>2, <2>5, Zenon
  <2>8. QED
    BY <2>5, <2>6, <2>7, StillHolds
<1>6. CASE ~odd /\ DisplaceBytes
  <2>1. PICK n \in 0..MaxText : LET r == displace(c, n) IN Becomes(r, From(text, r.n)) /\ odd' = odd
    BY <1>6 DEF DisplaceBytes
  <2> DEFINE r == displace(c, n)
  <2>2. c' = r.c /\ text' = From(text, r.n) /\ odd' = odd
    BY <2>1 DEF Becomes
  <2>3. Holds(c, text) /\ n \in Nat
    BY <1>1, <1>6
  <2>4. Holds(r.c, From(text, r.n))
    BY <2>3, Displaces
  <2> HIDE DEF r
  <2>5. Holds(c', text')
    BY <2>2, <2>4
  <2>6. Formed(c') /\ odd' \in BOOLEAN
    BY <1>1, <2>2, <2>5 DEF Holds
  <2>7. QED
    BY <2>5, <2>6, StillHolds
<1>7. CASE ~odd /\ TruncateBytes
  <2>1. PICK n \in 0..MaxText :
          LET r == truncate(c, n) IN
          /\ Becomes(r, IF n >= Len(text) THEN text ELSE Piece(text, 0, n))
          /\ odd' = (odd \/ ~(c.file.moved \/ OffsetsHold(c)))
    BY <1>7 DEF TruncateBytes
  <2> DEFINE r == truncate(c, n)
             t == IF n >= Len(text) THEN text ELSE Piece(text, 0, n)
             right == c.file.moved \/ OffsetsHold(c)
  <2>2. c' = r.c /\ text' = t /\ odd' = (odd \/ ~right)
    BY <2>1 DEF Becomes
  <2>3. Holds(c, text) /\ n \in Nat
    BY <1>1, <1>7
  <2>4. Formed(r.c) /\ (right => Holds(r.c, t))
    BY <2>3, Truncates
  <2> HIDE DEF r, t, right
  <2>5. Formed(c')
    BY <2>2, <2>4
  <2>6. odd' \in BOOLEAN
    BY <2>2, Zenon
  <2>7. odd' \/ Holds(c', text')
    BY <2>2, <2>4, Zenon
  <2>8. QED
    BY <2>5, <2>6, <2>7, StillHolds
<1>8. CASE ~odd /\ Assign
  <2>1. PICK max \in MaxSizes, opens \in BOOLEAN :
          LET r == streamTo(c, Container(max, 0), opens) IN
          Becomes(r, IF r.ok THEN text ELSE Piece(text, 0, size(r.c))) /\ odd' = odd
    BY <1>8 DEF Assign
  <2> DEFINE r == streamTo(c, Container(max, 0), opens)
  <2>2. c' = r.c /\ text' = (IF r.ok THEN text ELSE Piece(text, 0, size(r.c))) /\ odd' = odd
    BY <2>1 DEF Becomes
  <2>3. Holds(c, text) /\ max \in Nat
    BY <1>1, <1>8, ContainersAssumption
  <2>4. Holds(r.c, IF r.ok THEN text ELSE Piece(text, 0, size(r.c)))
    BY <2>3, Copies
  <2> HIDE DEF r
  <2>5. Holds(c', text')
    BY <2>2, <2>4
  <2>6. Formed(c') /\ odd' \in BOOLEAN
    BY <1>1, <2>2, <2>5 DEF Holds
  <2>7. QED
    BY <2>5, <2>6, StillHolds
<1>9. CASE ~odd /\ DisplaceUntilNeedle
  <2>1. PICK needle \in Texts(2) \ {<< >>}, most \in {2, MaxText}, remove \in BOOLEAN :
          LET r == displaceUntil(c, needle, most, remove) IN
          /\ r.got.ok
          /\ Becomes(r, From(text, Len(text) - size(r.c)))
          /\ odd' = odd
    BY <1>9 DEF DisplaceUntilNeedle
  <2> DEFINE r == displaceUntil(c, needle, most, remove)
  <2>2. r.got.ok /\ c' = r.c /\ text' = From(text, Len(text) - size(r.c)) /\ odd' = odd
    BY <2>1 DEF Becomes
  <2>3. Holds(c, text) /\ needle \in Seq(Bytes) /\ most \in Nat
    BY <1>1, <1>9, TextsAreOfBytes
  <2>4. Holds(r.c, From(text, Len(text) - size(r.c)))
    BY <2>2, <2>3, DisplacesUntil
  <2> HIDE DEF r
  <2>5. Holds(c', text')
    BY <2>2, <2>4
  <2>6. Formed(c')
    BY <2>5 DEF Holds
  <2>7. odd' \in BOOLEAN
    BY <1>1, <1>9, <2>2
  <2>8. QED
    BY <2>5, <2>6, <2>7, StillHolds
<1>10. QED
  BY <1>2, <1>3, <1>4, <1>5, <1>6, <1>7, <1>8, <1>9 DEF CNext

\* A container of chunks (b_chunks.cpp) that is appended to, displaced, truncated,
\* cleared, assigned or taken out up to a needle, in memory or moved to a file,
\* holds the bytes it was given, and what walks over its chunks (copies to a
\* stream, references, comparisons and searches) answers for them
\* (ContainersAgree).  Two things are excepted, as the code has them wrong: a read
\* by offset (copyOut) while the offsets of the chunks are stale, which a
\* displacement or a prepend of several chunks leaves them (recalcChunkOffsets);
\* and everything after a prepend of several blocks, which reverses them, a
\* prepend to a file, which moves the wrong way, or a truncation by stale offsets,
\* until the container is cleared (odd).
THEOREM ContainersHoldTheirText == CInit /\ [][CNext]_cvars => []ContainersAgree
<1>1. CInit => ContainersIInv
  BY ContainersIInvInit
<1>2. ContainersIInv /\ [CNext]_cvars => ContainersIInv'
  BY ContainersIInvStep
<1>3. ContainersIInv => ContainersAgree
  BY HoldsIsRight, ContainersAssumption
<1>4. QED
  BY <1>1, <1>2, <1>3, PTL
===============================================================================
