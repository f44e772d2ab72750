---------------------------- MODULE SafeMapProofs ----------------------------
(***************************************************************************)
(* Proofs about SafeMap, for any number of threads, keys and items.        *)
(*                                                                         *)
(* NoDanglingItem is not inductive.  What keeps an item in memory is that  *)
(* the counter of its key equals the number of its readers (Counted), and  *)
(* that a pointer held under one key is never the item of another key      *)
(* (Separate), so that deleting a key's item cannot touch the readers of   *)
(* the others.                                                             *)
(***************************************************************************)
EXTENDS SafeMap, FiniteSetTheorems, TLAPS

Busy(t) == pc[t] = "reading" \/ Destroying(t)

\* The counter of a key is the number of threads that are reading it.
Counted == \A k \in Keys :
  IF k \in present THEN readers[k] = Cardinality(Reading(k)) ELSE Reading(k) = {}

\* A thread with a pointer has it under a key of the map, to a live item.
Anchored == \A t \in Threads :
  Busy(t) => key[t] \in present /\ ref[t] \in allocated

Stored == \A k \in Keys :
  rdElement[k] # NoItem => k \in present /\ rdElement[k] \in allocated

\* Different keys, different items, whether in the map or in a thread's hand.
Separate ==
  /\ \A k1, k2 \in Keys : rdElement[k1] # NoItem /\ rdElement[k1] = rdElement[k2] => k1 = k2
  /\ \A t \in Threads, k \in Keys : Busy(t) /\ rdElement[k] = ref[t] => key[t] = k
  /\ \A t1, t2 \in Threads : Busy(t1) /\ Busy(t2) /\ ref[t1] = ref[t2] => key[t1] = key[t2]

\* A destroyer is alone on its key, and has taken the element out of reach.
Exclusive ==
  /\ \A t \in Threads : Destroying(t) => rdElement[key[t]] = NoItem
  /\ \A t1, t2 \in Threads : Destroying(t1) /\ Destroying(t2) /\ key[t1] = key[t2] => t1 = t2

IInv == MapTypeOK /\ Counted /\ Anchored /\ Stored /\ Separate /\ Exclusive /\ NoLostZeroReaders

-----------------------------------------------------------------------------
\* The threads reading a key can be counted.
LEMMA ReadingIsFinite ==
  ASSUME NEW k
  PROVE  IsFiniteSet(Reading(k)) /\ Cardinality(Reading(k)) \in Nat
<1>1. Reading(k) \subseteq Threads
  BY DEF Reading
<1>2. QED
  BY <1>1, SafeMapAssumption, FS_Subset, FS_CardinalityType

\* A thread that is reading a key shows in the count.
LEMMA ReaderIsCounted ==
  ASSUME NEW t \in Threads, pc[t] = "reading"
  PROVE  Cardinality(Reading(key[t])) # 0
<1>1. t \in Reading(key[t])
  BY DEF Reading
<1>2. QED
  BY <1>1, ReadingIsFinite, FS_EmptySet

-----------------------------------------------------------------------------
LEMMA InitIInv == MapInit => IInv
<1> SUFFICES ASSUME MapInit PROVE IInv
  OBVIOUS
<1>1. MapTypeOK
  BY DEF MapInit, MapTypeOK, PC
<1>2. Counted
  BY DEF MapInit, Counted, Reading
<1>3. Anchored /\ Stored /\ Separate /\ Exclusive /\ NoLostZeroReaders
  BY DEF MapInit, Anchored, Stored, Separate, Exclusive, NoLostZeroReaders, Busy, Destroying
<1>4. QED
  BY <1>1, <1>2, <1>3 DEF IInv

LEMMA AddElementStep ==
  ASSUME IInv, NEW t \in Threads, NEW k \in Keys, NEW i \in Items, AddElement(t, k, i)
  PROVE  IInv'
<1> USE DEF AddElement
<1>1. MapTypeOK'
  BY DEF IInv, MapTypeOK
<1>2. Counted'
  <2> SUFFICES ASSUME NEW j \in Keys
               PROVE  IF j \in present' THEN readers'[j] = Cardinality(Reading(j)')
                                        ELSE Reading(j)' = {}
    BY DEF Counted
  <2>1. Reading(j)' = Reading(j)
    BY DEF Reading
  <2>2. CASE j = k
    BY <2>1, <2>2, FS_EmptySet DEF IInv, MapTypeOK, Counted
  <2>3. CASE j # k
    BY <2>1, <2>3 DEF IInv, MapTypeOK, Counted
  <2>4. QED
    BY <2>2, <2>3
<1>3. Anchored' /\ Stored'
  BY DEF IInv, MapTypeOK, Anchored, Stored, Busy, Destroying
<1>4. Separate'
  BY SafeMapAssumption DEF IInv, MapTypeOK, Separate, Anchored, Stored, Busy, Destroying
<1>5. Exclusive' /\ NoLostZeroReaders'
  BY DEF IInv, MapTypeOK, Exclusive, NoLostZeroReaders, Anchored, Busy, Destroying
<1>6. QED
  BY <1>1, <1>2, <1>3, <1>4, <1>5 DEF IInv

LEMMA OpenElementStep ==
  ASSUME IInv, NEW t \in Threads, NEW k \in Keys, OpenElement(t, k)
  PROVE  IInv'
<1> USE DEF OpenElement
<1>1. MapTypeOK'
  BY DEF IInv, MapTypeOK, PC
<1>2. Counted'
  <2> SUFFICES ASSUME NEW j \in Keys
               PROVE  IF j \in present' THEN readers'[j] = Cardinality(Reading(j)')
                                        ELSE Reading(j)' = {}
    BY DEF Counted
  <2>1. CASE j = k
    <3>1. Reading(j)' = Reading(j) \cup {t} /\ t \notin Reading(j)
      BY <2>1 DEF Reading, IInv, MapTypeOK
    <3>2. Cardinality(Reading(j)') = Cardinality(Reading(j)) + 1
      BY <3>1, ReadingIsFinite, FS_AddElement
    <3>3. QED
      BY <2>1, <3>2 DEF IInv, MapTypeOK, Counted
  <2>2. CASE j # k
    <3>1. Reading(j)' = Reading(j)
      BY <2>2 DEF Reading, IInv, MapTypeOK
    <3>2. QED
      BY <2>2, <3>1 DEF IInv, MapTypeOK, Counted
  <2>3. QED
    BY <2>1, <2>2
<1>3. Anchored' /\ Stored'
  BY DEF IInv, MapTypeOK, Anchored, Stored, Busy, Destroying
<1>4. Separate'
  BY DEF IInv, MapTypeOK, Separate, Stored, Busy, Destroying
<1>5. Exclusive' /\ NoLostZeroReaders'
  BY DEF IInv, MapTypeOK, Exclusive, NoLostZeroReaders, Destroying
<1>6. QED
  BY <1>1, <1>2, <1>3, <1>4, <1>5 DEF IInv
LEMMA ReleaseElementStep ==
  ASSUME IInv, NEW t \in Threads, ReleaseElement(t)
  PROVE  IInv'
<1> DEFINE k == key[t]
           left == [pc EXCEPT ![t] = "idle"]
<1>1. pc[t] = "reading" /\ k \in Keys /\ k \in present /\ readers[k] \in Nat \ {0}
  BY DEF ReleaseElement, IInv, MapTypeOK, Anchored, Busy
<1>2. /\ pc' \in [Threads -> PC]
      /\ \A s \in Threads : \/ pc'[s] = left[s]
                            \/ pc[s] = "waitZero" /\ key[s] = k /\ pc'[s] = "wokeZero"
  <2>1. left \in [Threads -> PC] /\ \A s \in Threads : pc[s] = "waitZero" => left[s] = "waitZero"
    BY <1>1 DEF IInv, MapTypeOK, PC
  <2>2. CASE readers[k] = 1
    <3>1. pc' = left \/ \E w \in WaitingZero(k) : pc' = [left EXCEPT ![w] = "wokeZero"]
      BY <2>2 DEF ReleaseElement, NotifyOne
    <3>2. QED
      BY <2>1, <3>1 DEF WaitingZero, PC
  <2>3. CASE readers[k] # 1
    BY <2>1, <2>3 DEF ReleaseElement
  <2>4. QED
    BY <2>2, <2>3
<1>3. /\ readers' = [readers EXCEPT ![k] = @ - 1]
      /\ key' = [key EXCEPT ![t] = NoKey]
      /\ ref' = [ref EXCEPT ![t] = NoItem]
      /\ UNCHANGED <<present, rdElement, allocated>>
  BY DEF ReleaseElement
<1>4. pc'[t] = "idle" /\ \A s \in Threads : s # t => key'[s] = key[s] /\ ref'[s] = ref[s]
  BY <1>1, <1>2, <1>3 DEF IInv, MapTypeOK
<1>5. \A s \in Threads \ {t} :
        /\ pc'[s] = "reading" <=> pc[s] = "reading"
        /\ Destroying(s)' <=> Destroying(s)
        /\ pc'[s] = "waitZero" => pc[s] = "waitZero"
  BY <1>2 DEF Destroying, IInv, MapTypeOK
<1>. HIDE DEF k, left
<1>6. MapTypeOK'
  BY <1>1, <1>2, <1>3 DEF IInv, MapTypeOK
<1>7. Counted'
  <2> SUFFICES ASSUME NEW j \in Keys
               PROVE  IF j \in present' THEN readers'[j] = Cardinality(Reading(j)')
                                        ELSE Reading(j)' = {}
    BY DEF Counted
  <2>1. CASE j = k
    <3>1. Reading(j)' = Reading(j) \ {t} /\ t \in Reading(j)
      BY <2>1, <1>1, <1>4, <1>5 DEF Reading, k
    <3>2. Cardinality(Reading(j)') = Cardinality(Reading(j)) - 1
      BY <3>1, ReadingIsFinite, FS_RemoveElement
    <3>3. QED
      BY <1>1, <1>3, <2>1, <3>2 DEF IInv, MapTypeOK, Counted
  <2>2. CASE j # k
    <3>1. Reading(j)' = Reading(j)
      BY <2>2, <1>1, <1>4, <1>5 DEF Reading, k
    <3>2. QED
      BY <1>1, <1>3, <2>2, <3>1 DEF IInv, MapTypeOK, Counted
  <2>3. QED
    BY <2>1, <2>2
<1>8. Anchored' /\ Stored' /\ Separate'
  BY <1>3, <1>4, <1>5 DEF IInv, Anchored, Stored, Separate, Busy, Destroying
<1>9. Exclusive'
  BY <1>3, <1>4, <1>5 DEF IInv, Exclusive, Destroying
<1>10. NoLostZeroReaders'
  <2> SUFFICES ASSUME NEW s \in Threads, pc'[s] = "waitZero"
               PROVE  readers'[key'[s]] > 0
    BY DEF NoLostZeroReaders
  <2>1. s # t /\ key'[s] = key[s] /\ pc[s] = "waitZero" /\ key[s] \in Keys
    BY <1>4, <1>5, <1>1 DEF IInv, MapTypeOK, Anchored, Busy, Destroying
  <2>2. CASE key[s] = k /\ readers[k] = 1
    <3>1. s \in WaitingZero(k)
      BY <2>1, <2>2 DEF WaitingZero
    <3>2. PICK w \in WaitingZero(k) : pc' = [[pc EXCEPT ![t] = "idle"] EXCEPT ![w] = "wokeZero"]
      BY <2>2, <3>1 DEF ReleaseElement, NotifyOne, k
    <3>3. pc'[w] = "wokeZero"
      BY <3>2 DEF WaitingZero, IInv, MapTypeOK
    <3>4. w = s
      BY <2>1, <2>2, <3>1 DEF WaitingZero, IInv, Exclusive, Destroying
    <3>5. QED
      BY <3>3, <3>4
  <2>3. CASE ~(key[s] = k /\ readers[k] = 1)
    BY <1>1, <1>3, <2>1, <2>3 DEF IInv, MapTypeOK, NoLostZeroReaders
  <2>4. QED
    BY <2>2, <2>3
<1>11. QED
  BY <1>6, <1>7, <1>8, <1>9, <1>10 DEF IInv

-----------------------------------------------------------------------------
(***************************************************************************)
(* The heart of it: the item may be deleted once its key has no reader,    *)
(* because only its readers and its destroyer have a pointer to it.        *)
(***************************************************************************)
LEMMA ReclaimStep ==
  ASSUME IInv, NEW t \in Threads, NEW k \in Keys, NEW i \in Items,
         k \in present, readers[k] = 0, Reclaim(t, k, i),
         \/ pc[t] = "wokeZero" /\ key[t] = k /\ ref[t] = i
         \/ pc[t] = "idle" /\ rdElement[k] = i
  PROVE  IInv'
<1> DEFINE left == [pc EXCEPT ![t] = "idle"]
<1>1. /\ allocated' = allocated \ {i}
      /\ present' = present \ {k}
      /\ rdElement' = [rdElement EXCEPT ![k] = NoItem]
      /\ key' = [key EXCEPT ![t] = NoKey]
      /\ ref' = [ref EXCEPT ![t] = NoItem]
      /\ readers' = readers
  BY DEF Reclaim
<1>2. /\ pc' \in [Threads -> PC]
      /\ \A s \in Threads : \/ pc'[s] = left[s]
                            \/ pc[s] = "waitEmpty" /\ pc'[s] = "wokeEmpty"
  <2>1. left \in [Threads -> PC] /\ \A s \in Threads : pc[s] = "waitEmpty" => left[s] = "waitEmpty"
    BY DEF IInv, MapTypeOK, PC
  <2>2. CASE present' = {}
    <3>1. pc' = left \/ \E w \in WaitingEmpty : pc' = [left EXCEPT ![w] = "wokeEmpty"]
      BY <2>2 DEF Reclaim, NotifyOne
    <3>2. QED
      BY <2>1, <3>1 DEF WaitingEmpty, PC
  <2>3. CASE present' # {}
    BY <2>1, <2>3 DEF Reclaim
  <2>4. QED
    BY <2>2, <2>3
<1>3. pc'[t] = "idle" /\ \A s \in Threads : s # t => key'[s] = key[s] /\ ref'[s] = ref[s]
  BY <1>1, <1>2 DEF IInv, MapTypeOK
<1>4. \A s \in Threads \ {t} :
        /\ pc'[s] = "reading" <=> pc[s] = "reading"
        /\ Destroying(s)' <=> Destroying(s)
        /\ pc'[s] = "waitZero" <=> pc[s] = "waitZero"
  BY <1>2 DEF Destroying, IInv, MapTypeOK
<1>. HIDE DEF left
<1>5. Reading(k) = {}
  BY ReadingIsFinite, FS_EmptySet DEF IInv, Counted
<1>6. \A s \in Threads \ {t} : Busy(s) => key[s] # k /\ ref[s] # i
  <2> SUFFICES ASSUME NEW s \in Threads \ {t}, Busy(s)
               PROVE  key[s] # k /\ ref[s] # i
    OBVIOUS
  <2>1. key[s] # k
    <3>1. CASE pc[s] = "reading"
      BY <1>5, <3>1 DEF Reading
    <3>2. CASE Destroying(s) /\ pc[t] = "wokeZero"
      BY <3>2 DEF IInv, Exclusive, Destroying
    <3>3. CASE Destroying(s) /\ pc[t] = "idle" /\ rdElement[k] = i
      BY <3>3, SafeMapAssumption DEF IInv, Exclusive
    <3>4. QED
      BY <3>1, <3>2, <3>3 DEF Busy
  <2>2. QED
    BY <2>1 DEF IInv, Separate, Busy, Destroying
<1>7. \A j \in Keys : j # k => rdElement[j] # i
  BY SafeMapAssumption DEF IInv, Separate, Busy, Destroying
<1>8. MapTypeOK'
  BY <1>1, <1>2, <1>3 DEF IInv, MapTypeOK
<1>9. Counted'
  <2> SUFFICES ASSUME NEW j \in Keys
               PROVE  IF j \in present' THEN readers'[j] = Cardinality(Reading(j)')
                                        ELSE Reading(j)' = {}
    BY DEF Counted
  <2>1. Reading(j)' = Reading(j)
    BY <1>3, <1>4 DEF Reading
  <2>2. QED
    BY <1>1, <1>5, <2>1 DEF IInv, Counted
<1>10. Anchored'
  BY <1>1, <1>3, <1>4, <1>6 DEF IInv, Anchored, Busy, Destroying
<1>11. Stored'
  BY <1>1, <1>7 DEF IInv, MapTypeOK, Stored
<1>12. Separate'
  <2>1. \A j \in Keys : rdElement'[j] # NoItem => j # k /\ rdElement'[j] = rdElement[j]
    BY <1>1 DEF IInv, MapTypeOK
  <2>2. \A s \in Threads : Busy(s)' => s # t /\ Busy(s) /\ key'[s] = key[s] /\ ref'[s] = ref[s] /\ ref[s] \in Items
    BY <1>3, <1>4 DEF Busy, Destroying, IInv, MapTypeOK, Anchored
  <2>3. QED
    BY <2>1, <2>2, SafeMapAssumption DEF IInv, Separate
<1>13. Exclusive'
  BY <1>1, <1>3, <1>4 DEF IInv, MapTypeOK, Exclusive, Destroying
<1>14. NoLostZeroReaders'
  BY <1>1, <1>3, <1>4 DEF IInv, NoLostZeroReaders, Destroying
<1>15. QED
  BY <1>8, <1>9, <1>10, <1>11, <1>12, <1>13, <1>14 DEF IInv
-----------------------------------------------------------------------------
LEMMA DestroyStep ==
  ASSUME IInv, NEW t \in Threads,
         (\E k \in Keys : DestroyAtOnce(t, k)) \/ DestroyEnd(t)
  PROVE  IInv'
<1>1. ASSUME NEW k \in Keys, DestroyAtOnce(t, k) PROVE IInv'
  <2>1. rdElement[k] \in Items
    BY <1>1 DEF DestroyAtOnce, IInv, MapTypeOK
  <2>2. QED
    BY <1>1, <2>1, ReclaimStep DEF DestroyAtOnce
<1>2. CASE DestroyEnd(t)
  <2>1. key[t] \in Keys /\ key[t] \in present /\ ref[t] \in Items
    BY <1>2 DEF DestroyEnd, IInv, MapTypeOK, Anchored, Busy, Destroying
  <2>2. PICK k \in Keys, i \in Items : k = key[t] /\ i = ref[t]
    BY <2>1
  <2>3. Reclaim(t, k, i)
    BY <1>2, <2>2 DEF DestroyEnd, Reclaim
  <2>4. k \in present /\ readers[k] = 0 /\ pc[t] = "wokeZero" /\ key[t] = k /\ ref[t] = i
    BY <1>2, <2>1, <2>2 DEF DestroyEnd
  <2>5. QED
    BY <2>3, <2>4, ReclaimStep
<1>3. QED
  BY <1>1, <1>2

LEMMA DestroyBeginStep ==
  ASSUME IInv, NEW t \in Threads, NEW k \in Keys, DestroyBegin(t, k)
  PROVE  IInv'
<1> USE DEF DestroyBegin
<1>1. MapTypeOK'
  BY DEF IInv, MapTypeOK, PC
<1>2. Counted'
  <2>1. \A j \in Keys : Reading(j)' = Reading(j)
    BY DEF Reading, IInv, MapTypeOK
  <2>2. QED
    BY <2>1 DEF IInv, Counted
<1>3. \A s \in Threads \ {t} :
        pc'[s] = pc[s] /\ key'[s] = key[s] /\ ref'[s] = ref[s] /\ (Destroying(s)' <=> Destroying(s))
  BY DEF IInv, MapTypeOK, Destroying
<1>4. pc'[t] = "waitZero" /\ key'[t] = k /\ ref'[t] = rdElement[k]
  BY DEF IInv, MapTypeOK
<1>5. \A j \in Keys : rdElement'[j] = IF j = k THEN NoItem ELSE rdElement[j]
  BY DEF IInv, MapTypeOK
<1>6. Anchored' /\ Stored'
  BY <1>3, <1>4, <1>5 DEF IInv, Anchored, Stored, Busy, Destroying
<1>7. Separate'
  <2>1. \A s \in Threads : Busy(s)' => ref'[s] # NoItem
    BY <1>3, <1>4, SafeMapAssumption DEF IInv, MapTypeOK, Anchored, Busy, Destroying
  <2>2. QED
    BY <1>3, <1>4, <1>5, <2>1 DEF IInv, Separate, Stored, Busy, Destroying
<1>8. Exclusive'
  BY <1>3, <1>4, <1>5 DEF IInv, Exclusive, Destroying
<1>9. NoLostZeroReaders'
  BY <1>3, <1>4 DEF IInv, MapTypeOK, NoLostZeroReaders
<1>10. QED
  BY <1>1, <1>2, <1>6, <1>7, <1>8, <1>9 DEF IInv

\* The steps of a waiting thread move it between its waits, and nothing else.
LEMMA WaitStep ==
  ASSUME IInv, NEW t \in Threads,
         DestroyAgain(t) \/ WaitForEmpty(t) \/ WaitForEmptyResume(t) \/ MapSpuriousWake(t)
  PROVE  IInv'
<1>1. UNCHANGED <<present, rdElement, readers, allocated, key, ref>>
  BY DEF DestroyAgain, WaitForEmpty, WaitForEmptyResume, MapSpuriousWake
<1>2. pc' \in [Threads -> PC]
  BY DEF DestroyAgain, WaitForEmpty, WaitForEmptyResume, MapSpuriousWake, IInv, MapTypeOK, PC
<1>3. \A s \in Threads :
        /\ pc'[s] = "reading" <=> pc[s] = "reading"
        /\ Destroying(s)' <=> Destroying(s)
        /\ pc'[s] = "waitZero" => pc[s] = "waitZero" \/ readers[key[s]] # 0
  BY DEF DestroyAgain, WaitForEmpty, WaitForEmptyResume, MapSpuriousWake, IInv, MapTypeOK, Destroying
<1>4. MapTypeOK'
  BY <1>1, <1>2 DEF IInv, MapTypeOK
<1>5. Counted'
  <2>1. \A j \in Keys : Reading(j)' = Reading(j)
    BY <1>1, <1>3 DEF Reading
  <2>2. QED
    BY <1>1, <2>1 DEF IInv, Counted
<1>6. Anchored' /\ Stored' /\ Separate' /\ Exclusive'
  BY <1>1, <1>3 DEF IInv, Anchored, Stored, Separate, Exclusive, Busy
<1>7. NoLostZeroReaders'
  <2> SUFFICES ASSUME NEW s \in Threads, pc'[s] = "waitZero"
               PROVE  readers'[key'[s]] > 0
    BY DEF NoLostZeroReaders
  <2>1. Destroying(s)
    BY <1>3 DEF Destroying
  <2>2. readers[key[s]] \in Nat
    BY <2>1 DEF IInv, MapTypeOK, Anchored, Busy
  <2>3. QED
    BY <1>1, <1>3, <2>2 DEF IInv, NoLostZeroReaders
<1>8. QED
  BY <1>4, <1>5, <1>6, <1>7 DEF IInv

LEMMA NextIInv == IInv /\ [MapNext]_mapvars => IInv'
<1> SUFFICES ASSUME IInv, [MapNext]_mapvars PROVE IInv'
  OBVIOUS
<1>1. CASE UNCHANGED mapvars
  BY <1>1 DEF mapvars, IInv, MapTypeOK, Counted, Anchored, Stored, Separate, Exclusive,
              NoLostZeroReaders, Busy, Destroying, Reading
<1>2. ASSUME NEW t \in Threads, NEW k \in Keys,
             (\E i \in Items : AddElement(t, k, i)) \/ OpenElement(t, k) \/ DestroyBegin(t, k)
      PROVE  IInv'
  BY <1>2, AddElementStep, OpenElementStep, DestroyBeginStep
<1>3. ASSUME NEW t \in Threads, ReleaseElement(t) PROVE IInv'
  BY <1>3, ReleaseElementStep
<1>4. ASSUME NEW t \in Threads, (\E k \in Keys : DestroyAtOnce(t, k)) \/ DestroyEnd(t) PROVE IInv'
  BY <1>4, DestroyStep
<1>5. ASSUME NEW t \in Threads,
             DestroyAgain(t) \/ WaitForEmpty(t) \/ WaitForEmptyResume(t) \/ MapSpuriousWake(t)
      PROVE  IInv'
  BY <1>5, WaitStep
<1>6. QED
  BY <1>1, <1>2, <1>3, <1>4, <1>5 DEF MapNext

\* What IInv is for: the properties the runs check, one by one.
LEMMA IInvImplies ==
  IInv => NoDanglingItem /\ ReleaseIsValid /\ OneOwner
<1> SUFFICES ASSUME IInv PROVE NoDanglingItem /\ ReleaseIsValid /\ OneOwner
  OBVIOUS
<1>1. NoDanglingItem
  BY DEF IInv, Anchored, Busy, NoDanglingItem
<1>2. ReleaseIsValid
  <2> SUFFICES ASSUME NEW t \in Threads, pc[t] = "reading"
               PROVE  key[t] \in present /\ readers[key[t]] > 0
    BY DEF ReleaseIsValid
  <2>1. key[t] \in present /\ key[t] \in Keys /\ readers[key[t]] \in Nat
    BY DEF IInv, MapTypeOK, Anchored, Busy
  <2>2. readers[key[t]] # 0
    BY <2>1, ReaderIsCounted DEF IInv, Counted
  <2>3. QED
    BY <2>1, <2>2
<1>3. OneOwner
  BY DEF IInv, MapTypeOK, Separate, Exclusive, OneOwner
<1>4. QED
  BY <1>1, <1>2, <1>3

-----------------------------------------------------------------------------
\* IInv holds in every state of the map.
THEOREM Invariance == MapSpec => []IInv
BY InitIInv, NextIInv, PTL DEF MapSpec

\* The counters stay natural numbers, and every pointer the address of an item.
THEOREM TypeCorrect == MapSpec => []MapTypeOK
<1>1. IInv => MapTypeOK
  BY DEF IInv
<1>2. QED
  BY <1>1, Invariance, PTL

\* No pointer of openElement or destroyElement dangles, however the threads
\* interleave.
THEOREM ItemsOutliveReaders == MapSpec => []NoDanglingItem
BY IInvImplies, Invariance, PTL

\* releaseElement never throws on an element that was opened.
THEOREM ReleaseNeverThrows == MapSpec => []ReleaseIsValid
BY IInvImplies, Invariance, PTL

\* No item is deleted twice.
THEOREM SingleOwnership == MapSpec => []OneOwner
BY IInvImplies, Invariance, PTL

\* The wake-up of cond_zeroReaders is never lost, although notify_one is sent
\* only at the count of zero and the waiter tests its condition in a loop.
THEOREM NoWakeUpIsLost == MapSpec => []NoLostZeroReaders
<1>1. IInv => NoLostZeroReaders
  BY DEF IInv
<1>2. QED
  BY <1>1, Invariance, PTL
-----------------------------------------------------------------------------
(***************************************************************************)
(* The map implements ItemLease.  The items that can be opened are those   *)
(* stored under some key, and all of them are in memory.                   *)
(***************************************************************************)
LEMMA OpenItemsStored ==
  IInv => /\ OpenItems = {i \in Items : \E k \in Keys : rdElement[k] = i}
          /\ OpenItems \subseteq allocated
BY SafeMapAssumption DEF OpenItems, IInv, MapTypeOK, Stored

LEMMA InitImplements == MapInit => Lease!Init
BY DEF MapInit, Lease!Init, OpenItems, Holders

\* Steps that leave items, allocation and readers alone are stutters.
LEMMA SameItems ==
  ASSUME UNCHANGED <<present, rdElement, allocated>>,
         \A s \in Threads : /\ pc'[s] = "reading" <=> pc[s] = "reading"
                            /\ pc[s] = "reading" => ref'[s] = ref[s]
  PROVE  UNCHANGED Lease!vars
BY DEF Lease!vars, OpenItems, Holders

LEMMA AddElementImplements ==
  ASSUME IInv, NEW t \in Threads, NEW k \in Keys, NEW i \in Items, AddElement(t, k, i),
         IInv'
  PROVE  Lease!Insert(i)
<1>1. OpenItems' = OpenItems \cup {i}
  <2>1. rdElement[k] = NoItem /\ \A j \in Keys : rdElement'[j] = IF j = k THEN i ELSE rdElement[j]
    BY DEF AddElement, IInv, MapTypeOK, Stored
  <2>2. OpenItems' = {m \in Items : \E j \in Keys : rdElement'[j] = m}
    BY SafeMapAssumption DEF OpenItems, IInv, MapTypeOK, Stored
  <2>3. QED
    BY <2>1, <2>2, OpenItemsStored, SafeMapAssumption
<1>2. i \notin OpenItems \cup (allocated \ OpenItems)
  BY OpenItemsStored DEF AddElement
<1>3. (allocated \ OpenItems)' = allocated \ OpenItems
  BY <1>1, <1>2 DEF AddElement
<1>4. Holders' = Holders
  BY DEF Holders, AddElement
<1>5. QED
  BY <1>1, <1>2, <1>3, <1>4 DEF Lease!Insert
LEMMA OpenElementImplements ==
  ASSUME IInv, NEW t \in Threads, NEW k \in Keys, OpenElement(t, k)
  PROVE  \E i \in Items : Lease!Open(t, i)
<1>1. rdElement[k] \in Items /\ rdElement[k] \in OpenItems
  BY DEF OpenElement, OpenItems, IInv, MapTypeOK
<1>2. Holders' = [Holders EXCEPT ![rdElement[k]] = @ \cup {t}]
  BY DEF OpenElement, Holders, IInv, MapTypeOK
<1>3. OpenItems' = OpenItems /\ allocated' = allocated
  BY DEF OpenElement, OpenItems
<1>4. QED
  BY <1>1, <1>2, <1>3 DEF Lease!Open

\* releaseElement: the step of one reader; the thread it wakes was not reading.
LEMMA ReleaseElementImplements ==
  ASSUME IInv, NEW t \in Threads, ReleaseElement(t)
  PROVE  \E i \in Items : Lease!Release(t, i)
<1>1. ref[t] \in Items /\ pc[t] = "reading"
  BY DEF ReleaseElement, IInv, MapTypeOK, Anchored, Busy
<1>2. pc'[t] = "idle" /\ \A s \in Threads \ {t} : pc'[s] = "reading" <=> pc[s] = "reading"
  BY <1>1 DEF ReleaseElement, NotifyOne, WaitingZero, IInv, MapTypeOK
<1>3. \A s \in Threads \ {t} : ref'[s] = ref[s]
  BY DEF ReleaseElement, IInv, MapTypeOK
<1>4. Holders' = [Holders EXCEPT ![ref[t]] = @ \ {t}]
  <2>1. \A i \in Items : {s \in Threads : pc'[s] = "reading" /\ ref'[s] = i}
                       = IF i = ref[t] THEN {s \in Threads : pc[s] = "reading" /\ ref[s] = i} \ {t}
                         ELSE {s \in Threads : pc[s] = "reading" /\ ref[s] = i}
    BY <1>1, <1>2, <1>3
  <2>2. QED
    BY <1>1, <2>1, ZenonT(30) DEF Holders
<1>5. OpenItems' = OpenItems /\ allocated' = allocated
  BY DEF ReleaseElement, OpenItems
<1>6. t \in Holders[ref[t]]
  BY <1>1 DEF Holders
<1>7. QED
  BY <1>1, <1>4, <1>5, <1>6 DEF Lease!Release

\* destroyElement deletes what nobody holds.
LEMMA ReclaimImplements ==
  ASSUME IInv, IInv', NEW t \in Threads, NEW k \in Keys, NEW i \in Items,
         k \in present, readers[k] = 0, Reclaim(t, k, i),
         \/ pc[t] = "wokeZero" /\ key[t] = k /\ ref[t] = i
         \/ pc[t] = "idle" /\ rdElement[k] = i
  PROVE  Lease!Reclaim(i)
<1>1. Reading(k) = {}
  BY ReadingIsFinite, FS_EmptySet DEF IInv, Counted
<1>2. i \in allocated
  BY SafeMapAssumption DEF IInv, Anchored, Stored, Busy, Destroying
<1>3. \A s \in Threads : pc[s] = "reading" => ref[s] # i
  BY <1>1, SafeMapAssumption DEF Reading, IInv, Separate, Busy, Destroying
<1>4. \A s \in Threads : /\ pc'[s] = "reading" <=> pc[s] = "reading"
                         /\ pc[s] = "reading" => ref'[s] = ref[s]
  BY DEF Reclaim, NotifyOne, WaitingEmpty, IInv, MapTypeOK
<1>5. Holders' = Holders /\ Holders[i] = {}
  BY <1>3, <1>4 DEF Holders
<1>6. OpenItems' = OpenItems \ {i}
  <2>1. \A j \in Keys : rdElement'[j] = IF j = k THEN NoItem ELSE rdElement[j]
    BY DEF Reclaim, IInv, MapTypeOK
  <2>2. \A j \in Keys : j # k => rdElement[j] # i
    BY SafeMapAssumption DEF IInv, Separate, Busy, Destroying
  <2>3. rdElement[k] = i \/ rdElement[k] = NoItem
    BY DEF IInv, Exclusive, Destroying
  <2>4. OpenItems' = {m \in Items : \E j \in Keys : rdElement'[j] = m}
    BY SafeMapAssumption DEF OpenItems, IInv, MapTypeOK, Stored
  <2>5. QED
    BY <2>1, <2>2, <2>3, <2>4, OpenItemsStored, SafeMapAssumption
<1>7. (allocated \ OpenItems)' = (allocated \ OpenItems) \ {i}
  BY <1>6 DEF Reclaim
<1>8. QED
  BY <1>2, <1>5, <1>6, <1>7 DEF Lease!Reclaim

\* destroyElement, up to its wait, closes the item.
LEMMA DestroyBeginImplements ==
  ASSUME IInv, IInv', NEW t \in Threads, NEW k \in Keys, DestroyBegin(t, k)
  PROVE  \E i \in Items : Lease!Close(i)
<1>1. rdElement[k] \in Items /\ rdElement[k] \in OpenItems /\ rdElement[k] \in allocated
  BY DEF DestroyBegin, OpenItems, IInv, MapTypeOK, Stored
<1>2. OpenItems' = OpenItems \ {rdElement[k]}
  <2>1. \A j \in Keys : rdElement'[j] = IF j = k THEN NoItem ELSE rdElement[j]
    BY DEF DestroyBegin, IInv, MapTypeOK
  <2>2. \A j \in Keys : j # k => rdElement[j] # rdElement[k]
    BY <1>1, SafeMapAssumption DEF IInv, Separate
  <2>3. OpenItems' = {m \in Items : \E j \in Keys : rdElement'[j] = m}
    BY SafeMapAssumption DEF OpenItems, IInv, MapTypeOK, Stored
  <2>4. QED
    BY <2>1, <2>2, <2>3, OpenItemsStored, SafeMapAssumption
<1>3. (allocated \ OpenItems)' = (allocated \ OpenItems) \cup {rdElement[k]}
  BY <1>1, <1>2 DEF DestroyBegin
<1>4. Holders' = Holders
  <2>1. \A s \in Threads : /\ pc'[s] = "reading" <=> pc[s] = "reading"
                           /\ pc[s] = "reading" => ref'[s] = ref[s]
    BY DEF DestroyBegin, IInv, MapTypeOK
  <2>2. QED
    BY <2>1 DEF Holders
<1>5. QED
  BY <1>1, <1>2, <1>3, <1>4 DEF Lease!Close

LEMMA StepImplements == IInv /\ IInv' /\ [MapNext]_mapvars => [Lease!Next]_Lease!vars
<1> SUFFICES ASSUME IInv, IInv', [MapNext]_mapvars PROVE [Lease!Next]_Lease!vars
  OBVIOUS
<1>1. CASE UNCHANGED mapvars
  BY <1>1, SameItems DEF mapvars
<1>2. ASSUME NEW t \in Threads, NEW k \in Keys, NEW i \in Items, AddElement(t, k, i)
      PROVE  Lease!Next
  BY <1>2, AddElementImplements DEF Lease!Next
<1>3. ASSUME NEW t \in Threads, NEW k \in Keys, OpenElement(t, k) PROVE Lease!Next
  BY <1>3, OpenElementImplements DEF Lease!Next
<1>4. ASSUME NEW t \in Threads, ReleaseElement(t) PROVE Lease!Next
  BY <1>4, ReleaseElementImplements DEF Lease!Next
<1>5. ASSUME NEW t \in Threads, NEW k \in Keys, DestroyAtOnce(t, k) PROVE Lease!Next
  <2>1. rdElement[k] \in Items
    BY <1>5 DEF DestroyAtOnce, IInv, MapTypeOK
  <2>2. QED
    BY <1>5, <2>1, ReclaimImplements DEF DestroyAtOnce, Lease!Next
<1>6. ASSUME NEW t \in Threads, NEW k \in Keys, DestroyBegin(t, k) PROVE Lease!Next
  BY <1>6, DestroyBeginImplements DEF Lease!Next
<1>7. ASSUME NEW t \in Threads, DestroyEnd(t) PROVE Lease!Next
  <2>1. key[t] \in Keys /\ key[t] \in present /\ ref[t] \in Items
    BY <1>7 DEF DestroyEnd, IInv, MapTypeOK, Anchored, Busy, Destroying
  <2>2. PICK k \in Keys, i \in Items : k = key[t] /\ i = ref[t]
    BY <2>1
  <2>3. Reclaim(t, k, i)
    BY <1>7, <2>2 DEF DestroyEnd, Reclaim
  <2>4. k \in present /\ readers[k] = 0 /\ pc[t] = "wokeZero" /\ key[t] = k /\ ref[t] = i
    BY <1>7, <2>1, <2>2 DEF DestroyEnd
  <2>5. QED
    BY <2>3, <2>4, ReclaimImplements DEF Lease!Next
<1>8. ASSUME NEW t \in Threads,
             DestroyAgain(t) \/ WaitForEmpty(t) \/ WaitForEmptyResume(t) \/ MapSpuriousWake(t)
      PROVE  UNCHANGED Lease!vars
  <2>1. UNCHANGED <<present, rdElement, allocated, ref>>
    BY <1>8 DEF DestroyAgain, WaitForEmpty, WaitForEmptyResume, MapSpuriousWake
  <2>2. \A s \in Threads : pc'[s] = "reading" <=> pc[s] = "reading"
    BY <1>8 DEF DestroyAgain, WaitForEmpty, WaitForEmptyResume, MapSpuriousWake, IInv, MapTypeOK
  <2>3. QED
    BY <2>1, <2>2, SameItems
<1>9. QED
  BY <1>1, <1>2, <1>3, <1>4, <1>5, <1>6, <1>7, <1>8 DEF MapNext

\* The counters and condition variables of Safe::Map keep the promise of
\* ItemLease: an item is never deleted under a holder, nor opened while it
\* is being destroyed.
THEOREM MapImplementsLease == MapSpec => ImplementsLease
<1>1. IInv /\ IInv' /\ [MapNext]_mapvars => [Lease!Next]_Lease!vars
  BY StepImplements
<1>2. QED
  BY <1>1, InitImplements, Invariance, PTL DEF MapSpec, ImplementsLease, Lease!Spec
=============================================================================
