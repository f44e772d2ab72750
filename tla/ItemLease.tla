------------------------------ MODULE ItemLease ------------------------------
(***************************************************************************)
(* What Threads::Safe::Map promises about the items put in it, with the    *)
(* lock, the counters and the condition variables left out: an item may be *)
(* opened while nobody has begun to destroy it, whoever opened it may use  *)
(* it until he gives it back, and its memory goes only when nobody has it. *)
(***************************************************************************)
EXTENDS FiniteSets

CONSTANTS Threads, Items

VARIABLES
  open,       \* items that may be opened
  closing,    \* items somebody is destroying, still in memory
  holders     \* holders[i]: the threads that opened item i and still have it

vars == <<open, closing, holders>>

TypeOK ==
  /\ open \in SUBSET Items
  /\ closing \in SUBSET Items
  /\ holders \in [Items -> SUBSET Threads]

Init ==
  /\ open = {}
  /\ closing = {}
  /\ holders = [i \in Items |-> {}]

Insert(i) ==
  /\ i \notin open \cup closing
  /\ open' = open \cup {i}
  /\ UNCHANGED <<closing, holders>>

Open(t, i) ==
  /\ i \in open
  /\ holders' = [holders EXCEPT ![i] = @ \cup {t}]
  /\ UNCHANGED <<open, closing>>

Release(t, i) ==
  /\ t \in holders[i]
  /\ holders' = [holders EXCEPT ![i] = @ \ {t}]
  /\ UNCHANGED <<open, closing>>

\* From here on the item can no longer be opened.
Close(i) ==
  /\ i \in open
  /\ open' = open \ {i}
  /\ closing' = closing \cup {i}
  /\ UNCHANGED holders

\* The memory goes: never under a holder.
Reclaim(i) ==
  /\ i \in open \cup closing
  /\ holders[i] = {}
  /\ open' = open \ {i}
  /\ closing' = closing \ {i}
  /\ UNCHANGED holders

Next ==
  \E i \in Items :
    \/ Insert(i)
    \/ Close(i)
    \/ Reclaim(i)
    \/ \E t \in Threads : Open(t, i) \/ Release(t, i)

Spec == Init /\ [][Next]_vars

\* A held item is still in memory: the promise the callers of Map build on.
HeldIsAllocated == \A i \in Items : holders[i] # {} => i \in open \cup closing
=============================================================================
