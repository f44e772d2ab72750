------------------------------- MODULE SafeMap -------------------------------
(***************************************************************************)
(* Threads::Safe::Map (src/Threads/mdz_thr_safecontainers/map.h), the      *)
(* reader-counted map under FastRPC's connections, the web sessions and    *)
(* the authentication domains.                                             *)
(*                                                                         *)
(* Every operation runs under mutex_xMap from its first line, so one step  *)
(* is one critical section: an operation is one step, cut in two only      *)
(* where it waits on a condition variable and so gives the lock away.  A   *)
(* waiting thread is in a wait set (pc "wait...") until it is notified or  *)
(* wakes spuriously ("woke..."), and goes on when it has the lock again.   *)
(***************************************************************************)
EXTENDS Naturals, FiniteSets

CONSTANTS
  Threads,   \* callers of the map
  Waiters,   \* those among them that call waitForEmpty
  Keys,      \* T, the map's keys
  Items,     \* addresses of MapItem objects
  NoItem,    \* nullptr
  NoKey      \* the key of a thread that works on none

ASSUME SafeMapAssumption ==
  /\ IsFiniteSet(Threads)
  /\ Waiters \in SUBSET Threads
  /\ NoItem \notin Items
  /\ NoKey \notin Keys

VARIABLES
  present,    \* the keys of xMap
  rdElement,  \* xMap[k].rdElement
  readers,    \* xMap[k].readers
  allocated,  \* the items in memory: added and not deleted yet
  pc,         \* where each thread is
  key,        \* the key a thread in the middle of an operation works on
  ref         \* the item it has a pointer to

mapvars == <<present, rdElement, readers, allocated, pc, key, ref>>

PC == {"idle", "reading", "waitZero", "wokeZero", "waitEmpty", "wokeEmpty"}

\* A thread that called openElement has its item until it calls releaseElement.
Reading(k) == {t \in Threads : pc[t] = "reading" /\ key[t] = k}

\* A thread in the loop of destroyElement.
Destroying(t) == pc[t] \in {"waitZero", "wokeZero"}

MapInit ==
  /\ present = {}
  /\ rdElement = [k \in Keys |-> NoItem]
  /\ readers = [k \in Keys |-> 0]
  /\ allocated = {}
  /\ pc = [t \in Threads |-> "idle"]
  /\ key = [t \in Threads |-> NoKey]
  /\ ref = [t \in Threads |-> NoItem]

(***************************************************************************)
(* pc after some waiter of the set W, if there is one, is notified.        *)
(***************************************************************************)
NotifyOne(pcs, W, woken) ==
  IF W = {} THEN {pcs} ELSE {[pcs EXCEPT ![w] = woken] : w \in W}

WaitingZero(k) == {t \in Threads : pc[t] = "waitZero" /\ key[t] = k}
WaitingEmpty == {t \in Threads : pc[t] = "waitEmpty"}

\* addElement: the caller's new item enters under a key that is not there.
\* (The call that finds the key returns false and leaves the map alone.)
AddElement(t, k, i) ==
  /\ pc[t] = "idle"
  /\ k \notin present
  /\ i \notin allocated
  /\ present' = present \cup {k}
  /\ rdElement' = [rdElement EXCEPT ![k] = i]
  /\ readers' = [readers EXCEPT ![k] = 0]
  /\ allocated' = allocated \cup {i}
  /\ UNCHANGED <<pc, key, ref>>

\* openElement: one reader more, unless the element is being destroyed.
OpenElement(t, k) ==
  /\ pc[t] = "idle"
  /\ k \in present
  /\ rdElement[k] # NoItem
  /\ readers' = [readers EXCEPT ![k] = @ + 1]
  /\ pc' = [pc EXCEPT ![t] = "reading"]
  /\ key' = [key EXCEPT ![t] = k]
  /\ ref' = [ref EXCEPT ![t] = rdElement[k]]
  /\ UNCHANGED <<present, rdElement, allocated>>

\* (Mutant) releaseElement tests for the last reader before it counts down.
ReleaseElementTestsFirst(t) ==
  LET k == key[t]
      left == [pc EXCEPT ![t] = "idle"]
  IN  /\ pc[t] = "reading"
      /\ k \in present
      /\ readers[k] # 0
      /\ readers' = [readers EXCEPT ![k] = @ - 1]
      /\ IF readers[k] = 0
         THEN pc' \in NotifyOne(left, WaitingZero(k), "wokeZero")
         ELSE pc' = left
      /\ key' = [key EXCEPT ![t] = NoKey]
      /\ ref' = [ref EXCEPT ![t] = NoItem]
      /\ UNCHANGED <<present, rdElement, allocated>>

\* releaseElement: the last reader notifies the destroyer, if any.
ReleaseElement(t) ==
  LET k == key[t]
      left == [pc EXCEPT ![t] = "idle"]
  IN  /\ pc[t] = "reading"
      /\ k \in present
      /\ readers[k] # 0
      /\ readers' = [readers EXCEPT ![k] = @ - 1]
      /\ IF readers[k] = 1
         THEN pc' \in NotifyOne(left, WaitingZero(k), "wokeZero")
         ELSE pc' = left
      /\ key' = [key EXCEPT ![t] = NoKey]
      /\ ref' = [ref EXCEPT ![t] = NoItem]
      /\ UNCHANGED <<present, rdElement, allocated>>

\* The end of destroyElement: delete, erase, and notify an empty map.
Reclaim(t, k, i) ==
  /\ allocated' = allocated \ {i}
  /\ present' = present \ {k}
  /\ rdElement' = [rdElement EXCEPT ![k] = NoItem]
  /\ LET left == [pc EXCEPT ![t] = "idle"]
     IN IF present' = {}
        THEN pc' \in NotifyOne(left, WaitingEmpty, "wokeEmpty")
        ELSE pc' = left
  /\ key' = [key EXCEPT ![t] = NoKey]
  /\ ref' = [ref EXCEPT ![t] = NoItem]
  /\ UNCHANGED readers

\* (Mutant) destroyElement deletes whatever the number of readers.
DestroyAtOnceUnderReaders(t, k) ==
  /\ pc[t] = "idle"
  /\ k \in present
  /\ rdElement[k] # NoItem
  /\ Reclaim(t, k, rdElement[k])

\* destroyElement, first critical section, no reader in the way.
DestroyAtOnce(t, k) ==
  /\ pc[t] = "idle"
  /\ k \in present
  /\ rdElement[k] # NoItem
  /\ readers[k] = 0
  /\ Reclaim(t, k, rdElement[k])

\* destroyElement, first critical section, up to the wait: the element can
\* be opened no more, and stopReaders is called on it.
DestroyBegin(t, k) ==
  /\ pc[t] = "idle"
  /\ k \in present
  /\ rdElement[k] # NoItem
  /\ readers[k] # 0
  /\ rdElement' = [rdElement EXCEPT ![k] = NoItem]
  /\ pc' = [pc EXCEPT ![t] = "waitZero"]
  /\ key' = [key EXCEPT ![t] = k]
  /\ ref' = [ref EXCEPT ![t] = rdElement[k]]
  /\ UNCHANGED <<present, readers, allocated>>

\* destroyElement, back from the wait with readers left: it waits again.
DestroyAgain(t) ==
  /\ pc[t] = "wokeZero"
  /\ readers[key[t]] # 0
  /\ pc' = [pc EXCEPT ![t] = "waitZero"]
  /\ UNCHANGED <<present, rdElement, readers, allocated, key, ref>>

\* destroyElement, back from the wait with no reader left.
DestroyEnd(t) ==
  /\ pc[t] = "wokeZero"
  /\ readers[key[t]] = 0
  /\ Reclaim(t, key[t], ref[t])

\* waitForEmpty on a map that is not (the call on an empty map changes nothing).
WaitForEmpty(t) ==
  /\ t \in Waiters
  /\ pc[t] = "idle"
  /\ present # {}
  /\ pc' = [pc EXCEPT ![t] = "waitEmpty"]
  /\ UNCHANGED <<present, rdElement, readers, allocated, key, ref>>

\* waitForEmpty, back with the lock: the predicate is evaluated again.
WaitForEmptyResume(t) ==
  /\ pc[t] = "wokeEmpty"
  /\ pc' = [pc EXCEPT ![t] = IF present = {} THEN "idle" ELSE "waitEmpty"]
  /\ UNCHANGED <<present, rdElement, readers, allocated, key, ref>>

\* A condition variable may return without having been notified.
MapSpuriousWake(t) ==
  /\ pc[t] \in {"waitZero", "waitEmpty"}
  /\ pc' = [pc EXCEPT ![t] = IF @ = "waitZero" THEN "wokeZero" ELSE "wokeEmpty"]
  /\ UNCHANGED <<present, rdElement, readers, allocated, key, ref>>

MapNext ==
  \E t \in Threads :
    \/ \E k \in Keys, i \in Items : AddElement(t, k, i)
    \/ \E k \in Keys : OpenElement(t, k)
    \/ ReleaseElement(t)
    \/ \E k \in Keys : DestroyAtOnce(t, k)
    \/ \E k \in Keys : DestroyBegin(t, k)
    \/ DestroyAgain(t)
    \/ DestroyEnd(t)
    \/ WaitForEmpty(t)
    \/ WaitForEmptyResume(t)
    \/ MapSpuriousWake(t)

MapSpec == MapInit /\ [][MapNext]_mapvars

(***************************************************************************)
(* Fairness: a thread that was woken gets the mutex in the end.  Nothing   *)
(* else is fair: nobody has to open, add, destroy, wait, or give back what *)
(* it opened (the web handler opens a domain for a page and never releases *)
(* it), and a spurious wake-up may never come.                             *)
(***************************************************************************)
Fairness ==
  \A t \in Threads :
    /\ WF_mapvars(DestroyAgain(t) \/ DestroyEnd(t))
    /\ WF_mapvars(WaitForEmptyResume(t))

MapFairSpec == MapSpec /\ Fairness

-----------------------------------------------------------------------------
MapTypeOK ==
  /\ present \in SUBSET Keys
  /\ rdElement \in [Keys -> Items \cup {NoItem}]
  /\ readers \in [Keys -> Nat]
  /\ allocated \in SUBSET Items
  /\ pc \in [Threads -> PC]
  /\ key \in [Threads -> Keys \cup {NoKey}]
  /\ ref \in [Threads -> Items \cup {NoItem}]

\* A pointer got from openElement, or kept by destroyElement across its
\* wait, never dangles: the item it points to has not been deleted.
NoDanglingItem ==
  \A t \in Threads : pc[t] = "reading" \/ Destroying(t) => ref[t] \in allocated

\* releaseElement of an open element always finds its key with a reader: it
\* neither returns false nor throws "Invalid close on Mutex MAP".
ReleaseIsValid ==
  \A t \in Threads : pc[t] = "reading" => key[t] \in present /\ readers[key[t]] > 0

\* Two keys never lead to one item, and an element is destroyed by one
\* thread: no item is deleted twice.
OneOwner ==
  /\ \A k1, k2 \in present : rdElement[k1] = rdElement[k2] /\ rdElement[k1] # NoItem => k1 = k2
  /\ \A t1, t2 \in Threads : Destroying(t1) /\ Destroying(t2) /\ key[t1] = key[t2] => t1 = t2
  /\ \A t \in Threads : Destroying(t) => rdElement[key[t]] = NoItem

\* A destroyElement that waits for readers ends when they are gone: none can join
\* them, and the last one wakes it, whoever waits for another key or is woken for
\* nothing.  While one of them never releases what it opened it waits for ever.
DestroyTerminates == \A t \in Threads : Destroying(t) /\ readers[key[t]] = 0 ~> pc[t] = "idle"

\* The last reader out always leaves a wake-up for the destroyer: with no
\* reader left, the destroyer is never still asleep on cond_zeroReaders.
NoLostZeroReaders ==
  \A t \in Threads : pc[t] = "waitZero" => readers[key[t]] > 0

(***************************************************************************)
(* The map keeps the promise of ItemLease: an item may be opened while a   *)
(* key leads to it, closing while a destroyer has it, and its holders are  *)
(* the threads that are reading it.                                        *)
(***************************************************************************)
OpenItems == {rdElement[k] : k \in present} \ {NoItem}
Holders == [i \in Items |-> {t \in Threads : pc[t] = "reading" /\ ref[t] = i}]

Lease == INSTANCE ItemLease WITH
  open <- OpenItems, closing <- allocated \ OpenItems, holders <- Holders

ImplementsLease == Lease!Spec
=============================================================================
