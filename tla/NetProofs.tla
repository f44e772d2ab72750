------------------------------- MODULE NetProofs -------------------------------
(***************************************************************************)
(* Of the network: the lists of pre-shared keys, the queries of a database *)
(* connector, the data that cross a chain of sockets, each for any number  *)
(* of actors, and the descriptors of a socket object.                      *)
(***************************************************************************)
EXTENDS Sockets, Tls, Chain, Database, WellFoundedInduction, SequenceTheorems, FiniteSetTheorems, TLAPS

(***************************************************************************)
(* Pre-shared keys.  NoKeysOfTheDead is not inductive: that the entry a    *)
(* destructor clears is every entry of its session needs that a session is *)
(* listed only under the handle it has, only after it was linked, and no   *)
(* longer in the list that was cleared first.                              *)
(***************************************************************************)
Listable(session, side, h) ==
    /\ session.linked /\ session.handle = h
    /\ session.at \notin {"new", "linking", "gone"}
    /\ session.at = "erased one" => side = "client"
ListsAreOfTheLinked == \A side \in Sides, h \in Handles : \A n \in wallets[side][h] : Listable(tls[n], side, h)
\* A session that is linked or shakes hands has its handle.
GoodSession == {s \in SessionType : s.at \in {"linking", "keys", "shaking hands"} => s.handle # NoHandle}
GoodType == tls \in [Sessions -> GoodSession] /\ wallets \in [Sides -> [Handles -> SUBSET Sessions]]
TlsIInv == GoodType /\ ListsAreOfTheLinked

LEMMA ConfigurationFacts ==
    \A c \in Configurations : c.side \in Sides /\ c.psk \in BOOLEAN /\ c.validation \in Validations
BY DEF Configurations, Sides, Validations

LEMMA TlsInitIInv == TInit => TlsIInv
<1> SUFFICES ASSUME TInit PROVE TlsIInv
  OBVIOUS
<1>1. \A c \in Settings : NewSession(c) \in GoodSession
  BY ConfigurationFacts, SettingsAssumption DEF GoodSession, NewSession, SessionType, Places, Validations
<1>2. tls \in [Sessions -> GoodSession]
  BY <1>1 DEF TInit
<1>3. wallets \in [Sides -> [Handles -> SUBSET Sessions]]
  BY DEF TInit
<1>4. ListsAreOfTheLinked
  BY DEF TInit, ListsAreOfTheLinked
<1>5. QED
  BY <1>2, <1>3, <1>4 DEF TlsIInv, GoodType

\* A session's own step that leaves the lists alone, and what lists need of it.
LEMMA QuietStep ==
    ASSUME TlsIInv, NEW n \in Sessions, NEW session \in GoodSession, Becomes(n, session), UNCHANGED wallets,
           \A side \in Sides, h \in Handles : Listable(tls[n], side, h) => Listable(session, side, h)
    PROVE  TlsIInv'
<1>1. tls \in [Sessions -> GoodSession] /\ wallets \in [Sides -> [Handles -> SUBSET Sessions]]
  BY DEF TlsIInv, GoodType
<1>2. tls' = [tls EXCEPT ![n] = session] /\ wallets' = wallets
  BY DEF Becomes
<1>3. tls' \in [Sessions -> GoodSession]
  BY <1>1, <1>2
<1>4. ASSUME NEW side \in Sides, NEW h \in Handles, NEW m \in wallets'[side][h]
      PROVE  Listable(tls'[m], side, h)
  <2>1. m \in wallets[side][h] /\ m \in Sessions
    BY <1>1, <1>2, <1>4
  <2>2. Listable(tls[m], side, h)
    BY <2>1 DEF TlsIInv, ListsAreOfTheLinked
  <2>3. tls'[m] = IF m = n THEN session ELSE tls[m]
    BY <1>1, <1>2, <2>1
  <2>4. QED
    BY <2>2, <2>3
<1>5. ListsAreOfTheLinked'
  BY <1>4 DEF ListsAreOfTheLinked
<1>6. QED
  BY <1>1, <1>2, <1>3, <1>5 DEF TlsIInv, GoodType

\* What the record of a session is made of, for the steps below.
LEMMA SessionFacts ==
    ASSUME GoodType, NEW n \in Sessions
    PROVE  /\ tls[n] \in GoodSession
           /\ tls[n].set.side \in Sides /\ tls[n].set.psk \in BOOLEAN
           /\ tls[n].handle \in Handles \cup {NoHandle}
<1>1. tls[n] \in GoodSession
  BY DEF GoodType
<1>2. tls[n].set \in Configurations /\ tls[n].handle \in Handles \cup {NoHandle}
  BY <1>1 DEF GoodSession, SessionType
<1>3. QED
  BY <1>1, <1>2, ConfigurationFacts

\* Making a session and linking it: before that it is in no list.
LEMMA Creating == ASSUME TlsIInv, NEW n \in Sessions, createTLSContext(n) PROVE TlsIInv'
<1>1. PICK h \in FreeHandles : Becomes(n, [tls[n] EXCEPT !.at = "linking", !.handle = h])
  BY DEF createTLSContext
<1>2. h \in Handles /\ tls[n].at = "new" /\ UNCHANGED wallets
  BY <1>1 DEF createTLSContext, FreeHandles, At
<1>3. tls[n] \in GoodSession
  BY SessionFacts DEF TlsIInv
<1>4. [tls[n] EXCEPT !.at = "linking", !.handle = h] \in GoodSession
  BY <1>2, <1>3, TlsAssumption DEF GoodSession, SessionType, Places
<1>5. \A side \in Sides, k \in Handles : ~Listable(tls[n], side, k)
  BY <1>2 DEF Listable
<1>6. QED
  BY <1>1, <1>2, <1>4, <1>5, QuietStep

LEMMA Linking == ASSUME TlsIInv, NEW n \in Sessions, setSSLHandler(n) PROVE TlsIInv'
<1> DEFINE side == tls[n].set.side
           h == tls[n].handle
           after == [tls[n] EXCEPT !.at = "keys", !.linked = side = "client" \/ tls[n].set.psk]
<1>1. tls[n].at = "linking" /\ tls' = [tls EXCEPT ![n] = after]
  BY DEF setSSLHandler, At, Becomes
<1>2. wallets' = IF tls[n].set.psk /\ wallets[side][h] = {} THEN [wallets EXCEPT ![side][h] = {n}] ELSE wallets
  BY DEF setSSLHandler
<1>3. /\ tls[n] \in GoodSession /\ tls[n].set.psk \in BOOLEAN
      /\ wallets \in [Sides -> [Handles -> SUBSET Sessions]] /\ tls \in [Sessions -> GoodSession]
  BY SessionFacts DEF TlsIInv, GoodType
<1>4. after \in GoodSession
  BY <1>1, <1>3 DEF GoodSession, SessionType, Places
<1>5. after.at = "keys" /\ after.handle = h /\ (tls[n].set.psk => after.linked)
  BY <1>3 DEF GoodSession, SessionType
<1> HIDE DEF after
<1>6. tls' \in [Sessions -> GoodSession]
  BY <1>1, <1>3, <1>4
<1>7. wallets' \in [Sides -> [Handles -> SUBSET Sessions]]
  BY <1>2, <1>3
<1>8. ASSUME NEW s \in Sides, NEW k \in Handles, NEW m \in wallets'[s][k]
      PROVE  Listable(tls'[m], s, k)
  <2>1. m \in wallets[s][k] \/ (m = n /\ k = h /\ tls[n].set.psk)
    BY <1>2, <1>3, <1>8
  <2>2. CASE m \in wallets[s][k]
    <3>1. Listable(tls[m], s, k) /\ m \in Sessions
      BY <1>3, <2>2 DEF TlsIInv, ListsAreOfTheLinked
    <3>2. m # n
      BY <1>1, <3>1 DEF Listable
    <3>3. QED
      BY <1>1, <1>3, <3>1, <3>2
  <2>3. CASE m = n /\ k = h /\ tls[n].set.psk
    <3>1. tls'[m] = after
      BY <1>1, <1>3, <2>3
    <3>2. QED
      BY <1>5, <2>3, <3>1 DEF Listable
  <2>4. QED
    BY <2>1, <2>2, <2>3
<1>9. ListsAreOfTheLinked'
  BY <1>8 DEF ListsAreOfTheLinked
<1>10. QED
  BY <1>6, <1>7, <1>9 DEF TlsIInv, GoodType

\* An entry is cleared with the step that could make it one of a session that is gone.
LEMMA Clearing ==
    ASSUME TlsIInv, NEW n \in Sessions, NEW cleared \in Sides, NEW place \in {"erased one", "gone"},
           Becomes(n, [tls[n] EXCEPT !.at = place]), Erased(n, cleared),
           \A side \in Sides \ {cleared}, h \in Handles : Listable(tls[n], side, h) =>
               place # "gone" /\ (place = "erased one" => side = "client")
    PROVE  TlsIInv'
<1> DEFINE after == [tls[n] EXCEPT !.at = place]
<1>1. /\ tls[n] \in GoodSession
      /\ wallets \in [Sides -> [Handles -> SUBSET Sessions]] /\ tls \in [Sessions -> GoodSession]
  BY SessionFacts DEF TlsIInv, GoodType
<1>2. tls' = [tls EXCEPT ![n] = after]
  BY DEF Becomes
<1>3. wallets' = IF tls[n].linked THEN [wallets EXCEPT ![cleared][tls[n].handle] = {}] ELSE wallets
  BY DEF Erased
<1>4. after \in GoodSession
  BY <1>1 DEF GoodSession, SessionType, Places
<1>5. after.at = place /\ after.handle = tls[n].handle /\ after.linked = tls[n].linked
  BY <1>1 DEF GoodSession, SessionType
<1> HIDE DEF after
<1>6. tls' \in [Sessions -> GoodSession]
  BY <1>1, <1>2, <1>4
<1>7. wallets' \in [Sides -> [Handles -> SUBSET Sessions]]
  BY <1>1, <1>3
<1>8. ASSUME NEW s \in Sides, NEW k \in Handles, NEW m \in wallets'[s][k]
      PROVE  Listable(tls'[m], s, k)
  <2>1. m \in wallets[s][k] /\ (tls[n].linked => s # cleared \/ k # tls[n].handle)
    BY <1>1, <1>3, <1>8
  <2>2. Listable(tls[m], s, k) /\ m \in Sessions
    BY <1>1, <2>1 DEF TlsIInv, ListsAreOfTheLinked
  <2>3. CASE m # n
    BY <1>1, <1>2, <2>2, <2>3
  <2>4. CASE m = n
    <3>1. tls'[m] = after
      BY <1>1, <1>2, <2>4
    <3>2. s # cleared
      BY <2>1, <2>2, <2>4 DEF Listable
    <3>3. place # "gone" /\ (place = "erased one" => s = "client")
      BY <2>2, <2>4, <3>2
    <3>4. after.linked /\ after.handle = k /\ after.at \notin {"new", "linking"}
      BY <1>5, <2>2, <2>4 DEF Listable
    <3>5. QED
      BY <1>5, <3>1, <3>3, <3>4 DEF Listable
  <2>5. QED
    BY <2>3, <2>4
<1>9. ListsAreOfTheLinked'
  BY <1>8 DEF ListsAreOfTheLinked
<1>10. QED
  BY <1>6, <1>7, <1>9 DEF TlsIInv, GoodType

LEMMA Erasing == ASSUME TlsIInv, NEW n \in Sessions, ErasesServer(n) \/ ErasesClient(n) PROVE TlsIInv'
<1>1. CASE ErasesServer(n)
  <2>1. Becomes(n, [tls[n] EXCEPT !.at = "erased one"]) /\ Erased(n, "server")
    BY <1>1 DEF ErasesServer
  <2>2. QED
    BY <2>1, Clearing DEF Sides, Places
<1>2. CASE ErasesClient(n)
  <2>1. Becomes(n, [tls[n] EXCEPT !.at = "gone"]) /\ Erased(n, "client") /\ tls[n].at = "erased one"
    BY <1>2 DEF ErasesClient, At
  <2>2. \A side \in Sides \ {"client"}, h \in Handles : ~Listable(tls[n], side, h)
    BY <2>1 DEF Listable
  <2>3. QED
    BY <2>1, <2>2, Clearing DEF Sides, Places
<1>3. QED
  BY <1>1, <1>2

\* The rest of a session's life, from its keys to the free of its handle.
LEMMA Living ==
    ASSUME TlsIInv, NEW n \in Sessions,
           \/ ConnectedAgain(n) \/ initTLSKeys(n) \/ Handshake(n) \/ validateTLSConnection(n)
           \/ iPartialRead(n) \/ iPartialWrite(n) \/ tlsShutdown(n) \/ FreesHandle(n)
    PROVE  TlsIInv'
<1>1. tls[n] \in GoodSession /\ wallets \in [Sides -> [Handles -> SUBSET Sessions]] /\ tls[n].set.side \in Sides
      /\ tls[n].handle \in Handles \cup {NoHandle}
  BY SessionFacts DEF TlsIInv, GoodType
<1> SUFFICES \E after \in GoodSession :
               /\ Becomes(n, after) /\ UNCHANGED wallets
               /\ \A side \in Sides, h \in Handles : Listable(tls[n], side, h) => Listable(after, side, h)
  BY QuietStep
<1>2. CASE ConnectedAgain(n)
  <2>1. [tls[n] EXCEPT !.at = "failed"] \in GoodSession
    BY <1>1 DEF GoodSession, SessionType, Places
  <2>2. QED
    BY <1>1, <1>2, <2>1 DEF GoodSession, ConnectedAgain, Listable, SessionType
<1>3. CASE initTLSKeys(n)
  <2> DEFINE after == IF tls[n].set.keys = "half" THEN [tls[n] EXCEPT !.at = "failed"]
                      ELSE IF tls[n].set.authority THEN [tls[n] EXCEPT !.at = "shaking hands", !.verifies = TRUE]
                      ELSE [tls[n] EXCEPT !.at = "shaking hands", !.validation = "no"]
  <2>1. after \in GoodSession
    BY <1>1, <1>3 DEF initTLSKeys, At, GoodSession, SessionType, Places, Validations
  <2>2. after.linked = tls[n].linked /\ after.handle = tls[n].handle /\ after.at \in {"failed", "shaking hands"}
    BY <1>1 DEF GoodSession, SessionType
  <2>3. Becomes(n, after) /\ UNCHANGED wallets
    BY <1>3 DEF initTLSKeys
  <2> HIDE DEF after
  <2>4. \A side \in Sides, h \in Handles : Listable(tls[n], side, h) => Listable(after, side, h)
    BY <2>2 DEF Listable
  <2>5. QED
    BY <2>1, <2>3, <2>4
<1>4. CASE Handshake(n)
  <2> DEFINE found == wallets[tls[n].set.side][tls[n].handle]
  <2>1. PICK after \in IF tls[n].set.psk THEN PskHandshake(n) ELSE CertHandshake(n) : Becomes(n, after)
    BY <1>4 DEF Handshake
  <2>2. UNCHANGED wallets
    BY <1>4 DEF Handshake
  <2>3. found \subseteq Sessions /\ tls[n].at = "shaking hands"
    BY <1>1, <1>4 DEF Handshake, At, GoodSession
  <2>4. CASE tls[n].set.psk
    <3>1. \/ \E place \in {"failed", "crashed"} : after = [tls[n] EXCEPT !.at = place]
          \/ \E place \in {"failed", "validating"} : after = [tls[n] EXCEPT !.at = place, !.told = found, !.peer = "key"]
      BY <2>1, <2>4 DEF PskHandshake
    <3>2. CASE \E place \in {"failed", "crashed"} : after = [tls[n] EXCEPT !.at = place]
      <4>1. after \in GoodSession
        BY <1>1, <3>2 DEF GoodSession, SessionType, Places
      <4>2. after.linked = tls[n].linked /\ after.handle = tls[n].handle /\ after.at \in {"failed", "crashed"}
        BY <1>1, <3>2 DEF GoodSession, SessionType
      <4>3. QED
        BY <2>1, <2>2, <4>1, <4>2 DEF Listable
    <3>3. CASE \E place \in {"failed", "validating"} :
                    after = [tls[n] EXCEPT !.at = place, !.told = found, !.peer = "key"]
      <4>1. after \in GoodSession
        BY <1>1, <2>3, <3>3 DEF GoodSession, SessionType, Places
      <4>2. after.linked = tls[n].linked /\ after.handle = tls[n].handle /\ after.at \in {"failed", "validating"}
        BY <1>1, <3>3 DEF GoodSession, SessionType
      <4>3. QED
        BY <2>1, <2>2, <4>1, <4>2 DEF Listable
    <3>4. QED
      BY <3>1, <3>2, <3>3
  <2>5. CASE ~tls[n].set.psk
    <3>1. PICK cert \in {"good", "bad", "missing"}, place \in {"failed", "validating"} :
              after = [tls[n] EXCEPT !.peer = cert, !.at = place]
      BY <2>1, <2>5 DEF CertHandshake
    <3>2. after \in GoodSession
      BY <1>1, <3>1 DEF GoodSession, SessionType, Places
    <3>3. after.linked = tls[n].linked /\ after.handle = tls[n].handle /\ after.at \in {"failed", "validating"}
      BY <1>1, <3>1 DEF GoodSession, SessionType
    <3>4. QED
      BY <2>1, <2>2, <3>2, <3>3 DEF Listable
  <2>6. QED
    BY <2>4, <2>5
<1>5. CASE validateTLSConnection(n)
  <2>1. PICK place \in {"up", "failed"} : Becomes(n, [tls[n] EXCEPT !.at = place])
    BY <1>5 DEF validateTLSConnection
  <2>2. [tls[n] EXCEPT !.at = place] \in GoodSession
    BY <1>1 DEF GoodSession, SessionType, Places
  <2>3. QED
    BY <1>1, <1>5, <2>1, <2>2 DEF GoodSession, validateTLSConnection, Listable, SessionType
<1>6. CASE iPartialRead(n) \/ iPartialWrite(n) \/ tlsShutdown(n)
  <2>1. PICK b \in BOOLEAN, c \in BOOLEAN : Becomes(n, [tls[n] EXCEPT !.shut = b, !.notified = c])
    BY <1>1, <1>6 DEF GoodSession, iPartialRead, iPartialWrite, Transfer, tlsShutdown, SessionType
  <2>2. [tls[n] EXCEPT !.shut = b, !.notified = c] \in GoodSession
    BY <1>1 DEF GoodSession, SessionType
  <2>3. UNCHANGED wallets
    BY <1>6 DEF iPartialRead, iPartialWrite, Transfer, tlsShutdown
  <2>4. \A side \in Sides, h \in Handles :
            Listable(tls[n], side, h) => Listable([tls[n] EXCEPT !.shut = b, !.notified = c], side, h)
    BY <1>1 DEF Listable, GoodSession, SessionType
  <2>5. QED
    BY <2>1, <2>2, <2>3, <2>4
<1>7. CASE FreesHandle(n)
  <2>1. [tls[n] EXCEPT !.at = "freed"] \in GoodSession
    BY <1>1 DEF GoodSession, SessionType, Places
  <2>2. QED
    BY <1>1, <1>7, <2>1 DEF GoodSession, FreesHandle, Listable, SessionType
<1>8. QED
  BY <1>2, <1>3, <1>4, <1>5, <1>6, <1>7

LEMMA TlsStepIInv == TlsIInv /\ [TNext]_tvars => TlsIInv'
<1> SUFFICES ASSUME TlsIInv, [TNext]_tvars PROVE TlsIInv'
  OBVIOUS
<1>1. CASE TNext
  BY <1>1, Creating, Linking, Erasing, Living DEF TNext
<1>2. CASE UNCHANGED tvars
  BY <1>2 DEF tvars, TlsIInv, GoodType, ListsAreOfTheLinked
<1>3. QED
  BY <1>1, <1>2

LEMMA TlsInvariance == TlsSpec => []TlsIInv
BY TlsInitIInv, TlsStepIInv, PTL DEF TlsSpec

\* The sessions and the lists keep their types.
THEOREM TlsTypeCorrect == TlsSpec => []TlsTypeOK
<1>1. TlsIInv => TlsTypeOK
  BY DEF TlsIInv, GoodType, GoodSession, TlsTypeOK
<1>2. QED
  BY <1>1, TlsInvariance, PTL

\* OpenSSL's callbacks find values of sessions that exist, however many sessions
\* are made and destroyed at a time and whichever addresses are given again.
THEOREM KeysAreOfTheLiving == TlsSpec => []NoKeysOfTheDead
<1>1. TlsIInv => NoKeysOfTheDead
  BY DEF TlsIInv, ListsAreOfTheLinked, Listable, NoKeysOfTheDead
<1>2. QED
  BY <1>1, TlsInvariance, PTL

(***************************************************************************)
(* The connector outlives its queries, and what a query reports was done.  *)
(*                                                                         *)
(* The first needs that the set names exactly the queries that are         *)
(* attached, and that nothing new attaches once the connector waits.  The  *)
(* second needs the lock: one query at a time has it, so the statement and *)
(* the reconnection are those of one query, and each of its executions but *)
(* the last was paid with a lost connection, or with an end that a select  *)
(* of SQLite had reached.                                                  *)
(***************************************************************************)
DbPlaces == {"idle", "created", "locking", "ready", "reconnecting", "executed", "closing", "detached"}
Codes == {"QUERY_UNINITIALIZED", "QUERY_SQLCONNECTORFINISHED", "QUERY_READY_OK", "QUERY_UNABLETOADQUIRELOCK",
          "QUERY_RESULTS_OK", "QUERY_RESULTS_FAILED"}
Cursors == {"none", "row", "end", "again"}
DbTypes ==
  /\ connector \in {"alive", "closed", "waiting", "woken", "gone"}
  /\ querySet \in SUBSET DbThreads
  /\ dbStep \in [DbThreads -> DbPlaces]
  /\ error \in [DbThreads -> Codes]
  /\ done \in [DbThreads -> Nat]
  /\ cursor \in [DbThreads -> Cursors]
  /\ inserting \in [DbThreads -> BOOLEAN]
  /\ losses \in Nat

SetIsOfTheAttached ==
  /\ \A t \in DbThreads : t \in querySet <=> dbStep[t] \in Attached
  /\ connector \in {"woken", "gone"} => querySet = {}
  /\ connector = "gone" => \A t \in DbThreads : dbStep[t] # "created"

HasLock == {"ready", "reconnecting", "executed", "detached"}
LockIsHeld == \A t \in DbThreads : dbStep[t] \in HasLock => mtDatabaseLock = t

Prepared == stmt = TRUE

\* Of a query with these values: its executions, if it is being executed and once it was.
Bounded(place, n, c, some) ==
  /\ c # "again" => n <= some + 1
  /\ place \in {"created", "locking", "ready", "reconnecting"} => n <= some /\ c = "none"
Reported(code, n, c, some, lazy, prepared) ==
  \/ /\ code = "QUERY_RESULTS_OK" /\ prepared
     /\ IF lazy THEN (c = "none" => n <= some) /\ (c = "row" => n >= 1) ELSE n >= 1 /\ c = "none"
  \/ code = "QUERY_RESULTS_FAILED" /\ c = "none" /\ (n <= some \/ prepared)

\* Every execution that is not reported yet was paid with a lost connection.
ExecutionsArePaid ==
  \A t \in DbThreads :
    /\ Bounded(dbStep[t], done[t], cursor[t], losses)
    /\ dbStep[t] = "executed" => Reported(error[t], done[t], cursor[t], losses, Lazy(t), Prepared)

HasStatement == stmt \in BOOLEAN
DbIInv == DbTypes /\ SetIsOfTheAttached /\ LockIsHeld /\ ExecutionsArePaid

LEMMA DbInitIInv == DbInit => DbIInv
BY DEF DbInit, DbIInv, DbTypes, SetIsOfTheAttached, LockIsHeld, HasLock, ExecutionsArePaid, Bounded, DbPlaces, Codes, Cursors, Attached

\* A thread's step: what it changes is its own, and stmt is the lock's.
OwnStep(t, place, code, n, c) ==
  /\ dbStep' = [dbStep EXCEPT ![t] = place]
  /\ error' = [error EXCEPT ![t] = code]
  /\ done' = [done EXCEPT ![t] = n]
  /\ cursor' = [cursor EXCEPT ![t] = c]
  /\ driver' = driver /\ inserting' \in [DbThreads -> BOOLEAN]
  /\ \A u \in DbThreads : u # t => inserting'[u] = inserting[u]
  /\ losses' \in Nat /\ losses' >= losses
  /\ connector' = connector \/ (connector' = "woken" /\ querySet' = {})
  /\ querySet' = IF place \in Attached THEN querySet \cup {t} ELSE querySet \ {t}
  /\ connector \in {"woken", "gone"} => place \notin Attached /\ (connector = "gone" => place # "created")
  /\ mtDatabaseLock' = mtDatabaseLock \/ \A u \in DbThreads : u # t => dbStep[u] \notin HasLock
  /\ place \in HasLock => mtDatabaseLock' = t
  /\ (Prepared => Prepared') \/ \A u \in DbThreads : u # t => dbStep[u] # "executed"
  /\ Bounded(place, n, c, losses')
  /\ place = "executed" => Reported(code, n, c, losses', Lazy(t)', Prepared')

LEMMA OwnStepKeeps ==
  ASSUME DbIInv, NEW t \in DbThreads, NEW place \in DbPlaces, NEW code \in Codes, NEW n \in Nat, NEW c \in Cursors,
         OwnStep(t, place, code, n, c)
  PROVE  DbIInv'
<1> USE DEF OwnStep
<1>1. DbTypes'
  <2>1. querySet' \in SUBSET DbThreads
    BY DEF DbIInv, DbTypes
  <2>2. QED
    BY <2>1 DEF DbIInv, DbTypes
<1>2. \A u \in DbThreads : /\ dbStep'[u] = IF u = t THEN place ELSE dbStep[u]
                           /\ error'[u] = IF u = t THEN code ELSE error[u]
                           /\ done'[u] = IF u = t THEN n ELSE done[u]
                           /\ cursor'[u] = IF u = t THEN c ELSE cursor[u]
  BY DEF DbIInv, DbTypes
<1>3. SetIsOfTheAttached'
  BY <1>2 DEF DbIInv, DbTypes, SetIsOfTheAttached
<1>4. LockIsHeld'
  BY <1>2 DEF DbIInv, LockIsHeld
<1>5. ExecutionsArePaid'
  <2> SUFFICES ASSUME NEW u \in DbThreads
               PROVE  /\ Bounded(dbStep'[u], done'[u], cursor'[u], losses')
                      /\ dbStep'[u] = "executed" =>
                           Reported(error'[u], done'[u], cursor'[u], losses', Lazy(u)', Prepared')
    BY Zenon DEF ExecutionsArePaid
  <2>1. CASE u = t
    BY <1>2, <2>1
  <2>2. CASE u # t
    <3>1. done[u] \in Nat /\ losses \in Nat /\ losses' \in Nat /\ losses' >= losses
      BY DEF DbIInv, DbTypes
    <3>2. dbStep'[u] = dbStep[u] /\ error'[u] = error[u] /\ done'[u] = done[u] /\ cursor'[u] = cursor[u]
      BY <1>2, <2>2
    <3>3. (dbStep[u] = "executed" /\ Prepared => Prepared') /\ (Lazy(u)' <=> Lazy(u))
      BY <2>2 DEF HasLock, Lazy
    <3>4. QED
      BY <3>1, <3>2, <3>3 DEF DbIInv, ExecutionsArePaid, Bounded, Reported
  <2>3. QED
    BY <2>1, <2>2
<1>6. QED
  BY <1>1, <1>3, <1>4, <1>5 DEF DbIInv

\* Who has the lock is alone with the statement.
LEMMA DbAlone ==
  ASSUME DbIInv, NEW t \in DbThreads, mtDatabaseLock \in {t, NoDbThread}
  PROVE  \A u \in DbThreads : u # t => dbStep[u] \notin HasLock
BY DatabaseAssumption DEF DbIInv, LockIsHeld

LEMMA ThreadFacts ==
  ASSUME DbIInv, NEW t \in DbThreads
  PROVE  /\ dbStep[t] \in DbPlaces /\ error[t] \in Codes /\ done[t] \in Nat /\ losses \in Nat
         /\ dbStep = [dbStep EXCEPT ![t] = dbStep[t]] /\ error = [error EXCEPT ![t] = error[t]]
         /\ done = [done EXCEPT ![t] = done[t]] /\ cursor = [cursor EXCEPT ![t] = cursor[t]] /\ cursor[t] \in Cursors
         /\ inserting \in [DbThreads -> BOOLEAN]
         /\ Bounded(dbStep[t], done[t], cursor[t], losses)
         /\ dbStep[t] \in Attached => querySet = querySet \cup {t} /\ connector \notin {"woken", "gone"}
         /\ dbStep[t] \notin Attached => querySet = querySet \ {t}
         /\ dbStep[t] \in HasLock => mtDatabaseLock = t
         /\ dbStep[t] = "executed" => Reported(error[t], done[t], cursor[t], losses, Lazy(t), Prepared)
BY DEF DbIInv, DbTypes, SetIsOfTheAttached, ExecutionsArePaid, LockIsHeld

LEMMA EnterSteps ==
  ASSUME DbIInv, driver' = driver, NEW t \in DbThreads,
         \/ \E insert \in BOOLEAN : CreateQuery(t, insert)
         \/ AttachQuery(t) \/ AcquireLock(t) \/ LockTimesOut(t)
  PROVE  DbIInv'
<1> USE DEF GoesTo, Ends, DbPlaces, Codes, Cursors, Bounded, Attached, HasLock
<1>0. Prepared' <=> Prepared
  BY DEF CreateQuery, AttachQuery, AcquireLock, LockTimesOut, Prepared
<1>1. CASE \E insert \in BOOLEAN : CreateQuery(t, insert)
  <2>1. OwnStep(t, "created", "QUERY_UNINITIALIZED", 0, "none")
    BY <1>0, <1>1, ThreadFacts DEF CreateQuery, OwnStep
  <2>2. QED
    BY <2>1, OwnStepKeeps, ThreadFacts
<1>2. CASE AttachQuery(t)
  <2>1. OwnStep(t, "locking", error[t], done[t], cursor[t]) \/ OwnStep(t, "idle", "QUERY_SQLCONNECTORFINISHED", done[t], cursor[t])
    BY <1>0, <1>2, ThreadFacts DEF AttachQuery, OwnStep
  <2>2. CASE OwnStep(t, "locking", error[t], done[t], cursor[t])
    BY <2>2, OwnStepKeeps, ThreadFacts
  <2>3. CASE OwnStep(t, "idle", "QUERY_SQLCONNECTORFINISHED", done[t], cursor[t])
    BY <2>3, OwnStepKeeps, ThreadFacts
  <2>4. QED
    BY <2>1, <2>2, <2>3
<1>3. CASE AcquireLock(t)
  <2>1. OwnStep(t, "ready", "QUERY_READY_OK", done[t], cursor[t])
    BY <1>0, <1>3, DbAlone, ThreadFacts DEF AcquireLock, OwnStep
  <2>2. QED
    BY <2>1, OwnStepKeeps, ThreadFacts
<1>4. CASE LockTimesOut(t)
  <2>1. OwnStep(t, "closing", "QUERY_UNABLETOADQUIRELOCK", done[t], cursor[t])
    BY <1>0, <1>4, ThreadFacts DEF LockTimesOut, OwnStep
  <2>2. QED
    BY <2>1, OwnStepKeeps, ThreadFacts
<1>5. QED
  BY <1>1, <1>2, <1>3, <1>4

\* The queries that have the lock: each outcome of an execution.
LEMMA ExecSteps ==
  ASSUME DbIInv, HasStatement, driver' = driver, NEW t \in DbThreads,
         \/ ExecSucceeds(t) \/ ExecFails(t) \/ ExecFailsAfterwards(t) \/ ExecLosesConnection(t)
         \/ Reconnects(t) \/ ReconnectFails(t) \/ ExecAgain(t) \/ StepSelect(t)
  PROVE  DbIInv'
<1> USE DEF GoesTo, Ends, Executed, Counted, DbPlaces, Codes, Cursors, Bounded, Attached, HasLock
<1>1. /\ dbStep[t] \in {"ready", "reconnecting", "executed"} /\ mtDatabaseLock = t
      /\ \A u \in DbThreads : u # t => dbStep[u] \notin HasLock
  <2>1. dbStep[t] \in {"ready", "reconnecting", "executed"}
    BY DEF ExecSucceeds, ExecFails, ExecFailsAfterwards, ExecLosesConnection, Reconnects, ReconnectFails, ExecAgain, StepSelect
  <2>2. mtDatabaseLock = t
    BY <2>1, ThreadFacts
  <2>3. QED
    BY <2>1, <2>2, DbAlone
<1>2. CASE ExecSucceeds(t)
  <2>1. /\ dbStep[t] = "ready" /\ losses' = losses /\ cursor' = cursor /\ inserting' = inserting
        /\ dbStep' = [dbStep EXCEPT ![t] = "executed"] /\ error' = [error EXCEPT ![t] = "QUERY_RESULTS_OK"]
        /\ Prepared' /\ UNCHANGED <<connector, querySet, mtDatabaseLock>>
    BY <1>2 DEF ExecSucceeds, Prepared
  <2>2. cursor[t] = "none" /\ done[t] <= losses /\ done[t] \in Nat /\ losses \in Nat /\ (Lazy(t)' <=> Lazy(t))
    BY <2>1, ThreadFacts DEF Lazy
  <2>3. CASE Lazy(t)
    <3>1. OwnStep(t, "executed", "QUERY_RESULTS_OK", done[t], cursor[t])
      BY <1>1, <1>2, <2>1, <2>2, <2>3, ThreadFacts DEF ExecSucceeds, OwnStep, Reported
    <3>2. QED
      BY <3>1, OwnStepKeeps, ThreadFacts
  <2>4. CASE ~Lazy(t)
    <3>1. done' = [done EXCEPT ![t] = done[t] + 1]
      BY <1>2, <2>4 DEF ExecSucceeds
    <3>2. OwnStep(t, "executed", "QUERY_RESULTS_OK", done[t] + 1, cursor[t])
      BY <1>1, <2>1, <2>2, <2>4, <3>1, ThreadFacts DEF OwnStep, Reported
    <3>3. QED
      BY <3>2, OwnStepKeeps, ThreadFacts
  <2>5. QED
    BY <2>3, <2>4
<1>3. CASE ExecFails(t)
  <2>1. OwnStep(t, "executed", "QUERY_RESULTS_FAILED", done[t], cursor[t])
    BY <1>1, <1>3, ThreadFacts DEF ExecFails, OwnStep, Reported
  <2>2. QED
    BY <2>1, OwnStepKeeps, ThreadFacts
<1>4. CASE ExecLosesConnection(t)
  <2>1. dbStep[t] = "ready" /\ losses' \in Nat /\ losses' >= losses /\ dbStep' = [dbStep EXCEPT ![t] = "reconnecting"]
    BY <1>4, ThreadFacts DEF ExecLosesConnection
  <2>2. done' = done \/ (losses' = losses + 1 /\ done' = [done EXCEPT ![t] = done[t] + 1])
    BY <1>4 DEF ExecLosesConnection
  <2>3. CASE done' = done
    <3>1. OwnStep(t, "reconnecting", error[t], done[t], cursor[t])
      BY <1>1, <1>4, <2>1, <2>3, ThreadFacts DEF ExecLosesConnection, OwnStep
    <3>2. QED
      BY <3>1, OwnStepKeeps, ThreadFacts
  <2>4. CASE losses' = losses + 1 /\ done' = [done EXCEPT ![t] = done[t] + 1]
    <3>1. OwnStep(t, "reconnecting", error[t], done[t] + 1, cursor[t])
      BY <1>1, <1>4, <2>1, <2>4, ThreadFacts DEF ExecLosesConnection, OwnStep
    <3>2. QED
      BY <3>1, OwnStepKeeps, ThreadFacts
  <2>5. QED
    BY <2>2, <2>3, <2>4
<1>5. CASE Reconnects(t)
  <2>1. OwnStep(t, "ready", error[t], done[t], cursor[t])
    BY <1>1, <1>5, ThreadFacts DEF Reconnects, OwnStep
  <2>2. QED
    BY <2>1, OwnStepKeeps, ThreadFacts
<1>6. CASE ReconnectFails(t)
  <2>1. CASE attempt' = MaxReconnectionAttempts
    <3>1. OwnStep(t, "executed", "QUERY_RESULTS_FAILED", done[t], cursor[t])
      BY <1>1, <1>6, <2>1, ThreadFacts DEF ReconnectFails, OwnStep, Reported
    <3>2. QED
      BY <3>1, OwnStepKeeps, ThreadFacts
  <2>2. CASE attempt' # MaxReconnectionAttempts
    <3>1. OwnStep(t, "reconnecting", error[t], done[t], cursor[t])
      BY <1>1, <1>6, <2>2, ThreadFacts DEF ReconnectFails, OwnStep
    <3>2. QED
      BY <3>1, OwnStepKeeps, ThreadFacts
  <2>3. QED
    BY <2>1, <2>2
<1>7. CASE ExecAgain(t)
  <2>1. dbStep[t] = "executed" /\ (~Prepared => done[t] <= losses /\ cursor[t] = "none")
    BY <1>7, ThreadFacts DEF ExecAgain, Reported
  <2>2. \/ dbStep' = [dbStep EXCEPT ![t] = "closing"]
        \/ dbStep' = [dbStep EXCEPT ![t] = "ready"] /\ ~Prepared
    BY <1>7 DEF ExecAgain, Prepared
  <2> UNCHANGED <<connector, querySet, mtDatabaseLock, error, inserting, done, cursor, losses>>
    BY <1>7 DEF ExecAgain
  <2>3. CASE dbStep' = [dbStep EXCEPT ![t] = "closing"]
    <3>1. OwnStep(t, "closing", error[t], done[t], cursor[t])
      BY <1>1, <2>1, <2>3, ThreadFacts DEF OwnStep
    <3>2. QED
      BY <3>1, OwnStepKeeps, ThreadFacts
  <2>4. CASE dbStep' = [dbStep EXCEPT ![t] = "ready"] /\ ~Prepared
    <3>1. OwnStep(t, "ready", error[t], done[t], cursor[t])
      BY <1>1, <2>1, <2>4, ThreadFacts DEF OwnStep
    <3>2. QED
      BY <3>1, OwnStepKeeps, ThreadFacts
  <2>5. QED
    BY <2>2, <2>3, <2>4
<1>8. CASE ExecFailsAfterwards(t)
  <2>0. Prepared'
    BY <1>8 DEF ExecFailsAfterwards, Prepared
  <2>1. OwnStep(t, "executed", "QUERY_RESULTS_FAILED", done[t] + 1, cursor[t])
    BY <1>1, <1>8, <2>0, ThreadFacts DEF ExecFailsAfterwards, OwnStep, Reported
  <2>2. QED
    BY <2>1, OwnStepKeeps, ThreadFacts
<1>9. CASE StepSelect(t)
  <2>1. /\ dbStep[t] = "executed" /\ error[t] = "QUERY_RESULTS_OK" /\ Lazy(t)
        /\ UNCHANGED <<connector, querySet, mtDatabaseLock, dbStep, error, inserting, stmt, losses>>
    BY <1>9 DEF StepSelect
  <2>2. /\ Prepared /\ (cursor[t] = "none" => done[t] <= losses) /\ (cursor[t] = "row" => done[t] >= 1)
        /\ (cursor[t] # "again" => done[t] <= losses + 1) /\ done[t] \in Nat /\ losses \in Nat
    BY <2>1, ThreadFacts DEF Reported
  <2>3. Prepared' /\ (Lazy(t)' <=> Lazy(t))
    BY <2>1, <2>2 DEF Lazy, Prepared
  <2>4. ASSUME NEW c \in {"row", "end"}, cursor[t] = "none", done' = [done EXCEPT ![t] = done[t] + 1],
               cursor' = [cursor EXCEPT ![t] = c]
        PROVE  DbIInv'
    <3>1. OwnStep(t, "executed", error[t], done[t] + 1, c)
      BY <1>1, <2>1, <2>2, <2>3, <2>4, ThreadFacts DEF OwnStep, Reported
    <3>2. QED
      BY <3>1, OwnStepKeeps, ThreadFacts
  <2>5. CASE cursor[t] \in {"none", "row"} /\ done' = done /\ cursor' = [cursor EXCEPT ![t] = "end"]
    <3>1. OwnStep(t, "executed", error[t], done[t], "end")
      BY <1>1, <2>1, <2>2, <2>3, <2>5, ThreadFacts DEF OwnStep, Reported
    <3>2. QED
      BY <3>1, OwnStepKeeps, ThreadFacts
  <2>6. CASE cursor[t] = "end" /\ done' = [done EXCEPT ![t] = done[t] + 1] /\ cursor' = [cursor EXCEPT ![t] = "again"]
    <3>1. OwnStep(t, "executed", error[t], done[t] + 1, "again")
      BY <1>1, <2>1, <2>2, <2>3, <2>6, ThreadFacts DEF OwnStep, Reported
    <3>2. QED
      BY <3>1, OwnStepKeeps, ThreadFacts
  <2>7. QED
    BY <1>9, <2>4, <2>5, <2>6 DEF StepSelect
<1>10. QED
  BY <1>2, <1>3, <1>4, <1>5, <1>6, <1>7, <1>8, <1>9

LEMMA LeaveSteps ==
  ASSUME DbIInv, driver' = driver, NEW t \in DbThreads, CloseStatement(t) \/ DetachQuery(t) \/ Unlock(t)
  PROVE  DbIInv'
<1> USE DEF GoesTo, DbPlaces, Codes, Cursors, Bounded, Attached, HasLock
<1>0. DetachQuery(t) \/ Unlock(t) => (Prepared' <=> Prepared)
  BY DEF DetachQuery, Unlock, Prepared
<1>1. CASE CloseStatement(t)
  <2>1. \A u \in DbThreads : u # t => dbStep[u] \notin HasLock
    BY <1>1, ThreadFacts, DbAlone DEF CloseStatement
  <2>2. OwnStep(t, "closing", error[t], done[t], cursor[t])
    BY <1>1, <2>1, ThreadFacts DEF CloseStatement, OwnStep
  <2>3. QED
    BY <2>2, OwnStepKeeps, ThreadFacts
<1>2. CASE DetachQuery(t)
  <2>1. CASE mtDatabaseLock = t
    <3>1. OwnStep(t, "detached", error[t], done[t], cursor[t])
      BY <1>0, <1>2, <2>1, ThreadFacts DEF DetachQuery, OwnStep
    <3>2. QED
      BY <3>1, OwnStepKeeps, ThreadFacts
  <2>2. CASE mtDatabaseLock # t
    <3>1. OwnStep(t, "idle", error[t], done[t], cursor[t])
      BY <1>0, <1>2, <2>2, ThreadFacts DEF DetachQuery, OwnStep
    <3>2. QED
      BY <3>1, OwnStepKeeps, ThreadFacts
  <2>3. QED
    BY <2>1, <2>2
<1>3. CASE Unlock(t)
  <2>1. \A u \in DbThreads : u # t => dbStep[u] \notin HasLock
    BY <1>3, ThreadFacts, DbAlone DEF Unlock
  <2>2. OwnStep(t, "idle", error[t], done[t], cursor[t])
    BY <1>0, <1>3, <2>1, ThreadFacts DEF Unlock, OwnStep
  <2>3. QED
    BY <2>2, OwnStepKeeps, ThreadFacts
<1>4. QED
  BY <1>1, <1>2, <1>3

\* The steps of no query: a connection is lost, the connector is destroyed.
LEMMA ConnectorSteps ==
  ASSUME DbIInv, driver' = driver, ConnectionDrops \/ CloseHandle \/ DestroysConnector
  PROVE  DbIInv'
<1>1. UNCHANGED <<querySet, mtDatabaseLock, dbStep, error, inserting, done, cursor, stmt>>
  BY DEF ConnectionDrops, CloseHandle, DestroysConnector
<1>2. losses' \in Nat /\ losses' >= losses /\ losses \in Nat
  BY DEF ConnectionDrops, CloseHandle, DestroysConnector, DbIInv, DbTypes
<1>3. DbTypes'
  BY <1>1, <1>2 DEF ConnectionDrops, CloseHandle, DestroysConnector, DbIInv, DbTypes
<1>4. SetIsOfTheAttached'
  BY <1>1 DEF ConnectionDrops, CloseHandle, DestroysConnector, DbIInv, SetIsOfTheAttached
<1>5. LockIsHeld'
  BY <1>1 DEF DbIInv, LockIsHeld
<1>6. ExecutionsArePaid'
  <2>1. \A t \in DbThreads : done[t] \in Nat
    BY DEF DbIInv, DbTypes
  <2>2. QED
    BY <1>1, <1>2, <2>1 DEF DbIInv, ExecutionsArePaid, Prepared, Bounded, Reported, Lazy
<1>7. QED
  BY <1>3, <1>4, <1>5, <1>6 DEF DbIInv

LEMMA DbStepIInv == DbIInv /\ HasStatement /\ [DbNext]_<<driver, dbvars>> => DbIInv'
<1> SUFFICES ASSUME DbIInv, HasStatement, [DbNext]_<<driver, dbvars>> PROVE DbIInv'
  OBVIOUS
<1>1. CASE DbNext
  BY <1>1, EnterSteps, ExecSteps, LeaveSteps, ConnectorSteps DEF DbNext, Steps
<1>2. CASE UNCHANGED <<driver, dbvars>>
  BY <1>2 DEF dbvars, DbIInv, DbTypes, SetIsOfTheAttached, LockIsHeld, ExecutionsArePaid, Prepared, Lazy
<1>3. QED
  BY <1>1, <1>2

LEMMA StepStatement == HasStatement /\ [DbNext]_<<driver, dbvars>> => HasStatement'
<1> SUFFICES ASSUME HasStatement, [DbNext]_<<driver, dbvars>> PROVE stmt' \in BOOLEAN
  BY DEF HasStatement
<1> USE DEF HasStatement
<1>1. ASSUME NEW t \in DbThreads, ExecSucceeds(t) \/ ExecFails(t) \/ ExecFailsAfterwards(t) \/ ExecLosesConnection(t)
      PROVE stmt' \in BOOLEAN
  <2>1. CASE ExecSucceeds(t)
    BY <2>1 DEF ExecSucceeds
  <2>2. CASE ExecFails(t)
    BY <2>2 DEF ExecFails
  <2>3. CASE ExecLosesConnection(t)
    BY <2>3 DEF ExecLosesConnection
  <2>4. CASE ExecFailsAfterwards(t)
    BY <2>4 DEF ExecFailsAfterwards
  <2>5. QED
    BY <1>1, <2>1, <2>2, <2>3, <2>4
<1>2. ASSUME NEW t \in DbThreads, Reconnects(t) \/ ExecAgain(t) \/ CloseStatement(t) PROVE stmt' \in BOOLEAN
  BY <1>2 DEF Reconnects, ExecAgain, CloseStatement
<1>3. ASSUME NEW t \in DbThreads, AttachQuery(t) \/ AcquireLock(t) \/ LockTimesOut(t) \/ ReconnectFails(t)
                                  \/ StepSelect(t) \/ DetachQuery(t) \/ Unlock(t) \/ \E insert \in BOOLEAN : CreateQuery(t, insert)
      PROVE stmt' = stmt
  BY <1>3 DEF AttachQuery, AcquireLock, LockTimesOut, ReconnectFails, StepSelect, DetachQuery, Unlock, CreateQuery
<1>4. CASE ConnectionDrops \/ CloseHandle \/ DestroysConnector
  BY <1>4 DEF ConnectionDrops, CloseHandle, DestroysConnector
<1>5. CASE UNCHANGED <<driver, dbvars>>
  BY <1>5 DEF dbvars
<1>6. QED
  BY <1>1, <1>2, <1>3, <1>4, <1>5 DEF DbNext, Steps

LEMMA DbInvariance == DbSpec => []DbIInv
<1>1. DbInit => HasStatement
  BY DEF DbInit, HasStatement
<1>2. QED
  BY <1>1, DbInitIInv, DbStepIInv, StepStatement, PTL DEF DbSpec

\* The destructor of SQLConnector waits for every query that is in its set.
THEOREM QueriesOutlived == DbSpec => []ConnectorOutlivesQueries
<1>1. DbIInv => ConnectorOutlivesQueries
  BY DEF DbIInv, SetIsOfTheAttached, ConnectorOutlivesQueries
<1>2. QED
  BY <1>1, DbInvariance, PTL

\* Query::exec and reconnect: what is reported as executed was, but for a select of SQLite, of
\* which that is so once a step gave a row; and what is executed twice had a lost connection or is
\* such a select, stepped after its end.
THEOREM ReportsAreTrue == DbSpec => []ReportedIsDone
<1>1. ASSUME DbIInv PROVE ReportedIsDone
  <2>1. losses \in Nat /\ \A t \in DbThreads : done[t] \in Nat
    BY <1>1 DEF DbIInv, DbTypes
  <2>2. QED
    BY <1>1, <2>1 DEF DbIInv, ExecutionsArePaid, Bounded, Reported, Cursors, ReportedIsDone
<1>2. QED
  BY <1>1, DbInvariance, PTL

(***************************************************************************)
(* A chain of sockets, for any number of layers and any room in them.      *)
(* EverythingArrives is not inductive: it needs where each piece of the    *)
(* text is.  "taken" counts, for each level, what was taken out of its     *)
(* channel; a channel then holds what follows in the text, and a thread    *)
(* that holds something holds what comes between its two channels.  The    *)
(* counts are no part of the state: the invariant says that there are      *)
(* such counts.                                                            *)
(***************************************************************************)
Channels == [data : Seq(Said), wshut : BOOLEAN, rshut : BOOLEAN]
Lines == [Levels -> Channels]
Channeled == [down : Lines, up : Lines]
Carriers == [1 .. Layers -> [at : {"none", "reads", "writes", "done"}, holds : Seq(Said)]]
ChTypes ==
  /\ channel \in Channeled
  /\ layers \in 0 .. Layers
  /\ fwd \in Carriers /\ bwd \in Carriers
  /\ app \in [at : {"open", "waits", "gone"}, wrote : Nat, got : Seq(Said), greeted : BOOLEAN]
  /\ remote \in [at : {"open", "ended", "left"}, wrote : Nat, got : Seq(Said)]
  /\ \A i \in 1 .. Layers : /\ fwd[i].at = "writes" => fwd[i].holds # <<>>
                            /\ bwd[i].at = "writes" => bwd[i].holds # <<>>
                            /\ i > layers => fwd[i].at = "none" /\ bwd[i].at = "none"

\* Which level a thread reads, and which it writes; where a direction begins, and where it ends.
Source(dir, i) == IF dir = "fwd" THEN i ELSE i - 1
Target(dir, i) == IF dir = "fwd" THEN i - 1 ELSE i
Begins(dir) == IF dir = "fwd" THEN Layers ELSE 0
Finishes(dir) == IF dir = "fwd" THEN 0 ELSE Layers

\* What is in a channel is what follows in the text after what was taken out of it.
Runs(text, past, data) ==
  /\ past + Len(data) <= Len(text)
  /\ \A n \in 1 .. Len(data) : data[n] = text[past + n]
Passed(line, taken, l) == taken[l] + Len(line[l].data)
Carries(dir, text, line, t, taken, i) ==
  /\ Passed(line, taken, Target(dir, i)) <= taken[Source(dir, i)]
  /\ t[i].at = "writes" => /\ Passed(line, taken, Target(dir, i)) + 1 = taken[Source(dir, i)]
                           /\ t[i].holds[1] = text[taken[Source(dir, i)]]
  /\ t[i].at \in {"none", "reads"} => Passed(line, taken, Target(dir, i)) = taken[Source(dir, i)]
InLine(dir, text, line, t, taken, wrote, heard) ==
  /\ \A l \in Levels : Runs(text, taken[l], line[l].data) /\ Passed(line, taken, l) <= wrote
  /\ \A i \in 1 .. Layers : Carries(dir, text, line, t, taken, i)
  /\ Passed(line, taken, Begins(dir)) = wrote
  /\ Len(heard) = taken[Finishes(dir)] /\ Runs(text, 0, heard)

\* A text of which the channels hold pieces, and threads that carry them.
Texts == Seq(Said)
Counts == [Levels -> Nat]

\* As long as every protocol was greeted and the other side is there, nothing is shut but what the destructor
\* shut and the threads that saw that end: levels from which everything that was written has gone on.
Undisturbed(taken) ==
  app.greeted /\ remote.at = "open" =>
    /\ \A l \in Levels : ~channel.up[l].wshut /\ ~channel.up[l].rshut
    /\ \A l \in Levels : channel.down[l].rshut => channel.down[l].wshut
    /\ \A l \in Levels : channel.down[l].wshut => app.at # "open" /\ Passed(channel.down, taken, l) = app.wrote
AllTold ==
  /\ app.greeted /\ remote.at = "ended" => app.at # "open" /\ Len(remote.got) = app.wrote
  /\ layers < Layers => app.wrote = 0

Forward(taken) == InLine("fwd", ToSend, channel.down, fwd, taken, app.wrote, remote.got) /\ Undisturbed(taken)
Backward(taken) == InLine("bwd", ToGet, channel.up, bwd, taken, remote.wrote, app.got)
ChInv == /\ ChTypes /\ AllTold
         /\ \E taken \in Counts : Forward(taken)
         /\ \E taken \in Counts : Backward(taken)

-----------------------------------------------------------------------------
LEMMA LevelFacts ==
    ASSUME NEW i \in 1 .. Layers, NEW dir \in {"fwd", "bwd"}
    PROVE  /\ Layers \in Nat /\ i \in Levels /\ i - 1 \in Levels /\ i # i - 1
           /\ Source(dir, i) \in Levels /\ Target(dir, i) \in Levels /\ Source(dir, i) # Target(dir, i)
           /\ \A j \in 1 .. Layers : Source(dir, j) = Source(dir, i) => j = i
           /\ \A j \in 1 .. Layers : Target(dir, j) = Target(dir, i) => j = i
           /\ Begins(dir) \in Levels /\ Finishes(dir) \in Levels
           /\ Target(dir, i) # Begins(dir) /\ Source(dir, i) # Finishes(dir)
BY ChainAssumption DEF Levels, Source, Target, Begins, Finishes

\* Sequences: what taking from the front and adding at the end do to a piece of the text.
LEMMA RunsLess ==
    ASSUME NEW text \in Texts, NEW past \in Nat, NEW data \in Seq(Said), data # <<>>, Runs(text, past, data)
    PROVE  /\ Tail(data) \in Seq(Said) /\ Len(data) \in Nat /\ Len(Tail(data)) = Len(data) - 1
           /\ Runs(text, past + 1, Tail(data)) /\ Head(data) = text[past + 1] /\ Head(data) \in Said
<1>1. /\ Tail(data) \in Seq(Said) /\ Len(data) \in Nat /\ Len(Tail(data)) = Len(data) - 1 /\ Len(data) >= 1
      /\ Head(data) = data[1] /\ Head(data) \in Said /\ \A n \in 1 .. Len(Tail(data)) : Tail(data)[n] = data[n + 1]
      /\ Len(text) \in Nat
  BY DEF Texts
<1> DEFINE rest == Tail(data)
<1>2. /\ rest \in Seq(Said) /\ Len(rest) = Len(data) - 1 /\ \A n \in 1 .. Len(rest) : rest[n] = data[n + 1]
  BY <1>1
<1> HIDE DEF rest
<1>3. \A n \in 1 .. Len(rest) : rest[n] = text[past + 1 + n]
  <2> SUFFICES ASSUME NEW n \in 1 .. Len(rest) PROVE rest[n] = text[past + 1 + n]
    OBVIOUS
  <2>1. n + 1 \in 1 .. Len(data) /\ past + (n + 1) = past + 1 + n
    BY <1>1, <1>2
  <2>2. data[n + 1] = text[past + (n + 1)]
    BY <2>1 DEF Runs
  <2>3. QED
    BY <1>2, <2>1, <2>2
<1>4. (past + 1) + Len(rest) <= Len(text)
  BY <1>1, <1>2 DEF Runs
<1>5. Runs(text, past + 1, rest)
  BY <1>3, <1>4 DEF Runs
<1>6. Head(data) = text[past + 1]
  BY <1>1 DEF Runs
<1>7. QED
  BY <1>1, <1>5, <1>6 DEF rest

LEMMA RunsMore ==
    ASSUME NEW text \in Texts, NEW past \in Nat, NEW data \in Seq(Said), Runs(text, past, data), NEW x \in Said,
           past + Len(data) + 1 <= Len(text), x = text[past + Len(data) + 1]
    PROVE  /\ Append(data, x) \in Seq(Said) /\ Len(data) \in Nat /\ Len(Append(data, x)) = Len(data) + 1
           /\ Runs(text, past, Append(data, x))
<1> DEFINE more == Append(data, x)
<1>1. /\ more \in Seq(Said) /\ Len(data) \in Nat /\ Len(more) = Len(data) + 1
      /\ more[Len(data) + 1] = x /\ \A n \in 1 .. Len(data) : more[n] = data[n]
  OBVIOUS
<1> HIDE DEF more
<1>2. \A n \in 1 .. Len(more) : more[n] = text[past + n]
  <2> SUFFICES ASSUME NEW n \in 1 .. Len(more) PROVE more[n] = text[past + n]
    OBVIOUS
  <2>1. CASE n = Len(data) + 1
    BY <2>1, <1>1
  <2>2. CASE n # Len(data) + 1
    BY <2>2, <1>1 DEF Runs
  <2>3. QED
    BY <2>1, <2>2
<1>3. past + Len(more) <= Len(text)
  BY <1>1
<1>4. QED
  BY <1>1, <1>2, <1>3 DEF Runs, more

\* A line but for one level, and threads but for one.
SameElsewhere(line, line2, at) == \A l \in Levels : l # at => line2[l].data = line[l].data
SamePassed(line, taken, line2, taken2) == \A l \in Levels : Passed(line2, taken2, l) = Passed(line, taken, l)
OthersRest(t, t2, i) == \A j \in 1 .. Layers : j # i => t2[j] = t[j]

\* A thread takes what is in front of its source.
Taking(dir, text, line, line2, t, t2, taken, wrote, heard, i) ==
    /\ InLine(dir, text, line, t, taken, wrote, heard)
    /\ t[i].at = "reads" /\ t2[i].at = "writes" /\ t2[i].holds[1] = Head(line[Source(dir, i)].data)
    /\ line[Source(dir, i)].data # <<>> /\ line2[Source(dir, i)].data = Tail(line[Source(dir, i)].data)
    /\ SameElsewhere(line, line2, Source(dir, i)) /\ OthersRest(t, t2, i)
LEMMA ThreadTakes ==
    ASSUME NEW dir \in {"fwd", "bwd"}, NEW text \in Texts, NEW line \in Lines, NEW line2 \in Lines,
           NEW t \in Carriers, NEW t2 \in Carriers, NEW taken \in Counts, NEW wrote \in Nat, NEW heard \in Texts,
           NEW i \in 1 .. Layers, Taking(dir, text, line, line2, t, t2, taken, wrote, heard, i)
    PROVE  \E taken2 \in Counts : /\ InLine(dir, text, line2, t2, taken2, wrote, heard)
                                  /\ SamePassed(line, taken, line2, taken2)
<1> USE DEF Taking, SamePassed
<1> DEFINE s == Source(dir, i)
           taken2 == [taken EXCEPT ![s] = @ + 1]
<1>1. /\ s \in Levels /\ s # Finishes(dir) /\ Finishes(dir) \in Levels /\ Begins(dir) \in Levels
      /\ \A j \in 1 .. Layers : /\ Source(dir, j) \in Levels /\ Target(dir, j) \in Levels
                                /\ Source(dir, j) = s => j = i
  BY LevelFacts
<1>2. \A l \in Levels : taken[l] \in Nat /\ line[l].data \in Seq(Said) /\ line2[l].data \in Seq(Said)
  BY DEF Counts, Lines, Channels
<1>3. taken2 \in Counts /\ taken2[s] = taken[s] + 1 /\ \A l \in Levels : l # s => taken2[l] = taken[l]
  BY <1>1, <1>2 DEF Counts
<1> HIDE DEF taken2
<1>4. \A l \in Levels : Runs(text, taken[l], line[l].data) /\ Passed(line, taken, l) <= wrote
  BY DEF InLine
<1>5. /\ Len(line[s].data) \in Nat /\ Len(line2[s].data) = Len(line[s].data) - 1
      /\ Runs(text, taken[s] + 1, line2[s].data) /\ Head(line[s].data) = text[taken[s] + 1]
  BY <1>1, <1>2, <1>4, RunsLess
<1>6. \A l \in Levels : l # s => line2[l].data = line[l].data
  BY DEF SameElsewhere
<1>7. \A l \in Levels : Passed(line2, taken2, l) = Passed(line, taken, l)
  <2> SUFFICES ASSUME NEW l \in Levels PROVE Passed(line2, taken2, l) = Passed(line, taken, l)
    OBVIOUS
  <2>1. CASE l = s
    <3>1. taken[s] \in Nat /\ taken2[s] = taken[s] + 1
      BY <1>1, <1>2, <1>3
    <3> DEFINE before == Len(line[s].data)
               after == Len(line2[s].data)
    <3>2. before \in Nat /\ after = before - 1
      BY <1>5
    <3> HIDE DEF before, after
    <3>3. taken2[s] + after = taken[s] + before
      BY <3>1, <3>2
    <3>4. QED
      BY <2>1, <3>3 DEF Passed, before, after
  <2>2. CASE l # s
    BY <2>2, <1>3, <1>6 DEF Passed
  <2>3. QED
    BY <2>1, <2>2
<1>8. \A l \in Levels : Runs(text, taken2[l], line2[l].data)
  BY <1>3, <1>4, <1>5, <1>6
<1>9. \A j \in 1 .. Layers : Carries(dir, text, line2, t2, taken2, j)
  <2> SUFFICES ASSUME NEW j \in 1 .. Layers PROVE Carries(dir, text, line2, t2, taken2, j)
    OBVIOUS
  <2>1. Carries(dir, text, line, t, taken, j)
    BY DEF InLine
  <2>2. Passed(line2, taken2, Target(dir, j)) = Passed(line, taken, Target(dir, j))
    BY <1>1, <1>7
  <2>3. CASE j = i
    <3>1. /\ Passed(line, taken, Target(dir, j)) = taken[s]
      BY <2>1, <2>3 DEF Carries
    <3>2. Source(dir, j) = s /\ taken2[Source(dir, j)] = taken[s] + 1 /\ taken[s] \in Nat
      BY <2>3, <1>1, <1>2, <1>3
    <3>3. t2[j].at = "writes" /\ t2[j].holds[1] = text[taken[s] + 1]
      BY <2>3, <1>5
    <3>4. QED
      BY <2>2, <3>1, <3>2, <3>3 DEF Carries
  <2>4. CASE j # i
    <3>1. taken2[Source(dir, j)] = taken[Source(dir, j)] /\ t2[j] = t[j]
      BY <2>4, <1>1, <1>3 DEF OthersRest
    <3>2. QED
      BY <2>1, <2>2, <3>1 DEF Carries
  <2>5. QED
    BY <2>3, <2>4
<1>10. /\ Passed(line2, taken2, Begins(dir)) = wrote
       /\ Len(heard) = taken2[Finishes(dir)] /\ Runs(text, 0, heard)
  BY <1>1, <1>3, <1>7 DEF InLine
<1>11. InLine(dir, text, line2, t2, taken2, wrote, heard)
  BY <1>4, <1>7, <1>8, <1>9, <1>10 DEF InLine
<1>12. QED
  BY <1>3, <1>7, <1>11

\* A thread puts what it holds into its target.
Putting(dir, text, line, line2, t, t2, taken, wrote, heard, i) ==
    /\ InLine(dir, text, line, t, taken, wrote, heard)
    /\ t[i].at = "writes" /\ t[i].holds # <<>> /\ t2[i].at = "reads"
    /\ line2[Target(dir, i)].data = Append(line[Target(dir, i)].data, t[i].holds[1])
    /\ SameElsewhere(line, line2, Target(dir, i)) /\ OthersRest(t, t2, i)
LEMMA ThreadPuts ==
    ASSUME NEW dir \in {"fwd", "bwd"}, NEW text \in Texts, NEW line \in Lines, NEW line2 \in Lines,
           NEW t \in Carriers, NEW t2 \in Carriers, NEW taken \in Counts, NEW wrote \in Nat, NEW heard \in Texts,
           NEW i \in 1 .. Layers, Putting(dir, text, line, line2, t, t2, taken, wrote, heard, i)
    PROVE  /\ InLine(dir, text, line2, t2, taken, wrote, heard)
           /\ \A l \in Levels : l # Target(dir, i) => Passed(line2, taken, l) = Passed(line, taken, l)
<1> USE DEF Putting
<1> DEFINE g == Target(dir, i)
           s == Source(dir, i)
           x == t[i].holds[1]
<1>1. /\ s \in Levels /\ g \in Levels /\ g # Begins(dir) /\ Finishes(dir) \in Levels /\ Begins(dir) \in Levels
      /\ \A j \in 1 .. Layers : /\ Source(dir, j) \in Levels /\ Target(dir, j) \in Levels
                                /\ Target(dir, j) = g => j = i
  BY LevelFacts
<1>2. \A l \in Levels : /\ taken[l] \in Nat /\ line[l].data \in Seq(Said) /\ Len(line[l].data) \in Nat
                        /\ line2[l].data \in Seq(Said) /\ Len(line2[l].data) \in Nat
  BY DEF Counts, Lines, Channels
<1>3. \A l \in Levels : Runs(text, taken[l], line[l].data) /\ Passed(line, taken, l) <= wrote
  BY DEF InLine
<1>4. Carries(dir, text, line, t, taken, i)
  BY DEF InLine
<1>5. Passed(line, taken, g) + 1 = taken[s] /\ x = text[taken[s]]
  BY <1>4 DEF Carries
<1>6. taken[s] <= Len(text) /\ taken[s] <= wrote /\ Len(text) \in Nat
  <2>1. taken[s] + Len(line[s].data) <= Len(text) /\ taken[s] + Len(line[s].data) <= wrote
    BY <1>1, <1>3 DEF Runs, Passed
  <2>2. Len(text) \in Nat /\ taken[s] \in Nat /\ Len(line[s].data) \in Nat
    BY <1>1, <1>2 DEF Texts
  <2>3. QED
    BY <2>1, <2>2
<1>7. x \in Said
  <2>1. taken[s] \in 1 .. Len(text)
    BY <1>1, <1>2, <1>5, <1>6 DEF Passed
  <2>2. text \in [1 .. Len(text) -> Said]
    BY DEF Texts
  <2>3. text[taken[s]] \in Said
    BY <2>1, <2>2
  <2>4. QED
    BY <1>5, <2>3
<1>8. taken[g] + Len(line[g].data) + 1 <= Len(text) /\ x = text[taken[g] + Len(line[g].data) + 1]
  BY <1>5, <1>6 DEF Passed
<1> HIDE DEF x
<1>9. line2[g].data = Append(line[g].data, x)
  BY DEF x
<1>10. Len(line2[g].data) = Len(line[g].data) + 1 /\ Runs(text, taken[g], line2[g].data)
  <2>1. /\ taken[g] \in Nat /\ line[g].data \in Seq(Said) /\ Runs(text, taken[g], line[g].data)
    BY <1>1, <1>2, <1>3
  <2> DEFINE past == taken[g]
             data == line[g].data
             more == line2[g].data
  <2>2. /\ past \in Nat /\ data \in Seq(Said) /\ Runs(text, past, data) /\ more = Append(data, x)
        /\ past + Len(data) + 1 <= Len(text) /\ x = text[past + Len(data) + 1]
    BY <2>1, <1>8, <1>9
  <2> HIDE DEF past, data, more
  <2>3. Len(more) = Len(data) + 1 /\ Runs(text, past, more)
    BY <1>7, <2>2, RunsMore
  <2>4. QED
    BY <2>3 DEF past, data, more
<1>11. \A l \in Levels : l # g => line2[l].data = line[l].data
  BY DEF SameElsewhere
<1>12. \A l \in Levels : l # g => Passed(line2, taken, l) = Passed(line, taken, l)
  BY <1>11 DEF Passed
<1>13. Passed(line2, taken, g) = taken[s]
  <2>1. taken[g] \in Nat /\ taken[s] \in Nat /\ Len(line[g].data) \in Nat
    BY <1>1, <1>2
  <2> DEFINE past == taken[g]
             gone == taken[s]
             before == Len(line[g].data)
             after == Len(line2[g].data)
  <2>2. past \in Nat /\ before \in Nat /\ after = before + 1 /\ past + before + 1 = gone
    BY <1>5, <1>10, <2>1 DEF Passed
  <2> HIDE DEF past, gone, before, after
  <2>3. past + after = gone
    <3>1. past + (before + 1) = past + before + 1
      BY <2>2
    <3>2. QED
      BY <2>2, <3>1
  <2>4. QED
    BY <2>3 DEF Passed, past, gone, after
<1>14. \A l \in Levels : Runs(text, taken[l], line2[l].data) /\ Passed(line2, taken, l) <= wrote
  BY <1>3, <1>6, <1>10, <1>11, <1>12, <1>13
<1>15. \A j \in 1 .. Layers : Carries(dir, text, line2, t2, taken, j)
  <2> SUFFICES ASSUME NEW j \in 1 .. Layers PROVE Carries(dir, text, line2, t2, taken, j)
    OBVIOUS
  <2>1. CASE j = i
    <3>1. t2[j].at = "reads" /\ Passed(line2, taken, Target(dir, j)) = taken[Source(dir, j)]
      BY <2>1, <1>13
    <3>2. taken[Source(dir, j)] \in Nat
      BY <1>1, <1>2
    <3>3. QED
      BY <3>1, <3>2 DEF Carries
  <2>2. CASE j # i
    <3>1. Carries(dir, text, line, t, taken, j)
      BY DEF InLine
    <3>2. t2[j] = t[j] /\ Passed(line2, taken, Target(dir, j)) = Passed(line, taken, Target(dir, j))
      BY <2>2, <1>1, <1>12 DEF OthersRest
    <3>3. QED
      BY <3>1, <3>2 DEF Carries
  <2>3. QED
    BY <2>1, <2>2
<1>16. /\ Passed(line2, taken, Begins(dir)) = wrote
       /\ Len(heard) = taken[Finishes(dir)] /\ Runs(text, 0, heard)
  BY <1>1, <1>12 DEF InLine
<1>17. QED
  BY <1>12, <1>14, <1>15, <1>16 DEF InLine

\* A thread starts, or ends, and the data stay where they are.
Starts(t, t2, j) == t[j].at = "none" /\ t2[j].at = "reads"
LEMMA ThreadsTurn ==
    ASSUME NEW dir \in {"fwd", "bwd"}, NEW text \in Texts, NEW line \in Lines, NEW line2 \in Lines,
           NEW t \in Carriers, NEW t2 \in Carriers, NEW taken \in Counts, NEW wrote \in Nat, NEW heard \in Texts,
           InLine(dir, text, line, t, taken, wrote, heard), \A l \in Levels : line2[l].data = line[l].data,
           \A j \in 1 .. Layers : t2[j] = t[j] \/ t2[j].at = "done" \/ Starts(t, t2, j)
    PROVE  InLine(dir, text, line2, t2, taken, wrote, heard)
<1>1. \A l \in Levels : Passed(line2, taken, l) = Passed(line, taken, l)
  BY DEF Passed
<1>2. \A l \in Levels : Runs(text, taken[l], line2[l].data) /\ Passed(line2, taken, l) <= wrote
  BY <1>1 DEF InLine
<1>3. \A j \in 1 .. Layers : Carries(dir, text, line2, t2, taken, j)
  <2> SUFFICES ASSUME NEW j \in 1 .. Layers PROVE Carries(dir, text, line2, t2, taken, j)
    OBVIOUS
  <2>1. Carries(dir, text, line, t, taken, j)
    BY DEF InLine
  <2>2. Passed(line2, taken, Target(dir, j)) = Passed(line, taken, Target(dir, j))
    BY <1>1, LevelFacts
  <2>3. CASE t2[j] = t[j]
    BY <2>1, <2>2, <2>3 DEF Carries
  <2>4. CASE t2[j].at = "done"
    BY <2>1, <2>2, <2>4 DEF Carries
  <2>5. CASE Starts(t, t2, j)
    BY <2>1, <2>2, <2>5 DEF Carries, Starts
  <2>6. QED
    BY <2>3, <2>4, <2>5
<1>4. Passed(line2, taken, Begins(dir)) = wrote
  <2>1. Begins(dir) \in Levels
    BY ChainAssumption DEF Begins, Levels
  <2>2. QED
    BY <1>1, <2>1 DEF InLine
<1>5. QED
  BY <1>2, <1>3, <1>4 DEF InLine

LEMMA EndsOfLine ==
    ASSUME NEW dir \in {"fwd", "bwd"}
    PROVE  /\ Begins(dir) \in Levels /\ Finishes(dir) \in Levels
           /\ \A j \in 1 .. Layers : /\ Source(dir, j) \in Levels /\ Source(dir, j) # Finishes(dir)
                                     /\ Target(dir, j) \in Levels /\ Target(dir, j) # Begins(dir)
<1>1. Begins(dir) \in Levels /\ Finishes(dir) \in Levels
  BY ChainAssumption DEF Begins, Finishes, Levels
<1>2. QED
  BY <1>1, LevelFacts

\* The one who writes adds what comes next in the text.
LEMMA LineGrows ==
    ASSUME NEW dir \in {"fwd", "bwd"}, NEW text \in Texts, NEW line \in Lines, NEW line2 \in Lines,
           NEW t \in Carriers, NEW taken \in Counts, NEW wrote \in Nat, NEW heard \in Texts,
           InLine(dir, text, line, t, taken, wrote, heard), wrote < Len(text),
           line2[Begins(dir)].data = Append(line[Begins(dir)].data, text[wrote + 1]),
           SameElsewhere(line, line2, Begins(dir))
    PROVE  InLine(dir, text, line2, t, taken, wrote + 1, heard)
<1> DEFINE b == Begins(dir)
<1>1. \A l \in Levels : Runs(text, taken[l], line[l].data) /\ Passed(line, taken, l) <= wrote
  BY DEF InLine
<1>2. \A l \in Levels : taken[l] \in Nat /\ line[l].data \in Seq(Said)
  BY DEF Counts, Lines, Channels
<1>3. \A l \in Levels : Passed(line, taken, l) \in Nat
  BY <1>2 DEF Passed
<1>4. b \in Levels /\ Finishes(dir) \in Levels /\ \A j \in 1 .. Layers : Target(dir, j) \in Levels /\ Target(dir, j) # b
  BY EndsOfLine
<1>5. \A l \in Levels : l # b => line2[l].data = line[l].data
  BY DEF SameElsewhere
<1>6. Runs(text, taken[b], line2[b].data) /\ Passed(line2, taken, b) = wrote + 1
  <2> DEFINE past == taken[b]
             data == line[b].data
             more == line2[b].data
             x == text[wrote + 1]
  <2>1. /\ past \in Nat /\ data \in Seq(Said) /\ Runs(text, past, data) /\ more = Append(data, x)
        /\ past + Len(data) = wrote
    BY <1>1, <1>2, <1>4 DEF InLine, Passed
  <2>2. x \in Said
    <3>1. wrote + 1 \in 1 .. Len(text)
      BY DEF Texts
    <3>2. QED
      BY <3>1 DEF Texts
  <2>3. x = text[wrote + 1]
    OBVIOUS
  <2> HIDE DEF past, data, more, x
  <2>4. past + Len(data) + 1 <= Len(text) /\ x = text[past + Len(data) + 1]
    BY <2>1, <2>3 DEF Texts
  <2>5. Len(data) \in Nat /\ Len(more) = Len(data) + 1 /\ Runs(text, past, more)
    BY <2>1, <2>2, <2>4, RunsMore
  <2>6. past + Len(more) = wrote + 1
    BY <2>1, <2>5
  <2>7. QED
    BY <2>5, <2>6 DEF Passed, past, more
<1>7. \A l \in Levels : l # b => Passed(line2, taken, l) = Passed(line, taken, l)
  BY <1>5 DEF Passed
<1>8. \A l \in Levels : Runs(text, taken[l], line2[l].data) /\ Passed(line2, taken, l) <= wrote + 1
  <2> SUFFICES ASSUME NEW l \in Levels
               PROVE  Runs(text, taken[l], line2[l].data) /\ Passed(line2, taken, l) <= wrote + 1
    OBVIOUS
  <2>1. CASE l = b
    <3>1. wrote + 1 <= wrote + 1
      OBVIOUS
    <3>2. QED
      BY <2>1, <3>1, <1>6
  <2>2. CASE l # b
    <3>1. Passed(line2, taken, l) = Passed(line, taken, l) /\ line2[l].data = line[l].data
      BY <2>2, <1>5, <1>7
    <3>2. Passed(line, taken, l) \in Nat /\ Passed(line, taken, l) <= wrote /\ Runs(text, taken[l], line[l].data)
      BY <1>1, <1>3
    <3>3. QED
      BY <3>1, <3>2
  <2>3. QED
    BY <2>1, <2>2
<1>9. \A j \in 1 .. Layers : Carries(dir, text, line2, t, taken, j)
  <2> SUFFICES ASSUME NEW j \in 1 .. Layers PROVE Carries(dir, text, line2, t, taken, j)
    OBVIOUS
  <2>1. Carries(dir, text, line, t, taken, j)
    BY DEF InLine
  <2>2. Passed(line2, taken, Target(dir, j)) = Passed(line, taken, Target(dir, j))
    BY <1>4, <1>7
  <2>3. QED
    BY <2>1, <2>2 DEF Carries
<1>10. QED
  BY <1>6, <1>8, <1>9 DEF InLine

\* The one who reads takes what is at the end of the line.
Telling(dir, text, line, line2, t, taken, wrote, heard, heard2) ==
    /\ InLine(dir, text, line, t, taken, wrote, heard)
    /\ line[Finishes(dir)].data # <<>> /\ line2[Finishes(dir)].data = Tail(line[Finishes(dir)].data)
    /\ SameElsewhere(line, line2, Finishes(dir))
    /\ heard2 = Append(heard, Head(line[Finishes(dir)].data))
LEMMA LineTells ==
    ASSUME NEW dir \in {"fwd", "bwd"}, NEW text \in Texts, NEW line \in Lines, NEW line2 \in Lines,
           NEW t \in Carriers, NEW taken \in Counts, NEW wrote \in Nat, NEW heard \in Texts, NEW heard2 \in Texts,
           Telling(dir, text, line, line2, t, taken, wrote, heard, heard2)
    PROVE  \E taken2 \in Counts : /\ InLine(dir, text, line2, t, taken2, wrote, heard2)
                                  /\ SamePassed(line, taken, line2, taken2)
<1> USE DEF Telling, SamePassed
<1> DEFINE s == Finishes(dir)
           taken2 == [taken EXCEPT ![s] = @ + 1]
<1>1. /\ s \in Levels /\ Begins(dir) \in Levels
      /\ \A j \in 1 .. Layers : /\ Source(dir, j) \in Levels /\ Target(dir, j) \in Levels
                                /\ Source(dir, j) # s
  BY EndsOfLine
<1>2. \A l \in Levels : taken[l] \in Nat /\ line[l].data \in Seq(Said) /\ line2[l].data \in Seq(Said)
  BY DEF Counts, Lines, Channels
<1>3. taken2 \in Counts /\ taken2[s] = taken[s] + 1 /\ \A l \in Levels : l # s => taken2[l] = taken[l]
  BY <1>1, <1>2 DEF Counts
<1> HIDE DEF taken2
<1>4. \A l \in Levels : Runs(text, taken[l], line[l].data) /\ Passed(line, taken, l) <= wrote
  BY DEF InLine
<1>5. /\ Len(line[s].data) \in Nat /\ Len(line2[s].data) = Len(line[s].data) - 1
      /\ Runs(text, taken[s] + 1, line2[s].data) /\ Head(line[s].data) = text[taken[s] + 1]
      /\ Head(line[s].data) \in Said
  BY <1>1, <1>2, <1>4, RunsLess
<1>6. \A l \in Levels : l # s => line2[l].data = line[l].data
  BY DEF SameElsewhere
<1>7. \A l \in Levels : Passed(line2, taken2, l) = Passed(line, taken, l)
  <2> SUFFICES ASSUME NEW l \in Levels PROVE Passed(line2, taken2, l) = Passed(line, taken, l)
    OBVIOUS
  <2>1. CASE l = s
    <3> DEFINE before == Len(line[s].data)
               after == Len(line2[s].data)
               past == taken[s]
               past2 == taken2[s]
    <3>1. past \in Nat /\ before \in Nat /\ after = before - 1 /\ past2 = past + 1
      BY <1>1, <1>2, <1>3, <1>5
    <3> HIDE DEF before, after, past, past2
    <3>2. past2 + after = past + before
      BY <3>1
    <3>3. QED
      BY <2>1, <3>2 DEF Passed, before, after, past, past2
  <2>2. CASE l # s
    BY <2>2, <1>3, <1>6 DEF Passed
  <2>3. QED
    BY <2>1, <2>2
<1>8. \A l \in Levels : Runs(text, taken2[l], line2[l].data)
  BY <1>3, <1>4, <1>5, <1>6
<1>9. \A j \in 1 .. Layers : Carries(dir, text, line2, t, taken2, j)
  <2> SUFFICES ASSUME NEW j \in 1 .. Layers PROVE Carries(dir, text, line2, t, taken2, j)
    OBVIOUS
  <2>1. Carries(dir, text, line, t, taken, j)
    BY DEF InLine
  <2>2. /\ Passed(line2, taken2, Target(dir, j)) = Passed(line, taken, Target(dir, j))
        /\ taken2[Source(dir, j)] = taken[Source(dir, j)]
    BY <1>1, <1>3, <1>7
  <2>3. QED
    BY <2>1, <2>2 DEF Carries
<1>10. Len(heard2) = taken2[s] /\ Runs(text, 0, heard2)
  <2> DEFINE x == Head(line[s].data)
             past == taken[s]
             data == line[s].data
  <2>1. /\ Len(heard) = past /\ Runs(text, 0, heard) /\ heard \in Seq(Said) /\ x \in Said /\ x = text[past + 1]
        /\ heard2 = Append(heard, x)
    BY <1>5 DEF InLine, Texts
  <2>2. past + Len(data) <= Len(text) /\ Len(data) \in Nat /\ Len(data) # 0 /\ past \in Nat
    BY <1>1, <1>2, <1>4 DEF Runs
  <2> HIDE DEF x, past, data
  <2>3. past + 1 <= Len(text) /\ Len(text) \in Nat
    BY <2>2 DEF Texts
  <2> DEFINE start == 0
  <2>4. /\ start \in Nat /\ Runs(text, start, heard) /\ heard \in Seq(Said)
        /\ start + Len(heard) + 1 <= Len(text) /\ x = text[start + Len(heard) + 1]
    BY <2>1, <2>2, <2>3
  <2> HIDE DEF start
  <2>5. Runs(text, start, Append(heard, x)) /\ Len(Append(heard, x)) = Len(heard) + 1
    BY <2>1, <2>4, RunsMore
  <2>6. Runs(text, start, heard2) /\ Len(heard2) = Len(heard) + 1
    BY <2>1, <2>5
  <2>7. QED
    BY <2>1, <2>6, <1>3 DEF past, start
<1>11. Passed(line2, taken2, Begins(dir)) = wrote
  BY <1>1, <1>7 DEF InLine
<1>12. InLine(dir, text, line2, t, taken2, wrote, heard2)
  BY <1>4, <1>7, <1>8, <1>9, <1>10, <1>11 DEF InLine
<1>13. QED
  BY <1>3, <1>7, <1>12

-----------------------------------------------------------------------------
\* The flags: what shutting a socket does to a chain's channels, and what it leaves.
SameData(c, d) == \A l \in Levels : d.down[l].data = c.down[l].data /\ d.up[l].data = c.up[l].data
SameFlags(c, d) == \A l \in Levels : /\ d.down[l].wshut = c.down[l].wshut /\ d.down[l].rshut = c.down[l].rshut
                                     /\ d.up[l].wshut = c.up[l].wshut /\ d.up[l].rshut = c.up[l].rshut

\* One end of one channel is shut.
WriterShut(line, i) == [line EXCEPT ![i].wshut = TRUE]
ReaderShut(line, i) == [line EXCEPT ![i].rshut = TRUE]
OnlyWriter(line, d, i) ==
    /\ d \in Lines /\ d[i].wshut = TRUE
    /\ \A l \in Levels : /\ d[l].data = line[l].data /\ d[l].rshut = line[l].rshut
                         /\ l # i => d[l] = line[l]
OnlyReader(line, d, i) ==
    /\ d \in Lines
    /\ \A l \in Levels : /\ d[l].data = line[l].data /\ d[l].wshut = line[l].wshut
                         /\ l # i => d[l] = line[l]
LEMMA EndShut ==
    ASSUME NEW line \in Lines, NEW i \in Levels
    PROVE  OnlyWriter(line, WriterShut(line, i), i) /\ OnlyReader(line, ReaderShut(line, i), i)
<1>1. \A l \in Levels : line[l] \in [data : Seq(Said), wshut : BOOLEAN, rshut : BOOLEAN]
  BY DEF Lines, Channels
<1>2. OnlyWriter(line, WriterShut(line, i), i)
  <2> DEFINE d == WriterShut(line, i)
  <2>1. d = [l \in Levels |-> IF l = i THEN [line[l] EXCEPT !.wshut = TRUE] ELSE line[l]]
    BY DEF WriterShut, Lines
  <2> HIDE DEF d
  <2>2. \A l \in Levels : [line[l] EXCEPT !.wshut = TRUE] \in Channels /\ line[l] \in Channels
    BY <1>1 DEF Channels
  <2>3. d \in Lines
    BY <2>1, <2>2 DEF Lines
  <2>4. /\ d[i].wshut = TRUE
        /\ \A l \in Levels : /\ d[l].data = line[l].data /\ d[l].rshut = line[l].rshut
                             /\ l # i => d[l] = line[l]
    BY <1>1, <2>1
  <2>5. QED
    BY <2>3, <2>4 DEF OnlyWriter, d
<1>3. OnlyReader(line, ReaderShut(line, i), i)
  <2> DEFINE d == ReaderShut(line, i)
  <2>1. d = [l \in Levels |-> IF l = i THEN [line[l] EXCEPT !.rshut = TRUE] ELSE line[l]]
    BY DEF ReaderShut, Lines
  <2> HIDE DEF d
  <2>2. \A l \in Levels : [line[l] EXCEPT !.rshut = TRUE] \in Channels /\ line[l] \in Channels
    BY <1>1 DEF Channels
  <2>3. d \in Lines
    BY <2>1, <2>2 DEF Lines
  <2>4. \A l \in Levels : /\ d[l].data = line[l].data /\ d[l].wshut = line[l].wshut
                          /\ l # i => d[l] = line[l]
    BY <1>1, <2>1
  <2>5. QED
    BY <2>3, <2>4 DEF OnlyReader, d
<1>4. QED
  BY <1>2, <1>3

\* A record of two parts, one of which changes.
LEMMA PartChanges ==
    ASSUME NEW x, NEW y, NEW part
    PROVE  /\ [[down |-> x, up |-> y] EXCEPT !.down = part] = [down |-> part, up |-> y]
           /\ [[down |-> x, up |-> y] EXCEPT !.up = part] = [down |-> x, up |-> part]
OBVIOUS

LEMMA NoticeIs ==
    ASSUME NEW c \in Channeled, NEW i
    PROVE  Notified(c, i) = [down |-> WriterShut(c.down, i), up |-> c.up]
<1> DEFINE d == WriterShut(c.down, i)
<1>1. Notified(c, i) = [c EXCEPT !.down = d]
  BY DEF Notified, WriterShut, Channeled
<1> HIDE DEF d
<1>2. PICK x \in Lines, y \in Lines : c = [down |-> x, up |-> y]
  BY DEF Channeled
<1>3. Notified(c, i) = [down |-> d, up |-> c.up]
  BY <1>1, <1>2, PartChanges
<1>4. QED
  BY <1>3 DEF d

LEMMA ShutKeeps ==
    ASSUME NEW c \in Channeled, NEW i \in Levels
    PROVE  /\ UpperDown(c, i) \in Channeled /\ SameData(c, UpperDown(c, i))
           /\ LowerDown(c, i) \in Channeled /\ SameData(c, LowerDown(c, i))
           /\ Notified(c, i) \in Channeled /\ SameData(c, Notified(c, i))
<1>1. c.down \in Lines /\ c.up \in Lines
  BY DEF Channeled
<1>2. UpperDown(c, i) = [down |-> WriterShut(c.down, i), up |-> ReaderShut(c.up, i)]
  <2> DEFINE d == WriterShut(c.down, i)
             u == ReaderShut(c.up, i)
             half == [c EXCEPT !.down = d]
  <2>1. UpperDown(c, i) = [half EXCEPT !.up = u]
    BY DEF UpperDown, WriterShut, ReaderShut, Channeled
  <2> HIDE DEF d, u
  <2>2. PICK x \in Lines, y \in Lines : c = [down |-> x, up |-> y]
    BY DEF Channeled
  <2>3. half = [down |-> d, up |-> y]
    BY <2>2, PartChanges
  <2> HIDE DEF half
  <2>4. UpperDown(c, i) = [down |-> d, up |-> u]
    BY <2>1, <2>3, PartChanges
  <2>5. QED
    BY <2>4 DEF d, u
<1>5. LowerDown(c, i) = [down |-> ReaderShut(c.down, i), up |-> WriterShut(c.up, i)]
  <2> DEFINE d == ReaderShut(c.down, i)
             u == WriterShut(c.up, i)
             half == [c EXCEPT !.up = u]
  <2>1. LowerDown(c, i) = [half EXCEPT !.down = d]
    BY DEF LowerDown, WriterShut, ReaderShut, Channeled
  <2> HIDE DEF d, u
  <2>2. PICK x \in Lines, y \in Lines : c = [down |-> x, up |-> y]
    BY DEF Channeled
  <2>3. half = [down |-> x, up |-> u]
    BY <2>2, PartChanges
  <2> HIDE DEF half
  <2>4. LowerDown(c, i) = [down |-> d, up |-> u]
    BY <2>1, <2>3, PartChanges
  <2>5. QED
    BY <2>4 DEF d, u
<1>6. Notified(c, i) = [down |-> WriterShut(c.down, i), up |-> c.up]
  BY NoticeIs
<1>3. /\ WriterShut(c.down, i) \in Lines /\ ReaderShut(c.down, i) \in Lines
      /\ WriterShut(c.up, i) \in Lines /\ ReaderShut(c.up, i) \in Lines
      /\ \A l \in Levels : /\ WriterShut(c.down, i)[l].data = c.down[l].data
                           /\ ReaderShut(c.down, i)[l].data = c.down[l].data
                           /\ WriterShut(c.up, i)[l].data = c.up[l].data
                           /\ ReaderShut(c.up, i)[l].data = c.up[l].data
  <2>1. OnlyWriter(c.down, WriterShut(c.down, i), i) /\ OnlyReader(c.down, ReaderShut(c.down, i), i)
    BY <1>1, EndShut
  <2>2. OnlyWriter(c.up, WriterShut(c.up, i), i) /\ OnlyReader(c.up, ReaderShut(c.up, i), i)
    BY <1>1, EndShut
  <2>3. QED
    BY <2>1, <2>2 DEF OnlyWriter, OnlyReader
<1>4. QED
  BY <1>1, <1>2, <1>3, <1>5, <1>6 DEF Channeled, SameData

LEMMA LoopEndIs ==
    ASSUME NEW c \in Channeled, NEW i \in 1 .. Layers
    PROVE  /\ LoopEnds(c, "fwd", i) = [down |-> WriterShut(ReaderShut(c.down, i), i - 1), up |-> c.up]
           /\ i - 1 \notin secure =>
                  LoopEnds(c, "bwd", i) = [down |-> c.down, up |-> WriterShut(ReaderShut(c.up, i - 1), i)]
           /\ i - 1 \in secure =>
                  LoopEnds(c, "bwd", i) = [down |-> WriterShut(c.down, i - 1), up |-> WriterShut(c.up, i)]
<1>1. i - 1 \in secure => LoopEnds(c, "bwd", i) = [down |-> WriterShut(c.down, i - 1), up |-> WriterShut(c.up, i)]
  <2> DEFINE d == WriterShut(c.down, i - 1)
             u == WriterShut(c.up, i)
             half == Notified(c, i - 1)
  <2>1. half = [down |-> d, up |-> c.up]
    BY NoticeIs
  <2>2. i - 1 \in secure => LoopEnds(c, "bwd", i) = [half EXCEPT !.up[i].wshut = TRUE]
    BY DEF LoopEnds
  <2> HIDE DEF d, half
  <2>3. [half EXCEPT !.up[i].wshut = TRUE] = [half EXCEPT !.up = u]
    BY <2>1 DEF WriterShut
  <2> HIDE DEF u
  <2>4. [half EXCEPT !.up = u] = [down |-> d, up |-> u]
    BY <2>1, PartChanges
  <2>5. QED
    BY <2>2, <2>3, <2>4 DEF d, u
<1>2. QED
  BY <1>1 DEF LoopEnds, WriterShut, ReaderShut, Channeled

LEMMA LoopEndKeeps ==
    ASSUME NEW c \in Channeled, NEW i \in 1 .. Layers, NEW dir \in {"fwd", "bwd"}
    PROVE  LoopEnds(c, dir, i) \in Channeled /\ SameData(c, LoopEnds(c, dir, i))
<1>1. i \in Levels /\ i - 1 \in Levels
  BY LevelFacts
<1>2. c.down \in Lines /\ c.up \in Lines
  BY DEF Channeled
<1> DEFINE below == ReaderShut(c.down, i)
           above == ReaderShut(c.up, i - 1)
<1>3. /\ below \in Lines /\ above \in Lines
      /\ \A l \in Levels : below[l].data = c.down[l].data /\ above[l].data = c.up[l].data
  <2>1. OnlyReader(c.down, below, i) /\ OnlyReader(c.up, above, i - 1)
    BY <1>1, <1>2, EndShut
  <2> HIDE DEF below, above
  <2>2. QED
    BY <2>1 DEF OnlyReader
<1>4. /\ LoopEnds(c, "fwd", i) = [down |-> WriterShut(below, i - 1), up |-> c.up]
      /\ i - 1 \notin secure => LoopEnds(c, "bwd", i) = [down |-> c.down, up |-> WriterShut(above, i)]
      /\ i - 1 \in secure => LoopEnds(c, "bwd", i) = [down |-> WriterShut(c.down, i - 1), up |-> WriterShut(c.up, i)]
  BY LoopEndIs
<1> HIDE DEF below, above
<1>5. /\ WriterShut(below, i - 1) \in Lines /\ WriterShut(above, i) \in Lines
      /\ \A l \in Levels : /\ WriterShut(below, i - 1)[l].data = below[l].data
                           /\ WriterShut(above, i)[l].data = above[l].data
      /\ WriterShut(c.down, i - 1) \in Lines /\ WriterShut(c.up, i) \in Lines
      /\ \A l \in Levels : /\ WriterShut(c.down, i - 1)[l].data = c.down[l].data
                           /\ WriterShut(c.up, i)[l].data = c.up[l].data
  <2>1. /\ OnlyWriter(below, WriterShut(below, i - 1), i - 1) /\ OnlyWriter(above, WriterShut(above, i), i)
        /\ OnlyWriter(c.down, WriterShut(c.down, i - 1), i - 1) /\ OnlyWriter(c.up, WriterShut(c.up, i), i)
    BY <1>1, <1>2, <1>3, EndShut
  <2>2. QED
    BY <2>1 DEF OnlyWriter
<1>6. CASE dir = "fwd"
  BY <1>2, <1>3, <1>4, <1>5, <1>6 DEF Channeled, SameData
<1>7. CASE dir = "bwd"
  BY <1>2, <1>3, <1>4, <1>5, <1>7 DEF Channeled, SameData
<1>8. QED
  BY <1>6, <1>7

\* At the end of its loop the forward thread of a level shuts the reading there and the writing one level below.
LEMMA ForwardEnd ==
    ASSUME NEW c \in Channeled, NEW i \in 1 .. Layers
    PROVE  \A l \in Levels :
               /\ LoopEnds(c, "fwd", i).up[l] = c.up[l]
               /\ LoopEnds(c, "fwd", i).down[l].wshut => c.down[l].wshut \/ l = i - 1
               /\ LoopEnds(c, "fwd", i).down[l].rshut => c.down[l].rshut \/ l = i
               /\ c.down[l].wshut => LoopEnds(c, "fwd", i).down[l].wshut
<1>1. i \in Levels /\ i - 1 \in Levels /\ i # i - 1
  BY LevelFacts
<1>2. c.down \in Lines
  BY DEF Channeled
<1> DEFINE below == ReaderShut(c.down, i)
<1>3. /\ below \in Lines
      /\ \A l \in Levels : below[l].wshut = c.down[l].wshut /\ (l # i => below[l] = c.down[l])
  <2>1. OnlyReader(c.down, below, i)
    BY <1>1, <1>2, EndShut
  <2> HIDE DEF below
  <2>2. QED
    BY <2>1 DEF OnlyReader
<1>4. LoopEnds(c, "fwd", i) = [down |-> WriterShut(below, i - 1), up |-> c.up]
  BY LoopEndIs
<1> HIDE DEF below
<1> DEFINE after == WriterShut(below, i - 1)
<1>5. /\ \A l \in Levels : after[l].rshut = below[l].rshut /\ (l # i - 1 => after[l] = below[l])
      /\ after[i - 1].wshut = TRUE
  <2>1. OnlyWriter(below, after, i - 1)
    BY <1>1, <1>3, EndShut
  <2> HIDE DEF after
  <2>2. QED
    BY <2>1 DEF OnlyWriter
<1> HIDE DEF after
<1>6. SUFFICES ASSUME NEW l \in Levels
               PROVE  /\ after[l].wshut => c.down[l].wshut \/ l = i - 1
                      /\ after[l].rshut => c.down[l].rshut \/ l = i
                      /\ c.down[l].wshut => after[l].wshut
  BY <1>4 DEF after
<1>7. after[l].wshut => c.down[l].wshut \/ l = i - 1
  BY <1>3, <1>5
<1>8. after[l].rshut => c.down[l].rshut \/ l = i
  BY <1>3, <1>5
<1>9. c.down[l].wshut => after[l].wshut
  BY <1>3, <1>5
<1>10. QED
  BY <1>7, <1>8, <1>9

\* Data that are taken, or put, and nothing is shut.
MovedDown(c, i, data, d) == d = [c EXCEPT !.down[i].data = data]
MovedUp(c, i, data, d) == d = [c EXCEPT !.up[i].data = data]
LEMMA MovesDown ==
    ASSUME NEW c \in Channeled, NEW i \in Levels, NEW data \in Seq(Said), NEW d,
           MovedDown(c, i, data, d)
    PROVE  /\ d \in Channeled /\ d.down \in Lines /\ SameFlags(c, d) /\ d.up = c.up /\ d.down[i].data = data
           /\ SameElsewhere(c.down, d.down, i)
<1>1. c.down \in Lines /\ c.up \in Lines
  BY DEF Channeled
<1> DEFINE line == [l \in Levels |-> IF l = i THEN [c.down[l] EXCEPT !.data = data] ELSE c.down[l]]
<1>2. d = [c EXCEPT !.down = line]
  BY <1>1 DEF MovedDown, Channeled, Lines
<1>3. \A l \in Levels : c.down[l] \in Channels
  BY <1>1 DEF Lines
<1>4. /\ line \in Lines /\ line[i].data = data
      /\ \A l \in Levels : /\ line[l].wshut = c.down[l].wshut /\ line[l].rshut = c.down[l].rshut
                           /\ l # i => line[l] = c.down[l]
  BY <1>3 DEF Lines, Channels
<1> HIDE DEF line
<1>5. PICK x \in Lines, y \in Lines : c = [down |-> x, up |-> y]
  BY DEF Channeled
<1>6. d = [down |-> line, up |-> c.up]
  BY <1>2, <1>5, PartChanges
<1>7. d \in Channeled /\ d.down = line /\ d.up = c.up
  BY <1>1, <1>4, <1>6 DEF Channeled
<1>8. QED
  BY <1>4, <1>7 DEF SameFlags, SameElsewhere
LEMMA MovesUp ==
    ASSUME NEW c \in Channeled, NEW i \in Levels, NEW data \in Seq(Said), NEW d,
           MovedUp(c, i, data, d)
    PROVE  /\ d \in Channeled /\ d.up \in Lines /\ SameFlags(c, d) /\ d.down = c.down /\ d.up[i].data = data
           /\ SameElsewhere(c.up, d.up, i)
<1>1. c.up \in Lines /\ c.down \in Lines
  BY DEF Channeled
<1> DEFINE line == [l \in Levels |-> IF l = i THEN [c.up[l] EXCEPT !.data = data] ELSE c.up[l]]
<1>2. d = [c EXCEPT !.up = line]
  BY <1>1 DEF MovedUp, Channeled, Lines
<1>3. \A l \in Levels : c.up[l] \in Channels
  BY <1>1 DEF Lines
<1>4. /\ line \in Lines /\ line[i].data = data
      /\ \A l \in Levels : /\ line[l].wshut = c.up[l].wshut /\ line[l].rshut = c.up[l].rshut
                           /\ l # i => line[l] = c.up[l]
  BY <1>3 DEF Lines, Channels
<1> HIDE DEF line
<1>5. PICK x \in Lines, y \in Lines : c = [down |-> x, up |-> y]
  BY DEF Channeled
<1>6. d = [up |-> line, down |-> c.down]
  BY <1>2, <1>5, PartChanges
<1>7. d \in Channeled /\ d.up = line /\ d.down = c.down
  BY <1>1, <1>4, <1>6 DEF Channeled
<1>8. QED
  BY <1>4, <1>7 DEF SameFlags, SameElsewhere

LEMMA ChFacts ==
    ASSUME ChTypes
    PROVE  /\ channel \in Channeled /\ channel.down \in Lines /\ channel.up \in Lines
           /\ layers \in Nat /\ layers <= Layers /\ layers \in Levels /\ Layers \in Nat /\ Layers \in Levels /\ 0 \in Levels
           /\ fwd \in Carriers /\ bwd \in Carriers
           /\ app.wrote \in Nat /\ app.got \in Texts /\ app.greeted \in BOOLEAN
           /\ remote.wrote \in Nat /\ remote.got \in Texts
           /\ ToSend \in Texts /\ ToGet \in Texts
BY ChainAssumption DEF ChTypes, Channeled, Levels, Texts

\* What is undisturbed stays so when nothing is shut and no level that was shut loses or wins data.
StillPassed(taken, taken2) ==
    \A l \in Levels : channel.down[l].wshut /\ app.at # "open" =>
        Passed(channel'.down, taken2, l) = Passed(channel.down, taken, l) /\ app'.wrote = app.wrote
LEMMA StaysUndisturbed ==
    ASSUME NEW taken \in Counts, NEW taken2 \in Counts, Undisturbed(taken), SameFlags(channel, channel'),
           app'.greeted => app.greeted, remote'.at = "open" => remote.at = "open",
           app.at # "open" => app'.at # "open", StillPassed(taken, taken2)
    PROVE  Undisturbed(taken2)'
<1> SUFFICES ASSUME app'.greeted, remote'.at = "open"
             PROVE  /\ \A l \in Levels : ~channel'.up[l].wshut /\ ~channel'.up[l].rshut
                    /\ \A l \in Levels : channel'.down[l].rshut => channel'.down[l].wshut
                    /\ \A l \in Levels : channel'.down[l].wshut =>
                           app'.at # "open" /\ Passed(channel'.down, taken2, l) = app'.wrote
  BY DEF Undisturbed, Passed
<1>1. /\ \A l \in Levels : ~channel.up[l].wshut /\ ~channel.up[l].rshut
      /\ \A l \in Levels : channel.down[l].rshut => channel.down[l].wshut
      /\ \A l \in Levels : channel.down[l].wshut => app.at # "open" /\ Passed(channel.down, taken, l) = app.wrote
  BY DEF Undisturbed
<1>2. \A l \in Levels : /\ channel'.down[l].wshut = channel.down[l].wshut
                        /\ channel'.down[l].rshut = channel.down[l].rshut
                        /\ channel'.up[l].wshut = channel.up[l].wshut
                        /\ channel'.up[l].rshut = channel.up[l].rshut
  BY DEF SameFlags
<1>3. \A l \in Levels : channel.down[l].wshut =>
          app'.at # "open" /\ Passed(channel'.down, taken2, l) = app'.wrote
  BY <1>1 DEF StillPassed
<1>4. QED
  BY <1>1, <1>2, <1>3

-----------------------------------------------------------------------------
LEMMA ChStarts == ChInit => ChInv
<1> SUFFICES ASSUME ChInit PROVE ChInv
  OBVIOUS
<1> DEFINE none == [l \in Levels |-> 0]
<1>1. /\ none \in Counts /\ \A l \in Levels : none[l] = 0
  BY DEF Counts
<1>2. /\ channel = [down |-> [i \in Levels |-> Empty], up |-> [i \in Levels |-> Empty]]
      /\ Empty \in Channels /\ Empty.data = <<>> /\ Len(Empty.data) = 0
      /\ Empty.wshut = FALSE /\ Empty.rshut = FALSE
  BY DEF ChInit, Empty, Channels
<1>3. /\ channel \in Channeled
      /\ \A l \in Levels : channel.down[l] = Empty /\ channel.up[l] = Empty
  BY <1>2 DEF Channeled, Lines
<1>4. /\ fwd \in Carriers /\ bwd \in Carriers
      /\ \A i \in 1 .. Layers : fwd[i].at = "none" /\ bwd[i].at = "none"
  BY DEF ChInit, Sleeping, Carriers
<1>5. /\ app.at = "open" /\ app.wrote = 0 /\ app.got = <<>> /\ remote.at = "open" /\ remote.wrote = 0 /\ remote.got = <<>>
      /\ layers = 0
      /\ app \in [at : {"open", "waits", "gone"}, wrote : Nat, got : Seq(Said), greeted : BOOLEAN]
      /\ remote \in [at : {"open", "ended", "left"}, wrote : Nat, got : Seq(Said)]
  BY DEF ChInit
<1>6. ChTypes
  BY <1>3, <1>4, <1>5, ChainAssumption DEF ChTypes
<1>7. AllTold
  BY <1>5 DEF AllTold
<1> HIDE DEF none
<1>8. \A l \in Levels : Passed(channel.down, none, l) = 0 /\ Passed(channel.up, none, l) = 0
  BY <1>1, <1>2, <1>3 DEF Passed
<1>9. \A text \in Texts : Runs(text, 0, <<>>)
  BY DEF Runs, Texts
<1>10. ASSUME NEW dir \in {"fwd", "bwd"}, NEW text \in Texts, NEW line \in Lines, NEW t \in Carriers,
              \A l \in Levels : Passed(line, none, l) = 0 /\ line[l] = Empty, \A i \in 1 .. Layers : t[i].at = "none"
       PROVE  InLine(dir, text, line, t, none, 0, <<>>)
  <2>1. \A l \in Levels : Runs(text, none[l], line[l].data) /\ Passed(line, none, l) <= 0
    BY <1>1, <1>2, <1>9, <1>10
  <2>2. \A i \in 1 .. Layers : Carries(dir, text, line, t, none, i)
    BY <1>1, <1>10, EndsOfLine DEF Carries
  <2>3. Passed(line, none, Begins(dir)) = 0 /\ Len(<<>>) = none[Finishes(dir)] /\ Runs(text, 0, <<>>)
    BY <1>1, <1>9, <1>10, EndsOfLine
  <2>4. QED
    BY <2>1, <2>2, <2>3 DEF InLine
<1>11. /\ channel.down \in Lines /\ channel.up \in Lines /\ ToSend \in Texts /\ ToGet \in Texts
  BY <1>6, ChFacts
<1>12. InLine("fwd", ToSend, channel.down, fwd, none, app.wrote, remote.got)
  BY <1>3, <1>4, <1>5, <1>8, <1>10, <1>11
<1>13. InLine("bwd", ToGet, channel.up, bwd, none, remote.wrote, app.got)
  BY <1>3, <1>4, <1>5, <1>8, <1>10, <1>11
<1>14. Undisturbed(none)
  BY <1>2, <1>3 DEF Undisturbed
<1>15. QED
  BY <1>1, <1>6, <1>7, <1>12, <1>13, <1>14 DEF ChInv, Forward, Backward

LEMMA TheLayerComes == ChInv /\ addToChain => ChInv'
<1> SUFFICES ASSUME ChInv, addToChain PROVE ChInv'
  OBVIOUS
<1> USE ChFacts
<1>1. ChTypes /\ AllTold
  BY DEF ChInv
<1> DEFINE n == layers + 1
           awake == [at |-> "reads", holds |-> <<>>]
<1>2. /\ app.at = "open" /\ layers < Layers /\ layers' = n /\ fwd' = [fwd EXCEPT ![n] = awake]
      /\ bwd' = [bwd EXCEPT ![n] = awake] /\ remote' = remote
  BY DEF addToChain
<1>3. n \in 1 .. Layers /\ n \in Levels /\ n \in 0 .. Layers
  BY <1>1, <1>2 DEF Levels
<1>4. awake \in [at : {"none", "reads", "writes", "done"}, holds : Seq(Said)] /\ awake.at = "reads"
  OBVIOUS
<1>5. /\ fwd' \in Carriers /\ bwd' \in Carriers /\ fwd'[n].at = "reads" /\ bwd'[n].at = "reads"
      /\ \A j \in 1 .. Layers : j # n => fwd'[j] = fwd[j] /\ bwd'[j] = bwd[j]
  BY <1>1, <1>2, <1>3, <1>4 DEF Carriers
<1>6. fwd[n].at = "none" /\ bwd[n].at = "none"
  BY <1>1, <1>3 DEF ChTypes
<1>7. \A j \in 1 .. Layers : /\ fwd'[j] = fwd[j] \/ fwd'[j].at = "done" \/ Starts(fwd, fwd', j)
                             /\ bwd'[j] = bwd[j] \/ bwd'[j].at = "done" \/ Starts(bwd, bwd', j)
  BY <1>5, <1>6 DEF Starts
<1>8. CASE channel' = channel /\ app' = app
  <2>1. ChTypes'
    BY <1>1, <1>2, <1>3, <1>5, <1>8 DEF ChTypes
  <2>2. AllTold'
    BY <1>1, <1>2, <1>3, <1>8 DEF AllTold
  <2>3. PICK taken \in Counts : Forward(taken)
    BY DEF ChInv
  <2>4. InLine("fwd", ToSend, channel.down, fwd', taken, app.wrote, remote.got)
    BY <1>1, <1>5, <1>7, <2>3, ThreadsTurn DEF Forward
  <2>5. Undisturbed(taken)'
    BY <1>2, <1>8, <2>3 DEF Forward, Undisturbed, Passed
  <2>6. Forward(taken)'
    BY <1>2, <1>8, <2>4, <2>5 DEF Forward
  <2>7. PICK behind \in Counts : Backward(behind)
    BY DEF ChInv
  <2>8. InLine("bwd", ToGet, channel.up, bwd', behind, remote.wrote, app.got)
    BY <1>1, <1>5, <1>7, <2>7, ThreadsTurn DEF Backward
  <2>9. Backward(behind)'
    BY <1>2, <1>8, <2>8 DEF Backward
  <2>10. QED
    BY <2>1, <2>2, <2>6, <2>9 DEF ChInv
<1>9. CASE channel' \in {LowerDown(c, n) : c \in UpperFailed(channel, n)} /\ app' = [app EXCEPT !.greeted = FALSE]
  <2>2. PICK half \in UpperFailed(channel, n) : channel' = LowerDown(half, n)
    BY <1>9
  <2>1. half \in Channeled /\ SameData(channel, half)
    BY <1>1, <1>3, ShutKeeps DEF UpperFailed
  <2>3. channel' \in Channeled /\ SameData(half, channel')
    BY <1>3, <2>1, <2>2, ShutKeeps
  <2>4. /\ channel'.down \in Lines /\ channel'.up \in Lines
        /\ \A l \in Levels : channel'.down[l].data = channel.down[l].data /\ channel'.up[l].data = channel.up[l].data
    BY <2>1, <2>3 DEF SameData, Channeled
  <2>5. /\ app' \in [at : {"open", "waits", "gone"}, wrote : Nat, got : Seq(Said), greeted : BOOLEAN]
        /\ app'.greeted = FALSE /\ app'.wrote = app.wrote /\ app'.got = app.got
    BY <1>1, <1>9 DEF ChTypes
  <2>6. ChTypes'
    BY <1>1, <1>2, <1>3, <1>5, <2>3, <2>5 DEF ChTypes
  <2>7. AllTold'
    BY <1>1, <1>2, <1>3, <2>5 DEF AllTold
  <2>8. PICK taken \in Counts : Forward(taken)
    BY DEF ChInv
  <2>9. InLine("fwd", ToSend, channel'.down, fwd', taken, app.wrote, remote.got)
    <3>1. \A l \in Levels : channel'.down[l].data = channel.down[l].data
      BY <2>4
    <3>2. \A j \in 1 .. Layers : fwd'[j] = fwd[j] \/ fwd'[j].at = "done" \/ Starts(fwd, fwd', j)
      BY <1>7
    <3>3. InLine("fwd", ToSend, channel.down, fwd, taken, app.wrote, remote.got)
      BY <2>8 DEF Forward
    <3>4. /\ channel.down \in Lines /\ channel'.down \in Lines /\ fwd \in Carriers /\ fwd' \in Carriers
          /\ app.wrote \in Nat /\ remote.wrote \in Nat /\ app.got \in Texts /\ remote.got \in Texts
          /\ ToSend \in Texts /\ ToGet \in Texts
      BY <1>1, <1>5, <2>4
    <3> HIDE ChFacts
    <3>5. QED
      BY <3>1, <3>2, <3>3, <3>4, ThreadsTurn
  <2>10. Undisturbed(taken)'
    BY <2>5 DEF Undisturbed
  <2>11. Forward(taken)'
    BY <1>2, <2>5, <2>9, <2>10 DEF Forward
  <2>12. PICK behind \in Counts : Backward(behind)
    BY DEF ChInv
  <2>13. InLine("bwd", ToGet, channel'.up, bwd', behind, remote.wrote, app.got)
    <3>1. \A l \in Levels : channel'.up[l].data = channel.up[l].data
      BY <2>4
    <3>2. \A j \in 1 .. Layers : bwd'[j] = bwd[j] \/ bwd'[j].at = "done" \/ Starts(bwd, bwd', j)
      BY <1>7
    <3>3. InLine("bwd", ToGet, channel.up, bwd, behind, remote.wrote, app.got)
      BY <2>12 DEF Backward
    <3>4. /\ channel.up \in Lines /\ channel'.up \in Lines /\ bwd \in Carriers /\ bwd' \in Carriers
          /\ app.wrote \in Nat /\ remote.wrote \in Nat /\ app.got \in Texts /\ remote.got \in Texts
          /\ ToSend \in Texts /\ ToGet \in Texts
      BY <1>1, <1>5, <2>4
    <3> HIDE ChFacts
    <3>5. QED
      BY <3>1, <3>2, <3>3, <3>4, ThreadsTurn
  <2>14. Backward(behind)'
    BY <1>2, <2>5, <2>13 DEF Backward
  <2>15. QED
    BY <2>6, <2>7, <2>11, <2>14 DEF ChInv
<1>10. QED
  BY <1>8, <1>9 DEF addToChain

LEMMA TheApplicationWrites == ChInv /\ partialWrite => ChInv'
<1> SUFFICES ASSUME ChInv, partialWrite PROVE ChInv'
  OBVIOUS
<1>1. ChTypes /\ AllTold
  BY DEF ChInv
<1>2. /\ app.at = "open" /\ layers = Layers /\ app.wrote < Len(ToSend) /\ fwd' = fwd /\ bwd' = bwd
      /\ remote' = remote /\ layers' = layers /\ app' = [app EXCEPT !.wrote = app.wrote + 1]
      /\ channel' = [channel EXCEPT !.down[layers].data = Append(channel.down[layers].data, ToSend[app.wrote + 1])]
  BY DEF partialWrite
<1>3. /\ channel \in Channeled /\ channel.down \in Lines /\ layers \in Levels /\ app.wrote \in Nat
      /\ ToSend \in Texts /\ fwd \in Carriers /\ remote.got \in Texts
  BY <1>1, ChFacts
<1> DEFINE more == Append(channel.down[layers].data, ToSend[app.wrote + 1])
<1>4. more \in Seq(Said)
  <2>1. app.wrote + 1 \in 1 .. Len(ToSend)
    BY <1>2, <1>3 DEF Texts
  <2>2. ToSend[app.wrote + 1] \in Said /\ channel.down[layers].data \in Seq(Said)
    BY <1>3, <2>1 DEF Texts, Lines, Channels
  <2>3. QED
    BY <2>2
<1>5. channel' = [channel EXCEPT !.down[layers].data = more]
  BY <1>2
<1> HIDE DEF more
<1>6. /\ channel' \in Channeled /\ SameFlags(channel, channel') /\ channel'.up = channel.up
      /\ channel'.down[layers].data = more /\ SameElsewhere(channel.down, channel'.down, layers)
      /\ channel'.down \in Lines
  <2>1. MovedDown(channel, layers, more, channel')
    BY <1>5 DEF MovedDown
  <2>2. QED
    BY <1>3, <1>4, <2>1, MovesDown
<1>7. /\ app' \in [at : {"open", "waits", "gone"}, wrote : Nat, got : Seq(Said), greeted : BOOLEAN]
      /\ app'.at = app.at /\ app'.greeted = app.greeted /\ app'.wrote = app.wrote + 1 /\ app'.got = app.got
  BY <1>1, <1>2 DEF ChTypes
<1>8. ChTypes'
  BY <1>1, <1>2, <1>6, <1>7 DEF ChTypes
<1>9. AllTold'
  BY <1>1, <1>2, <1>3, <1>7, ChFacts DEF AllTold
<1>10. PICK taken \in Counts : Forward(taken)
  BY DEF ChInv
<1>11. InLine("fwd", ToSend, channel'.down, fwd, taken, app.wrote + 1, remote.got)
  <2>1. Begins("fwd") = layers
    BY <1>2 DEF Begins
  <2>2. channel'.down[layers].data = Append(channel.down[layers].data, ToSend[app.wrote + 1])
    BY <1>6 DEF more
  <2>3. InLine("fwd", ToSend, channel.down, fwd, taken, app.wrote, remote.got)
    BY <1>10 DEF Forward
  <2>4. QED
    BY <1>2, <1>3, <1>6, <2>1, <2>2, <2>3, LineGrows
<1>12. Undisturbed(taken)'
  <2>1. StillPassed(taken, taken)
    BY <1>2 DEF StillPassed
  <2>2. Undisturbed(taken)
    BY <1>10 DEF Forward
  <2>3. QED
    BY <1>2, <1>6, <1>7, <2>1, <2>2, StaysUndisturbed
<1>13. Forward(taken)'
  BY <1>2, <1>7, <1>11, <1>12 DEF Forward
<1>14. PICK behind \in Counts : Backward(behind)
  BY DEF ChInv
<1>15. Backward(behind)'
  BY <1>2, <1>6, <1>7, <1>14 DEF Backward
<1>16. QED
  BY <1>8, <1>9, <1>13, <1>15 DEF ChInv

LEMMA TheApplicationReads == ChInv /\ partialRead => ChInv'
<1> SUFFICES ASSUME ChInv, partialRead PROVE ChInv'
  OBVIOUS
<1>1. ChTypes /\ AllTold
  BY DEF ChInv
<1> DEFINE rest == Tail(channel.up[layers].data)
           more == Append(app.got, Head(channel.up[layers].data))
<1>2. /\ app.at = "open" /\ layers = Layers /\ channel.up[layers].data # <<>> /\ fwd' = fwd /\ bwd' = bwd
      /\ remote' = remote /\ layers' = layers /\ app' = [app EXCEPT !.got = more]
      /\ channel' = [channel EXCEPT !.up[layers].data = rest]
  BY DEF partialRead
<1>3. /\ channel \in Channeled /\ channel.up \in Lines /\ layers \in Levels /\ remote.wrote \in Nat
      /\ ToGet \in Texts /\ bwd \in Carriers /\ app.got \in Texts
  BY <1>1, ChFacts
<1>4. rest \in Seq(Said) /\ more \in Seq(Said) /\ more \in Texts
  <2>1. channel.up[layers].data \in Seq(Said) /\ channel.up[layers].data # <<>> /\ app.got \in Seq(Said)
    BY <1>2, <1>3 DEF Texts, Lines, Channels
  <2>2. QED
    BY <2>1 DEF Texts
<1> HIDE DEF rest, more
<1>5. /\ channel' \in Channeled /\ SameFlags(channel, channel') /\ channel'.down = channel.down
      /\ channel'.up[layers].data = rest /\ SameElsewhere(channel.up, channel'.up, layers)
      /\ channel'.up \in Lines
  <2>1. MovedUp(channel, layers, rest, channel')
    BY <1>2 DEF MovedUp
  <2>2. QED
    BY <1>3, <1>4, <2>1, MovesUp
<1>6. /\ app' \in [at : {"open", "waits", "gone"}, wrote : Nat, got : Seq(Said), greeted : BOOLEAN]
      /\ app'.at = app.at /\ app'.greeted = app.greeted /\ app'.wrote = app.wrote /\ app'.got = more
  BY <1>1, <1>2, <1>4 DEF ChTypes
<1>7. ChTypes'
  BY <1>1, <1>2, <1>5, <1>6 DEF ChTypes
<1>8. AllTold'
  BY <1>1, <1>2, <1>6 DEF AllTold
<1>9. PICK taken \in Counts : Forward(taken)
  BY DEF ChInv
<1>10. Undisturbed(taken)'
  <2>1. StillPassed(taken, taken)
    BY <1>5, <1>6 DEF StillPassed, Passed
  <2>2. Undisturbed(taken)
    BY <1>9 DEF Forward
  <2>3. QED
    BY <1>2, <1>5, <1>6, <2>1, <2>2, StaysUndisturbed
<1>11. Forward(taken)'
  BY <1>2, <1>5, <1>6, <1>9, <1>10 DEF Forward
<1>12. PICK behind \in Counts : Backward(behind)
  BY DEF ChInv
<1>13. PICK behind2 \in Counts : InLine("bwd", ToGet, channel'.up, bwd, behind2, remote.wrote, more)
  <2>1. Finishes("bwd") = layers
    BY <1>2 DEF Finishes
  <2>2. channel'.up[layers].data = Tail(channel.up[layers].data) /\ more = Append(app.got, Head(channel.up[layers].data))
    BY <1>5 DEF rest, more
  <2>3. InLine("bwd", ToGet, channel.up, bwd, behind, remote.wrote, app.got)
    BY <1>12 DEF Backward
  <2>4. /\ channel.up[Finishes("bwd")].data # <<>>
        /\ channel'.up[Finishes("bwd")].data = Tail(channel.up[Finishes("bwd")].data)
        /\ more = Append(app.got, Head(channel.up[Finishes("bwd")].data))
        /\ SameElsewhere(channel.up, channel'.up, Finishes("bwd"))
    BY <1>2, <1>5, <2>1, <2>2
  <2> DEFINE line == channel.up
             line2 == channel'.up
             heard == app.got
  <2>5. /\ line \in Lines /\ line2 \in Lines /\ heard \in Texts /\ more \in Texts /\ remote.wrote \in Nat
        /\ ToGet \in Texts /\ bwd \in Carriers /\ Telling("bwd", ToGet, line, line2, bwd, behind, remote.wrote, heard, more)
    BY <1>3, <1>4, <1>5, <2>3, <2>4 DEF Telling
  <2> HIDE DEF line, line2, heard
  <2>6. \E taken2 \in Counts : /\ InLine("bwd", ToGet, line2, bwd, taken2, remote.wrote, more)
                                /\ SamePassed(line, behind, line2, taken2)
    BY <2>5, LineTells
  <2>7. QED
    BY <2>6 DEF line, line2, SamePassed
<1>14. Backward(behind2)'
  BY <1>2, <1>6, <1>13 DEF Backward
<1>15. QED
  BY <1>7, <1>8, <1>11, <1>14 DEF ChInv

LEMMA TheOtherSideReads == ChInv /\ RemoteReads => ChInv'
<1> SUFFICES ASSUME ChInv, RemoteReads PROVE ChInv'
  OBVIOUS
<1>1. ChTypes /\ AllTold
  BY DEF ChInv
<1> DEFINE rest == Tail(channel.down[0].data)
           more == Append(remote.got, Head(channel.down[0].data))
<1>2. /\ remote.at = "open" /\ channel.down[0].data # <<>> /\ fwd' = fwd /\ bwd' = bwd
      /\ app' = app /\ layers' = layers /\ remote' = [remote EXCEPT !.got = more]
      /\ channel' = [channel EXCEPT !.down[0].data = rest]
  BY DEF RemoteReads
<1>3. /\ channel \in Channeled /\ channel.down \in Lines /\ 0 \in Levels /\ app.wrote \in Nat
      /\ ToSend \in Texts /\ fwd \in Carriers /\ remote.got \in Texts
  BY <1>1, ChFacts
<1>4. rest \in Seq(Said) /\ more \in Seq(Said) /\ more \in Texts
  <2>1. channel.down[0].data \in Seq(Said) /\ channel.down[0].data # <<>> /\ remote.got \in Seq(Said)
    BY <1>2, <1>3 DEF Texts, Lines, Channels
  <2>2. QED
    BY <2>1 DEF Texts
<1> HIDE DEF rest, more
<1>5. /\ channel' \in Channeled /\ SameFlags(channel, channel') /\ channel'.up = channel.up
      /\ channel'.down[0].data = rest /\ SameElsewhere(channel.down, channel'.down, 0)
      /\ channel'.down \in Lines
  <2>1. MovedDown(channel, 0, rest, channel')
    BY <1>2 DEF MovedDown
  <2>2. QED
    BY <1>3, <1>4, <2>1, MovesDown
<1>6. /\ remote' \in [at : {"open", "ended", "left"}, wrote : Nat, got : Seq(Said)]
      /\ remote'.at = "open" /\ remote'.wrote = remote.wrote /\ remote'.got = more
  BY <1>1, <1>2, <1>4 DEF ChTypes
<1>7. ChTypes'
  BY <1>1, <1>2, <1>5, <1>6 DEF ChTypes
<1>8. AllTold'
  BY <1>1, <1>2, <1>6 DEF AllTold
<1>9. PICK taken \in Counts : Forward(taken)
  BY DEF ChInv
<1>10. PICK taken2 \in Counts : /\ InLine("fwd", ToSend, channel'.down, fwd, taken2, app.wrote, more)
                                /\ \A l \in Levels : Passed(channel'.down, taken2, l) = Passed(channel.down, taken, l)
  <2>1. Finishes("fwd") = 0
    BY DEF Finishes
  <2>2. channel'.down[0].data = Tail(channel.down[0].data) /\ more = Append(remote.got, Head(channel.down[0].data))
    BY <1>5 DEF rest, more
  <2>3. InLine("fwd", ToSend, channel.down, fwd, taken, app.wrote, remote.got)
    BY <1>9 DEF Forward
  <2>4. /\ channel.down[Finishes("fwd")].data # <<>>
        /\ channel'.down[Finishes("fwd")].data = Tail(channel.down[Finishes("fwd")].data)
        /\ more = Append(remote.got, Head(channel.down[Finishes("fwd")].data))
        /\ SameElsewhere(channel.down, channel'.down, Finishes("fwd"))
    BY <1>2, <1>5, <2>1, <2>2
  <2> DEFINE line == channel.down
             line2 == channel'.down
             heard == remote.got
  <2>5. /\ line \in Lines /\ line2 \in Lines /\ heard \in Texts /\ more \in Texts /\ app.wrote \in Nat
        /\ ToSend \in Texts /\ fwd \in Carriers /\ Telling("fwd", ToSend, line, line2, fwd, taken, app.wrote, heard, more)
    BY <1>3, <1>4, <1>5, <2>3, <2>4 DEF Telling
  <2> HIDE DEF line, line2, heard
  <2>6. \E taken2 \in Counts : /\ InLine("fwd", ToSend, line2, fwd, taken2, app.wrote, more)
                                /\ SamePassed(line, taken, line2, taken2)
    BY <2>5, LineTells
  <2>7. QED
    BY <2>6 DEF line, line2, SamePassed
<1>11. Undisturbed(taken2)'
  <2>1. StillPassed(taken, taken2)
    BY <1>2, <1>10 DEF StillPassed
  <2>2. Undisturbed(taken)
    BY <1>9 DEF Forward
  <2>3. QED
    BY <1>2, <1>5, <2>1, <2>2, StaysUndisturbed
<1>12. Forward(taken2)'
  BY <1>2, <1>6, <1>10, <1>11 DEF Forward
<1>13. PICK behind \in Counts : Backward(behind)
  BY DEF ChInv
<1>14. Backward(behind)'
  BY <1>2, <1>5, <1>6, <1>13 DEF Backward
<1>15. QED
  BY <1>7, <1>8, <1>12, <1>14 DEF ChInv

LEMMA TheOtherSideWrites == ChInv /\ RemoteWrites => ChInv'
<1> SUFFICES ASSUME ChInv, RemoteWrites PROVE ChInv'
  OBVIOUS
<1>1. ChTypes /\ AllTold
  BY DEF ChInv
<1> DEFINE more == Append(channel.up[0].data, ToGet[remote.wrote + 1])
<1>2. /\ remote.at = "open" /\ remote.wrote < Len(ToGet) /\ fwd' = fwd /\ bwd' = bwd
      /\ app' = app /\ layers' = layers /\ remote' = [remote EXCEPT !.wrote = remote.wrote + 1]
      /\ channel' = [channel EXCEPT !.up[0].data = more]
  BY DEF RemoteWrites
<1>3. /\ channel \in Channeled /\ channel.up \in Lines /\ 0 \in Levels /\ remote.wrote \in Nat
      /\ ToGet \in Texts /\ bwd \in Carriers /\ app.got \in Texts
  BY <1>1, ChFacts
<1>4. more \in Seq(Said)
  <2>1. remote.wrote + 1 \in 1 .. Len(ToGet)
    BY <1>2, <1>3 DEF Texts
  <2>2. ToGet[remote.wrote + 1] \in Said /\ channel.up[0].data \in Seq(Said)
    BY <1>3, <2>1 DEF Texts, Lines, Channels
  <2>3. QED
    BY <2>2
<1> HIDE DEF more
<1>5. /\ channel' \in Channeled /\ SameFlags(channel, channel') /\ channel'.down = channel.down
      /\ channel'.up[0].data = more /\ SameElsewhere(channel.up, channel'.up, 0)
      /\ channel'.up \in Lines
  <2>1. MovedUp(channel, 0, more, channel')
    BY <1>2 DEF MovedUp
  <2>2. QED
    BY <1>3, <1>4, <2>1, MovesUp
<1>6. /\ remote' \in [at : {"open", "ended", "left"}, wrote : Nat, got : Seq(Said)]
      /\ remote'.at = "open" /\ remote'.wrote = remote.wrote + 1 /\ remote'.got = remote.got
  <2>1. remote \in [at : {"open", "ended", "left"}, wrote : Nat, got : Seq(Said)] /\ remote.wrote + 1 \in Nat
    BY <1>1, <1>3 DEF ChTypes
  <2>2. remote' = [remote EXCEPT !.wrote = remote.wrote + 1] /\ remote.at = "open"
    BY <1>2
  <2>3. QED
    BY <2>1, <2>2
<1>7. ChTypes'
  BY <1>1, <1>2, <1>5, <1>6 DEF ChTypes
<1>8. AllTold'
  BY <1>1, <1>2, <1>6 DEF AllTold
<1>9. PICK taken \in Counts : Forward(taken)
  BY DEF ChInv
<1>10. Undisturbed(taken)'
  <2>1. StillPassed(taken, taken)
    BY <1>2, <1>5 DEF StillPassed, Passed
  <2>2. Undisturbed(taken)
    BY <1>9 DEF Forward
  <2>3. QED
    BY <1>2, <1>5, <2>1, <2>2, StaysUndisturbed
<1>11. Forward(taken)'
  BY <1>2, <1>5, <1>6, <1>9, <1>10 DEF Forward
<1>12. PICK behind \in Counts : Backward(behind)
  BY DEF ChInv
<1>13. InLine("bwd", ToGet, channel'.up, bwd, behind, remote.wrote + 1, app.got)
  <2>1. Begins("bwd") = 0
    BY DEF Begins
  <2>2. channel'.up[0].data = Append(channel.up[0].data, ToGet[remote.wrote + 1])
    BY <1>5 DEF more
  <2>3. InLine("bwd", ToGet, channel.up, bwd, behind, remote.wrote, app.got)
    BY <1>12 DEF Backward
  <2>4. QED
    BY <1>2, <1>3, <1>5, <2>1, <2>2, <2>3, LineGrows
<1>14. Backward(behind)'
  BY <1>2, <1>6, <1>13 DEF Backward
<1>15. QED
  BY <1>7, <1>8, <1>11, <1>14 DEF ChInv

LEMMA TheChainIsLeft == ChInv /\ ChainDestroys => ChInv'
<1> SUFFICES ASSUME ChInv, ChainDestroys PROVE ChInv'
  OBVIOUS
<1>1. ChTypes /\ AllTold
  BY DEF ChInv
<1>2. /\ app.at = "open" /\ fwd' = fwd /\ bwd' = bwd /\ remote' = remote /\ layers' = layers
      /\ app' = [app EXCEPT !.at = "waits"] /\ channel' = [channel EXCEPT !.down[layers].wshut = TRUE]
  BY DEF ChainDestroys
<1>3. /\ channel \in Channeled /\ channel.down \in Lines /\ channel.up \in Lines /\ layers \in Levels
      /\ layers \in Nat /\ Layers \in Nat /\ layers <= Layers /\ app.wrote \in Nat
      /\ ToSend \in Texts /\ fwd \in Carriers /\ remote.got \in Texts
  BY <1>1, ChFacts
<1>4. channel' = [down |-> WriterShut(channel.down, layers), up |-> channel.up]
  <2> DEFINE d == WriterShut(channel.down, layers)
  <2>1. channel' = [channel EXCEPT !.down = d]
    BY <1>2, <1>3 DEF WriterShut, Channeled
  <2> HIDE DEF d
  <2>2. PICK x \in Lines, y \in Lines : channel = [down |-> x, up |-> y]
    BY <1>3 DEF Channeled
  <2>3. channel' = [down |-> d, up |-> y]
    BY <2>1, <2>2, PartChanges
  <2>4. QED
    BY <2>2, <2>3 DEF d
<1> DEFINE line == WriterShut(channel.down, layers)
<1>5. /\ line \in Lines
      /\ \A l \in Levels : /\ line[l].data = channel.down[l].data /\ line[l].rshut = channel.down[l].rshut
                           /\ l # layers => line[l] = channel.down[l]
      /\ line[layers].wshut = TRUE
  <2>1. OnlyWriter(channel.down, line, layers)
    BY <1>3, EndShut
  <2> HIDE DEF line
  <2>2. QED
    BY <2>1 DEF OnlyWriter
<1> HIDE DEF line
<1>6. channel'.down = line /\ channel'.up = channel.up /\ channel' \in Channeled
  BY <1>3, <1>4, <1>5 DEF Channeled, line
<1>7. /\ app' \in [at : {"open", "waits", "gone"}, wrote : Nat, got : Seq(Said), greeted : BOOLEAN]
      /\ app'.at = "waits" /\ app'.greeted = app.greeted /\ app'.wrote = app.wrote /\ app'.got = app.got
  BY <1>1, <1>2 DEF ChTypes
<1>8. ChTypes'
  BY <1>1, <1>2, <1>6, <1>7 DEF ChTypes
<1>9. AllTold'
  BY <1>1, <1>2, <1>7 DEF AllTold
<1>10. PICK taken \in Counts : Forward(taken)
  BY DEF ChInv
<1>11. InLine("fwd", ToSend, channel.down, fwd, taken, app.wrote, remote.got) /\ Undisturbed(taken)
  BY <1>10 DEF Forward
<1>12. InLine("fwd", ToSend, line, fwd, taken, app.wrote, remote.got)
  <2>1. \A l \in Levels : line[l].data = channel.down[l].data
    BY <1>5
  <2>2. \A j \in 1 .. Layers : fwd[j] = fwd[j] \/ fwd[j].at = "done" \/ Starts(fwd, fwd, j)
    OBVIOUS
  <2>3. QED
    BY <1>3, <1>5, <1>11, <2>1, <2>2, ThreadsTurn
<1>13. \A l \in Levels : Passed(line, taken, l) = Passed(channel.down, taken, l)
  BY <1>5 DEF Passed
\* What was written has passed the last layer: there is none yet, and nothing was written, or it is where one writes.
<1>14. Passed(channel.down, taken, layers) = app.wrote
  <2>1. CASE layers = Layers
    BY <1>11, <2>1 DEF InLine, Begins
  <2>2. CASE layers # Layers
    <3>1. app.wrote = 0
      BY <1>1, <1>3, <2>2 DEF AllTold
    <3>2. Passed(channel.down, taken, layers) <= app.wrote
      BY <1>3, <1>11 DEF InLine
    <3>3. Passed(channel.down, taken, layers) \in Nat
      BY <1>3 DEF Passed, Counts, Lines, Channels
    <3>4. QED
      BY <3>1, <3>2, <3>3
  <2>3. QED
    BY <2>1, <2>2
<1>15. Undisturbed(taken)'
  <2> SUFFICES ASSUME app.greeted, remote.at = "open"
               PROVE  /\ \A l \in Levels : ~channel.up[l].wshut /\ ~channel.up[l].rshut
                      /\ \A l \in Levels : line[l].rshut => line[l].wshut
                      /\ \A l \in Levels : line[l].wshut => Passed(line, taken, l) = app.wrote
    BY <1>2, <1>6, <1>7 DEF Undisturbed, Passed
  <2>1. /\ \A l \in Levels : ~channel.up[l].wshut /\ ~channel.up[l].rshut
        /\ \A l \in Levels : channel.down[l].rshut => channel.down[l].wshut
        /\ \A l \in Levels : channel.down[l].wshut => Passed(channel.down, taken, l) = app.wrote
    BY <1>11 DEF Undisturbed
  <2>2. \A l \in Levels : line[l].rshut => line[l].wshut
    BY <1>5, <2>1
  <2>3. \A l \in Levels : line[l].wshut => Passed(line, taken, l) = app.wrote
    BY <1>5, <1>13, <1>14, <2>1
  <2>4. QED
    BY <2>1, <2>2, <2>3
<1>16. Forward(taken)'
  BY <1>2, <1>6, <1>7, <1>12, <1>15 DEF Forward
<1>17. PICK behind \in Counts : Backward(behind)
  BY DEF ChInv
<1>18. Backward(behind)'
  BY <1>2, <1>6, <1>7, <1>17 DEF Backward
<1>19. QED
  BY <1>8, <1>9, <1>16, <1>18 DEF ChInv

LEMMA TheChainGoes == ChInv /\ waitUntilFinish => ChInv'
<1> SUFFICES ASSUME ChInv, waitUntilFinish PROVE ChInv'
  OBVIOUS
<1>1. ChTypes /\ AllTold
  BY DEF ChInv
<1>2. /\ app.at = "waits" /\ fwd' = fwd /\ bwd' = bwd /\ remote' = remote /\ layers' = layers
      /\ app' = [app EXCEPT !.at = "gone"] /\ channel' = channel
  BY DEF waitUntilFinish
<1>3. /\ app' \in [at : {"open", "waits", "gone"}, wrote : Nat, got : Seq(Said), greeted : BOOLEAN]
      /\ app'.at = "gone" /\ app'.greeted = app.greeted /\ app'.wrote = app.wrote /\ app'.got = app.got
  BY <1>1, <1>2 DEF ChTypes
<1>4. ChTypes'
  BY <1>1, <1>2, <1>3 DEF ChTypes
<1>5. AllTold'
  BY <1>1, <1>2, <1>3 DEF AllTold
<1>6. PICK taken \in Counts : Forward(taken)
  BY DEF ChInv
<1>7. Undisturbed(taken)'
  BY <1>2, <1>3, <1>6 DEF Forward, Undisturbed, Passed
<1>8. Forward(taken)'
  BY <1>2, <1>3, <1>6, <1>7 DEF Forward
<1>9. PICK behind \in Counts : Backward(behind)
  BY DEF ChInv
<1>10. Backward(behind)'
  BY <1>2, <1>3, <1>9 DEF Backward
<1>11. QED
  BY <1>4, <1>5, <1>8, <1>10 DEF ChInv

LEMMA TheOtherSideEnds == ChInv /\ RemoteEnds => ChInv'
<1> SUFFICES ASSUME ChInv, RemoteEnds PROVE ChInv'
  OBVIOUS
<1>1. ChTypes /\ AllTold
  BY DEF ChInv
<1> DEFINE how == IF Ended(channel.down[0]) THEN "ended" ELSE "left"
<1>2. /\ remote.at = "open" /\ fwd' = fwd /\ bwd' = bwd /\ layers' = layers /\ app' = app
      /\ remote' = [remote EXCEPT !.at = how] /\ channel' = LowerDown(channel, 0)
  BY DEF RemoteEnds
<1>3. how \in {"ended", "left"} /\ (how = "ended" => Ended(channel.down[0]))
  OBVIOUS
<1> HIDE DEF how
<1>4. /\ channel \in Channeled /\ channel.down \in Lines /\ channel.up \in Lines /\ 0 \in Levels
      /\ app.wrote \in Nat /\ remote.wrote \in Nat /\ app.got \in Texts /\ remote.got \in Texts
      /\ ToSend \in Texts /\ ToGet \in Texts /\ fwd \in Carriers /\ bwd \in Carriers
  BY <1>1, ChFacts
<1>5. channel' \in Channeled /\ SameData(channel, channel')
  BY <1>2, <1>4, ShutKeeps
<1>6. /\ channel'.down \in Lines /\ channel'.up \in Lines
      /\ \A l \in Levels : channel'.down[l].data = channel.down[l].data
      /\ \A l \in Levels : channel'.up[l].data = channel.up[l].data
  BY <1>5 DEF Channeled, SameData
<1>7. /\ remote' \in [at : {"open", "ended", "left"}, wrote : Nat, got : Seq(Said)]
      /\ remote'.at = how /\ remote'.wrote = remote.wrote /\ remote'.got = remote.got
  BY <1>1, <1>2, <1>3 DEF ChTypes
<1>8. ChTypes'
  BY <1>1, <1>2, <1>5, <1>7 DEF ChTypes
<1>9. PICK taken \in Counts : Forward(taken)
  BY DEF ChInv
<1>10. InLine("fwd", ToSend, channel.down, fwd, taken, app.wrote, remote.got) /\ Undisturbed(taken)
  BY <1>9 DEF Forward
\* The end came after everything.
<1>11. ASSUME app.greeted, Ended(channel.down[0]) PROVE app.at # "open" /\ Len(remote.got) = app.wrote
  <2>1. channel.down[0].data = <<>> /\ (channel.down[0].wshut \/ channel.down[0].rshut)
    BY <1>11 DEF Ended
  <2>2. app.at # "open" /\ Passed(channel.down, taken, 0) = app.wrote
    BY <1>2, <1>4, <1>10, <1>11, <2>1 DEF Undisturbed
  <2>3. taken[0] \in Nat /\ Passed(channel.down, taken, 0) = taken[0]
    BY <1>4, <2>1 DEF Passed, Counts
  <2>4. Len(remote.got) = taken[0]
    BY <1>10 DEF InLine, Finishes
  <2>5. QED
    BY <2>2, <2>3, <2>4
<1>12. AllTold'
  BY <1>1, <1>2, <1>3, <1>7, <1>11 DEF AllTold
<1>13. \A j \in 1 .. Layers : fwd[j] = fwd[j] \/ fwd[j].at = "done" \/ Starts(fwd, fwd, j)
  OBVIOUS
<1>14. InLine("fwd", ToSend, channel'.down, fwd, taken, app.wrote, remote.got)
  BY <1>4, <1>6, <1>10, <1>13, ThreadsTurn
<1>15. Undisturbed(taken)'
  BY <1>3, <1>7 DEF Undisturbed
<1>16. Forward(taken)'
  BY <1>2, <1>7, <1>14, <1>15 DEF Forward
<1>17. PICK behind \in Counts : Backward(behind)
  BY DEF ChInv
<1>18. \A j \in 1 .. Layers : bwd[j] = bwd[j] \/ bwd[j].at = "done" \/ Starts(bwd, bwd, j)
  OBVIOUS
<1>19. InLine("bwd", ToGet, channel'.up, bwd, behind, remote.wrote, app.got)
  BY <1>4, <1>6, <1>17, <1>18, ThreadsTurn DEF Backward
<1>20. Backward(behind)'
  BY <1>2, <1>7, <1>19 DEF Backward
<1>21. QED
  BY <1>8, <1>12, <1>16, <1>20 DEF ChInv

-----------------------------------------------------------------------------
\* A thread ends: the data stay, and what is left to show is that nothing is shut too early.
CalmAfter == \A taken \in Counts : Forward(taken) => Undisturbed(taken)'
Awake(dir, i) == Thread(dir, i).at \in {"reads", "writes"}
LEMMA AThreadEnds ==
    ASSUME ChInv, NEW dir \in {"fwd", "bwd"}, NEW i \in 1 .. Layers, NEW c \in Channeled, SameData(channel, c),
           Awake(dir, i), ThreadEnds(dir, i, c), CalmAfter
    PROVE  ChInv'
<1>1. ChTypes /\ AllTold
  BY DEF ChInv
<1> DEFINE ended == [at |-> "done", holds |-> <<>>]
<1>2. /\ channel' = LoopEnds(c, dir, i) /\ layers' = layers /\ app' = app /\ remote' = remote
      /\ dir = "fwd" => fwd' = [fwd EXCEPT ![i] = ended] /\ bwd' = bwd
      /\ dir = "bwd" => bwd' = [bwd EXCEPT ![i] = ended] /\ fwd' = fwd
  BY DEF ThreadEnds, Moves
<1>3. /\ channel \in Channeled /\ channel.down \in Lines /\ channel.up \in Lines
      /\ app.wrote \in Nat /\ remote.wrote \in Nat /\ app.got \in Texts /\ remote.got \in Texts
      /\ ToSend \in Texts /\ ToGet \in Texts /\ fwd \in Carriers /\ bwd \in Carriers
  BY <1>1, ChFacts
<1>4. channel' \in Channeled /\ SameData(c, channel')
  BY <1>2, LoopEndKeeps
<1>5. /\ channel'.down \in Lines /\ channel'.up \in Lines
      /\ \A l \in Levels : channel'.down[l].data = channel.down[l].data
      /\ \A l \in Levels : channel'.up[l].data = channel.up[l].data
  BY <1>4 DEF Channeled, SameData
<1>6. ended \in [at : {"none", "reads", "writes", "done"}, holds : Seq(Said)] /\ ended.at = "done"
  OBVIOUS
<1> HIDE DEF ended
<1>7. /\ fwd' \in Carriers /\ bwd' \in Carriers
      /\ \A j \in 1 .. Layers : /\ fwd'[j] = fwd[j] \/ (dir = "fwd" /\ j = i /\ fwd'[j] = ended)
                                /\ bwd'[j] = bwd[j] \/ (dir = "bwd" /\ j = i /\ bwd'[j] = ended)
  <2>1. CASE dir = "fwd"
    BY <1>2, <1>3, <1>6, <2>1 DEF Carriers
  <2>2. CASE dir = "bwd"
    BY <1>2, <1>3, <1>6, <2>2 DEF Carriers
  <2>3. QED
    BY <2>1, <2>2
<1>8. i <= layers
  BY <1>1, ChFacts DEF ChTypes, Awake, Thread
<1>9. ChTypes'
  <2>1. \A j \in 1 .. Layers : /\ fwd'[j].at = "writes" => fwd'[j].holds # <<>>
                               /\ bwd'[j].at = "writes" => bwd'[j].holds # <<>>
                               /\ j > layers' => fwd'[j].at = "none" /\ bwd'[j].at = "none"
    <3> SUFFICES ASSUME NEW j \in 1 .. Layers
                 PROVE  /\ fwd'[j].at = "writes" => fwd'[j].holds # <<>>
                        /\ bwd'[j].at = "writes" => bwd'[j].holds # <<>>
                        /\ j > layers => fwd'[j].at = "none" /\ bwd'[j].at = "none"
      BY <1>2
    <3>1. /\ fwd[j].at = "writes" => fwd[j].holds # <<>>
          /\ bwd[j].at = "writes" => bwd[j].holds # <<>>
          /\ j > layers => fwd[j].at = "none" /\ bwd[j].at = "none"
      BY <1>1 DEF ChTypes
    <3>2. /\ fwd'[j] = fwd[j] \/ (j = i /\ fwd'[j] = ended)
          /\ bwd'[j] = bwd[j] \/ (j = i /\ bwd'[j] = ended)
      BY <1>7
    <3>3. j = i => ~(j > layers)
      BY <1>1, <1>8, ChFacts
    <3>4. QED
      BY <1>6, <3>1, <3>2, <3>3
  <2>2. QED
    BY <1>1, <1>2, <1>4, <1>7, <2>1 DEF ChTypes
<1>10. AllTold'
  BY <1>1, <1>2 DEF AllTold
<1>11. \A j \in 1 .. Layers : fwd'[j] = fwd[j] \/ fwd'[j].at = "done" \/ Starts(fwd, fwd', j)
  BY <1>6, <1>7
<1>12. \A j \in 1 .. Layers : bwd'[j] = bwd[j] \/ bwd'[j].at = "done" \/ Starts(bwd, bwd', j)
  BY <1>6, <1>7
<1>13. PICK taken \in Counts : Forward(taken)
  BY DEF ChInv
<1>14. InLine("fwd", ToSend, channel.down, fwd, taken, app.wrote, remote.got)
  BY <1>13 DEF Forward
<1>15. InLine("fwd", ToSend, channel'.down, fwd', taken, app.wrote, remote.got)
  BY <1>3, <1>5, <1>7, <1>11, <1>14, ThreadsTurn
<1>16. Forward(taken)'
  BY <1>2, <1>13, <1>15 DEF Forward, CalmAfter
<1>17. PICK behind \in Counts : Backward(behind)
  BY DEF ChInv
<1>18. InLine("bwd", ToGet, channel.up, bwd, behind, remote.wrote, app.got)
  BY <1>17 DEF Backward
<1>19. InLine("bwd", ToGet, channel'.up, bwd', behind, remote.wrote, app.got)
  BY <1>3, <1>5, <1>7, <1>12, <1>18, ThreadsTurn
<1>20. Backward(behind)'
  BY <1>2, <1>19 DEF Backward
<1>21. QED
  BY <1>9, <1>10, <1>16, <1>20 DEF ChInv

\* Backward threads end only when something was shut, and so does a forward thread that is refused: it holds
\* something still, which has not passed the level below.
LEMMA EndsDisturbed ==
    ASSUME ChInv, NEW dir \in {"fwd", "bwd"}, NEW i \in 1 .. Layers, NEW c, ThreadEnds(dir, i, c),
           \/ dir = "bwd" /\ Ended(Reads(channel, dir, i))
           \/ NoRoom(Writes(channel, dir, i)) /\ Thread(dir, i).at = "writes"
    PROVE  CalmAfter
<1>1. ChTypes
  BY DEF ChInv
<1>2. app' = app /\ remote' = remote
  BY DEF ThreadEnds, Moves
<1>3. SUFFICES ASSUME NEW taken \in Counts, Forward(taken), app.greeted, remote.at = "open" PROVE FALSE
  BY <1>2 DEF CalmAfter, Undisturbed
<1>4. /\ \A l \in Levels : ~channel.up[l].wshut /\ ~channel.up[l].rshut
      /\ \A l \in Levels : channel.down[l].rshut => channel.down[l].wshut
      /\ \A l \in Levels : channel.down[l].wshut => Passed(channel.down, taken, l) = app.wrote
  BY <1>3 DEF Forward, Undisturbed
<1>5. i \in Levels /\ i - 1 \in Levels
  BY LevelFacts
<1>6. CASE dir = "bwd"
  BY <1>4, <1>5, <1>6 DEF Ended, NoRoom, Reads, Writes
<1>7. CASE dir = "fwd" /\ NoRoom(Writes(channel, dir, i)) /\ Thread(dir, i).at = "writes"
  <2>1. channel.down[i - 1].wshut \/ channel.down[i - 1].rshut
    BY <1>7 DEF NoRoom, Writes
  <2>2. Passed(channel.down, taken, i - 1) = app.wrote
    BY <1>4, <1>5, <2>1
  <2>3. InLine("fwd", ToSend, channel.down, fwd, taken, app.wrote, remote.got) /\ fwd[i].at = "writes"
    BY <1>3, <1>7 DEF Forward, Thread
  <2>4. Passed(channel.down, taken, i - 1) + 1 = taken[i]
    BY <2>3 DEF InLine, Carries, Source, Target
  <2>5. taken[i] + Len(channel.down[i].data) <= app.wrote
    BY <1>5, <2>3 DEF InLine, Passed
  <2>6. taken[i] \in Nat /\ Len(channel.down[i].data) \in Nat /\ app.wrote \in Nat
    <3>1. channel.down \in Lines /\ app.wrote \in Nat
      BY <1>1, ChFacts
    <3>2. QED
      BY <1>5, <3>1 DEF Counts, Lines, Channels
  <2>7. QED
    BY <2>2, <2>4, <2>5, <2>6
<1>8. QED
  BY <1>6, <1>7

\* A forward thread that reads the end has carried everything to the level below.
LEMMA EndsInTime ==
    ASSUME ChInv, NEW i \in 1 .. Layers, fwd[i].at = "reads", Ended(channel.down[i]), ThreadEnds("fwd", i, channel)
    PROVE  CalmAfter
<1>1. ChTypes
  BY DEF ChInv
<1>2. app' = app /\ remote' = remote /\ channel' = LoopEnds(channel, "fwd", i)
  BY DEF ThreadEnds, Moves
<1>3. channel \in Channeled /\ channel.down \in Lines /\ i \in Levels /\ i - 1 \in Levels
  BY <1>1, ChFacts, LevelFacts
<1>4. SUFFICES ASSUME NEW taken \in Counts, Forward(taken), app.greeted, remote.at = "open"
               PROVE  /\ \A l \in Levels : ~channel'.up[l].wshut /\ ~channel'.up[l].rshut
                      /\ \A l \in Levels : channel'.down[l].rshut => channel'.down[l].wshut
                      /\ \A l \in Levels : channel'.down[l].wshut =>
                             app.at # "open" /\ Passed(channel'.down, taken, l) = app.wrote
  BY <1>2 DEF CalmAfter, Undisturbed, Passed
<1>5. /\ \A l \in Levels : ~channel.up[l].wshut /\ ~channel.up[l].rshut
      /\ \A l \in Levels : channel.down[l].rshut => channel.down[l].wshut
      /\ \A l \in Levels : channel.down[l].wshut => app.at # "open" /\ Passed(channel.down, taken, l) = app.wrote
  BY <1>4 DEF Forward, Undisturbed
<1>6. \A l \in Levels : /\ channel'.up[l] = channel.up[l]
                        /\ channel'.down[l].wshut => channel.down[l].wshut \/ l = i - 1
                        /\ channel'.down[l].rshut => channel.down[l].rshut \/ l = i
                        /\ channel.down[l].wshut => channel'.down[l].wshut
  BY <1>2, <1>3, ForwardEnd
<1>7. SameData(channel, channel')
  BY <1>2, <1>3, LoopEndKeeps
<1>8. \A l \in Levels : Passed(channel'.down, taken, l) = Passed(channel.down, taken, l)
  BY <1>7 DEF SameData, Passed
<1>9. channel.down[i].wshut /\ channel.down[i].data = <<>>
  BY <1>3, <1>5 DEF Ended
<1>10. app.at # "open" /\ Passed(channel.down, taken, i) = app.wrote
  BY <1>3, <1>5, <1>9
<1>11. taken[i] = app.wrote
  <2>1. Passed(channel.down, taken, i) = taken[i]
    BY <1>3, <1>9 DEF Passed, Counts
  <2>2. QED
    BY <1>10, <2>1
<1>12. Passed(channel.down, taken, i - 1) = app.wrote
  BY <1>4, <1>11 DEF Forward, InLine, Carries, Source, Target
<1>13. \A l \in Levels : ~channel'.up[l].wshut /\ ~channel'.up[l].rshut
  BY <1>5, <1>6
<1>14. \A l \in Levels : channel'.down[l].rshut => channel'.down[l].wshut
  BY <1>5, <1>6, <1>9
<1>15. \A l \in Levels : channel'.down[l].wshut => app.at # "open" /\ Passed(channel'.down, taken, l) = app.wrote
  BY <1>5, <1>6, <1>8, <1>10, <1>12
<1>16. QED
  BY <1>13, <1>14, <1>15

\* A thread that goes on: what the types and the untouched direction need.
LEMMA AThreadMoves ==
    ASSUME ChInv, NEW dir \in {"fwd", "bwd"}, NEW i \in 1 .. Layers, NEW c \in Channeled, SameFlags(channel, c),
           NEW t \in [at : {"none", "reads", "writes", "done"}, holds : Seq(Said)],
           t.at = "writes" => t.holds # <<>>, Awake(dir, i), Moves(dir, i, t, c)
    PROVE  /\ ChTypes' /\ AllTold' /\ channel' = c /\ layers' = layers /\ app' = app /\ remote' = remote
           /\ fwd' \in Carriers /\ bwd' \in Carriers
           /\ dir = "fwd" => fwd'[i] = t /\ OthersRest(fwd, fwd', i) /\ bwd' = bwd
           /\ dir = "bwd" => bwd'[i] = t /\ OthersRest(bwd, bwd', i) /\ fwd' = fwd
<1>1. ChTypes /\ AllTold
  BY DEF ChInv
<1>2. /\ channel' = c /\ layers' = layers /\ app' = app /\ remote' = remote
      /\ dir = "fwd" => fwd' = [fwd EXCEPT ![i] = t] /\ bwd' = bwd
      /\ dir = "bwd" => bwd' = [bwd EXCEPT ![i] = t] /\ fwd' = fwd
  BY DEF Moves
<1>3. fwd \in Carriers /\ bwd \in Carriers
  BY <1>1, ChFacts
<1>4. /\ fwd' \in Carriers /\ bwd' \in Carriers
      /\ \A j \in 1 .. Layers : /\ dir = "fwd" => fwd'[j] = (IF j = i THEN t ELSE fwd[j])
                                /\ dir = "bwd" => bwd'[j] = (IF j = i THEN t ELSE bwd[j])
  <2>1. CASE dir = "fwd"
    BY <1>2, <1>3, <2>1 DEF Carriers
  <2>2. CASE dir = "bwd"
    BY <1>2, <1>3, <2>2 DEF Carriers
  <2>3. QED
    BY <2>1, <2>2
<1>5. i <= layers
  BY <1>1, ChFacts DEF ChTypes, Awake, Thread
<1>6. \A j \in 1 .. Layers : /\ fwd'[j].at = "writes" => fwd'[j].holds # <<>>
                             /\ bwd'[j].at = "writes" => bwd'[j].holds # <<>>
                             /\ j > layers' => fwd'[j].at = "none" /\ bwd'[j].at = "none"
  <2> SUFFICES ASSUME NEW j \in 1 .. Layers
               PROVE  /\ fwd'[j].at = "writes" => fwd'[j].holds # <<>>
                      /\ bwd'[j].at = "writes" => bwd'[j].holds # <<>>
                      /\ j > layers => fwd'[j].at = "none" /\ bwd'[j].at = "none"
    BY <1>2
  <2>1. /\ fwd[j].at = "writes" => fwd[j].holds # <<>>
        /\ bwd[j].at = "writes" => bwd[j].holds # <<>>
        /\ j > layers => fwd[j].at = "none" /\ bwd[j].at = "none"
    BY <1>1 DEF ChTypes
  <2>2. /\ fwd'[j] = fwd[j] \/ (j = i /\ fwd'[j] = t)
        /\ bwd'[j] = bwd[j] \/ (j = i /\ bwd'[j] = t)
    BY <1>2, <1>4
  <2>3. j = i => ~(j > layers)
    BY <1>1, <1>5, ChFacts
  <2>4. QED
    BY <2>1, <2>2, <2>3
<1>7. ChTypes'
  BY <1>1, <1>2, <1>4, <1>6 DEF ChTypes
<1>8. AllTold'
  BY <1>1, <1>2 DEF AllTold
<1>9. QED
  BY <1>2, <1>4, <1>7, <1>8 DEF OthersRest

LEMMA AThreadTakes ==
    ASSUME ChInv, NEW dir \in {"fwd", "bwd"}, NEW i \in 1 .. Layers, Thread(dir, i).at = "reads",
           Reads(channel, dir, i).data # <<>>,
           Moves(dir, i, [at |-> "writes", holds |-> <<Head(Reads(channel, dir, i).data)>>], Takes(channel, dir, i))
    PROVE  ChInv'
<1>1. ChTypes
  BY DEF ChInv
<1>2. /\ channel \in Channeled /\ channel.down \in Lines /\ channel.up \in Lines
      /\ app.wrote \in Nat /\ remote.wrote \in Nat /\ app.got \in Texts /\ remote.got \in Texts
      /\ ToSend \in Texts /\ ToGet \in Texts /\ fwd \in Carriers /\ bwd \in Carriers
      /\ i \in Levels /\ i - 1 \in Levels
  BY <1>1, ChFacts, LevelFacts
<1> DEFINE data == Reads(channel, dir, i).data
           t == [at |-> "writes", holds |-> <<Head(data)>>]
           c == Takes(channel, dir, i)
<1>3. /\ data \in Seq(Said) /\ data # <<>>
      /\ dir = "fwd" => data = channel.down[i].data
      /\ dir = "bwd" => data = channel.up[i - 1].data
  BY <1>2 DEF Reads, Lines, Channels
<1>4. /\ dir = "fwd" => MovedDown(channel, i, Tail(data), c)
      /\ dir = "bwd" => MovedUp(channel, i - 1, Tail(data), c)
  BY <1>3 DEF Takes, MovedDown, MovedUp
<1>5. Moves(dir, i, t, c)
  OBVIOUS
<1> HIDE DEF data, c
<1>6. /\ t \in [at : {"none", "reads", "writes", "done"}, holds : Seq(Said)]
      /\ t.at = "writes" /\ t.holds # <<>> /\ t.holds[1] = Head(data) /\ Tail(data) \in Seq(Said)
  <2>1. Head(data) \in Said /\ Tail(data) \in Seq(Said)
    BY <1>3
  <2>2. <<Head(data)>> \in Seq(Said) /\ <<Head(data)>> # <<>>
    BY <2>1
  <2>3. QED
    BY <2>1, <2>2
<1> HIDE DEF t
<1>7. /\ c \in Channeled /\ SameFlags(channel, c) /\ c.down \in Lines /\ c.up \in Lines
      /\ dir = "fwd" => c.up = channel.up /\ c.down[i].data = Tail(data) /\ SameElsewhere(channel.down, c.down, i)
      /\ dir = "bwd" => c.down = channel.down /\ c.up[i - 1].data = Tail(data) /\ SameElsewhere(channel.up, c.up, i - 1)
  <2>1. CASE dir = "fwd"
    <3> DEFINE piece == Tail(data)
    <3>1. MovedDown(channel, i, piece, c) /\ piece \in Seq(Said)
      BY <1>2, <1>4, <1>6, <2>1
    <3> HIDE DEF piece
    <3>2. /\ c \in Channeled /\ c.down \in Lines /\ SameFlags(channel, c) /\ c.up = channel.up
          /\ c.down[i].data = piece /\ SameElsewhere(channel.down, c.down, i)
      BY <1>2, <3>1, MovesDown
    <3>3. c.up \in Lines
      BY <1>2, <3>2
    <3>4. QED
      BY <2>1, <3>2, <3>3 DEF piece
  <2>2. CASE dir = "bwd"
    <3> DEFINE piece == Tail(data)
    <3>1. MovedUp(channel, i - 1, piece, c) /\ piece \in Seq(Said)
      BY <1>2, <1>4, <1>6, <2>2
    <3> HIDE DEF piece
    <3>2. /\ c \in Channeled /\ c.up \in Lines /\ SameFlags(channel, c) /\ c.down = channel.down
          /\ c.up[i - 1].data = piece /\ SameElsewhere(channel.up, c.up, i - 1)
      BY <1>2, <3>1, MovesUp
    <3>3. c.down \in Lines
      BY <1>2, <3>2
    <3>4. QED
      BY <2>2, <3>2, <3>3 DEF piece
  <2>3. QED
    BY <2>1, <2>2
<1>8. Awake(dir, i)
  BY DEF Awake
<1>9. /\ ChTypes' /\ AllTold' /\ channel' = c /\ layers' = layers /\ app' = app /\ remote' = remote
      /\ fwd' \in Carriers /\ bwd' \in Carriers
      /\ dir = "fwd" => fwd'[i] = t /\ OthersRest(fwd, fwd', i) /\ bwd' = bwd
      /\ dir = "bwd" => bwd'[i] = t /\ OthersRest(bwd, bwd', i) /\ fwd' = fwd
  BY <1>5, <1>6, <1>7, <1>8, AThreadMoves
<1>10. PICK taken \in Counts : Forward(taken)
  BY DEF ChInv
<1>11. PICK behind \in Counts : Backward(behind)
  BY DEF ChInv
<1>12. InLine("fwd", ToSend, channel.down, fwd, taken, app.wrote, remote.got) /\ Undisturbed(taken)
  BY <1>10 DEF Forward
<1>13. CASE dir = "fwd"
  <2>1. Taking("fwd", ToSend, channel.down, c.down, fwd, fwd', taken, app.wrote, remote.got, i)
    <3>1. Source("fwd", i) = i /\ fwd[i].at = "reads"
      BY <1>13 DEF Source, Thread
    <3>2. QED
      BY <1>3, <1>6, <1>7, <1>9, <1>12, <1>13, <3>1 DEF Taking
  <2>2. PICK taken2 \in Counts : /\ InLine("fwd", ToSend, c.down, fwd', taken2, app.wrote, remote.got)
                                 /\ SamePassed(channel.down, taken, c.down, taken2)
    BY <1>2, <1>7, <1>9, <2>1, ThreadTakes
  <2>3. StillPassed(taken, taken2)
    BY <1>9, <2>2 DEF StillPassed, SamePassed
  <2>4. Undisturbed(taken2)'
    BY <1>7, <1>9, <1>12, <2>3, StaysUndisturbed
  <2>5. Forward(taken2)'
    BY <1>9, <2>2, <2>4 DEF Forward
  <2>6. Backward(behind)'
    BY <1>7, <1>9, <1>11, <1>13 DEF Backward
  <2>7. QED
    BY <1>9, <2>5, <2>6 DEF ChInv
<1>14. CASE dir = "bwd"
  <2>1. Taking("bwd", ToGet, channel.up, c.up, bwd, bwd', behind, remote.wrote, app.got, i)
    <3>1. Source("bwd", i) = i - 1 /\ bwd[i].at = "reads"
      BY <1>14 DEF Source, Thread
    <3>2. InLine("bwd", ToGet, channel.up, bwd, behind, remote.wrote, app.got)
      BY <1>11 DEF Backward
    <3>3. QED
      BY <1>3, <1>6, <1>7, <1>9, <1>14, <3>1, <3>2 DEF Taking
  <2>2. PICK behind2 \in Counts : /\ InLine("bwd", ToGet, c.up, bwd', behind2, remote.wrote, app.got)
                                  /\ SamePassed(channel.up, behind, c.up, behind2)
    BY <1>2, <1>7, <1>9, <2>1, ThreadTakes
  <2>3. StillPassed(taken, taken)
    BY <1>7, <1>9, <1>14 DEF StillPassed, Passed
  <2>4. Undisturbed(taken)'
    BY <1>7, <1>9, <1>12, <2>3, StaysUndisturbed
  <2>5. Forward(taken)'
    BY <1>7, <1>9, <1>12, <1>14, <2>4 DEF Forward
  <2>6. Backward(behind2)'
    BY <1>9, <2>2 DEF Backward
  <2>7. QED
    BY <1>9, <2>5, <2>6 DEF ChInv
<1>15. QED
  BY <1>13, <1>14

LEMMA AThreadPuts ==
    ASSUME ChInv, NEW dir \in {"fwd", "bwd"}, NEW i \in 1 .. Layers, Thread(dir, i).at = "writes",
           Room(Writes(channel, dir, i)),
           Moves(dir, i, [at |-> "reads", holds |-> <<>>], Puts(channel, dir, i, Thread(dir, i).holds[1]))
    PROVE  ChInv'
<1>1. ChTypes
  BY DEF ChInv
<1>2. /\ channel \in Channeled /\ channel.down \in Lines /\ channel.up \in Lines
      /\ app.wrote \in Nat /\ remote.wrote \in Nat /\ app.got \in Texts /\ remote.got \in Texts
      /\ ToSend \in Texts /\ ToGet \in Texts /\ fwd \in Carriers /\ bwd \in Carriers
      /\ i \in Levels /\ i - 1 \in Levels
  BY <1>1, ChFacts, LevelFacts
<1> DEFINE x == Thread(dir, i).holds[1]
           t == [at |-> "reads", holds |-> <<>>]
           c == Puts(channel, dir, i, x)
           data == IF dir = "fwd" THEN channel.down[i - 1].data ELSE channel.up[i].data
<1>3. /\ Thread(dir, i).holds # <<>> /\ Thread(dir, i).holds \in Seq(Said) /\ data \in Seq(Said)
      /\ Thread(dir, i).holds[1] = x
  BY <1>1, <1>2 DEF ChTypes, Thread, Carriers, Lines, Channels
<1>4. x \in Said
  BY <1>3
<1>5. Append(data, x) \in Seq(Said)
  BY <1>3, <1>4
<1>6. /\ dir = "fwd" => MovedDown(channel, i - 1, Append(data, x), c)
      /\ dir = "bwd" => MovedUp(channel, i, Append(data, x), c)
  BY DEF Puts, MovedDown, MovedUp
<1>7. Moves(dir, i, t, c)
  OBVIOUS
<1>8. /\ dir = "fwd" => data = channel.down[i - 1].data
      /\ dir = "bwd" => data = channel.up[i].data
  OBVIOUS
<1> HIDE DEF data, c, x
<1>9. t \in [at : {"none", "reads", "writes", "done"}, holds : Seq(Said)] /\ t.at = "reads"
  OBVIOUS
<1> HIDE DEF t
<1>10. /\ c \in Channeled /\ SameFlags(channel, c) /\ c.down \in Lines /\ c.up \in Lines
       /\ dir = "fwd" => /\ c.up = channel.up /\ c.down[i - 1].data = Append(data, x)
                         /\ SameElsewhere(channel.down, c.down, i - 1)
       /\ dir = "bwd" => /\ c.down = channel.down /\ c.up[i].data = Append(data, x)
                         /\ SameElsewhere(channel.up, c.up, i)
  <2>1. CASE dir = "fwd"
    <3> DEFINE piece == Append(data, x)
    <3>1. MovedDown(channel, i - 1, piece, c) /\ piece \in Seq(Said)
      BY <1>2, <1>5, <1>6, <2>1
    <3> HIDE DEF piece
    <3>2. /\ c \in Channeled /\ c.down \in Lines /\ SameFlags(channel, c) /\ c.up = channel.up
          /\ c.down[i - 1].data = piece /\ SameElsewhere(channel.down, c.down, i - 1)
      BY <1>2, <3>1, MovesDown
    <3>3. c.up \in Lines
      BY <1>2, <3>2
    <3>4. QED
      BY <2>1, <3>2, <3>3 DEF piece
  <2>2. CASE dir = "bwd"
    <3> DEFINE piece == Append(data, x)
    <3>1. MovedUp(channel, i, piece, c) /\ piece \in Seq(Said)
      BY <1>2, <1>5, <1>6, <2>2
    <3> HIDE DEF piece
    <3>2. /\ c \in Channeled /\ c.up \in Lines /\ SameFlags(channel, c) /\ c.down = channel.down
          /\ c.up[i].data = piece /\ SameElsewhere(channel.up, c.up, i)
      BY <1>2, <3>1, MovesUp
    <3>3. c.down \in Lines
      BY <1>2, <3>2
    <3>4. QED
      BY <2>2, <3>2, <3>3 DEF piece
  <2>3. QED
    BY <2>1, <2>2
<1>11. Awake(dir, i)
  BY DEF Awake
<1>12. /\ ChTypes' /\ AllTold' /\ channel' = c /\ layers' = layers /\ app' = app /\ remote' = remote
       /\ fwd' \in Carriers /\ bwd' \in Carriers
       /\ dir = "fwd" => fwd'[i] = t /\ OthersRest(fwd, fwd', i) /\ bwd' = bwd
       /\ dir = "bwd" => bwd'[i] = t /\ OthersRest(bwd, bwd', i) /\ fwd' = fwd
  BY <1>7, <1>9, <1>10, <1>11, AThreadMoves
<1>13. PICK taken \in Counts : Forward(taken)
  BY DEF ChInv
<1>14. PICK behind \in Counts : Backward(behind)
  BY DEF ChInv
<1>15. InLine("fwd", ToSend, channel.down, fwd, taken, app.wrote, remote.got) /\ Undisturbed(taken)
  BY <1>13 DEF Forward
<1>16. CASE dir = "fwd"
  <2>1. Target("fwd", i) = i - 1 /\ fwd[i].at = "writes" /\ fwd[i].holds # <<>> /\ fwd[i].holds[1] = x
    BY <1>3, <1>16 DEF Target, Thread
  <2>2. Putting("fwd", ToSend, channel.down, c.down, fwd, fwd', taken, app.wrote, remote.got, i)
    BY <1>8, <1>9, <1>10, <1>12, <1>15, <1>16, <2>1 DEF Putting
  <2>3. /\ InLine("fwd", ToSend, c.down, fwd', taken, app.wrote, remote.got)
        /\ \A l \in Levels : l # Target("fwd", i) => Passed(c.down, taken, l) = Passed(channel.down, taken, l)
    BY <1>2, <1>10, <1>12, <2>2, ThreadPuts
  <2>4. ~channel.down[i - 1].wshut
    BY <1>16 DEF Room, Writes
  <2>5. StillPassed(taken, taken)
    BY <1>12, <2>1, <2>3, <2>4 DEF StillPassed
  <2>6. Undisturbed(taken)'
    BY <1>10, <1>12, <1>15, <2>5, StaysUndisturbed
  <2>7. Forward(taken)'
    BY <1>12, <2>3, <2>6 DEF Forward
  <2>8. Backward(behind)'
    BY <1>10, <1>12, <1>14, <1>16 DEF Backward
  <2>9. QED
    BY <1>12, <2>7, <2>8 DEF ChInv
<1>17. CASE dir = "bwd"
  <2>1. Target("bwd", i) = i /\ bwd[i].at = "writes" /\ bwd[i].holds # <<>> /\ bwd[i].holds[1] = x
    BY <1>3, <1>17 DEF Target, Thread
  <2>2. InLine("bwd", ToGet, channel.up, bwd, behind, remote.wrote, app.got)
    BY <1>14 DEF Backward
  <2>3. Putting("bwd", ToGet, channel.up, c.up, bwd, bwd', behind, remote.wrote, app.got, i)
    BY <1>8, <1>9, <1>10, <1>12, <1>17, <2>1, <2>2 DEF Putting
  <2>4. InLine("bwd", ToGet, c.up, bwd', behind, remote.wrote, app.got)
    BY <1>2, <1>10, <1>12, <2>3, ThreadPuts
  <2>5. StillPassed(taken, taken)
    BY <1>10, <1>12, <1>17 DEF StillPassed, Passed
  <2>6. Undisturbed(taken)'
    BY <1>10, <1>12, <1>15, <2>5, StaysUndisturbed
  <2>7. Forward(taken)'
    BY <1>10, <1>12, <1>15, <1>17, <2>6 DEF Forward
  <2>8. Backward(behind)'
    BY <1>12, <2>4 DEF Backward
  <2>9. QED
    BY <1>12, <2>7, <2>8 DEF ChInv
<1>18. QED
  BY <1>16, <1>17

LEMMA TheThreadsRun == ChInv /\ ThreadsRun => ChInv'
<1> SUFFICES ASSUME ChInv, ThreadsRun PROVE ChInv'
  OBVIOUS
<1>1. PICK i \in 1 .. Layers, dir \in {"fwd", "bwd"} : ThreadReads(dir, i) \/ ThreadWrites(dir, i)
  BY DEF ThreadsRun
<1>2. channel \in Channeled /\ i \in Levels /\ i - 1 \in Levels
  BY ChFacts, LevelFacts DEF ChInv
<1>3. CASE ThreadReads(dir, i)
  <2>1. Thread(dir, i).at = "reads" /\ Awake(dir, i)
    BY <1>3 DEF ThreadReads, Awake
  <2>2. CASE /\ Reads(channel, dir, i).data # <<>>
             /\ Moves(dir, i, [at |-> "writes", holds |-> <<Head(Reads(channel, dir, i).data)>>],
                      Takes(channel, dir, i))
    BY <2>1, <2>2, AThreadTakes
  <2>3. ASSUME EndSeen(channel, dir, i), NEW c \in ReadRefused(channel, dir, i), ThreadEnds(dir, i, c)
        PROVE  ChInv'
    <3>1. CalmAfter
      <4>1. CASE dir = "fwd"
        <5>1. fwd[i].at = "reads" /\ Ended(channel.down[i]) /\ ThreadEnds("fwd", i, channel)
          BY <2>1, <2>3, <4>1 DEF Thread, Reads, EndSeen, ReadRefused
        <5>2. QED
          BY <5>1, EndsInTime
      <4>2. CASE dir = "bwd"
        BY <2>3, <4>2, EndsDisturbed DEF EndSeen
      <4>3. QED
        BY <4>1, <4>2
    <3>2. c \in Channeled /\ SameData(channel, c)
      <4>1. SameData(channel, channel)
        BY DEF SameData
      <4>2. QED
        BY <1>2, <4>1, ShutKeeps DEF ReadRefused
    <3>3. QED
      BY <2>1, <2>3, <3>1, <3>2, AThreadEnds
  <2>4. QED
    BY <1>3, <2>2, <2>3 DEF ThreadReads
<1>4. CASE ThreadWrites(dir, i)
  <2>1. Thread(dir, i).at = "writes" /\ Awake(dir, i)
    BY <1>4 DEF ThreadWrites, Awake
  <2>2. CASE /\ Room(Writes(channel, dir, i))
             /\ Moves(dir, i, [at |-> "reads", holds |-> <<>>], Puts(channel, dir, i, Thread(dir, i).holds[1]))
    BY <2>1, <2>2, AThreadPuts
  <2>3. ASSUME NoRoom(Writes(channel, dir, i)), NEW c \in WriteRefused(channel, dir, i), ThreadEnds(dir, i, c)
        PROVE  ChInv'
    <3>1. c \in Channeled /\ SameData(channel, c)
      BY <1>2, ShutKeeps DEF WriteRefused, UpperFailed
    <3>2. CalmAfter
      BY <2>1, <2>3, EndsDisturbed
    <3>3. QED
      BY <2>1, <2>3, <3>1, <3>2, AThreadEnds
  <2>4. QED
    BY <1>4, <2>2, <2>3 DEF ThreadWrites
<1>5. QED
  BY <1>1, <1>3, <1>4

LEMMA ChStays == ChInv /\ [ChNext]_chvars => ChInv'
<1>1. ChInv /\ UNCHANGED chvars => ChInv'
  <2> SUFFICES ASSUME ChInv, UNCHANGED chvars PROVE ChInv'
    OBVIOUS
  <2>1. /\ channel' = channel /\ layers' = layers /\ fwd' = fwd /\ bwd' = bwd /\ app' = app /\ remote' = remote
    BY DEF chvars
  <2>2. ChTypes' /\ AllTold'
    BY <2>1 DEF ChInv, ChTypes, AllTold
  <2>3. PICK taken \in Counts : Forward(taken)
    BY DEF ChInv
  <2>4. Forward(taken)'
    BY <2>1, <2>3 DEF Forward, Undisturbed, Passed
  <2>5. PICK behind \in Counts : Backward(behind)
    BY DEF ChInv
  <2>6. Backward(behind)'
    BY <2>1, <2>5 DEF Backward
  <2>7. QED
    BY <2>2, <2>4, <2>6 DEF ChInv
<1>2. QED
  BY <1>1, TheLayerComes, TheApplicationWrites, TheApplicationReads, TheChainIsLeft, TheChainGoes, TheThreadsRun,
     TheOtherSideReads, TheOtherSideWrites, TheOtherSideEnds DEF ChNext

LEMMA ArrivedAsWritten == ChInv => EverythingArrives
<1> SUFFICES ASSUME ChInv PROVE EverythingArrives
  OBVIOUS
<1>1. ChTypes /\ AllTold
  BY DEF ChInv
<1>2. /\ channel.down \in Lines /\ 0 \in Levels
      /\ ToSend \in Texts /\ ToGet \in Texts /\ remote.got \in Texts /\ app.got \in Texts /\ app.wrote \in Nat
  BY <1>1, ChFacts
<1>3. ASSUME NEW text \in Texts, NEW s \in Texts, Runs(text, 0, s) PROVE IsPrefix(s, text)
  <2>1. Len(s) \in Nat /\ Len(text) \in Nat /\ Len(s) <= Len(text) /\ \A n \in 1 .. Len(s) : s[n] = text[n]
    BY <1>3 DEF Runs, Texts
  <2> DEFINE front == SubSeq(text, 1, Len(s))
  <2>2. front \in Seq(Said) /\ Len(front) = Len(s) /\ \A n \in 1 .. Len(s) : front[n] = text[n]
    BY <2>1 DEF Texts
  <2> HIDE DEF front
  <2>3. s = front
    BY <2>1, <2>2 DEF Texts
  <2>4. SubSeq(s, 1, Len(s)) = s
    BY <2>1 DEF Texts
  <2>5. QED
    BY <2>1, <2>3, <2>4 DEF IsPrefix, front
<1>4. PICK taken \in Counts : Forward(taken)
  BY DEF ChInv
<1>5. PICK behind \in Counts : Backward(behind)
  BY DEF ChInv
<1>6. IsPrefix(remote.got, ToSend) /\ IsPrefix(app.got, ToGet)
  BY <1>2, <1>3, <1>4, <1>5 DEF Forward, Backward, InLine
<1>7. Len(remote.got) <= app.wrote
  <2>1. Len(remote.got) = taken[0] /\ taken[0] + Len(channel.down[0].data) <= app.wrote
    BY <1>2, <1>4 DEF Forward, InLine, Finishes, Passed
  <2>2. taken[0] \in Nat /\ Len(channel.down[0].data) \in Nat
    BY <1>2 DEF Counts, Lines, Channels
  <2> DEFINE out == taken[0]
             left == Len(channel.down[0].data)
             told == Len(remote.got)
  <2>3. told = out /\ out + left <= app.wrote /\ out \in Nat /\ left \in Nat /\ app.wrote \in Nat
    BY <1>2, <2>1, <2>2
  <2> HIDE DEF out, left, told
  <2>4. told <= app.wrote
    BY <2>3
  <2>5. QED
    BY <2>4 DEF told
<1>8. (app.at = "gone" /\ app.greeted /\ remote.at = "ended") => Len(remote.got) = app.wrote
  BY <1>1 DEF AllTold
<1>9. QED
  BY <1>6, <1>7, <1>8 DEF EverythingArrives

\* Whatever the number of layers and the room in them, and whenever one of the threads, the application or the
\* other side ends: what arrives is what was written, in order and without holes (Socket_Chain::chainThread copies
\* from one socket of a pair to the other), and all of it when the destructor has joined the threads, every
\* protocol was greeted and the other side waited for the end.
THEOREM ChainDelivers == ChInit /\ [][ChNext]_chvars => []EverythingArrives
<1>1. ChInit /\ [][ChNext]_chvars => []ChInv
  BY ChStarts, ChStays, PTL
<1>2. QED
  BY <1>1, ArrivedAsWritten, PTL

(***************************************************************************)
(* Sockets.  ConnectedAsTold is about an object that several calls made;   *)
(* it needs that during a wait the object already names the address that   *)
(* the kernel connects to (Expecting), and that no descriptor is of two    *)
(* objects, as the other object closes its own (OwnFds).  Each operation   *)
(* keeps the descriptors of the others as they are (Keeps), and most keep  *)
(* the object's own (Touches).                                             *)
(***************************************************************************)
\* What an operation takes and gives back: an object on one of the open descriptors, or on none.
IsMembers(s) == s = [fd |-> s.fd, down |-> s.down, read |-> s.read, write |-> s.write, listen |-> s.listen,
                     v6 |-> s.v6, remote |-> s.remote, override |-> s.override, res |-> s.res]
IsFd(f) == f = [family |-> f.family, blocks |-> f.blocks, peer |-> f.peer, listens |-> f.listens,
                bound |-> f.bound, read |-> f.read, write |-> f.write, down |-> f.down]
IsKernel(k) == k = [n \in DOMAIN k |-> k[n]] /\ DOMAIN k \subseteq 1 .. MaxFds /\ \A n \in DOMAIN k : IsFd(k[n])
IsAt(s, k) == IsMembers(s) /\ IsKernel(k) /\ (isActive(s) => s.fd \in DOMAIN k)
IsWorld(w) == w = [s |-> w.s, k |-> w.k, ok |-> w.ok] /\ w.ok \in BOOLEAN /\ IsAt(w.s, w.k)

\* The descriptors of the others, which no operation on the object may touch.
Others(s, k) == DOMAIN k \ {s.fd}

IsTry(t) ==
    /\ t = [at |-> t.at, to |-> t.to, bind |-> t.bind, timeout |-> t.timeout, waits |-> t.waits]
    /\ t.waits \in BOOLEAN

OwnFds == \A h \in handed : h.fd \in Others(sock, kernel) /\ \A g \in handed : g.fd = h.fd => g = h

\* A wait for an address: the object names it, may use it, and the kernel connects to it or is silent.
Awaited(s, k, a) ==
    /\ s.remote = remotePair(a) /\ Allowed(s, a)
    /\ isActive(s) => a.does = "silent" \/ k[s.fd].peer = a
Expecting == trying.waits => Awaited(sock, kernel, trying.to[trying.at])
SockInv == IsAt(sock, kernel) /\ IsTry(trying) /\ OwnFds /\ Expecting /\ ConnectedAsTold

\* From one operation to the next: still an object on its descriptor, and the others as they were.
Keeps(w, v) == IsWorld(v) /\ Others(v.s, v.k) = Others(w.s, w.k)
\* The same, on the same descriptor, known to the same peer.
Touches(w, v) ==
    /\ Keeps(w, v)
    /\ v.s.fd = w.s.fd /\ v.s.remote = w.s.remote /\ v.s.v6 = w.s.v6
    /\ v.s.listen = w.s.listen /\ v.s.override = w.s.override
    /\ isActive(w.s) => v.k[w.s.fd].peer = w.k[w.s.fd].peer

\* A set of numbers has a least one: the kernel's choice among the free descriptors.
LEMMA LeastNumber ==
    ASSUME NEW T, T \subseteq Nat, T # {}
    PROVE  \E x \in T : \A y \in T : x <= y
<1>1. \E R : /\ IsWellFoundedOn(R, Nat)
             /\ \A x, y \in Nat : <<y, x>> \in R <=> y < x
  <2>1. \A x, y \in Nat : <<y, x>> \in OpToRel(<, Nat) <=> y < x
    BY DEF OpToRel
  <2>2. QED
    BY <2>1, NatLessThanWellFounded
<1>2. PICK R : /\ IsWellFoundedOn(R, Nat)
               /\ \A x, y \in Nat : <<y, x>> \in R <=> y < x
  BY <1>1
<1>3. PICK x \in T : \A y \in T : ~ (<<y, x>> \in R)
  <2>1. \E x \in T : \A y \in T : ~ (<<y, x>> \in R)
    BY <1>2, WFMin
  <2>2. QED
    BY <2>1
<1>4. \A y \in T : ~(y < x)
  BY <1>2, <1>3
<1>5. \A y \in T : x \in Nat /\ y \in Nat
  OBVIOUS
<1>6. QED
  BY <1>4, <1>5

LEMMA LowestIsThere ==
    ASSUME NEW S, S \subseteq Nat, S # {}
    PROVE  Lowest(S) \in S
BY LeastNumber DEF Lowest

LEMMA FreeIsThere ==
    ASSUME NEW k, Free(k) # {}
    PROVE  Lowest(Free(k)) \in Free(k) /\ Lowest(Free(k)) \in 1 .. MaxFds /\ Lowest(Free(k)) # NoFd
<1>1. Free(k) \subseteq Nat
  BY CallsAssumption DEF Free
<1>3. Lowest(Free(k)) \in Free(k)
  BY <1>1, LowestIsThere
<1>4. QED
  BY <1>3, CallsAssumption DEF Free, NoFd

LEMMA WorldParts ==
    ASSUME NEW w, IsWorld(w)
    PROVE  \E s, k, ok : w = [s |-> s, k |-> k, ok |-> ok] /\ IsAt(s, k) /\ ok \in BOOLEAN
BY DEF IsWorld

LEMMA NowIsWorld ==
    ASSUME NEW s, NEW k, IsAt(s, k)
    PROVE  /\ IsWorld(On(s, k)) /\ On(s, k).s = s /\ On(s, k).k = k /\ On(s, k).ok
BY DEF On, IsWorld

LEMMA FailureKeeps ==
    ASSUME NEW w, IsWorld(w)
    PROVE  Touches(w, Failed(w)) /\ ~Failed(w).ok /\ Failed(w).s = w.s /\ Failed(w).k = w.k
<1>1. PICK s, k, ok : w = [s |-> s, k |-> k, ok |-> ok] /\ IsAt(s, k) /\ ok \in BOOLEAN
  BY WorldParts
<1>2. Failed(w) = [s |-> Failed(w).s, k |-> Failed(w).k, ok |-> Failed(w).ok]
  <2> DEFINE no == FALSE
  <2>1. Failed(w) = [w EXCEPT !.ok = no]
    BY DEF Failed
  <2> HIDE DEF no
  <2>2. [w EXCEPT !.ok = no] = [s |-> s, k |-> k, ok |-> no]
    BY <1>1
  <2>3. Failed(w) = [s |-> s, k |-> k, ok |-> no]
    BY <2>1, <2>2
  <2>4. QED
    BY <2>3
<1>3. Failed(w).s = s /\ Failed(w).k = k
  BY <1>1 DEF Failed
<1>4. Failed(w).ok = FALSE
  BY <1>1 DEF Failed
<1> HIDE DEF Failed
<1>5. w.s = s /\ w.k = k
  BY <1>1
<1>6. QED
  BY <1>1, <1>2, <1>3, <1>4, <1>5 DEF Touches, Keeps, IsWorld

LEMMA FdChanges ==
    ASSUME NEW w, IsWorld(w), isActive(w.s), NEW f, IsFd(f)
    PROVE  /\ setFd(w, f).s = w.s /\ setFd(w, f).ok = w.ok /\ DOMAIN setFd(w, f).k = DOMAIN w.k
           /\ Fd(setFd(w, f)) = f /\ Keeps(w, setFd(w, f))
           /\ f.peer = Fd(w).peer => Touches(w, setFd(w, f))
<1>1. PICK s, k, ok : w = [s |-> s, k |-> k, ok |-> ok] /\ IsAt(s, k) /\ ok \in BOOLEAN
  BY WorldParts
<1> DEFINE l == [k EXCEPT ![s.fd] = f]
<1>2. setFd(w, f) = [s |-> s, k |-> l, ok |-> ok]
  BY <1>1 DEF setFd
<1>3. DOMAIN l = DOMAIN k /\ l[s.fd] = f /\ IsAt(s, l)
  BY <1>1 DEF IsAt, IsKernel
<1> HIDE DEF l
<1>4. QED
  BY <1>1, <1>2, <1>3 DEF Touches, Keeps, IsWorld, Fd, Others

LEMMA CloseKeeps ==
    ASSUME NEW w, IsWorld(w)
    PROVE  /\ Keeps(w, closeSocket(w)) /\ ~isActive(closeSocket(w).s) /\ closeSocket(w).ok = w.ok
           /\ closeSocket(w).s.remote = w.s.remote /\ closeSocket(w).s.v6 = w.s.v6
<1>1. PICK s, k, ok : w = [s |-> s, k |-> k, ok |-> ok] /\ IsAt(s, k) /\ ok \in BOOLEAN
  BY WorldParts
<1>2. CASE ~isActive(s)
  BY <1>1, <1>2 DEF closeSocket, Keeps, IsWorld
<1>3. CASE isActive(s)
  <2> DEFINE t == [s EXCEPT !.fd = NoFd]
             l == Shut(k, s.fd)
  <2>1. closeSocket(w) = [s |-> t, k |-> l, ok |-> ok]
    BY <1>1, <1>3 DEF closeSocket
  <2>2. IsMembers(t) /\ t.fd = NoFd /\ t.remote = s.remote /\ t.v6 = s.v6
    BY <1>1 DEF IsAt, IsMembers
  <2>3. IsKernel(l) /\ DOMAIN l = DOMAIN k \ {s.fd} /\ NoFd \notin DOMAIN k
    BY <1>1, CallsAssumption DEF IsAt, IsKernel, Shut, NoFd
  <2> HIDE DEF t, l
  <2>4. QED
    BY <1>1, <2>1, <2>2, <2>3 DEF Keeps, IsWorld, IsAt, Others, isActive
<1>4. QED
  BY <1>2, <1>3

LEMMA OpenKeeps ==
    ASSUME NEW w, IsWorld(w), NEW family, NEW bad, NEW v, v = socketCall(w, family, bad)
    PROVE  /\ IsWorld(v) /\ (v.ok => isActive(v.s)) /\ v.s.remote = w.s.remote /\ v.s.v6 = w.s.v6
           /\ Others(w.s, w.k) \subseteq Others(v.s, v.k)
           /\ ~isActive(w.s) => Keeps(w, v)
<1> DEFINE n == Lowest(Free(w.k))
           f == Fresh(family)
<1>1. PICK s, k, ok : w = [s |-> s, k |-> k, ok |-> ok] /\ IsAt(s, k) /\ ok \in BOOLEAN
  BY WorldParts
<1>2. CASE CanOpen(w.k, bad)
  <2> DEFINE t == [s EXCEPT !.fd = n]
             l == Open(k, n, f)
  <2>1. v = [s |-> t, k |-> l, ok |-> ok]
    BY <1>1, <1>2 DEF socketCall
  <2>2. n \in Free(w.k) /\ n \in 1 .. MaxFds /\ n # NoFd
    BY <1>2, FreeIsThere DEF CanOpen
  <2>3. IsMembers(t) /\ t.fd = n /\ t.remote = s.remote /\ t.v6 = s.v6
    BY <1>1 DEF IsAt, IsMembers
  <2>4. IsFd(f)
    BY DEF IsFd, Fresh
  <2>5. IsKernel(l) /\ DOMAIN l = DOMAIN k \cup {n} /\ n \notin DOMAIN k /\ NoFd \notin DOMAIN k
    <3> HIDE DEF f, n
    <3>1. QED
      BY <1>1, <2>2, <2>4, CallsAssumption DEF IsAt, IsKernel, Open, NoFd, Free
  <2> HIDE DEF t, l, n
  <2>6. QED
    BY <1>1, <2>1, <2>2, <2>3, <2>5 DEF Keeps, IsWorld, IsAt, Others, isActive
<1>3. CASE ~CanOpen(w.k, bad)
  <2> DEFINE t == [s EXCEPT !.fd = NoFd]
             u == [w EXCEPT !.s.fd = NoFd]
  <2>1. u = [s |-> t, k |-> k, ok |-> ok] /\ v = Failed(u)
    BY <1>1, <1>3 DEF socketCall
  <2>2. IsMembers(t) /\ t.fd = NoFd /\ t.remote = s.remote /\ t.v6 = s.v6
    BY <1>1 DEF IsAt, IsMembers
  <2>3. NoFd \notin DOMAIN k
    BY <1>1, CallsAssumption DEF IsAt, IsKernel, NoFd
  <2> HIDE DEF t, u
  <2>4. IsWorld(u)
    BY <1>1, <2>1, <2>2 DEF IsWorld, IsAt, isActive
  <2>5. IsWorld(v) /\ v.s = u.s /\ v.k = u.k /\ ~v.ok
    BY <2>1, <2>4, FailureKeeps DEF Touches, Keeps
  <2>6. QED
    BY <1>1, <2>1, <2>2, <2>3, <2>5 DEF Keeps, Others, isActive
<1>4. QED
  BY <1>2, <1>3

\* The object keeps what Touches speaks of, and the descriptor its peer.
SameObject(r, s) ==
    /\ IsMembers(r) /\ r.fd = s.fd /\ r.remote = s.remote /\ r.v6 = s.v6
    /\ r.listen = s.listen /\ r.override = s.override

LEMMA ObjectChanges ==
    ASSUME NEW w, IsWorld(w), NEW r, SameObject(r, w.s), NEW v, v = [s |-> r, k |-> w.k, ok |-> w.ok]
    PROVE  Touches(w, v) /\ v.ok = w.ok /\ v.k = w.k /\ v.s.fd = w.s.fd
<1>1. PICK s, k, ok : w = [s |-> s, k |-> k, ok |-> ok] /\ IsAt(s, k) /\ ok \in BOOLEAN
  BY WorldParts
<1>2. QED
  BY <1>1 DEF SameObject, Touches, Keeps, IsWorld, IsAt, Others, isActive

LEMMA BothChange ==
    ASSUME NEW w, IsWorld(w), isActive(w.s), NEW r, SameObject(r, w.s), NEW f, IsFd(f), f.peer = Fd(w).peer,
           NEW v, v = [s |-> r, k |-> [w.k EXCEPT ![w.s.fd] = f], ok |-> w.ok]
    PROVE  Touches(w, v) /\ v.ok = w.ok /\ Fd(v) = f
<1>1. PICK s, k, ok : w = [s |-> s, k |-> k, ok |-> ok] /\ IsAt(s, k) /\ ok \in BOOLEAN
  BY WorldParts
<1> DEFINE l == [w.k EXCEPT ![w.s.fd] = f]
<1>2. IsKernel(l) /\ DOMAIN l = DOMAIN k /\ l[s.fd] = f
  BY <1>1 DEF IsAt, IsKernel
<1>3. v = [s |-> r, k |-> l, ok |-> ok]
  BY <1>1
<1> HIDE DEF l
<1>4. v.s = r /\ v.k = l /\ v.ok = ok /\ w.s = s /\ w.k = k /\ w.ok = ok
  BY <1>1, <1>3
<1>5. IsWorld(v)
  BY <1>1, <1>2, <1>3, <1>4 DEF SameObject, IsWorld, IsAt, isActive
<1>6. Keeps(w, v) /\ v.k[w.s.fd] = f
  BY <1>2, <1>4, <1>5 DEF SameObject, Keeps, Others
<1>7. QED
  BY <1>4, <1>6 DEF SameObject, Touches, Fd

LEMMA FdFacts ==
    ASSUME NEW w, IsWorld(w), isActive(w.s)
    PROVE  IsFd(Fd(w)) /\ w.s.fd \in DOMAIN w.k /\ SameObject(w.s, w.s)
BY DEF IsWorld, IsAt, IsKernel, Fd, SameObject

LEMMA ReadTimeKeeps ==
    ASSUME NEW w, IsWorld(w), NEW t, NEW v, v = setReadTimeout(w, t)
    PROVE  /\ Touches(w, v) /\ v.ok = w.ok
           /\ isActive(w.s) => /\ Fd(v).blocks = Fd(w).blocks /\ Fd(v).family = Fd(w).family
                               /\ ~w.s.listen => Fd(v).read = t
<1>1. PICK s, k, ok : w = [s |-> s, k |-> k, ok |-> ok] /\ IsAt(s, k) /\ ok \in BOOLEAN
  BY WorldParts
<1>2. CASE ~isActive(w.s)
  BY <1>1, <1>2 DEF setReadTimeout, Touches, Keeps
<1> DEFINE r == [s EXCEPT !.read = t]
<1>3. SameObject(r, w.s)
  BY <1>1 DEF IsAt, IsMembers, SameObject
<1>4. CASE isActive(w.s) /\ w.s.listen
  <2>1. v = [s |-> r, k |-> w.k, ok |-> w.ok]
    BY <1>1, <1>4 DEF setReadTimeout
  <2> HIDE DEF r
  <2>2. Touches(w, v) /\ v.ok = w.ok /\ v.k = w.k /\ v.s.fd = w.s.fd
    BY <1>3, <2>1, ObjectChanges
  <2>3. QED
    BY <1>4, <2>2 DEF Fd
<1>5. CASE isActive(w.s) /\ ~w.s.listen
  <2> DEFINE f == [Fd(w) EXCEPT !.read = t]
  <2>1. v = [s |-> r, k |-> [w.k EXCEPT ![w.s.fd] = f], ok |-> w.ok]
    BY <1>1, <1>5 DEF setReadTimeout, Fd
  <2>2. IsFd(Fd(w))
    BY <1>5, FdFacts
  <2>3. /\ IsFd(f) /\ f.read = t /\ f.blocks = Fd(w).blocks /\ f.family = Fd(w).family /\ f.peer = Fd(w).peer
    BY <2>2 DEF IsFd
  <2> HIDE DEF f, r
  <2>4. Touches(w, v) /\ v.ok = w.ok /\ Fd(v) = f
    BY <1>3, <1>5, <2>1, <2>3, BothChange
  <2>5. QED
    BY <2>3, <2>4
<1>6. QED
  BY <1>2, <1>4, <1>5

LEMMA WriteTimeKeeps ==
    ASSUME NEW w, IsWorld(w), NEW t, NEW v, v = setWriteTimeout(w, t)
    PROVE  /\ Touches(w, v) /\ v.ok = w.ok
           /\ isActive(w.s) => Fd(v).blocks = Fd(w).blocks /\ Fd(v).read = Fd(w).read
<1>1. PICK s, k, ok : w = [s |-> s, k |-> k, ok |-> ok] /\ IsAt(s, k) /\ ok \in BOOLEAN
  BY WorldParts
<1>2. CASE ~isActive(w.s)
  BY <1>1, <1>2 DEF setWriteTimeout, Touches, Keeps
<1> DEFINE r == [s EXCEPT !.write = t]
<1>3. SameObject(r, w.s)
  BY <1>1 DEF IsAt, IsMembers, SameObject
<1>4. CASE isActive(w.s) /\ w.s.listen
  <2>1. v = [s |-> r, k |-> w.k, ok |-> w.ok]
    BY <1>1, <1>4 DEF setWriteTimeout
  <2> HIDE DEF r
  <2>2. Touches(w, v) /\ v.ok = w.ok /\ v.k = w.k /\ v.s.fd = w.s.fd
    BY <1>3, <2>1, ObjectChanges
  <2>3. QED
    BY <1>4, <2>2 DEF Fd
<1>5. CASE isActive(w.s) /\ ~w.s.listen
  <2> DEFINE f == [Fd(w) EXCEPT !.write = t]
  <2>1. v = [s |-> r, k |-> [w.k EXCEPT ![w.s.fd] = f], ok |-> w.ok]
    BY <1>1, <1>5 DEF setWriteTimeout, Fd
  <2>2. IsFd(Fd(w))
    BY <1>5, FdFacts
  <2>3. IsFd(f) /\ f.read = Fd(w).read /\ f.blocks = Fd(w).blocks /\ f.peer = Fd(w).peer
    BY <2>2 DEF IsFd
  <2> HIDE DEF f, r
  <2>4. Touches(w, v) /\ v.ok = w.ok /\ Fd(v) = f
    BY <1>3, <1>5, <2>1, <2>3, BothChange
  <2>5. QED
    BY <2>3, <2>4
<1>6. QED
  BY <1>2, <1>4, <1>5

LEMMA BlockingKeeps ==
    ASSUME NEW w, IsWorld(w), NEW blocks, NEW bad, NEW v, v = setBlockingMode(w, blocks, bad)
    PROVE  /\ Touches(w, v) /\ (v.ok => w.ok /\ isActive(w.s))
           /\ v.ok => Fd(v).blocks = blocks /\ Fd(v).family = Fd(w).family
<1>1. PICK s, k, ok : w = [s |-> s, k |-> k, ok |-> ok] /\ IsAt(s, k) /\ ok \in BOOLEAN
  BY WorldParts
<1>2. CASE "fcntl" \in bad \/ ~isActive(w.s)
  BY <1>2, FailureKeeps DEF setBlockingMode
<1>3. CASE ~("fcntl" \in bad \/ ~isActive(w.s))
  <2> DEFINE f == [Fd(w) EXCEPT !.blocks = blocks]
  <2>1. v = [s |-> w.s, k |-> [w.k EXCEPT ![w.s.fd] = f], ok |-> w.ok]
    BY <1>1, <1>3 DEF setBlockingMode, Fd
  <2>2. IsFd(Fd(w)) /\ SameObject(w.s, w.s)
    BY <1>3, FdFacts
  <2>3. IsFd(f) /\ f.blocks = blocks /\ f.family = Fd(w).family /\ f.peer = Fd(w).peer
    BY <2>2 DEF IsFd
  <2> HIDE DEF f
  <2>4. Touches(w, v) /\ v.ok = w.ok /\ Fd(v) = f
    BY <1>3, <2>1, <2>2, <2>3, BothChange
  <2>5. QED
    BY <1>3, <2>3, <2>4
<1>4. QED
  BY <1>2, <1>3

LEMMA TouchesCompose ==
    ASSUME NEW w, NEW v, NEW u, Touches(w, v), Touches(v, u)
    PROVE  Touches(w, u)
BY DEF Touches, Keeps, isActive

LEMMA KeepsCompose ==
    ASSUME NEW w, NEW v, NEW u, Keeps(w, v), Keeps(v, u)
    PROVE  Keeps(w, u)
BY DEF Keeps

LEMMA BindKeeps ==
    ASSUME NEW w, IsWorld(w), isActive(w.s), NEW address, NEW bad, NEW v, v = bindTo(w, address, bad)
    PROVE  /\ Keeps(w, v) /\ (v.ok => isActive(v.s) /\ w.ok) /\ (~v.ok /\ w.ok => ~isActive(v.s))
           /\ v.s.remote = w.s.remote /\ v.s.v6 = w.s.v6
<1>1. CASE ~address.given
  BY <1>1 DEF bindTo, Keeps
<1> DEFINE refused == "bind" \in bad \/ (w.s.v6 /\ Fd(w).family = "v4") \/ (~w.s.v6 /\ Fd(w).family = "v6")
<1>2. CASE address.given /\ refused
  <2>1. v = Failed(closeSocket(w))
    BY <1>2 DEF bindTo
  <2> DEFINE c == closeSocket(w)
  <2>2. Keeps(w, c) /\ ~isActive(c.s) /\ c.s.remote = w.s.remote /\ c.s.v6 = w.s.v6
    BY CloseKeeps
  <2>3. v = Failed(c) /\ IsWorld(c)
    BY <2>1, <2>2 DEF Keeps
  <2> HIDE DEF c
  <2>4. Keeps(c, v) /\ ~v.ok /\ v.s = c.s
    BY <2>3, FailureKeeps DEF Touches
  <2>5. QED
    BY <2>2, <2>4, KeepsCompose
<1>3. CASE address.given /\ ~refused
  <2> DEFINE f == [Fd(w) EXCEPT !.bound = TRUE]
  <2>1. v = setFd(w, f)
    BY <1>3 DEF bindTo
  <2>2. IsFd(Fd(w))
    BY FdFacts
  <2>3. IsFd(f)
    <3> DEFINE yes == TRUE
    <3>1. f = [Fd(w) EXCEPT !.bound = yes]
      OBVIOUS
    <3> HIDE DEF yes, f
    <3>2. QED
      BY <2>2, <3>1 DEF IsFd
  <2> HIDE DEF f
  <2>4. QED
    BY <2>1, <2>3, FdChanges
<1>4. QED
  BY <1>1, <1>2, <1>3

LEMMA ShutdownKeeps ==
    ASSUME NEW w, IsWorld(w), NEW mode, NEW v, v = shutdownSocket(w, mode)
    PROVE  Touches(w, v)
<1>1. Touches(w, w)
  BY DEF Touches, Keeps
<1>2. CASE kind = "tls" /\ ~w.s.listen
  BY <1>1, <1>2 DEF shutdownSocket
<1>3. CASE ~(kind = "tls" /\ ~w.s.listen)
  <2>1. v = iShutdown(w, mode)
    BY <1>3 DEF shutdownSocket
  <2>2. CASE ~isActive(w.s) \/ mode \ w.s.down = {}
    BY <2>1, <2>2, FailureKeeps DEF iShutdown
  <2>3. CASE ~(~isActive(w.s) \/ mode \ w.s.down = {})
    <3>1. PICK s, k, ok : w = [s |-> s, k |-> k, ok |-> ok] /\ IsAt(s, k) /\ ok \in BOOLEAN
      BY WorldParts
    <3> DEFINE r == [s EXCEPT !.down = @ \cup mode]
               f == [Fd(w) EXCEPT !.down = @ \cup (mode \ w.s.down)]
    <3>2. v = [s |-> r, k |-> [w.k EXCEPT ![w.s.fd] = f], ok |-> w.ok]
      BY <2>1, <2>3, <3>1 DEF iShutdown, Fd
    <3>3. SameObject(r, w.s)
      <4> DEFINE ended == s.down \cup mode
      <4>1. r = [s EXCEPT !.down = ended]
        OBVIOUS
      <4> HIDE DEF ended, r
      <4>2. QED
        BY <3>1, <4>1 DEF IsAt, IsMembers, SameObject
    <3>4. IsFd(Fd(w))
      BY <2>3, FdFacts
    <3>5. IsFd(f) /\ f.peer = Fd(w).peer
      BY <3>4 DEF IsFd
    <3> HIDE DEF f, r
    <3>6. QED
      BY <2>3, <3>2, <3>3, <3>5, BothChange
  <2>4. QED
    BY <2>2, <2>3
<1>4. QED
  BY <1>2, <1>3

LEMMA DropKeeps ==
    ASSUME NEW w, IsWorld(w), NEW v, v = Dropped(w)
    PROVE  Keeps(w, v) /\ ~isActive(v.s)
<1> DEFINE c == shutdownSocket(w, {"rd", "wr"})
<1>1. v = closeSocket(c)
  BY DEF Dropped
<1>2. Touches(w, c)
  BY ShutdownKeeps
<1> HIDE DEF c
<1>3. Keeps(c, v) /\ ~isActive(v.s)
  BY <1>1, <1>2, CloseKeeps DEF Touches, Keeps
<1>4. QED
  BY <1>2, <1>3, KeepsCompose DEF Touches

LEMMA ConnectKeeps ==
    ASSUME NEW w, IsWorld(w), NEW a, NEW bad, NEW v, v = tcpConnect(w, a, bad)
    PROVE  /\ Keeps(w, v) /\ v.s.remote = w.s.remote /\ v.s.v6 = w.s.v6
           /\ v.ok => a.does = "silent" \/ Fd(v).peer = a
<1> DEFINE quick == setBlockingMode(w, FALSE, bad)
<1>1. /\ Touches(w, quick) /\ (quick.ok => isActive(w.s) /\ Fd(quick).family = Fd(w).family)
  BY BlockingKeeps
<1>2. v = IF ~quick.ok \/ Connects(w, a) = "refuses" THEN Failed(quick)
          ELSE IF Connects(w, a) = "silent" THEN quick
          ELSE setFd(quick, [Fd(quick) EXCEPT !.peer = a])
  BY DEF tcpConnect
<1> HIDE DEF quick
<1>3. IsWorld(quick) /\ Keeps(w, quick) /\ quick.s.remote = w.s.remote /\ quick.s.v6 = w.s.v6
  BY <1>1 DEF Touches, Keeps
<1>4. CASE ~quick.ok \/ Connects(w, a) = "refuses"
  <2>1. v = Failed(quick)
    BY <1>2, <1>4
  <2>2. Keeps(quick, v) /\ v.s = quick.s /\ ~v.ok
    BY <1>3, <2>1, FailureKeeps DEF Touches
  <2>3. QED
    BY <1>3, <2>2, KeepsCompose
<1>5. CASE quick.ok /\ Connects(w, a) = "silent"
  BY <1>2, <1>3, <1>5 DEF Connects
<1>6. CASE quick.ok /\ Connects(w, a) \notin {"refuses", "silent"}
  <2> DEFINE f == [Fd(quick) EXCEPT !.peer = a]
  <2>1. v = setFd(quick, f)
    BY <1>2, <1>6
  <2>2. isActive(quick.s) /\ IsFd(Fd(quick))
    BY <1>1, <1>3, <1>6, FdFacts DEF Touches, isActive
  <2>3. IsFd(f) /\ f.peer = a
    BY <2>2 DEF IsFd
  <2> HIDE DEF f
  <2>4. v.s = quick.s /\ Fd(v) = f /\ Keeps(quick, v)
    BY <1>3, <2>1, <2>2, <2>3, FdChanges
  <2>5. QED
    BY <1>3, <2>3, <2>4, KeepsCompose
<1>7. QED
  BY <1>4, <1>5, <1>6

LEMMA WaitKeeps ==
    ASSUME NEW w, IsWorld(w), NEW a, NEW bad, NEW v, v = tcpWaited(w, a, bad)
    PROVE  /\ Touches(w, v)
           /\ v.ok => isActive(v.s) /\ Fd(v).blocks = TRUE /\ a.does # "silent"
<1> DEFINE back == setBlockingMode(w, TRUE, bad)
<1>1. Touches(w, back) /\ (back.ok => isActive(w.s) /\ Fd(back).blocks = TRUE)
  BY BlockingKeeps
<1>2. v = IF ~isActive(w.s) \/ a.does = "silent" \/ "select" \in bad THEN Failed(w)
          ELSE IF ~back.ok \/ "options" \in bad \/ a.does = "at once" THEN Failed(back)
          ELSE back
  BY DEF tcpWaited
<1> HIDE DEF back
<1>3. Touches(w, Failed(w)) /\ ~Failed(w).ok
  BY FailureKeeps
<1>4. Touches(w, Failed(back)) /\ ~Failed(back).ok
  BY <1>1, FailureKeeps, TouchesCompose DEF Touches, Keeps
<1>5. CASE v = Failed(w) \/ v = Failed(back)
  BY <1>3, <1>4, <1>5
<1>6. CASE v = back /\ back.ok /\ a.does # "silent"
  BY <1>1, <1>6 DEF Touches, isActive
<1>7. QED
  BY <1>2, <1>5, <1>6

LEMMA OverrideKeeps ==
    ASSUME NEW w, IsWorld(w), isActive(w.s), NEW v, v = overridden(w)
    PROVE  /\ Touches(w, v) /\ v.ok = w.ok /\ Fd(v).blocks = Fd(w).blocks
           /\ w.s.override.read # -1 /\ ~w.s.listen => Fd(v).read = w.s.override.read
<1> DEFINE r == IF w.s.override.read = -1 THEN w ELSE setReadTimeout(w, w.s.override.read)
<1>1. /\ Touches(w, r) /\ r.ok = w.ok /\ Fd(r).blocks = Fd(w).blocks
      /\ w.s.override.read # -1 /\ ~w.s.listen => Fd(r).read = w.s.override.read
  BY ReadTimeKeeps DEF Touches, Keeps
<1>2. v = IF w.s.override.write = -1 THEN r ELSE setWriteTimeout(r, w.s.override.write)
  BY DEF overridden
<1> HIDE DEF r
<1>3. CASE v = r
  BY <1>1, <1>3
<1>4. CASE v = setWriteTimeout(r, w.s.override.write)
  <2>1. IsWorld(r) /\ isActive(r.s)
    BY <1>1 DEF Touches, Keeps, isActive
  <2>2. Touches(r, v) /\ v.ok = r.ok /\ Fd(v).blocks = Fd(r).blocks /\ Fd(v).read = Fd(r).read
    BY <1>4, <2>1, WriteTimeKeeps
  <2>3. QED
    BY <1>1, <2>2, TouchesCompose
<1>5. QED
  BY <1>2, <1>3, <1>4

\* OnlyListenForgets, of one step.
Forgets == \A n \in DOMAIN kernel : (Owned(n) /\ n \in DOMAIN kernel') => (Owned(n)' \/ answer'.op = "listen")

LEMMA NowFacts ==
    ASSUME SockInv
    PROVE  /\ IsWorld(Now) /\ Now.s = sock /\ Now.k = kernel /\ Now.ok
           /\ Touches(Now, Now)
BY NowIsWorld DEF SockInv, Now, Touches, Keeps

LEMMA StepKeeps ==
    ASSUME SockInv, NEW op, NEW v, Does(op, v), IsWorld(v), Others(sock, kernel) \subseteq Others(v.s, v.k),
           handed' = handed
    PROVE  /\ IsAt(sock', kernel') /\ OwnFds' /\ answer'.op = op /\ answer'.ok = v.ok /\ kind' = kind
           /\ (Others(v.s, v.k) = Others(sock, kernel) \/ op = "listen" => Forgets)
<1>1. sock' = v.s /\ kernel' = v.k /\ answer'.op = op /\ answer'.ok = v.ok /\ kind' = kind
  BY DEF Does
<1>2. IsAt(sock', kernel')
  BY <1>1 DEF IsWorld
<1>3. OwnFds'
  BY <1>1 DEF SockInv, OwnFds
<1>4. ASSUME Others(v.s, v.k) = Others(sock, kernel) PROVE Forgets
  BY <1>1, <1>4 DEF Forgets, Owned, Others
<1>5. op = "listen" => Forgets
  BY <1>1 DEF Forgets
<1>6. QED
  BY <1>1, <1>2, <1>3, <1>4, <1>5

LEMMA OperationEnds ==
    ASSUME SockInv, NEW op, NEW v, Does(op, v), IsWorld(v), Others(sock, kernel) \subseteq Others(v.s, v.k),
           handed' = handed, IsTry(trying'), ~trying'.waits,
           op # "connect" \/ ~v.ok \/ kind \notin {"tcp", "tls"}
    PROVE  SockInv' /\ (Others(v.s, v.k) = Others(sock, kernel) \/ op = "listen" => Forgets)
<1>1. /\ IsAt(sock', kernel') /\ OwnFds' /\ answer'.op = op /\ answer'.ok = v.ok /\ kind' = kind
      /\ (Others(v.s, v.k) = Others(sock, kernel) \/ op = "listen" => Forgets)
  BY StepKeeps
<1>2. Expecting'
  BY DEF Expecting
<1>3. ConnectedAsTold'
  BY <1>1 DEF ConnectedAsTold
<1>4. QED
  BY <1>1, <1>2, <1>3 DEF SockInv

LEMMA KeptEnds ==
    ASSUME SockInv, NEW op, NEW v, Does(op, v), Keeps(Now, v), handed' = handed, IsTry(trying'), ~trying'.waits,
           op # "connect" \/ ~v.ok \/ kind \notin {"tcp", "tls"}
    PROVE  SockInv' /\ Forgets
<1>1. IsWorld(v) /\ Others(v.s, v.k) = Others(sock, kernel)
  BY NowFacts DEF Keeps
<1>2. QED
  BY <1>1, OperationEnds

LEMMA IdleIsATry == IsTry(Idle) /\ ~Idle.waits
<1> DEFINE no == FALSE
<1>1. Idle = [at |-> 0, to |-> <<>>, bind |-> [given |-> FALSE], timeout |-> 0, waits |-> no] /\ no \in BOOLEAN
  BY DEF Idle
<1>2. ~Idle.waits
  BY DEF Idle
<1> HIDE DEF no
<1>3. QED
  BY <1>1, <1>2 DEF IsTry

LEMMA TryMoves ==
    ASSUME IsTry(trying), NEW waits \in BOOLEAN, NEW at, NEW t,
           t = [trying EXCEPT !.waits = waits] \/ t = [trying EXCEPT !.at = at, !.waits = waits]
    PROVE  /\ IsTry(t) /\ t.waits = waits
           /\ t = [trying EXCEPT !.waits = waits] => t.to = trying.to /\ t.at = trying.at
<1> DEFINE Moved(n) == [at |-> n, to |-> trying.to, bind |-> trying.bind, timeout |-> trying.timeout, waits |-> waits]
<1>1. [trying EXCEPT !.waits = waits] = Moved(trying.at)
  BY DEF IsTry
<1>2. [trying EXCEPT !.at = at, !.waits = waits] = Moved(at)
  <2> DEFINE mid == [trying EXCEPT !.at = at]
  <2>1. mid = [at |-> at, to |-> trying.to, bind |-> trying.bind, timeout |-> trying.timeout, waits |-> trying.waits]
    BY DEF IsTry
  <2>2. [trying EXCEPT !.at = at, !.waits = waits] = [mid EXCEPT !.waits = waits]
    OBVIOUS
  <2> HIDE DEF mid
  <2>3. QED
    BY <2>1, <2>2
<1>3. QED
  BY <1>1, <1>2 DEF IsTry

LEMMA NextAddress ==
    ASSUME SockInv, NEW v, Goes(v), Keeps(Now, v), handed' = handed
    PROVE  SockInv' /\ Forgets
<1>1. IsWorld(v)
  BY DEF Keeps
<1>2. CASE trying' = [trying EXCEPT !.at = @ + 1, !.waits = FALSE] /\ Does("connecting", v)
  <2>1. IsTry(trying') /\ ~trying'.waits
    <3> DEFINE no == FALSE
               next == trying.at + 1
    <3>1. trying' = [trying EXCEPT !.at = next, !.waits = no] /\ no \in BOOLEAN /\ ~no
      BY <1>2
    <3> HIDE DEF no, next
    <3>2. QED
      BY <3>1, TryMoves DEF SockInv
  <2>2. QED
    BY <1>2, <2>1, KeptEnds
<1>3. CASE ConnectEnds(Failed(v))
  <2>1. Keeps(Now, Failed(v)) /\ ~Failed(v).ok
    BY <1>1, FailureKeeps, KeepsCompose DEF Touches
  <2>2. trying' = Idle /\ Does("connect", Failed(v))
    BY <1>3 DEF ConnectEnds
  <2>3. QED
    BY <2>1, <2>2, IdleIsATry, KeptEnds
<1>4. QED
  BY <1>2, <1>3 DEF Goes

LEMMA AttemptFails ==
    ASSUME SockInv, NEW v, ConnectEnds(v), ~v.ok, Keeps(Now, v), handed' = handed
    PROVE  SockInv' /\ Forgets
BY IdleIsATry, KeptEnds DEF ConnectEnds

LEMMA OperationFacts ==
    ASSUME SockInv, Operation, trying' = trying
    PROVE  IsTry(trying') /\ ~trying'.waits
BY IdleIsATry DEF Operation

LEMMA TcpConnectFromStep == SockInv /\ TcpConnectFrom => SockInv' /\ Forgets
<1> SUFFICES ASSUME SockInv, TcpConnectFrom PROVE SockInv' /\ Forgets
  OBVIOUS
<1>1. PICK to \in Resolved, bind \in Bindings, timeout \in Timeouts :
        IF getAddrInfo(to)
        THEN /\ trying' = [at |-> 1, to |-> to, bind |-> bind, timeout |-> timeout, waits |-> FALSE]
             /\ Does("connecting", Now)
        ELSE trying' = trying /\ Does("connect", Failed(Now))
  BY DEF TcpConnectFrom
<1>2. handed' = handed /\ Operation
  BY DEF TcpConnectFrom
<1>3. CASE trying' = trying /\ Does("connect", Failed(Now))
  BY <1>2, <1>3, NowFacts, FailureKeeps, OperationFacts, KeptEnds DEF Touches
<1>4. CASE /\ trying' = [at |-> 1, to |-> to, bind |-> bind, timeout |-> timeout, waits |-> FALSE]
           /\ Does("connecting", Now)
  <2>1. IsTry(trying') /\ ~trying'.waits
    <3> DEFINE no == FALSE
    <3>1. trying' = [at |-> 1, to |-> to, bind |-> bind, timeout |-> timeout, waits |-> no] /\ no \in BOOLEAN /\ ~no
      BY <1>4
    <3> HIDE DEF no
    <3>2. QED
      BY <3>1 DEF IsTry
  <2>2. QED
    BY <1>2, <1>4, <2>1, NowFacts, KeptEnds DEF Touches
<1>5. QED
  BY <1>1, <1>3, <1>4

LEMMA TcpTryStep == SockInv /\ TcpTry => SockInv' /\ Forgets
<1> SUFFICES ASSUME SockInv, TcpTry PROVE SockInv' /\ Forgets
  OBVIOUS
<1>1. PICK bad \in Bads : TcpTries(Reopened(Now, bad), trying.to[trying.at], bad)
  BY DEF TcpTry
<1>2. handed' = handed /\ IsWorld(Now)
  BY NowFacts DEF TcpTry
<1> DEFINE closed == closeSocket(Now)
           family == trying.to[1].family
           w == Reopened(Now, bad)
           a == trying.to[trying.at]
           bound == bindTo(w, trying.bind, bad)
           untimed == setReadTimeout(bound, 0)
           named == [untimed EXCEPT !.s.remote = remotePair(a)]
           c == tcpConnect(named, a, bad)
<1>3. Keeps(Now, w) /\ (w.ok => isActive(w.s))
  <2>1. Keeps(Now, closed) /\ ~isActive(closed.s) /\ IsWorld(closed)
    BY <1>2, CloseKeeps DEF Keeps
  <2>2. w = socketCall(closed, family, bad)
    BY DEF Reopened
  <2> HIDE DEF closed, family, w
  <2>3. QED
    BY <2>1, <2>2, OpenKeeps, KeepsCompose
<1>4. CASE ~w.ok
  <2>1. ConnectEnds(w)
    BY <1>1, <1>4 DEF TcpTries
  <2> HIDE DEF w
  <2>2. QED
    BY <1>2, <1>3, <1>4, <2>1, AttemptFails
<1>5. CASE w.ok
  <2>1. IF ~bound.ok THEN ConnectEnds(bound)
        ELSE IF ~Allowed(bound.s, a) THEN Goes(Dropped(untimed))
        ELSE IF ~c.ok THEN Goes(c)
        ELSE trying' = [trying EXCEPT !.waits = TRUE] /\ Does("connecting", c)
    BY <1>1, <1>5 DEF TcpTries
  <2> HIDE DEF w
  <2>2. Keeps(Now, bound) /\ IsWorld(bound) /\ (bound.ok => isActive(bound.s))
    <3>1. Keeps(w, bound) /\ (bound.ok => isActive(bound.s))
      BY <1>3, <1>5, BindKeeps DEF Keeps
    <3>2. QED
      BY <1>3, <3>1, KeepsCompose DEF Keeps
  <2> HIDE DEF bound
  <2>3. Touches(bound, untimed) /\ IsWorld(untimed)
    BY <2>2, ReadTimeKeeps DEF Touches, Keeps
  <2>4. Keeps(Now, untimed)
    BY <2>2, <2>3, KeepsCompose DEF Touches
  <2>5. CASE ~bound.ok
    BY <1>2, <2>1, <2>2, <2>5, AttemptFails
  <2>6. CASE bound.ok /\ ~Allowed(bound.s, a)
    <3>1. Keeps(untimed, Dropped(untimed))
      BY <2>3, DropKeeps
    <3>2. QED
      BY <1>2, <2>1, <2>4, <2>6, <3>1, KeepsCompose, NextAddress
  <2>7. CASE bound.ok /\ Allowed(bound.s, a)
    <3> HIDE DEF a, untimed
    <3>1. named.s.remote = remotePair(a) /\ named.s.v6 = bound.s.v6 /\ Keeps(untimed, named) /\ IsWorld(named)
      <4>1. PICK s, k, ok : untimed = [s |-> s, k |-> k, ok |-> ok] /\ IsAt(s, k) /\ ok \in BOOLEAN
        BY <2>3, WorldParts
      <4> DEFINE r == [s EXCEPT !.remote = remotePair(a)]
      <4>2. named = [s |-> r, k |-> k, ok |-> ok]
        BY <4>1
      <4>3. IsMembers(r) /\ r.fd = s.fd /\ r.remote = remotePair(a) /\ r.v6 = s.v6
        BY <4>1 DEF IsAt, IsMembers
      <4> HIDE DEF named, r
      <4>4. QED
        BY <2>3, <4>1, <4>2, <4>3 DEF Keeps, IsWorld, IsAt, isActive, Others, Touches
    <3> HIDE DEF named
    <3>2. Keeps(named, c) /\ c.s.remote = remotePair(a) /\ c.s.v6 = bound.s.v6 /\ (c.ok => a.does = "silent" \/ Fd(c).peer = a)
      BY <3>1, ConnectKeeps
    <3> HIDE DEF c
    <3>3. Keeps(Now, c)
      BY <2>4, <3>1, <3>2, KeepsCompose
    <3>4. CASE ~c.ok
      BY <1>2, <2>1, <2>7, <3>3, <3>4, NextAddress
    <3>5. CASE c.ok
      <4>1. trying' = [trying EXCEPT !.waits = TRUE] /\ Does("connecting", c)
        BY <2>1, <2>7, <3>5
      <4>2. IsTry(trying') /\ trying'.to[trying'.at] = a
        BY <4>1, TryMoves DEF SockInv, a
      <4>3. IsAt(sock', kernel') /\ OwnFds' /\ answer'.op = "connecting" /\ Forgets
        BY <1>2, <3>3, <4>1, NowFacts, StepKeeps DEF Keeps
      <4>4. sock' = c.s /\ kernel' = c.k
        BY <4>1 DEF Does
      <4>5. Allowed(c.s, a)
        BY <2>7, <3>2 DEF Allowed
      <4>6. Expecting'
        BY <3>2, <3>5, <4>2, <4>4, <4>5 DEF Expecting, Awaited, Fd
      <4>7. QED
        BY <4>2, <4>3, <4>6 DEF SockInv, ConnectedAsTold
    <3>6. QED
      BY <3>4, <3>5
  <2>8. QED
    BY <2>5, <2>6, <2>7
<1>6. QED
  BY <1>4, <1>5

\* What the wait for the address under way comes to.
Waited(bad) == tcpWaited(Now, trying.to[trying.at], bad)

LEMMA TcpWaitedStep == SockInv /\ TcpWaited => SockInv' /\ Forgets
<1> SUFFICES ASSUME SockInv, TcpWaited PROVE SockInv' /\ Forgets
  OBVIOUS
<1>1. PICK bad \in Bads, post \in BOOLEAN :
        IF ~Waited(bad).ok THEN Goes(Waited(bad))
        ELSE IF post THEN ConnectEnds(overridden(Waited(bad)))
        ELSE ConnectEnds(Failed(Dropped(overridden(Waited(bad)))))
  BY DEF TcpWaited, Waited
<1>2. handed' = handed /\ IsWorld(Now) /\ Now.s = sock /\ Now.k = kernel /\ trying.waits
  BY NowFacts DEF TcpWaited
<1> DEFINE a == trying.to[trying.at]
           c == Waited(bad)
           o == overridden(c)
<1>3. Touches(Now, c) /\ (c.ok => isActive(c.s) /\ Fd(c).blocks = TRUE /\ a.does # "silent")
  BY <1>2, WaitKeeps DEF Waited
<1>4. CASE ~c.ok
  BY <1>1, <1>2, <1>3, <1>4, NextAddress DEF Touches
<1>5. CASE c.ok
  <2>1. IF post THEN ConnectEnds(o) ELSE ConnectEnds(Failed(Dropped(o)))
    BY <1>1, <1>5
  <2> HIDE DEF c
  <2>2. /\ Touches(c, o) /\ o.ok = c.ok /\ Fd(o).blocks = Fd(c).blocks
        /\ c.s.override.read # -1 /\ ~c.s.listen => Fd(o).read = c.s.override.read
    BY <1>3, <1>5, OverrideKeeps DEF Touches, Keeps
  <2> HIDE DEF o
  <2>3. Touches(Now, o) /\ IsWorld(o)
    BY <1>3, <2>2, TouchesCompose DEF Touches, Keeps
  <2>4. CASE ConnectEnds(Failed(Dropped(o)))
    <3>1. Keeps(Now, Dropped(o)) /\ IsWorld(Dropped(o))
      BY <2>3, DropKeeps, KeepsCompose DEF Touches, Keeps
    <3>2. Keeps(Now, Failed(Dropped(o))) /\ ~Failed(Dropped(o)).ok
      BY <3>1, FailureKeeps, KeepsCompose DEF Touches
    <3>3. QED
      BY <1>2, <2>4, <3>2, AttemptFails
  <2>5. CASE ConnectEnds(o)
    <3>1. trying' = Idle /\ Does("connect", o)
      BY <2>5 DEF ConnectEnds
    <3>2. IsAt(sock', kernel') /\ OwnFds' /\ Forgets
      BY <1>2, <2>3, <3>1, StepKeeps DEF Touches, Keeps
    <3>3. IsTry(trying') /\ Expecting'
      BY <3>1, IdleIsATry DEF Expecting
    <3>4. sock' = o.s /\ kernel' = o.k
      BY <3>1 DEF Does
    <3>5. isActive(o.s) /\ isActive(sock) /\ o.s.fd = sock.fd /\ Fd(o).blocks = TRUE
      BY <1>2, <1>3, <1>5, <2>2, <2>3 DEF Touches, isActive
    <3>6. Awaited(sock, kernel, a) /\ a.does # "silent"
      BY <1>2, <1>3, <1>5 DEF SockInv, Expecting, Awaited
    <3>7. Fd(o).peer = a /\ o.s.remote = remotePair(a) /\ Allowed(o.s, a)
      BY <1>2, <2>3, <3>5, <3>6 DEF Awaited, Touches, Fd, Allowed
    <3>8. o.s.override.read # -1 /\ ~o.s.listen => Fd(o).read = o.s.override.read
      BY <2>2 DEF Touches
    <3>9. sock'.fd \in DOMAIN kernel'
      BY <3>2, <3>4, <3>5 DEF IsAt
    <3>10. ConnectedAsTold'
      BY <3>4, <3>5, <3>7, <3>8, <3>9 DEF ConnectedAsTold, Fd
    <3>11. QED
      BY <3>2, <3>3, <3>10 DEF SockInv
  <2>6. QED
    BY <2>1, <2>4, <2>5
<1>6. QED
  BY <1>4, <1>5

LEMMA UnixConnectFromStep == SockInv /\ UnixConnectFrom => SockInv' /\ Forgets
<1> SUFFICES ASSUME SockInv, UnixConnectFrom PROVE SockInv' /\ Forgets
  OBVIOUS
<1>1. PICK bad \in Bads, t \in Timeouts, does \in {"accepts", "refuses"} :
        LET w == socketCall(closeSocket(Now), "unix", bad)
            r == setReadTimeout(w, t)
        IN  IF ~w.ok THEN Does("connect", w)
            ELSE IF does = "refuses" THEN Does("connect", Failed(r))
            ELSE Does("connect", setFd(r, [Fd(r) EXCEPT !.peer = [family |-> "unix", host |-> <<"path">>, does |-> does]]))
  BY DEF UnixConnectFrom
<1>2. /\ handed' = handed /\ trying' = trying /\ Operation /\ kind \notin {"tcp", "tls"}
      /\ IsTry(trying') /\ ~trying'.waits
  BY OperationFacts DEF UnixConnectFrom
<1> DEFINE closed == closeSocket(Now)
           w == socketCall(closed, "unix", bad)
           r == setReadTimeout(w, t)
           peer == [family |-> "unix", host |-> <<"path">>, does |-> does]
           f == [Fd(r) EXCEPT !.peer = peer]
<1>3. Keeps(Now, w) /\ IsWorld(w) /\ (w.ok => isActive(w.s))
  <2>1. Keeps(Now, closed) /\ ~isActive(closed.s) /\ IsWorld(closed)
    BY NowFacts, CloseKeeps DEF Keeps
  <2> HIDE DEF closed
  <2>2. Keeps(closed, w) /\ IsWorld(w) /\ (w.ok => isActive(w.s))
    BY <2>1, OpenKeeps
  <2>3. QED
    BY <2>1, <2>2, KeepsCompose
<1>4. \/ Does("connect", w) \/ Does("connect", Failed(r))
      \/ w.ok /\ Does("connect", setFd(r, f))
  BY <1>1
<1> HIDE DEF w
<1>5. Touches(w, r) /\ IsWorld(r)
  BY <1>3, ReadTimeKeeps DEF Touches, Keeps
<1>6. Keeps(Now, r)
  BY <1>3, <1>5, KeepsCompose DEF Touches
<1> HIDE DEF r, peer
<1>7. Keeps(Now, Failed(r))
  BY <1>5, <1>6, FailureKeeps, KeepsCompose DEF Touches
<1>8. ASSUME w.ok PROVE Keeps(Now, setFd(r, f))
  <2>1. isActive(r.s)
    BY <1>3, <1>5, <1>8 DEF Touches, isActive
  <2>2. IsFd(f)
    BY <1>5, <2>1, FdFacts DEF IsFd
  <2> HIDE DEF f
  <2>3. QED
    BY <1>5, <1>6, <2>1, <2>2, FdChanges, KeepsCompose
<1> HIDE DEF f
<1>9. CASE Does("connect", w)
  BY <1>2, <1>3, <1>9, KeptEnds
<1>10. CASE Does("connect", Failed(r))
  BY <1>2, <1>7, <1>10, KeptEnds
<1>11. CASE w.ok /\ Does("connect", setFd(r, f))
  BY <1>2, <1>8, <1>11, KeptEnds
<1>12. QED
  BY <1>4, <1>9, <1>10, <1>11

LEMMA UdpConnectFromStep == SockInv /\ UdpConnectFrom => SockInv' /\ Forgets
<1> SUFFICES ASSUME SockInv, UdpConnectFrom PROVE SockInv' /\ Forgets
  OBVIOUS
<1>1. PICK bad \in Bads, bind \in Bindings, t \in Timeouts, to \in Resolved :
        \E c \in {[closeSocket(Now) EXCEPT !.s.res = IF getAddrInfo(to) THEN to[1] ELSE Nobody]} :
           IF ~getAddrInfo(to) THEN Does("connect", Failed(c))
           ELSE \E w \in {socketCall(c, to[1].family, bad)} :
                   IF ~w.ok THEN Does("connect", w)
                   ELSE \E b \in {bindTo(w, bind, bad)} :
                           Does("connect", IF b.ok THEN setReadTimeout(b, t) ELSE b)
  BY DEF UdpConnectFrom
<1>2. /\ handed' = handed /\ trying' = trying /\ Operation /\ kind \notin {"tcp", "tls"}
      /\ IsTry(trying') /\ ~trying'.waits
  BY OperationFacts DEF UdpConnectFrom
<1> DEFINE closed == closeSocket(Now)
           res == IF getAddrInfo(to) THEN to[1] ELSE Nobody
           c == [closed EXCEPT !.s.res = res]
           family == to[1].family
           w == socketCall(c, family, bad)
           b == bindTo(w, bind, bad)
           r == setReadTimeout(b, t)
<1>3. \/ Does("connect", Failed(c)) \/ Does("connect", w)
      \/ w.ok /\ (Does("connect", r) \/ Does("connect", b))
  BY <1>1
<1> HIDE DEF r, b, w, family, c, res
<1>4. Keeps(Now, closed) /\ ~isActive(closed.s) /\ IsWorld(closed)
  BY NowFacts, CloseKeeps DEF Keeps
<1> HIDE DEF closed
<1>5. Keeps(Now, c) /\ ~isActive(c.s) /\ IsWorld(c)
  <2>1. PICK s, k, ok : closed = [s |-> s, k |-> k, ok |-> ok] /\ IsAt(s, k) /\ ok \in BOOLEAN
    BY <1>4, WorldParts
  <2> DEFINE m == [s EXCEPT !.res = res]
  <2>2. c = [s |-> m, k |-> k, ok |-> ok]
    BY <2>1 DEF c
  <2>3. IsMembers(m) /\ m.fd = s.fd
    BY <2>1 DEF IsAt, IsMembers
  <2> HIDE DEF m
  <2>4. Keeps(closed, c) /\ ~isActive(c.s) /\ IsWorld(c)
    BY <1>4, <2>1, <2>2, <2>3 DEF Keeps, IsWorld, IsAt, isActive, Others
  <2>5. QED
    BY <1>4, <2>4, KeepsCompose
<1>6. Keeps(Now, w) /\ IsWorld(w) /\ (w.ok => isActive(w.s))
  BY <1>5, OpenKeeps, KeepsCompose DEF w
<1>7. w.ok => Keeps(Now, b) /\ Keeps(Now, r)
  <2> SUFFICES ASSUME w.ok PROVE Keeps(Now, b) /\ Keeps(Now, r)
    OBVIOUS
  <2>1. Keeps(w, b) /\ IsWorld(b)
    BY <1>6, BindKeeps DEF b, Keeps
  <2>2. Keeps(b, r)
    BY <2>1, ReadTimeKeeps DEF r, Touches
  <2>3. QED
    BY <1>6, <2>1, <2>2, KeepsCompose
<1>8. Keeps(Now, Failed(c))
  BY <1>5, FailureKeeps, KeepsCompose DEF Touches
<1>9. CASE Does("connect", Failed(c))
  BY <1>2, <1>8, <1>9, KeptEnds
<1>10. CASE Does("connect", w)
  BY <1>2, <1>6, <1>10, KeptEnds
<1>11. CASE w.ok /\ Does("connect", r)
  BY <1>2, <1>7, <1>11, KeptEnds
<1>12. CASE w.ok /\ Does("connect", b)
  BY <1>2, <1>7, <1>12, KeptEnds
<1>13. QED
  BY <1>3, <1>9, <1>10, <1>11, <1>12

LEMMA ListenOnStep == SockInv /\ listenOn => SockInv' /\ Forgets
<1> SUFFICES ASSUME SockInv, listenOn PROVE SockInv' /\ Forgets
  OBVIOUS
<1>1. PICK bad \in Bads : Does("listen", Listening(bad))
  BY DEF listenOn
<1>2. handed' = handed /\ IsTry(trying') /\ ~trying'.waits
  BY OperationFacts DEF listenOn
<1> DEFINE before == IF kind \in {"tcp", "tls"} THEN Now ELSE closeSocket(Now)
           family == IF kind = "unix" THEN "unix" ELSE IF sock.v6 THEN "v6" ELSE "v4"
           w == socketCall(before, family, bad)
           address == [given |-> TRUE]
           bound == IF kind = "unix" /\ "bind" \notin bad THEN w ELSE bindTo(w, address, bad)
           f == [Fd(bound) EXCEPT !.listens = TRUE]
           u == [bound EXCEPT !.s.listen = TRUE]
           v == Listening(bad)
<1>3. \/ v = w /\ ~w.ok
      \/ w.ok /\ v = Failed(closeSocket(w))
      \/ w.ok /\ v = bound
      \/ w.ok /\ bound.ok /\ v = u
      \/ w.ok /\ bound.ok /\ v = Failed(closeSocket(bound))
      \/ w.ok /\ bound.ok /\ v = [bound EXCEPT !.s.listen = TRUE, !.k[bound.s.fd].listens = TRUE]
  BY DEF Listening
<1> DEFINE Good(x) == IsWorld(x) /\ Others(sock, kernel) \subseteq Others(x.s, x.k)
<1>4. IsWorld(before) /\ Others(before.s, before.k) = Others(sock, kernel)
  BY NowFacts, CloseKeeps DEF Keeps
<1> HIDE DEF before, family, v
<1>5. Good(w) /\ (w.ok => isActive(w.s))
  BY <1>4, OpenKeeps
<1> HIDE DEF w, address
<1>6. ASSUME NEW x, IsWorld(x), Good(x) PROVE Good(Failed(closeSocket(x)))
  <2> DEFINE c == closeSocket(x)
  <2>1. Keeps(x, c) /\ IsWorld(c)
    BY <1>6, CloseKeeps DEF Keeps
  <2> HIDE DEF c
  <2>2. Keeps(c, Failed(c))
    BY <2>1, FailureKeeps DEF Touches
  <2>3. QED
    BY <1>6, <2>1, <2>2 DEF Keeps, c
<1>7. w.ok => Good(bound) /\ (bound.ok => isActive(bound.s))
  BY <1>5, BindKeeps DEF Keeps
<1> HIDE DEF bound
<1>8. ASSUME w.ok, bound.ok PROVE Good(u) /\ Good([bound EXCEPT !.s.listen = TRUE, !.k[bound.s.fd].listens = TRUE])
  <2>1. PICK s, k, ok : bound = [s |-> s, k |-> k, ok |-> ok] /\ IsAt(s, k) /\ ok \in BOOLEAN
    BY <1>7, <1>8, WorldParts
  <2> DEFINE yes == TRUE
             m == [s EXCEPT !.listen = yes]
             g == [k[s.fd] EXCEPT !.listens = yes]
             l == [k EXCEPT ![s.fd] = g]
             t == [bound EXCEPT !.s.listen = TRUE, !.k[bound.s.fd].listens = TRUE]
  <2>2. /\ u = [bound EXCEPT !.s.listen = yes]
        /\ t = [bound EXCEPT !.s.listen = yes, !.k[bound.s.fd].listens = yes]
    OBVIOUS
  <2> HIDE DEF yes, u, t
  <2>3. u = [s |-> m, k |-> k, ok |-> ok] /\ t = [s |-> m, k |-> l, ok |-> ok]
    BY ONLY <2>1, <2>2
  <2>4. IsMembers(m) /\ m.fd = s.fd
    BY <2>1 DEF IsAt, IsMembers
  <2>5. s.fd \in DOMAIN k /\ IsFd(k[s.fd])
    BY <1>7, <1>8, <2>1 DEF IsAt, IsKernel
  <2>6. IsFd(g)
    BY <2>5 DEF IsFd
  <2> HIDE DEF m, g
  <2>7. IsKernel(l) /\ DOMAIN l = DOMAIN k
    BY <2>1, <2>5, <2>6 DEF IsAt, IsKernel
  <2> HIDE DEF l
  <2>8. Others(sock, kernel) \subseteq DOMAIN k \ {s.fd} /\ bound.s = s
    BY <1>7, <1>8, <2>1 DEF Others
  <2>9. Good(u)
    BY <2>1, <2>3, <2>4, <2>8 DEF IsWorld, IsAt, isActive, Others
  <2>10. Good(t)
    BY <2>1, <2>3, <2>4, <2>7, <2>8 DEF IsWorld, IsAt, isActive, Others
  <2>11. QED
    BY <2>9, <2>10 DEF t
<1>9. Good(v)
  BY <1>3, <1>5, <1>6, <1>7, <1>8
<1>10. QED
  BY <1>1, <1>2, <1>9, OperationEnds DEF v

\* An object is given away on a descriptor that nobody had.
LEMMA FdOpens ==
    ASSUME NEW s, NEW k, IsAt(s, k), NEW n \in Free(k), NEW f, IsFd(f), NEW l, l = Open(k, n, f)
    PROVE  IsAt(s, l) /\ Others(s, l) = Others(s, k) \cup {n} /\ n \notin Others(s, k) /\ n # s.fd
           /\ (isActive(s) => l[s.fd] = k[s.fd]) /\ Free(l) = Free(k) \ {n}
<1>1. n \in 1 .. MaxFds /\ n # NoFd /\ n \notin DOMAIN k
  BY CallsAssumption DEF Free, NoFd
<1>2. n # s.fd
  BY <1>1 DEF IsAt, isActive
<1>3. IsKernel(l) /\ DOMAIN l = DOMAIN k \cup {n} /\ \A m \in DOMAIN k : l[m] = k[m]
  BY <1>1 DEF IsAt, IsKernel, Open
<1>4. QED
  BY <1>1, <1>2, <1>3 DEF IsAt, Others, Free

LEMMA FreshIsFd == ASSUME NEW family PROVE IsFd(Fresh(family))
BY DEF IsFd, Fresh

LEMMA Handing ==
    ASSUME SockInv, sock' = sock, NEW given, DOMAIN kernel \subseteq DOMAIN kernel', handed' = handed \cup given,
           answer'.op \notin {"connect", "listen"}, trying' = Idle, IsAt(sock, kernel'),
           \A h \in given : h.fd \in Others(sock, kernel') /\ h.fd \notin Others(sock, kernel),
           \A g, h \in given : g.fd = h.fd => g = h
    PROVE  SockInv' /\ Forgets
<1>1. OwnFds'
  BY DEF SockInv, OwnFds, Others
<1>2. Forgets
  BY DEF Forgets, Owned
<1>3. IsTry(trying') /\ Expecting' /\ ConnectedAsTold'
  BY IdleIsATry DEF Expecting, ConnectedAsTold
<1>4. QED
  BY <1>1, <1>2, <1>3 DEF SockInv

LEMMA AcceptStep == SockInv /\ acceptConnection => SockInv' /\ Forgets
<1> SUFFICES ASSUME SockInv, acceptConnection PROVE SockInv' /\ Forgets
  OBVIOUS
<1>1. trying' = trying /\ trying' = Idle /\ IsTry(trying') /\ ~trying'.waits
  BY OperationFacts DEF acceptConnection, Operation
<1>2. CASE Does("accept", Failed(Now)) /\ handed' = handed
  BY <1>1, <1>2, NowFacts, FailureKeeps, KeptEnds DEF Touches
<1>3. CASE ~(Does("accept", Failed(Now)) /\ handed' = handed)
  <2> DEFINE n == Lowest(Free(kernel))
             f == AcceptedFd
             h == Accepted(n)
  <2>1. /\ Free(kernel) # {} /\ Does("accept", [Now EXCEPT !.k = Open(kernel, n, f)]) /\ handed' = handed \cup {h}
    BY <1>3 DEF acceptConnection
  <2>2. IsFd(f)
    <3> DEFINE g == Fresh(IF kind = "unix" THEN "unix" ELSE kernel[sock.fd].family)
               p == [family |-> "v4", host |-> <<"client">>, does |-> "accepts"]
               r == IF kind = "unix" THEN 0 ELSE sock.read
               w == IF kind = "unix" THEN 0 ELSE sock.write
    <3>1. f = [g EXCEPT !.peer = p, !.read = r, !.write = w]
      BY DEF AcceptedFd
    <3>2. IsFd(g)
      BY FreshIsFd
    <3> HIDE DEF f, g, p, r, w
    <3>3. QED
      BY <3>1, <3>2 DEF IsFd
  <2>3. n \in Free(kernel)
    BY <2>1, FreeIsThere
  <2>4. h.fd = n
    BY DEF Accepted
  <2> HIDE DEF n, f, h
  <2>5. sock' = sock /\ kernel' = Open(kernel, n, f) /\ answer'.op = "accept"
    BY <2>1, NowFacts DEF Does, Now, On
  <2>6. IsAt(sock, kernel') /\ Others(sock, kernel') = Others(sock, kernel) \cup {n} /\ n \notin Others(sock, kernel)
    BY <2>2, <2>3, <2>5, FdOpens DEF SockInv
  <2>7. DOMAIN kernel \subseteq DOMAIN kernel'
    BY <2>5 DEF Open
  <2> DEFINE given == {h}
  <2>8. /\ handed' = handed \cup given /\ \A g, i \in given : g.fd = i.fd => g = i
        /\ \A g \in given : g.fd \in Others(sock, kernel') /\ g.fd \notin Others(sock, kernel)
    BY <2>1, <2>4, <2>6
  <2> HIDE DEF given
  <2>9. QED
    BY <1>1, <2>5, <2>6, <2>7, <2>8, Handing
<1>4. QED
  BY <1>2, <1>3

LEMMA SocketPairStep == SockInv /\ GetSocketPair => SockInv' /\ Forgets
<1> SUFFICES ASSUME SockInv, GetSocketPair PROVE SockInv' /\ Forgets
  OBVIOUS
<1>1. trying' = trying /\ trying' = Idle /\ IsTry(trying') /\ ~trying'.waits
  BY OperationFacts DEF GetSocketPair, Operation
<1>2. CASE Does("pair", Failed(Now)) /\ handed' = handed
  BY <1>1, <1>2, NowFacts, FailureKeeps, KeptEnds DEF Touches
<1>3. CASE ~(Does("pair", Failed(Now)) /\ handed' = handed)
  <2> DEFINE a == Lowest(Free(kernel))
             b == Lowest(Free(kernel) \ {a})
             f == Fresh("unix")
             k == Open(kernel, a, f)
             given == {[fd |-> n, read |-> DefaultTimeout, write |-> DefaultTimeout] : n \in {a, b}}
  <2>1. /\ ~(Cardinality(Free(kernel)) < 2)
        /\ Does("pair", [Now EXCEPT !.k = Open(k, b, f)]) /\ handed' = handed \cup given
    BY <1>3 DEF GetSocketPair
  <2>2. a \in Free(kernel) /\ Free(kernel) \ {a} # {}
    <3>1. Free(kernel) # {}
      BY <2>1, FS_EmptySet
    <3>2. a \in Free(kernel)
      BY <3>1, FreeIsThere
    <3>3. Cardinality({a}) = 1
      BY FS_Singleton
    <3>4. QED
      BY <2>1, <3>2, <3>3
  <2>3. b \in Free(kernel) \ {a}
    <3>1. Free(kernel) \ {a} \subseteq Nat
      BY CallsAssumption DEF Free
    <3>2. QED
      BY <2>2, <3>1, LowestIsThere
  <2>4. IsFd(f)
    BY FreshIsFd
  <2>5. \A h \in given : h.fd \in {a, b}
    OBVIOUS
  <2>6. \A g, h \in given : g.fd = h.fd => g = h
    OBVIOUS
  <2> HIDE DEF a, b, f, k, given
  <2>7. /\ IsAt(sock, k) /\ Others(sock, k) = Others(sock, kernel) \cup {a} /\ a \notin Others(sock, kernel)
        /\ Free(k) = Free(kernel) \ {a}
    BY <2>2, <2>4, FdOpens DEF SockInv, k
  <2>8. sock' = sock /\ kernel' = Open(k, b, f) /\ answer'.op = "pair"
    BY <2>1, NowFacts DEF Does, Now, On
  <2>9. IsAt(sock, kernel') /\ Others(sock, kernel') = Others(sock, k) \cup {b} /\ b \notin Others(sock, k)
    BY <2>3, <2>4, <2>7, <2>8, FdOpens
  <2>10. DOMAIN kernel \subseteq DOMAIN kernel'
    BY <2>8 DEF Open, k
  <2>11. \A h \in given : h.fd \in Others(sock, kernel') /\ h.fd \notin Others(sock, kernel)
    BY <2>5, <2>7, <2>9
  <2>12. QED
    BY <1>1, <2>1, <2>6, <2>8, <2>9, <2>10, <2>11, Handing
<1>4. QED
  BY <1>2, <1>3

LEMMA AdoptedStep == SockInv /\ Adopted => SockInv' /\ Forgets
<1> SUFFICES ASSUME SockInv, Adopted PROVE SockInv' /\ Forgets
  OBVIOUS
<1> DEFINE h == [fd |-> sock.fd, read |-> DefaultTimeout, write |-> DefaultTimeout]
           s == [sock EXCEPT !.fd = NoFd]
<1>1. /\ IsTry(trying') /\ ~trying'.waits /\ isActive(sock) /\ handed' = handed \cup {h}
      /\ Does("adquire", [Now EXCEPT !.s.fd = NoFd])
  BY OperationFacts DEF Adopted
<1>2. h.fd = sock.fd /\ sock.fd \in DOMAIN kernel /\ sock.fd # NoFd
  BY <1>1 DEF SockInv, IsAt, isActive
<1>3. sock' = s /\ kernel' = kernel /\ answer'.op = "adquire"
  BY <1>1 DEF Does, Now, On
<1>4. IsMembers(s) /\ s.fd = NoFd
  BY DEF SockInv, IsAt, IsMembers
<1>5. NoFd \notin DOMAIN kernel
  BY CallsAssumption DEF SockInv, IsAt, IsKernel, NoFd
<1> HIDE DEF h, s
<1>6. IsAt(sock', kernel')
  BY <1>3, <1>4 DEF SockInv, IsAt, isActive
<1>7. OwnFds'
  BY <1>1, <1>2, <1>3, <1>4, <1>5 DEF SockInv, OwnFds, Others
<1>8. Forgets
  BY <1>1, <1>2 DEF Forgets, Owned
<1>9. QED
  BY <1>1, <1>3, <1>6, <1>7, <1>8 DEF SockInv, Expecting, ConnectedAsTold

LEMMA HandedEndsStep == SockInv /\ HandedEnds => SockInv' /\ Forgets
<1> SUFFICES ASSUME SockInv, HandedEnds PROVE SockInv' /\ Forgets
  OBVIOUS
<1>1. PICK h \in handed : handed' = handed \ {h} /\ kernel' = Shut(kernel, h.fd)
  BY DEF HandedEnds
<1>2. sock' = sock /\ trying' = trying /\ answer' = answer /\ kind' = kind
  BY DEF HandedEnds
<1>3. h.fd # sock.fd /\ \A g \in handed' : g.fd # h.fd
  BY <1>1 DEF SockInv, OwnFds, Others
<1>4. /\ IsKernel(kernel') /\ DOMAIN kernel' = DOMAIN kernel \ {h.fd}
      /\ \A n \in DOMAIN kernel' : kernel'[n] = kernel[n]
  BY <1>1 DEF SockInv, IsAt, IsKernel, Shut
<1>5. IsAt(sock', kernel') /\ (isActive(sock) => kernel'[sock.fd] = kernel[sock.fd])
  BY <1>2, <1>3, <1>4 DEF SockInv, IsAt
<1>6. OwnFds'
  BY <1>1, <1>2, <1>3, <1>4 DEF SockInv, OwnFds, Others
<1>7. Expecting'
  BY <1>2, <1>5 DEF SockInv, Expecting, Awaited
<1>8. ConnectedAsTold'
  BY <1>2, <1>3, <1>4, <1>5 DEF SockInv, ConnectedAsTold
<1>9. Forgets
  BY <1>1, <1>2, <1>4 DEF Forgets, Owned
<1>10. QED
  BY <1>2, <1>5, <1>6, <1>7, <1>8, <1>9 DEF SockInv

LEMMA OtherStep ==
    ASSUME SockInv, UdpBlock \/ isConnected \/ Options \/ Ending
    PROVE  SockInv' /\ Forgets
<1>1. handed' = handed /\ IsTry(trying') /\ ~trying'.waits
  BY OperationFacts DEF UdpBlock, isConnected, Options, Ending
<1>2. \E op, v : Does(op, v) /\ op # "connect" /\ Keeps(Now, v)
  <2>1. IsWorld(Now) /\ Keeps(Now, Now) /\ Keeps(Now, Failed(Now))
    BY NowFacts, FailureKeeps DEF Touches
  <2>2. CASE UdpBlock
    BY <2>1, <2>2 DEF UdpBlock
  <2>3. CASE isConnected
    <3>1. Keeps(Now, Failed(closeSocket(Now)))
      <4> DEFINE c == closeSocket(Now)
      <4>1. Keeps(Now, c) /\ IsWorld(c)
        BY <2>1, CloseKeeps DEF Keeps
      <4> HIDE DEF c
      <4>2. Keeps(Now, Failed(c))
        BY <4>1, FailureKeeps, KeepsCompose DEF Touches
      <4>3. QED
        BY <4>2 DEF c
    <3>2. QED
      BY <2>1, <2>3, <3>1 DEF isConnected
  <2>4. CASE Ending
    <3>1. \A mode \in Modes : Keeps(Now, shutdownSocket(Now, mode))
      BY <2>1, ShutdownKeeps DEF Touches
    <3>2. Keeps(Now, closeSocket(Now))
      BY <2>1, CloseKeeps
    <3>3. QED
      BY <2>4, <3>1, <3>2 DEF Ending
  <2>5. CASE \E t \in Timeouts : Does("setReadTimeout", setReadTimeout(Now, t))
    BY <2>1, <2>5, ReadTimeKeeps DEF Touches
  <2>6. CASE \E t \in Timeouts : Does("setWriteTimeout", setWriteTimeout(Now, t))
    BY <2>1, <2>6, WriteTimeKeeps DEF Touches
  <2>7. CASE \E t \in Timeouts : Does("override", [Now EXCEPT !.s.override = [read |-> t, write |-> t]])
    <3>1. PICK t \in Timeouts : Does("override", [Now EXCEPT !.s.override = [read |-> t, write |-> t]])
      BY <2>7
    <3> DEFINE o == [read |-> t, write |-> t]
               m == [sock EXCEPT !.override = o]
               v == [Now EXCEPT !.s.override = o]
    <3>2. v = [s |-> m, k |-> kernel, ok |-> Now.ok]
      <4>1. PICK s, k, ok : Now = [s |-> s, k |-> k, ok |-> ok]
        BY <2>1, WorldParts
      <4> HIDE DEF m, o
      <4>2. v = [s |-> [s EXCEPT !.override = o], k |-> k, ok |-> ok]
        BY <4>1
      <4>3. s = sock /\ k = kernel /\ ok = Now.ok
        BY <4>1, NowFacts
      <4>4. QED
        BY <4>2, <4>3 DEF m
    <3>3. IsMembers(m) /\ m.fd = sock.fd
      BY DEF SockInv, IsAt, IsMembers
    <3> HIDE DEF m, o
    <3>4. Keeps(Now, v)
      BY <3>2, <3>3, NowFacts DEF Keeps, IsWorld, IsAt, isActive, Others, SockInv
    <3>5. QED
      BY <3>1, <3>4 DEF o
  <2>8. CASE Does("setUseIPv6", [Now EXCEPT !.s.v6 = ~@])
    <3> DEFINE b == ~sock.v6
               m == [sock EXCEPT !.v6 = b]
               v == [Now EXCEPT !.s.v6 = b]
    <3>1. [Now EXCEPT !.s.v6 = ~@] = v
      BY NowFacts
    <3> HIDE DEF b
    <3>2. v = [s |-> m, k |-> kernel, ok |-> Now.ok]
      <4>1. PICK s, k, ok : Now = [s |-> s, k |-> k, ok |-> ok]
        BY <2>1, WorldParts
      <4> HIDE DEF m
      <4>2. v = [s |-> [s EXCEPT !.v6 = b], k |-> k, ok |-> ok]
        BY <4>1
      <4>3. s = sock /\ k = kernel /\ ok = Now.ok
        BY <4>1, NowFacts
      <4>4. QED
        BY <4>2, <4>3 DEF m
    <3>3. IsMembers(m) /\ m.fd = sock.fd
      BY DEF SockInv, IsAt, IsMembers
    <3> HIDE DEF m, v
    <3>4. Keeps(Now, v)
      BY <3>2, <3>3, NowFacts DEF Keeps, IsWorld, IsAt, isActive, Others, SockInv
    <3>5. QED
      BY <2>8, <3>1, <3>4
  <2>9. QED
    BY <2>2, <2>3, <2>4, <2>5, <2>6, <2>7, <2>8 DEF Options
<1>3. QED
  BY <1>1, <1>2, KeptEnds

LEMMA CloserStep == SockInv /\ (CloserAsks \/ CloserCloses) => SockInv' /\ Forgets
<1> SUFFICES ASSUME SockInv, CloserAsks \/ CloserCloses PROVE SockInv' /\ Forgets
  OBVIOUS
<1>1. CASE CloserAsks
  BY <1>1 DEF CloserAsks, SockInv, OwnFds, Expecting, ConnectedAsTold, Forgets, Owned
<1>2. CASE CloserCloses
  <2> DEFINE c == closeSocket(Now)
  <2>1. /\ sock' = c.s /\ kernel' = c.k /\ answer'.op = "closed"
        /\ handed' = handed /\ trying' = trying /\ kind' = kind
    BY <1>2 DEF CloserCloses
  <2>2. /\ Keeps(Now, c) /\ ~isActive(c.s) /\ c.s.remote = sock.remote /\ c.s.v6 = sock.v6
    BY NowFacts, CloseKeeps
  <2> HIDE DEF c
  <2>3. IsAt(sock', kernel') /\ Others(sock', kernel') = Others(sock, kernel)
    BY <2>1, <2>2, NowFacts DEF Keeps, IsWorld
  <2>4. OwnFds' /\ Forgets
    BY <2>1, <2>3 DEF SockInv, OwnFds, Forgets, Owned, Others
  <2>5. Expecting'
    BY <2>1, <2>2 DEF SockInv, Expecting, Awaited, Allowed, isActive
  <2>6. QED
    BY <2>1, <2>3, <2>4, <2>5 DEF SockInv, ConnectedAsTold
<1>3. QED
  BY <1>1, <1>2

LEMMA SockStarts == NInit => SockInv
<1> SUFFICES ASSUME NInit PROVE SockInv
  OBVIOUS
<1>1. IsMembers(sock) /\ sock.fd = NoFd
  <2> DEFINE no == FALSE
             o == [read |-> -1, write |-> -1]
  <2>1. sock = [fd |-> NoFd, down |-> {}, read |-> DefaultTimeout, write |-> DefaultTimeout, listen |-> no,
                v6 |-> no, remote |-> Nobody.host, override |-> o, res |-> Nobody]
    BY DEF NInit, initVars
  <2> HIDE DEF no, o
  <2>2. QED
    BY <2>1 DEF IsMembers
<1>2. IsKernel(kernel)
  BY DEF NInit, IsKernel
<1>3. QED
  BY <1>1, <1>2, IdleIsATry DEF NInit, SockInv, IsAt, isActive, OwnFds, Expecting, ConnectedAsTold

LEMMA SockStays == SockInv /\ [NNext]_nvars => SockInv' /\ Forgets
<1> SUFFICES ASSUME SockInv, [NNext]_nvars PROVE SockInv' /\ Forgets
  OBVIOUS
<1>1. CASE UNCHANGED nvars
  BY <1>1 DEF nvars, SockInv, OwnFds, Expecting, ConnectedAsTold, Forgets, Owned
<1>2. CASE NNext
  BY <1>2, TcpConnectFromStep, TcpTryStep, TcpWaitedStep, UnixConnectFromStep, UdpConnectFromStep, ListenOnStep,
     AcceptStep, HandedEndsStep, SocketPairStep, AdoptedStep, OtherStep, CloserStep DEF NNext
<1>3. QED
  BY <1>1, <1>2

\* Socket_TCP::connectFrom: whichever addresses failed, whatever was listened on or overridden before, and whenever
\* the second thread closes, an object that answers true is connected as it says.
THEOREM AlwaysConnectedAsTold == NInit /\ [][NNext]_nvars => []ConnectedAsTold
<1>1. SockInv => ConnectedAsTold
  BY DEF SockInv
<1>2. QED
  BY <1>1, SockStarts, SockStays, PTL

\* Socket::closeSocket and its callers: no descriptor is lost but by listening over it, for any number of them.
THEOREM DescriptorsAreKept == NInit /\ [][NNext]_nvars => OnlyListenForgets
<1>1. SockInv /\ [NNext]_nvars => [Forgets]_nvars
  BY SockStays
<1>2. [Forgets]_nvars =>
        [\A n \in DOMAIN kernel : (Owned(n) /\ n \in DOMAIN kernel') => (Owned(n)' \/ answer'.op = "listen")]_nvars
  BY DEF Forgets
<1>3. QED
  BY <1>1, <1>2, SockStarts, SockStays, PTL DEF OnlyListenForgets

===============================================================================
