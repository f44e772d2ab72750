--------------------------------- MODULE Tls ----------------------------------
(* Socket_TLS: sessions made and destroyed by several threads at a time, and  *)
(* the two lists, shared by all, in which OpenSSL's callbacks look for the    *)
(* pre-shared keys of a session by the address of its handle.  The allocator  *)
(* may give a freed address again at once.                                    *)
EXTENDS Naturals, FiniteSets

CONSTANTS Sessions,     \* the Socket_TLS objects
          Handles,      \* addresses of SSL handles
          NoHandle,
          Settings,     \* what applications set: keys, trusted authority, validation
          MaxTries      \* how often a read or a write that has to wait is tried again

ASSUME TlsAssumption == NoHandle \notin Handles

VARIABLES tls,          \* the objects
          wallets       \* svrPSKBySSLH and cliPSKBySSLH: handle to the object whose values it is told

tvars == <<tls, wallets>>

Sides == {"server", "client"}
Validations == {"validate", "check and pass", "no"}
\* An accepted socket takes its listener's keys and its authority, and never its validation.
Configurations ==
    {c \in [side : Sides, psk : BOOLEAN, keys : {"pair", "none", "half"}, authority : BOOLEAN,
            validation : {"validate", "check and pass", "no"}] : c.side = "server" => c.validation = "validate"}
ASSUME SettingsAssumption == Settings \subseteq Configurations

NewSession(c) == [at |-> "new", set |-> c, validation |-> c.validation, handle |-> NoHandle, linked |-> FALSE,
                  verifies |-> FALSE, told |-> {}, peer |-> "unknown", notified |-> FALSE, shut |-> FALSE]

Live(n) == tls[n].handle # NoHandle /\ tls[n].at \notin {"freed", "erased one"}
FreeHandles == {h \in Handles : \A n \in Sessions : Live(n) => tls[n].handle # h}
At(n, place) == tls[n].at = place
Becomes(n, session) == tls' = [tls EXCEPT ![n] = session]

\* The context, then the handle.  A session that exists is never made again, whatever became of it.
createTLSContext(n) ==
    /\ At(n, "new")
    /\ \E h \in FreeHandles : Becomes(n, [tls[n] EXCEPT !.at = "linking", !.handle = h])
    /\ UNCHANGED wallets
ConnectedAgain(n) ==
    /\ tls[n].at \in {"up", "failed"} /\ tls[n].handle # NoHandle
    /\ Becomes(n, [tls[n] EXCEPT !.at = "failed"])
    /\ UNCHANGED wallets

\* setSSLHandler: the values are put in the list unless something is there for that address.  A client is
\* linked whether it has a key or not; a server when its listener has keys.
setSSLHandler(n) ==
    LET side == tls[n].set.side
        h == tls[n].handle
    IN  /\ At(n, "linking")
        /\ Becomes(n, [tls[n] EXCEPT !.at = "keys", !.linked = side = "client" \/ tls[n].set.psk])
        /\ wallets' = IF tls[n].set.psk /\ wallets[side][h] = {} THEN [wallets EXCEPT ![side][h] = {n}] ELSE wallets

\* A certificate without its key, or a key without its certificate, is refused.  Without an authority nothing is
\* validated; with one the peer must have a certificate that verifies, for the flag of the other case is zero.
initTLSKeys(n) ==
    /\ At(n, "keys")
    /\ Becomes(n, IF tls[n].set.keys = "half" THEN [tls[n] EXCEPT !.at = "failed"]
                  ELSE IF tls[n].set.authority THEN [tls[n] EXCEPT !.at = "shaking hands", !.verifies = TRUE]
                  ELSE [tls[n] EXCEPT !.at = "shaking hands", !.validation = "no"])
    /\ UNCHANGED wallets

\* cbPSKServer answers no key, cbPSKClient uses what it finds without a test, when nothing is in the list.
PskHandshake(n) ==
    LET found == wallets[tls[n].set.side][tls[n].handle]
    IN  IF found = {} THEN {[tls[n] EXCEPT !.at = IF tls[n].set.side = "server" THEN "failed" ELSE "crashed"]}
        ELSE {[tls[n] EXCEPT !.at = place, !.told = found, !.peer = "key"] : place \in {"validating", "failed"}}
\* Variant: the handshake does not verify what it is shown.
CertHandshakeUnverified(n) ==
    {[tls[n] EXCEPT !.peer = cert, !.at = "validating"] : cert \in {"good", "bad", "missing"}}
CertHandshake(n) ==
    {[tls[n] EXCEPT !.peer = cert, !.at = IF tls[n].verifies /\ cert # "good" THEN "failed" ELSE "validating"] :
        cert \in {"good", "bad", "missing"}}
Handshake(n) ==
    /\ At(n, "shaking hands")
    /\ \E after \in IF tls[n].set.psk THEN PskHandshake(n) ELSE CertHandshake(n) : Becomes(n, after)
    /\ UNCHANGED wallets

validateTLSConnection(n) ==
    /\ At(n, "validating")
    /\ Becomes(n, [tls[n] EXCEPT !.at =
            IF tls[n].validation \in {"no", "check and pass"} \/ tls[n].peer \in {"key", "good"} THEN "up" ELSE "failed"])
    /\ UNCHANGED wallets

\* A read or a write: data, the end, a wait that is tried again up to its bound, or an error, which shuts
\* the descriptor (once).  Both end, the session stays.
Transfer(n, outcomes) ==
    /\ At(n, "up")
    /\ \E o \in outcomes, tries \in 0..MaxTries :
          Becomes(n, [tls[n] EXCEPT !.shut = @ \/ (o = "error" /\ tries < MaxTries)])
    /\ UNCHANGED wallets
iPartialRead(n) == Transfer(n, {"data", "closed", "error"})
iPartialWrite(n) == Transfer(n, {"data", "closed", "error"})

\* The end is told once; the descriptor is left to the peer's answer.
tlsShutdown(n) ==
    /\ At(n, "up")
    /\ ~tls[n].notified /\ ~tls[n].shut
    /\ Becomes(n, [tls[n] EXCEPT !.notified = TRUE])
    /\ UNCHANGED wallets

---- \* The destructors, in their order: the handle, then the entry in each list.

FreesHandle(n) ==
    /\ tls[n].at \in {"new", "failed", "up"}
    /\ Becomes(n, [tls[n] EXCEPT !.at = "freed"])
    /\ UNCHANGED wallets
\* Variant: only the list of the servers is cleaned.
ErasedServers(n, side) ==
    wallets' = IF tls[n].linked /\ side = "server" THEN [wallets EXCEPT ![side][tls[n].handle] = {}] ELSE wallets
Erased(n, side) ==
    wallets' = IF tls[n].linked THEN [wallets EXCEPT ![side][tls[n].handle] = {}] ELSE wallets
ErasesServer(n) ==
    /\ At(n, "freed")
    /\ Becomes(n, [tls[n] EXCEPT !.at = "erased one"])
    /\ Erased(n, "server")
ErasesClient(n) ==
    /\ At(n, "erased one")
    /\ Becomes(n, [tls[n] EXCEPT !.at = "gone"])
    /\ Erased(n, "client")

TInit ==
    /\ tls \in [Sessions -> {NewSession(c) : c \in Settings}]
    /\ wallets = [side \in Sides |-> [h \in Handles |-> {}]]
TNext ==
    \E n \in Sessions :
        \/ createTLSContext(n) \/ ConnectedAgain(n) \/ setSSLHandler(n) \/ initTLSKeys(n) \/ Handshake(n)
        \/ validateTLSConnection(n) \/ iPartialRead(n) \/ iPartialWrite(n) \/ tlsShutdown(n)
        \/ FreesHandle(n) \/ ErasesServer(n) \/ ErasesClient(n)
TlsSpec == TInit /\ [][TNext]_tvars

---- \* Properties

Places == {"new", "linking", "keys", "shaking hands", "validating", "up", "failed", "crashed",
           "freed", "erased one", "gone"}
SessionType ==
    [at : Places, set : Configurations, validation : Validations, handle : Handles \cup {NoHandle},
     linked : BOOLEAN, verifies : BOOLEAN, told : SUBSET Sessions,
     peer : {"unknown", "key", "good", "bad", "missing"}, notified : BOOLEAN, shut : BOOLEAN]
TlsTypeOK ==
    /\ tls \in [Sessions -> SessionType]
    /\ wallets \in [Sides -> [Handles -> SUBSET Sessions]]

\* The lists never name an object that is gone: a callback that finds a wallet finds one that exists, however
\* handles are freed and given again between a session's end and its removal from the lists.
NoKeysOfTheDead ==
    \A side \in Sides, h \in Handles : \A n \in wallets[side][h] : tls[n].at \notin {"new", "linking", "gone"}

\* A session is up only with a peer that proved itself in the way the session was set to ask for: by key, by a
\* certificate that verifies, or in no way when no authority was given.
UpIsProved ==
    \A n \in Sessions : (At(n, "up") /\ tls[n].set.authority) => tls[n].peer \in {"key", "good"}

\* "If there is any configured PSK, put the key in the static list here..." (postConnectSubInitialization): from
\* there until its end a session's own values are the ones the list has for it.
OwnKeysInTheList ==
    \A n \in Sessions :
        (tls[n].at \in {"keys", "shaking hands"} /\ tls[n].set.psk) => wallets[tls[n].set.side][tls[n].handle] = {n}
===============================================================================
