------------------------------ MODULE RemoteLogin -------------------------------
(* LoginRPCClient: the loop that connects to the server of accounts, and the  *)
(* mutual challenge (CryptoChallenge) in which each side shows the other that *)
(* it has the key of the application, over a connection that may break at any *)
(* step.  Both are programs of this library: each runs the challenge as it is *)
(* here, with the key it was given, which need not be the other's.  A program *)
(* that answers in some other way is not modelled.                            *)
EXTENDS Naturals, Sequences

CONSTANTS ApiKeys,          \* of the application, as each side may have it
          EmptyKey,         \* what the server answers with when it was not convinced
          MaxConnections

VARIABLES peers,            \* the two programs, each with its place in the challenge
          pipe,             \* what was written to each of them and not read yet
          standing,         \* whether the connection stands
          connections       \* so far

rlvars == <<peers, pipe, standing, connections>>

Other(e) == IF e = "client" THEN "server" ELSE "client"
Is(e, place) == peers[e].at = place

\* A random string is of who made it, and for which connection.
RandomOf(e) == <<e, connections>>
calcSHA256(key, first, second) == [key |-> key, first |-> first, second |-> second]

Apart(key) == [key |-> key, at |-> "apart", theirs |-> <<>>, accepts |-> FALSE]
Refused(e) == [peers[e] EXCEPT !.at = "refused"]

\* What a side writes and what becomes of it; when the connection is broken the challenge is lost.
Tells(e, message, next) ==
    IF standing THEN /\ pipe' = [pipe EXCEPT ![Other(e)] = Append(@, message)]
                     /\ peers' = [peers EXCEPT ![e] = next]
                ELSE peers' = [peers EXCEPT ![e] = Refused(e)] /\ UNCHANGED pipe
\* What it waits for is there; nothing more will come when the connection is broken.
Hears(e) == pipe[e] # <<>> /\ pipe' = [pipe EXCEPT ![e] = Tail(@)]
Silence(e) == pipe[e] = <<>> /\ ~standing /\ UNCHANGED pipe
LeftAlone == UNCHANGED <<standing, connections>>

---- \* The challenge

\* Each side sends its random string and waits for the other's.
SendsRandom(e) ==
    /\ Is(e, "greets")
    /\ Tells(e, RandomOf(e), [peers[e] EXCEPT !.at = "random"])
    /\ LeftAlone
HearsRandom(e) ==
    /\ Is(e, "random")
    /\ \/ /\ Hears(e)
          /\ peers' = [peers EXCEPT ![e].theirs = Head(pipe[e]), ![e].at = IF e = "client" THEN "proves" ELSE "judges"]
       \/ Silence(e) /\ peers' = [peers EXCEPT ![e] = Refused(e)]
    /\ LeftAlone

\* The client proves first; the server shows its own key only to a client that convinced it.
Proves(e) ==
    /\ Is(e, "proves")
    /\ LET key == IF e = "client" \/ peers[e].accepts THEN peers[e].key ELSE EmptyKey
       IN  Tells(e, calcSHA256(key, peers[e].theirs, RandomOf(e)),
                 [peers[e] EXCEPT !.at = IF e = "client" THEN "judges" ELSE "says"])
    /\ LeftAlone
Judges(e) ==
    /\ Is(e, "judges")
    /\ \/ /\ Hears(e)
          /\ peers' = [peers EXCEPT
                ![e].accepts = Head(pipe[e]) = calcSHA256(peers[e].key, RandomOf(e), peers[e].theirs),
                ![e].at = IF e = "client" THEN "says" ELSE "proves"]
       \/ Silence(e) /\ peers' = [peers EXCEPT ![e] = Refused(e)]
    /\ LeftAlone

\* Each says whether it was convinced; that this could be written is not looked at.
SaysVerdict(e) ==
    /\ Is(e, "says")
    /\ peers' = [peers EXCEPT ![e].at = "verdict"]
    /\ pipe' = IF standing THEN [pipe EXCEPT ![Other(e)] = Append(@, peers[e].accepts)] ELSE pipe
    /\ LeftAlone
\* Both must be convinced; an answer that does not come is taken for a no.
\* Variant: what the other says is not waited for.
AgreedAlone(e, verdict) == peers[e].accepts
Agreed(e, verdict) == peers[e].accepts /\ verdict
HearsVerdict(e) ==
    /\ Is(e, "verdict")
    /\ \/ /\ Hears(e)
          /\ peers' = [peers EXCEPT ![e].at = IF Agreed(e, Head(pipe[e])) THEN "processing" ELSE "refused"]
       \/ Silence(e) /\ peers' = [peers EXCEPT ![e] = Refused(e)]
    /\ LeftAlone

---- \* The loop

\* A new connection: the application's name is sent, and the server looks its key up.
Reconnected ==
    /\ Is("client", "apart") /\ Is("server", "apart") /\ connections < MaxConnections
    /\ connections' = connections + 1
    /\ standing' = TRUE
    /\ pipe' = [e \in DOMAIN peers |-> <<>>]
    /\ \E key \in ApiKeys :
          peers' = [client |-> [peers["client"] EXCEPT !.at = "greets"],
                    server |-> [Apart(key) EXCEPT !.at = "greets"]]
\* What was written may be lost with the connection.
Breaks ==
    /\ standing
    /\ standing' = FALSE
    /\ pipe' \in {pipe, [e \in DOMAIN peers |-> <<>>]}
    /\ UNCHANGED <<peers, connections>>
\* Refused, or the processing is over: the socket goes, and the client sleeps before its next try.
Leaves(e) ==
    /\ Is(e, "refused") \/ (Is(e, "processing") /\ ~standing)
    /\ peers' = [peers EXCEPT ![e] = Apart(peers[e].key)]
    /\ standing' = FALSE
    /\ UNCHANGED <<pipe, connections>>

RlInit ==
    /\ \E key \in ApiKeys : peers = [client |-> Apart(key), server |-> Apart(key)]
    /\ pipe = [e \in DOMAIN peers |-> <<>>]
    /\ standing = FALSE
    /\ connections = 0
RlNext ==
    \/ Reconnected \/ Breaks
    \/ \E e \in DOMAIN peers :
          \/ SendsRandom(e) \/ HearsRandom(e) \/ Proves(e) \/ Judges(e)
          \/ SaysVerdict(e) \/ HearsVerdict(e) \/ Leaves(e)

---- \* Properties

\* Of two programs that both run the challenge, neither goes on to the calls about accounts unless the other had
\* the same key for this connection: not with what is left of an earlier one, not after an answer was lost, and not
\* when its key is the empty one, with which the server answers whom it was not convinced by.  It says nothing of a
\* program that does not run it.
ProcessesWithItsKeyOnly ==
    \A e \in DOMAIN peers : Is(e, "processing") /\ standing => peers[e].key = peers[Other(e)].key
===============================================================================
