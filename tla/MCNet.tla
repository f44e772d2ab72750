--------------------------------- MODULE MCNet ---------------------------------
(* Sockets, TLS sessions, what is written and read over them, chains of      *)
(* sockets, and the database connector.  Of one behaviour only one moves;    *)
(* the others stay as they are made, and owe nothing.                        *)
EXTENDS Sockets, Tls, Transfers, Chain, Database

CONSTANT Parts   \* those that are run
VARIABLE part    \* the one of this behaviour

-------------------------------------------------------------------------------
\* Answers of the name server.
Address(family, host, does) == [family |-> family, host |-> host, does |-> does]
MCResolved ==
    {<<>>,
     <<Address("v4", <<"h">>, "at once")>>,
     <<Address("v4", <<"h">>, "refuses"), Address("v4", <<"g">>, "accepts")>>,
     <<Address("v6", <<"i", "j">>, "accepts"), Address("v4", <<"h">>, "accepts")>>,
     <<Address("v4", <<"h">>, "silent"), Address("v6", <<"i", "j">>, "accepts"), Address("v4", <<"g">>, "at once")>>}

Setting(side, psk, keys, authority, validation) ==
    [side |-> side, psk |-> psk, keys |-> keys, authority |-> authority, validation |-> validation]
MCSettings ==
    {Setting("server", TRUE, "none", FALSE, "validate"), Setting("server", FALSE, "pair", TRUE, "validate"),
     Setting("server", FALSE, "half", FALSE, "validate"),
     Setting("client", TRUE, "none", FALSE, "validate"), Setting("client", FALSE, "none", TRUE, "validate"),
     Setting("client", FALSE, "none", TRUE, "check and pass")}

\* What is sent: whole blocks, strings with their length, and bytes up to a delimiter.
Texts == UNION {[1..n -> {0, 1}] : n \in 0..4} \cup {<<1,1,0,1,0,1>>, <<0,1,1,0,0>>, <<2,1,1,1,0,1,1,2>>}
Ciphers == {<<"plain", "-">>, <<"xor", "-">>, <<"aes", "common">>, <<"aes", "other">>}
Sending(how, s, n, delim, cipher) ==
    [kind |-> how, text |-> s, limit |-> n, delim |-> delim, layer |-> cipher[1], key |-> cipher[2]]
MCJobs ==
    {Sending("full", s, n, <<>>, cipher) :
        s \in {<<>>, <<1>>, <<0, 1, 2, 1, 0>>}, n \in {0, 1, 4}, cipher \in Ciphers}
    \cup {Sending("string", s, n, <<>>, cipher) :
        s \in {<<>>, <<1>>, <<0, 1, 2, 1, 0>>, [i \in 1..8 |-> 1]}, n \in {1, 6}, cipher \in Ciphers}
    \cup {Sending("block", s, n, delim, <<"plain", "-">>) :
        s \in Texts, n \in {1, 2, 4, 5}, delim \in {<<1>>, <<0, 1>>}}

MCToSend == <<1, 2, 3>>
MCToGet == <<1, 2>>
MCNames == <<<<":", "a">>>>

-------------------------------------------------------------------------------
\* A chain nobody built, over a socket the other side has left.
ChainOver ==
    /\ channel = LowerDown([down |-> [i \in Levels |-> Empty], up |-> [i \in Levels |-> Empty]], 0)
    /\ layers = 0 /\ secure = {}
    /\ fwd = [i \in 1..Layers |-> Sleeping] /\ bwd = [i \in 1..Layers |-> Sleeping]
    /\ app = [at |-> "gone", wrote |-> 0, got |-> <<>>, greeted |-> FALSE]
    /\ remote = [at |-> "left", wrote |-> 0, got |-> <<>>]

NetInit ==
    /\ part \in Parts
    /\ NInit /\ (part = "sockets" \/ kind = "tcp")
    /\ IF part = "tls" THEN TInit
       ELSE /\ tls = [n \in Sessions |-> NewSession(Setting("client", FALSE, "none", FALSE, "validate"))]
            /\ wallets = [side \in Sides |-> [h \in Handles |-> {}]]
    /\ XInit /\ (part = "transfers" \/ deal = Sending("full", <<>>, 0, <<>>, <<"plain", "-">>))
    /\ IF part = "chain" THEN ChInit ELSE ChainOver
    /\ driver \in Drivers /\ (part = "database" \/ driver = "sqlite3")
    /\ tokens = <<>> /\ query = <<>> /\ keysIn = <<>> /\ keysByPos = <<>> /\ types = <<>> /\ rows = <<>>
    /\ row = <<>> /\ resultVars = <<>> /\ isNull = <<>> /\ got = FALSE
    /\ DbInit

NetNext ==
    /\ UNCHANGED <<part, svars>>
    /\ \/ part = "sockets" /\ NNext /\ UNCHANGED <<tvars, xvars, chvars, dbvars>>
       \/ part = "tls" /\ TNext /\ UNCHANGED <<nvars, xvars, chvars, dbvars>>
       \/ part = "transfers" /\ XNext /\ UNCHANGED <<nvars, tvars, chvars, dbvars>>
       \/ part = "chain" /\ ChNext /\ UNCHANGED <<nvars, tvars, xvars, dbvars>>
       \/ part = "database" /\ DbNext /\ UNCHANGED <<nvars, tvars, xvars, chvars>>

NetSpec ==
    /\ NetInit
    /\ [][NetNext]_<<part, svars, nvars, tvars, xvars, chvars, dbvars>>
    /\ ChFairness
    /\ DbFairness
===============================================================================
