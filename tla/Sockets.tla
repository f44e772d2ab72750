------------------------------- MODULE Sockets -------------------------------
(* Socket and its kinds: TCP (plain or with a session on top), UNIX and UDP.  *)
(* One socket object, the descriptors the kernel gives it, the sockets it     *)
(* accepts, and a second thread that may shut it down or close it at any      *)
(* time.  A call of the kernel may fail where the code tests for it: "bad" is *)
(* the set of those that fail in one operation.                               *)
EXTENDS Integers, FiniteSets, Sequences

CONSTANTS Kinds,        \* of the object: "tcp", "tls", "unix", "udp"
          MaxFds,       \* descriptors of the process
          Resolved,     \* answers of the name server: sequences of addresses, of IPv6 with a host in two
                        \* parts: its first twelve bytes and its last four
          Timeouts,     \* seconds a caller asks for; 0: for ever
          DefaultTimeout,
          CallsFail,    \* calls of the kernel that may fail
          MaxOps,       \* operations of one behaviour
          CloserRuns    \* whether the second thread exists

VARIABLES kind,     \* of the object
          sock,     \* its members
          kernel,   \* the open descriptors
          handed,   \* sockets given away: accepted ones, a pair, an adopted descriptor
          trying,   \* connectFrom under way
          answer,   \* of the last operation
          closer,   \* the second thread
          ops       \* operations so far

nvars == <<kind, sock, kernel, handed, trying, answer, closer, ops>>

NoFd == 0
Nobody == [family |-> "none", host |-> <<>>, does |-> "refuses"]
Calls == {"socket", "fcntl", "options", "bind", "listen", "select"}
ASSUME CallsAssumption == CallsFail \subseteq Calls /\ MaxFds \in Nat
Bads == {{}} \cup {{c} : c \in CallsFail}

initVars == [fd |-> NoFd, down |-> {}, read |-> DefaultTimeout, write |-> DefaultTimeout, listen |-> FALSE,
             v6 |-> FALSE, remote |-> Nobody.host, override |-> [read |-> -1, write |-> -1], res |-> Nobody]

Fresh(family) == [family |-> family, blocks |-> TRUE, peer |-> Nobody, listens |-> FALSE, bound |-> FALSE,
                  read |-> 0, write |-> 0, down |-> {}]
isActive(s) == s.fd # NoFd

\* The lowest free descriptor, as the kernel gives it.
Free(k) == {n \in 1..MaxFds : n \notin DOMAIN k}
Lowest(S) == CHOOSE n \in S : \A m \in S : n <= m
Open(k, n, f) == [m \in DOMAIN k \cup {n} |-> IF m = n THEN f ELSE k[m]]
Shut(k, n) == [m \in DOMAIN k \ {n} |-> k[m]]
CanOpen(k, bad) == "socket" \notin bad /\ Free(k) # {}

\* A socket with its kernel: what every operation takes and gives back, with its result.
On(s, k) == [s |-> s, k |-> k, ok |-> TRUE]
Failed(w) == [w EXCEPT !.ok = FALSE]
setFd(w, f) == [w EXCEPT !.k[w.s.fd] = f]
Fd(w) == w.k[w.s.fd]

closeSocket(w) ==
    IF isActive(w.s) THEN [w EXCEPT !.s.fd = NoFd, !.k = Shut(w.k, w.s.fd)] ELSE w

socketCall(w, family, bad) ==
    IF CanOpen(w.k, bad)
    THEN [w EXCEPT !.s.fd = Lowest(Free(w.k)), !.k = Open(w.k, Lowest(Free(w.k)), Fresh(family))]
    ELSE Failed([w EXCEPT !.s.fd = NoFd])

\* The option that can fail is remembered all the same; a socket that listened never sets it again.
setReadTimeout(w, t) ==
    IF ~isActive(w.s) THEN w
    ELSE IF w.s.listen THEN [w EXCEPT !.s.read = t]
    ELSE [w EXCEPT !.s.read = t, !.k[w.s.fd].read = t]
setWriteTimeout(w, t) ==
    IF ~isActive(w.s) THEN w
    ELSE IF w.s.listen THEN [w EXCEPT !.s.write = t]
    ELSE [w EXCEPT !.s.write = t, !.k[w.s.fd].write = t]

setBlockingMode(w, blocks, bad) ==
    IF "fcntl" \in bad \/ ~isActive(w.s) THEN Failed(w) ELSE [w EXCEPT !.k[w.s.fd].blocks = blocks]

\* An address of the other family is refused by the kernel; the socket is closed then.
bindTo(w, address, bad) ==
    IF ~address.given THEN w
    ELSE IF "bind" \in bad \/ (w.s.v6 /\ Fd(w).family = "v4") \/ (~w.s.v6 /\ Fd(w).family = "v6")
         THEN Failed(closeSocket(w))
         ELSE setFd(w, [Fd(w) EXCEPT !.bound = TRUE])

Modes == {{"rd"}, {"wr"}, {"rd", "wr"}}
\* Each direction once in the life of the object, whatever the kernel says of it.
iShutdown(w, mode) ==
    IF ~isActive(w.s) \/ mode \ w.s.down = {} THEN Failed(w)
    ELSE [w EXCEPT !.s.down = @ \cup mode, !.k[w.s.fd].down = @ \cup (mode \ w.s.down)]
shutdownSocket(w, mode) == IF kind = "tls" /\ ~w.s.listen THEN w ELSE iShutdown(w, mode)

---- \* Connecting

\* The name that is set for an address: what its bytes are from the fifth on.  Of an IPv4 address those are the
\* address; of an IPv6 one, four bytes of flow information (zero) and its first twelve.
remotePair(a) == IF a.family = "v6" THEN <<"flow", a.host[1]>> ELSE a.host

getAddrInfo(addresses) == addresses # <<>>
Allowed(s, a) == a.family = "v4" \/ (a.family = "v6" /\ s.v6)

\* What connect() comes to: the kernel refuses an address of another family at once.
Connects(w, a) == IF Fd(w).family # a.family THEN "refuses" ELSE a.does

\* Non-blocking until it is known what connect() comes to; then the wait for room to write ...
tcpConnect(w, a, bad) ==
    LET quick == setBlockingMode(w, FALSE, bad)
    IN  IF ~quick.ok \/ Connects(w, a) = "refuses" THEN Failed(quick)
        ELSE IF Connects(w, a) = "silent" THEN quick
        ELSE setFd(quick, [Fd(quick) EXCEPT !.peer = a])

\* ... and back to blocking, with the options, when it is connected.  connect() that succeeds at once is not
\* expected, and is a failure; so is a wait that ends with an error or in vain, or a socket closed meanwhile.
\* Variant: the socket stays non-blocking.
tcpWaitedOnly(w, a, bad) ==
    IF ~isActive(w.s) \/ a.does \in {"silent", "at once"} \/ bad \cap {"select", "options"} # {}
    THEN Failed(w) ELSE w
tcpWaited(w, a, bad) ==
    LET back == setBlockingMode(w, TRUE, bad)
    IN  IF ~isActive(w.s) \/ a.does = "silent" \/ "select" \in bad THEN Failed(w)
        ELSE IF ~back.ok \/ "options" \in bad \/ a.does = "at once" THEN Failed(back)
        ELSE back

overridden(w) ==
    LET r == IF w.s.override.read = -1 THEN w ELSE setReadTimeout(w, w.s.override.read)
    IN  IF w.s.override.write = -1 THEN r ELSE setWriteTimeout(r, w.s.override.write)

Idle == [at |-> 0, to |-> <<>>, bind |-> [given |-> FALSE], timeout |-> 0, waits |-> FALSE]
Bindings == {[given |-> FALSE], [given |-> TRUE]}

Does(op, w) ==
    /\ sock' = w.s
    /\ kernel' = w.k
    /\ answer' = [op |-> op, ok |-> w.ok]
    /\ UNCHANGED kind
Operation == ops < MaxOps /\ trying = Idle /\ ops' = ops + 1
Now == On(sock, kernel)

\* connectFrom: the name is asked first, then address after address is tried.
TcpConnectFrom ==
    /\ Operation /\ kind \in {"tcp", "tls"}
    /\ \E to \in Resolved, bind \in Bindings, timeout \in Timeouts :
          IF getAddrInfo(to)
          THEN /\ trying' = [at |-> 1, to |-> to, bind |-> bind, timeout |-> timeout, waits |-> FALSE]
               /\ Does("connecting", Now)
          ELSE trying' = trying /\ Does("connect", Failed(Now))
    /\ UNCHANGED <<handed, closer>>

\* The socket is opened in the family of the first answer, whatever the one that is tried.
\* Variant: the socket of the address before is not closed.
ReopenedOver(w, bad) == socketCall(w, trying.to[1].family, bad)
Reopened(w, bad) == socketCall(closeSocket(w), trying.to[1].family, bad)

ConnectEnds(w) == trying' = Idle /\ Does("connect", w)
Goes(w) == IF trying.at < Len(trying.to)
           THEN trying' = [trying EXCEPT !.at = @ + 1, !.waits = FALSE] /\ Does("connecting", w)
           ELSE ConnectEnds(Failed(w))
Dropped(w) == closeSocket(shutdownSocket(w, {"rd", "wr"}))

\* One round of the loop, up to the wait.
TcpTries(w, a, bad) ==
    IF ~w.ok THEN ConnectEnds(w)
    ELSE LET bound == bindTo(w, trying.bind, bad)
             named == [setReadTimeout(bound, 0) EXCEPT !.s.remote = remotePair(a)]
         IN  IF ~bound.ok THEN ConnectEnds(bound)
             ELSE IF ~Allowed(bound.s, a) THEN Goes(Dropped(setReadTimeout(bound, 0)))
             ELSE \E c \in {tcpConnect(named, a, bad)} :
                     IF ~c.ok THEN Goes(c) ELSE trying' = [trying EXCEPT !.waits = TRUE] /\ Does("connecting", c)
TcpTry ==
    /\ trying # Idle /\ ~trying.waits
    /\ \E bad \in Bads : TcpTries(Reopened(Now, bad), trying.to[trying.at], bad)
    /\ UNCHANGED <<handed, closer, ops>>

\* The wait is over (no timeout: only when something happens); post is what the layer above says.
TcpWaited ==
    /\ trying.waits
    /\ trying.to[trying.at].does = "silent" => trying.timeout # 0
    /\ \E bad \in Bads, post \in IF kind = "tls" THEN BOOLEAN ELSE {TRUE} :
          \E c \in {tcpWaited(Now, trying.to[trying.at], bad)} :
             IF ~c.ok THEN Goes(c)
             ELSE IF post THEN ConnectEnds(overridden(c))
             ELSE ConnectEnds(Failed(Dropped(overridden(c))))
    /\ UNCHANGED <<handed, closer, ops>>

UnixConnectFrom ==
    /\ Operation /\ kind = "unix"
    /\ \E bad \in Bads, t \in Timeouts, does \in {"accepts", "refuses"} :
          \E w \in {socketCall(closeSocket(Now), "unix", bad)} :
             IF ~w.ok THEN Does("connect", w)
             ELSE \E r \in {setReadTimeout(w, t)} :
                     IF does = "refuses" THEN Does("connect", Failed(r))
                     ELSE Does("connect", setFd(r, [Fd(r) EXCEPT !.peer =
                                                      [family |-> "unix", host |-> <<"path">>, does |-> does]]))
    /\ UNCHANGED <<handed, trying, closer>>

\* A datagram socket keeps the address it found.
UdpConnectFrom ==
    /\ Operation /\ kind = "udp"
    /\ \E bad \in Bads, bind \in Bindings, t \in Timeouts, to \in Resolved :
          \E c \in {[closeSocket(Now) EXCEPT !.s.res = IF getAddrInfo(to) THEN to[1] ELSE Nobody]} :
             IF ~getAddrInfo(to) THEN Does("connect", Failed(c))
             ELSE \E w \in {socketCall(c, to[1].family, bad)} :
                     IF ~w.ok THEN Does("connect", w)
                     ELSE \E b \in {bindTo(w, bind, bad)} :
                             Does("connect", IF b.ok THEN setReadTimeout(b, t) ELSE b)
    /\ UNCHANGED <<handed, trying, closer>>

\* writeBlock and readBlock.
UdpBlock ==
    /\ Operation /\ kind = "udp"
    /\ \/ Does("write", IF isActive(sock) /\ sock.res # Nobody THEN Now ELSE Failed(Now))
       \/ Does("read", IF isActive(sock) THEN Now ELSE Failed(Now))
    /\ UNCHANGED <<handed, trying, closer>>

---- \* Listening and accepting

\* TCP opens over whatever it had; UNIX and UDP close first.
Listening(bad) ==
    LET before == IF kind \in {"tcp", "tls"} THEN Now ELSE closeSocket(Now)
        family == IF kind = "unix" THEN "unix" ELSE IF sock.v6 THEN "v6" ELSE "v4"
        w == socketCall(before, family, bad)
        bound == IF kind = "unix" /\ "bind" \notin bad THEN w ELSE bindTo(w, [given |-> TRUE], bad)
    IN  IF ~w.ok THEN w
        ELSE IF kind # "unix" /\ "options" \in bad THEN Failed(closeSocket(w))
        ELSE IF ~bound.ok THEN bound
        ELSE IF kind = "udp" THEN [bound EXCEPT !.s.listen = TRUE]
        ELSE IF "listen" \in bad THEN Failed(closeSocket(bound))
        ELSE [bound EXCEPT !.s.listen = TRUE, !.k[bound.s.fd].listens = TRUE]
listenOn ==
    /\ Operation
    /\ \E bad \in Bads : Does("listen", Listening(bad))
    /\ UNCHANGED <<handed, trying, closer>>

\* What the accepted object is told of its descriptor: TCP sets the listener's timeouts, when there are any;
\* the object with a session on top takes the descriptor over and not the values.
Accepted(n) ==
    [fd |-> n,
     read |-> IF kind = "tcp" /\ sock.read # 0 THEN sock.read ELSE DefaultTimeout,
     write |-> IF kind = "tcp" /\ sock.write # 0 THEN sock.write ELSE DefaultTimeout]
AcceptedFd ==
    [Fresh(IF kind = "unix" THEN "unix" ELSE kernel[sock.fd].family) EXCEPT
        !.peer = [family |-> "v4", host |-> <<"client">>, does |-> "accepts"],
        !.read = IF kind = "unix" THEN 0 ELSE sock.read,
        !.write = IF kind = "unix" THEN 0 ELSE sock.write]
acceptConnection ==
    /\ Operation /\ kind # "udp"
    /\ IF isActive(sock) /\ kernel[sock.fd].listens /\ kernel[sock.fd].down = {} /\ Free(kernel) # {}
       THEN \E n \in {Lowest(Free(kernel))} :
               /\ Does("accept", [Now EXCEPT !.k = Open(kernel, n, AcceptedFd)])
               /\ handed' = handed \cup {Accepted(n)}
       ELSE Does("accept", Failed(Now)) /\ UNCHANGED handed
    /\ UNCHANGED <<trying, closer>>

\* The object that was given away is destroyed.
HandedEnds ==
    /\ \E h \in handed : handed' = handed \ {h} /\ kernel' = Shut(kernel, h.fd)
    /\ UNCHANGED <<kind, sock, trying, answer, closer, ops>>

\* GetSocketPair: two connected sockets, objects of their own.
GetSocketPair ==
    /\ Operation
    /\ IF Cardinality(Free(kernel)) < 2 THEN Does("pair", Failed(Now)) /\ UNCHANGED handed
       ELSE \E a \in {Lowest(Free(kernel))} : \E b \in {Lowest(Free(kernel) \ {a})} :
               /\ Does("pair", [Now EXCEPT !.k = Open(Open(kernel, a, Fresh("unix")), b, Fresh("unix"))])
               /\ handed' = handed \cup {[fd |-> n, read |-> DefaultTimeout, write |-> DefaultTimeout] : n \in {a, b}}
    /\ UNCHANGED <<trying, closer>>

\* adquireSocketFD and setSocketFD: the descriptor moves to another object.
Adopted ==
    /\ Operation /\ isActive(sock)
    /\ handed' = handed \cup {[fd |-> sock.fd, read |-> DefaultTimeout, write |-> DefaultTimeout]}
    /\ Does("adquire", [Now EXCEPT !.s.fd = NoFd])
    /\ UNCHANGED <<trying, closer>>

---- \* The other calls, and the other thread

\* A socket that is not connected is closed by the question.
isConnected ==
    /\ Operation /\ kind # "udp"
    /\ Does("isConnected", IF ~isActive(sock) THEN Failed(Now)
                           ELSE IF kernel[sock.fd].peer = Nobody THEN Failed(closeSocket(Now)) ELSE Now)
    /\ UNCHANGED <<handed, trying, closer>>

Options ==
    /\ Operation
    /\ \/ \E t \in Timeouts : Does("setReadTimeout", setReadTimeout(Now, t))
       \/ \E t \in Timeouts : Does("setWriteTimeout", setWriteTimeout(Now, t))
       \/ \E t \in Timeouts : Does("override", [Now EXCEPT !.s.override = [read |-> t, write |-> t]])
       \/ Does("setUseIPv6", [Now EXCEPT !.s.v6 = ~@])
    /\ UNCHANGED <<handed, trying, closer>>

Ending ==
    /\ Operation
    /\ \/ \E mode \in Modes : Does("shutdown", shutdownSocket(Now, mode))
       \/ Does("close", closeSocket(Now))
    /\ UNCHANGED <<handed, trying, closer>>

\* The second thread asks whether the socket is active before it takes the lock.
CloserAsks ==
    /\ CloserRuns /\ closer = "outside" /\ isActive(sock)
    /\ closer' = "saw it"
    /\ UNCHANGED <<kind, sock, kernel, handed, trying, answer, ops>>
CloserCloses ==
    /\ closer = "saw it"
    /\ closer' = "done"
    /\ sock' = closeSocket(Now).s
    /\ kernel' = closeSocket(Now).k
    /\ answer' = [op |-> "closed", ok |-> isActive(sock)]
    /\ UNCHANGED <<kind, handed, trying, ops>>

NInit ==
    /\ kind \in Kinds
    /\ sock = initVars
    /\ kernel = <<>>
    /\ handed = {}
    /\ trying = Idle
    /\ answer = [op |-> "new", ok |-> TRUE]
    /\ closer = "outside"
    /\ ops = 0
NNext ==
    \/ TcpConnectFrom \/ TcpTry \/ TcpWaited \/ UnixConnectFrom \/ UdpConnectFrom \/ UdpBlock
    \/ listenOn \/ acceptConnection \/ HandedEnds \/ GetSocketPair \/ Adopted
    \/ isConnected \/ Options \/ Ending
    \/ CloserAsks \/ CloserCloses

---- \* Properties

\* connectFrom of TCP that answers true leaves the object on an open, blocking descriptor, connected to an address
\* of a family it may use, with the timeout that was asked for (an object that listened before only remembers it),
\* and the remote pair is of that address, however many failed before: it is the address when that is of IPv4; the
\* pair of an IPv6 address is another text, made of its first twelve bytes, and tells it from no other with them.
ConnectedAsTold ==
    (answer.op = "connect" /\ answer.ok /\ kind \in {"tcp", "tls"}) =>
        /\ isActive(sock) /\ sock.fd \in DOMAIN kernel
        /\ kernel[sock.fd].blocks
        /\ LET peer == kernel[sock.fd].peer
           IN  Allowed(sock, peer) /\ sock.remote = remotePair(peer)
        /\ sock.override.read # -1 /\ ~sock.listen => kernel[sock.fd].read = sock.override.read

\* An open descriptor that an object has is never forgotten but by listenOn of TCP, which opens over the one it
\* had: neither the addresses tried, nor a failure half-way, nor a second closer lose one.
Owned(n) == sock.fd = n \/ \E h \in handed : h.fd = n
OnlyListenForgets ==
    [][\A n \in DOMAIN kernel : (Owned(n) /\ n \in DOMAIN kernel') => (Owned(n)' \/ answer'.op = "listen")]_nvars

\* "IPv4 always have the permission to go" (connectFrom): when every call of the kernel works and nobody else
\* touches the socket, a name with an IPv4 address that accepts is not answered with a failure.
FourGoes ==
    [][(CallsFail = {} /\ closer = "outside" /\ trying # Idle /\ trying' = Idle /\ ~answer'.ok /\ kind = "tcp"
          /\ ~trying.bind.given)
       => \A i \in DOMAIN trying.to : ~(trying.to[i].family = "v4" /\ trying.to[i].does = "accepts")]_nvars
===============================================================================
