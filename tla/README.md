# libMantids in TLA+

Models of libMantids, the TLC runs that check them on small instances and the
TLAPS proofs that hold for every instance. Paths are relative to the root of the
repository. Every definition is read from the code; where a header or a comment
says something else, this file says so.

- [The system](#the-system): what there is, and what is hard about it
- [Modules](#modules): which module models what, and how
- [Runs](#runs): what each run asks, its bounds, what it shows
- [Fairness](#fairness)
- [Proofs](#proofs)
- [Where the code and its words differ](#where-the-code-and-its-words-differ)
- [What the models show of the code](#what-the-models-show-of-the-code)
- [Not modelled](#not-modelled), and what could come next

## The system

libMantids is a C++ library for network services: threads and thread-safe
containers at the bottom, sockets and acceptors above them, HTTP and a binary RPC
protocol above those, and authentication beside them. There are no tests in the
repository. The parts, from the bottom:

| Part | Keeps | Operations | Talks to | Hard |
| --- | --- | --- | --- | --- |
| `Threads::Safe::Map` (`Threads/mdz_thr_safecontainers/map.h`) | keys, items, a reader count for each | add, open, release, destroy, waitForEmpty | used by FastRPC, web sessions, domains | destroy gives its lock away while it waits for readers |
| `Threads::Pool::ThreadPool` | bounded task queues, workers | pushTask, popTask, stop, setTasksByQueueLimit | used by FastRPC, PoolThreaded | notifications after the unlock; timeouts; stop against blocked callers |
| `Memory` (`mdz_mem_vars`) | bytes in memory, in chunks, in files, by reference; streams and parsers | append, displace, truncate, find; write, parse | everything that reads or writes | positions over chunks; input in pieces |
| `Network`: sockets (`mdz_net_sockets`) | a descriptor, options, TLS sessions and keys | connect, listen, accept, shutdown, close, read, write | the kernel, OpenSSL | addresses tried in turn; closing from another thread; partial transfers |
| Acceptors | client threads, counts by address, limits; or a pool | accept, finalize, stop, destructor | sockets, ThreadPool, the program's callbacks | detached threads; limits; who frees what |
| `NetStreams::Bridge`, `Socket_Chain` | two peers, or layers of socket pairs, and their threads | process; addToChain, shutdown, wait | sockets | framing against pings; the end passing through layers |
| `Protocols` (`mdz_proto_*`) | the parsers of lines, URL variables, MIME, HTTP; headers, cookies | parse, stream | Memory, sockets | order of headers, boundaries across reads |
| `FastRPC` (`RPC/mdz_xrpc_fast`) | connections by key; requests, answers and a stream for each; a pool; a pinger | processConnection, runRemoteRPCMethod, executeRPCTask, sendPings, destructor | Safe::Map, ThreadPool, a socket | a connection ends while callers wait on it and tasks answer on it |
| Web server (`RPC/mdz_xrpc_webserver`) | sessions by id, a count for each account; files, filters, pages | open, release, create, destroy, gc; the modes of a request | Safe::Map, Auth, HTTP | logout, collector and other requests of one session; two locks |
| Methods (`RPC/mdz_xrpc_common`, `mdz_xrpc_templates`) | methods, the attributes and factors they ask for | addRPCMethod, validate, run; the full-authentication methods | Auth::Manager, Auth::Session | factors that expire and rights that go while a request is judged; absent sessions |
| Client application (`RPC/mdz_xrpc_clientapp`) | a configuration, its file | start, retrieve, update and save | FastRPC, TLS | killed while it saves; writings nobody looks at |
| `Auth` (`mdz_auth`, `mdz_auth_db`) | accounts, secrets, attempts, groups, attributes, applications; sessions | authenticate, changes of each | SQL | attempts read and written in two sections; cascades; the last superuser |
| `Database` (`mdz_db`, drivers in `extras`) | a connector, its queries | qSelect, exec, step, detach, reconnect | drivers | queries that outlive their connector; executing again after a reconnection |
| `Program`, `Helpers`, `Filesystem`, `Scripts`, `devel` | configuration, logs; multiplexed lines; registry hives | start-up, encoders | | sequential, or experimental |

What makes a part correct:

- Safe::Map: an item is deleted once, and never under a reader; destroyers end.
- ThreadPool: an accepted task runs once, a refused one never; nobody sleeps
  beside work or room; the pool can be destroyed.
- Memory: each container holds the bytes that one sequence would; a parser reads the
  same whatever pieces its text comes in.
- Sockets: a connect that answers true is connected to what it names; descriptors and
  keys are not lost or confused; what is read is what was written.
- Acceptors: limits and counts are right in every order of arrivals, refusals and
  departures; each client is settled once; the destructor is last, and returns.
- Bridge and chain: what was written arrives in order and whole; both end.
- HTTP: a request is handled as it was asked, once it was read; an answer holds only
  what the filter and the session allow.
- FastRPC: a caller gets its own answer; nothing is left in the tables; the
  connection and its stream outlive whoever uses them; calls and connections end.
- Web sessions: a session outlives the requests on it; the count of an account
  covers its sessions; requests end and expired sessions go.
- Methods, Auth: a method runs by right; a superuser remains; guesses are bounded;
  rights go with those who had them.
- Client application: it runs on what it saved.
- Database: a connector outlives its queries; what is reported was done.

`PROJECT.json` lists, under "hazards", the lines where these can go wrong.

## Modules

| Module | Models | Uses |
| --- | --- | --- |
| `ItemLease` | what a reader-counted store promises: open, hold, close, reclaim | |
| `SafeMap` | `map.h` | implements `ItemLease` |
| `TaskService` | what a pool promises: each task accepted or refused, then run once | |
| `ThreadPool` | `threadpool.cpp` | implements `TaskService` |
| `FastRPC`, `FastRPCPinger` | `fastrpc.cpp`: connections, calls and tasks; pinger and destructor | the map and the pool at the level of `ItemLease` and `TaskService` |
| `WebSessions` | `sessionsmanager.cpp`, the session part of `webclienthandler.cpp`, the collector | the map at the level of `SafeMap`'s two-step destroy |
| `Acceptor` | `acceptor_multithreaded.cpp`, `acceptor_thread.cpp` | |
| `PoolAcceptor` | `acceptor_poolthreaded.cpp` | a pool as `TaskService` |
| `Bridge` | `streams_bridge.cpp`, `streams_bridge_thread.cpp` | |
| `AuthStore` | `manager_db*.cpp`: each statement as an operator on tables | |
| `Auth` | `manager.cpp`, `session.cpp`, `fullauth.cpp`: logins, attempts, methods on the store | `AuthStore` |
| `AuthPages` | the paged searches | `Auth` |
| `Methods` | `methodsmanager.cpp`, `methodsattributes_map.cpp`, a session's factors, EXEC | |
| `Chunks`, `Containers` | `b_base`, `b_chunks`, `b_mem`, `b_ref`, `filemap`; their operations against one sequence | |
| `Streams` | `parser.cpp`, `subparser.cpp`: the four ways to cut a stream | `Chunks` |
| `Bytes`, `Fields`, `Mime`, `HttpContent` | the alphabet; lines and URL variables; MIME messages; HTTP bodies | `Streams`, instantiated with each protocol's `parse` |
| `Parsers` | any of them fed in fragments, against reference readings | the four above |
| `Headers` | headers, cookies, cache control and security headers, written and read | |
| `HttpServer` | `httpv1_server.cpp`, `webclienthandler.cpp`: request to resource to answer | `Headers` |
| `HttpExchange` | `httpv1_client.cpp` and the exchange between the two | `HttpServer` |
| `Statement` | `query.cpp` and the drivers: names to positions, steps to columns | |
| `Database` | `sqlconnector*.cpp`, the execution in the drivers | `Statement` |
| `Sockets` | `socket.cpp`, `socket_tcp.cpp`, `socket_udp.cpp`, `socket_unix.cpp` | |
| `Tls` | `socket_tls*.cpp` | |
| `Transfers` | `socket_streambase*.cpp`, `socket_chain_aes.cpp`, `socket_chain_xor.cpp` | |
| `Chain` | `socket_chain.cpp` | |
| `RpcClient` | `rpcclientimpl.cpp`, `rpcclientapplication.cpp` | |
| `RemoteLogin` | `streams_cryptochallenge.cpp`, `loginrpcclient.cpp` | |
| `SafeMapProofs`, `ThreadPoolProofs`, `WebSessionsProofs`, `FastRPCProofs`, `AuthProofs`, `NetProofs`, `ServingProofs`, `DataProofs` | theorems | |
| `MCThreadPool`, `MCAuth`, `MCFlow`, `MCData`, `MCNet` | instances for TLC | |

`MCFlow`, `MCData` and `MCNet` are benches: each composes several parts that share no
state, and in one behaviour only one part moves (`part` says which, and never
changes). The others stay in a state where nothing of theirs has to happen, so that
they owe no fairness and add no states. A bench is the sum of its parts' state spaces,
not their product.

All concurrent modules follow the same conventions.

- One step is one critical section of the lock that guards the state, or one
  notification or flag written outside of it. A wait on a condition variable cuts
  a section in two: `Wait` puts the thread in the wait set (`pc` "wait..."), a
  notification or `SpuriousWake` takes it out ("woke..."), and the `Resume` or
  `Again` step tests the code's condition again, when the code has a loop.
- `notify_one` picks any of the waiting threads, and does nothing if there is none.
- A timeout is a step that may be taken at any time while the thread waits, also
  after it was notified: `wait_for` may report either.
- What fails outside (a system call, a statement, a peer) fails at any time.
- Operators said to be a variant, or marked `(Mutant)`, before the definition they
  change are plausible bugs that make TLC refute a property. Nothing uses them.

**SafeMap.** `present`, `rdElement` and `readers` are `xMap`; `allocated` are the
items in memory; `pc`, `key` and `ref` are where each thread is and the pointer it
holds. `destroyElement` is `DestroyAtOnce` without readers, else `DestroyBegin`
(close the element, wait), then `DestroyEnd` or `DestroyAgain`. The refinement maps
an item to open if a key leads to it, closing if it is allocated and none does, and
its holders to the threads that read it.

**ThreadPool.** `queues`, `limit` and `terminate` are the pool's. `pushTask` is
`PushRefused`, `PushInsert` or `PushFull`, then `PushWait` and `PushResume`,
`PushAgain` or `PushTimeout`; `NotifyInserted` follows its unlock. `popTask` is
`PopTake` (then `NotifyRemoved`), `PopWait` or `PopExit`. `RunTask` is the return of
the task's function. `Stop` and `StopNotify` are `stop`, called by itself or by the
destructor, `Join` its end. `SetTasksByQueueLimit` stores the limit, without a lock, and
`LimitNotify` follows. The random choice of a queue from key and priority is a choice of
any queue; each task is pushed once. `passedOver` is history, for a property: the callers
asleep while another, notified of room in their queue, gave up at its timeout, or the
limit changed between their test and their wait.

**FastRPC.** One connection key. Each member of `Conns` is a call of
`processConnection` with it: `Register` or `RegisterRefused`, the reading loop
(`ProcessAnswer`, `ProcessBadAnswer`, `ProcessQuery`, `ProcessQueryDropped`), and
after `StreamEnds` the tear-down in the code's order: `Drain` (the exclusive lock of
`mtDone`), `Terminate`, `NotifyTerminated`, `Destroy`. A call is `Open` or `OpenFails`,
`CreateRequestId`, `Authorize`, `SendQuery`, `Wait`, then `TakeAnswer`,
`SeeTerminated`, `Timeout` or `KeepWaiting`, and `CleanUp` and `Release`. `wire` holds
the queries the peer has and may answer: in any order, late, badly, again or never. An
answer is the caller whose query it answers. `WokenForOthers` is a wake that was meant for
another caller of the connection, or for nobody.
`FastRPCPinger` is `waitPingInterval` and `sendPings` on a snapshot of the keys, with
connections coming and going, and the destructor's flag, notification and join.

**WebSessions.** `state` of an id is its place in the map; `readers` its reader count;
`owner`, `expired`, `confirmed` and `full` are the authentication session's and the web
session's. A handler starts in the mode its client asks for, acts (or is `Refused`),
then runs `SessionRelease` and `SessionDestroy`, and if it must destroy: `DestroyMark`,
`DestroyDelete`, `DestroyCount`. A login is `Reserve` (the count), `Add` (the map),
`LoginOpen`, `LoginRelease`. The collector is `GcStart`, `GcVisit`, `GcMark`, `GcDelete`.
Passwords and tokens are right or wrong as they please; time is `Expire`. Modes that
touch the session alike share a definition: `EXEC` stands for CSRFTOKEN too,
`TESTPASSWD` for CHPASSWD, and a mode that only reads is `Refused`'s step. What these
calls answer, and which cookies, is in `HttpServer`.

**Acceptor, PoolAcceptor.** In the first, the acceptor thread, a thread for each
connection, one caller of the setters and the destructor; `socket` says whether a client
thread's `clientSocket` is set, null (the callback took it) or shut down; `processClient`
is `Accept`, `ProcessClient` (with `Admit`, `Reject`, `Enter`, `Drop`) and
`WaitTimesOut`. A destructor that comes upon a child without a socket reads a null pointer:
it is "crashed". In the second, `loop` is `run`, `fate` the clients' tasks in an instance
of `TaskService`, `socketOf` who has each client's socket and which callback was told. Its
destructor waits for the pool's tasks and not for the loop: it may come anywhere (`late`
is the client that is being pushed then), and what the loop would do with a pool and a
listener that were freed is undefined and not followed (`Defined`).

**Bridge.** One side per direction, the pinger, and the remote ends as external actions.
Streams are sequences of numbered blocks, sizes and pings; framing is kept because pings
cross it. A write may take any time, and for ever, while the peer is there and does not
read (`PipeBlocked`, `PingBlocked`).

**AuthStore, Auth, AuthPages.** `db` is a record of tables, each a set of rows;
`Parents` names the foreign keys, and `Cascade` removes what they remove. Every
operation of `Manager_DB` is an operator on `db` that gives each outcome it may have
(a failing statement included, with what was done before it). In `Auth` an
authenticator reads the secret (`Login`, `TryMaster`...), and counts or accepts the
attempt in a later step; a full-authentication method is one step, guarded by the
attributes and factors it is registered with. Times and password hashes are
expired/fresh and right/wrong. Text columns that are treated alike are one column.

**Methods.** `factors` is `authMatrix`. `procJAPI_Exec` is a handler's way through
`exec`: it opens the session, then the method and its full login are looked for
(`validateRPCMethodPerms`), then whether the account is a superuser, then one factor and
one attribute after the other, and then the method runs (`runRPCMethod`). Between any two
of these the account's rights, the session's factors and the time may change; methods are
added only when nobody validates, as the lock has it. What stood at any time of the
request is remembered with it for the property, as is in `proofs` what was proved; `ran` is
the last method run.

**Chunks to Parsers.** Bytes are members of a small alphabet. A container is a record of
chunks with their offsets, a file, or a reference, and every operation is a function on
it. `Containers` runs random sequences of operations beside a plain sequence. A protocol
gives `Streams` two operators, its `parse` and its `changeToNextParser`, and `Parsers`
writes each text of `Jobs` to it in fragments cut at every place. The reference readings
(`LinesAgree`, `VarsAgree`, `MimeAgrees`, `ContentAgrees`) split the whole text at once.

**Headers, HttpServer, HttpExchange.** A request is a record; its texts are split at
the characters the parsers look for and no further. `server` goes through the
sub-parsers of a request, `r` is the response, and the steps of `procResource` are
composed as in the code: session, URI, file, filter, page, redirection. `site.files` is
what can be opened, under the root or not; a page's includes are read from it by path,
and no filter is asked (`Includable`). The calls of `japi_session` are there as far as the
answer, its cookies and the end of the session go, and so are the two refusals of
credentials that cannot be read, before the session is opened; methods are run in
`Methods`. The client reads what the server streams.

**Statement, Database.** `replaceFirstKey` and the drivers' positions, then one row
after the other into the result variables. In `Database` each thread has one query, from
its construction to the end of its destructor; `connector` is the destructor's place;
`losses` counts lost connections, `done` the times a statement was carried out. A select of
SQLite's is only prepared by `exec0` and carried out by `StepSelect` (`Lazy`); `cursor` is
where its rows stand. An insertion may be carried out and still be told to have failed
(`ExecFailsAfterwards`).

**Sockets, Tls, Transfers, Chain.** `kernel` has the descriptors with their options;
name resolution gives any list of `Resolved`, whose addresses accept, refuse, stay
silent or connect at once; `remotePair` is the text that is made of one, from the bytes
where an IPv4 address has its number. `Tls` has one session per object, handles that are freed and
given again, and the two lists of pre-shared keys by handle. `Transfers` sends one text
through a writer and a reader that move any part at a time, and either call may be broken
off (`ReadBreaks`). `Chain` has two threads for each layer and a bounded channel between
layers. Layers may be of TLS (`secure`): their shutdown writes a notice and leaves the
descriptor (`Notified`), so the thread at the other end of the pair sees no end; the
notice's bytes take no room, and the base socket is plain.

**RpcClient, RemoteLogin.** The starting thread, the connecting thread and remote methods
called at any time (`Calls`) around one configuration, its file, and a kill at any time; a
file may be cut by a writing that fails, or by two that cross (`torn`). `OneLine` are the
configurations whose encrypted text is one line. In the second, two programs with keys that
run the challenge as it is written, each of whose turns may be lost.

## Runs

Twelve runs; the four that expect a violation are [below](#where-the-code-and-its-words-differ).

| Run | Instance | Asks |
| --- | --- | --- |
| `thread_pool` | 2 workers, 3 callers (1 with a timeout), 2 queues, 4 tasks, limits 0 and 1, changed at any time | `TasksAreServed`: no worker sleeps beside a task; `NoStrandedPusher`: no caller sleeps beside room, but those passed over; `ImplementsService`: the pool refines `TaskService` |
| `thread_pool_live` | 2 workers, 2 callers (1 with a timeout), 1 queue of limit 0, 3 tasks | `QueuedTaskRuns`: a task queued before stop runs |
| `fast_rpc` | 2 connections, 2 callers, 1 incoming query, 1 try | `AnswersAreOwn`, `NothingUsedIsGone`, `AllReturn`: own answers and clean tables, lifetimes, every call and connection ends |
| `web_sessions` | 1 account with a limit of 1, 2 ids, 2 handlers, CSRF tokens on | `SessionOutlivesRequest`, `CountCoversSessions`, `AllEnd` |
| `auth` | 2 accounts, 2 applications, 1 group, 2 factors, 2 authenticators of 2 logins each, attempts limited to 3 and changed to 2, an account at the last attempt but one and one at the last but two, any statement may fail | `SuperUserRemains`, `AttemptsBounded`, `RightsAreOfTheLiving`; `PagesAgree`: what a page lists is what the single questions answer |
| `data` | containers of 5 bytes through 3 operations; lines, variables, MIME messages and bodies cut in up to 4 fragments; 67 requests on 6 sites; 1 handler, 2 methods, 2 factors and a clock to 2; statements of 3 tokens for 3 drivers; 3 configurations, 1 call, 2 starts; 3 keys | `ContainersAgree`, `ParsersAgree`, `AnswersAreAllowed`, `HandledAsAsked`, `RanByRight`, `PositionsAreOfTheText`, `RunsOnWhatIsSaved`, `ProcessesWithItsKeyOnly` |
| `flow` | map: 4 threads, 2 keys, 3 items; acceptor: 3 clients of 2 addresses, limits 1 and 2; pooled acceptor: 3 clients; bridge: chunked, 2 blocks each way, 1 ping; pinger: 3 keys | `NoDanglingItem`, `ImplementsLease`, `DestroyTerminates`; `RoomIsKnown`, `DestructorReturns`; `ClientsSettled`; `BlocksArrive`, `BridgeEnds`; `StayingIsPinged` |
| `net` | sockets: 3 operations, 2 descriptors, lists of up to 3 addresses; TLS: 2 sessions, 2 handles; transfers: texts to 8 bytes in 4 layers of encryption; chain: 3 layers of capacity 1, all plain or the middle one of TLS, 3 blocks down, 2 up; database: 2 queries, 3 drivers, 2 lost connections | `ConnectedAsTold`, `OnlyListenForgets`; `NoKeysOfTheDead`; `ReadAsWritten`; `EverythingArrives`, `ChainEnds`; `ConnectorOutlivesQueries`, `ReportedIsDone`, `ConnectorDestroyed` |

Several properties are conjunctions of two sides of one question, named in their
module: `AnswersAreOwn` (`OwnAnswer`, `NoLeftovers`), `NothingUsedIsGone`
(`ConnectionOutlivesCallers`, `StreamOutlivesTasks`), `AllReturn` (`CallReturns`,
`ConnectionReturns`), `AllEnd` (`RequestReturns`, `ExpiredIsCollected`), `RoomIsKnown`
(`CountsAreOfTheList`, `NoLostRoom`), `BlocksArrive` (`DeliversInOrder`,
`DrainsBeforeShutdown`), `ParsersAgree` (`FieldsAgree`, `BodiesAgree`),
`AnswersAreAllowed` (`SentAsAllowed`, `EndedSessionsLeaveNoCookie`), `HandledAsAsked` (also
`PagesAreMadeWhole`, `StaleCookieIsRemoved`).

Why the bounds are enough. Every hazard of threads here is between two or three
parties: two destroyers and a reader; a full queue, a caller beside it and two workers
that could be woken in the other's place; a caller, a second caller whose answer could be
taken for its own, and a tear-down. The instances have one party more than the hazard
where the state space allows. Limits of 0 and 1 make the pool's queues full at once
(the code takes a task more than the limit). The second connection of `fast_rpc` is
what the retry of a call finds, and what the registration of a key in use meets. The
limit of one session makes the second login meet it. Two blocks are enough to be
out of order, and one ping to be between a size and its block. Two TLS handles are
enough for one to be given again while the other is in use. Two lost connections let a
repeated execution be lost too. In `auth`, two accounts are the last superuser and
another, and two authenticators the pair that reads one count; with the count two below
the limit both read it there, and the limit is passed. One handler of methods is enough,
as what goes on beside it may change all that it looks at; the proof is for any number.

Hazards of data are at borders: containers of 2-byte chunks make every operation of
5 bytes cross one; texts hold each delimiter's beginning without its end, and are cut
at every place; sites have one of each kind of file, rule and page, and requests each
kind of cookie, body and mode.

Bounds that cap a counter of the program and are not of the code: `MaxReaders` (readers
left behind by wrong factors), `MaxTries`, `MaxCalls`, `MaxLogins`, `MaxSteps`,
`MaxFragments`, `MaxOps`, `MaxTime`, `MaxBoots`, `MaxChanges`, `MaxConnections`,
`MaxLosses`, `MaxBlocks`, `MaxPings`, `MaxFds`.

Deadlock is not checked where the program may come to rest: every caller done, the
pool joined, the bridge ended, an exchange over. `web_sessions` checks it, since clients
may always send another request.

## Fairness

Threads that can run do (weak fairness of their steps). What the outside does is not
fair: a peer need not answer, a client need not come or close, the owner need not stop
a pool, sessions need not expire. The assumptions that need a word:

- `SafeMap`: a woken thread gets the lock. That a reader releases what it opened is not
  assumed: `procResource_File` opens a domain and never does (`webclienthandler.cpp:627`).
- `ThreadPool`: task functions return, and the mutex starves nobody (strong fairness of
  the threads that need it).
- `FastRPC`: weak fairness only. A timeout comes if the wait is left alone that long.
- `Acceptor`: a callback returns once its socket is shut down, which ends the reads and
  writes that it waits in.
- `Bridge`: a thread whose write the peer does not take owes nothing.
- `Database`: a thread that has a query executes it and destroys it, and the driver's
  calls return. Strong fairness of `CloseStatement`: a query may be executed again and
  again and is still deleted some time.
- `Chain`: the layers' threads run. Nothing is assumed of the other side.

Most liveness properties have a stated exception, and show that there is no other:

- `DestroyTerminates`: a destroyer returns once its element has no reader, as then nobody
  can open it any more. A reader that stays keeps it waiting.
- `AllReturn`: a call that is woken for others for ever. Each notification for another
  caller starts `wait_for`, with its whole timeout, anew (`fastrpc.cpp:484`).
- `AllEnd`: an *abandoned reader*, one that no handler will release. Only a wrong further
  authentication factor leaves one (see below); it holds its session's destroyers, and
  with them the collector, up.
- `DestructorReturns` of `Acceptor`: the destructor dies on a child without a socket.
- `BridgeEnds`: a write is blocked for ever by a peer that stays and does not read.
- `ChainEnds`: the other side stays connected; or the way up is full of what nobody reads;
  or the thread of a layer of TLS waits for an end that its pair's shutdown does not give.
- `StayingIsPinged` is about connections that stay.

## Proofs

`PROJECT.json` lists the theorems. Each rests on an inductive invariant, three lemmas
(it holds at first, steps keep it, it implies the property) and the temporal step.

`SafeMapProofs`, for any sets of threads, keys and items: `TypeCorrect`;
`ItemsOutliveReaders` (no item is deleted while a thread reads it or a destroyer has
it); `ReleaseNeverThrows` (a reader finds its key with a positive count);
`SingleOwnership`; `NoWakeUpIsLost`; `MapImplementsLease`. `readers` says nothing of
who reads, so the invariant adds that the count of a key is the number of threads
reading it, that a reader's pointer is the key's item or the one its destroyer has, and
that an item is allocated exactly while a key or a destroyer has it.

`ThreadPoolProofs`, for any sets of workers, callers, tasks, queues and limits:
`TypeCorrect`; `QueuesAreBounded` (one task above the highest limit at most);
`NoTaskIsForgotten`; `TaskInOnePlace`; `PoolImplementsService`; `NobodyIsStranded`. The
first three need, beside the types, only that a thread has a task in hand exactly at the
places of the code where it does (`Holding`); the next two that a task is in one place
(`OnePlace`), although positions in the queue shift. The steps are sorted by what they
move (`StepCases`), as most move nothing (`Quiet`). `NobodyIsStranded` counts: while
somebody sleeps on a queue, the workers about to wake a caller of it and the callers
woken from it, the tasks in it counted in, make more than its limit (`Filled`), and a
caller that has tested and does not sleep yet is still right (`Blocked`). It needs no
condition on timeouts or limits, but names whom they leave asleep (`passedOver`):
`setTasksByQueueLimit` takes no lock (`threadpool.cpp:176`), so that its `notify_all` may
come between the test and the wait of a caller; and a caller that was notified and reports
its timeout takes with it the wake-up that another could have used.

`FastRPCProofs`, for any connections, callers, queries and tries: `TypeCorrect`;
`AnswersAreOfTheirCalls`; `UsedIsThere`. An answer is matched by its number only, so the
first needs that a number of a connection is one caller's (`NumbersAreOwn`, with the
counter bound to the number of callers that drew one), that whatever is on the wire or
kept carries the number of the caller it is for (`TablesAreOwn`), and that a caller in a
call holds the connection that is mapped (`CallsAreOnTheMapped`).

`WebSessionsProofs`, for any accounts, sessions, handlers and limit, and any mode of a
request: `TypeCorrect`; `SessionsOutliveRequests`; `CountsCoverSessions`. A session has
at least as many readers as handlers that use it (`Counted`; at least, because a wrong
further factor leaves a reader behind), a handler releases the session it opened
(`Opened`), and a destroyer's knowledge of its session stays true because ids do not
come back (`Tracked`). Each step takes at most one session or handler out of what is
counted for each one it puts in (`Exchange`). `AnswersStayAllowed` (`HttpExchange`, any
sites and requests) follows a response through `procHTTPClientContent`: the streamer is
reset together with all that was said of it, so at any place a response either may not
be kept by a browser or has the file, element or page it was last given, and with a
filter that was judged for the same session (`Permitted`); what then sets cookies and
codes leaves the content as it was (`SameContent`). It is the resource itself that is
judged; what a page includes is not, and the theorem does not say that it is.

`AuthProofs`, for any names, clients, indexes and limits of attempts: `Invariance`;
`SuperUserStays`; `AttemptsStayBounded`; `RightsStayOfTheLiving`; `PagesStayInAgreement`.
The database is *sound*: its tables hold rows of their columns, an enabled superuser is
among the accounts, an account has one secret for an index, and with foreign keys every
row has those it refers to. That a statement keeps this is proved once for an insertion,
a deletion and a change, and for the cascade, which settles in three rounds as three
levels of tables refer to each other (`CascadeSettles`); each method is then a few of
those statements. The counter of an account passes the limit by the clients
that read it before it got there, so the invariant bounds the *sum* of the counter and
the clients about to add to it. The last three theorems assume `ForeignKeys`: without
them a secret outlives its account, a right its group, and no bound holds for either.

`NetProofs` has the transports and the connector. `TlsTypeCorrect`, `KeysAreOfTheLiving`
(`Tls`, any sessions, handles and settings): the entry that a destructor clears is every
entry of its session, because a session is listed only under the handle it has, only
after it was linked, and no longer in the list that was cleared first. `QueriesOutlived`
(`Database`, any threads and numbers of lost connections): the set names exactly the
attached queries, and nothing attaches once the connector waits. `ReportsAreTrue`: one
query has the lock, so the statement and the reconnection are its own, and each of its
executions but the last was paid with a lost connection. Selects of SQLite's are the
exception: they are carried out when their first row is read, and again when it is read
beyond the last. `ChainDelivers` (`Chain`, any
number of layers and room in them): the invariant names, for each level, how much of the
text was taken out of it, be they layers of TLS or not; those counts are no variable of the
code, so the invariant says that some exist (`Forward`, `Backward`). What a channel holds and what its thread carries
is then the piece of the text between the counts of two neighbours. That nothing is lost
in an orderly end needs that an end travels down only behind all that was written
(`Undisturbed`, `AllTold`). `AlwaysConnectedAsTold` and `DescriptorsAreKept` (`Sockets`,
any operations, lists of addresses and failing calls): while a call waits for a
connection, the object already names the address it waits for (`Expecting`), so that the
answer finds what it reports: what `remotePair` makes of an address, which for IPv6 is not
the address. A descriptor belongs to one object (`OwnFds`), and each operation is shown to leave the descriptors of the others as they were.

`ServingProofs` is about services. Of `Acceptor`, for any connections, addresses and limits:
`TypeCorrect`, `CountsAreRight`, `LimitsHold`, `NoWakeUpIsLost`, `RoomIsAlwaysKnown`,
`FreedAfterAll`; the invariant adds where a connection is (`Placed`) and what the
destructor's place tells of the acceptor (`InOrder`). `ClientsAreSettled` (`PoolAcceptor`,
any clients): a client without a task is the one the loop is about to push, and the one
that was being pushed when the destructor came is the only one that is left with its socket.
`MethodsRunByRight` (`Methods`, any table, policies and handlers): a factor that a session
holds was proved in it at the time it names, and what a request has found so far stood at
some time since it began (`Looked`). That all of it stood at once, or still stands when the
method runs, is not so, and not claimed. `RunsOnItsFile` (`RpcClient`, any configurations,
numbers of starts and calls at any time): memory and file agree between savings unless a
writing was cut short or two savings crossed, which is remembered (`torn`).
`HonestPeersShareTheKey` (`RemoteLogin`, any keys and breaks), of two programs that both run
the challenge: they count what they read and wrote, so that a message is read as the one it was written as, and
an answer is known to be to this connection's challenge. `BlocksAlwaysArrive` (`Bridge`, any
streams, sizes and numbers of pings): what a pipe has read and not yet written is the next
piece of its stream (`InHand`), and in the mode with frames the receiver stands between two
frames except while the pipe is between size and block (`Framing`), which is what a ping
must not break into.

`DataProofs` is about data that are cut, joined and converted piece by piece.
`ReadingsAreAsWritten` (`Transfers`, any jobs, any base and width of numbers, blocks and
chunks of any size, any parts that the kernel moves): what was written and not yet read
is on the wire, and a reader that fills a number, measures, gathers a text or searches for
a delimiter has read a prefix of what was written, in which no delimiter was passed
(`LeftIsTheRest`, `EndsInOrder`, `WireAsWritten`, `ReaderAsGiven`); of a read that the
kernel broke off nothing is claimed; a number that goes out
as bytes comes back because it is smaller than the base to the power of the width
(`NumbersReadBack`). `PositionsAreRight` (`Statement`, any names, any text of them): the
text is always marks followed by the rest as it was written. That rest is no variable of
the code, so the invariant says that it exists (`Replaced`); its first name is found
before any other, and of the names found there it is the greatest, as each begins it.
`ColumnsAreRight`: what a row left in the variables. `ContainersHoldTheirText`
(`Containers`, any bytes, sizes of chunks, numbers of them and limits): the invariant
(`Holds`) is that the chunks, joined, are the text, or the file is, unless the container is
`odd`: a prepend had several blocks or was to a file, or a truncation went by stale offsets,
and it was not cleared since. Reads by offset are claimed only while the offsets hold
(`OffsetsHold`): a displacement leaves them stale. From it, what a walk over the chunks visits is
that part of the text (`VisitedIs`, for every copy, comparison and search), a search goes on
from place to place without passing the needle (`SearchIs`), and the binary search comes to
the chunk of an offset while the offsets hold (`ChunkFound`). Each change has a lemma of its
own on what it makes of the text: blocks that stop at the limit of chunks, the move to a
file, chunks dropped or cut, pieces written until one is refused (`AddsBytes`, `Displaces`,
`Truncates`, `Copies`, `DisplacesUntil`).

The operators of these modules are recursive functions, which tlapm only knows by the
CHOOSE that defines them. That a function satisfies its equation is proved from the least
number at which it would not (`SetInduction`, `Iterates`), and that no other does
(`IteratesOnce`): induction over a set of numbers, not over a formula, which the provers
here cannot instantiate.

The assumptions are those stated with the constants of each module: finite threads
where a count is a cardinality, null values that are not values, positive limits, a
delimiter that is not empty (an empty one is found behind the first byte), names that are
not empty and hold neither what is between them nor begin with a mark. `OnePlace` and
`Holding` are not assumptions.

Model-checked only: liveness (tlapm has no means for fairness with `ENABLED`); what the
parsers make of a stream (`ParsersAgree`), as they are built from recursive operators,
which the prover cannot open; `HandledAsAsked`, for which the words of a request would have
to be assumed free of what they are split at.

Proved and in no run, as stronger or more telling properties took their place:
`QueueBounded`, `LimitsRespected`, `FreedLast`, `NoLostZeroReaders`, `ReleaseIsValid`,
`OneOwner`, `ColumnsAreOfTheRow`. Stated in their modules, and neither in a run nor proved:
`UpIsProved`, `HeadersReadBack`, `NoPingAfterDestruction`, `PeersFreedLast`.

## Where the code and its words differ

Four runs show a disagreement.

- `thread_pool_join`. `popTask` waits whenever it finds the queues empty; it does not
  test `terminate` first (`threadpool.cpp:97-100`). A worker that was running a task when
  `stop` sent its only `notify_all` comes back, sleeps, and the destructor's `join`
  (`:29`) never returns. `threadpool.h:65` says that stop makes the consumer threads stop,
  "also called from destructor".
- `fast_rpc_timeout`. `runRemoteRPCMethod` waits before it looks (`fastrpc.cpp:484`). An
  answer that arrives between the sending and the wait was notified to nobody; the call
  times out with "No Answer Received." (`:492`) and throws the answer away.
- `web_sessions_limit`. The collector removes a session from the map and not from
  `sessionPerUser` (`sessionsmanager.cpp:31`, against `:106`). After `maxSessionsPerUser`
  ("100 sessions", `:14`) expirations an account can no longer log in.
- `boundary_pieces`. What is left in a parser's buffer after a displacement is read by
  stale offsets (`b_chunks.cpp:563` never advances), so a boundary that comes in three
  pieces is not recognised (`subparser.cpp:412`), although `subparser.cpp:378` keeps the
  bytes that "maybe belongs to the delimiter". The message does not end.

These statements are in the modules, are refuted by TLC when put in place of the
properties of a run, and have no run of their own:

| Statement | Words | Code |
| --- | --- | --- |
| `ThreadPool!NoPushDuringStop` | `threadpool.h:76` "false if timed out or during stop" | a caller waiting for room inserts after stop (`threadpool.cpp:60-80`), which does not wake it (`:64`) |
| `ThreadPool!LimitIsMaximum` | `threadpool.h:83` "max task count" | a queue takes one more (`:60`) |
| `FastRPCPinger!PingerDestructorReturns` | `fastrpc.cpp:52` "Wait until the loop ends..." | the notification is lost while pings are sent, a timeout of the interval goes on, nothing tests `finished` in the loop (`:17`, `:104-112`) |
| `FastRPCPinger!PingerLives` | `fastrpc.h:113` "false if a signal closed the wait interval (eg. FastRPC destroyed)" | a spurious wake-up ends the pinger |
| `WebSessions!BadFactorEndsSession` | `webclienthandler.cpp:827` "Mark to Destroy the session" | the id was overwritten at `:797`: no release, no destruction |
| `WebSessions!LogsLiveSession` | `sessionsmanager.h:70` "adquire a read lock on it" | `webclienthandler.cpp:171` logs through the session after its release |
| `Acceptor!TimesOutWhenFull` | `acceptor_multithreaded.h:72` "max concurrent clients reached and timed out" | the wait's timeout decides, not the list (`acceptor_multithreaded.cpp:59`) |
| `Acceptor!ChildrenHaveSockets` | `acceptor_multithreaded.cpp:181` "stopsocket on every child thread" | the callback may have taken the socket: null, and read (`acceptor_thread.cpp:46`, `:77`) |
| `Bridge!ReportsWhoClosed` | `streams_bridge.h:50` "0: socket 0 closed the connection" | both pipes write `finishingPeer` (`streams_bridge.cpp:197`) |
| `PoolAcceptor!ListenerOutlivesGreetings` | `socket_tls.cpp:171` "in server mode, use the parent keys..." | tasks greet clients with the keys of a listener that `run` has freed (`acceptor_poolthreaded.cpp:101`) |
| `Sockets!FourGoes` | `socket_tcp.cpp:79` "IPv4 always have the permission to go." | the options are set for the first answer's family (`:62`) |
| `Tls!OwnKeysInTheList` | `socket_tls.cpp:103` "put the key in the static list here" | an address still listed by a dying session is not listed again (`socket_tls_tlsparameters_psk.cpp:70`) |
| `HttpExchange!LoginKeepsItsCookie` | `webclienthandler.cpp:744` "the session id will be fixated in the session cookie..." | the stale cookie was cleared first, and the second cookie of that name is not taken (`rsp_cookies.cpp:64`) |
| `Parsers!ReadsWhatItWrites` | `mime_message.h:75` "addString Add String Variable to the multipart message" | each boundary is written twice, and `addStringVar` puts the name where it is not read |
| `Methods!NullSessionsAreAnswered` | `webclienthandler.cpp:881` "Method not available for this null session.." | `validateMethod` reads the null session first (`methodsattributes_map.cpp:24`) |

## What the models show of the code

What was read while modelling, is in the models as it is in the code, and is not stated by
a property of its own.

Authentication. The directory's application goes with its creator's account (cascade),
although `fullauth.cpp:734` keeps its attributes from being modified. `accountConfirm` of
the methods calls `accountDisable`; `attribChangeDescription` calls `attribAccountRemove`
with the description for an account; `accountAdd` binds the extra data as creator;
`accountBasicInfo` lists direct attributes as usable ones, and `groupBasicInfo` repeats
one list. `attribsBasicInfoSearch` selects attribute columns from the applications'
table. Foreign keys work only if the program turns them on in SQLite (`ForeignKeys`).
`accountChangeSecret` deletes the secret before it inserts the new one: between two
failures the account has none. A login may be told that nothing is left while
`getIsFullyLoggedIn` is false, when no factor is required. Policies of sessions are set by
no caller. Attempts are read and counted apart: two that guess at once get one more than the
policy says. A method is checked piece by piece and then run: rights that were taken away
after they were looked at are used once more. Two programs that run the challenge have one
key; but as each proof is the same function of the same two numbers, one that sends back
what it was sent is not told from one that has the key (`streams_cryptochallenge.cpp:35`,
`:45`): the models have only programs that run it.

HTTP. The client asks for the server's cookies by an empty name and gets none; it writes
"Authentication" where the server reads "Authorization"; its cookies are separated once
only; its URI is not encoded and the server decodes it. HSTS ages are read as 0 and frame
options as DENY; `must-revalidate` is never read and `no-store` always. Interactive pages
go without a content type. `procResource_File` opens the session's domain and does not
release it (`webclienthandler.cpp:627`). Includes are read from any path under or over the root, past the filter
(`webclienthandler.cpp:425-449`), and those that refer to each other do not end (a TODO
there; the models' pages have no cycle). A filter's unknown action is left
uninitialised (`resourcesfilter.cpp:69`). `_callbackOnTimeOut` calls the callback of
failed greetings (`webserver.cpp:122`).

Parsers. Delimiters are searched in the order of a list, so lines with CR LF and "a&b=1"
depend on where reads end; `ParsersAgree` is about texts that do not. Chunked content cut
where a size is awaited counts as complete. A variable without a value is written without
its sign, and a name cut by the end is lost. `URLVars::varCount` and `getValues` do not
end for a variable that exists (`common_urlvars.cpp:77-98`, not modelled). The TTL counts
elements of one write. The limit of a MIME part's content limits its buffer only, and
`setMultiPartBoundary` uses it uninitialised. Two of the ways to cut a stream, by
connection's end and by validator, have no user.

Containers. `recalcChunkOffsets` never leaves the first chunk, so reads by offset after a
displacement or a prepend of several chunks are wrong; `ContainersAgree` excepts them
(`OffsetsHold`), and what a truncation does then (`odd`). A prepend of several blocks
reverses them; one that stops at the limit of chunks does not recompute. A file's prepend
moves the wrong way, and its truncate answers false when it worked. Searching without case
means the opposite in chunks and in memory. None of these has a caller outside
`mdz_mem_vars`.

Database. `~Query` unlocks the connector's mutex after it detached, when it may be gone
(`query.cpp:36`). The drivers' destructors close the handle before the base waits for the
queries. A lost answer makes the reconnection insert twice. When the attempts run out there
is no handle. PostgreSQL's driver never prepares and its `exec` never succeeds; MariaDB's
leaves the old value for an empty text; `isOpen` is true when its query fails. Zero
attempts mean for ever. `step` of SQLite's query takes an error for the end of the rows
(`query_sqlite3.cpp:303`), and carries the select out again when it is called after the end.

Sockets. A connect that succeeds at once is a failure (`socket_tcp.cpp:430`, "What we are
doing here?"). `listenOn` over an open socket loses its descriptor; flags of a shutdown and
of listening are never reset; a closed `connectFrom` goes on to the next address. Validation
modes that pass unverified certificates do not pass with an authority, and accepted objects
do not get their listener's validation. The remote pair of an IPv6 address is
formatted from the field an IPv4 address has (`socket_tcp.cpp:77`, `:90`): its flow and the
first twelve bytes. (What `acceptConnection` makes of IPv6 clients is not modelled.) A TLS
shutdown leaves the descriptor, so the destructor of a chain with a layer of TLS waits for
the layer's thread until the other side ends (`socket_chain.cpp:14`). An object whose
handshake failed cannot be used again.

Threads that end. A bridge whose peer does not read does not end. `~PoolThreaded` frees pool
and listener under a running `run()`. `~MultiThreaded` reads the null pointer of a child
whose callback kept its socket. A destroyer of a map waits for readers that never release.

Client application. Only one line of the saved configuration is read back
(`rpcclientimpl.cpp:169`; `OneLine`), and the default `encryptStr` returns the styled text
of many lines as it is: what it saves, the next start does not read, and asks the server
again. Neither the writing nor the closing of the file is looked at (`:212`), so that a full
disk leaves a cut file behind a program that runs on the new configuration; two threads may
save at once (a TODO in `rpcclientimpl.h`). A kill between saving and reporting leaves the report undone
for ever. `failedToRetrieveC2Config` may be tested before it is set.

## Not modelled

`Safe::Queue`, which has no user, and the mutex wrappers. Network interfaces and the
start of services: system calls. Encoders, logs, dates, scripts on JSON values, and the
abstract variables: sequential conversions of one value. The reader of registry hives, and
the multiplexer, experimental and outside the default build. The buffered reader, whose
limit is never set and which nothing uses; UDP's packets; Windows. `Manager_Remote`, each
of whose operations is one remote call. The destructor of the sessions manager, which
joins the collector after the members it uses are gone (`sessionsmanager.cpp:17`). Random
ids that collide (`sessionsmanager.cpp:78`: the count stays one too high). Tables of past
logins. Domains, which are the safe map with managers for items.

What could come next, in this order: the multiplexer, as lines over one socket with flow
control; the sessions manager's destructor; a second connection key in `FastRPC`.
