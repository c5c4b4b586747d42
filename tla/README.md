# Specifications of the blog sources

The repository holds the programs behind a series of articles on concurrency
(`src/blogs-main/concurrent`), on network servers with Boost.Asio
(`src/blogs-main/asio`) and on Go (`src/blogs-main/goland`), and two small web
servers (`src/pages-other/mystore`). Its logic worth verifying is concurrent:
lock-free and lock-based containers, a thread pool, actors and channels, and the
TCP servers, whose sessions, logic layer and registries are worked on by several
threads. This directory specifies that logic in TLA+, checks it with TLC on
small instances and proves the main safety properties with TLAPS for all
instances.

Paths below are relative to `src/blogs-main`, those that begin with
`pages-other` to `src`. The servers `asio/6` to `asio/15` are one program at
ten stages; a module follows the latest of the stages it is about and says where
the others differ, with the stage as a variable (`chapter`, `edition`, `style`,
`program`) where the difference matters.

## 1. The system

| Component | Source | State | Operations | What is hard |
|---|---|---|---|---|
| SuperQueue | `concurrent/10-unlock-queue/mpmc_queue.cc` | two positions, a ring of slots, each a sequence number and storage | `emplace`, `pop`, destructor | two compare-exchanges with relaxed loads, laps, elements in raw storage |
| UnlockQueue, LockQueue | `concurrent/10-unlock-queue/{unlock,lock}_queue.cc` | two positions, a ring of raw cells | `emplace`, `pop` | positions that move before the cells are used |
| Lock-based stack and queues | `concurrent/08-stack-queue` | containers with one or two mutexes, an atomic size | push, pop, wait, assign, swap | the size is read without a mutex; waiting poppers |
| Lock-based list and table | `concurrent/09-table-list` | a mutex in each node; in each bucket | push, remove, find; set, get, delete | hand-over-hand locking; a deletion that moves a pair |
| Treiber stack, node pool | `concurrent/11-unlock-stack/treiber_stack.cc` | two tagged list heads | `emplace`, `pop`, `acquire`, `release` | ABA, nodes reused while they are read |
| Elimination stack | `concurrent/11-unlock-stack/elimination_stack.cc` | the same, and the elimination slots | the same, `try_eliminate_*` | a popper that gives up while a pusher answers |
| Spin locks | `concurrent/03-mutex/spin_lock.cc` | a flag, the time of acquisition | `lock`, `try_lock`, `unlock` | many threads see the flag clear; plain members |
| Thread pool | `concurrent/04-con-func/thread_pool.cc` | task queue, mutex, condition variable, stop flag, workers | `commit`, worker, destructor | many workers on one condition variable, stop |
| Channels, Actor | `concurrent/05-actor-csp` | a mailbox of one, of many; flags | `send`, `recv`, `stop` and `close` | senders that wait when the channel stops; a thread older than the members it uses |
| Library demonstrations | `concurrent/01` to `04`, `07` | threads, futures, promises, mutexes, atomics | one function a facility | handles moved and destroyed under running threads, lock order, memory order |
| Tests of the containers | `concurrent/08` to `11` | counters, threads, the container | one main a container | whether the program ends, and counts right |
| Session, receiving | `asio/8..15/src/core/session` | header node, message node, flag "header parsed" | `handle_read`, `Start` | TCP cuts the stream anywhere; the parse state lives across reads |
| Session, sending | `asio/8..15/src/core/session` | send queue, mutex, socket | `Send`, `handle_write` | logic thread and io threads, writes that fail |
| LogicSystem | `asio/12..15, 17/src/core/logic` | message queue, mutex, condition variable, stop flag | `PostMsgToLogicQueue`, worker, destructor | condition wait against a flag stored without the mutex, drain, order of destruction |
| Servers, io pools | `asio/6..15/src/core/server`, `io`, `main.cc` | registry, io contexts, threads | accept, remove, start, end | a registry without a mutex, a pool that is never stopped |
| Coroutine server | `asio/17` | registry, acceptor, send queues | `handle_accept`, `removeSession`, reading and sending coroutines, `close`, stop | acceptor, readers and senders on different threads; several coroutines for one socket; shutdown |
| Echo, HTTP, WebSocket, gRPC servers | `asio/2, 3, 5, 6, 7, 16, 18, 19, 20` | one buffer; a deadline; a queue | accept, read, write, close | buffers shared by two operations; a deadline that races a write |
| Asynchronous client session | `asio/4-async-api` | queues of nodes, pending flags | three ways to write, two to read | partial writes, a callback that goes on after the last |
| Client programs | `asio/8..17, 20` | - | ask, read the reply | the reply must be that of the request |
| Go programs | `goland/15-con` | channels, wait groups | goroutines | who closes, who ends last |
| Web servers | `pages-other/mystore` | upload directory, cookies; a stream of events | handlers; the reader of the page | uploads of one name at once; lines cut by the network |
| Logger, singletons | `asio/5..15, 17/include` | static objects in the order of their first uses; the line on the screen | log, first use, destruction | destructors and threads that log when `main` has returned |
| First sockets | `asio/1-socket` | a socket | open, bind, listen, connect | an exception of another type than the one caught |
| The rest | generated code, configuration, notes | - | - | not modelled (section 8) |

How the parts of a server interact. An io thread runs `handle_read`, which
cuts the stream into messages and, from 12 on, posts each to the LogicSystem (a
critical section on its queue); up to 11 it calls `Send` itself. The one worker
of the LogicSystem takes them out and calls the handler, which calls `Send` on
the session: a push on the send queue under the session's mutex and, if nobody
writes, the start of a write. The handler of the write, again on an io thread,
takes the message off the queue and starts the next. Whoever meets an error
closes the session, which is the server's cue to drop it from the registry. At a
signal `main` stops, and the static singletons (LogicSystem, IOPool) are
destroyed, possibly while io threads still run. In 17 the two halves of a
session are coroutines. `FramedServer` is this composition.

`PROJECT.json` lists the components, every run, the mutants that show each
property can fail, the source lines of each definition (`map`), the hazards of
the code with the properties that guard them, the findings and the theorems.

## 2. Modules

| Module | What it is |
|---|---|
| `BoundedFifo` | abstract: a FIFO of at most `Capacity` elements from which each consumer takes |
| `SuperQueue` | the lock-free ring, refines `BoundedFifo` |
| `UnlockQueue` | the two rings before it |
| `ListQueue`, `LockedContainers` | the list with a mutex at each end; stack and queue under one mutex, with their assignments |
| `TreiberStack` | the lock-free stack and the free list of its nodes |
| `ElementStack` | abstract: elements leave from the top, or from the place where they are parked, each to one thread |
| `EliminationStack`, `StackProofs` | the stack with the elimination array, extends `TreiberStack`, refines `ElementStack`; proofs about both |
| `FineLocking` | the list with a mutex in each node, the hash table with one in each bucket, and the adaptive spin lock |
| `ThreadPool`, `WorkerProofs` | the thread pool |
| `Channels` | the two channels, any number of senders and receivers |
| `ContainerProofs` | proofs about `SuperQueue`, `ListQueue`, `LockedContainers`, `UnlockQueue`, `FineLocking` and `Channels` |
| `ChannelPrograms` | the programs that use the channels |
| `Actor` | the actor, with the two spans in which its thread runs beside members that are not there |
| `Goroutines` | the Go programs |
| `ThreadLibrary` | the demonstrations of threads, futures and mutexes, and the programs made of them |
| `MemoryOrder` | the litmus tests, with the loads the C++ memory model allows |
| `ContainerTests` | the test programs of the containers |
| `SessionRead` | the receiving half of a session |
| `MsgNodes` | the nodes that hold a message's bytes |
| `OrderedStream` | abstract: accepted messages reach the wire whole and in order |
| `SendQueue`, `SendingProofs` | the sending half of 12 to 15, refines `OrderedStream` |
| `LogicSystem` | the logic layer |
| `FramedServer`, `FramedServerProofs` | a connection of 8 to 15 end to end, extends `SessionRead`; proofs about both |
| `SequenceLemmas` | what the proofs need of `FlattenSeq` and of the fronts and rests of sequences, by induction |
| `SessionRegistry` | the servers of 6 to 15 and 17: registry, threads, io pool, end of `main` |
| `CoroutineSend` | the sending half of 17, which does not refine `OrderedStream` |
| `CoroutineServer` | acceptor, registry, reading coroutines and shutdown of 17 |
| `EchoSession` | the echo sessions of 5, 6, 7 and 16, and the synchronous echo of 3 with the loops of 2 |
| `AsyncSession` | the client session of 4 |
| `BeastServers` | the HTTP server of 18 and the WebSocket server of 19 |
| `Logger` | the logger of 5 to 17 and the life of the static objects |
| `Clients` | the client programs, against `OrderedStream` or `CoroutineSend` as their server; the first sockets of 1 |
| `MyStore` | the two web servers of `pages-other/mystore` |
| `MCQueues`, `MCStructures`, `MCWorkers`, `MCServers` | several parts for one run of TLC |
| `MCFramedServer` | streams of messages for `FramedServer` |
| `ServerProofs` | proofs about `LogicSystem`, `CoroutineServer` and the parts in `MCServers` |
| `PeerProofs` | proofs about what the peers get, extends `ServerProofs`: `EchoSession`, `AsyncSession`, `Clients` |

In a module `MC...` a behaviour is a behaviour of one single part, which a
variable `subject` names from its start; the variables of the others keep their
initial values. So the run checks exactly the union of the state spaces of its
parts, each with the fairness its module states. Where parts of one kind make
the same promise it is one property of the group (`EndsApart` is `SidesApart` of
the list and `CellsApart` of the rings).

Variables carry the names of the members they stand for (`send_queue` is
`_send_queue`, `b_stop` is `_b_stop`). A variable that is a history, added to
say what happened, is marked so. A definition named `X_Something` just before
`X` is a deliberately broken `X`, used to show that a property can fail; no
specification uses it.

A few histories record that the code has reached a state in which no outcome is
defined, or in which what it says does not hold any more: `early` (an element
moved out before it was constructed, `UnlockQueue`), `torn` (a registry changed
by two threads at once), `overwritten` and `collided` (a buffer read into, or a
second write begun, while a write takes bytes of it), `overtaken` (a handler
that ran before the flag it needs was stored), `undefined` (an operation of
`AsyncSession` on an empty queue, or one that replaces the buffer of another),
`spoiled` (a file written by two uploads), `split` and `cut` (a line that came
in pieces). The properties say what holds until then; that these states are
reached is the subject of section 4.

**Granularity.** A step is one access to shared memory where threads race
without a lock (`SuperQueue`, `UnlockQueue`, the lock-free stacks, the spin lock,
`ListQueue`, `MemoryOrder`), and otherwise one critical section, one callback up
to its next asynchronous call, or one coroutine turn between two suspensions.
Where something unprotected matters inside a critical section it is cut there:
`Predicate` and `Block` of `LogicSystem` and `ThreadPool` are two steps because
the stop flag is stored without the mutex; a `Send` that has released the mutex
and has not started its write yet is a state of its own (`sender = "start"`);
`handle_read` may have started the next read and not yet stored its flag
(`stores > 0`).

**SuperQueue.** `emplace` is `StartEmplace`, the loads, `ClaimEnqueue`,
`Construct` and `Publish`; `pop` mirrors it. The relaxed
loads return any value of the modification order not older than the thread has
seen, so a step may choose a stale one. Ticket `k` owns slot `k % Capacity`;
`put` remembers the element of each ticket. The destructor needs that no call
is running, which is the caller's duty in C++.

**UnlockQueue.** The lock-free ring access by access with the one producer and
the one consumer of its `main`; the ring under a mutex call by call.

**ListQueue, LockedContainers.** Of `LockQueueInList`, producers fill the empty
node at the tail and consumers take the node at the head; inside the critical
sections a step is one access to what the other side reads (`_size`, `_next`,
`_head`, `_tail`). `LockedContainers` counts the elements of two objects that
assign, move and swap, of which only the queue has poppers that sleep.

**TreiberStack, EliminationStack.** The stack and the free list are lists of
the same shape (`top["stack"]`, `top["pool"]`), and a call moves a node from
one to the other: `ReadNext` and `Take` are the loop of `acquire` and of `pop`,
`Link` and `Put` that of `emplace` and of `release`, `Own` what happens to the
element in between. `list` is a history of the nodes put and not taken yet.
`EliminationStack` keeps these steps (`AtStack`) and adds those of
`try_eliminate_push` (`MeetPopper`, `Answer`) and `try_eliminate_pop`
(`MeetPusher`, `Claim`, `Offer`, `Look`, `Collect`, `Withdraw`). How many
attempts a call makes before it tries the array is not counted, since a
compare-exchange may fail for no reason.

**FineLocking.** Walkers of the list lock the next node before they
let go of the one they are at; whether a node matches is a set of nodes. The table
keeps its pairs by bucket in their order, because a deletion moves the last
one, and is run with every hash function. The spin lock is the loop that waits
for a clear flag, the exchange, and the two accesses to the plain member
`_lock_acquire_time`.

**ThreadPool.** A call of `commit` is the test of the flag, the push and the
notification, three steps of the committer. `Leave`, `Take` and `Run` are what
a worker does after its wait.

**Channels, ChannelPrograms, Actor.** A call is its critical sections and the
notification after them. `Channels` has any callers; `ChannelPrograms` the two
threads of each program in the order of their calls. In `Actor` the thread may
run before the members declared after it are built (`StartEarly`) and after they
are destroyed (`RunLate`); of the undefined outcomes, the one where the process
ends is a behaviour that stops.

**Goroutines.** A step is one operation on a channel or a wait group; functions
of one shape share one model (`func1`, `func2`, `count2`), and the ranges the
prime search divides, with the remainder nobody gets, are computed as in the code.

**ThreadLibrary.** Each function is a small program per thread, a sequence of
operations (`Start`, `Joins`, `Lock`, `Read`, `Ends`...), and below it what each
operation does, so that what a function may do wrong is not written down but
follows: a handle moved onto a joinable one, a mutex locked twice, a local that
dies under the thread that reads it. Three functions are left as their comments
say they are: `callAll` (its comment: it triggers a deadlock) is not run,
`func1_err` terminates, and `readFile`, which returns before its `unlock`, leaves
the recursive mutex locked. Condition variables do not wake spuriously here.

**MemoryOrder.** What a load may return is a set of flags a thread must see:
relaxed loads may miss what others have stored, acquire loads take over what the
store carried, fences do so for the accesses around them, and loads in the one
total order miss nothing. `SharedUseIsSafe` claims the asserts of `func2` and `func6`,
which have the release and the acquire they need, and of `func5` that one of the two
readers at least finds both flags set. The asserts of `func1` and `func7` may fail,
which is a finding (run `litmus`). Of `z` in `func4` and `func5` nothing is claimed:
`thr3` and `thr4` may both find both flags, and then write the plain `z` with
nothing between them that orders the two writes, a data race, which is listed
among the hazards; and in `func4` neither may, which leaves `z` at 0.

**ContainerTests.** Who calls what how often, and when the program ends. The two
programs of the queues end only if no element was refused by a full queue, since
the consumer counts what it has popped against what was offered.

**SessionRead.** Bytes are numbers, because a stream read out of step must
meet lengths and ids as the code would decode them: as signed shorts, of which a
length is tested only from above. A length of -1 gives a node without a buffer,
into which `BodyBegins` and `BodyPart` still copy (`HeapBreaks` is the other
outcome of that undefined behaviour); with one below, the allocation throws and
the program is over (`HeadThrows`). One `HandleRead` is a turn
of the loop of `handle_read`; `stores` counts handlers that have started the
next read and still have to store `_head_parse`. The chapter decides the header (a
length, or an id and a length), its byte order, and what a refused header or an
error does to the session.

**SendQueue, CoroutineSend.** A write takes a message in `Pieces` pieces and
may fail between any two, in which case the session closes. In `CoroutineSend`
each coroutine is named by the message whose `Send` spawned it.

**LogicSystem.** The worker is a program counter over the loop, the wait, the
check, the processing and the drain. The destructor is five steps, because
members are destroyed in the reverse order of their declaration: the handlers,
the flag, the condition variable and the mutex go before the `jthread` whose
destructor joins the worker. With `PostersOutlive` io threads keep posting
while this happens.

**FramedServer.** `SessionRead` with what its messages are for: they are handed
to the logic layer (12 to 15) or to `Send` in the same handler (8 to 11), the
worker answers, and the sending half writes. `out` is what reaches the peer.

**SessionRegistry.** A session has up to two handlers (`Halves`) that may fail.
Where the main thread and io threads change the map at once (14, 15) an access
takes two steps; two that overlap set `torn`. The end of `main` is the order in
which it stops and destroys what it has: `io_context`, pool, server.

**CoroutineServer.** Each session has a reading coroutine and, from the moment
its write fails, one sending coroutine; both reach `close`, where an atomic
exchange lets one through. `Stop` and `DestroyServer` are `main` leaving at a
signal while the pool still runs.

**EchoSession, AsyncSession, BeastServers.** One step is a handler
or a coroutine turn; what a read returns is a number. The buffer of `EchoSession`
is shared between a read and a write where the code shares it (7). The synchronous
echo is at the end of `EchoSession`: there one `read_some` may take any part of
what has come, and the rest of the buffer is zero because of the `memset`.

**Clients.** The order of a program's calls against the server of its chapter,
which answers as `OrderedStream` allows or, for 17, as `CoroutineSend` does.
The functions of `asio/1` are their calls in turn; a call that fails, or comes when
its object is not in a state for it, throws what no handler there is for.

**Logger.** A line of the log is three prints, and nothing keeps those of two
threads apart (`LinesWhole` says that only two threads at once can garble a
line). Static objects are constructed at their first use and destroyed in reverse
order; `LoggerOutlives` is why it matters that the constructor of `Server` logs
before it prepares its first connection. What a thread logs, and when, is open.

**MyStore.** Replies are a status and the pieces of the body, since gin sends the
status with the first. An upload is one step to create the file and one per block.

## 3. Runs

Deadlock is checked in `queues`, whose parts stop only when everybody sleeps over
an empty container, or has done what there is to do (`AllAsleep`). The other runs
hold systems that may stop: a closed session, a joined pool, a program that ends.

| Run | Distinct states | What it shows |
|---|---|---|
| `queues` | 166k | slots of `SuperQueue` are owned by one thread at a time (`SlotExclusive`), elements are constructed on raw storage (`ConstructsOnRaw`), none outlives the destructor (`NoElementLeaks`), the ring is a bounded FIFO (`ImplementsFifo`); the two ends of the list and of the older rings never meet on a node or a cell (`EndsApart`); no popper sleeps on over an element (`NobodyForgotten`) |
| `structures` | 164k | both lists of the stack stay intact under stale heads (`ListsIntact`), elements live in the stack's nodes only (`StorageLives`), a node is at one place and a marker never outlives its popper's wait (`EliminationIsExact`), elements go to one pop each (`ImplementsElements`); no walker of the list is overtaken or finds a freed node (`NothingOvertaken`); the table is the map of its operations (`IsTheMap`); the spin lock has one holder (`OneHolder`); a receiver that is told the end has left nothing behind (`EndMeansEmpty`), no sender or receiver sleeps on at a channel with room or values (`NoneForgotten`) |
| `workers` | 52k | tasks are taken once and in order (`TakenOnce`), none waits behind a busy worker while another sleeps (`WorkIsSpread`), at most one worker misses the stop (`AtMostOneMissesStop`); messages of the actor and values of the Go and channel programs come once, in order and all (`RunsInOrder`); what the threads of the library demonstrations and the tests share is used by one at a time and while it lives, what a release publishes is seen by who acquires it, and the tests count right (`SharedUseIsSafe`); accepted work runs and the programs end (`AcceptedWorkRuns`); of the sending half: one write at a time (`OneWriter`), no message left to nobody (`NothingStranded`), all written or closed (`AllWritten`), whole and in order (`ImplementsStream`) |
| `framed_server` | 380k | bytes are read once and in place while the stream is in step (`StreamAccounted`); copies stay in their buffers, and in step no length is negative (`InBounds`), answers reach the peer whole, in order and once (`EchoesInOrder`), and at last all of them do (`EveryMessageEchoed`) |
| `servers` | 81k | a served session is registered (`ServedAreKept`), removed once however many coroutines fail (`RemovedOnce`), and leaves the registry when it has failed (`FailedLeave`); nobody logs through a destroyed logger (`ServedAreKept`), and a line of the log is one entry while one thread logs (`BytesInOrder`); what the peers get is what they sent or asked for, whole and in order (`BytesInOrder`); nodes hold their messages, the first sockets are what they are said to be, and the web server answers and shows what was stored and sent (`AnswersAreTrue`); coroutines send each message, once (`SendsOnce`, `AllWritten`); the logic layer loses, doubles and overtakes no message, also across the stop (`HandledInOrder`), notifying on the first message only is enough (`SleepsOnlyWhenEmpty`), a running server handles each message (`EveryMessageHandled`); what is closed, or has a deadline, ends (`ConnectionsEnd`) |
| `logic_system_stop` | - | finding: the stop may be missed (`WorkerStops`) |
| `session_read_split` | - | finding: a header in two pieces (`PostsWhatWasSent`), chapter 14 |
| `session_read_pool` | - | finding: a flag stored after the next read has begun (`BodyIsNotHeader`), chapter 15 |
| `coroutine_send_order` | - | finding: not whole and in order (`ImplementsStream`) |
| `server_stop` | - | finding: the server does not end (`ServerStops`), chapter 14 |
| `litmus` | - | finding: an assertion that may fail (`AssertionsHold`) |
| `channel_stop` | - | finding: a value stored after the stop (`NothingSentAfterStop`) |

**Bounds, and why they are enough to be interesting.** Their names are the
constants of the configurations.

- `queues`: 2 producers and 2 consumers on 2 slots with `MaxEmplaced` 3: more
  tickets than slots, so that a stalled thread meets the slot of its ticket one
  lap later, two producers fight for one ticket, and the ring is full and empty;
  2 values. `Pushers` 2, `Poppers` 3 and `MaxPushes` 4 let two poppers sleep
  while a third takes what they were notified of; 2 `Objects` and 3 `Callers` an
  assignment meet sleepers; `Attempts` 5 on `Capacity` 2 is more than a lap.
- `structures`: 3 threads, `MaxCalls` 4, `Capacity` 2: a thread holds a head
  whose node another takes, uses and puts back: without the tag the run breaks
  `ListsIntact`. Two poppers and a pusher meet in the one slot. `MaxNodes` 3 with
  `Matching` {1, 3} has a walker delete in front of another and at the end. 3 keys
  in 2 buckets collide under some hash function. Channels: 2 `Senders`, 2
  `Receivers`, `ChCapacity` 2, `MaxSends` 2.
- `workers`: 3 workers can be busy, awake and asleep at the same time, which two
  cannot; 2 tasks, 3 `Mails`; 2 `CPUs` and 9 `Numbers` have a remainder;
  `GoCapacity` 2, `Items` 5 on `RoomFor` 2 fill the queue twice; `MaxRounds` 3
  of the loops that run until stopped; `Volume` 5, `MaxThreads` 4, `Share` 2,
  `Prefill` 3, `Limit` 3, `NodePool` 7, `Offers` 4, `Room` 2 stand for the
  volumes of the tests and keep their order; `Volleys` 4 and `ChannelRoom` 2.
  In the sending half a queue of 3 (`MaxLen`) with 4 `Messages` fills up, so that one
  is dropped while another is being written in 2 `Pieces`.
- `framed_server`: bodies of 0 to 3 bytes and of more than `BodyLength` 5,
  an id above `MaxId` 2000, which is the source's; a message without a handler;
  bytes that, read out of step, are lengths of -1 and below;
  seven streams of up to three messages, cut at every place, in each of the eight
  chapters. `MaxLen` 2 with three answers fills the send queue. Writes are whole
  (`Pieces` 1): that they may be cut is in the sending half of `workers`.
- `coroutine_send_order`: 3 messages, a queue of 2.
- `servers`: 2 sessions, so that one is registered while the other is removed,
  with `MaxPosts` 1; 3 messages let the LogicSystem's queue grow while one is in
  hand and shrink to empty again; every edition, style and program there is;
  `Reads` 3 in `Parts` 2, `Arrivals` 4, `Calls` 3 with `Room` 2 for a write,
  `Requests` 3, 2 file `Names` of 2 `Blocks` in 2 `Visits`, 3 `Events`, `Width` 3;
  `Versions` are all servers that log, and `Entries` 1 lets the main thread, an io
  thread and the worker each be at a line of their own at once.
- `channel_stop`: 2 senders, of which one waits when the stop comes.
- `litmus`: the functions of 07 that assert what the counter is, one at a time,
  whole.

**Fairness.** Weak fairness of a thread's or coroutine's own steps stands for
the operating system and Asio running what is ready: the workers of the
pool and of the LogicSystem, a committer or a sender that has pushed and must
notify, the loop of the actor, the two threads of each channel program, the
threads of the demonstrations and tests, the goroutines; the handlers of
completed operations and of aborted ones, a coroutine that can be resumed,
a write the kernel can take bytes of, an acceptor in the middle of
`handle_accept`, `main` once it has begun to end, the deadline of an HTTP
connection, the client and the server of the synchronous echo; the start of a
session of `FramedServer` and its reads, without their failing. Nothing obliges
a client to send, a caller to post or to commit, a peer to close, a wait to wake
spuriously or a server to end. A reading coroutine that waits for its peer is
only resumed for certain once its socket is closed. The queues, the structures,
the channels, the echo servers but the synchronous one, WebSocket, the session
of 4, the clients, the logger and the web servers have no fairness: their properties are
safety properties, and nothing in the code bounds how often a compare-exchange
fails.

Mutexes are weakly fair only. In `ThreadPool` and `LogicSystem` that is
enough: who holds the mutex with work in the queue takes work away, so the
mutex cannot be kept from the others for ever.

## 4. Findings

Seven runs are expected to violate their property, each a disagreement between the
code and what its own comments, messages or clients say:

- `logic_system_stop`: `~LogicSystem` sets `_b_stop` and notifies without the
  mutex (`asio/15-iothread_pool/src/core/logic/LogicSystem.cc:129`). Between
  the worker's predicate and its wait that is lost, and the join never returns.
- `session_read_split`: `_cur_len` of the header node is not reset after a
  header that came in two reads (`asio/14-iocontext_pool/src/core/session/Session.cc:79`);
  all later headers are assembled from the wrong place. So in all of 8 to 15.
- `session_read_pool`: `_head_parse` is stored after the next read has been started
  (`asio/15-iothread_pool/src/core/session/Session.cc:133`); on the pool of 15
  the handler of that read may run first and take the body for a header.
- `coroutine_send_order`: the coroutine pops a message before it writes it
  (`asio/17-coroutine-server/src/core/session/Session.cc:141`), so that a
  `Send` during the write starts a second coroutine on the same socket.
- `server_stop`: the destructor of the pool joins threads whose `io_context` has a
  work guard and is never stopped (`asio/14-iocontext_pool/src/core/io/IOPool.cc:28`);
  after the message that the server has stopped it does not end.
- `litmus`: `func1` of `concurrent/07-atomic` asserts that the counter is 1
  (`main.cc:30`), with relaxed accesses only: the reader may see the second flag
  and not the first. `func7` asserts it (`:188`) with signal fences, which order
  nothing between threads.
- `channel_stop`: `send` tests `_stop` before its wait only
  (`concurrent/05-actor-csp/csp.cc:16`); a sender that waits stores its value into
  the stopped channel.

What else the models reach, or leave to the caller, without a statement in the
repository that says otherwise. The properties promise nothing after the first
five; their variables say when (section 2).

- `UnlockQueue`: a pop may move an element out before it is constructed (`early`).
  With several producers, which its `main` does not have, a position that comes
  round to an old value would also let two threads use one cell.
- 14 and 15 change the registry of sessions from several threads without a mutex
  (`torn`).
- 7 starts the first write on the read buffer, and the next read goes into it
  (`overwritten`, `asio/7-message-queue/src/core/session/Session.cc:38` and `:74`);
  5 deletes a session in one handler, which is right because only one is pending.
- In 19 a second coroutine may begin a write during another (`collided`), for the
  reason of 17.
- The callback of 4 that has written the last message takes the front of the empty
  queue, and a second `WriteToSocketErr` replaces the node of a pending write
  (`undefined`).
- `SuperQueue` with `Capacity = 1` constructs over a live element
  (`mpmc_queue.cc:55` allows it); the theorems assume `Capacity > 1`. The queue is
  used with larger ones. `size()` subtracts two counters read at two moments and
  may wrap (`:131`); nothing depends on it.
- The handlers, the flag, the condition variable and the mutex of LogicSystem are
  destroyed before its worker is joined (`LogicSystem.cc:30`), in every behaviour
  that destroys it, and so are the members of the actor. `HandledInOrder` and
  `RunsInOrder` speak of the time before. A message posted after the worker has
  left is never handled (`:133`), and a task pushed into the pool after its last
  worker has left is never run (`thread_pool.cc:71`).
- The upper bound of a body is tested and a negative length is not
  (`Session.cc:114`): lengths are read as signed `short`. No client sends a
  negative one, but after a header that came in two pieces the bytes are read out
  of place: the id 1001 (3, 233) with the byte behind it is the length -5888, and
  two bytes 255 of a body are the length -1. `InBounds` promises a buffer, and that the program goes on, for a stream in step only.
- `thr3` and `thr4` of `func4` and of `func5` may both write the plain `z`
  (`concurrent/07-atomic/main.cc:82` and `:89`, `:117` and `:124`), a data race.
- A session of 17, and of 14 and 15, that closes before `handle_accept` has
  registered it stays in the registry. `FailedLeave` says that this is the only way.
- `main` of 17 destroys the server while sessions may still call
  `removeSession` on it (`main.cc:19`).
- 8 does not close a session whose write has failed: its queue stays as it is
  (`Stuck`).
- The destructor of the thread pool has the lost wakeup of LogicSystem;
  `AtMostOneMissesStop` bounds the damage to one worker, but the join waits
  for that one.
- A popper of the elimination stack that gives up just after a pusher has
  answered it reports an empty stack, and the element stays in the slot until
  some `pop` draws that slot (`Claim`); the destructor stops at its first
  `pop` that finds nothing and leaves such an element undestroyed.
- `pop` of `lock_queue.cc` moves an element out and does not destroy it.
- Uploads of one name at once spoil the file (`spoiled`), and an event of the
  page that arrives in two pieces is shown cut (`cut`).
- `asio/1-socket/endpoint.cc` catches `error_code`, where Asio throws
  `system_error`: a failure ends the program, and the functions that open what is
  open already never return (`ReturnsWithResult`).

## 5. Proofs

TLAPS checks the theorems below for every value of the constants that meets
the module's `ASSUME`, or the hypothesis the theorem states. Each module of proofs has one inductive invariant for
every part it is about (`IInv`, `EInv`, `LqInv`, `LcInv`, `UqInv`, `LlInv`,
`LtInv`, `SlInv`, `ChInv`, `SendInv`, `RegInv`, `WsInv`, `LoggerInv`,
`LogicIInv`, `ReadInv`, `FramedInv`, `EchoInv`, `AsInv`, `ClientInv`, `SyncInv`,
`WsOrder`, `LineInv`, `EpInv`, `GinInv`, `SseInv`, `AcInv`, `GoInv`, `CpInv`), a lemma per action or per conjunct that
every step preserves it, and the theorems that follow from it. A theorem about
`MCQueues`, `MCServers` or `MCWorkers` is about each of their parts at once.

| Module | Assumptions | Theorems |
|---|---|---|
| `SendingProofs`, `SequenceLemmas` | as hypotheses: `Sized`, a write has a part and the queue a place; `Forms`, a form has finitely many files, a file so many blocks, and `nobody` is not a visitor | of the sending half: `Invariance`, `TypeCorrect`, `WritesAreExclusive`, `NoneStranded`, `WireIsStream`; of the nodes: `NodesHoldMessages`; of the web servers: `RepliesHold`, `ValuesAreWhole` |
| `ServerProofs` | `CoroutineServerAssumption`, `ServersAssumption` | of 17: `Invariance`, `ServedAreRegistered`, `OneRemoval`, `StayingIsEarly`; of the parts together: `EachIsSentOnce`, `UsedIsKept`, `FailedIsErased`; of the logic layer: `LogicInvariance`, `OrderKept`, `NoMissedMessage` |
| `PeerProofs`, `SequenceLemmas` | `ServersAssumption`: `Parts` and the versions are numbers, a buffer and a queue have a place, and what `Forms` says | `EveryPeerGetsItsBytes`, `AnswersHold` |
| `FramedServerProofs`, `SequenceLemmas` | `SessionReadAssumption`, `FramedServerAssumption` | `ReadsInBounds`, `FramedInBounds`, `ReadsEveryByte`, `FramedEveryByte`, `FramedEchoes` |
| `WorkerProofs` | `ThreadPoolAssumption`: finitely many workers; `WorkersAssumption`: a processor, and programs that send so many numbers | of the pool: `Invariance`, `TypeCorrect`, `NoTaskLost`, `NotifyOneIsEnough`, `OneMayMiss`; of the other programs: `WorkRunsInOrder` |
| `StackProofs` | `TreiberStackAssumption` | `Invariance`, `TypeCorrect`, `TagsKeepLists`, `NodesHaveOneOwner`, `ElementsLiveInStack`; with the array: `EInvariance`, `ETypeCorrect`, `ArrayKeepsLists`, `ArrayKeepsElements`, `EliminationExact`, `StackIsExact` |
| `ContainerProofs` | `SuperQueueAssumption`, `ListQueueAssumption`, `LockedContainersAssumption`, `LockListAssumption`, `LookupTableAssumption`, `ChannelsAssumption`: finitely many threads, `Capacity > 1`, node numbers, a value that is no content | of `SuperQueue`: `Invariance`, `TypeCorrect`, `SlotsAreExclusive`, `NeverOverwrites`, `PopsInTicketOrder`, `DestructorFrees`, `SequencesOnlyGrow`, `RingIsFifo`; of the others: `EndsKeepApart`, `NotifyEachIsEnough`, `AssignmentWakesAll`, `EndsNeverMeet`, `NobodySleepsOn`, `WalksMissNothing`, `TableIsTheMap`, `LockExcludes`, `EndIsEmpty`, `NoWakeupLost` |

Three of them are refinements: every step of the detailed specification is a
step of the abstract one or leaves it as it is. `RingIsFifo` (`SuperQueue`
implements `BoundedFifo`), `WireIsStream` (`SendQueue` implements
`OrderedStream`) and `StackIsExact` (`EliminationStack` implements
`ElementStack`) prove them on the invariants below.

**SuperQueue.** That no two threads share a slot does not follow from one step
to the next: one must know that a thread at its compare-exchange has seen its
turn, that tickets between the positions fit the ring (`Window`), that no
ticket is drawn twice (`Unique`), and for every slot which ticket it waits for
and whether that ticket's thread is inside (`Vacant`, `Filled`). The arithmetic
fact underneath is that two tickets of one slot are `Capacity` apart or equal.
In `RingIsFifo` a compare-exchange of a producer is the abstract put, that of a
consumer the abstract take; `Window` gives the room the put needs, and
`MovesItsElement` that the element returned later is the one taken then.

**LogicSystem.** `WorkerInv` ties the mutex and the message in hand to the
place of the worker. With it, an empty queue seen in the predicate stays empty
until the worker waits, and the push that makes it non-empty notifies.

**SendQueue.** Whether a write is under way is decided by one fact: the queue
is non-empty exactly while a message is about to be written or being written
or the session is closing. `SenderInv` adds that a `Send` about to start has
not lost its message. For `WireIsStream` the wire is read off the queue: it
holds the messages accepted and not queued any more, and of the front as many
pieces as the write has got rid of.

**CoroutineServer.** `AcceptorInv` says which session `handle_accept` has in
hand and that it has not been read from before; `CloserInv` that who is
closing has set the flag, and alone. `StaleInv` follows a closed session that is
registered, or about to be: its closer has yet to remove it, or did so too early.

**ThreadPool.** `Exclusive` is the mutex; `HolderKnows` what its holder knows
of the queue. `NotifyOneIsEnough` counts: a push adds a task and a
notification to come, a notification turns into a free worker, or finds no
worker waiting, when nothing can be asleep but a worker between its test and
its wait, for whom the queue is empty; a free worker that goes busy takes a
task with it, and one that goes to sleep has seen an empty queue.
`PushedOnce` is needed for `NoTaskLost`: the front of the queue has not been
taken before.

**Actor, Goroutines, ChannelPrograms.** `AcInv` is that what was boxed has run, is
running or is in the box, in that order, until the members are destroyed under the
thread. `GoInv` says which values have been sent (`GoGiven`): of func6 the primes
between the first number of each goroutine's share and the one it is at; what was
printed and what is in the channel (`GoAll`) holds each of them once, those of a
share rising. The WaitGroups count the goroutines at work, so that nobody is left
when `main` closes the channel; the shares lie side by side and cover the numbers up
to the remainder (`SharesApart`, `SharesCover`), so that at the end all is printed.
`CpInv` counts: what was stored was taken or is in the channel, which is closed when
all has been sent.

**Channels.** The same count on both sides of the channel: as long as a receiver
sleeps, the values do not outnumber the receivers that have been woken and the
senders that still have to notify (`Supplied`), and as long as a sender sleeps
the free places do not outnumber the opposite (`Drained`); a close frees both
sides (`Told`). `EndIsLast` is why the test after the wait matters.

**TreiberStack.** The hard step is a `Take` whose `_next` was read long ago.
`TakeKnows` says that it is right whenever the head still equals `old_head`:
each change of a head makes its tag newer than every `old_head` of that list
(`NewerTag`), so the head has not changed since; its node has been in the list
all the time, and only the thread that has a node writes its `_next`
(`OneOwner`).

**EliminationStack.** `EInv` repeats the invariant for the stack whose nodes may
also be in the array, since a node that changes hands there passes both lists
without their heads moving. A node is in one place: in a list, with a thread, or
in a slot; a marker names a popper that is still at that slot, which has to
survive the popper's withdrawal while a pusher answers it. `StackIsExact` maps a
compare-exchange at the stack to a push or a take, one at the array to parking or
fetching, and the end of a pop to the abstract return.

**ListQueue, and the spin lock of FineLocking.** The exact count of the list (`Counted`):
`size + Moving = (tail - head) + Unlinking`, where `Moving` is a producer that has
moved the tail and not counted its node yet, and `Unlinking` a consumer that has
moved the head and not counted it off. So a consumer that has seen `size > 0` is
not at the tail's node. For `NotifyEachIsEnough`,
while a consumer sleeps the elements do not outnumber the consumers that are
awake and the producers that still have to notify. `SlInv` says that a thread
inside the spin lock has the flag set, and alone.

**LockedContainers.** While a caller sleeps on an object, its elements do not
outnumber the callers of that object that have been woken or have still to
notify. An assignment adds many at once, which is why it must wake all.

**UnlockQueue.** With one producer and one consumer the positions differ by what
is stored and not passed (`UqWindow`, `Low`, `Passed`, `Stored`, `Claimed`), every
cell between them holds the element offered at that position (`UqCells`), and what
has been taken is the front of what was accepted (`UqOrder`); all of it until an
element is moved out early, in the ring of which the code has that defect.

**The list of FineLocking.** Nodes are inserted at the front, so that the number of a node
is its age and the next of a node is the youngest node of the list older than it
(`LinksTo`, with `Rank`; the front stands after all nodes). That, and the locks
two walkers never share (`Excluding`), makes `NotPassed` inductive: every node
that was there when a walk began, and still is, lies ahead of the walker or was
looked at. For the table, `Replaces` says what each change does to one bucket, and
`IsPlace` that a key has at most one place in it.

**Servers.** `SendInv` is that a message is at one place of the queue or in one
write, and that what is on the wire of it is what that write has taken
(`SendApart`); so none is written twice, and `NothingStranded` is inductive with
it. `RegInv` follows a session from `handle_accept` to its removal
(`IncomingKnown`, `AcceptedOnce`, `ShutLeaves`) for each of the twelve servers;
`WsInv` and `LoggerInv` are the same idea for 19 and for the logger: who still
runs, and what has been built before what.

**What the peers get.** `EveryPeerGetsItsBytes` needs, for every program, which
bytes are still to come and where they are. A stream cut in parts is written
`Upto(w, t)`: the first `w` messages and `t` parts of the next. `EchoInv` says that
the echo is `Upto` of what the write under way has taken, that the write is of the
message in the buffer or in the queue, and that the messages behind it wait in
order; it holds until the buffer is changed under a write, which can happen in 7
only. `AsInv` says the same of the queue of 4, for each of its
two ways of writing, until its callback takes the front of an empty queue.
`ClientInv` has the accepted requests in order, what the server's half has written
of their replies (two parts each: header and body), and what the client has read
of that, which is never beyond the reply to its last request; for 17 it needs that
a client that waits for each answer never has two of them under way, which the
sending half of 17 does not ensure by itself. `SyncInv` counts the bytes of the
line on both ways and in the buffers between them, where a part that came late
leaves zeros; `WsOrder` has the answers, the write and the queue of 19 hold the
arrivals in order, until two writes collide; `LineInv` has the last line of the
log be what one thread has printed, as long as one thread logs at a time.

`ClientInv` was not inductive at first: `Answers17` let the server of 17 drop
answers to requests nobody had made. It now counts what is dropped, too.

**What is answered.** `AnswersHold` rests on three invariants. `EpInv` says how far a
function of the first socket program has come from the state of its socket and its
acceptor (`EpPlace`), so that those that open twice never get past their second
`open`. `GinInv` is about uploads that interleave: as long as a file is not spoiled
at most one visitor writes it, and what is on the disk is what that visitor has
copied so far (`FileRight`); every file of an upload under way either has been saved
by somebody or is still in the list to be saved (`WillBeSaved`), which is what makes
the reply true when the list is empty. For `SseInv` the events are one endless
sequence of parts (`Written`), ten for an event, so that what has not been read is a
window of it that begins at `Gone`, and whether a place ends a line or begins a
datum depends on its number modulo 10 only. A chunk then shows the data whose line
and one newline more lie in it (`ShownIs`), and the number shown is the difference of
two quotients (`Tens`), which is all of them when chunks end at multiples of 10.
The last two are proved of `MyStore` by itself (`RepliesHold`, `ValuesAreWhole`);
`PeerProofs` takes the invariants and their lemmas over to the parts together through
an instance `W` of `SendingProofs`, whose steps are those of `MCServers`' own `G`.
`NodesHoldMessages` says for every message and id a short can count what is written of
a node; the run has three messages and one id.

**FramedServer.** The parser must not lose a byte whatever the cut. `StepInv`
says that the bytes held or under way (those of the node, the chunk and the wire)
encode exactly the messages not accepted yet; that a header determines its id and
length (`HeaderInjective`) and that equal encodings of messages have equal first
messages (`Decoded`) let a completed header or body be matched with the next
message sent. `HandlerInv` ties the places of the handler to the node.
`InBounds` needs `StepInv`: only because a header that is read in step is one that was
sent (`HeadInStep`) is its length not negative. `SendInv` says that
of the front of the queue `k` pieces have been written, and that what the peer
has got, followed by what the queue still owes, are the replies to what was
handled, but for what a full queue dropped; `LogicInv` that the posted messages
are those handled, in hand and queued; `DropInv` that only handled messages are
dropped. The encoding flattens a sequence of sequences. TLAPS cannot instantiate
its library's induction theorems, whose parameter is an operator; `SequenceLemmas`
has the induction over sets instead, from the well-foundedness of strict inclusion,
and proves with it how `FlattenSeq` acts on concatenations.

Only model-checked:

- every liveness property (`EveryMessageHandled`, `EveryMessageEchoed`, `AllWritten`,
  `ConnectionsEnd`, `AcceptedWorkRuns` and the like), since TLAPS does not do
  fairness;
- `SharedUseIsSafe` of `MCWorkers`, which is about closed programs of a few steps, of
  which TLC sees every behaviour: `MemoryOrder` and `ThreadLibrary` have a table of
  operations per program, of which the provers would enumerate every row.

## 6. Abstractions

- Elements, messages, tasks and sessions are members of small sets; their
  content matters only in `SessionRead`, `FramedServer` and `MsgNodes`. Logging,
  allocation failure (but for the sizes of `HeadThrows`), and the delays of `BackOff` are left out.
- A condition variable is the set of threads that wait on it. `notify_one`
  moves any one of them, and a wait may end by itself (not in `ThreadLibrary`).
- Sequential consistency, except in `SuperQueue` and `MemoryOrder`. In the stacks
  a relaxed load
  of an older head makes the compare-exchange fail, which it may do anyway, or
  finds empty a list that was empty; `_next`, a plain pointer that is read while
  another thread may write it, is taken as one indivisible access, which it is
  on the machines the code is built for. The tag is unbounded (64 bits in the
  code). Elsewhere shared data is
  protected by a mutex, or is a single monotone flag, of which an old value is
  the value of an earlier load.
- An asynchronous operation is a state in which it is pending and an action in
  which its handler runs. One io thread means that handlers do not overlap.
- Exceptions are modelled where the code catches them (the coroutines of 17),
  where they end a program or a server (3, 8 to 17 as clients, 18), and where they
  are thrown on a state (`commit` on a stopped pool, a node of a negative length).
  `_cur_len` of a node of length -1 is not bounded: after 32 KiB it would wrap.
- A clock only decides that something may happen: a deadline, a timer, a pause.
- The `map` names for a definition the lines it translates. Several stages of one
  server share a definition where their code is the same; then the lines are
  those of the stage the module follows, and the others are named where a
  definition is theirs (`Start8` to `Start15`, `Client8` to `Client20`, the
  constructors of the nodes).

## 7. Plan

Everything in the first plan is modelled: the queues, lists and channels, the
registry and the io pools, the server composed from its halves and the logic
layer, and the smaller servers and programs beside them.

What a next step would do:

1. Proofs: of `SharedUseIsSafe` what the tests count and the memory orders.
2. Larger instances: a third session in `servers`, two values in `structures`,
   writes in two pieces in `framed_server`.
3. The coroutine server end to end, as `FramedServer` is for 8 to 15.

## 8. Not modelled

- Generated code (`*.pb.cc`, `*.pb.h`, `*.grpc.pb.*`), about 6400 of the 21,600
  lines of the repository: accessors, descriptors and stubs.
- `Config.hpp`, `CoreExport.hpp` and `Global.hpp`, of which every server has a
  copy: constants, macros and includes. Of the logger its levels, colours and
  `showExample`, which nothing calls; the copies in 4 and in `template` are
  not used at all.
- `cpp` (notes on the tool chain and on performance, among them a ray tracer) and
  `goland` but 15: one sequential `main` each that prints what the language does.
- `pages-other` but `mystore`: pages, build files, a protobuf message that
  shows a bug of a library.
- Of modelled parts: `size`, `empty` and `top` of containers, which change
  nothing; the destructors of `UnlockQueue` and `LockQueue`, which run when no
  call does; two sequential tests in `stack.cc`; how `getIocontext` spreads
  sessions; the time the adaptive spin lock expects to wait, which only chooses
  how it spins.
