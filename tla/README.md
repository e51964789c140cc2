# A verification project for Easy_TCPserver

The repository holds a TCP server in C++ built on `select()`, in two generations that
share one directory, and a client that puts it under load. This directory models it in
TLA+, checks the models with TLC and proves part of what they show with TLAPS.

    tlc -config server.cfg CellServer        # one run; the list is in section 5
    tlapm CellServer_proofs.tla              # one module of proofs; section 7

`PROJECT.json` lists components, runs, mutants, hazards and theorems, and maps every
definition to the lines of `src/` it is translated from. Lines are quoted here as
`File.h:12`, in `src/Server/` unless a directory is named.

## 1. The system

### Second generation (`Cell_*.h`, `Memory_pool.h`, `Object_Pool.h`)

The main thread of the application accepts connections, makes a `Cell_Client` for each
and passes it to a `Cell_Server`. Every `Cell_Server` has two threads: a **worker**, which
polls the sockets of its clients, and the **task thread** of its `CellTaskServer`, which
runs the send tasks that message handlers queue. Threads are started and stopped with
`Cell_Thread`, which joins by means of `Cell_Semaphore`. All of them get memory from the
global `new`, which is the memory pool.

| component | state it keeps | operations | what makes it correct |
|---|---|---|---|
| `Cell_Semaphore` | `_wait`, `_wakeup`, a condition variable | `wait`, `wakeup` | it is a counting semaphore: no wake-up is lost, none is invented |
| `Cell_Thread` | `_isRun`, `_mutex`, `_sem` | `Start`, `Close`, `Exit`, `OnWork` | one worker at a time; `Close()` is a join and returns |
| `CellTaskServer` | `_tasks`, `_taskBuf`, `_mutex` | `addTask`, `Start`, `Close`, `onRun` | a FIFO queue; what was added before `Close()` is run by it |
| `Cell_Server` | `_clients`, `_clientsBuff`, `_fd_Read_bak`, `_client_change` | `addClient`, `addSendTask`, `Start`, `Close`, `onRun` and its passes | each client is owned once, polled, and released once; events add up |
| `Cell_Client` | socket, two buffers, two timers | `sendData`, `sendDataReal`, `Check*` | the reply of a client goes to that client |
| `Cell_Buffer` | `_pBuff`, `_nLast` | `push`, `pop`, `Write_to_Socket`, `Read_for_Socket`, `hasMsg` | no overrun; messages whole and in order |
| memory pool | free list, `nRef`, `bPool` | `allocMem`, `freeMem`, `addRef` | a block in use is never handed out again; none is lost |
| object pool | the same for one class | `allocObject`, `freeObjectMemory` | the same; one owner of a live object |
| `Cell_Log` | two files, a task server | `Info`, `setLogPath`, `setErrorLogPath`, destructor | a message reaches the file that was current when it was logged |
| `Cell_NetWork`, `Timestamp` | a start-up call; readings of the clock | | see section 9 |

How they interact: the main thread and the worker share `_clientsBuff` (written under a
mutex, tested without it). The worker and the task thread share the send buffer of every
client, with no lock at all. A send task keeps a raw pointer to its client, which the
worker may delete. `Cell_Server::Close()` stops the tasks, then the worker, whose last act
is to delete the clients. They log through the one `Cell_Log`, whose task thread writes to
files that its owner closes and replaces meanwhile. A failing `select()` makes the worker
call `Cell_Thread::Exit()`, which wants the mutex that `Close()` holds while it waits.

### First generation (`Server.h`, `Server.cpp`)

One `Server` accepts, chooses among its `Cell_Server` objects the one with the fewest
clients, and counts clients, messages and `recv()` calls in shared counters. Each worker
joins new clients, waits in `select()` without a time limit, reads, and drops the clients
whose `recv()` fails. Replies are queued as tasks and gathered in a buffer of the client
that is sent when it is full. There is no `Cell_Thread`: threads are detached.

### Client (`Client/Client.cpp`, `Client/Client.h`)

`main()` starts detached threads, each with a share of the clients: they construct and
connect them, meet at a barrier made of a counter, and then send and poll for ever.

### What is hard here

Two or three threads meet on data that only part of the code locks; pointers outlive what
they point to; `Close()` runs concurrently with everything else; the stream cuts messages
anywhere; pools and buffers reach their limit. None of it has a test in the repository,
which has no tests and no documentation beyond six `assert()` calls and its
comments. The `hazards` of `PROJECT.json` name each place.

## 2. The modules

Every module opens with a comment on what it models; below, how state and actions
correspond to the code.

| module | models | atomic step |
|---|---|---|
| `Semaphore` | abstract: permits and blocked threads | one call or wake-up |
| `CellSemaphore` | `Cell_Semaphore.h`: `wait`, `wakeup`, and where each thread is | one locked section; a wait ends by `notify_one()` or spuriously, then evaluates its predicate again |
| `CellThread` | `Cell_Thread.h` with `Semaphore` in the place of its semaphore | one locked section; `Close()` keeps the mutex across its sleep, as the code does |
| `TaskQueue` | abstract: a FIFO queue that may drop what is added during a `Close()` | one call |
| `CellTask` | `Cell_Task.h` | each unlocked read, each locked section, each task, each step of the final traversal |
| `CellServer` | `Cell_Server.h`, `Net_Event.h` and the life of `Cell_Client` | one client of one pass, one message of `recvData()`; the delete of a client and the erase of its entry are apart |
| `CellLog` | `Cell_Log.h` on `CellTask`: the calls that log, the files, the log tasks | each read of a file pointer, so that `Info()` tests it in one step and queues its task in another; closing, forgetting and opening a file are apart |
| `SendBuffer` | the send side of `Cell_Buffer.h`, used by two threads | each access to `_nLast` |
| `CellClient` | `Cell_Client.h` on `SendBuffer`: one client in the rounds of its worker, with the heartbeat | one pass of one round |
| `MessageChannel` | abstract: messages delivered whole, in order, once | one message |
| `Reassembly` | the receive side, which the program has three times (`Cell_Buffer.h`, `Server.h`, `Client.cpp`) | one `recv()`, one message |
| `Allocator` | abstract: a block has at most one user | one call |
| `MemoryPool` | `Memory_pool.h`, `Menory_pool.cpp` | one locked section; `freeMemory()` has a step before its lock |
| `ObjectPool` | `Object_Pool.h` on top of `MemoryPool` | the same |
| `LegacyConnection` | `Server.h`, `Server.cpp` on `Reassembly`: a connection from request to reply | one message, one send task |
| `LegacyServer` | `Server.h`, `Server.cpp`: connections and their Cell_Servers | each unlocked read of a count, each locked section, each read of a socket |
| `ClientProgram` | `Client.cpp`, `Client.h` | one step of each loop |
| `CellSemaphore_proofs`, `CellThread_proofs`, `CellServer_proofs`, `CellClient_proofs`, `CellLog_proofs` (with `CellTask`), `ObjectPool_proofs` (with `MemoryPool`), `LegacyConnection_proofs` (with `Reassembly`), `LegacyServer_proofs` (with `ClientProgram`) | proofs | |

How they are composed: `CellSemaphore` implements `Semaphore`; `CellThread` uses
`Semaphore` through INSTANCE; `CellTask` implements `TaskQueue` and is shown to use
`Cell_Thread` only in the way `CellThread` describes (`ThreadSpec`). Four modules extend
the one they build on, call its actions and are run in its place: `ObjectPool` that of
`MemoryPool`, `CellLog` that of `CellTask` (the initial state chooses whether the task
server belongs to a `Cell_Server` or to the log, so that both uses are checked against
`QueueSpec` and `ThreadSpec`), `CellClient` that of `SendBuffer`, `LegacyConnection` that
of `Reassembly`. `CellServer` takes what `CellThread` and `CellTask` establish (join,
mutex kept by `Close()`, drain before `Close()` returns, late tasks may be dropped) and
does not repeat their steps.

## 3. Conventions of the models

- A variable has the name of the member it stands for. `pc` values name the place in the
  code. Variables marked *history* record what the properties speak of and guard nothing.
- Where the platforms differ (`#ifdef _WIN32`), `CellServer` chooses one in its initial
  state (`win32`). The other branch of the first generation does not compile, so
  `LegacyServer` is the Windows code.
- Undefined behaviour is a choice among what the build can produce: an iterator advanced
  past the end of a map comes back to a client or runs for ever (`EraseLast`); unlocked
  reads and writes of one word interleave. The overlapping `memcpy()` of `pop()` is taken
  to be a `memmove()`, as the C libraries of the two platforms implement it.
- Descriptor sets are finite. With `_WIN32` an `fd_set` is a list of `FD_SETSIZE` sockets
  (2506: `Public_Include.h:9`, `Server.h:5`), and `FD_SET` drops what comes after without
  a word: in `CellServer` the clients beyond the first `WinSetSize` in the order of the map
  (`Cell_Server.h:258-266`), in `LegacyServer` any choice of `SetSize` of them. Elsewhere
  the set is an array of 1024 bits whatever the define says, and a descriptor from 1024 on
  is written behind it: in `CellServer` a number from `PosixSetSize` on has no bit in the
  set, its client may be ready or not, and the worker may be led `astray` by what it has
  overwritten, where the model stops following it.
- A `std::list` that one thread goes over or clears while another appends to it under the
  lock that the first does not take (`Cell_Task.h:84-88`) keeps its shape in `CellTask`:
  each access to it is one step. A corrupted list is not represented.
- Time is a choice in `CellServer`: a heartbeat limit may strike at any pass of
  `CheckTime()`. `CellClient` has a steady clock instead. Only differences of its readings
  matter, so its variables are the time since an event, counted up to `HeartLimit`, and
  `Tick` may come between any two steps.
- "Faulty variants" at the head of a module are plausible slips in one definition. Each
  property of a passing run is violated when its variant takes the place of the
  definition, which shows that the property depends on the code it is about.

## 4. What the models say about the code: where it holds with an exception

Three disagreements are shown by a run of their own (section 6). Others are visible in the
passing runs as the exceptions that a property has to make, and every exception was needed:

- `Cell_Server.h:281`: after a failing `select()` the worker ends, but the server still
  accepts clients that nobody takes over (`ClientsConsumed`), the tasks are not stopped
  before the clients are deleted (`NoTaskDuringClear`), and a later `Close()` finds the
  flag down and returns without waiting (`AllReleased`).
- `Public_Include.h:9`: clients beyond `FD_SETSIZE` are joined and counted, but never in
  the descriptor set that `select()` gets; nothing refuses them (`FdSetFresh`). With
  `_WIN32` a dropped client is never read until others leave. Elsewhere memory behind the
  set is written (`ClientsConsumed` and `CloseReturns` except what follows).
- `Cell_Server.h:69`: `ClearClients()` deletes the clients without an `OnNetLeave()`, so the
  joins and leaves that the application is told add up only until then (`EventsAddUp`).
- `Cell_Task.h:84`: the last traversal of the task list takes no lock and goes on for as
  long as the worker appends replies behind it, so `Close()` returns only if these stop
  for once (`CloseReturns`).
- `Cell_Server.h:144`, without `_WIN32`: the iterator is advanced before and after an
  erase. One client is skipped, or the end of the map is passed (`astray`).
- `Cell_Thread.h:45`: after `Exit()`, `Start()` may create a second worker while the first
  is ending, and `Close()` does not wait (`OneWorker`, `CloseJoins`).
- `Cell_Buffer.h:52,76`: a reply pushed while the worker is between its `send()` and
  `_nLast = 0` is forgotten; one counted from a stale `_nLast` brings sent bytes back; a
  short `send()` drops the rest (`LossNeedsOverlap`).
- `Memory_pool.h:85`: a block that stands for an exhausted pool starts with `nRef` 0, so
  freeing it reaches -1 and never returns it to the system (`OnlyOverflowLeaks`).
- `Server.h:296`: `select()` has no time limit, so a new client waits until a client in the
  descriptor set of its server says something; where these stay silent it waits for ever,
  and those that did not fit the set do not help (`JoinsIfOthersTalk`).
- `Server.h:221`: a failing `select()` in one worker closes the listening socket.
- `Cell_Server.h:198`: nothing resets the heartbeat, so it cuts every client, also one
  that never stops talking; and since a `recv()` of 0 is no error, it is all that ends a
  client whose peer has closed (`EveryClientGoes`).
- `Server.h:125`: `nSendLen -= nSendLen` makes the length that remains zero. A reply that
  crosses the end of the send buffer loses its rest (`LossNeedsCut`); and a buffer that is
  not full is not sent at all (`Server.h:137`).
- `Cell_Log.h:85,134`: a task reads the file pointer when it runs. After a `setLogPath()`
  or `setErrorLogPath()`, messages queued before go to the new file, to a closed one or to
  a null pointer (`OnlyReplacedFilesMissed`). `Cell_Log.h:105` tests the pointer of the
  other file. `Cell_Log.h:45-51` closes both files whenever the first is there, and none
  otherwise.
- `Client/Client.cpp:58`: `while (flag)` tests the pointer, not the flag, so threads never
  end; only `main()` does (`ExitEndsProgram`).

## 5. The runs

| run | module | distinct states | what it shows |
|---|---|---|---|
| `semaphore` | `CellSemaphore` | 202 | `BlockedCount`, `NoLostWakeup`; refinement of `Semaphore` with its liveness |
| `thread` | `CellThread` | 7384 | `CloserHasWaker`, `OneWorker`, `CloseJoins`, `CloseReturns` with `Exit()` possible at any time |
| `thread_exit_deadlock` | `CellThread` | | finding 1 |
| `task` | `CellLog` | 587810 | refinement of `TaskQueue` (order, each task once, nothing lost but late tasks), `TaskRuns`; it uses `Cell_Thread` as `CellThread` describes; `MessageToItsFile`, `OnlyReplacedFilesMissed` |
| `server` | `CellServer` | 123104 | ownership, descriptor sets, events, order of closing, release, consumption, return of `Close()` |
| `server_replies` | `CellServer` | | finding 2 |
| `send` | `CellClient` | 481968 | `NoOverrun`, `NoGarbage`, `LossNeedsOverlap`; `HeartbeatExact`, `EveryClientGoes` |
| `receive` | `LegacyConnection` | 96134 | `RoomToRead`, refinement of `MessageChannel` with its liveness; `RepliesInOrder`, `LossNeedsCut` |
| `memory` | `ObjectPool` | 3.7 million | both pools, with blocks deleted once and twice: `ListedOnce`, `FreeListExact`, `OnlyOverflowLeaks`, `SlotsSound`, `ObjectsOwned`; refinement of `Allocator` |
| `memory_double_delete` | `ObjectPool` | | finding 3 |
| `legacy` | `LegacyServer` | 298310 | `Ownership`, `CountAddsUp`, `JoinsIfOthersTalk` |
| `client` | `ClientProgram` | 23106 | `BarrierHolds`, `BarrierOpens`, `ExitEndsProgram` |

Deadlock is checked in `semaphore`. The other runs switch the check off because their
system may stop: the server once closed, the two `Exit()` callers of finding 1, the log
once it is destructed, the client of the server once it is gone, the buffers, pools and
channels once the bound on their input is reached, the stress client once `main()` has
returned.

### Bounds, and why they are enough

- `semaphore`: 4 threads, `_wait` at most 3. Two sleepers, a newcomer and a waker are the
  smallest crew in which a newcomer steals a token; proved for every number.
- `thread`: 3 owners and 3 workers, so that a `Start()` meets both a `Close()` of another
  owner and an ending worker; at most 3 permits. Proved for every number.
- `task`: 4 tasks, enough for one in each list, one added during the traversal and one
  after it; 2 files, so that one can be replaced under a queued message, and there is one
  of each level; one thread beside the owner that may be inside `Info()` while the files
  change. All but `TaskRuns` is proved for every number of tasks and files.
- `server`: 3 connections over 2 blocks and 3 sockets, so that blocks and socket numbers
  are used again while the entry of their former client is still there, and a pass has a
  client before, at and after the one that leaves. With `_WIN32` a set of 1, so that two
  clients are one too many; elsewhere the last of the three numbers has no bit. One send
  task at a time. All but the liveness is proved for every number and every size.
- `send`: a buffer of 5 with replies of 2 and 3 and 8 bytes in total: it is exactly full,
  overfull by one, and emptied and refilled in between; `send()` may take any part. The
  heartbeat limit is 2 ticks, the least that a client can reach in one check or in two.
  All but the liveness is proved for every value.
- `receive`: a buffer of 5 with a header of 2 and messages of 2, 3 and 5: a header alone,
  a message that fills the buffer, two messages in one `recv()`; 3 messages. The send
  buffer of 4 with replies of 1, 2 and 3 is filled exactly, crossed by one byte and by
  two, and filled again. All but the liveness is proved for every size and length.
- `memory`: 2 threads, 2 pooled blocks, 1 block of the system, 1 slot: both pools run
  empty, an object lands in a block of either kind, and `initMemory()` may fail and be
  tried again. Proved for every number.
- `legacy`: 2 servers, 3 connections, so that the main thread comes back to a server whose
  worker is still joining; a set of 1. The two joined clients and the waiting third that
  the hypothesis of `JoinsIfOthersTalk` is about only meet where `CellServers = 1`: with
  that value the property passes too (34687 states), and fails if any joined client that
  talks is taken for one that is in the set. `client`: 2 threads, 5 clients, of which the
  rounding of the shares leaves one without a thread. The invariants of both are proved for
  every number.
- `pending` (`MaxTasks`), `accepted` (`MaxConn`), `added` (`MaxTask`), `permits`
  (`MaxPermits`), `_wait` (`MaxWait`) and the input of the buffers (`MaxBytes`,
  `MaxMessages`), `opened` (`MaxOpen`) are bounded by a guard of the action that raises
  them; no property depends on the guard, and the proofs hold for every value.

### Fairness

Weak fairness is assumed only of threads that the operating system schedules and whose
step is enabled for good: a woken thread in `wait()`, a worker in its loop, a task thread,
a `main()` that starts threads. Nobody is obliged to connect, send, hang up, start, close,
add a task or type "exit". `ExitLocked` has strong fairness: the mutex it wants is taken
and released again and again by others, and a mutex that starves one thread for ever while
it is free infinitely often is not what `std::mutex` gives in practice on the two
platforms; the run `thread` needs it for a worker that competes with many callers, and
finding 1 holds in spite of it. A failing `select()` of the first generation
(`SelectFails`) is left out of the fairness of its worker: a `select()` without a time
limit may be waited for as long as nobody talks. In `CellServer` the loop over the
messages of one client ends (`PassBy`), because its buffer is finite, and `Close()` is
only obliged to leave the task server once every task has run (`CloseTasksReturn` with an
empty `pending`). `CellClient` assumes that time passes (`Tick`), and
`LegacyConnection` that `select()` reports a socket that can be read. `recv()` on a
readable socket and `connect()` return, and tasks and rounds of work functions end.

## 6. Findings

1. **`ExitCompletes` (run `thread_exit_deadlock`).** `Close()` takes `_mutex`, lowers the
   flag and sleeps on the semaphore, with the mutex held. A work function that is in its
   body at that moment and calls `Exit()` blocks on the mutex; nobody posts the
   semaphore. The comment above `Exit()` says that it exists so as not to deadlock. In
   the program it takes a `select()` that fails while the server is closed.
2. **`RepliesReachTheirClient` (run `server_replies`).** A client queues a reply, leaves,
   and its block of the object pool goes to the next connection before the task runs:
   the reply is put into the send buffer of another client, or into freed memory.
3. **`AssertOneRef` (run `memory_double_delete`).** `push()` deletes the reply and the
   send task deletes it again. The assertion `1 == nRef` of `freeMemory()` fails. In a
   build without assertions the count falls to -1 and the list stays sound
   (`ListedOnce`), unless the block was handed out in between: then its new owner
   loses it.

## 7. What is proved

The theorems hold for every value of the constants that the assumptions admit.

**`CellSemaphore_proofs`** (threads: any finite set; `ThreadAssumption` and the bound).
`CountsCorrect`, `WakeupsNotLost`, and `RefinesSemaphore`: every step of the two counters
is a step of the counting semaphore or changes nothing it can see. The invariant is
`IInv == TypeOK /\ BlockedCount /\ NoLostWakeup`. The two facts need each other: that a
`notify_one()` finds a sleeper follows from the tokens being fewer than the threads on
their way, and that from the count of the blocked ones. The lemmas before it say how the
cardinality of the blocked and of the awake changes when one thread moves.

**`CellThread_proofs`** (any sets of owners and workers, apart from one another).
`TypesCorrect` and `CloserNotForgotten` follow from `Accounted`: as soon as the flag is
up or an owner holds the mutex, there is a permit or a worker that will post one. The
property itself speaks only of owners that already sleep, so it is not inductive: the
promise has to be made when `Start()` raises the flag. `OneWorkerAtATime` and
`CloseIsJoin` follow from `Rounds`, which describes the order start, work, stop, post,
take of one round. It holds until somebody calls `Exit()`; therefore the invariant is
`JInv == IInv /\ (exited \/ Rounds)`.

**`CellServer_proofs`** (finite sets of blocks and socket numbers, any number of
connections and tasks, both platforms, any two values of `FD_SETSIZE`). `TypesCorrect`,
`DescriptorsFresh`, `ClientsOwned`, `EventsCount` from `IInv == TypeOK /\ Control /\
FdSetFresh /\ Ownership /\ EventsAddUp`, where `Control` says that a pass only goes over
joined clients and that the set is marked as changed while a client is deleted and not
erased. Without it a `Leave` could reach a client that is not in the map.
`DescriptorsFresh` says what is in the saved set when it is used without being rebuilt: on
Windows as many clients as there are or as fit, and no client before one of them is
missing; elsewhere just those whose number has a bit. The lemmas before it are about the
first n members of a finite set of numbers: how their rank grows, how many they are, that
none before them is left out; they use that a set of parts of a finite set has a least one,
which is `WFMin` of `WellFoundedInduction`, a theorem that takes no operator.
`TasksStopBeforeClear` and `CloseReleasesAll` need `Closing` on top, which ties the flag
and the control point of the worker to the progress of `Close()`; it holds until `select()`
fails.

**`CellClient_proofs`** (any sizes, any lengths of replies up to the buffer, any heartbeat
limit). `BufferNotOverrun`, `OnlyWrittenSent` and `LossHasACause` come from `Buffer` and
`InOrder`. The point of `Buffer` is that the worker only ever lowers `_nLast` to 0: what
the task thread has tested and loaded is an upper bound of what is there when it copies
and stores, however old it is. `InOrder` says what is in the buffer and what has been sent
for each control point of the two threads, until one of the named overlaps.
`HeartbeatIsExact` comes from `Timer`: at every point of the round, `_dtHeart` plus the
time since `_oldTime` is the time since the reading before the join. They are proved of
`CellClient` and not of `SendBuffer`, that is with the heartbeat that may cut a client in
the middle of a reply.

**`CellLog_proofs`** (any number of messages, tasks and files). `MessagesStay` and
`DestructorIsSafe`. The invariant says of a message whose file is open that the pointer of
its level still names that file (`Targets`), which needs that a file is closed before its
pointer changes and that no file is opened twice (`Files`), and the same of the file that a
thread inside `Info()` has seen; of the destructor, that once
the files are closed the worker is gone (`Ends`); and of the queue only that what is in
the lists are numbers of messages. The second part is about `CellTask`.
`ServerImplementsQueue` is the refinement of `TaskQueue`: the abstract queue is what
remains of `_tasks` and `_taskBuf` behind the position of the loop, so that the move under
the lock changes nothing, a task that runs is its head, and `clear()` is `Drop`. For that
step the invariant `TInv` knows, besides which list is empty where (`Position`), that
after the unlocked traversal `_taskBuf` holds only late tasks (`OnlyLate`), because the
traversal comes only after `Close()` has lowered the flag and `Close()` returns only after
it (`Scheduled`). `ServerUsesThread` maps the control points of worker and owner to those
of `CellThread`. `LogImplementsTaskServer` transfers both to the log: each of its steps is
one of the task server or none.

**`ObjectPool_proofs`** (any set of threads, any number of blocks and slots). `PoolInv`
holds whatever is deleted how often: a listed block has no positive count, and one is
pushed only when its count falls to zero, so that `NoRing` holds even after a second
deletion. `Single` (a pooled block is listed, or has one user or one deleter) holds until
then and gives `FreeListIsExact`. `Slots` says the same of the object pool and needs nothing
of the memory pool, hence `SlotsAreSound` has no condition. Two lemmas say what taking and
putting the head of a list without repetition does to it. `LeaksAreOverflows` adds
`HeapInv` for the blocks of the system, whose count is one as long as they are mapped,
unless they stand for an exhausted pool. `PoolImplementsAllocator` is the refinement of
`Allocator`: a step hands a block from nobody to one thread or back, which `Single` and
`HeapInv` give, as a block on the list or not mapped has no user. `ObjectsHaveOneOwner`
relates the pools: `Owned` says that owner and deleter of an object use the block it lies
in and are not inside `freeMemory()`, which the other users of the memory pool cannot
change.

**`LegacyConnection_proofs`** (any size of the buffers, any lengths, any number of
messages). `BufferHasRoom` and `MessagesInOrder` come from `RInv`, whose main part
`InStream` speaks of every byte of buffer and wire together: it is a byte of a message
sent, the other bytes of its message lie around it at their distance, and the messages
follow one another from the first not handled. Neither the number of messages nor a sum
of lengths appears in it, so that no induction over the messages is needed; `HasMsg`
then looks at the length of the very message at the front, and a buffer without a whole
message has room, as each message fits. `MessagesInOrder` is the refinement of
`MessageChannel`, without its fairness. `RepliesKeepOrder` and `LossHasTwoCauses` come
from `SInv`: everything outgoing belongs to messages handled and is older than every
queued task, the tasks are in order, and the bytes are in order (`Sorted`). The order of
what is outgoing alone would not survive the next task. `SizeAssumption` asks for a
buffer and a header of at least one byte; with none, there would be no room for a
`recv()`.

**`LegacyServer_proofs`** (any number of Cell_Servers and connections, any size of the
descriptor set; of threads and clients). `ClientsHaveOneServer` and `CountIsRight`. The
invariant `LInv` has, besides the property, what a worker knows at each control point
(`Poll`): in the middle of a join the new clients are in both lists, and what remains to be
read are joined clients, as the descriptor set is a part of them whatever `FD_SET` dropped,
so that a client that leaves was counted. At the end `BarrierIsHeld` of `ClientProgram`,
whose names are its own so that one module can extend both programs: `readyCount` is the
number of threads that have come to the barrier (`Counted`), a thread there has dealt with
its whole share (`Built`), and whoever is past the barrier has seen the full count
(`Passed`).

The definitions that the runs check are the ones the theorems name. The type invariants
`TypeOK` of `CellThread`, `CellServer` and `ObjectPool` are proved and therefore not in a
run; that of `CellSemaphore` is part of `IInv`.

**Only model-checked.** Liveness (`CloseReturns`, `ClientsConsumed`, `TaskRuns`,
`EveryClientGoes`, `BarrierOpens`, `ExitEndsProgram`, `JoinsIfOthersTalk`, and the
fairness part of `SemSpec` and `ChannelSpec`), since TLAPS proves nothing of liveness
under fairness nor of `ENABLED`; and that the three findings are reachable, which is a
matter of examples. Every invariant, every action property and the safety part of every
refinement that a run checks is proved. Nothing here needs induction over data, and no
module declares a RECURSIVE operator.

## 8. The plan

In order of what matters to the program:

1. *(done)* the threads and queues everything rests on: `CellSemaphore`, `CellThread`,
   `CellTask`; the server itself: `CellServer`; their proofs but for `CellTask`.
2. *(done)* the buffers and pools: `SendBuffer`, `Reassembly`, `MemoryPool`, `ObjectPool`.
3. *(done)* first generation and client: `LegacyServer`, `ClientProgram`.
4. *(done)* what is built on them: the heartbeat of a client (`CellClient`), the log on
   its task server (`CellLog`), the replies of the first generation (`LegacyConnection`),
   the end of the client's `main()`; proofs of `CellClient`, `CellLog` and of both pools.
5. *(done)* the refinements of `TaskQueue`, `CellThread`, `Allocator` and
   `MessageChannel`, and the invariants of the first generation and of the client.
6. Still to do: invariants of single modules that say more than the runs check, above all
   what holds after a `select()` has failed or something has been deleted twice, where the
   present theorems have a condition.

## 9. Not modelled, and why

- `Cell_Log.h`: the texts, and the buffers of date and time. A date with a month and a day
  of two digits needs 11 bytes, of which `_date` has 10 (`Cell_Log.h:39,68`): that depends
  on the calendar and not on a behaviour.
- `Timestamp.h`, `Cell_NetWork.h`, `Message_Header.h`, `Public_Include.h`: clock readings,
  start-up of the socket library, plain records, includes. The models see of them a steady
  clock and a set of message lengths.
- Project files and build output; `ObjectPool.cpp`, `Memory_pool.cpp`, the second half of
  `Menory_pool.cpp`: empty or under `#if 0`.
- `addRef()`, `mem_alloc()`, `mem_free()`, `getClinetCount()` of the second generation:
  nothing calls them.
- `checkSend()` and `_dtSend`, which nothing but a commented-out call raises.
- The packet rates of the first generation and the report of the stress client: counters
  read and cleared in separate accesses, printed and used for nothing else. The second
  `Close_sock()` of the first-generation server, in the tear-down of the process.
- Connections that are reset with data on the way, in `LegacyConnection`: what the network
  loses is not the program's to keep.
- A peer whose messages carry a length that is no length: `dataLength` is a signed short
  that neither `Cell_Buffer.h:109` nor `Server.h:366` checks. `LengthAssumption` of
  `Reassembly` (a message has at least its header and fits the buffer) is what every
  theorem and run about the stream starts from.
- The task server of the first generation (`CELLTask.h`, included by `Server.h`) is not
  under `src/`. `LegacyConnection` assumes that it runs tasks one at a time, in the order
  in which they were added; `RepliesInOrder` rests on that.
- The detached threads of the client between the return of its `main()` and the end of
  the process, when they still use the array of clients that was a variable of `main()`:
  `ClientProgram` stops everything at once.
- `Info()` of a log whose destructor has run.
- A second deletion of a block that came from the system (`Memory_pool.h:261-266`):
  `StartAgain` deletes pooled blocks twice. The count of a block that stands for an
  exhausted pool would only sink further; any other is freed already, and reading its
  header is undefined.
- A failing `malloc()` of a single block, whose null pointer the code uses. That of
  `initMemory()` is modelled: the list stays empty and the next request tries again
  (`Overflow`).
- The width of `nRef`, an unsigned char in `Object_Pool.h`: it only counts 0 and 1
  (`SlotsSound`, `ObjectsOwned`), as the program deletes no object twice, so it never
  wraps. In `Memory_pool.h` it is an int and goes below zero, as the model has it.
- The contents of messages and replies, and the sizes that choose among the two
  `MemoryAlloc` objects, which share nothing.
