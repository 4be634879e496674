# A TLA+ verification of ccraft

ccraft is a raft server in C++, under construction. What exists is its lower
half: locks, a queue, a thread pool, a timer and a memory pool (`ccsys`,
`common`); an event-driven TCP messaging layer (`net`); remote calls on top of
it (`rpc`); and the first pieces of a raft node (`server`): the term and vote
file, the log file and the messenger between servers. The modules here model
that half. Everything is taken from the code under `src/src`; paths below are
relative to it. `PROJECT.json` maps every definition to its lines.

## 1. The system

| Part | State | Operations | What makes it hard |
|---|---|---|---|
| `BlockingQueue` (`common/blocking-queue.h`) | queue, mutex, one condition variable | Pop, TryPop, Push, TryPush, Clear | one condition variable for producers and consumers, `notify_one`, spurious wakeups |
| `ThreadPool` (`ccsys/thread-pool.h`) | queue, active counter, workers | AddTask, WaitAll, WaitAllUntilTimeAt, the worker's loop, destructor | the counter is not changed together with the queue; empty tasks stop workers |
| `SpinLock`, `ReadLock`, `WriteLock` (`ccsys/rw-mutex.h`, `ccsys/spin-lock.h`) | lock word, owner flag of the scoped object | construct, Lock, TryLock, Unlock, destroy | flag and lock may disagree |
| `MemPool` (`ccsys/mem-pool.*`) | pages, free lists, counters | Get, Put for four size classes | pages are given back when all their objects are free |
| `Timer` (`ccsys/timer.*`) | two multimaps, worker thread | Start, Stop, Subscribe, Unsubscribe, process | unlock-then-wait, callbacks under the lock |
| Wire format (`common/buffer.*`, `net/*message*`, `rpc/*request*`, `*response*`) | inclusive pointers, chain of buffers | encode, decode, partial read and write | cuts at any byte |
| Outgoing path (`net-stack-msg-worker.cc`, `event-worker.*`, `event-manager.cc`, `Send`) | send queue, external events, wakeup pipe, socket | SendMessage, AddEvent, worker_loop, Send | values read before a push and used after it; edge-triggered epoll |
| Incoming path (`net-stack-worker.cc`, `Recv`) | header and payload buffers | Recv | reads of any size, the peer closes |
| Handshake (`net-stack-worker.cc`, `server-event-handler.cc`, `connect-event-handler.cc`, `unique-worker-manager.cc`) | state of each end, manager of each node | Initialize, the two state machines, PutWorker | two nodes that connect to each other at once |
| Handlers (`abstract-file-event-handler.h`, `nb-socket-service.cc`, `common/reference-counter.h`) | reference count, manager entry, deletion list | borrow, Disconnect, on_finish, Release | counts read and changed in two steps |
| Network Start and Stop (`nb-socket-service.cc`, `event-manager.cc`, `server-internal-messenger.cc`) | workers, pools, service | Start, Stop | deletes what other threads use |
| `ARpcSyncClient` (`rpc/abstract-rpc-sync-client.cc`) | two maps of calls, a context per call, a timer | sendMessage, recvMessage, onRecvMessage, timeout callback | three locks, three ways to complete a call |
| `ServerInternalMessenger`, `RpcServer` | id counter, two maps | SendMessage, dispatch, on_message_sent, proc_msg | ids wrap; a connection breaks between two calls |
| Messages on their way out (`nb-socket-service.cc`, `abstract-rpc-client.cc`, `rpc-server.cc`, `net-stack-msg-worker.cc`) | the message, the queue it is in | SendMessage, Send, Disconnect, the destructors | passes from thread to thread by pointer |
| Rpc Start and Stop (`server-internal-messenger.cc`, `rpc/rpc-server.cc`, `rpc/abstract-rpc-client.cc`, `nb-socket-service.cc`) | flags, two thread pools, the service's manager | Start, Stop, a request on its way, a caller | flags are tested long before what they guard is used |
| `RaftConsensus` (`server/node/raft-consensus.cc`) | term, vote, the rfstate file | initialize, start_new_election, save_rf_state | kills and power losses at every step |
| `RtDiskRfLogger` (`server/rflog/realtime-disk-rflogger.cc`) | log file, pending entries | initialize, AppendEntries, Sync | partial writes, power loss before fsync |
| Directories (`fsio/file-utils.cc`) | the file system | CreateDirPath, RemoveDirectory | other processes between stat and mkdir |
| `skip_list` (`common/skip-list.h`) | a linked chain per level | insert, erase, clear, get, contains | random levels; deleted nodes still linked above |
| `ServiceManager`, services, `ccraftd` | services | boot, shutdown | not reachable, see section 8 |

How they interact: a raft or rpc thread hands a message to the messenger, which
files its id and passes it to the socket service; the unique worker manager
finds the connection's handler; `SendMessage` queues the message and announces a
write event to the IO thread, which sends it. On the other side an IO thread
frames the bytes, hands the message to a dispatch thread pool, and the messenger
routes it either to the caller that waits in `ARpcSyncClient` or to the rpc
server's thread pool. The timer completes calls nobody answered and starts
elections. Every buffer of a message comes from the memory pool.

## 2. Modules

| Module | Models | Proved in |
|---|---|---|
| `BlockingQueue` | the queue; also the abstract specification that `ThreadPool` implements | `ContainerProofs` |
| `ThreadPool` | the pool on top of the queue, with `Q == INSTANCE BlockingQueue` | `ThreadingProofs` |
| `Locks` | the scoped locks over an external `pthread_rwlock` and a spin lock | `ThreadingProofs` |
| `MemPoolSlots`, `MemPoolBulk` | tiny/small/big classes; the bulk class | `MemPoolSlotsProofs` |
| `MemPoolSizes` | the arithmetic of sizes, slots and pages, with its wrap-around | `MemPoolSlotsProofs` |
| `SkipList` | the skip list, next to the dictionary its operations describe | `ContainerProofs` |
| `Wire` | buffers and message encoding | |
| `Timer` | the timer thread and its clients | `NodeProofs` |
| `NetSend`, `NetRecv` | the two directions of a connection | `NetProofs` |
| `Handshake` | both ends of each connection and both managers | `ConnectionProofs` |
| `HandlerLife` | reference counts and deletion of handlers | `ConnectionProofs` |
| `NetLife` | Start and Stop of the network | `NodeProofs` |
| `RpcSyncClient` | the synchronous client, with its timer and network threads | `RpcProofs` |
| `Messenger` | ids, maps of calls, dispatch | `RpcProofs` |
| `MsgOwner` | who frees a request or a response that is sent | `RpcProofs` |
| `RpcLife` | Start and Stop of messenger, clients, server and service, twice, against requests and callers | `NodeProofs` |
| `RaftState` | term and vote on disk | `DiskProofs` |
| `RfLog` | the log file | `DiskProofs` |
| `FileTree` | making and removing directories, several processes at once | `DiskProofs` |

Several components are taken by `INSTANCE`, under a name and with variables of
their own, in a module that also states what is claimed of them: `ScopedLocks`
(`Locks`), `PoolMemory` (`MemPoolBulk`, `MemPoolSizes`), `Dictionary`
(`SkipList`), `NodeDisk` (`RfLog`, `RaftState`, `FileTree`), `NodeLife`
(`NetLife`, `RpcLife`), `RpcMessages` (`Messenger`, `MsgOwner`), `NetReceiving`
(`NetRecv`), `Connections` (`Handshake`) and `HandlerUse` (`HandlerLife`). The
MC module of a run and the module of the proofs both extend it, so TLC checks
and TLAPS proves the same formula, and TLC evaluates the assumptions the proofs
use.

`MC*` modules give the constants of a run. Where one run covers several
components, a variable `subject`, fixed in the initial state, says which
component moves. The state space is then the sum of the components'
spaces and not the product, and no behaviour mixes two of them.

How state and actions correspond to code. A variable has the name of the member
it stands for where TLA+ allows it (`m_queue`, `m_iActiveWorkersCnt`). A thread
has a program counter whose labels are the points where another thread can
interfere: a lock is taken or released, a condition variable is waited for or
notified, an atomic is accessed, a system call is made. Everything between two
such points is one action, and a function whose body runs under one lock is one
action. Time is a counter that only moves forward. A message, a task, a call or
a handler is a model value or a small number; bytes occur only in `Wire`,
`NetRecv` and `RfLog`, whose properties are about bytes, and there the widths
are scaled down.

External parts, modelled from how the code uses them: mutexes, condition
variables (which may wake spuriously), `pthread_rwlock`, epoll (edge-triggered),
the pipe and the sockets, `mmap` and `fsync`, the directory calls, protobuf.

## 3. Runs and bounds

Passing runs (`tlc -config X.cfg M`):

| Run | Instance | What it shows |
|---|---|---|
| `sync` (`MCSync`) | unbounded queue: three looping consumers, a producer, a thread with the try-operations and Clear, six pushes; bounded queue: one producer, one consumer, size 2, twelve pushes; locks: three threads, one object each | `NoLostWakeup`: no consumer sleeps over an item without a woken one. `FIFO`. `Delivered`: what is pushed is popped or cleared. `PushReturns`: a producer blocked on a full queue goes on. `LocksExclusive` |
| `pool` (`ThreadPool`) | two workers, two clients, two tasks, one of them an empty function | `RunOnce`. `StopSuffices`: the destructor's empty tasks are enough for every worker still in its loop. `WaitAllTaken`: on return of WaitAll all earlier tasks are off the queue. `QueueSpec`: the pool implements `BlockingQueue`. `TasksRun`, `DestructorJoins` |
| `memory` (`MCMemPool`) | three pages, four handles, two slots with different splits and limits; bulk sizes below, at and above the largest that is kept; messages of each kind with bodies up to one byte above the limit; every size of 12 bits with pages of 32; lists of three nodes, three keys and two values, all levels | `Exclusive`, `NoLeak`, `Trimmed` for slots; `BulkExclusive`; `SlotFits`: every size gets an object that holds it, from a slot that exists, and put finds the same slot and page; `Roundtrip`: decode gives what was encoded, however the stream is cut; `ListAgrees`: the skip list is a dictionary, until an insert raises the level over smaller nodes or draws the last level, which is undefined behaviour (section 7); `BulkExclusive` is claimed until a stale pointer is used |
| `node` (`MCNode`) | timer with three subscriptions over four points of time; two connection workers and two peers; four lives of the process for the state and the log; three requests, one of them with an unknown id, a caller and two starts for the rpc; two processes making paths and one removing them | `EndsOnce`, `EntriesAgree` (timer); `CandidacyKept` (term and vote): once votes were asked for, whatever a kill, a torn write or a power loss leaves gives back that term and vote, and no later life stands in a term again; `LogKept` (log); `StopSafe` (network Stop); `StopInOrder` (rpc Stop); `StopReturns` (both); `DirsSettle` (directories) |
| `rpc` (`MCRpc`) | three calls to two peers, two network threads, one broken connection; messenger ids that wrap after three; two requests and a response over two connections, one after the other, to a peer; two handlers with one address, two senders, Disconnect and the IO thread | `CallsFiled`: the two maps agree, and a returned call is in neither; `OutcomeFinal` (client); `IdsFiled`, and `RequestsApart`: two requests on their way have the same id only after a wrap and only if one is a RequestVoteAsync (messenger); `OwnedOnce`: a message made has one owner who will free it, or was freed once, or is one the code drops, and is not touched after it was freed, whenever workers are deleted; `HandlersAlive`: no handler is freed under the manager, a thread with a reference to give back or the loop, until the count fails it |
| `net` (`MCNet`) | two messages of two pieces through a socket of one that may fail at any write, woken through a pipe of one byte; three messages in; three crossing connections of two nodes with one break and one short read | `FIFO`, `EventsAnnounced`, `BegunResumes` (out); `Framed` (in); `TrafficServed`: announced events are served and arriving messages delivered (both directions); `ClientHasServer`, `KeptAlive`, `Settles` (handshake) |

Why the bounds are enough. Two of each thread are needed for an interleaving,
three consumers for a notification that reaches the wrong one, three connections
for two that cross and one that comes after. The socket holds less than a
message, so that every send is interrupted. Id counters wrap inside the run.
Four lives let a process die while it repairs what an earlier one left. A pipe
of one byte is full after one wakeup that nobody has read. Two starts are needed
to see the second one fail. The handlers of `rpc` are either two beside one active
sender or one beside two (`OneOrTheOther`): two handlers are needed to meet an
address again, two senders to lose the count, and both at once are left to the
proof. In `MemPoolSizes` all constants keep the order they
have in the build, so every comparison has sizes on both sides of it. Each
property is violated by a plausible wrong version of a definition (a dropped
guard, two steps swapped, an off-by-one) under the same bounds; these versions
stand next to their definitions, named in the `mutants` of `PROJECT.json`.

Deadlock is not checked: the bounded inputs run out, threads end, and a
process may stay down. That something happens in the end is said by the liveness
properties instead. No run uses symmetry: sorting out the permutations costs more
than the states it saves.

### Where the code does not do what it says

Each of these runs shows a property that a comment states and the code breaks.

| Run | Property | What TLC finds |
|---|---|---|
| `pool_waitall` | `WaitAllComplete` | WaitAll returns between a worker's pop and its increment of the active counter, before the task has run |
| `timer_fires` | `EventsFire` | a subscription between the worker's unlock and its wait wakes nobody |
| `rpc_callback` | `CallbackEnds` | callback, network thread and caller wait for each other's lock |
| `send_driven` | `Driven` | the queue's size is read before the push; the message is queued and nobody is told |
| `handshake_one` | `OneKept` | two crossing connections refuse each other and neither is kept |
| `handler_count` | `CountKept` | reading the reference count clears its upper bits |

## 4. Fairness

Weak fairness of a thread's own steps stands for a scheduler that lets a ready
thread run. It is given to threads that are under way (a consumer in Pop, a
producer already in Push, a worker, the IO thread, the timer thread, a thread in
Stop or in the destructor), never to the decision to make a call. The exception
is `NetSend`, where every sender does call `SendMessage` once: its properties
are about calls that were made, and the bounded run has no other use for a
sender. There the kernel's `Transmit` is fair as well: the peer keeps reading.
`ThreadPool`'s `WaitStep` has strong fairness: a mutex that is free again and
again is got in the end. `Settles` assumes that the two ends of a connection run
and the network carries what was sent; `StopReturns` assumes that a peer answers
or closes in the end, because the handshake has no timeout
(`net-stack-worker.cc:127` has a TODO for it), and in `RpcLife` that pool
threads run, handlers return and an owner inside Stop goes on, not that Stop is
called. No fairness is assumed of kills, power losses, broken connections,
spurious wakeups or timeouts of a caller.

## 5. Proofs

All theorems hold for every value of the constants that the named assumptions
admit. They say that distinct roles are distinct values, that sets of threads are
finite where they are counted, that keys are integers and that bounds and sizes
are natural numbers. Four
say more:

- `HandshakeAssumption` (`ShakeUse`): there are two nodes, the two ends of what is
  agreed on.
- `RecvAssumption`: no payload is empty; SndMessage::Encode refuses one.
- `SizesAssumption`: the thresholds are multiples of the footsteps, and the
  largest slot times its factor is still a size. The defaults in `mem-pool.h`
  meet it (4096 and 32; 1048576 times 4 is far below 2^32). It also lists what
  the proof uses of powers of two (`PowersOfTwo`), because the provers know
  nothing of exponentiation; each line is true of all exponents between 1 and
  the width.
- `OneCallback`, a hypothesis of `TimerEntriesAgree` alone: see Timer below.

The theorems, with the inductive invariant each one needs:

- **BlockingQueue**: `QueueType`, `QueueNoLostWakeup`, `QueueFIFO`. The argument
  counts: in an unbounded queue, while somebody sleeps, the woken consumers are
  at least as many as the items. A push adds one item and wakes one thread, a
  woken thread that returns takes one item. The unboundedness is needed: it
  makes every sleeper a consumer (`NoBlockedPush`).
- **ThreadPool**: `PoolType`; `PoolImplementsQueue` shows step by step that the pool's
  actions are queue actions or leave the queue alone. `PoolQueueSafe` follows
  from it: order and wakeups of that queue, which has no limit and is only
  popped and pushed (`QueueInv`). `PoolStopSuffices` counts the empty tasks still
  queued or to be pushed against the workers still looping; it needs
  `PoolActiveExact` and the phases of the destructor. `PoolRunOnce` follows a
  task from the queue to one worker to done, with FIFO from the refinement.
  `PoolWaitAllTaken` is an action property.
- **Locks**: `LocksKeepOut`, `LocksSpinReleased`. Inductive once it says that
  an owner flag implies the lock is really held by that thread (`LockIInv`).
- **MemPoolSlots**: `SlotsInvariant`, from which `SlotsExclusive`,
  `SlotsNoLeak` and `SlotsTrimmed`. The invariant is split by slot; `Get` and
  `put` touch one slot, a frame lemma does the others. The counting of a page's
  objects rests on the library's theorems on cardinality.
- **MemPoolBulk**: `BulkApart`. All objects of a page have one size and lie in the
  entry of that size (`BulkIInv`). That is why as many free objects as a page
  was split into are the whole page, so none of them is held when the page is
  freed. The counters, the ordered map and the recorded pages, with the flaws
  of section 7, are not needed for it.
- **MemPoolSizes**: `SizesFitSlots`. Rounding up by shifts gives the next multiple
  if that is still a size (`SizesRoundup`); a size up to a threshold is rounded
  to a slot the constructor made (`SizesSlot`); the expanded page is at least
  one object (`SizesExpand`).
- **SkipList**: `ListIsDictionary`. The invariant (`ListIInv`) says that each level
  is sorted and holds the live nodes of that level or above, and that the nodes
  at the bottom are the dictionary's entries. A level has one cut for a key,
  behind the last smaller node (`ListCut`); a walk that comes down from a smaller
  node of the level above, which is on this level too, stops at this level's cut
  (`ListPrevious`). So a lookup meets the node of the key if there is one, insert
  links at the cuts and erase unlinks at every level of the node. What the walk
  yields at each level is shown by taking the highest level at which it would
  differ, not by an induction theorem. An insert that raises the level over
  smaller nodes ends the claim (`misplaced`, section 7), as does a draw of the
  last level (`listUb`).
- **Timer**: `TimerEndsOnce`; `TimerEntriesAgree` for one callback object, which
  is how the rpc client uses the global timer. The node's own timer has two, and
  with two the comparison of ids puts each of some pairs before the other, so
  that a lookup may miss an entry: the hypothesis is needed.
- **NetLife**: `StopsSafely`. The listening thread has ended before the
  handshake threads are joined, so those stay without a task; workers are
  deleted in order, each after its thread has ended (`NetIInv`).
- **RpcLife**: `StopsInOrder`. Each pool lives longer than the threads that
  post to it; only the first Start gets as far as the handlers and the
  server, because clients register once (`RpcIInv`).
- **RpcSyncClient**: `RpcType`, `RpcCallsFiled`, `RpcOutcomeFinal`. The invariant
  says who has taken a call out of the maps (at most one thread), and what the
  holder of `m_slRpcCtxs` knows of the two maps while they differ.
- **Messenger**: `MessengerIdsFiled`, `MessengerRequestsApart`, for any width of
  the counter. No two calls were ever added under one id, because the maps
  forget none; before the wrap no id at all, filed or not, was handed out twice;
  and only RequestVoteAsync sends under an id other than the one it filed
  (`MapperIInv`).
- **MsgOwner**: `MessageOwnedOnce`. A message is in exactly one of the places an owner
  can be, and no queue has it twice (`OwnIInv`). Nothing is assumed of how long a
  worker lives: the destructor frees what it finds in the queue, whenever it runs,
  and the first use of a deleted worker ends the behaviour.
- **NetSend**: `SendType`, `SendFIFO`, `SendEventsAnnounced`,
  `SendBegunResumes`. An event is listed before the pipe is written, and the
  loop looks at the list after it reads the pipe; the strengthening says for
  each point of the loop what is still ahead of it. A full pipe, for which Wakeup
  throws, needs one conjunct more: while a byte is in the pipe, its edge is there.
  A write that fails drops the message in the buffer for good; from then on
  nothing is sent, so what was dropped stands between what was sent and the queue.
- **NetRecv**: `StreamFramed`. What is in the socket is a piece of the peer's
  stream, and it begins exactly where the header or payload buffer ends
  (`RecvIInv`), for messages of any lengths and reads of any sizes.
- **Handshake**: `HandshakeAgrees`, `HandshakeKeptAlive`, for any number of
  crossing connections. The two ends talk in turns, which bounds what may be on
  the way between them; a manager holds a connection only while its end stands
  (`ShakeIInv`).
- **HandlerLife**: `HandlersStayAlive`, for any number of handlers, whatever
  addresses they share, and of senders. The invariant (`LifeIInv`) is about each
  handler that the count has not failed: the count is the reference the handler
  was made with, while the manager or the thread that took it out has it, plus
  that of its one sender; a handler about to be deleted has neither; and what the
  loop has registered or is to process is not deleted. That the manager's two
  maps name one handler, and that on_finish may use its own to the end, holds of
  all handlers. A handler is failed (`miscounted`) when a second sender borrows
  it, or when on_finish removes another than the one it releases.
- **RaftState**: `RaftCandidacyKept`. When fdatasync is reached the file has the
  term and then the vote; a process that finds a term recorded does not get past
  initialize (section 7), so nothing is written after votes were asked for
  (`RaftIInv`).
- **RfLog**: `LogStays`. What was promised is a prefix of what was synced, and a
  process that writes does so at the end of the file (`LogIInv`).
- **FileTree**: `DirectoriesSettle`, for any tree and any paths. While
  directories are made, the prefixes a creator has come by are directories.
  While one is removed, the open directories are a way down from its root, and
  what is left in each has still to be read or is being removed (`DirsIInv`).

Only model-checked:

- all liveness properties, and the fairness of the refinement, which the
  provers do not treat;
- `Roundtrip` of `Wire`: integers are written and read byte by byte by recursion,
  and what a recursive definition computes for every input needs an induction
  over data.

## 6. What the models take for granted

- The C++ memory model is sequentially consistent at the modelled points;
  ordinary members read without a lock are read in one step of their own.
- `RaftState` takes the elector manager to be there (the boot that would create
  it fails, section 8) and the log to be empty, as nothing appends to it.
- A power loss leaves, of each part of a file not yet synced, one of the
  contents it had since the last sync; for the log, what was synced and any
  prefix-wise extension by written bytes.
- A synced file keeps its entry in the directory, although nothing syncs the
  directory. OnRequestVote is a stub that grants every request and records
  nothing: `CandidacyKept` is about the server's own candidacies.
- `HandlersAlive` speaks of a handler until its count fails (section 7), and of a
  thread until it has subtracted its reference; only on_finish is covered to the
  end of its Release.
- A socket that has failed one write fails every later one (`NetSend`).
- In `MsgOwner` a payload is within the limits Encode tests.
- `Handshake` takes removing a connection from the manager and closing it, in
  on_finish, as one step. SetNonBlocking after Initialize does not fail
  (`nb-socket-service.cc:132`, `server-event-handler.cc:94`). The server's
  handshake thread, which calls Send itself after the manager has the connection,
  is not one of the threads of `NetSend`: there the IO thread alone sends.
- In `NetLife` the threads that matter to Stop are its own: listener, workers,
  handshake and dispatch threads. User threads inside SendMessage or connect are
  not there, and `StopSafe` says nothing of them; `RpcLife` has a caller.
- `Timer`: an entry whose subscription has ended, which two callbacks can leave
  behind, is erased through a dangling iterator (`timer.cc:81`); the model takes
  that for no effect. The run and the theorem on entries have one callback, with
  which it does not occur.
- `SkipList` takes the number of levels to be a natural number: `m_iMaxLevel` is
  signed and compared with unsigned levels.
- Nothing in `FileTree` fails for want of permission or space, and there are no
  links.
- In `RpcLife` a handler returns, and everything that arrives is a request.
- Once a null or dangling pointer has been used (`crashed`, `nullUsed`, `ub`),
  the model stops and claims nothing more; the places are listed in section 7.

## 7. Further disagreements met while modelling

These are visible in the modules, and are not runs of their own.

- `ThreadPool`: WaitAllUntilTimeAt (`thread-pool.h:123`) waits only while the queue is
  not empty *and* a worker is active, so it returns with either.
  A notification may come between WaitAll's test and its wait.
- `MemPool` bulk objects: `mem-pool.h:260` keeps the address of every page, and
  `mem-pool.cc:206` forgets the pages of a size when it allocates for it again;
  an entry without objects can stay among the free ones (`437`, `524-525`,
  `538-539`) or leave a stale pointer in the ordered map; Get compares a size
  with `<` (`201`) where put uses `>` (`339`), so a page allocated for one
  object is kept at the limit, and since put counts four objects on it (`359`), it
  is never seen to be full and never freed. A size within a page of 2^32 is
  rounded up to 0. Two comments give sizes that the values do not have:
  `mem-pool.h:23` ("32 KiB" for 131072) and `:48` ("512 KiB" for 1048576).
- `skip_list`: an insert that raises the level makes the head the predecessor at
  the old top level as well (`skip-list.h:103`), so that level is no longer sorted
  and an equal key can be inserted twice, where `:94` says it is updated;
  `targetPrev` has one entry too few (`91`, `119`); clear deletes every second
  node (`150-157`) and keeps `m_iCurLevel`; init replaces every level below 31 by
  3 (`197`). `ListAgrees` holds until the first such insert (`misplaced`).
- `RpcLife`: HandleMessage tests nothing, so a dispatch thread that found the
  messenger running uses the server's pool before it is made or after it is
  deleted (`rpc-server.cc:88`); a caller that found the service running uses the
  manager Stop has dropped (`nb-socket-service.cc:60`, `71`). A second Start
  fails, because clients register once (`rf-srv-rpc-sync-client.cc:25-40`), and
  leaves the service running without its manager. An error answer has no
  protocol and makes the service throw (`rpc-server.cc:104-116`). A number of
  threads given to RpcServer is ignored (`25-27`): the pool takes its default.
- `FileTree`: mkdir's EEXIST is success also for a file (`file-utils.cc:33`).
  RaftConsensus calls CreateDirPath inside an `assert` (`raft-consensus.cc:135`),
  which a Release build leaves out.
- `ARpcSyncClient`: the callback is `static` and captures the first call's id
  (`abstract-rpc-sync-client.cc:131`), so later calls never time out.
- `NetSend`: a sender may find a handler whose worker is not set yet
  (`net-stack-msg-worker.cc:47-52`, `event-manager.cc:103`).
- `NetRecv`: a read that finds no byte of a payload yet leaves the buffer just
  taken; the next event takes another, and the first is not put back
  (`net-stack-worker.cc:180-181`).
- `Handshake`: a short read makes Initialize wait for ever
  (`net-stack-worker.cc:143-150`); when the server's last answer cannot be
  sent, the manager keeps a deleted handler (`server-event-handler.cc:99`).
- `HandlerLife`: `event-worker.h:72` says that a deletion releases everything
  about the handler, but events of it may still be listed, and so may its
  registration: a handler made, removed and deleted before the loop takes
  `m_lAddEpExtEvents` is registered after it was freed. `on_finish` may be
  called after Disconnect, which the comment at `nb-socket-service.cc:169-172`
  rules out. If the peer was connected to anew in between, the real address is
  the same, and `on_finish` removes the new handler from the manager and releases
  the old one once more: the old one is deleted twice or used after it was freed,
  the new one never deleted. Release reads the count and the worker after its
  subtraction (`abstract-file-event-handler.h:46-49`), by when another thread's
  Release may have had the handler deleted, even with one sender. With two
  senders the count fails as well (`handler_count`).
- `NetLife`: the listening worker runs before the other workers exist
  (`event-manager.cc:42-52`); Stop after a failed bind uses what was never made
  (`34-39`, `70-71`).
- `Timer` and `RaftConsensus`: start_new_election runs as a callback under the
  timer's spin lock and subscribes again, which takes that lock
  (`timer.cc:43`, `105`, `raft-consensus.cc:225`): the first election blocks the
  timer's thread.
- `RaftState`: initialize reads the state through a Buffer on the middle of an
  array, which the Buffer's destructor deletes (`raft-consensus.cc:187-191`): a
  server with a recorded term does not start.
- `Messenger`: RequestVoteAsync files one id and sends under another
  (`server-internal-messenger.cc:127-129`). The test at `153-160` is inverted: a
  filed id is reported as unknown, and an unknown id dereferences `end()`.
- `MsgOwner`: `nb-socket-service.h:52` gives an accepted message to the framework,
  but ClearMessage pops what is queued and deletes nothing
  (`net-stack-msg-worker.cc:71-73`), and RpcServer forgets a response that could
  not be sent (`rpc-server.cc:125-128`). `OwnedOnce` counts both as dropped. On
  the way in, MessageNotifyMessage does not keep the function that releases its
  message (`notify-message.h:87-88`), though `:34` says the user need not release it.
- `ResourcePool` never changes `m_iCurResCnt` (`resource-pool.h:39-61`), so what is
  put back is neither reused nor bounded, and is not deleted with the pool.
- `Locks`: Lock does not set `m_bOwnLock` (`rw-mutex.h:85`, `131`), so a lock
  taken through it after deferred construction is not released on destruction.
- `RfLog`: the file is not in the format of `realtime-disk-rflogger.h:20-27`
  (`.cc:107`, `111`, `115`): sizes do not count the header, the index of what to
  sync never advances, the position of an entry is read at the wrong offset
  (`177`). A log with entries is not opened again. GetLastEntry of an empty log
  is out of range (`43`), and the loader hands mapped memory to a Buffer that
  frees it (`184`).
- `LittleEndianCodecUtils` writes the most significant byte first. Both ends use
  it, so `Roundtrip` holds.

## 8. Not modelled

- `ServiceManager`, the services, `ccraftd`: create_services falls through from
  ElectorManager to ClientRpc, whose Start returns false, so Run throws and main
  ends. Behind that, broadcast_request_vote dereferences the last entry of an
  empty log.
- `SegmentedVector`, which nothing uses and parts of which would not compile.
- `cctime`, random numbers, hashes, path helpers: pure functions or single calls.
- Protobuf and generated code; configuration.
- The destructor of the memory pool and its debug output.

## 9. Plan

1. Compose `NetSend` with `NetRecv` over one socket and show that the pair
   implements a FIFO channel.
2. `Timer` with `RaftState`: an election started by a callback under the
   timer's lock; `OnMessageSent` and the late answers of an election.
3. A run for the log's documented format.
4. cctime normalisation as an operator with a reference definition.
5. Boot and shutdown of the services.
