# Verification of the CLanServer network module

The repository holds an IOCP server module for Windows (`CLanServer`), the containers and pools it is built from, an
echo server on top of it, test drivers, and a small MySQL connector. This directory models the parts that carry its
logic in TLA+, checks them with TLC and proves what it can with TLAPS. Paths below are relative to
`src/test/IOCP_ECHO_ClassVer_MemPooltest/IOCP_ECHO_ClassVer/` unless they start with `src/`. The same container files
occur in several directories of `src/test`; the copies used by the echo server, which are the latest, are the reference.

## 1. Inventory

| component | state | operations | interacts with |
|---|---|---|---|
| `CLanServer` (NetworkModule.cpp/.h) | `Session_Array` (per session: `IOCount`, `UseFlag`, `sock`, `SessionID`, `SendFlag`, `SendQ`, `SendPack`, `RecvQ`, two `OVERLAPPED`), `emptySession`, `_Use_Session_Cnt`, thread handles | `Start`, `Stop`, `SendPacket`, `Disconnect`, `AcceptThread`, `WorkerThread`, and internally `FindLockSession`, `PostSend`, `PostRecv`, `IODecrement`, `SessionRelease` | the kernel through the completion port and sockets; the application through four callbacks |
| `ECHO` (IOCP_ECHO_ClassVer_LF.cpp) | none | `OnClientJoin` greets, `OnRecv` echoes, `OnSend`, `OnClientLeave` | calls `SendPacket` from inside the callbacks, on accept and worker threads |
| `Packet` (PacketPool.cpp/.h) | `iRefCnt`, buffer and its positions | `Alloc`, `Add`, `Free`, `Put`/`Get`, `PutHeader` | taken from a `CMemoryPool`; counted by `SendPacket`, the send completion, the release |
| `CMemoryPool` (MemoryPool.h) | free list, `m_iBlockCount`, `m_iAllocCount`, SRW lock | `Alloc`, `Free` | packets and queue nodes come from it, on every thread |
| `CMemoryPool_LF` | the same with a tagged top for a 128-bit compare-and-swap | `Alloc`, `Free` | nodes of `CStack_LF` |
| `CMemoryPool_TLS` | chunks of blocks per thread, a list of the threads' nodes | `Alloc`, `Free` | under test in `src/test/PacketPoolTLC_test`; the server does not use it |
| `CStack_LF` (LockFreeStack.h) | tagged top, node pool | `Push`, `Pop`, `isEmpty` | `emptySession`, `SendPack` |
| `CQueue_LF`, `CQueue_LOCK` (LockFreeQueue.h) | tagged head and tail, `_NodeCnt`, node pool | `Enqueue`, `Dequeue`, `GetUseSize` | `SendQ` |
| `CRingbuffer` (RingBuffer.cpp) | `Front`, `Rear`, buffer | `Put`, `Get`, `Peek`, `RemoveData`, `MoveWritePos`, the size queries | `RecvQ`; WSARecv writes into it |
| `CDBConnector` (src/DBConnector_test) | connection, result, retry count | connect, query, save query, disconnect | MySQL client library |
| `CSystemLog` (lib/System_Log.h) | `_LogNo`, `Time`, `t`, SRW lock, the log files | `Log`, `LogHex`, `LogSessionKey` | called from every thread |
| Profiler, CrashDump, APIHook (lib/) | statistics, hooks | begin/end, crash | called from everywhere |

What is hard, and what has to hold:

* **Life of a session.** A session is alive while `IOCount` is not zero. References are taken and given back by the
  accept thread, by workers, by every `SendPacket`/`Disconnect` and by outstanding overlapped I/O, in any order.
  `IOCount` must cover all of them, nothing may be released while a reference exists, a session must be released once
  and its slot reused only then, and a session whose connection is over must be released at last.
* **Sending.** Any thread may queue a packet; `SendFlag` elects one that may post a WSASend, the completion passes the
  right on. There must be one sender, no packet may stay behind, packets must go out in the order queued and live
  until they have been sent.
* **Failure.** Every WSASend and WSARecv may be refused, the queue may be full, the application may refuse the
  connection, the client may go at any time, `Stop` may come at any time.
* **Pools and containers.** Decisions are made from counters read outside the lock or the compare-and-swap; nodes are
  reused at once; the top is read again where what was read before is meant; a chunk is freed by whoever gives back its
  last block. A container must do what its sequential version does.
* **Buffers.** Positions wrap, the kernel writes into the ring buffer by itself, headers go in front of what was put.
* **The database client** goes on after errors that it does not look at; **the log** is dated by members all threads set.

The hazards are listed one by one, with their lines, in `PROJECT.json`.

## 2. Modules

| module | what it is |
|---|---|
| `LanServer.tla` | `CLanServer`, its threads, the application and the clients |
| `EchoService.tla` | abstract specification: what the application and the clients of the server see |
| `LanServerProps.tla` | type invariant, invariants, liveness and the refinement of `EchoService` |
| `LanServerProofs.tla` | TLAPS: type correctness of `LanServer`; `IOCount` covers every reference, is exact when none is given up uncounted, and the `Crash()` of `IODecrement` is out of reach |
| `LanServerSlotsProofs.tla` | TLAPS: when the application keeps no ids, a slot is released when nothing refers to it, a session has one sender, and every slot is accounted for |
| `LanServerServiceProofs.tla` | TLAPS: with the echo application the server implements `EchoService` |
| `LanServerPacketsProofs.tla` | TLAPS: with the echo application the reference count of every packet is right |
| `MCLanServer.tla` + 8 cfgs | the instances TLC checks |
| `MemoryPool.tla` | `CMemoryPool`, with its properties |
| `MemoryPoolProofs.tla` | TLAPS: the pool's invariants |
| `MCMemoryPool.tla` + 1 cfg | the instances TLC checks |
| `StackSpec.tla`, `LockFreeStack.tla` | an atomic stack; `CStack_LF`, with its properties |
| `LockFreeStackProofs.tla` | TLAPS: type correctness of `CStack_LF`, a lone popper is safe, and it implements the atomic stack |
| `MemoryPoolLF.tla` | `CMemoryPool_LF`, shown to implement `MemoryPool` |
| `MemoryPoolTLS.tla` | `CMemoryPool_TLS` |
| `QueueSpec.tla`, `LockFreeQueue.tla` + 1 cfg | a bounded queue; `CQueue_LF` |
| `LockFreeQueueProofs.tla` | TLAPS: how far `_NodeCnt` can pass `_MaxCnt`; between one enqueuer and one dequeuer, that it is the length and the queue is `QueueSpec`'s |
| `ByteQueue.tla`, `RingBuffer.tla` + 1 cfg | a queue of bytes; `CRingbuffer` with the receive that writes into it |
| `PacketBuffer.tla` | the buffer of a `Packet` |
| `DBConnector.tla` | `CDBConnector` and the program that uses it |
| `SystemLog.tla` | `CSystemLog` |
| `LibraryProofs.tla` | TLAPS: the invariants of the database client, the log, the packet buffer, `CMemoryPool_LF`, `CMemoryPool_TLS` and the ring buffer; that the ring buffer implements the byte queue and `CMemoryPool_LF` implements `MemoryPool` |
| `MCLibrary.tla` + 1 cfg | the library classes, each by itself, in one instance |

### LanServer

One action is one access to memory that threads share: an interlocked operation, a plain read or write of a session's
field, an operation on a queue or stack, a socket call or a callback. `th[t].pc` names the access thread `t` performs
next. So `SendPacket` is `Find`, `FindUse`, `FindID` (the three tests of `FindLockSession`), `Enqueue`, `PostSend`,
`SetFlag`, `Dequeue`*, `WSASend`, `EndCall`, `FreeMsg`; `IODecrement` is `EndPost`, `EndPostEmpty`, `EndCall` or
`EndEvent` by its place in the code, and goes on into `Release`, `Leave`, `Close`, `DrainQ`*, `DrainPack`*, `PushSlot`,
which are `SessionRelease`.

`th[t].held` are the references the thread has taken and has to give back: `"event"` (of the completion or of the
accept thread), `"call"` (of `FindLockSession`) and `"post"` (of `PostSend`/`PostRecv`). The code has no such variable;
it is what `IOCount` is compared with. `RecvOver` and `SendOver` of a session hold the operations that are outstanding
with that `OVERLAPPED`, each of which owns a reference too.

What the code really does is kept where it is surprising:

* `SessionRelease` passes the *addresses* of its two `IOChk` locals to `InterlockedCompareExchange64`
  (NetworkModule.cpp:755). The exchange therefore never happens, `UseFlag` is never cleared, and the function goes on
  unless the pair it read is zero in both halves. `Release` is that.
* `PostSend` dequeues before it compares `Cnt` with `SendbufMax` (690); clears `SendFlag` after `IODecrement` (704-705);
  leaves it set when WSASend fails (712-733).
* `SendPacket` returns from a full queue without giving anything back (152-157).
* `AcceptThread` releases a refused connection with its own reference still counted (293-297) and ends for good when
  no slot is free (265-270).
* `Stop` waits on `&Thread[0]`, which is not a handle; the wait fails at once and is no step of the model (113).

Abstractions: a connection is a number, which is its socket handle and the unique part of its `SessionID`; a request is
two units of the byte stream, so that a receive may end inside one; `SendQ`, `SendPack` and `emptySession` are atomic
(`LockFreeQueue` and `LockFreeStack` say how far they are); `GetUseSize` and the queue's capacity are the length of the queue. The kernel
is external: it accepts a call on a socket that is open and may refuse any call when `NoBufs` is set or the socket is not
healthy; it completes a receive with some of the data that has arrived, a send as a whole, either with zero bytes once
the connection is not healthy; the worker that dequeues a completion is chosen when it completes. A socket handle is
not reused by the system.

`RecvDone` takes over all that was received. In the code a receive that fills an empty buffer while `Front` is 0 loses its last
byte: `PostRecv` offers one byte more than `MoveWritePos` takes (NetworkModule.cpp:617-627, RingBuffer.cpp:158 and 351-359; run
`recvbytes`). It takes as many bytes in one go as the whole buffer has, which no run and no theorem
of `LanServer` says anything of; what the theorems say of the order of replies holds for clients whose requests do not fill it.
A `WSASend` posted before `CreateIoCompletionPort`, as an application thread with an old id can do (run `misrouted`), completes
without notice; of that the invariants cover the part that it may never complete, and the liveness properties are checked without
such threads.

### EchoService

Three kinds of events: a connection joins, at most `Capacity` present at a time; it leaves, once; replies are
sent to it, a growing prefix of the greeting and the answers to its requests. `ImplementsService` maps `joined`
and `left` to the calls of `OnClientJoin` and `OnClientLeave`, and `replies` to what WSASend was given.

### MemoryPool

`Alloc` is `Read`, `Count`, `Check` and then `Malloc`, `Grow` or `Pop`; `Free` is `Free`, `Push`, `Uncount`. The two
critical sections are one action each. `made` numbers the blocks, `inUse` are those users hold, `failed` counts the
`nullptr`s: a full pool of fixed size answers it with the count already taken, so that `GetAllocCount`, for which MemoryPool.h:204
promises the blocks in use, is too high from then on and later `Alloc`s fail although blocks are free. A thread that finds the list empty at `Pop` would follow a NULL pointer: it goes to `"fault"`. The
constructor does not initialise `m_iAllocCount`; `StartCounts` are the values it may have by chance. The interlocked
operations are 64 bits wide on 32-bit counters, which carries into `m_iBlockCount` only from a negative count; negative
starting values are outside the model. In a pool of fixed size the constructor does not end the list
either (the last `stpNextBlock` is not set); as the list is only followed when it has a block, `NoFault` is also what
keeps that word from being used.

### LockFreeStack

`Push` and `Pop` are one action per access to `*_pTop`, `_iUniqueNum`, `_lUseSize`, a node or the pool. `top` is the pair
the 128-bit compare-and-swap works on, `st[t]` the locals of thread `t`: `preNode` and `preUnique` are `pPreTopNode`, read
in two steps (in one order by `Push`, in the other by `Pop`), `node` is `pNode`, `live` the successor, which the arguments of
the exchange read from whatever is the top by then (LockFreeStack.h:132). `stack`, a history variable, are the nodes on the
stack. `_lUseSize` is read and written back without interlocking. `ImplementsStack` maps the stack to the `Data` of those
nodes and a call to the moment its exchange succeeds or, for a `Pop` that returns false, to its reading NULL. That moment
is the difficult one: the NULL may have been read long before the unique number.

`poppers` are the threads that call `Pop`; `LonePopperSafe` is about one. With two, the stack may be emptied between the
NULL test and the third look at the top, and `Live` follows NULL. The server pops `emptySession` from the accept thread
only and `SendPack` only as the sender, so `LanServer` may take both for atomic.

### MemoryPoolLF

The same loop around `CMemoryPool`'s counters. `Phase` maps a whole loop to the critical section of `MemoryPool`, and
`ImplementsLockedPool` is `MemoryPool`'s specification: what is proved of that module holds of this class,
as `LockedPoolImplemented` shows for every instance. `Alloc` has no NULL test at all; `NoBadTop` says that the counters alone keep it from a top that is
not a block.

### MemoryPoolTLS

`Alloc` is `FirstAlloc`, `LinkNode` (the thread's node into the list, lines 698-699, the lock commented out), `TakeBlock`
and, with the last block of a chunk, `Search`, `SeekPast`*, `Replace` (`Chunk_Alloc`). `Free` is `CountFreed`, then `FreeChunk`
or, when the chunk has been freed by then, `CompareFreed`, which may do either thing. Two uses keep the class from
harm, and the properties name them: one thread gives blocks back (`freers`), and first calls do not overlap (`apart`).
`OwnerKeepsChunk` needs neither. `free (this)` runs no destructor, so the array of blocks is never given back: no
property depends on it, and a block may be touched at any time.

### LockFreeQueue

One action per access again; `enqueuers` call `Enqueue`, the others `Dequeue`. `line`, a history variable, are the nodes
linked and not passed by the head. Three places depart from the algorithm of the literature, and are kept: the link is put
behind the tail as it is by then (118), the helping exchange compares the tail node's `Data` (113), `Data` is read after the
head has moved (157). `ImplementsFifo` is stated between one enqueuer and one dequeuer. More of either is not what the code
can promise: a second dequeuer may free and refill the node of which the first is to read the `Data`, and a second enqueuer
can leave the tail behind for good (run `lagtail`). `CountBounded` is stated for any number. `SendQ` has one dequeuer at a time,
the sender, and any number of enqueuers, so `LanServer`, where it is atomic, shows what the server does as long as two
`SendPacket`s of one session do not overlap inside `Enqueue`; `lagtail` shows what they can run into.

The first dummy is not from `_pMemPool`: the constructor takes it from `malloc` (LockFreeQueue.h:50), and `Free` of the pool reads
`Safe` behind its end (MemoryPool.h:185). Mostly it will refuse it, so that the node leaks; by chance it may not. `FreeCell` may
do either for that node, which is the only one that is dequeued with the number 0.

### RingBuffer and PacketBuffer

Calls are atomic: one thread at a time uses a session's `RecvQ`, and one fills a packet. `Offer` is what `PostRecv` hands to
WSARecv, two lengths from the positions at that moment, and `MoveWritePos` the completion: the kernel has written up to
those lengths by itself. Everything else waits meanwhile. The bytes of `Put` that go beyond the array would extend
`pBuffer`'s domain, which `RingTypeOK` forbids. `ImplementsByteQueue` maps the array to the bytes from `Front` to `Rear`.
It lets a call take fewer bytes than it was given, as `Put` does when there is no room and tells its caller. A receive has no
caller who could offer the rest again, so that a byte received beyond the room is lost is no matter of the refinement;
`EveryByteKept` is about it, and is violated.

A packet's buffer is not circular. `Fill` is the worker's `RecvQ.Get` into `GetBufferPtr` and `MoveWritePos`, the other actions are
the methods. `written`, `got` and `headers` are histories. `SentWhole` is what the other side gets, also when the
same packet is sent again: a second header in front of the first, which the echo server, whose packets are sent once,
never does.

### DBConnector

`main` of DBConnector_test.cpp, one action per call of the MySQL library. The library is external and fails when it likes.
`Retry` is the loop around `Connect` in `Query`: `_ReTry` is never reset, the statement is not sent again, and `Query`'s answer is
ignored by `main`. `mysql_store_result` may fail after a statement that was executed, which leaves NULL. The messages of errors
are left out, with the way they are copied: `StringCbCopyA` is given the length of a buffer that is not set yet
(DBConnector.cpp:41-42, 87-92), and what that does is not defined.

### SystemLog

`HeaderSetting` is `SetDate`, `NameFile`, `TakeLogNo`, `MakeHeader`; then the lock and the two writes. `Turn` lets a month pass.
`Time` and `t` are members that every thread sets, so `FiledByDate` is stated for one thread that logs.


## 3. Runs

| run | instance | result |
|---|---|---|
| `echo` | the echo server, 1 slot, 2 workers, 2 connections with 2 requests each, refused I/O, `Disconnect` from `OnRecv` | `TypeOK`, `RefsExact`, `ReleasedAlone`, `OneSender`, `PacketsCounted`, `SlotsAccounted`, `LeavesOnce`, `ImplementsService` hold |
| `app` | 2 connections in one slot, one after the other, an application thread that calls `SendPacket` or `Disconnect` with the id of either, joins accepted or refused, `SendQ` of length 1, `SendbufMax` 1 | `RefsCovered`, `NoCrash` hold |
| `live` | fair scheduling, 1 connection, wrong headers, refused I/O, `Stop` at any time | `SessionsEnd`, `ForcedSessionsEnd`, `StopReturns` hold |
| `stale` | an application thread uses an old id once | `LeavesOnce` is violated |
| `lostwakeup` | two requests handled at once | `NoEchoLeft` is violated |
| `overflow` | `SendQ` of length 1 | `ForcedSessionsEnd` is violated |
| `misrouted` | an application thread uses the id of the connection before while the slot is filled in | `SentToAddressee` is violated |
| `fullbuf` | `SendbufMax` 1, two requests | `EchoesSent` is violated |
| `pool` | 3 threads, pools that grow and of 1 block, counts that start at 0 or 1 | `TypeOK`, `NoFault`, `OneOwner`, `Accounted` hold |
| `library`, stack | `CStack_LF`, any threads popping | `StackTypeOK`, `LonePopperSafe`, `ImplementsStack` hold |
| `library`, pools | `CMemoryPool_LF`; `CMemoryPool_TLS` | `NoBadTop`, `ImplementsLockedPool`; `OwnerKeepsChunk`, `LoneFreerSafe`, `ApartSafe` hold |
| `library`, queue | `CQueue_LF` | `CountBounded`, `CountLags`, `ImplementsFifo` hold |
| `library`, buffers | `CRingbuffer`; `Packet` | `RingTypeOK`, `ImplementsByteQueue`; `PacketTypeOK`, `ReadInOrder`, `SentWhole` hold |
| `library`, database and log | `CDBConnector` with its `main`; `CSystemLog` | `FaultsOnlyWithoutRetries`, `NoResultLeaks`; `RecordsWhole`, `EveryRecordOnce`, `FiledByDate` hold |
| `lagtail` | `CQueue_LF`, 1 enqueuer and 1 dequeuer or 2 enqueuers, fair | `LaggingTailIsPushed` is violated |
| `recvbytes` | `CRingbuffer` of 4 bytes | `EveryByteKept` is violated |

The seven violations are disagreements of the code with its own comments or with the usage notes of the stress client;
`PROJECT.json` quotes the lines.

*Bounds.* Two workers are enough for every pair of steps on one session to interleave, the accept thread is a third
party, the application thread a fourth. Two connections and one slot make the slot be reused by a later
connection while threads of the first still run. Two requests make echoes collide at `SendFlag`. `RecvMax` 3 makes a
request arrive in parts and the buffer run full. `MaxCalls` bounds the calls of application threads, `MaxConns` and
`MaxMsgs` the environment. With one connection the `live` run has every failure of I/O at every point, which is what its
properties depend on. With one slot and two connections the accept thread of `echo` may find
no slot and end, and `FindLockSession` in `app` may meet the id of another session. `RefsCovered`, being `>=`, does not see a
reference that leaks: that is `RefsExact`, in `echo`, where no `SendPacket` meets a full queue and no connection is refused. Run
`overflow` shows the first of these two leaks. The second, a refused connection (293-297), keeps the reference of the accept
thread: the next session in the slot is never released. The model has this path and `app` takes it, but no property there
catches the leak. The instances of the server have one slot; the theorems have any number of them.

In the pool, `MaxCount` stops new `Alloc`s, not those under way, so the counts reach `MaxCount + 2`; the number of blocks and threads is what the theorems generalise.

*The run `library`* has each class in turn; `subject` says which, the others stay as they were made. The classes share
one pair of threads and one pair of values, so that TLC may take states that differ in the names of these, or of the stack's
nodes, for one. Stack: 2 threads, 2
nodes, 2 values, unique numbers to 5, any threads as poppers. Two nodes are enough for a node to be popped, freed and pushed
again under a thread that still compares with it; the theorems hold for any number. `CMemoryPool_LF`: 2 threads, no
block or 2 at the start. Queue: 2 clients in any roles, 3 nodes, length 2, so that it is full, empty, and the dequeuer frees
the node that the tail points to. Ring buffer: 4 bytes, every content, every position of the wrap, requests of up to one
byte more than the capacity. `CMemoryPool_TLS`: 2 threads, chunks of 2 blocks, 3 chunks and the ones under way. Packet: room of 5 bytes
for headers of 2, as in the code, so that a third header is refused, and a field of 3. Database: 2 statements, 3 queries, 2
rows, 2 reconnects, an error at every call. Log: 2 threads, 3 records and those under way, the turn of a month.

`MaxUnique`, `MaxNumber`, `MaxTag`, `MaxCount`, `MaxChunks` and `MaxLogNo` stop new calls, not those under way.
In `lagtail` `MaxTag` 3 is enough: an enqueuer links behind a newer tail, its exchange of the tail fails, and the next one
spins. In the `echo` run no more than `SendbufMax` packets are ever queued at once; with fewer, `PostSend` takes a packet out with a
full `buf[]` and leaves it (690): run `fullbuf`, where one buffer stands for 100. A server meets it under load only, when more than
100 packets of a session have been queued while one WSASend was under way, as with the `OverSendCount` of the stress client.


*Deadlock* is not checked: the environment may stop, and so may a server with nothing to do.

*Fairness.* A thread that can run runs at last (weak fairness of each thread's actions taken together); a worker
waiting in `GetQueuedCompletionStatus` gets a completion if there is one; the waits of `Stop` end when what they wait
for has. `Accept`, `StopListen` and everything clients and application threads start are not fair. The liveness
properties are stated up to the start of `Stop`, which ends the workers without waiting for the sessions. In
`FairQueueSpec`, of the run `lagtail`, a client that is in a call runs; that calls begin is not assumed.

## 4. Proofs

`MemoryPoolProofs` proves the four invariants of the `pool` run for every finite set of threads, every pool size and
every non-negative starting count. `NoFault` is not inductive: that `Alloc` does not find the list empty depends on what
the counters mean. `IInv` adds

* `Accounted`: `m_iAllocCount` is the start value, the failed calls, the blocks in use and the threads between
  `Count` and the end of their call; `m_iBlockCount` is the free blocks, those in use and those being pushed;
* `Seen`: a block count read earlier is not above the present one;
* `EnoughFree`: there are at least as many free blocks as threads sent to take one;
* `OneOwner` and `Made`, which make the sizes in `Accounted` change by one when a block changes hands.

At `Check` a thread with `seen >= AllocCount` has
`Len(top) + |inUse| + pushing >= BlockCount >= seen >= AllocCount >= |inUse| + pushing + popping + checking`, so
`Len(top) >= popping + 1`: there is a block for it too. The lemmas `NumberStep` and `NumberUnion` count threads by the
step they are at.

`LanServerProofs` proves `TypeOK` of `LanServer` (`TypeCorrect`), and `RefsCovered` and
`NoCrash` (`ReferencesCovered`, `CrashNeverReached`), for every number of slots, threads, connections, requests and
calls, every capacity, and every answer the application may give. `RefsCovered` is not inductive: an `IODecrement`
lowers `IOCount` whether or not the thread has a reference to give back, and `FindLockSession` raises it in the slot
that an id names, not in the one it is going to work on. `RefsInv` adds

* `Holding`: what `held` contains is a function of where the thread is, or of where it will be when the release it is
  in has ended. It gives every `IODecrement` its reference, and an application thread none between its calls;
* `Naming`: a slot that has been used carries the id of a connection that was accepted into that very slot; ids never
  become unused again, operations are outstanding only on such slots, and an id that a thread looks up names, when it
  is the accept thread or a worker, the slot the thread works on. So a thread that holds a reference on a slot takes
  the next one on the same slot, and the sum over `held` changes by one where `IOCount` does.

A step of one thread changes `Holds` of its old and its new slot only (`HoldsChange`); five lemmas say what that means
for a reference that is taken, given back, handed to the kernel, taken over from it, or given up uncounted (`RefsTaken`,
`RefsGivenBack`, `RefsPosted`, `RefsFinished`, `RefsKept`), and each action is one of those. The last is why that
theorem is `>=`: the overflow of `SendPacket` and a refused connection give a reference up without `IODecrement`. They are
the only places: the lemmas show of every step but those two that it keeps the equality (`ExactKept`), and
`ReferencesExact` is `RefsExact` for every application that refuses no connection, in every behaviour in which no
`SendPacket` meets a full queue (`RoomToQueue`, a condition on the behaviour, which the run `echo` meets by its
`QueueMax` and run `overflow` does not).

`NoCrash` does not say that a session is released once: after a release the slot is still `UseFlag`, and the reference
that an application thread takes with an old id releases it again (run `stale`). It says that the count stays right even
then. The kernel's part in the theorem is that a completion is delivered once for every operation it accepted.

`LanServerSlotsProofs` proves `ReleasedAlone` and `OneSender` (`SlotReleasedAlone`, `SessionHasOneSender`) for every
instance with `Callers = {}`, that is, when the application calls `SendPacket` and `Disconnect` from its callbacks only.
The assumption is needed: an application thread with an old id is how run `stale` breaks `LeavesOnce`, and `FindLockSession`
would take a reference on a slot another thread is releasing. `SlotsInv` adds to `RefsInv`

* `FreeSlots`: a slot is in `emptySession` once, and then nothing is outstanding with it and no thread works on it;
* `OwnedSlots`: a thread that fills its slot in or releases it is alone with it. The accept thread comes by it from
  `emptySession`; a release begins with the reference that was the last (`LastReference`: with `IOCount = 1` and
  `RefsCovered`, the thread's own reference is all there is), and a worker comes to a slot only by a completion, so by an
  operation that is outstanding with it;
* `ClosingSlots`: a thread that releases has nothing left to do in its handler, so it holds nothing on the slot it puts
  back, and the slot it puts back is its own, because the id in it names it;
* `OneSender` itself: a sender, or its `WSASend`, comes with `SendFlag` going up and leaves with it going down
  (`SenderStep` for one slot and one thread); the accept thread, which clears the flag of the session before without
  asking, does so while by `OwnedSlots` there is no sender.

`SlotsAccounted`, that a slot is in `emptySession` exactly when nobody has it, needs the converse of `FreeSlots`: a count
that has come to zero must get its slot back. `SlotsAccountedFor` is proved for an application that also refuses no
connection; a refused one is put back with its `IOCount` still 1 and is released again by the next `IODecrement` there.
`AccountsInv` adds to `SlotsInv`

* `UsedSlots`: a session that a thread works on or that has outstanding operations has `UseFlag` set, so the test with
  which `SessionRelease` may turn back never does, and the slot is pushed;
* `ZeroCounts`: `IOCount` is zero in exactly the slots that are free, taken but not filled in, or being released;
* `SlotsCounted`: `_Use_Session_Cnt` is what is missing from `emptySession`, but for the threads that have done one half of
  the change only.

`LanServerServiceProofs` has two theorems. `CallbacksLeaveOnce` is `LeavesOnce`, for every instance whose application calls
the server from its callbacks only and refuses no connection (`Admits`), whatever else they do and however many requests there are; run
`stale` shows that an application thread that keeps an id breaks it. `ServiceImplemented` is `ImplementsService`, for every number of
slots, workers, connections and requests, under `Echoes`: the application is the one of IOCP_ECHO_ClassVer_LF.cpp (it greets, echoes, may disconnect, and
has no thread that uses ids of its own), and `MaxMsgs < SendbufMax`, so that `buf[]` takes the greeting and all the
answers of a client. The last is needed: `PostSend` takes a packet out of the queue before it finds `buf[]` full (690), and that
reply is never sent. Nothing else is assumed: any I/O may be refused, `SendQ` may be full, headers may be wrong, clients may
leave and `Stop` may come at any time. `ServiceInv`, which holds under `Admits` already and speaks of the order of replies only when
`Echoes` holds, adds to `AccountsInv`

* `Stages`: a connection is present exactly while its id is in its slot and the slot is neither free, being filled in nor
  being emptied. So two that are present have different slots, and the accept thread, when it lets one join, has a slot for
  itself: by the pigeonhole principle fewer than `SessionMax` are present (`RoomToJoin`). `Leave` comes with a release,
  which is alone with its slot, so it comes once: this is `CallbacksLeaveOnce`;
* `Sockets`: the socket of a slot is the one of the connection whose id it has, and so is what receives are outstanding with;
* `OneReader`: one thread at a time, or one outstanding receive, is on its way through the requests of a session, so
  they are read and answered in order although any worker may handle any completion;
* `OwnCalls` and `Buffers`: a callback answers the connection it was called for; a slot is given out with empty queues and a
  sender begins with an empty `buf[]`, so nothing of an earlier connection is sent to a later one;
* `Wires` and `Answers`: under `Echoes`, a client has been sent the replies 0, 1, 2, ... and none without a request. While the socket is
  open, there is a number `m` such that what was sent, what is in `buf[]` and what is in `SendQ` are the replies
  below `m` (`Outgoing`), and what is in `RecvQ` and under way are the requests from `m` on (`Incoming`). When the socket is
  shut, replies may be lost, but then no more are sent: what the client has stays a prefix.

`StepShown` maps the steps: the call of `OnClientJoin` is `Join`, the one of `OnClientLeave` `Leave`, a `WSASend` that is accepted
`Reply` with what `buf[]` holds, a request of a client `Ask`, and every other step leaves the variables of `EchoService` as they are.

`LanServerPacketsProofs` proves `PacketsCounted` (`EchoPacketsCounted`) for every number of slots, workers, connections and
requests, under `Roomy`: `Echoes`, and `MaxMsgs < QueueMax`, as a full `SendQ` makes `SendPacket` count a packet that nobody
frees (152). By `Lines` a session is never given more than the greeting and the answers to all requests, each once, so
neither `SendQ` nor `buf[]` is ever full (`LineBound`, `LineShort`). `PacketsInv` adds to `ServiceInv`

* `Users`: a packet is used by one thread, which is in `SendPacket` or back from it, and `Counted`: `refs` is 1 for that use, 1
  for the place in a session's line of `SendPack` and `SendQ`, or their sum. Within `Roomy` no packet is counted more than twice,
  so the sum over all queues is a case distinction and needs no induction;
* `Lines`: a line holds packets of its session only, each once; so a packet is in one line, at one place;
* `Handled`: a packet that a thread is about to queue is not in a line yet;
* `Packs`: the kernel sends what is in `SendPack`, a sender has the same in `buf[]`, and without `SendFlag`, and in a slot that is
  free or being filled in, `SendPack` is empty. So nothing in it is left behind when the flag or the id is written anew;
* `Fresh`: the replies from the `m`-th on were not made, where the `m`-th request is the first in `RecvQ` and under way, so that a
  packet is new when the application allocates it. In the code it is new because `Packet::Alloc` says so; the
  model names it by its connection and request, and has to show that this is as good.

`LockFreeStackProofs` proves `StackTypeOK`, `LonePopperSafe` and `ImplementsStack`
(`StackTypeCorrect`, `StackPopIsSafe`, `StackImplemented`) for every number of threads, nodes and values. The
inductive invariant `SInv` consists of the types and of

* `Listed`: `stack` is the list that starts at the top and goes on along `pNext` to NULL, without repetition;
* `Owned`: a node is in the pool, on the stack, or with one thread that has taken it from one of the two;
* `Fresh`: the unique number of the top, and every one that a thread has read, was given out; no two threads that are going
  to swap carry the same one, and none that of the top: so the number is new whenever an exchange succeeds;
* `Current`: while the top still has the number a thread has read, what the thread has read since is still true: the
  node is the top, the successor is its successor, and for a push the node's `pNext` is the top. This is what the repeated
  reads of the top rest on: they may be of another top, but then the number differs and the exchange fails. It is also
  where the order of the two reads of `pPreTopNode` matters;
* `Lone`: a lone popper that has read a node has a stack that is not empty.

`StackPopIsSafe` is `Lone` at `Live`. For `StackImplemented`, every action but five is a stutter or the beginning or end of a call.
The successful exchange of `Push` puts `Data` of its node in front, that of `Pop` takes the first value, because by `Current`
it swaps in the second node of `stack`; the value is in the node until `GetData`, and `Owned` keeps anybody else from writing to
it. A push writes to `Data` of a node that is not on the stack, and a freed one is not on it either.

`LockFreeQueueProofs` proves `CountBounded` (`QueueCountBounded`) for every number of threads, cells and values. `CountInv`
adds that only enqueuers are admitted, that is, between the test of `_NodeCnt` and counting their node: the enqueuer whose test
finds room is not among them, so before it is admitted the admitted are fewer than the enqueuers, and `_NodeCnt` plus the
admitted stays within `_MaxCnt` plus the enqueuers.

It also proves, for one enqueuer and one dequeuer and every `_MaxCnt`, number of cells and values, `CountLags`
(`QueueCountLags`) and `ImplementsFifo` (`QueueImplemented`). The invariant `FifoInv` has, beside the types, `Follows`: the
links go from the dummy along `line` to NULL, and no node is there twice; `Parted`: a node is in the pool, in the queue or with
the one who has just taken it from either; `AtTail`: the tail is the last node or, while the enqueuer is about to move it, the
one before, so the helping exchange is never reached and neither exchange of `Enqueue` fails; `AtHead`: nobody but the dequeuer
moves the head, so its next is the first of `line` still; and `Counted`, which gives `_NodeCnt` by the length and the places of
the two. While the enqueuer is about to move the tail, the node it still points to may have been freed and even be the pool's
again: `AtTail` says nothing of it but its address, and nobody can take it out of the pool but the enqueuer. The link
is the moment of an Enqueue, the move of the head that of a Dequeue; the value of a dequeued node is in it until it is read,
since by `Parted` and `AtHead` the dequeuer's new dummy is a node of the queue, which no call writes `Data` to.

`LibraryProofs` has the other classes.

* `CDBConnector`: `DBInv` says where the handle is open and where `_pSqlResult` is a result that was not freed. `FaultsNeedRetries`
  and `ResultsFreed` are what it says at the statements that use them.
* `CSystemLog`: `LogInv` is the lock (`Locked`), the header that is last in a file while its text is to come (`HeaderLast`), that a
  number is with one thread or once in one file (`Numbers`), and, for a lone logger, that it dates a record by one look at
  `t` (`OneLook`). Hence `RecordsAreWhole`, `RecordsAreOnce` and `RecordsAreDated`.
* `Packet`: `Positions` gives the positions by what was put, read and sent, `Held` the contents of the buffer by the
  same histories. Hence `PacketStaysInside`, `PacketReadsInOrder` and `PacketIsSentWhole`, for every size.
* `CMemoryPool_LF`: `NoBadTop` and `ImplementsLockedPool` (`NeverFollowsBadTop`, `LockedPoolImplemented`), for every finite set
  of users, size of the pool and starting count. `Alloc` has no test for NULL: what keeps it from one is the argument of
  `MemoryPoolProofs`, so the invariant `LFInv` takes over its `IInv`, for the state that `Phase` maps to, and adds what the
  stack has: `Linked` (the links follow the list), `Fresh` (of the numbers) and `Current` (what was read is true while the top
  has the number that was read). Every step is then one of `MemoryPool` or a stutter, and its `NextIInv` is used as it stands.
* `CMemoryPool_TLS`: `Counting` says that a chunk has given out as many blocks as are out and have come back, which makes
  `FullCnt` reach the size of the chunk with its last block only; `Owning` that a chunk has one owner. That is
  `OwnersKeepTheirChunks`. `OneFreerIsSafe` adds that nobody else can free the chunk the freer is about to compare;
  `ApartAllocsAreSafe` that every linked node is reached from the top of the list, and the one a thread looks for from where it
  looks (`Reaches`, along `next`).
* `CRingbuffer`: `RingInv` says beside the types that a receive that is outstanding was offered exactly the room there is now:
  nothing moved a position since. Hence `RingStaysInside`; `ByteQueueImplemented` shows of each call, by the cases of its wrap, what
  it does to the bytes from `Front` to `Rear`.

Only model-checked: the liveness properties, as fairness and `ENABLED` are out of the prover's reach. Everything else
the passing runs check is a theorem, under the assumptions named above.


## 5. Not modelled

* `Start` after `Stop` and failures of `Start`; the TPS counters, which are only printed.
* `CQueue_LOCK`, which only the test driver of the queues makes: every call is one critical section. The destructors of the
  containers and pools, which run when nobody else does. The `Safe` mark of
  blocks (MemoryPool.h:185): it matters for a block freed twice, which the mark, never reset, does not notice, and for the first dummy
  of `CQueue_LF`, which no pool has made; what it does to that is in `FreeCell`.
* A negative `m_iAllocCount` before the first `Alloc` (MemoryPool.h:137).
* `Query_Save`, `Disconnect` and `SaveLastError` of `CDBConnector`, and `operator =` and the copying constructor of `Packet`: no
  program calls them.
* The profiler (compiled out, Profiler.h:85), crash dumps and API hooks, which patch the running image; the test drivers.
* The MySQL client headers under `src/DBConnector_test/DBConnector_test/MySQL`: third-party declarations without behaviour.
  Of the about 22000 lines of that directory more than nine tenths are these headers, so a figure for the share of it
  that is modelled says little: what the repository itself has there is `DBConnector.cpp`, `DBConnector_test.cpp` and a copy of
  lib/, of which the database client and the log are modelled.

## 6. Plan

What is left:

1. `LanServer` over `LockFreeQueue` in place of its atomic `SendQ`, with two `SendPacket`s of one session inside `Enqueue`.
2. `ImplementsService` and `PacketsCounted` for connections with more requests than `buf[]` takes replies, where the bound
   is not on all requests of a client but on those that wait for their replies; and with application threads.
