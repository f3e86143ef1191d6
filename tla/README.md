# Formal models of the zillians common library

TLA+ models of the core of this repository (`include/core`,
`include/threading`, `include/utility` and their sources): its concurrent
queues, dispatcher, worker and allocators, its buffer, and its graph utilities,
with the TLC configurations that check them on small instances, and TLAPS proofs of the results that hold
for every instance. `PROJECT.json` lists the components, the runs, the mutants
that show each property can fail, the lines every definition was translated
from, the hazards, the findings and the theorems.

Run a model with `tlc -config <file>.cfg <MC module>`, a proof with
`tlapm <module>.tla`.

## 1. Inventory

The library is a collection of C++ building blocks. These carry its own logic:

| component | state | operations | interacts with | hard parts |
|---|---|---|---|---|
| `AtomicQueue`, `AtomicPipe` (core/AtomicQueue.h) | chunks of N cells, begin/back/end, one spare chunk; pointers w, f (writer), r (reader), c (shared, CAS) | write, unwrite, flush, read | one writer and one reader thread; used by Dispatcher | lock-free, compares addresses of recycled cells |
| `Dispatcher`, `DispatcherThreadContext`, `DispatcherDestination`, `DispatcherThreadSignaler` (threading/) | a pipe per pair of contexts, a 64-bit bitmap and a semaphore per context, attached flags | create / destroy context, write a batch, blocking or non-blocking read | AtomicPipe, Atomic.h, Semaphore | message published and announced in two steps; wait announced and begun in two steps; contexts reuse ids |
| `ConcurrentQueue`, `ConditionVariable` (core/) | std::queue, mutex, condition variable | push, pop, timed pop, clear (signal, wait, timed_wait, reset) | used by Worker | notification after unlock, timeouts, spurious wakeups |
| `Worker`, `WorkerGroup`, `GlobalWorker` (core/Worker.h) | io_service queue, table of conditions, queue of free slots, cancellation flags | post, dispatch, async, wait, timed_wait, cancel, stop | ConditionVariable, boost::asio, TBB queue | slots are recycled while a client still waits; cancel and exceptions |
| `AtomicBoundedQueue` (core/) | ring of cells with sequence numbers, two positions | push, pop | any threads | lock-free, unsynchronised data guarded by the sequence |
| `FragmentFreeAllocator` (core/) | list of blocks, free list, allocation handles | allocate, deallocate, defragment | its user, through handles | splitting, merging, moving live blocks |
| `ScalablePoolAllocator` (core/) | per-thread bins, blocks with private and public free lists, mailboxes, stacks of empty blocks, large chunks | allocate, deallocate, thread exit | all threads | frees from foreign threads, memory exhaustion, thread-local cleanup |
| `Transaction` (core/) | list of actions, program counter, state | next, rollback, run, wait | futures and threads | rollback against execution in progress |
| `Buffer` (core/) | memory, read and write position, their marks, circular or not, owned or not | construct, copy, move, read, write, skip, mark, rewind, crunch, resize, append, typed read and write, `probeSize` | everybody; also one writer and one reader thread | positions at the end of circular memory, growth, values that lie across the end |
| `IndirectGraph` (utility/GraphUtil.h) | an adjacency list, and maps from the caller's references to its vertices and edges | add, remove, set, get, clear, copy | used by DependencySolver | four structures changed one after the other |
| `DependencySolver` (utility/) | an indirect graph, a group flag per node | add and remove nodes and dependencies, compile orders | IndirectGraph | the flags outlive a call |
| `JoinFunctionModule` (threading/) | a tree of join nodes, the next port to hand out | construct, getNextInputPort | tbb::flow | an odd number of ports on any level |
| `ContextHub`, `ObjectPool`, `Singleton`, `AdaptiveWait`, `ThreadCollisionDetector`, `InvertedArray`, `BiMap`, `Visitor` | small tables and counters | see the headers | | ownership, reuse, limits |
| utilities (`utility/`) | none | text, bits, graphs, archives, crypto | | pure functions, platform wrappers |

What makes them correct: a pipe delivers what was flushed, once and in order,
and never says "empty" when it is not; the dispatcher never forgets a message
and never sleeps on one; the queue never lets an element and a sleeper coexist;
the worker's synchronous calls return, and after their handler; the bounded
queue keeps its cells exclusive; the allocators hand out disjoint live memory
and lose none; a buffer holds what was written and not read, and a value comes
back as it was written; the graph and its reference maps agree, and an order of
dependencies is complete and right; a join runs its function once a round.

## 2. Plan

In this order; 1 to 11 are done.

1. `SpscPipe`, `AtomicPipe`, `ChunkedPipe`: what the pipe promises, the
   lock-free algorithm over positions, the same over recycled memory. Each
   implements the one before.
2. `Dispatcher`: composes pipes (by the promise of `SpscPipe`), bitmaps and
   semaphores.
3. `ConcurrentQueue`: also the `ConditionVariable` of the worker.
4. `Worker`: composes the condition table with the service queue.
5. `AtomicBoundedQueue`.
6. `Arena`, `FragmentFreeAllocator`: what an allocator over one pool promises,
   and the linked lists that implement it, with defragmentation.
7. `Transaction`: its calls against the runs they start.
8. `PoolMemory`, and on top of it `ScalablePoolAllocator`: large chunks and the
   block area, then blocks, bins, public lists and mail boxes of threads that
   come and go.
9. `BufferOps` (the operations as functions), and on top of it `Buffer` (its
   clients), `BufferCodec` (typed values) and `SpscBuffer` (two threads).
10. `IndirectGraph`, and on top of it `DependencySolver`; `JoinFunctionModule`.
11. Proofs: the pipe on both levels, the dispatcher, the queue, the worker, the
   bounded queue, the transaction, the pool's memory and the buffer (section 6).
12. Left: `WorkerGroup`; `BiMap`, `ObjectPool` and `ContextHub`; the pool's
   statistics and several size classes; `ThreadLocalBufferWrapper`.

## 3. Modules

### SpscPipe

The promise of a pipe between one writer and one reader: `staged` messages, of
which a prefix is `complete`; `Commit` (flush) makes that prefix `visible` in
one step; `Take` (read) delivers in order. `Unstage` (unwrite) takes back only
what is not complete.

### AtomicPipe

`AtomicPipe::write`, `unwrite`, `flush`, `check_read`, `read`. A cell is its
position in the order of pushes, 0 is NULL, and `queue` keeps the pushed values.
`w`, `f`, `r`, `c` are the class's pointers as positions. `flush` is one step
when the compare-and-swap succeeds (`flush_cas`) and two when the reader is
asleep (`flush_asleep` stores c and w; the reader can run in between). A call of
`read` is `check_read` when nothing is prefetched, then `read`; the failing call
ends after `check_read`. w and f belong to the writer and r to the reader, so
merging their updates with the step on c loses no interleaving.

### ChunkedPipe

The same pipe on `AtomicQueue`'s memory: chunks of N cells with `prev` and
`next`, `begin`, `back` and `end` as pairs of chunk and index, and
`spare_chunk`, exchanged by both threads. `malloc` returns any free block and
`free` forgets its content; every access is checked against `heap` and sets
`fault` when it is not allocated. `push` and `pop` at the end of a chunk are
split at the exchange of `spare_chunk`. The mapping to `AtomicPipe` turns
addresses into positions (`Pos`).

### Dispatcher

One bitmap, semaphore and reader per context and one writer per context.
`write` is `DispatcherDestination::write` up to the flush (a whole batch, one
step by the promise of `SpscPipe`); `signal` is `bitmap_btsr`; `post` the
semaphore. Reading is `check` or `poll` (`bitmap_xchg`, `bitmap_izte`),
`poll_wait` and `poll_xchg` after sleeping, one `scan` step per pipe read, and
`bitOr`. A message is its number in its pipe: `sent` and `taken` count them.
`createThreadContext` makes a new signaler on old pipes; `orphan` remembers
which sources had messages waiting then. The code does not protect a context
against being destroyed while others write to it, so the model assumes that its
users do not.

### ConcurrentQueue

One step per critical section; `push` has a second step, `notify_one`, after the
unlock, and a woken waiter a step `resume` in which it tests the queue again.
`timeout` may strike a waiter that is asleep or already notified, `spurious`
wakes anyone. `ConditionVariable` is this queue.

### Worker

`slots` is the queue of free keys, `conditions` the pending signals of each
condition, `jobs` the io_service's queue. A blocking call takes a key and queues
its handler in one step (what happens in between is invisible to others), then
waits; `async` also resets the condition. A worker thread takes a handler
(`run`), tests the cancellation flag (`wrap`), runs it (`handler`, or
`handler_throws`), signals, and gives the key back. `scenario` is chosen in the
initial state and never changes: which clients and threads there are, how many
calls are made, and which operations they use. Clients are threads outside the worker, handlers do
not call the worker.

### AtomicBoundedQueue

Every load, compare-and-swap and store of `push` and `pop` is a step, and so is
the access to the data. The compare-and-swap may fail spuriously. Positions do
not wrap; orderings are sequentially consistent (the build is for x86).

### Arena and FragmentFreeAllocator

`Arena` is the promise: disjoint extents in a pool, a request refused only when
no contiguous gap fits, compaction in order. `FragmentFreeAllocator` keeps the
code's objects: `heap` holds the `FragmentBlock`s with their four links, and the
two heads, the map, the `FragmentPointer`s (`data`) and the `MutablePointer`s
(`handle`) are variables of their own. allocate, deallocate and the
`FragmentFreeOperator` hold the lock throughout and are one step each;
deallocate has the code's four cases (`MergeBoth`, `MergeLeft`, `MergeRight`,
`MergeNone`); the operator is a fold of `Sweep` over the blocks. Clients may copy
a `MutablePointer`, and addresses are reused, so a copy can outlive its
allocation. The destructor frees what the block list holds (`Destroy`), or fails its
assertion that the map is empty (`DestroyAsserts`). Sizes are counted modulo `SizeLimit`. The bytes of the pool are not
state: `Swept.from` says where each byte of the pool was before the operator ran.

### Transaction

`mProgramCounter`, `mRunLock` and `mResult` are the class's members, `length` is the
length of its list, and `done` counts how often each action's changes are in the
transaction state: as in the tests, an action adds and its rollback routine takes
away, whether there is something to take away or not. `off` collects the actions
that rollbacks put out of step with the counter: one that was not executed when
`rollback` began with it, those undone before a routine threw out of `rollback`, and
those whose routine threw in `act_throws`. A run is a call of `run()`: `queued` before the
lock, `test` at the loop condition, `call` at an action, `goOn` or `pause` when the
action has returned and is not yet counted, `end` after the loop. The steps of a
run interleave with the calls of one caller, of which `next` and
`waitForCompletion` wait in `assigned` and `get`. `std::async` may start the run
or defer it, and the future's assignment waits for the run it replaces or drops
it. `next()` reads and writes the counter without the lock: after it stored -1
a read in `run()` yields that or the value `run()` had stored (`Seen`). An action
that throws has made its changes.

### PoolMemory

The memory of `ScalablePoolAllocator` in words: `mBlockAllocPtr` grows from the
bottom in big blocks, `mBumpPtr` falls from the top in large chunks, and freed
large chunks are in `mLargeFreeList`, in address order. Pointers count modulo
`AddressLimit` and the pool begins at `Base`: `Lowered` is the code's subtraction, which
wraps around for a request that is large enough (`Wraps`), and `overrun` says that
such a request was granted, after which the model stops. `allocateLarge`,
`deallocateLarge` and `allocateBlocks` hold `mPoolLock` and are one step each.
`large` is what clients hold, `bigBlocks` what the small chunks live in.

### ScalablePoolAllocator

The small chunks. `block` holds the code's block headers (owner, private and
public free list, the next-privatizable link), `bin` the bins with their list of
blocks, active block and mail box, `mBins` each thread's thread-local bins,
`mGlobalBin` and the stacks the blocks nobody owns, and `pc` where each thread
stands. A step is one critical section with what the thread did alone before it:
allocation goes through the active block, the mail box, the global bin, the
stack of free blocks and a new big block in the code's order; a foreign free
pushes the chunk on the public list, links the block and mails it in three
steps; an exit closes or waits for each block and gives the bins away. One size
class; `GetIndex`, which chooses the class, is compared with its specification
on all tables of up to 32 sizes (`BinFits`, an assumption TLC evaluates).

### BufferOps, Buffer, BufferCodec, SpscBuffer

`BufferOps` has each operation of `BufferBase` as a function from a buffer
before to a buffer after: `mReadPos`, `mWritePos`, their marks, `mOnDemand`,
`mReadOnly` and the memory `cells`. Assertions of the code are preconditions.
`Buffer` lets clients use buffers in any order, and keeps for each what the
client knows: the cells it may go back to, those it has still to read, and the
marks. Its clients keep to more than the assertions in four places, because the
code does not check them and what follows is memory nobody wrote: they read no more than
`dataSize()` of a plain buffer, rewind and return to marks only inside what the
buffer holds, and call `zero` and the stream operator only where the memory
reaches. `append` of a wrapped circular source is not one of them: it copies what
lies behind the memory, which is `Junk` here. `BufferCodec` has `write`, `read` and `probeSize` of a value by the kind
of its type: integers (little-endian), bool, string, wstring, containers, maps,
pairs, arrays, error codes, nested buffers and serializable structs. `SpscBuffer` is
the circular buffer between two threads with a step for every load and store of
a position, as `BufferTest` uses it.

### IndirectGraph, DependencySolver, JoinFunctionModule

`IndirectGraph` is the adjacency list with its four parts (`vertex`, `edge`,
`vmap`, `emap`) as a value, with parallel edges (`multi`: listS, as in the class's
example and tests) or without (setS, as in the solver); calls return the graph and
whether they threw. A history variable adds up what the caller asked for, and which
references `remove_edge` of parallel edges leaves behind (`stale`). `DependencySolver` has a
graph, the flags and the last `answer`; `boost::topological_sort` is any
topological order of the graph, or a refusal when there is a cycle.
`JoinFunctionModule` builds the levels of joins with the code's rule for an odd
one left over, hands out ports, and passes messages; tbb::flow's nodes are
external and hold counts of messages.

`MCServices` puts these, `ConcurrentQueue` and `Transaction` side by side: a behaviour is of one
of them. They do not interact.

## 4. Runs

| run | bounds | shows |
|---|---|---|
| `pipe` | 5 messages, 2 values | all properties of AtomicPipe, liveness, and that it implements SpscPipe |
| `chunks` | 7 messages, 4 in flight, chunks of 2 cells, 5 blocks | memory safety, no leak, implements AtomicPipe |
| `dispatcher` | 2 contexts, 3 messages per pipe, batches and reads of up to 2, 3 creations | no lost signal, wakeups match, every message arrives |
| `dispatcher_reuse` | 2 contexts | finding: a reused context id sleeps on old messages |
| `services` | queue: 4 threads, 4 pushes; graph and solver: 3 references, 3 edges, parallel edges between 2 vertices at a time; join: 1, 2, 3 or 5 ports, 5 messages; transaction: 2 actions, 3 runs, 2 rollbacks or resets | no lost wakeup, sleepers are served; the graph is what was asked for; orders are right; one run per round of messages, and no round without; the transaction state matches the counter, true answers, calls return |
| `worker` | four scenarios: 3 clients, 2 threads, 4 blocking calls and stop; 2 clients, 2 threads, 3 calls, every operation; 1 client, 1 thread, 6 calls as in WorkerTest; 1 client, 2 threads, 5 asynchronous calls; 2 slots | slots conserved, signals match, calls return, a lone client's after its handler |
| `fragments` | 3 pointers with copies, pool of 11 bytes in chunks of 2, requests 0, 1, 4, 15, size_t modulo 16 | lists consistent, books balance, no leak, the destructor's assertion fails only on extents of no bytes, implements Arena, moves keep content |
| `transaction_rollback` | 2 actions, 2 runs, 1 rollback or reset | finding: the rollback of an action that was not executed |
| `bounded_queue` | 3 threads, buffer of 2, 4 elements | exclusive cells, order, capacity |
| `pool` | pool of 16 words, big blocks of 3 blocks, 2 chunks per block, 2 threads; requests of 2, 3, 6 and 60 words for large chunks, at address 4 of 64 | large chunks, free chunks and big blocks apart until the request of 60 wraps the pointer, no small chunk or block lost or doubled, foreign frees arrive, the loss is bounded, calls return |
| `buffer` | one or two buffers, plain or circular, of 2 to 3 cells; 1 or 2 cells a call; 6 operations on two buffers, any number on one; 16 values, two at a time, through 15 bytes | a buffer holds what was written and not read; ranges cover it; values come back, but for wide strings and nested buffers across the end; values of regular types take the bytes `probeSize` foretells |
| `buffer_spsc` | 6 values of 2 bytes through 4 bytes | finding: the reader reads stale bytes |

Why the bounds are enough for the interesting cases: seven messages through
chunks of two go through four chunks, so chunks are recycled, found spare, and
freed by both threads while one is in flight; four elements through a buffer of
two use every cell twice; three messages per pipe let a reader with room for one
leave a bit behind while its writer sets it again; four threads let two sleep
while one notifies and one barges in; more clients than slots make keys change
hands while a client has not consumed its signal. In a pool of five chunks and
a half, three pointers suffice to free a block with an allocated block and then
a free one on each side, the only case that searches the list; the odd byte is
the part of a pool that is never handed out. `fragments` uses a `VIEW` that
numbers the blocks by their place in the list: the code only compares block
addresses for equality, so names do not matter. Three runs of a transaction are
one inside the lock, one waiting for it and one the caller has just started; of
two actions one is done and one ahead when a rollback comes. Two parallel edges
and a third one the other way are what a call can confuse between two vertices.
The pool at address 4 of 64 makes the request of 60 words the one that wraps.
The pool holds one big block next to a large chunk, so that blocks run out and
change hands; two threads, one of which exits and comes back, reach every order
of a foreign free against its owner, and one chunk alive at the time of a call
still lets each thread free what the other allocated. A circular buffer of two
cells wraps with every second write, and grows to three while its content
wraps; 15 bytes are less than two of the longer values, so these lie across
the end at every byte. Three references suffice for a path, a cycle, and an edge
that is removed with its vertex; 3 and 5 ports leave an odd one on the first and
on the first two levels of the join tree.

Deadlock is checked for the pipes and the bounded queue. The dispatcher, the
queue and the worker may really stop: all readers asleep with nothing sent, all
consumers asleep, the worker stopped. So may the allocators, a buffer, and
a transaction nobody calls, and the services, whose numbers of pushes and
messages are bounded.

Fairness. `pipe`: the reader keeps reading and a flush that was begun ends.
`dispatcher`: a write that was begun ends and the owner of a context keeps
calling read; nobody has to write. `services`: a thread inside push or
wait_and_pop that can run does, no deadline has to pass, and the flow graph runs
a task that is ready; a thread in a transaction's `run()` goes on, because actions
return, and a call of it that can return does. `pool`: a thread inside allocate,
deallocate or its exit goes on; nobody has to call. `worker`: worker
threads run, and a client whose condition is signalled returns.
`transaction_rollback` needs no fairness, since its property is an invariant. All are weak
fairness of single threads (or of TBB's pool of them), which the operating system's scheduler gives;
starvation of one client by others at the same mutex or condition is possible in
the code and excluded here only by the bounded number of calls.

## 5. Findings and observations

Three runs end in a violation of what the repository itself says:

* `dispatcher_reuse`: a context created with the id of a destroyed one does not
  see messages left in its pipes until their source writes again, while
  `read` is documented as reading the first message available from any pipe.
* `buffer_spsc`: `wskip` stores the advanced `mWritePos` and then the wrapped one.
  A reader that has itself wrapped and looks in between takes the whole memory
  for data and reads stale bytes, left from the round before, where `BufferTest`
  asserts that values arrive in order. (`rskip` also stores twice, but
  `mAllocatedSize - r + w` is right of the position before it is wrapped too.)
* `transaction_rollback`: `rollback()` of a transaction that is not complete
  begins with the action at the counter, the next one to execute, and calls its
  rollback routine, while `Transaction.h:43` calls this the counterpart that
  invalidates the changes of the action, and the routines of `TransactionTest`
  check that the changes are there and take them away.

These are in the models, which stop there or are restricted to avoid them, or
were met in reading the code:

* Worker: `wrap` gives its slot back before the client has consumed the signal. A
  second client gets the slot, finds the first one's signal, and returns from
  `dispatch(handler, true)` before its handler ran; the first then waits for the
  second one's handler. `SignalsMatch` and `WaitReturns` show that nobody hangs:
  signals are only swapped. `LoneClientIsServed` says when it cannot happen.
* FragmentFreeAllocator: the operator moves a block and never assigns
  `FragmentPointer::data`. Until the first move the bytes are right
  (`MovePreservesContent`). The operator dereferences a null `lastAllocatedBlock` exactly
  when nothing is allocated (a part of `BooksBalance`). A request larger than
  `SIZE_MAX - 1023` is rounded up to 0 and granted, the only grant smaller than
  its request (`GrantCoversRequest`). Extents of no bytes, which that and
  `allocate(0)` give, are not counted in `mAllocatedSize`: a client that keeps one
  and destroys the allocator passes the assertion on the size and fails the one at
  `FragmentFreeAllocator.cpp:86`, that the map is empty.
* Transaction: `next()` that finds the counter at the end of the list stores -1
  without the lock. If `run()` has not yet tested its loop condition it finds -1
  below the size and calls `mTransactions[-1]` (the model sets `fault` and stops);
  if it has, it returns false for a transaction that is complete. A rollback
  routine that throws in `rollback()` leaves it half way with the counter where it
  was, so that a second `rollback()` undoes some actions twice; one that throws in
  `run()` is passed over and its action stays done. `rollback()` of an empty list
  indexes it with 0. `DoneIsPrefix` holds of every action these do not touch.
* ScalablePoolAllocator: `freePublicChunk` links the block before it stores the
  bin's mail box, and the owner's exit waits only for the link: the store may hit
  bins that belong to another thread by then (`StrayMail`, where the model stops).
  After `allocateBlocks` failed, `mBlockAllocPtr` lies above `mBumpPtr`:
  `allocateLarge` fails for good, and `isLargeChunk` misjudges large chunks that are
  still alive (not freed in the model). A request so large that
  `mBumpPtr - sz - sizeof(size_t)` wraps around (`ScalablePoolAllocator.cpp:337`)
  passes the test for room and is granted; the model stops there (`overrun`). The
  comment on `mLargeFreeList` (`ScalablePoolAllocator.h:216`) says "in ascending size
  order"; `deallocateLarge` keeps it in address order, which its merging needs and
  `FreeListMerged` states.
* Buffer: `setMutable` changes nothing; move assignment returns nothing; copy
  assignment keeps the target's `mOnDemand`, and a buffer assigned to itself loses
  its memory. `append` of a circular source copies one range even when the data
  wraps, so the cells from the end on come from behind the memory (`ContentIsUnread`
  and `ValuesArrive` admit exactly these), and a nested buffer read from
  there is wrong without notice (`Buffer.h:1805` and `2561`). `append` consumes its
  source, although `Buffer.h:2539` says that the read pointer of the source "will not
  be altered". Reading and `rskip` of a plain buffer assert only the end of the
  memory, so they pass the write position unchecked. `zero` and the stream operator
  count with `freeSize`, which includes cells that were read, and may go beyond the
  memory; `freeSize` of a
  default-constructed circular buffer wraps around; marks set before a circular
  buffer grows name other cells afterwards. Reading a wstring that lies across
  the end asserts "Not yet implement". `probeSize` of containers of pairs or
  structs of variable size (a map of such values included: `Buffer.h:708` multiplies the
  size of the first element), and of arrays of strings, is not what is written
  (`Regular` says for which types it is). Writing a const nested buffer consumes it.
* IndirectGraph: `remove_edge` of two vertices that parallel edges join removes one
  reference and all the edges (`GraphUtil.h:482-488`): the references of the others
  stay in the map, name edges that are gone, and cannot be used again.
  `GraphIsAsked` says that nothing else is left behind. `GraphUtilTest.cpp:69`
  relies on parallel edges and does not remove them so.
* DependencySolver: `compileRequireNodes` and `compileDependentNodes` of an unknown
  id throw, although the other methods return false; results are put in front of
  what the caller's list holds; the counter of edge references is static and
  unsynchronised.
* Dispatcher: `write` needs a destination whose context exists and at least one
  message. FragmentFreeAllocator: a copy of a `MutablePointer` may outlive the
  allocation. WorkerGroup: its round-robin index is shared without
  synchronisation.

## 6. Proofs

`AtomicPipeProofs` proves, for any set of values and any number of messages,
type correctness, `Fifo`, `FlushedOnly`, `AsleepIsDrained`,
`FailedReadIsEmpty`, `FlushedIsStable`, and that the pipe implements
`SpscPipe`. Assumptions: `MaxWrites` is a natural number and `Junk` is not a
value. None of the properties is inductive alone. `IInv` adds where the pointers
are: c is w, or NULL with the reader caught up; r is NULL or between front and
w; a writer that found the reader asleep still finds c NULL, because only the
writer makes it non-NULL. The refinement needs lemmas about slices of
sequences: the visible and the staged messages are adjacent slices of the
queue, a flush moves the border, a write extends the second and a read shortens
the first.

`ContainerProofs` is about two containers. It proves `NoLostWakeup` of
`ConcurrentQueue` for any finite set of threads: while a thread sleeps, the
elements do not outnumber the awake threads. With the types it is inductive,
because a thread sleeps, and a woken thread leaves without an element, only when
the queue is empty.

It also proves `ContentIsUnread` and `RangesAreContent` of `Buffer`, for any
number of buffers of either kind, any cells, any lengths of calls, any fixed size,
and growth up to `MaxSize`, 2^30 cells (`RoundUp` finds its power of two in a finite set,
because that there always is one is an induction). The clients are those of `Buffer`, with
the four restrictions its head names; an append may take a wrapped source, and what
arrives is then the cells before the end, followed by `Junk`. What is promised about the unread cells is
not inductive: a rewind or a return to a mark makes cells unread that were read
before. `BufferInv` says therefore that a position `a` exists where the client's
whole view begins (`Represents`): its cells lie there in order, around the end of a
circular buffer, and both positions and the valid marks are at the distance from
`a` that the view says. Each operation is one lemma (`WriteKeeps`, `ReadKeeps`,
`RewindReadKeeps`, `ResetKeeps`, `CrunchKeeps`, ...). A write into a full circular
buffer is reduced to one with room by forgetting the oldest cells first (`Cut`,
`Trims`), which moves `a` on; `crunch` and growth begin again at position 0
(`CrunchKeeps`, `GrownKeeps`). For the ranges, `RangesAre` splits what lies between
two positions at the end of the memory.

`ChunkedPipeProofs` proves `OneHolder` and that `ChunkedPipe` implements
`AtomicPipe`, for any set of blocks, any number of values per chunk from one on,
and any number of messages. `IInv` gives every linked chunk the range of
positions its cells have: `Apart` (ranges do not meet), `Above` and `Below`
(`next` and `prev` lead to the neighbouring ranges), `Bounds` (nothing linked is
outside begin and end). `Pointers` says that the pointers of both threads are
cells of linked chunks, `Order` how their positions compare, `Contents` that a
cell holds what was written at its position. So pointers are equal exactly if
their positions are (`Unique`), the reader leaves a chunk only when all pointers
are behind it, and `unwrite` frees a chunk only when all are before it. The
refinement then follows action by action; `write` at the end of a chunk is the
step of the abstract pipe when the next chunk is linked, because `f` moves only
then. With `AtomicPipeProofs` this takes the promise of `SpscPipe` down to the
chunks.

`DispatcherProofs` proves `NoLostSignal` and `WakeupsMatch` for any finite set of
contexts. Both need the other's part: `HeldBits` (the bits a reader has taken off
the bitmap and not yet served are not forgotten) and `Balanced` (semaphore, posts
due and the wait bit add up to one exactly while the reader waits), and
`DetachedIsIdle`. `SleepsOnOrphansOnly` draws the line around the finding of
`dispatcher_reuse`: apart from what a former context left behind, no reader sleeps
beside a message unless somebody is about to wake it.

`AtomicBoundedQueueProofs` proves `BoundedFifo` and `FailsOnlyAtLimit` for any
number of threads and elements and any buffer size from two on. `IInv` says whose
turn each cell is: its sequence is the position its next producer will have
(`ProducersTurn`) or one more than the position whose element it holds
(`ConsumersTurn`), and a position that was claimed has exactly one owner until it
is released (`Owners`, `OneOwner`). `Tested` keeps what a thread read before its
compare-and-swap true as long as the counter has not moved, which is what makes
the exchange safe with a stale position. Of modular arithmetic it needs
`CellFacts` and `RoundApart`: two positions of one cell are a whole round apart.

`WorkerProofs` proves `SlotsConserved`, `SignalsMatch` and `LoneClientIsServed`
for any finite sets of clients, threads and keys, any number of calls, and any
scenario. `OneOwner` counts the places a key can be in (queue of free slots,
queued handlers, worker threads, clients) and says the sum is one; `Balanced`
counts signals and waiters per key. Both are sums over sequences and sets that
each step moves one unit in, which the lemmas `AppendPlaces`, `TailPlaces` and
`MoveOne` carry. For a lone client `LastCall` relates the call that is being made
to the one handler that belongs to it, and `InOrder` the order of the queue. The
proof also fixed the statement: a lone client that mixes `async` and blocking
calls can find the signal of an asynchronous call that nobody waited for, so
`LoneClientIsServed` speaks of clients that use one kind or the other.

`PoolMemoryProofs` proves `MemorySafe` and `LossIsBounded` for a pool of any size at
any address, big blocks of any size and any requests that the code takes for large, up
to one that wraps `mBumpPtr` around (the invariant, `Sound`, is `IInv` as long as
`overrun` is false), and that the allocator's threads use the memory only so
(`PoolUsesMemory`): the first then holds for any number of threads, blocks and chunks
(`PoolIsMemorySafe`), up to a stray mail, where `PoolSpec` stops, and for clients that free
only large chunks `isLargeChunk` still recognises. It is about large chunks, free
chunks and big blocks; what threads do inside the blocks is `PoolConserved`, which is
model-checked. In `IInv`,
`SortedBut` compares every pair of free chunks and not only neighbours, which
spares an induction; it also says which neighbours touch: none, except in the
middle of `deallocateLarge`, between the insertion and the two merges.
`BlocksBelow` needs both pointers, because a call that fails has moved
`mBlockAllocPtr` beyond `mBumpPtr`: blocks are below the smaller of the two. The
list is left by `allocateLarge` with a shorter chunk or with one less (`Carved`), and
`deallocateLarge` keeps the words it covers (`InsertMerges`), so only the first loses
any, and at most what is too small for a header and a link.

`TransactionProofs` proves type correctness, `DoneIsPrefix` and
`AnswerIsTrue` for any number of actions, runs and calls, with routines that throw or not.
What is proved of an action ends when it enters `off`, and begins again with a `reset()`:
`off` is exactly what the three kinds of rollback above put out of step.
`DoneIsPrefix` needs to
know, when an action returns, that the counter still names it: `CallsInList`,
which holds because `next()` overwrites the counter only at the end of the list,
where no action is being called, and because no other run is inside the lock
(`Exclusive`). Actions are only added while the counter is 0 (`Started`).
`AnswerIsTrue` adds `OneIsGoingOn` (only the run mResult refers to, or the one its
assignment waits for, is not over) and `Outcomes` (what each outcome of the run
waited for says about the counter). The race on the counter is included: the
proof covers what is done to the state up to the call outside the list.

`FlushedOnly`, `FlushedIsStable` and the type invariants of `AtomicPipe`,
`ConcurrentQueue` and `Transaction` need no run beside their proof; the type
invariants of the other modules are conjuncts of the safety invariants their
runs check.

Only model-checked, and why:

* liveness (`FlushedIsRead`, `MessagesArrive`, `SleepersAreServed`,
  `WaitReturns`, `RoundsRun` and both `CallsReturn`) needs fairness, which is out
  of the prover's reach;
* `RunsAreRounds` of the join tree, the codec, the orders of `DependencySolver` and
  what `IndirectGraph` adds up are inductions over levels, types or sequences, as
  are `ListsAgree`, `BooksBalance` and `GrantCoversRequest` of the
  `FragmentFreeAllocator` (walks along its lists and the folds of its sweep);
* `MailIsComplete` of the `ScalablePoolAllocator` follows the chains in the mail
  boxes, which are defined by recursion over the links, and the inductive
  invariant of `PoolConserved` needs it.

## 7. Not modelled

See `components` in `PROJECT.json` for the list with reasons: what remains is
container code over libraries, policies chosen at compile time, wrappers of the
platform and pure functions on text. `BiMap` reads its hash tables without the
lock its writers hold, and what that race can do lies inside boost. Handlers that
call the worker they run on, and `WorkerGroup`, are left out of the worker. Memory ordering
weaker than sequential consistency, integer wrap-around of 64-bit positions,
allocation failure of `malloc` (asserted by the code), interrupted `sem_wait`
(asserted), and concurrent calls of `createThreadContext` are outside the
models.
