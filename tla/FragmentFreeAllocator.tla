------------------------ MODULE FragmentFreeAllocator ------------------------
(***************************************************************************)
(* FragmentAllocator and FragmentFreeOperator                              *)
(* (core/FragmentFreeAllocator.h and .cpp): a first-fit allocator over one *)
(* pool, with a list of all blocks in address order, a list of the free    *)
(* ones, and an operator that moves the allocated blocks together.         *)
(*                                                                         *)
(* allocate, deallocate and the operator hold mAllocationLock from their   *)
(* first line to their return, so each is one step.  Blocks, and the       *)
(* FragmentPointers and MutablePointers clients hold, are objects with     *)
(* addresses that the object pools hand out again after delete.            *)
(* Pointers into the pool are offsets from mDeviceBasePointer.             *)
(***************************************************************************)
EXTENDS Integers, Sequences, FiniteSets, SequencesExt

CONSTANTS
  Block,                  \* addresses of FragmentBlock objects
  Ref,                    \* addresses of FragmentPointer objects
  Handle,                 \* addresses of MutablePointer objects
  PoolSize,               \* bytes given to the constructor
  ChunkSize,              \* mConfiguredChunkSize
  SizeLimit,              \* size_t counts modulo this
  Request,                \* the sizes clients ask for
  NULL                    \* the null pointer, and the content of a deleted object

ASSUME SizesAssumption ==
  /\ PoolSize \in Nat \ {0} /\ ChunkSize \in Nat \ {0} /\ PoolSize < SizeLimit
  /\ SizeLimit % ChunkSize = 0
  /\ Request \subseteq 0..(SizeLimit - 1)

\* new FragmentBlock never fails: one allocated block per FragmentPointer, a
\* free one around each, and one more while a block is replaced.
ASSUME BlocksAssumption == Cardinality(Block) >= 2 * Cardinality(Ref) + 2

VARIABLES
  heap,                   \* Block -> the FragmentBlock there, or NULL
  mFragmentBlockHead, mFragmentBlockHeadFree,
  mPointerToBlockMap,     \* Ref -> Block, NULL where the map has no entry
  mAllocatedSize,
  data,                   \* Ref -> FragmentPointer::data, or NULL
  handle,                 \* Handle -> the MutablePointer there, or NULL
  last,                   \* history: of the last call, if it was allocate, the size asked
                          \* for, rounded up, and *pointer (NULL: refused); else NULL
  status                  \* "running", "destroyed", "asserted" or "crashed"

lists == <<heap, mFragmentBlockHead, mFragmentBlockHeadFree>>
vars == <<lists, mPointerToBlockMap, mAllocatedSize, data, handle, last, status>>

Running == status = "running"

Total == ChunkSize * (PoolSize \div ChunkSize)
Available == (Total - mAllocatedSize) % SizeLimit

\* isValid: the unowned copy of a deallocated pointer is looked up by address.
IsValid(h) == mPointerToBlockMap[handle[h].pointerReference] # NULL

\* infoSize: "return fail" is 0.
InfoSize(h) ==
  IF IsValid(h) THEN heap[mPointerToBlockMap[handle[h].pointerReference]].size ELSE 0

-----------------------------------------------------------------------------
(* Lists of blocks                                                         *)

\* The blocks met from b along the link f, as the while loops visit them.
Chain(b, f) ==
  LET walk[c \in Block \cup {NULL}] ==
        IF c = NULL THEN <<>> ELSE <<c>> \o walk[heap[c][f]]
  IN  walk[b]

\* The assignment b->f = v guarded by if(b), on the heap h.
Set(h, b, f, v) == IF b = NULL THEN h ELSE [h EXCEPT ![b][f] = v]

FirstOrNull(s) == IF s = <<>> THEN NULL ELSE Head(s)

NewBlock == CHOOSE b \in Block : heap[b] = NULL

\* Mutant: rounds down.
RoundDown(n) == (n \div ChunkSize) * ChunkSize

\* size_t arithmetic: the round-up of a request in the last chunk wraps to 0.
RoundUp(n) ==
  IF n % ChunkSize # 0 THEN (((n \div ChunkSize) + 1) * ChunkSize) % SizeLimit ELSE n

Init ==
  /\ \E b \in Block :
       /\ b = CHOOSE c \in Block : TRUE
       /\ heap = [c \in Block |->
                    IF c = b
                    THEN [free |-> TRUE, offset |-> 0, size |-> PoolSize,
                          nextFree |-> NULL, prevFree |-> NULL,
                          nextBlock |-> NULL, prevBlock |-> NULL,
                          pointerReference |-> NULL]
                    ELSE NULL]
       /\ mFragmentBlockHead = b
       /\ mFragmentBlockHeadFree = b
  /\ mPointerToBlockMap = [p \in Ref |-> NULL]
  /\ mAllocatedSize = 0
  /\ data = [p \in Ref |-> NULL]
  /\ handle = [h \in Handle |-> NULL]
  /\ last = NULL
  /\ status = "running"

-----------------------------------------------------------------------------
(* allocate                                                                *)

\* The free block found first, or NULL.
FirstFit(n) ==
  FirstOrNull(SelectSeq(Chain(mFragmentBlockHeadFree, "nextFree"),
                        LAMBDA b : heap[b].size >= n))

\* Mutant: the block is not told its FragmentPointer.
InsertUnbound(cur, n, p) ==
  LET new == NewBlock
      h   == [heap EXCEPT ![new] =
                [free |-> FALSE, offset |-> heap[cur].offset, size |-> n,
                 nextFree |-> NULL, prevFree |-> NULL,
                 nextBlock |-> cur, prevBlock |-> heap[cur].prevBlock,
                 pointerReference |-> NULL]]
  IN  Set(Set(h, heap[cur].prevBlock, "nextBlock", new), cur, "prevBlock", new)

\* The new block goes to the left of the free block cur.
InsertLeft(cur, n, p) ==
  LET new == NewBlock
      h   == [heap EXCEPT ![new] =
                [free |-> FALSE, offset |-> heap[cur].offset, size |-> n,
                 nextFree |-> NULL, prevFree |-> NULL,
                 nextBlock |-> cur, prevBlock |-> heap[cur].prevBlock,
                 pointerReference |-> p]]
  IN  Set(Set(h, heap[cur].prevBlock, "nextBlock", new), cur, "prevBlock", new)

\* cur was used up: take it out of both lists of the heap h and delete it.
Unlink(h, cur) ==
  LET h1 == Set(h,  h[cur].prevFree,  "nextFree",  h[cur].nextFree)
      h2 == Set(h1, h[cur].nextFree,  "prevFree",  h[cur].prevFree)
      h3 == Set(h2, h[cur].prevBlock, "nextBlock", h[cur].nextBlock)
      h4 == Set(h3, h[cur].nextBlock, "prevBlock", h[cur].prevBlock)
  IN  [h4 EXCEPT ![cur] = NULL]

Shrink(h, cur, n) == [h EXCEPT ![cur].offset = @ + n, ![cur].size = @ - n]

Allocate(h, p, asked) ==
  LET n   == RoundUp(asked)
      cur == FirstFit(n)
      new == NewBlock
      h1  == InsertLeft(cur, n, p)
  IN  /\ Running /\ handle[h] = NULL /\ data[p] = NULL
      /\ cur # NULL
      /\ heap' = IF heap[cur].size = n THEN Unlink(h1, cur) ELSE Shrink(h1, cur, n)
      /\ mFragmentBlockHead' =
           IF cur = mFragmentBlockHead THEN new ELSE mFragmentBlockHead
      /\ mFragmentBlockHeadFree' =
           IF heap[cur].size = n /\ cur = mFragmentBlockHeadFree
           THEN heap[cur].nextFree ELSE mFragmentBlockHeadFree
      /\ data' = [data EXCEPT ![p] = heap[cur].offset]
      /\ handle' = [handle EXCEPT ![h] = [pointerReference |-> p, pointerOwner |-> TRUE]]
      /\ mPointerToBlockMap' = [mPointerToBlockMap EXCEPT ![p] = new]
      /\ mAllocatedSize' = mAllocatedSize + n
      /\ last' = [handle |-> h, asked |-> asked, size |-> n]
      /\ UNCHANGED status

AllocateFails(asked) ==
  /\ Running
  /\ FirstFit(RoundUp(asked)) = NULL
  /\ last' = [handle |-> NULL, asked |-> asked, size |-> RoundUp(asked)]
  /\ UNCHANGED <<lists, mPointerToBlockMap, mAllocatedSize, data, handle, status>>

-----------------------------------------------------------------------------
(* deallocate: the four ways to give the block cur back                    *)

IsFree(b) == b # NULL /\ heap[b].free

MergeBoth(cur) ==
  LET c == heap[cur]
      l == heap[c.prevBlock]
      r == heap[c.nextBlock]
      h1 == [heap EXCEPT ![cur] =
               [c EXCEPT !.free = TRUE, !.offset = l.offset,
                         !.size = l.size + c.size + r.size,
                         !.prevFree = l.prevFree, !.nextFree = r.nextFree,
                         !.prevBlock = l.prevBlock, !.nextBlock = r.nextBlock],
                         ![c.prevBlock] = NULL, ![c.nextBlock] = NULL]
      h2 == Set(h1, l.prevFree,  "nextFree",  cur)
      h3 == Set(h2, r.nextFree,  "prevFree",  cur)
      h4 == Set(h3, l.prevBlock, "nextBlock", cur)
  IN  /\ heap' = Set(h4, r.nextBlock, "prevBlock", cur)
      /\ mFragmentBlockHeadFree' =
           IF c.prevBlock = mFragmentBlockHeadFree THEN cur ELSE mFragmentBlockHeadFree
      /\ mFragmentBlockHead' =
           IF c.prevBlock = mFragmentBlockHead THEN cur ELSE mFragmentBlockHead

MergeLeft(cur) ==
  LET c == heap[cur]
      h == [heap EXCEPT ![cur] = NULL,
                        ![c.prevBlock].nextBlock = c.nextBlock,
                        ![c.prevBlock].size = @ + c.size]
  IN  /\ heap' = Set(h, c.nextBlock, "prevBlock", c.prevBlock)
      /\ UNCHANGED <<mFragmentBlockHead, mFragmentBlockHeadFree>>

\* Mutant: the free block on the right keeps its offset.
MergeRightKeepsOffset(cur) ==
  LET c == heap[cur]
      h == [heap EXCEPT ![cur] = NULL,
                        ![c.nextBlock].prevBlock = c.prevBlock,
                        ![c.nextBlock].size = @ + c.size]
  IN  /\ heap' = Set(h, c.prevBlock, "nextBlock", c.nextBlock)
      /\ mFragmentBlockHead' =
           IF cur = mFragmentBlockHead THEN c.nextBlock ELSE mFragmentBlockHead
      /\ UNCHANGED mFragmentBlockHeadFree

MergeRight(cur) ==
  LET c == heap[cur]
      h == [heap EXCEPT ![cur] = NULL,
                        ![c.nextBlock].prevBlock = c.prevBlock,
                        ![c.nextBlock].offset = c.offset,
                        ![c.nextBlock].size = @ + c.size]
  IN  /\ heap' = Set(h, c.prevBlock, "nextBlock", c.nextBlock)
      /\ mFragmentBlockHead' =
           IF cur = mFragmentBlockHead THEN c.nextBlock ELSE mFragmentBlockHead
      /\ UNCHANGED mFragmentBlockHeadFree

\* The nearest free block on the left gives the one on the right; only when
\* there is none is the right searched, and cur becomes the first free block.
MergeNone(cur) ==
  LET nearest(f) == FirstOrNull(SelectSeq(Chain(heap[cur][f], f), IsFree))
      l == nearest("prevBlock")
      r == IF l # NULL THEN heap[l].nextFree ELSE nearest("nextBlock")
      h == [heap EXCEPT ![cur].free = TRUE,
                        ![cur].prevFree = l, ![cur].nextFree = r]
  IN  /\ heap' = Set(Set(h, l, "nextFree", cur), r, "prevFree", cur)
      /\ mFragmentBlockHeadFree' = IF l = NULL THEN cur ELSE mFragmentBlockHeadFree
      /\ UNCHANGED mFragmentBlockHead

\* Mutant: neighbours are never merged.
GiveBackUnmerged(cur) == MergeNone(cur)

GiveBack(cur) ==
  LET left  == IsFree(heap[cur].prevBlock)
      right == IsFree(heap[cur].nextBlock)
  IN  \/ left /\ right /\ MergeBoth(cur)
      \/ left /\ ~right /\ MergeLeft(cur)
      \/ ~left /\ right /\ MergeRight(cur)
      \/ ~left /\ ~right /\ MergeNone(cur)

\* The MutablePointer is deleted, and its FragmentPointer if it is the owner.
Deallocate(h) ==
  LET p   == handle[h].pointerReference
      cur == mPointerToBlockMap[p]
  IN  /\ Running /\ handle[h] # NULL
      /\ IsValid(h)
      /\ mPointerToBlockMap' = [mPointerToBlockMap EXCEPT ![p] = NULL]
      /\ data' = IF handle[h].pointerOwner THEN [data EXCEPT ![p] = NULL] ELSE data
      /\ handle' = [handle EXCEPT ![h] = NULL]
      /\ mAllocatedSize' = mAllocatedSize - heap[cur].size
      /\ GiveBack(cur)
      /\ last' = NULL
      /\ UNCHANGED status

DeallocateFails(h) ==
  /\ Running /\ handle[h] # NULL
  /\ ~IsValid(h)
  /\ last' = NULL
  /\ UNCHANGED <<lists, mPointerToBlockMap, mAllocatedSize, data, handle, status>>

-----------------------------------------------------------------------------
(* FragmentFreeOperator                                                    *)

\* Mutant: one byte short.
CopyShort(from, dst, src, n) ==
  [a \in DOMAIN from |->
     IF a \in dst..(dst + n - 2) THEN from[src + (a - dst)] ELSE from[a]]

\* The copy functor, which must cope with overlapping regions.  The pool is
\* described by where each of its bytes was when the operator was called.
CopyFunctor(from, dst, src, n) ==
  [a \in DOMAIN from |->
     IF a \in dst..(dst + n - 1) THEN from[src + (a - dst)] ELSE from[a]]

\* One round of the loop: a free block is unlinked from the block list and
\* deleted, an allocated one is moved left by the free space met so far.
\* FragmentPointer::data is the source of the move and is not assigned.
Sweep(s, b) ==
  LET c == s.heap[b]
      h1 == Set(s.heap, c.prevBlock, "nextBlock", c.nextBlock)
      h2 == Set(h1, c.nextBlock, "prevBlock", c.prevBlock)
      src == data[c.pointerReference]
  IN  IF c.free
      THEN [s EXCEPT !.heap = [h2 EXCEPT ![b] = NULL],
                     !.head = IF b = @ THEN c.nextBlock ELSE @,
                     !.free = @ + c.size]
      ELSE [s EXCEPT !.heap = [@ EXCEPT ![b].offset = @ - s.free],
                     !.from = IF s.free > 0
                              THEN CopyFunctor(@, src - s.free, src, c.size) ELSE @,
                     !.offset = @ + c.size,
                     !.lastAllocated = b]

Swept ==
  FoldLeft(Sweep,
           [heap |-> heap, from |-> [a \in 0..(PoolSize - 1) |-> a], head |-> mFragmentBlockHead,
            free |-> 0, offset |-> 0, lastAllocated |-> NULL],
           Chain(mFragmentBlockHead, "nextBlock"))

FreeTail(s) == [free |-> TRUE, offset |-> s.offset, size |-> s.free,
             nextFree |-> NULL, prevFree |-> NULL,
             nextBlock |-> NULL, prevBlock |-> s.lastAllocated,
             pointerReference |-> NULL]

Defragment ==
  LET s   == Swept
      new == CHOOSE b \in Block : s.heap[b] = NULL
  IN  /\ Running
      /\ ~(s.free > 0 /\ s.lastAllocated = NULL)
      /\ heap' = IF s.free > 0
                 THEN Set([s.heap EXCEPT ![new] = FreeTail(s)],
                          s.lastAllocated, "nextBlock", new)
                 ELSE s.heap
      /\ mFragmentBlockHead' = s.head
      /\ mFragmentBlockHeadFree' = IF s.free > 0 THEN new ELSE NULL
      /\ last' = NULL
      /\ UNCHANGED <<mPointerToBlockMap, mAllocatedSize, data, handle, status>>

\* lastAllocatedBlock->nextBlock with no allocated block: the process dies.
DefragmentCrashes ==
  LET s == Swept
  IN  /\ Running
      /\ s.free > 0 /\ s.lastAllocated = NULL
      /\ status' = "crashed"
      /\ UNCHANGED <<lists, mPointerToBlockMap, mAllocatedSize, data, handle, last>>

-----------------------------------------------------------------------------
(* What clients do, and the destructor                                     *)

\* MutablePointer(MutablePointer&): same FragmentPointer, not the owner.
Copy(h, g) ==
  /\ Running /\ handle[h] # NULL /\ handle[g] = NULL
  /\ handle' = [handle EXCEPT ![g] = [pointerReference |-> handle[h].pointerReference,
                                      pointerOwner |-> FALSE]]
  /\ last' = NULL
  /\ UNCHANGED <<lists, mPointerToBlockMap, mAllocatedSize, data, status>>

\* ~MutablePointer of a copy.
DropCopy(h) ==
  /\ Running /\ handle[h] # NULL
  /\ ~handle[h].pointerOwner
  /\ handle' = [handle EXCEPT ![h] = NULL]
  /\ last' = NULL
  /\ UNCHANGED <<lists, mPointerToBlockMap, mAllocatedSize, data, status>>

\* ~FragmentAllocator, which clients call when they have given every byte back
\* (BOOST_ASSERT(mAllocatedSize == 0)).  The map must be empty too.
Destroy ==
  LET gone == {Chain(mFragmentBlockHead, "nextBlock")[i] :
                 i \in DOMAIN Chain(mFragmentBlockHead, "nextBlock")}
  IN  /\ Running
      /\ mAllocatedSize = 0
      /\ \A p \in Ref : mPointerToBlockMap[p] = NULL
      /\ heap' = [b \in Block |-> IF b \in gone THEN NULL ELSE heap[b]]
      /\ mFragmentBlockHead' = NULL
      /\ mFragmentBlockHeadFree' = NULL
      /\ last' = NULL
      /\ status' = "destroyed"
      /\ UNCHANGED <<mPointerToBlockMap, mAllocatedSize, data, handle>>

\* BOOST_ASSERT(mPointerToBlockMap.empty()) fails: no byte is allocated, but
\* extents are.
DestroyAsserts ==
  /\ Running
  /\ mAllocatedSize = 0
  /\ \E p \in Ref : mPointerToBlockMap[p] # NULL
  /\ status' = "asserted"
  /\ UNCHANGED <<lists, mPointerToBlockMap, mAllocatedSize, data, handle, last>>

Next ==
  \/ \E h \in Handle, p \in Ref, n \in Request : Allocate(h, p, n)
  \/ \E n \in Request : AllocateFails(n)
  \/ \E h \in Handle : Deallocate(h)
  \/ \E h \in Handle : DeallocateFails(h)
  \/ Defragment
  \/ DefragmentCrashes
  \/ \E h, g \in Handle : Copy(h, g)
  \/ \E h \in Handle : DropCopy(h)
  \/ Destroy
  \/ DestroyAsserts

Spec == Init /\ [][Next]_vars

-----------------------------------------------------------------------------
(* Properties                                                              *)

Pointer(S) == S \cup {NULL}

\* Every variable has its type: the block and pointer objects of
\* FragmentFreeAllocator.h, the two heads, the map and the counters.
TypeOK ==
  /\ heap \in [Block -> Pointer([free : BOOLEAN, offset : 0..PoolSize, size : 0..PoolSize,
                                 nextFree : Pointer(Block), prevFree : Pointer(Block),
                                 nextBlock : Pointer(Block), prevBlock : Pointer(Block),
                                 pointerReference : Pointer(Ref)])]
  /\ mFragmentBlockHead \in Pointer(Block)
  /\ mFragmentBlockHeadFree \in Pointer(Block)
  /\ mPointerToBlockMap \in [Ref -> Pointer(Block)]
  /\ mAllocatedSize \in 0..(SizeLimit - 1)
  /\ data \in [Ref -> Pointer(0..PoolSize)]
  /\ handle \in [Handle -> Pointer([pointerReference : Ref, pointerOwner : BOOLEAN])]
  /\ status \in {"running", "destroyed", "asserted", "crashed"}

Blocks == Chain(mFragmentBlockHead, "nextBlock")
FreeBlocks == Chain(mFragmentBlockHeadFree, "nextFree")

\* debug() walks both lists and prints what is wrong; here, that it prints
\* nothing.  Its comparison of the sum of sizes with total() is left out: the
\* pool need not be a whole number of chunks.
DebugIsSilent ==
  /\ Blocks # <<>> =>
       /\ heap[Head(Blocks)].prevBlock = NULL
       /\ heap[Head(Blocks)].prevFree = NULL
  /\ \A i \in DOMAIN Blocks :
       LET b == heap[Blocks[i]]
       IN  /\ b.nextBlock # NULL =>
                /\ heap[b.nextBlock].offset = b.offset + b.size
                /\ heap[b.nextBlock].prevBlock = Blocks[i]
           /\ b.free /\ b.nextFree # NULL =>
                /\ b.nextFree # b.nextBlock
                /\ heap[b.nextFree].prevFree = Blocks[i]
           /\ b.free /\ b.nextFree = NULL =>
                \A j \in (i + 1)..Len(Blocks) : ~heap[Blocks[j]].free
           /\ ~b.free => b.prevFree = NULL /\ b.nextFree = NULL
  /\ FreeBlocks # <<>> => heap[Head(FreeBlocks)].prevFree = NULL
  /\ \A i \in DOMAIN FreeBlocks : heap[FreeBlocks[i]].free

\* After any sequence of calls debug() finds nothing wrong, and what it does not
\* look at is right too: the blocks fill the pool from 0 to its end, the free list
\* is the free blocks of the block list in order, and no block object is off the
\* lists (FragmentFreeAllocator.cpp:95-417 and 596-677 keep them so).
ListsAgree ==
  Running =>
    /\ DebugIsSilent
    /\ {Blocks[i] : i \in DOMAIN Blocks} = {b \in Block : heap[b] # NULL}
    /\ heap[Head(Blocks)].offset = 0
    /\ heap[Last(Blocks)].offset + heap[Last(Blocks)].size = PoolSize
    /\ FreeBlocks = SelectSeq(Blocks, IsFree)

\* The map names exactly the allocated blocks, each of which points back to its
\* key, and mAllocatedSize is the sum of their sizes: available() never wraps.
\* ~FragmentAllocator walks nextBlock from the head and leaves no block behind, and
\* its assertion "note that the map should be empty" (FragmentFreeAllocator.cpp:85)
\* fails only on extents of no bytes.  The operator returns ("append a single free
\* memory block if there's free space", FragmentFreeAllocator.cpp:656) unless
\* nothing at all is allocated: lastAllocatedBlock is then null at line 666.
BooksBalance ==
  /\ TypeOK
  /\ status = "destroyed" => \A b \in Block : heap[b] = NULL
  /\ status = "asserted" =>
       \A p \in Ref : mPointerToBlockMap[p] # NULL => heap[mPointerToBlockMap[p]].size = 0
  /\ status = "crashed" => \A p \in Ref : mPointerToBlockMap[p] = NULL
  /\ Running =>
       /\ \A p \in Ref :
            mPointerToBlockMap[p] # NULL =>
              /\ ~heap[mPointerToBlockMap[p]].free
              /\ heap[mPointerToBlockMap[p]].pointerReference = p
       /\ \A b \in Block :
            heap[b] # NULL /\ ~heap[b].free => mPointerToBlockMap[heap[b].pointerReference] = b
       /\ mAllocatedSize = FoldLeft(LAMBDA s, b : IF heap[b].free THEN s ELSE s + heap[b].size,
                                    0, Blocks)
       /\ Available <= Total

Extent(p) == LET b == heap[mPointerToBlockMap[p]]
             IN  [offset |-> b.offset, size |-> b.size]

A == INSTANCE Arena WITH
       Size <- {RoundUp(n) : n \in Request},
       live <- [p \in Ref |-> IF mPointerToBlockMap[p] = NULL THEN NULL ELSE Extent(p)],
       last <- IF last = NULL THEN NULL ELSE [size |-> last.size, ok |-> last.handle # NULL]

\* The allocator implements the arena: extents never overlap, deallocate frees
\* one extent and nothing else, allocate fails only when no contiguous gap fits
\* (released neighbours were merged), and the operator packs extents in order.
ImplementsArena == A!Spec

PointersInPlace ==
  \A p \in Ref : mPointerToBlockMap[p] # NULL => data[p] = Extent(p).offset

\* While every pointer is where its block is (before the first move), the operator
\* moves each block's bytes with it, though blocks slide over one another.
MovePreservesContent ==
  [][PointersInPlace /\ Defragment =>
       \A p \in Ref : mPointerToBlockMap[p] # NULL =>
         \A i \in 0..(Extent(p).size - 1) :
           Swept.from[Extent(p)'.offset + i] = Extent(p).offset + i]_vars

\* An allocation that succeeds has at least the bytes asked for, except that
\* rounding up ("round the requested size to multiple of chunk size",
\* FragmentFreeAllocator.cpp:106) wraps to 0 in the last chunk of size_t.
GrantCoversRequest ==
  last # NULL /\ last.handle # NULL =>
    InfoSize(last.handle) >= IF last.asked > SizeLimit - ChunkSize THEN 0 ELSE last.asked
=============================================================================
