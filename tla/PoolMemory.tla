----------------------------- MODULE PoolMemory -----------------------------
(***************************************************************************)
(* The memory of ScalablePoolAllocator (core/ScalablePoolAllocator.h and   *)
(* .cpp): big blocks are cut off its bottom for the small chunks, large    *)
(* chunks off its top, and large chunks that were freed are kept in a list *)
(* in address order (not "in ascending size order", as the comment on      *)
(* mLargeFreeList has it).  allocateLarge, deallocateLarge and             *)
(* allocateBlocks hold mPoolLock throughout, so each is one step.          *)
(*                                                                         *)
(* Addresses and sizes are words of sizeof(size_t): the header of a large  *)
(* chunk is one, a LargeChunk three.  Addresses are counted from mPool,    *)
(* which is at Base.  Statistics are left out.                             *)
(***************************************************************************)
EXTENDS Integers, Sequences, FiniteSets, SequencesExt

CONSTANTS
  Base,                   \* the address of mPool
  AddressLimit,           \* pointers count modulo this
  PoolSize,               \* words between mPool and the table of bin sizes
  BigBlockSize,           \* BIG_BLOCK_SIZE
  Request                 \* sizes of large chunks clients ask for

Header == 1
SizeOfLargeChunk == 3

ASSUME PoolAssumption ==
  /\ PoolSize \in Nat /\ BigBlockSize \in Nat \ {0}
  /\ Base \in Nat /\ AddressLimit \in Nat /\ Base + PoolSize + BigBlockSize <= AddressLimit
  \* MIN_LARGE_CHUNK_SIZE leaves room for the links of a free chunk.
  /\ Request \subseteq {n \in Nat : n + Header >= SizeOfLargeChunk /\ n < AddressLimit}

VARIABLES
  mBlockAllocPtr,         \* end of the blocks at the bottom
  mBumpPtr,               \* start of the large chunks at the top
  mLargeFreeList,         \* free large chunks: [addr, size], addr of the header
  large,                  \* the large chunks clients hold: [addr, size]
  bigBlocks,              \* start addresses of the blocks that were granted
  overrun                 \* history: mBumpPtr wrapped around, see FromBumpPtr
memory == <<mBlockAllocPtr, mBumpPtr, mLargeFreeList, large, bigBlocks, overrun>>

MemoryInit ==
  /\ mBlockAllocPtr = 0
  /\ mBumpPtr = PoolSize
  /\ mLargeFreeList = <<>>
  /\ large = {} /\ bigBlocks = {} /\ overrun = FALSE

End(c) == c.addr + Header + c.size

\* The pointer a client has is the one behind the header.
IsLargeChunk(c) == c.addr + Header > mBlockAllocPtr

-----------------------------------------------------------------------------
(* allocateLarge                                                           *)

\* Mutant: the header of the new chunk is forgotten.
SplitNoHeader(c, sz) == [addr |-> c.addr + Header + sz, size |-> c.size - sz]

\* What is left of the free chunk c when sz words are cut off its front.
Split(c, sz) == [addr |-> c.addr + Header + sz, size |-> c.size - sz - Header]

Splits(c, sz) == c.size - sz > SizeOfLargeChunk

\* First fit.  A remainder too small for a LargeChunk leaves the list with the
\* chunk, whose header says sz.
FromFreeList(sz, i) ==
  LET c == mLargeFreeList[i]
  IN  /\ c.size >= sz
      /\ \A j \in 1..(i - 1) : mLargeFreeList[j].size < sz
      /\ mLargeFreeList' = IF Splits(c, sz)
                           THEN [mLargeFreeList EXCEPT ![i] = Split(c, sz)]
                           ELSE RemoveAt(mLargeFreeList, i)
      /\ large' = large \cup {[addr |-> c.addr, size |-> sz]}
      /\ UNCHANGED <<mBlockAllocPtr, mBumpPtr, bigBlocks, overrun>>

\* mBumpPtr - sz - sizeof(size_t).  A request of more words than there are below
\* mBumpPtr in the address space wraps around.
Wraps(sz) == sz + Header > Base + mBumpPtr
Lowered(sz) == mBumpPtr - sz - Header + (IF Wraps(sz) THEN AddressLimit ELSE 0)

HasRoom(sz) == Lowered(sz) >= mBlockAllocPtr

\* Without room NULL is returned and nothing has changed: not a step.  A pointer
\* that wrapped around passes the test: the chunk lies outside the pool and around
\* it, and no more is said of what follows.
FromBumpPtr(sz) ==
  /\ \A i \in DOMAIN mLargeFreeList : mLargeFreeList[i].size < sz
  /\ HasRoom(sz)
  /\ mBumpPtr' = Lowered(sz)
  /\ large' = large \cup {[addr |-> Lowered(sz), size |-> sz]}
  /\ overrun' = Wraps(sz)
  /\ UNCHANGED <<mBlockAllocPtr, mLargeFreeList, bigBlocks>>

AllocateLarge(sz) ==
  \/ \E i \in DOMAIN mLargeFreeList : FromFreeList(sz, i)
  \/ FromBumpPtr(sz)

-----------------------------------------------------------------------------
(* deallocateLarge                                                         *)

\* The chunk c belongs before the i-th of the list: the search stops there.
IsPlaceOf(c, i) ==
  /\ \A j \in 1..(i - 1) : mLargeFreeList[j].addr < c.addr
  /\ \A j \in i..Len(mLargeFreeList) : mLargeFreeList[j].addr > c.addr

\* The neighbours i and i + 1 of the list made one if they touch.
MergeAt(s, i) ==
  IF i \in 1..(Len(s) - 1) /\ End(s[i]) = s[i + 1].addr
  THEN RemoveAt([s EXCEPT ![i].size = @ + Header + s[i + 1].size], i + 1)
  ELSE s

\* Mutant: the next chunk is not merged.
MergePrevOnly(s, i) == MergeAt(s, i - 1)

\* The chunk at i is merged with its predecessor, then the result with the next.
Merge(s, i) ==
  LET t == MergeAt(s, i - 1)
  IN  MergeAt(t, IF Len(t) < Len(s) THEN i - 1 ELSE i)

\* deallocate() has found with isLargeChunk where the chunk belongs.
DeallocateLarge(c) ==
  /\ c \in large
  /\ IsLargeChunk(c)
  /\ large' = large \ {c}
  /\ IF c.addr = mBumpPtr
     THEN /\ mBumpPtr' = End(c)
          /\ UNCHANGED mLargeFreeList
     ELSE /\ \E i \in 1..(Len(mLargeFreeList) + 1) :
               /\ IsPlaceOf(c, i)
               /\ mLargeFreeList' = Merge(InsertAt(mLargeFreeList, i, c), i)
          /\ UNCHANGED mBumpPtr
  /\ UNCHANGED <<mBlockAllocPtr, bigBlocks, overrun>>

-----------------------------------------------------------------------------
(* allocateBlocks: mBlockAllocPtr moves before the test, and is not moved   *)
(* back.  Beyond the pool all its values compare alike, and it rests at    *)
(* the first of them.                                                      *)

Grows == mBlockAllocPtr + BigBlockSize <= mBumpPtr

MoveBlockAllocPtr ==
  /\ ~overrun
  /\ mBlockAllocPtr' = IF mBlockAllocPtr > PoolSize THEN mBlockAllocPtr
                       ELSE mBlockAllocPtr + BigBlockSize
  /\ bigBlocks' = IF Grows THEN bigBlocks \cup {mBlockAllocPtr} ELSE bigBlocks
  /\ UNCHANGED <<mBumpPtr, mLargeFreeList, large, overrun>>

LargeNext ==
  /\ ~overrun
  /\ \/ \E sz \in Request : AllocateLarge(sz)
     \/ \E c \in large : DeallocateLarge(c)

\* The memory by itself: who asks for it does not matter.
MemorySpec == MemoryInit /\ [][LargeNext \/ MoveBlockAllocPtr]_memory

-----------------------------------------------------------------------------
(* Properties                                                              *)

Extent(c) == c.addr..(End(c) - 1)
Chunks == large \cup ToSet(mLargeFreeList)
BlockExtent(b) == b..(b + BigBlockSize - 1)

MemoryTypeOK ==
  /\ mBlockAllocPtr \in 0..(PoolSize + BigBlockSize) /\ mBumpPtr \in 0..PoolSize
  /\ Chunks \subseteq [addr : 0..(PoolSize - 1), size : Nat]
  /\ bigBlocks \subseteq 0..(PoolSize - 1)

\* Large chunks in use, free large chunks and the blocks at the bottom never
\* overlap, and all large chunks lie between mBumpPtr and the end of the pool.
RegionsDisjoint ==
  /\ \A c \in Chunks : Extent(c) \subseteq mBumpPtr..(PoolSize - 1)
  /\ \A c, d \in Chunks : c # d => Extent(c) \cap Extent(d) = {}
  /\ \A b \in bigBlocks : BlockExtent(b) \subseteq 0..(mBumpPtr - 1)

\* deallocateLarge keeps the list in address order with nothing left to merge:
\* between two free chunks there is always a chunk in use or a lost remainder.
FreeListMerged ==
  \A i \in 1..(Len(mLargeFreeList) - 1) :
    End(mLargeFreeList[i]) < mLargeFreeList[i + 1].addr

\* The memory handed out, as large chunks or as blocks, and the free list are sound
\* after every allocateLarge, deallocateLarge and allocateBlocks, up to a request
\* so large that "mBumpPtr - sz - sizeof(size_t)" (ScalablePoolAllocator.cpp:337)
\* wraps around and is granted.
MemorySafe == ~overrun => MemoryTypeOK /\ RegionsDisjoint /\ FreeListMerged

\* Words above mBumpPtr that are neither in use nor free.
Lost == (mBumpPtr..(PoolSize - 1)) \ UNION {Extent(c) : c \in Chunks}

\* Memory is lost only in an allocation, and then less than a LargeChunk and its
\* header at a time: deallocateLarge gives back every word its header counts.
LossIsBounded ==
  [][~overrun' =>
       /\ Cardinality(Lost' \ Lost) <= SizeOfLargeChunk
       /\ Cardinality(large') <= Cardinality(large) => Lost' \subseteq Lost]_memory

=============================================================================
