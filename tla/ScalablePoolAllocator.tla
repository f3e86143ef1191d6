----------------------- MODULE ScalablePoolAllocator -----------------------
(***************************************************************************)
(* The small chunks of ScalablePoolAllocator (core/ScalablePoolAllocator.h *)
(* and .cpp), on top of PoolMemory.  Each thread has bins with blocks of   *)
(* its own; the chunks of a block are freed by its owner into a private    *)
(* list, by others into a public one, and the first foreign free mails the *)
(* block to the owner's bin.  A thread that exits leaves its blocks to a   *)
(* global bin or to the stack of free blocks, and its bins to the next     *)
(* thread.                                                                 *)
(*                                                                         *)
(* There is one size class.  A step is one critical section with what the  *)
(* thread does before it on what only it can reach.  A thread is a slot:   *)
(* after its exit a new thread with a new ThreadID runs in it.             *)
(***************************************************************************)
EXTENDS PoolMemory, FiniteSetsExt, TLC

CONSTANTS
  Thread,
  BlockSize,              \* BLOCK_SIZE, in words
  ChunksPerBlock,         \* chunks of the size class in a block
  AreasPerBlock,          \* thread-local bins in a block used for them
  NULL, INVALID           \* the pointer 0, and the pointer INVALID

ASSUME BlocksAssumption ==
  /\ BlockSize \in Nat \ {0} /\ BigBlockSize % BlockSize = 0
  /\ ChunksPerBlock \in Nat \ {0} /\ AreasPerBlock \in Nat \ {0}

Block == {b \in 0..(PoolSize - 1) : b % BlockSize = 0}
Chunk == Block \X (1..ChunksPerBlock)
BigBlockCount == BigBlockSize \div BlockSize        \* BIG_BLOCK_BLOCK_COUNT
\* The bins of one thread are the i-th area of a block; its address is written
\* as a negative number, which is no block's.
AreaOf(b, i) == -(AreasPerBlock * (b \div BlockSize) + i)
Area == {AreaOf(b, i) : b \in Block, i \in 1..AreasPerBlock}

VARIABLES
  block,                  \* Block -> its header
  bin,                    \* Area -> the Bin of the size class
  mBins,                  \* Thread -> Area, or NULL
  mFreeBlockStack,        \* runs of free blocks: [blk, n], bump pointer n blocks up
  mGlobalBin,             \* stack of blocks without owner
  mTLSChunkList, mTLSAllocBlock, mTLSUsedBlocks, mTLSLeft, mTLSLock,
  live,                   \* chunks clients hold
  pc                      \* Thread -> where it is, with its local variables
tlsVars == <<mTLSChunkList, mTLSAllocBlock, mTLSUsedBlocks, mTLSLeft, mTLSLock>>
poolVars == <<block, bin, mBins, mFreeBlockStack, mGlobalBin, tlsVars, live, pc>>

Idle == [at |-> "idle"]
At(t, l) == pc[t].at = l
Goto(t, p) == pc' = [pc EXCEPT ![t] = p]

\* A list of chunks that ends in NULL or, left by returnPartialBlock, in INVALID.
NullList == [list |-> <<>>, end |-> NULL]

EmptyBin == [list |-> <<>>, mActiveBlock |-> NULL, mMailBox |-> NULL, mMailBoxLock |-> NULL]

\* returnEmptyBlock and a block that was never used.
NoBlock == [mOwnerID |-> NULL, mBumpPtr |-> 0, mFreeList |-> <<>>, mPublicFreeList |-> NullList,
            mAllocationCount |-> 0, mIsFull |-> FALSE, mNextPrivatizable |-> NULL]

\* initEmptyBlock, of the thread t.  mBumpPtr counts the chunks not yet cut off.
EmptyBlock(t) ==
  [NoBlock EXCEPT !.mOwnerID = t, !.mBumpPtr = ChunksPerBlock, !.mNextPrivatizable = mBins[t]]

PoolInit ==
  /\ block = [b \in Block |-> NoBlock]
  /\ bin = [a \in Area |-> EmptyBin]
  /\ mBins = [t \in Thread |-> NULL]
  /\ mFreeBlockStack = <<>> /\ mGlobalBin = <<>>
  /\ mTLSChunkList = <<>> /\ mTLSAllocBlock = NULL /\ mTLSUsedBlocks = <<>>
  /\ mTLSLeft = 0 /\ mTLSLock = NULL
  /\ live = {}
  /\ pc = [t \in Thread |-> Idle]

-----------------------------------------------------------------------------
(* Blocks                                                                  *)

HasChunk(r) == r.mFreeList # <<>> \/ r.mBumpPtr > 0

\* allocateFromFreeList, then allocateFromBumpPtr: the chunk, and the header after.
ChunkOf(r) == IF r.mFreeList # <<>> THEN Head(r.mFreeList) ELSE r.mBumpPtr
WithoutChunk(r) ==
  IF r.mFreeList # <<>>
  THEN [r EXCEPT !.mFreeList = Tail(@), !.mAllocationCount = @ + 1]
  ELSE [r EXCEPT !.mBumpPtr = @ - 1, !.mAllocationCount = @ + 1]

Full(r) == [r EXCEPT !.mIsFull = TRUE]

\* emptyEnoughToUse: 75% of the block is the threshold; it stores its verdict.
EmptyEnough(r) == r.mBumpPtr > 0 \/ 4 * r.mAllocationCount <= 3 * ChunksPerBlock
Judged(r) == [r EXCEPT !.mIsFull = ~EmptyEnough(r)]

RestoreBumpPtr(r) ==
  [r EXCEPT !.mBumpPtr = ChunksPerBlock, !.mFreeList = <<>>, !.mIsFull = FALSE]

\* Mutant: the chunks taken over are still counted as allocated.
PrivatizedUncounted(r) ==
  [r EXCEPT !.mPublicFreeList = NullList, !.mFreeList = r.mPublicFreeList.list \o @]

\* privatizePublicFreeList.
Privatized(r) ==
  [r EXCEPT !.mPublicFreeList = NullList,
            !.mFreeList = r.mPublicFreeList.list \o @,
            !.mAllocationCount = @ - Len(r.mPublicFreeList.list)]

-----------------------------------------------------------------------------
(* The list of blocks of a bin: mPrev is to the left, mNext to the right.  *)

IndexOf(l, b) == SelectInSeq(l, LAMBDA x : x = b)

RemoveBlock(n, b) ==
  LET i == IndexOf(n.list, b)
      l == RemoveAt(n.list, i)
  IN  [n EXCEPT !.list = l,
                !.mActiveBlock = CASE @ # b -> @
                                   [] i > 1 -> n.list[i - 1]
                                   [] l # <<>> -> l[1]
                                   [] OTHER -> NULL]

\* Before the active block, which becomes b only if there was none.
PrependBlock(n, b) ==
  IF n.mActiveBlock = NULL THEN [n EXCEPT !.list = <<b>>, !.mActiveBlock = b]
  ELSE [n EXCEPT !.list = InsertAt(@, IndexOf(@, n.mActiveBlock), b)]

MoveBlockToBinFront(n, b) == PrependBlock(RemoveBlock(n, b), b)

PrependActive(n, b) == [PrependBlock(n, b) EXCEPT !.mActiveBlock = b]

Push(stack, x) == <<x>> \o stack

-----------------------------------------------------------------------------
(* getIndexOrChunkSize<true>: the tree of comparisons as a binary search   *)
(* over [lo, lo + w) in a table of n bin sizes.                            *)

\* Bins the table does not have are never looked at, except in the last pair.
GoLeft(n, mBinSizes, sz, lo, w) ==
  LET mid == lo + w \div 2 - 1 IN (w > 2 /\ n < mid + 2) \/ sz <= mBinSizes[mid]

GetIndex(n, mBinSizes, sz) ==
  LET search[lo \in 0..31, w \in {1, 2, 4, 8, 16, 32}] ==
        IF w = 1 THEN lo
        ELSE search[IF GoLeft(n, mBinSizes, sz, lo, w) THEN lo ELSE lo + w \div 2, w \div 2]
  IN  search[0, 32]

-----------------------------------------------------------------------------
(* allocate.  A call starts at "try", or at "tls" if the thread has no bins *)

\* The chunk is returned to the client.
Return(t, b, r) ==
  /\ live' = live \cup {<<b, ChunkOf(r)>>}
  /\ block' = [block EXCEPT ![b] = WithoutChunk(r)]
  /\ Goto(t, Idle)

Allocate(t) ==
  /\ At(t, "idle")
  /\ Goto(t, [at |-> IF mBins[t] = NULL THEN "tls" ELSE "try"])
  /\ UNCHANGED <<block, bin, mBins, mFreeBlockStack, mGlobalBin, tlsVars, live, memory>>

\* A new area of the TLS block b, of which `left` areas are unused.
TakeArea(t, b, left) ==
  /\ mTLSLeft' = left - 1
  /\ IF left = 1
     THEN mTLSAllocBlock' = NULL /\ mTLSUsedBlocks' = Push(mTLSUsedBlocks, b)
     ELSE mTLSAllocBlock' = b /\ UNCHANGED mTLSUsedBlocks
  /\ mTLSLock' = NULL
  /\ Goto(t, [at |-> "zero", area |-> AreaOf(b, left)])
  /\ UNCHANGED mTLSChunkList

\* allocateTLS.  The lock is kept while getEmptyBlock runs.
AllocateTLS(t) ==
  /\ At(t, "tls")
  /\ mTLSLock = NULL
  /\ CASE mTLSChunkList # <<>> ->
            /\ Goto(t, [at |-> "zero", area |-> Head(mTLSChunkList)])
            /\ mTLSChunkList' = Tail(mTLSChunkList)
            /\ UNCHANGED <<mTLSAllocBlock, mTLSUsedBlocks, mTLSLeft, mTLSLock>>
       [] mTLSChunkList = <<>> /\ mTLSAllocBlock # NULL ->
            TakeArea(t, mTLSAllocBlock, mTLSLeft)
       [] OTHER ->
            /\ mTLSLock' = t
            /\ Goto(t, [at |-> "pop", use |-> "tls"])
            /\ UNCHANGED <<mTLSChunkList, mTLSAllocBlock, mTLSUsedBlocks, mTLSLeft>>
  /\ UNCHANGED <<block, bin, mBins, mFreeBlockStack, mGlobalBin, live, memory>>

\* The area is cleared, mail box and lock included, after the unlock.
ZeroTLS(t) ==
  /\ At(t, "zero")
  /\ bin' = [bin EXCEPT ![pc[t].area] = EmptyBin]
  /\ mBins' = [mBins EXCEPT ![t] = pc[t].area]
  /\ Goto(t, [at |-> "try"])
  /\ UNCHANGED <<block, mFreeBlockStack, mGlobalBin, tlsVars, live, memory>>

\* From the active block leftwards; blocks that have nothing are marked full.
TryActiveBlocks(t) ==
  LET a == mBins[t]
      l == bin[a].list
      k == IF bin[a].mActiveBlock = NULL THEN 0 ELSE IndexOf(l, bin[a].mActiveBlock)
      found == {j \in 1..k : HasChunk(block[l[j]])}
      first == IF found = {} THEN 0 ELSE Max(found)
      marked == [b \in Block |-> IF b \in {l[j] : j \in (first + 1)..k}
                                 THEN Full(block[b]) ELSE block[b]]
  IN  /\ At(t, "try")
      /\ IF found # {}
         THEN /\ live' = live \cup {<<l[first], ChunkOf(block[l[first]])>>}
              /\ block' = [marked EXCEPT ![l[first]] = WithoutChunk(@)]
              /\ Goto(t, Idle)
         ELSE /\ block' = marked
              /\ Goto(t, [at |-> "mail"])
              /\ UNCHANGED live
      /\ bin' = IF k = 0 THEN bin
                ELSE [bin EXCEPT ![a].mActiveBlock = l[IF found = {} THEN 1 ELSE first]]
      /\ UNCHANGED <<mBins, mFreeBlockStack, mGlobalBin, tlsVars, memory>>

\* Mutant: the block taken out of the mail box is not made mailable again.
TakeMailAndKeepLink(t) ==
  LET a == mBins[t]
      b == bin[a].mMailBox
  IN  /\ b # NULL
      /\ bin' = [bin EXCEPT ![a].mMailBox = block[b].mNextPrivatizable]
      /\ UNCHANGED block
      /\ Goto(t, [at |-> "privatize", blk |-> b, from |-> "mail"])

TakeMail(t) ==
  LET a == mBins[t]
      b == bin[a].mMailBox
  IN  /\ b # NULL
      /\ bin' = [bin EXCEPT ![a].mMailBox = block[b].mNextPrivatizable]
      /\ block' = [block EXCEPT ![b].mNextPrivatizable = a]
      /\ Goto(t, [at |-> "privatize", blk |-> b, from |-> "mail"])

GetPublicFreeListBlock(t) ==
  /\ At(t, "mail")
  /\ bin[mBins[t]].mMailBoxLock = NULL
  /\ \/ TakeMail(t)
     \/ /\ bin[mBins[t]].mMailBox = NULL
        /\ Goto(t, [at |-> "partial"])
        /\ UNCHANGED <<block, bin>>
  /\ UNCHANGED <<mBins, mFreeBlockStack, mGlobalBin, tlsVars, live, memory>>

\* getPartialBlock up to the call of privatizePublicFreeList.
GetPartialBlock(t) ==
  /\ At(t, "partial")
  /\ IF mGlobalBin = <<>>
     THEN /\ Goto(t, [at |-> "pop", use |-> "chunk"])
          /\ UNCHANGED <<block, mGlobalBin>>
     ELSE LET b == Head(mGlobalBin)
          IN  /\ mGlobalBin' = Tail(mGlobalBin)
              /\ block' = [block EXCEPT ![b].mOwnerID = t, ![b].mNextPrivatizable = mBins[t]]
              /\ Goto(t, [at |-> "privatize", blk |-> b, from |-> "global"])
  /\ UNCHANGED <<bin, mBins, mFreeBlockStack, tlsVars, live, memory>>

\* The mailed block moves to the front if it is empty enough, and gives a chunk.
UseMailedBlock(t, b) ==
  LET r == Judged(Privatized(block[b]))
  IN  /\ bin' = IF r.mIsFull THEN bin
                ELSE [bin EXCEPT ![mBins[t]] = MoveBlockToBinFront(@, b)]
      /\ IF r.mFreeList # <<>> THEN Return(t, b, r)
         ELSE /\ block' = [block EXCEPT ![b] = r]
              /\ Goto(t, [at |-> "try"])
              /\ UNCHANGED live

\* The block from the global bin becomes the active one.
UsePartialBlock(t, b) ==
  LET p == Privatized(block[b])
      r == IF p.mAllocationCount = 0 THEN RestoreBumpPtr(p) ELSE Judged(p)
  IN  /\ bin' = [bin EXCEPT ![mBins[t]] = PrependActive(@, b)]
      /\ IF HasChunk(r) THEN Return(t, b, r)
         ELSE /\ block' = [block EXCEPT ![b] = Full(r)]
              /\ Goto(t, [at |-> "partial"])
              /\ UNCHANGED live

PrivatizePublicFreeList(t) ==
  /\ At(t, "privatize")
  /\ \/ pc[t].from = "mail" /\ UseMailedBlock(t, pc[t].blk)
     \/ pc[t].from = "global" /\ UsePartialBlock(t, pc[t].blk)
  /\ UNCHANGED <<mBins, mFreeBlockStack, mGlobalBin, tlsVars, memory>>

-----------------------------------------------------------------------------
(* getEmptyBlock, called by allocate and, with mTLSLock, by allocateTLS    *)

\* What the caller does with the empty block b.
UseEmptyBlock(t, b) ==
  IF pc[t].use = "tls"
  THEN /\ TakeArea(t, b, AreasPerBlock)
       /\ block' = [block EXCEPT ![b] = EmptyBlock(t)]
       /\ UNCHANGED <<bin, live>>
  ELSE /\ bin' = [bin EXCEPT ![mBins[t]] = PrependActive(@, b)]
       /\ Return(t, b, EmptyBlock(t))
       /\ UNCHANGED tlsVars

\* The topmost block of the run is taken; what is left of it is pushed again.
PopFreeBlock(t) ==
  /\ At(t, "pop")
  /\ IF mFreeBlockStack = <<>>
     THEN /\ Goto(t, [pc[t] EXCEPT !.at = "grow"])
          /\ UNCHANGED <<block, bin, tlsVars, live, mFreeBlockStack>>
     ELSE LET e == Head(mFreeBlockStack)
          IN  /\ mFreeBlockStack' = Tail(mFreeBlockStack)
              /\ IF e.n = 1 THEN UseEmptyBlock(t, e.blk)
                 ELSE /\ Goto(t, [at |-> "push", use |-> pc[t].use,
                                  run |-> [e EXCEPT !.n = @ - 1]])
                      /\ UNCHANGED <<block, bin, tlsVars, live>>
  /\ UNCHANGED <<mBins, mGlobalBin, memory>>

\* The block that was cut off the run e.
TakenBlock(e) == e.blk + BlockSize * e.n

PushRest(t) ==
  /\ At(t, "push")
  /\ mFreeBlockStack' = Push(mFreeBlockStack, pc[t].run)
  /\ UseEmptyBlock(t, TakenBlock(pc[t].run))
  /\ UNCHANGED <<mBins, mGlobalBin, memory>>

AllocateBlocks ==
  /\ MoveBlockAllocPtr
  /\ mFreeBlockStack' =
       IF Grows THEN Push(mFreeBlockStack, [blk |-> mBlockAllocPtr, n |-> BigBlockCount])
       ELSE mFreeBlockStack

\* Out of memory: allocate returns NULL, allocateTLS gives up its lock.
Grow(t) ==
  /\ At(t, "grow")
  /\ AllocateBlocks
  /\ Goto(t, IF Grows THEN [pc[t] EXCEPT !.at = "pop"] ELSE Idle)
  /\ mTLSLock' = IF ~Grows /\ mTLSLock = t THEN NULL ELSE mTLSLock
  /\ UNCHANGED <<block, bin, mBins, mGlobalBin, live,
                 mTLSChunkList, mTLSAllocBlock, mTLSUsedBlocks, mTLSLeft>>

-----------------------------------------------------------------------------
(* deallocate                                                              *)

\* Nothing is allocated, and no foreign free waits to be taken over.
IsUnused(r) == r.mAllocationCount = 0 /\ r.mPublicFreeList = NullList

\* processLessUsedBlock keeps the active block and the one to its left, and gives
\* any other to the stack of free blocks.
KeepsBlock(n, b) ==
  \E j \in DOMAIN n.list :
    /\ n.list[j] = b
    /\ b = n.mActiveBlock \/ (j < Len(n.list) /\ n.list[j + 1] = n.mActiveBlock)

\* By the owner.
FreePrivateChunk(t, b, i) ==
  LET a == mBins[t]
      n == bin[a]
      r == [block[b] EXCEPT !.mFreeList = Push(@, i), !.mAllocationCount = @ - 1]
  IN  /\ CASE r.mIsFull ->
                /\ block' = [block EXCEPT ![b] = Judged(r)]
                /\ bin' = IF EmptyEnough(r) THEN [bin EXCEPT ![a] = MoveBlockToBinFront(@, b)]
                          ELSE bin
                /\ UNCHANGED mFreeBlockStack
           [] ~r.mIsFull /\ IsUnused(r) /\ ~KeepsBlock(n, b) ->
                /\ block' = [block EXCEPT ![b] = NoBlock]
                /\ bin' = [bin EXCEPT ![a] = RemoveBlock(@, b)]
                /\ mFreeBlockStack' = Push(mFreeBlockStack, [blk |-> b, n |-> 1])
           [] ~r.mIsFull /\ IsUnused(r) /\ KeepsBlock(n, b) ->
                /\ block' = [block EXCEPT ![b] = RestoreBumpPtr(r)]
                /\ UNCHANGED <<bin, mFreeBlockStack>>
           [] OTHER ->
                /\ block' = [block EXCEPT ![b] = r]
                /\ UNCHANGED <<bin, mFreeBlockStack>>
      /\ Goto(t, Idle)

\* The public list was NULL: this free has to mail the block.
FirstOfList(l) == l = NullList

\* By another thread: freePublicChunk, the critical section of mPublicFreeListLock.
FreePublicChunk(t, b, i) ==
  /\ block' = [block EXCEPT ![b].mPublicFreeList.list = Push(@, i)]
  /\ Goto(t, IF FirstOfList(block[b].mPublicFreeList)
             THEN [at |-> "first", blk |-> b] ELSE Idle)
  /\ UNCHANGED <<bin, mFreeBlockStack>>

\* Any thread may free any chunk a client holds.
Deallocate(t, c) ==
  /\ At(t, "idle")
  /\ c \in live
  /\ live' = live \ {c}
  /\ IF block[c[1]].mOwnerID = t THEN FreePrivateChunk(t, c[1], c[2])
     ELSE FreePublicChunk(t, c[1], c[2])
  /\ UNCHANGED <<mBins, mGlobalBin, tlsVars, memory>>

\* The bin is read from the block.
FindBin(t) ==
  LET a == block[pc[t].blk].mNextPrivatizable
  IN  /\ At(t, "first")
      /\ Goto(t, IF a \in {NULL, INVALID} THEN Idle
                 ELSE [at |-> "link", blk |-> pc[t].blk, area |-> a])
      /\ UNCHANGED <<block, bin, mBins, mFreeBlockStack, mGlobalBin, tlsVars, live, memory>>

\* The block is linked before the mail box, and then stored in it.
LinkMail(t) ==
  /\ At(t, "link")
  /\ bin[pc[t].area].mMailBoxLock = NULL
  /\ bin' = [bin EXCEPT ![pc[t].area].mMailBoxLock = t]
  /\ block' = [block EXCEPT ![pc[t].blk].mNextPrivatizable = bin[pc[t].area].mMailBox]
  /\ Goto(t, [pc[t] EXCEPT !.at = "store"])
  /\ UNCHANGED <<mBins, mFreeBlockStack, mGlobalBin, tlsVars, live, memory>>

StoreMail(t) ==
  /\ At(t, "store")
  /\ bin' = [bin EXCEPT ![pc[t].area].mMailBox = pc[t].blk, ![pc[t].area].mMailBoxLock = NULL]
  /\ Goto(t, Idle)
  /\ UNCHANGED <<block, mBins, mFreeBlockStack, mGlobalBin, tlsVars, live, memory>>

-----------------------------------------------------------------------------
(* BinTLSCleanUpFunction: the blocks left of the active one, then the rest *)

ExitOrder(n) ==
  LET k == IndexOf(n.list, n.mActiveBlock)
  IN  IF n.mActiveBlock = NULL THEN <<>>
      ELSE Reverse(SubSeq(n.list, 1, k - 1)) \o SubSeq(n.list, k, Len(n.list))

Exit(t) ==
  /\ At(t, "idle")
  /\ mBins[t] # NULL
  /\ Goto(t, [at |-> "leave", todo |-> ExitOrder(bin[mBins[t]])])
  /\ bin' = [bin EXCEPT ![mBins[t]].list = <<>>, ![mBins[t]].mActiveBlock = NULL]
  /\ UNCHANGED <<block, mBins, mFreeBlockStack, mGlobalBin, tlsVars, live, memory>>

\* A list on which nobody has freed is closed: no free will mail the block.
Close(b) == block' = [block EXCEPT ![b].mPublicFreeList.end = INVALID]

\* Mutant: it waits for a mail without asking whether anyone has freed.
ReturnPartialBlock_Unasked(t, b) ==
  /\ Goto(t, [pc[t] EXCEPT !.at = IF block[b].mNextPrivatizable = mBins[t]
                                  THEN "wait" ELSE "give"])
  /\ UNCHANGED block

\* returnPartialBlock up to the wait.
ReturnPartialBlock(t, b) ==
  IF block[b].mNextPrivatizable = mBins[t] /\ block[b].mPublicFreeList = NullList
  THEN Close(b) /\ Goto(t, [pc[t] EXCEPT !.at = "give"])
  ELSE /\ Goto(t, [pc[t] EXCEPT !.at = IF block[b].mNextPrivatizable = mBins[t]
                                       THEN "wait" ELSE "give"])
       /\ UNCHANGED block

LeaveBlock(t) ==
  LET b == Head(pc[t].todo)
  IN  /\ At(t, "leave")
      /\ pc[t].todo # <<>>
      /\ IF IsUnused(block[b])
         THEN /\ block' = [block EXCEPT ![b] = NoBlock]
              /\ mFreeBlockStack' = Push(mFreeBlockStack, [blk |-> b, n |-> 1])
              /\ Goto(t, [pc[t] EXCEPT !.todo = Tail(@)])
         ELSE ReturnPartialBlock(t, b) /\ UNCHANGED mFreeBlockStack
      /\ UNCHANGED <<bin, mBins, mGlobalBin, tlsVars, live, memory>>

\* "need to wait for the other thread finishes freeing the object"
WaitForMail(t) ==
  /\ At(t, "wait")
  /\ block[Head(pc[t].todo)].mNextPrivatizable # mBins[t]
  /\ Goto(t, [pc[t] EXCEPT !.at = "give"])
  /\ UNCHANGED <<block, bin, mBins, mFreeBlockStack, mGlobalBin, tlsVars, live, memory>>

GiveBlock(t) ==
  LET b == Head(pc[t].todo)
  IN  /\ At(t, "give")
      /\ block' = [block EXCEPT ![b].mOwnerID = 0, ![b].mNextPrivatizable = INVALID]
      /\ mGlobalBin' = Push(mGlobalBin, b)
      /\ Goto(t, [at |-> "leave", todo |-> Tail(pc[t].todo)])
      /\ UNCHANGED <<bin, mBins, mFreeBlockStack, tlsVars, live, memory>>

DeallocateTLS(t) ==
  /\ At(t, "leave")
  /\ pc[t].todo = <<>>
  /\ mTLSLock = NULL
  /\ mTLSChunkList' = Push(mTLSChunkList, mBins[t])
  /\ mBins' = [mBins EXCEPT ![t] = NULL]
  /\ Goto(t, Idle)
  /\ UNCHANGED <<block, bin, mFreeBlockStack, mGlobalBin, live, memory,
                 mTLSAllocBlock, mTLSUsedBlocks, mTLSLeft, mTLSLock>>

-----------------------------------------------------------------------------

\* A foreign free is about to store a block in bins that have been cleared for a
\* new thread: what follows is undefined.
StrayMail ==
  \E f, t \in Thread :
    /\ At(f, "store")
    /\ mBins[t] = pc[f].area
    /\ pc[f].blk \notin ToSet(bin[mBins[t]].list)
    /\ pc[t].at \notin {"leave", "wait", "give"}

\* What a thread does once it has been called.
Step(t) ==
  /\ ~StrayMail
  /\ \/ AllocateTLS(t) \/ ZeroTLS(t) \/ TryActiveBlocks(t)
     \/ GetPublicFreeListBlock(t) \/ GetPartialBlock(t) \/ PrivatizePublicFreeList(t)
     \/ PopFreeBlock(t) \/ PushRest(t) \/ Grow(t)
     \/ FindBin(t) \/ LinkMail(t) \/ StoreMail(t)
     \/ LeaveBlock(t) \/ WaitForMail(t) \/ GiveBlock(t) \/ DeallocateTLS(t)

Call(t) ==
  /\ ~StrayMail
  /\ \/ Allocate(t)
     \/ \E c \in live : Deallocate(t, c)
     \/ Exit(t)

PoolNext == \E t \in Thread : Call(t) \/ Step(t)

\* The allocator: threads that use small chunks, and any that use large ones.
PoolSpec ==
  /\ PoolInit /\ MemoryInit
  /\ [][PoolNext \/ (LargeNext /\ UNCHANGED poolVars)]_<<memory, poolVars>>

-----------------------------------------------------------------------------
(* Properties                                                              *)

Count(s, x) == Cardinality({i \in DOMAIN s : s[i] = x})

PoolTypeOK ==
  /\ block \in [Block ->
       [mOwnerID : Thread \cup {0, NULL}, mBumpPtr : 0..ChunksPerBlock, mFreeList : Seq(Nat),
        mPublicFreeList : [list : Seq(Nat), end : {NULL, INVALID}], mAllocationCount : Nat,
        mIsFull : BOOLEAN, mNextPrivatizable : Area \cup Block \cup {NULL, INVALID}]]
  /\ bin \in [Area -> [list : Seq(Block), mActiveBlock : Block \cup {NULL},
                       mMailBox : Block \cup {NULL}, mMailBoxLock : Thread \cup {NULL}]]
  /\ mBins \in [Thread -> Area \cup {NULL}]
  /\ live \subseteq Chunk

\* How often the chunk c is in the client's hands, in a list or not cut off yet.
Places(c) ==
  LET r == block[c[1]]
  IN  (IF c \in live THEN 1 ELSE 0) + Count(r.mFreeList, c[2])
      + Count(r.mPublicFreeList.list, c[2]) + (IF c[2] <= r.mBumpPtr THEN 1 ELSE 0)

\* Blocks in use for chunks.
Used == {b \in Block : block[b].mOwnerID \in Thread \cup {0}} \ 
          ({mTLSAllocBlock} \cup ToSet(mTLSUsedBlocks))

\* Every chunk of a block in use has exactly one place, so none is handed out
\* twice or leaked, and mAllocationCount counts those in use and those in the
\* public list: a block is never given back with a chunk outside.
ChunksConserved ==
  /\ \A b \in Used :
       /\ \A i \in 1..ChunksPerBlock : Places(<<b, i>>) = 1
       /\ block[b].mAllocationCount =
            Cardinality({i \in 1..ChunksPerBlock : <<b, i>> \in live})
            + Len(block[b].mPublicFreeList.list)
  /\ \A c \in live : c[1] \in Used

\* The runs of free blocks, the one a thread is cutting included.
Runs == ToSet(mFreeBlockStack) \cup {pc[t].run : t \in {u \in Thread : At(u, "push")}}
Cut == {TakenBlock(pc[t].run) : t \in {u \in Thread : At(u, "push")}}
FreeBlocks == UNION {{e.blk + BlockSize * i : i \in 0..(e.n - 1)} : e \in Runs}

\* The blocks in the hands of a thread: its bin's, those it still has to leave,
\* and one it has popped off the global bin.
Owned(t) ==
  (IF mBins[t] = NULL THEN {} ELSE ToSet(bin[mBins[t]].list))
  \cup (IF pc[t].at \in {"leave", "wait", "give"} THEN ToSet(pc[t].todo) ELSE {})
  \cup (IF At(t, "privatize") THEN {pc[t].blk} ELSE {})

Homes ==
  [t \in Thread |-> Owned(t)] @@
  [h \in {"free", "cut", "global", "tls"} |->
     CASE h = "free" -> FreeBlocks [] h = "cut" -> Cut [] h = "global" -> ToSet(mGlobalBin)
       [] OTHER -> ToSet(mTLSUsedBlocks) \cup ({mTLSAllocBlock} \ {NULL})]

\* Every block that was cut off the pool is in one place only: a run of the free
\* stack, one thread's hands, the global bin, or the blocks of thread-local bins.
BlocksConserved ==
  /\ \A h, g \in DOMAIN Homes : h # g => Homes[h] \cap Homes[g] = {}
  /\ UNION {Homes[h] : h \in DOMAIN Homes}
       = {b \in Block : \E k \in bigBlocks : b \in BlockExtent(k)}
  /\ \A t \in Thread : \A b \in Owned(t) : block[b].mOwnerID = t

\* Nothing the pool manages is lost or in two places: chunks and blocks, through
\* private and foreign frees, exits and blocks that change hands.
PoolConserved == PoolTypeOK /\ ChunksConserved /\ BlocksConserved

\* The chain of a mail box.
MailChain(a) ==
  LET chain[n \in 0..Cardinality(Block)] ==
        IF n = 0 THEN (IF bin[a].mMailBox = NULL THEN <<>> ELSE <<bin[a].mMailBox>>)
        ELSE LET s == chain[n - 1]
             IN  IF s = <<>> \/ Last(s) \notin Block \/ block[Last(s)].mNextPrivatizable = NULL
                 THEN s ELSE Append(s, block[Last(s)].mNextPrivatizable)
  IN  chain[Cardinality(Block)]

\* The threads that have to mail the block b, or are taking it out of the mail.
Carriers(b) ==
  {t \in Thread : pc[t].at \in {"first", "link", "store"} /\ pc[t].blk = b}
  \cup {t \in Thread : At(t, "privatize") /\ pc[t].blk = b}

\* A foreign free is never forgotten: a block of a running thread that has public
\* frees is in that thread's mail box exactly once, or exactly one thread is on
\* its way with it; a block without is neither.  A block in the global bin is
\* closed: a foreign free will not try to mail it.
MailIsComplete ==
  /\ \A b \in ToSet(mGlobalBin) :
       block[b].mPublicFreeList # NullList /\ block[b].mNextPrivatizable = INVALID
  /\ \A t \in Thread : mBins[t] # NULL /\ pc[t].at \notin {"leave", "wait", "give"} =>
       \A b \in ToSet(bin[mBins[t]].list) :
         Count(MailChain(mBins[t]), b) + Cardinality(Carriers(b))
           = IF block[b].mPublicFreeList = NullList THEN 0 ELSE 1

\* Every call returns, an exit that waits for a foreign free included.
CallsReturn == \A t \in Thread : ~At(t, "idle") ~> At(t, "idle") \/ StrayMail
=============================================================================
