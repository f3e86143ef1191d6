---------------------- MODULE MCScalablePoolAllocator ----------------------
(* ScalablePoolAllocator for TLC, in three uses.  In "large" only large     *)
(* chunks and blocks are taken.  In the other two a large chunk holds the   *)
(* top of the pool and one big block fits below it: in "owner" the thread   *)
(* t1 allocates, exits and comes back while the others free its chunks, in  *)
(* "peers" all allocate, up to MaxLive chunks at the time of a call.        *)
EXTENDS ScalablePoolAllocator

CONSTANTS t1, MaxLive
VARIABLE use

SmallPool ==
  /\ mBlockAllocPtr = 0 /\ mLargeFreeList = <<>> /\ bigBlocks = {} /\ overrun = FALSE
  /\ mBumpPtr = BigBlockSize
  /\ large = {[addr |-> BigBlockSize, size |-> PoolSize - BigBlockSize - Header]}

Init ==
  /\ PoolInit
  /\ \/ use = "large" /\ MemoryInit
     \/ use \in {"owner", "peers"} /\ SmallPool

MayAllocate(t) == IF use = "owner" THEN t = t1 ELSE Cardinality(live) < MaxLive

SmallNext(t) ==
  \/ MayAllocate(t) /\ ~StrayMail /\ Allocate(t)
  \/ ~StrayMail /\ \E c \in live : Deallocate(t, c)
  \/ t = t1 /\ ~StrayMail /\ Exit(t)
  \/ Step(t)

Next ==
  /\ UNCHANGED use
  /\ \/ use = "large" /\ LargeNext /\ UNCHANGED poolVars
     \/ use = "large" /\ AllocateBlocks
        /\ UNCHANGED <<block, bin, mBins, mGlobalBin, tlsVars, live, pc>>
     \/ use # "large" /\ \E t \in Thread : SmallNext(t)

vars == <<use, memory, poolVars>>
Spec == Init /\ [][Next]_vars
FairSpec == Spec /\ \A t \in Thread : WF_vars(Step(t) /\ UNCHANGED use)

\* getIndex finds the smallest bin that fits, for tables of every length up to the
\* 32 bins the tree has; only the order of the sizes matters.
ASSUME BinFits ==
  \A n \in 1..32 :
    LET mBinSizes == [i \in 0..31 |-> IF i < n THEN 2 * (i + 1) ELSE 0]
    IN  \A sz \in 1..mBinSizes[n - 1] :
          GetIndex(n, mBinSizes, sz) = CHOOSE i \in 0..(n - 1) :
            sz <= mBinSizes[i] /\ \A j \in 0..(i - 1) : mBinSizes[j] < sz
=============================================================================
