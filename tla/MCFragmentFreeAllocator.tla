---------------------- MODULE MCFragmentFreeAllocator ----------------------
(* FragmentFreeAllocator for TLC; FragmentPointer and MutablePointer       *)
(* addresses are interchangeable.                                          *)
EXTENDS FragmentFreeAllocator, TLC
Addresses == Permutations(Ref) \cup Permutations(Handle)

Rank(b) == SelectInSeq(Blocks, LAMBDA c : c = b)
Nameless(c) ==
  [c EXCEPT !.nextFree = Rank(@), !.prevFree = Rank(@),
            !.nextBlock = Rank(@), !.prevBlock = Rank(@),
            !.pointerReference = IF c.free THEN NULL ELSE @]
View ==
  <<[i \in DOMAIN Blocks |-> Nameless(heap[Blocks[i]])],
    Cardinality({b \in Block : heap[b] # NULL}), Rank(mFragmentBlockHeadFree),
    [p \in Ref |-> Rank(mPointerToBlockMap[p])],
    mAllocatedSize, data, handle, last, status>>
=============================================================================
