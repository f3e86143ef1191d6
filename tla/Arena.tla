------------------------------- MODULE Arena -------------------------------
(***************************************************************************)
(* What an allocator over one contiguous pool promises: live extents never *)
(* overlap, a request is refused only when no contiguous gap is large      *)
(* enough (so released neighbours must have been merged), and compaction   *)
(* packs the extents in order at the front, leaving one gap at the back.   *)
(***************************************************************************)
EXTENDS Integers, FiniteSets, FiniteSetsExt

CONSTANTS
  Ref,                    \* names of extents
  Size,                   \* the sizes that can be asked for
  PoolSize,               \* bytes in the pool
  NULL

VARIABLES
  live,                   \* Ref -> [offset, size], or NULL when not allocated
  last                    \* [size, ok] of the last call if it asked for memory, else NULL

Named == {p \in Ref : live[p] # NULL}

\* [a, a + n) is inside the pool and meets no live extent.  An extent of no
\* bytes still separates what is to its left from what is to its right.
Gap(a, n) ==
  /\ a + n <= PoolSize
  /\ \A p \in Named : live[p].offset >= a + n \/ live[p].offset + live[p].size <= a

Init ==
  /\ live = [p \in Ref |-> NULL]
  /\ last = NULL

Grant(p, a, n) ==
  /\ live[p] = NULL
  /\ Gap(a, n)
  /\ live' = [live EXCEPT ![p] = [offset |-> a, size |-> n]]
  /\ last' = [size |-> n, ok |-> TRUE]

\* Asking for no bytes may be refused when the pool is full.
Refuse(n) ==
  /\ ~ \E a \in 0..PoolSize : Gap(a, IF n = 0 THEN 1 ELSE n)
  /\ last' = [size |-> n, ok |-> FALSE]
  /\ UNCHANGED live

Release(p) ==
  /\ live[p] # NULL
  /\ live' = [live EXCEPT ![p] = NULL]
  /\ last' = NULL

Before(p) == {q \in Named : live[q].offset < live[p].offset}

Compact ==
  /\ live' = [p \in Ref |->
                IF live[p] = NULL THEN NULL
                ELSE [offset |-> MapThenSumSet(LAMBDA q : live[q].size, Before(p)),
                      size   |-> live[p].size]]
  /\ last' = NULL

\* A call that finds nothing to release, or that only reads.
Other == last' = NULL /\ UNCHANGED live

Next ==
  \/ \E p \in Ref, a \in 0..PoolSize, n \in Size : Grant(p, a, n)
  \/ \E n \in Size : Refuse(n)
  \/ \E p \in Ref : Release(p)
  \/ Compact
  \/ Other

Spec == Init /\ [][Next]_<<live, last>>
=============================================================================
