------------------------ MODULE MCAtomicBoundedQueue ------------------------
(* AtomicBoundedQueue for TLC; the threads are interchangeable.            *)
EXTENDS AtomicBoundedQueue, TLC
Threads == Permutations(Thread)
=============================================================================
