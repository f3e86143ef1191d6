---------------------------- MODULE MCAtomicPipe ----------------------------
(* AtomicPipe for TLC.                                                     *)
EXTENDS AtomicPipe
=============================================================================
