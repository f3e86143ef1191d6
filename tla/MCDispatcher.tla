---------------------------- MODULE MCDispatcher ----------------------------
(* Dispatcher for TLC.  Context 0 writes to itself too, as in              *)
(* DispatcherThreadTest.                                                   *)
EXTENDS Dispatcher
Pair == {<<0, 0>>, <<1, 0>>}
=============================================================================
