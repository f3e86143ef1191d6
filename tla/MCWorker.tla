------------------------------ MODULE MCWorker ------------------------------
(* Worker for TLC.                                                         *)
EXTENDS Worker

CONSTANTS c1, c2, c3, w1, w2

Uses(clients, threads, maxCalls, use) ==
  [clients |-> clients, threads |-> threads, maxCalls |-> maxCalls, use |-> use]

Scenarios ==
  {Uses({c1, c2, c3}, {w1, w2}, 4, {"post", "blocking", "stop"}),
   Uses({c1, c2}, {w1, w2}, 3, Operations),
   Uses({c1}, {w1}, 6, {"post", "blocking"}),
   Uses({c1}, {w1, w2}, 5, {"post", "async", "timed"})}

=============================================================================
