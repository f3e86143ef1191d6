------------------------- MODULE JoinFunctionModule -------------------------
(***************************************************************************)
(* JoinFunctionModule (include/threading/JoinFunctionModule.h): a function *)
(* node f that runs once a message has come in at every one of size input  *)
(* ports, built from two-port join nodes in a tree of levels.              *)
(*                                                                         *)
(* A function node is <<l, j>>: <<0, i>> is inputPorts[i], <<l, j>> with   *)
(* l > 0 the foldNode of the j-th join of the l-th level, counted from 1.  *)
(* A join's port is <<l, j, k>>, k = 0, 1.                                 *)
(*                                                                         *)
(* External: tbb::flow.  A function node of concurrency 1 queues what it   *)
(* is sent and runs its messages one by one; a join node queues at each    *)
(* port and sends a tuple on when every port has a message; messages carry *)
(* the value 0 and are counted.                                            *)
(***************************************************************************)
EXTENDS Integers, Sequences, FiniteSets, FiniteSetsExt, Functions

CONSTANTS
  Sizes,                  \* the numbers of input ports looked at
  MaxMessages             \* bound: messages sent to the input ports in all

VARIABLES
  size,
  levels,                 \* how many nodes each level joins
  connectingInputPort,
  sent,                   \* history: messages sent to each input port
  queued,                 \* messages waiting at each function node
  port,                   \* messages waiting at each port of the joins
  ready,                  \* messages waiting at f
  runs                    \* history: how often f ran

joinvars == <<size, levels, connectingInputPort, sent, queued, port, ready, runs>>

MAX_IN_PORT == 2

\* createJoinLevels(): what each level joins, first the inputs, then as many
\* as the level before has joins, until one is left.
createJoinLevels(n) ==
  LET widths[m \in Nat] ==
        IF (m - 1) \div 2 + 1 > 1 THEN <<m>> \o widths[(m - 1) \div 2 + 1] ELSE <<m>>
  IN widths[n]

\* JoinLevel(): a join for every two, and one for the odd one.
Joins(n) == (n \div MAX_IN_PORT) + (n % MAX_IN_PORT)

JoinNodes == {<<l, j>> \in (1..Len(levels)) \X (0..size) : j < Joins(levels[l])}
FunctionNodes == JoinNodes \union {<<0, i>> : i \in 0..(size - 1)}
Ports == {<<n[1], n[2], k>> : n \in JoinNodes, k \in {0, 1}}

\* The port on level l that the i-th of the n it joins is linked to.
Link(l, i) == <<l, i \div MAX_IN_PORT, i % MAX_IN_PORT>>

\* Mutants of OddLink: the odd one fills one port only; the last one of an
\* even number fills its port twice.
OddLinkNever(l, n, i) == {}
OddLinkAlways(l, n, i) == IF i = n - 1 THEN {<<l, i \div MAX_IN_PORT, 1>>} ELSE {}

\* The last of an odd number fills the other port of its join as well.
OddLink(l, n, i) ==
  IF n % MAX_IN_PORT # 0 /\ i = n - 1 THEN {<<l, i \div MAX_IN_PORT, 1>>} ELSE {}

\* How many messages reach port p when function node n sends one: the edges
\* made for the inputs and by linkTwoJoinLevels.
Edges(n, p) ==
  LET l == n[1] + 1
      width == levels[l]
      from == n[2]
  IN IF n[1] = Len(levels) THEN 0
     ELSE (IF p = Link(l, from) THEN 1 ELSE 0) + (IF p \in OddLink(l, width, from) THEN 1 ELSE 0)

JoinInit ==
  /\ size \in Sizes
  /\ levels = createJoinLevels(size)
  /\ connectingInputPort = 0
  /\ sent = [i \in 0..(size - 1) |-> 0]
  /\ queued = [n \in FunctionNodes |-> 0]
  /\ port = [p \in Ports |-> 0]
  /\ ready = 0
  /\ runs = 0

-----------------------------------------------------------------------------
\* Each input port is handed out once; nothing stops a call too many.
getNextInputPort ==
  /\ connectingInputPort < size
  /\ connectingInputPort' = connectingInputPort + 1
  /\ UNCHANGED <<size, levels, sent, queued, port, ready, runs>>

\* verifyInput(): all ports were handed out.
verifyInput == connectingInputPort = size

\* The node connected to an input port sends a message.
Put(i) ==
  /\ verifyInput
  /\ SumFunction(sent) < MaxMessages
  /\ sent' = [sent EXCEPT ![i] = @ + 1]
  /\ queued' = [queued EXCEPT ![<<0, i>>] = @ + 1]
  /\ UNCHANGED <<size, levels, connectingInputPort, port, ready, runs>>

\* dummyFunc or dummyTP2Func runs and its 0 goes to the node's successors;
\* linkJoinLevels makes f the successor of the last level's one fold node.
RunNode(n) ==
  /\ queued[n] > 0
  /\ queued' = [queued EXCEPT ![n] = @ - 1]
  /\ port' = [p \in DOMAIN port |-> port[p] + Edges(n, p)]
  /\ ready' = ready + (IF n = <<Len(levels), 0>> THEN 1 ELSE 0)
  /\ UNCHANGED <<size, levels, connectingInputPort, sent, runs>>

\* A join sends a tuple to its fold node.
RunJoin(n) ==
  /\ \A k \in {0, 1} : port[<<n[1], n[2], k>>] > 0
  /\ port' = [p \in DOMAIN port |-> IF <<p[1], p[2]>> = n THEN port[p] - 1 ELSE port[p]]
  /\ queued' = [queued EXCEPT ![n] = @ + 1]
  /\ UNCHANGED <<size, levels, connectingInputPort, sent, ready, runs>>

RunF ==
  /\ ready > 0
  /\ ready' = ready - 1
  /\ runs' = runs + 1
  /\ UNCHANGED <<size, levels, connectingInputPort, sent, queued, port>>

\* What tbb's scheduler runs.
Task ==
  \/ \E n \in DOMAIN queued : RunNode(n)
  \/ \E n \in JoinNodes : RunJoin(n)
  \/ RunF

JoinNext == getNextInputPort \/ (\E i \in 0..(size - 1) : Put(i)) \/ Task

-----------------------------------------------------------------------------
\* f is never early: it has run k times only when every input has had k
\* messages, whatever the number of inputs and the order they come in.
RunsAreRounds == \A i \in DOMAIN sent : runs <= sent[i]

\* f is never forgotten: once every input has had k messages it runs for the
\* k-th time.
RoundsRun ==
  \A k \in 1..MaxMessages : ((\A i \in DOMAIN sent : sent[i] >= k) ~> (runs >= k))

=============================================================================
