------------------------- MODULE AtomicBoundedQueue -------------------------
(***************************************************************************)
(* AtomicBoundedQueue (include/core/AtomicBoundedQueue.h): a lock-free     *)
(* bounded queue for any number of producers and consumers.                *)
(*                                                                         *)
(* Position p uses cell p % BufferSize.  The cell's sequence says whose    *)
(* turn it is: p for the producer of p, p + 1 for its consumer, and        *)
(* p + BufferSize for the producer of the next round.  A thread claims a   *)
(* position by compare-and-swap, uses the cell's data without              *)
(* synchronisation, and passes the cell on by storing the sequence.        *)
(*                                                                         *)
(* Positions are natural numbers: a size_t does not wrap while a thread is *)
(* preempted.  Each access to an atomic or to the data is one step, and    *)
(* steps are sequentially consistent.                                      *)
(***************************************************************************)
EXTENDS Integers, Sequences

CONSTANTS
  Thread,                 \* the threads that push and pop
  Value,                  \* the elements
  Junk,                   \* content of a cell that was never written
  BufferSize,             \* buffer_mask + 1
  MaxPos                  \* bound: number of elements pushed

\* buffer_size >= 2; it is a power of two so that & is %.
ASSUME BufferAssumption ==
  /\ BufferSize \in Nat /\ BufferSize >= 2
  /\ MaxPos \in Nat
  /\ Junk \notin Value

Index == 0..(BufferSize - 1)

VARIABLES
  enqueue_pos, dequeue_pos,
  sequence, data,         \* the cells
  op,                     \* per thread: "push" or "pop"
  pc,                     \* per thread: "idle", "load", "test", "claim", "use", "release"
  pos,                    \* per thread: the local pos
  val,                    \* per thread: what it pushes, or popped
  pushed, popped          \* history: value pushed at each position (from 1); <<position, value>> popped

shared == <<enqueue_pos, dequeue_pos, sequence, data>>
vars   == <<shared, op, pc, pos, val, pushed, popped>>

Init ==
  /\ enqueue_pos = 0 /\ dequeue_pos = 0
  /\ sequence = [i \in Index |-> i]
  /\ data = [i \in Index |-> Junk]
  /\ op = [t \in Thread |-> "push"]
  /\ pc = [t \in Thread |-> "idle"]
  /\ pos = [t \in Thread |-> 0]
  /\ val = [t \in Thread |-> Junk]
  /\ pushed = <<>> /\ popped = {}

Cell(t) == pos[t] % BufferSize
Goto(t, label) == pc' = [pc EXCEPT ![t] = label]

\* The position counter the thread works on.
Counter(t) == IF op[t] = "push" THEN enqueue_pos ELSE dequeue_pos

-----------------------------------------------------------------------------
push(t, v) ==
  /\ pc[t] = "idle"
  /\ op' = [op EXCEPT ![t] = "push"]
  /\ val' = [val EXCEPT ![t] = v]
  /\ Goto(t, "load")
  /\ UNCHANGED <<shared, pos, pushed, popped>>

pop(t) ==
  /\ pc[t] = "idle"
  /\ op' = [op EXCEPT ![t] = "pop"]
  /\ val' = [val EXCEPT ![t] = Junk]
  /\ Goto(t, "load")
  /\ UNCHANGED <<shared, pos, pushed, popped>>

\* pos = enqueue_pos.load(), or dequeue_pos.load()
load(t) ==
  /\ pc[t] = "load"
  /\ pos' = [pos EXCEPT ![t] = Counter(t)]
  /\ Goto(t, "test")
  /\ UNCHANGED <<shared, op, val, pushed, popped>>

\* dif, from the sequence of the cell
dif(t) == sequence[Cell(t)] - (IF op[t] = "push" THEN pos[t] ELSE pos[t] + 1)

\* Mutant of test: gives up when another thread was faster.
test_GivesUp(t) ==
  /\ pc[t] = "test"
  /\ Goto(t, IF dif(t) = 0 THEN "claim" ELSE "idle")
  /\ UNCHANGED <<shared, op, pos, val, pushed, popped>>

\* The sequence is loaded: the thread's turn, full or empty, or too late.
test(t) ==
  /\ pc[t] = "test"
  /\ Goto(t, IF dif(t) = 0 THEN "claim" ELSE IF dif(t) < 0 THEN "idle" ELSE "load")
  /\ UNCHANGED <<shared, op, pos, val, pushed, popped>>

\* Mutant of claim: stores the next position without comparing.
claim_NoCompare(t) ==
  /\ pc[t] = "claim"
  /\ Goto(t, "use")
  /\ IF op[t] = "push"
       THEN /\ pos[t] < MaxPos
            /\ enqueue_pos' = pos[t] + 1
            /\ pushed' = Append(SubSeq(pushed, 1, pos[t]), val[t])
            /\ UNCHANGED dequeue_pos
       ELSE /\ dequeue_pos' = pos[t] + 1
            /\ UNCHANGED <<enqueue_pos, pushed>>
  /\ UNCHANGED <<sequence, data, op, pos, val, popped>>

\* compare_exchange_weak(pos, pos + 1) succeeds.
claim(t) ==
  /\ pc[t] = "claim"
  /\ Counter(t) = pos[t]
  /\ Goto(t, "use")
  /\ IF op[t] = "push"
       THEN /\ enqueue_pos < MaxPos
            /\ enqueue_pos' = enqueue_pos + 1
            /\ pushed' = Append(pushed, val[t])
            /\ UNCHANGED dequeue_pos
       ELSE /\ dequeue_pos' = dequeue_pos + 1
            /\ UNCHANGED <<enqueue_pos, pushed>>
  /\ UNCHANGED <<sequence, data, op, pos, val, popped>>

\* ... or fails, possibly for no reason, and loads the counter into pos.
claim_fails(t) ==
  /\ pc[t] = "claim"
  /\ pos' = [pos EXCEPT ![t] = Counter(t)]
  /\ Goto(t, "test")
  /\ UNCHANGED <<shared, op, val, pushed, popped>>

\* cell->data = data, or data = cell->data
use(t) ==
  /\ pc[t] = "use"
  /\ IF op[t] = "push"
       THEN /\ data' = [data EXCEPT ![Cell(t)] = val[t]]
            /\ UNCHANGED <<val, popped>>
       ELSE /\ val' = [val EXCEPT ![t] = data[Cell(t)]]
            /\ popped' = popped \cup {<<pos[t] + 1, data[Cell(t)]>>}
            /\ UNCHANGED data
  /\ Goto(t, "release")
  /\ UNCHANGED <<enqueue_pos, dequeue_pos, sequence, op, pos, pushed>>

\* The sequence the thread stores: the consumer's turn, or the next round.
Turn(t) == IF op[t] = "push" THEN pos[t] + 1 ELSE pos[t] + BufferSize

release(t) ==
  /\ pc[t] = "release"
  /\ sequence' = [sequence EXCEPT ![Cell(t)] = Turn(t)]
  /\ Goto(t, "idle")
  /\ UNCHANGED <<enqueue_pos, dequeue_pos, data, op, pos, val, pushed, popped>>

-----------------------------------------------------------------------------
Step(t) ==
  load(t) \/ test(t) \/ claim(t) \/ claim_fails(t) \/ use(t) \/ release(t)

Next ==
  \E t \in Thread : (\E v \in Value : push(t, v)) \/ pop(t) \/ Step(t)

Spec == Init /\ [][Next]_vars

-----------------------------------------------------------------------------
TypeOK ==
  /\ enqueue_pos \in 0..MaxPos /\ dequeue_pos \in 0..MaxPos
  /\ sequence \in [Index -> Nat]
  /\ data \in [Index -> Value \cup {Junk}]
  /\ op \in [Thread -> {"push", "pop"}]
  /\ pc \in [Thread -> {"idle", "load", "test", "claim", "use", "release"}]
  /\ pos \in [Thread -> Nat]
  /\ val \in [Thread -> Value \cup {Junk}]
  /\ pushed \in Seq(Value)
  /\ popped \subseteq (1..MaxPos) \X Value

\* Between its claim and its release a thread has the cell for itself: the
\* unsynchronised accesses to data never race.
Owns(t) == pc[t] \in {"use", "release"}
CellIsExclusive ==
  \A t, u \in Thread : t # u /\ Owns(t) /\ Owns(u) => Cell(t) # Cell(u)

\* The consumer that claims position p gets the value pushed at p, so the
\* queue is first in, first out in the order of the claims, for any number
\* of rounds through the buffer.  It holds at most BufferSize claimed elements
\* and never hands out more than was pushed.
BoundedFifo ==
  /\ TypeOK /\ CellIsExclusive
  /\ \A e \in popped : e[1] <= Len(pushed) /\ e[2] = pushed[e[1]]
  /\ dequeue_pos <= enqueue_pos
  /\ enqueue_pos <= dequeue_pos + BufferSize

\* push() fails only when the queue is full and pop() only when it is empty,
\* counting claims that are not released yet.
FailsOnlyAtLimit ==
  [][\A t \in Thread : pc[t] = "test" /\ pc'[t] = "idle" =>
       IF op[t] = "push"
         THEN \/ enqueue_pos >= dequeue_pos + BufferSize
              \/ \E u \in Thread : Owns(u) /\ op[u] = "pop" /\ Cell(u) = Cell(t)
         ELSE \/ dequeue_pos >= enqueue_pos
              \/ \E u \in Thread : Owns(u) /\ op[u] = "push" /\ Cell(u) = Cell(t)
    ]_vars

=============================================================================
