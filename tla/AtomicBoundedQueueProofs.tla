---------------------- MODULE AtomicBoundedQueueProofs ----------------------
(***************************************************************************)
(* AtomicBoundedQueue is first in, first out, its cells are exclusive, and *)
(* it refuses only at its limits, for any number of threads, any buffer    *)
(* size from two on, and any number of elements.                           *)
(*                                                                         *)
(* The invariant says of every cell whose turn it is: its sequence names   *)
(* the one position of the current window that lives in the cell, and      *)
(* whether the position waits for its producer or for its consumer.  Of    *)
(* modular arithmetic four facts are needed: CellFacts and RoundApart.     *)
(***************************************************************************)
EXTENDS AtomicBoundedQueue, SequenceTheorems, TLAPS

CellOf(p) == p % BufferSize

\* A thread between claim and release of position p.
Pusher(t, p) == Owns(t) /\ op[t] = "push" /\ pos[t] = p
Popper(t, p) == Owns(t) /\ op[t] = "pop" /\ pos[t] = p

\* The cell waits for the producer of position sequence[i], or has it.
ProducersTurn(i) ==
  LET p == sequence[i] IN
  /\ CellOf(p) = i
  /\ dequeue_pos <= p /\ p < dequeue_pos + BufferSize
  /\ p < enqueue_pos => \E t \in Thread : Pusher(t, p)

\* The cell holds the element of position sequence[i] - 1 for its consumer.
ConsumersTurn(i) ==
  LET p == sequence[i] - 1 IN
  /\ p \in Nat /\ CellOf(p) = i
  /\ p < enqueue_pos /\ enqueue_pos <= p + BufferSize
  /\ data[i] = pushed[p + 1]
  /\ p < dequeue_pos => \E t \in Thread : Popper(t, p)

Turns == \A i \in Index : ProducersTurn(i) \/ ConsumersTurn(i)

\* What an owner has claimed, and finds in its cell.
Owners ==
  \A t \in Thread : Owns(t) =>
    /\ op[t] = "push" => /\ pos[t] < enqueue_pos
                         /\ sequence[CellOf(pos[t])] = pos[t]
                         /\ val[t] = pushed[pos[t] + 1]
                         /\ pc[t] = "release" => data[CellOf(pos[t])] = val[t]
    /\ op[t] = "pop" => /\ pos[t] < dequeue_pos
                        /\ sequence[CellOf(pos[t])] = pos[t] + 1

\* A position is claimed once.
OneOwner ==
  \A t, u \in Thread :
    Owns(t) /\ Owns(u) /\ op[t] = op[u] /\ pos[t] = pos[u] => t = u

\* What a thread has loaded is not ahead of the counter, and as long as nobody
\* has been faster, what it has tested is still true.
Tested ==
  \A t \in Thread :
    /\ pc[t] \in {"test", "claim"} => pos[t] <= Counter(t)
    /\ pc[t] = "claim" /\ pos[t] = Counter(t) =>
         sequence[CellOf(pos[t])] = IF op[t] = "push" THEN pos[t] ELSE pos[t] + 1

\* What is being pushed is a value.
Pushes == \A t \in Thread : op[t] = "push" /\ pc[t] # "idle" => val[t] \in Value

\* The counters, and the elements that have come out.
Window ==
  /\ dequeue_pos <= enqueue_pos /\ enqueue_pos <= dequeue_pos + BufferSize
  /\ Len(pushed) = enqueue_pos
Popped == \A e \in popped : e[1] <= Len(pushed) /\ e[2] = pushed[e[1]]

IInv == TypeOK /\ Turns /\ Owners /\ OneOwner /\ Tested /\ Pushes /\ Window /\ Popped

-----------------------------------------------------------------------------
(* Modular arithmetic.                                                     *)

LEMMA DivMod ==
  ASSUME NEW p \in Nat
  PROVE  /\ p % BufferSize \in 0..(BufferSize - 1)
         /\ \E a \in Int : p = BufferSize * a + (p % BufferSize)
<1>1. p % BufferSize \in 0..(BufferSize - 1)
  BY BufferAssumption
<1>2. p = BufferSize * (p \div BufferSize) + (p % BufferSize) /\ (p \div BufferSize) \in Int
  BY BufferAssumption
<1> QED
  BY <1>1, <1>2

\* Multiples of the size are at least the size apart.
LEMMA Multiples ==
  ASSUME NEW a \in Int, NEW b \in Int, a < b
  PROVE  BufferSize * a + BufferSize <= BufferSize * b
<1>1. BufferSize * (a + 1) <= BufferSize * b
  BY BufferAssumption
<1>2. BufferSize * (a + 1) = BufferSize * a + BufferSize
  BY BufferAssumption
<1> QED
  BY <1>1, <1>2

\* The remainder is unique.
LEMMA Remainder ==
  ASSUME NEW a \in Int, NEW b \in Int,
         NEW r \in 0..(BufferSize - 1), NEW s \in 0..(BufferSize - 1),
         BufferSize * a + r = BufferSize * b + s
  PROVE  r = s
<1>0. BufferSize * a \in Int /\ BufferSize * b \in Int
  BY BufferAssumption
<1>1. CASE a < b
  <2>1. BufferSize * a + BufferSize <= BufferSize * b
    BY <1>1, Multiples
  <2> QED
    BY <1>0, <2>1, BufferAssumption
<1>2. CASE b < a
  <2>1. BufferSize * b + BufferSize <= BufferSize * a
    BY <1>2, Multiples
  <2> QED
    BY <1>0, <2>1, BufferAssumption
<1>3. CASE a = b
  BY <1>0, <1>3, BufferAssumption
<1> QED
  BY <1>1, <1>2, <1>3

\* A position has a cell, the next position has another, and a round later the
\* cell is the same.
LEMMA CellFacts ==
  /\ \A p \in Nat : CellOf(p) \in Index
  /\ \A p, q \in Nat : CellOf(p) = CellOf(q) => p # q + 1
  /\ \A p \in Nat : CellOf(p + BufferSize) = CellOf(p)
<1> USE BufferAssumption
<1>1. ASSUME NEW p \in Nat PROVE CellOf(p) \in Index
  BY DivMod DEF CellOf, Index
<1>2. ASSUME NEW p \in Nat, NEW q \in Nat, CellOf(p) = CellOf(q) PROVE p # q + 1
  <2>1. PICK a \in Int, r \in 0..(BufferSize - 1) : p = BufferSize * a + r /\ CellOf(p) = r
    BY DivMod DEF CellOf
  <2>2. PICK b \in Int : q = BufferSize * b + r
    BY <1>2, <2>1, DivMod DEF CellOf
  <2>3. BufferSize * a \in Int /\ BufferSize * b \in Int
    OBVIOUS
  <2>4. CASE a < b
    <3>1. BufferSize * a + BufferSize <= BufferSize * b
      BY <2>4, Multiples
    <3> QED
      BY <2>1, <2>2, <2>3, <3>1
  <2>5. CASE b < a
    <3>1. BufferSize * b + BufferSize <= BufferSize * a
      BY <2>5, Multiples
    <3> QED
      BY <2>1, <2>2, <2>3, <3>1
  <2>6. CASE a = b
    BY <2>1, <2>2, <2>3, <2>6
  <2> QED
    BY <2>4, <2>5, <2>6
<1>3. ASSUME NEW p \in Nat PROVE CellOf(p + BufferSize) = CellOf(p)
  <2> DEFINE q == p + BufferSize
  <2>1. PICK a \in Int, r \in 0..(BufferSize - 1) : p = BufferSize * a + r /\ CellOf(p) = r
    BY DivMod DEF CellOf
  <2>2. q \in Nat
    OBVIOUS
  <2>3. PICK b \in Int, s \in 0..(BufferSize - 1) : q = BufferSize * b + s /\ CellOf(q) = s
    BY <2>2, DivMod DEF CellOf
  <2> DEFINE x == BufferSize * a   y == BufferSize * b   z == BufferSize * (a + 1)
  <2>4. x \in Int /\ y \in Int /\ z \in Int /\ z = x + BufferSize /\ a + 1 \in Int
    OBVIOUS
  <2>5. z + r = y + s
    <3>1. p = x + r /\ p + BufferSize = y + s
      BY <2>1, <2>3
    <3> HIDE DEF x, y, z
    <3> QED
      BY <2>4, <3>1
  <2>6. r = s
    BY <2>4, <2>5, Remainder
  <2> QED
    BY <2>1, <2>3, <2>6
<1> QED
  BY <1>1, <1>2, <1>3

\* Two positions of one cell are at least a round apart.
LEMMA RoundApart ==
  ASSUME NEW p \in Nat, NEW q \in Nat, CellOf(p) = CellOf(q), p < q
  PROVE  p + BufferSize <= q
<1> USE BufferAssumption
<1>1. PICK a \in Int, r \in 0..(BufferSize - 1) : p = BufferSize * a + r /\ CellOf(p) = r
  BY DivMod DEF CellOf
<1>2. PICK b \in Int : q = BufferSize * b + r
  BY <1>1, DivMod DEF CellOf
<1>3. BufferSize * a \in Int /\ BufferSize * b \in Int
  OBVIOUS
<1>4. CASE a < b
  <2>1. BufferSize * a + BufferSize <= BufferSize * b
    BY <1>4, Multiples
  <2> QED
    BY <1>1, <1>2, <1>3, <2>1
<1>5. CASE b < a
  <2>1. BufferSize * b + BufferSize <= BufferSize * a
    BY <1>5, Multiples
  <2> QED
    BY <1>1, <1>2, <1>3, <2>1
<1>6. CASE a = b
  BY <1>1, <1>2, <1>3, <1>6
<1> QED
  BY <1>4, <1>5, <1>6

\* The cell a thread works on.
LEMMA CellIsCellOf == \A t : Cell(t) = CellOf(pos[t])
BY DEF Cell, CellOf

-----------------------------------------------------------------------------
(* The inductive invariant holds initially.                                *)

LEMMA InitIInv == Init => IInv
<1> SUFFICES ASSUME Init PROVE IInv
  OBVIOUS
<1> USE BufferAssumption DEF Init
<1>1. TypeOK
  <2>1. sequence \in [Index -> Nat]
    BY DEF Index
  <2> QED
    BY <2>1 DEF TypeOK, Index
<1>2. Turns
  <2>1. ASSUME NEW i \in Index PROVE ProducersTurn(i)
    <3>1. i \in Nat /\ i \in 0..(BufferSize - 1)
      BY DEF Index
    <3> DEFINE m == i % BufferSize
    <3>2. PICK a \in Int : i = BufferSize * a + m
      BY <3>1, DivMod
    <3>3. m \in 0..(BufferSize - 1)
      BY <3>1, DivMod
    <3> HIDE DEF m
    <3>4. BufferSize * 0 + i = BufferSize * a + m
      BY <3>1, <3>2
    <3>5. i = m
      BY <3>1, <3>3, <3>4, Remainder
    <3>6. CellOf(i) = i
      BY <3>5 DEF CellOf, m
    <3> QED
      BY <3>1, <3>6 DEF ProducersTurn
  <2> QED
    BY <2>1 DEF Turns
<1>3. Owners /\ OneOwner /\ Tested /\ Pushes
  BY DEF Owners, OneOwner, Tested, Pushes, Owns
<1>4. Window /\ Popped
  BY DEF Window, Popped
<1> QED
  BY <1>1, <1>2, <1>3, <1>4 DEF IInv

-----------------------------------------------------------------------------
(* Steps of a thread on its own variables.                                 *)

\* Only thread t moves, and it owns nothing before and after the step.
OnItsOwn(t) ==
  /\ UNCHANGED <<shared, pushed, popped>>
  /\ ~Owns(t) /\ ~Owns(t)'
  /\ \A u \in Thread \ {t} : /\ pc'[u] = pc[u] /\ op'[u] = op[u]
                             /\ pos'[u] = pos[u] /\ val'[u] = val[u]

LEMMA OwnStep ==
  ASSUME IInv, NEW t \in Thread, OnItsOwn(t)
  PROVE  Turns' /\ Owners' /\ OneOwner' /\ Window' /\ Popped'
<1> USE DEF IInv, OnItsOwn, shared
<1>1. \A u \in Thread : Owns(u)' => u # t
  OBVIOUS
<1>2. \A u \in Thread : u # t => (Owns(u)' <=> Owns(u))
  BY DEF Owns
<1>3. \A u \in Thread : \A p : (Pusher(u, p)' <=> Pusher(u, p)) /\ (Popper(u, p)' <=> Popper(u, p))
  BY <1>1, <1>2 DEF Pusher, Popper
<1>4. Turns'
  BY <1>3 DEF Turns, ProducersTurn, ConsumersTurn
<1>5. Owners'
  BY <1>1, <1>2 DEF Owners
<1>6. OneOwner'
  BY <1>1, <1>2 DEF OneOwner
<1>7. Window' /\ Popped'
  BY DEF Window, Popped
<1> QED
  BY <1>4, <1>5, <1>6, <1>7

\* What a step on its own variables leaves to show.
LEMMA OwnStepIInv ==
  ASSUME IInv, NEW t \in Thread, OnItsOwn(t), TypeOK',
         pc'[t] \in {"test", "claim"} => pos'[t] <= Counter(t)',
         pc'[t] = "claim" /\ pos'[t] = Counter(t)' =>
           sequence'[CellOf(pos'[t])] = IF op'[t] = "push" THEN pos'[t] ELSE pos'[t] + 1,
         op'[t] = "push" /\ pc'[t] # "idle" => val'[t] \in Value
  PROVE  IInv'
<1>1. Turns' /\ Owners' /\ OneOwner' /\ Window' /\ Popped'
  BY OwnStep
<1>2. Tested'
  <2>1. ASSUME NEW u \in Thread, u # t PROVE Counter(u)' = Counter(u)
    BY <2>1 DEF Counter, OnItsOwn, shared
  <2> QED
    BY <2>1 DEF IInv, Tested, OnItsOwn, shared
<1>3. Pushes'
  BY DEF IInv, Pushes, OnItsOwn
<1> QED
  BY <1>1, <1>2, <1>3 DEF IInv

LEMMA Update ==
  ASSUME NEW S, NEW R, NEW f \in [S -> R], NEW a \in S, NEW b \in R
  PROVE  /\ [f EXCEPT ![a] = b] \in [S -> R]
         /\ [f EXCEPT ![a] = b][a] = b
         /\ \A c \in S : c # a => [f EXCEPT ![a] = b][c] = f[c]
OBVIOUS

LEMMA OwnSteps ==
  ASSUME IInv, NEW t \in Thread,
         (\E v \in Value : push(t, v)) \/ pop(t) \/ load(t) \/ test(t) \/ claim_fails(t)
  PROVE  IInv'
<1> USE DEF IInv, TypeOK, Goto, OnItsOwn, Owns
<1>1. CASE \E v \in Value : push(t, v)
  <2> PICK v \in Value : push(t, v)
    BY <1>1
  <2> USE DEF push
  <2>1. OnItsOwn(t) /\ pc'[t] = "load" /\ val'[t] = v
    OBVIOUS
  <2>2. TypeOK'
    BY Update DEF shared
  <2> QED
    BY <2>1, <2>2, OwnStepIInv
<1>2. CASE pop(t)
  <2> USE <1>2 DEF pop
  <2>1. OnItsOwn(t) /\ pc'[t] = "load" /\ op'[t] = "pop"
    OBVIOUS
  <2>2. TypeOK'
    BY Update DEF shared
  <2> QED
    BY <2>1, <2>2, OwnStepIInv
<1>3. Counter(t) \in Nat
  BY DEF Counter
<1>4. CASE load(t)
  <2> USE <1>4 DEF load
  <2>1. OnItsOwn(t) /\ pc'[t] = "test" /\ pos'[t] = Counter(t)
    OBVIOUS
  <2>2. TypeOK'
    BY <1>3, Update DEF shared
  <2>3. Counter(t)' = Counter(t)
    BY DEF Counter, shared
  <2>4. op'[t] = "push" /\ pc'[t] # "idle" => val'[t] \in Value
    BY DEF Pushes
  <2>5. pos'[t] <= Counter(t)'
    BY <1>3, <2>1, <2>3
  <2> HIDE DEF IInv, TypeOK, OnItsOwn
  <2> QED
    BY <2>1, <2>2, <2>4, <2>5, OwnStepIInv
<1>5. CASE claim_fails(t)
  <2> USE <1>5 DEF claim_fails
  <2>1. OnItsOwn(t) /\ pc'[t] = "test" /\ pos'[t] = Counter(t)
    OBVIOUS
  <2>2. TypeOK'
    BY <1>3, Update DEF shared
  <2>3. Counter(t)' = Counter(t)
    BY DEF Counter, shared
  <2>4. op'[t] = "push" /\ pc'[t] # "idle" => val'[t] \in Value
    BY DEF Pushes
  <2>5. pos'[t] <= Counter(t)'
    BY <1>3, <2>1, <2>3
  <2> HIDE DEF IInv, TypeOK, OnItsOwn
  <2> QED
    BY <2>1, <2>2, <2>4, <2>5, OwnStepIInv
<1>6. CASE test(t)
  <2> USE <1>6 DEF test
  <2>1. OnItsOwn(t) /\ pc'[t] \in {"claim", "idle", "load"} /\ pos'[t] = pos[t] /\ op'[t] = op[t]
    OBVIOUS
  <2>2. TypeOK'
    BY <2>1, Update DEF shared
  <2>3. Counter(t)' = Counter(t)
    BY DEF Counter, shared
  <2>4. pos[t] <= Counter(t)
    BY DEF Tested
  <2>5. pc'[t] = "claim" =>
          sequence'[CellOf(pos'[t])] = IF op'[t] = "push" THEN pos'[t] ELSE pos'[t] + 1
    <3> SUFFICES ASSUME pc'[t] = "claim"
                 PROVE  sequence[CellOf(pos[t])] = IF op[t] = "push" THEN pos[t] ELSE pos[t] + 1
      BY DEF shared
    <3>1. dif(t) = 0
      OBVIOUS
    <3>2. sequence[CellOf(pos[t])] \in Nat
      BY CellFacts
    <3> QED
      BY <3>1, <3>2, CellIsCellOf DEF dif
  <2>6. op'[t] = "push" /\ pc'[t] # "idle" => val'[t] \in Value
    BY DEF Pushes
  <2> HIDE DEF IInv, TypeOK, OnItsOwn
  <2> QED
    BY <2>1, <2>2, <2>3, <2>4, <2>5, <2>6, OwnStepIInv
<1> QED
  BY <1>1, <1>2, <1>4, <1>5, <1>6

-----------------------------------------------------------------------------
(* What a claim is worth.                                                  *)

\* A cell whose sequence is p is at p's producer's turn, and one whose sequence
\* is p + 1 at p's consumer's: the two cannot be confused, as p and p + 1 live
\* in different cells.
LEMMA WhoseTurn ==
  ASSUME IInv, NEW p \in Nat
  PROVE  /\ sequence[CellOf(p)] = p =>
              ProducersTurn(CellOf(p)) /\ ~ConsumersTurn(CellOf(p))
         /\ sequence[CellOf(p)] = p + 1 =>
              ConsumersTurn(CellOf(p)) /\ ~ProducersTurn(CellOf(p))
<1> DEFINE c == CellOf(p)
<1>1. c \in Index /\ (ProducersTurn(c) \/ ConsumersTurn(c))
  BY CellFacts DEF IInv, Turns
<1>2. sequence[c] = p => ~ConsumersTurn(c)
  <2> SUFFICES ASSUME sequence[c] = p, ConsumersTurn(c) PROVE FALSE
    OBVIOUS
  <2>1. p - 1 \in Nat /\ CellOf(p - 1) = CellOf(p)
    BY DEF ConsumersTurn
  <2> QED
    BY <2>1, CellFacts
<1>3. sequence[c] = p + 1 => ~ProducersTurn(c)
  <2> SUFFICES ASSUME sequence[c] = p + 1, ProducersTurn(c) PROVE FALSE
    OBVIOUS
  <2>1. p + 1 \in Nat /\ CellOf(p + 1) = CellOf(p)
    BY DEF ProducersTurn
  <2> QED
    BY <2>1, CellFacts
<1> QED
  BY <1>1, <1>2, <1>3

LEMMA OwnersTurn ==
  ASSUME IInv, NEW t \in Thread, Owns(t)
  PROVE  /\ op[t] = "push" => ProducersTurn(CellOf(pos[t])) /\ ~ConsumersTurn(CellOf(pos[t]))
         /\ op[t] = "pop" => ConsumersTurn(CellOf(pos[t])) /\ ~ProducersTurn(CellOf(pos[t]))
<1>1. pos[t] \in Nat
  BY DEF IInv, TypeOK
<1> QED
  BY <1>1, WhoseTurn DEF IInv, Owners

\* An owner has its cell for itself.
LEMMA OwnsAlone ==
  ASSUME IInv, NEW t \in Thread, NEW u \in Thread, Owns(t), Owns(u),
         CellOf(pos[t]) = CellOf(pos[u])
  PROVE  t = u
<1>1. pos[t] \in Nat /\ pos[u] \in Nat /\ op[t] \in {"push", "pop"} /\ op[u] \in {"push", "pop"}
  BY DEF IInv, TypeOK
<1>2. op[t] = op[u]
  BY <1>1, OwnersTurn
<1>3. pos[t] = pos[u]
  BY <1>1, <1>2 DEF IInv, Owners
<1> QED
  BY <1>2, <1>3 DEF IInv, OneOwner

-----------------------------------------------------------------------------
(* Claims.                                                                 *)

\* Appending keeps what was pushed.
LEMMA AppendKeeps ==
  ASSUME NEW s \in Seq(Value), NEW v \in Value
  PROVE  /\ Append(s, v) \in Seq(Value)
         /\ Len(Append(s, v)) = Len(s) + 1
         /\ Append(s, v)[Len(s) + 1] = v
         /\ \A k \in 1..Len(s) : Append(s, v)[k] = s[k]
OBVIOUS

LEMMA ClaimPush ==
  ASSUME IInv, NEW t \in Thread, claim(t), op[t] = "push"
  PROVE  IInv'
<1> DEFINE E == enqueue_pos   D == dequeue_pos
<1> USE BufferAssumption DEF IInv
<1>1. /\ pc[t] = "claim" /\ pos[t] = E /\ E < MaxPos
      /\ pc' = [pc EXCEPT ![t] = "use"]
      /\ enqueue_pos' = E + 1 /\ dequeue_pos' = D
      /\ pushed' = Append(pushed, val[t])
      /\ UNCHANGED <<sequence, data, op, pos, val, popped>>
  BY DEF claim, Goto, Counter
<1>2. /\ E \in Nat /\ D \in Nat /\ Len(pushed) = E /\ val[t] \in Value
      /\ pc' \in [Thread -> {"idle", "load", "test", "claim", "use", "release"}]
      /\ pc'[t] = "use" /\ \A u \in Thread : u # t => pc'[u] = pc[u]
  BY <1>1, Update DEF TypeOK, Window, Pushes
<1>3. /\ pushed' \in Seq(Value) /\ Len(pushed') = E + 1
      /\ pushed'[E + 1] = val[t] /\ \A k \in 1..E : pushed'[k] = pushed[k]
  <2>1. pushed \in Seq(Value)
    BY DEF TypeOK
  <2> HIDE DEF IInv
  <2>2. /\ Append(pushed, val[t]) \in Seq(Value)
        /\ Len(Append(pushed, val[t])) = Len(pushed) + 1
        /\ Append(pushed, val[t])[Len(pushed) + 1] = val[t]
        /\ \A k \in 1..Len(pushed) : Append(pushed, val[t])[k] = pushed[k]
    BY <1>2, <2>1, AppendKeeps
  <2> QED
    BY <1>1, <1>2, <2>2
<1>4. TypeOK'
  BY <1>1, <1>2, <1>3 DEF TypeOK
<1>5. sequence[CellOf(E)] = E /\ ProducersTurn(CellOf(E)) /\ E < D + BufferSize
  <2>1. sequence[CellOf(E)] = E
    BY <1>1 DEF Tested, Counter
  <2> QED
    BY <1>2, <2>1, WhoseTurn DEF ProducersTurn
<1>6. /\ \A u \in Thread : Owns(u)' <=> (u = t \/ Owns(u))
      /\ ~Owns(t)
  BY <1>1, <1>2 DEF Owns
<1>7. /\ \A u \in Thread : \A p : Pusher(u, p) => Pusher(u, p)'
      /\ \A u \in Thread : \A p : Popper(u, p) => Popper(u, p)'
      /\ Pusher(t, pos[t])'
  BY <1>1, <1>6 DEF Pusher, Popper
<1>8. Turns'
  <2> SUFFICES ASSUME NEW i \in Index PROVE (ProducersTurn(i) \/ ConsumersTurn(i))'
    BY DEF Turns
  <2>0. sequence[i] \in Nat
    BY DEF TypeOK
  <2>1. CASE ProducersTurn(i)
    <3>1. sequence[i] < E + 1 => sequence[i] < E \/ sequence[i] = E
      BY <1>2, <2>0
    <3>2. ProducersTurn(i)'
      BY <1>1, <1>7, <2>1, <3>1 DEF ProducersTurn
    <3> QED
      BY <3>2
  <2>2. CASE ConsumersTurn(i)
    <3> DEFINE p == sequence[i] - 1
    <3>1. p \in Nat /\ CellOf(p) = i /\ p < E /\ E <= p + BufferSize
      BY <2>2 DEF ConsumersTurn
    <3>2. E # p + BufferSize
      <4> SUFFICES ASSUME E = p + BufferSize PROVE FALSE
        OBVIOUS
      <4>1. CellOf(E) = i
        BY <3>1, CellFacts
      <4> QED
        BY <1>2, <1>5, <2>0, <4>1
    <3>3. E + 1 <= p + BufferSize /\ p < E + 1 /\ p + 1 \in 1..E
      BY <1>2, <3>1, <3>2
    <3>4. ConsumersTurn(i)'
      BY <1>1, <1>3, <1>7, <2>2, <3>1, <3>3 DEF ConsumersTurn
    <3> QED
      BY <3>4
  <2> QED
    BY <2>1, <2>2 DEF Turns
<1>9. Owners'
  <2> SUFFICES ASSUME NEW u \in Thread, Owns(u)'
      PROVE  /\ op[u] = "push" => /\ pos[u] < E + 1
                                  /\ sequence[CellOf(pos[u])] = pos[u]
                                  /\ val[u] = pushed'[pos[u] + 1]
                                  /\ pc'[u] = "release" => data[CellOf(pos[u])] = val[u]
             /\ op[u] = "pop" => /\ pos[u] < D
                                 /\ sequence[CellOf(pos[u])] = pos[u] + 1
    BY <1>1 DEF Owners
  <2>1. CASE u = t
    BY <1>1, <1>2, <1>3, <1>5, <2>1
  <2>2. CASE u # t
    <3>1. Owns(u) /\ pc'[u] = pc[u] /\ pos[u] \in Nat
      BY <1>2, <1>6, <2>2 DEF TypeOK
    <3>2. op[u] = "push" => pos[u] + 1 \in 1..E /\ pos[u] < E + 1
      BY <1>2, <3>1 DEF Owners
    <3> QED
      BY <1>3, <3>1, <3>2 DEF Owners
  <2> QED
    BY <2>1, <2>2
<1>10. OneOwner'
  <2>1. \A u \in Thread : Owns(u) /\ op[u] = "push" => pos[u] # E
    BY <1>2 DEF Owners, TypeOK
  <2> QED
    BY <1>1, <1>6, <2>1 DEF OneOwner
<1>11. Tested'
  <2> SUFFICES ASSUME NEW u \in Thread, pc'[u] \in {"test", "claim"}
      PROVE  /\ pos[u] <= Counter(u)'
             /\ pc'[u] = "claim" /\ pos[u] = Counter(u)' =>
                  sequence[CellOf(pos[u])] = IF op[u] = "push" THEN pos[u] ELSE pos[u] + 1
    BY <1>1 DEF Tested
  <2>1. u # t /\ pc'[u] = pc[u] /\ pos[u] \in Nat
    BY <1>2 DEF TypeOK
  <2>2. pos[u] <= Counter(u)
    BY <2>1 DEF Tested
  <2>3. CASE op[u] = "push"
    BY <1>1, <1>2, <2>1, <2>2, <2>3 DEF Counter
  <2>4. CASE op[u] # "push"
    BY <1>1, <2>1, <2>2, <2>4 DEF Counter, Tested
  <2> QED
    BY <2>3, <2>4
<1>12. Pushes'
  BY <1>1, <1>2 DEF Pushes
<1>13. Window'
  BY <1>1, <1>2, <1>3, <1>5 DEF Window
<1>14. Popped'
  <2>1. \A e \in popped : e[1] \in 1..E
    BY <1>2 DEF Popped, TypeOK
  <2> QED
    BY <1>1, <1>2, <1>3, <2>1 DEF Popped
<1> HIDE DEF IInv
<1> QED
  BY <1>4, <1>8, <1>9, <1>10, <1>11, <1>12, <1>13, <1>14 DEF IInv

LEMMA ClaimPop ==
  ASSUME IInv, NEW t \in Thread, claim(t), op[t] = "pop"
  PROVE  IInv'
<1> DEFINE E == enqueue_pos   D == dequeue_pos
<1> USE BufferAssumption DEF IInv
<1>1. /\ pc[t] = "claim" /\ pos[t] = D
      /\ pc' = [pc EXCEPT ![t] = "use"]
      /\ enqueue_pos' = E /\ dequeue_pos' = D + 1
      /\ UNCHANGED <<sequence, data, op, pos, val, pushed, popped>>
  BY DEF claim, Goto, Counter
<1>2. /\ E \in 0..MaxPos /\ D \in Nat
      /\ pc' \in [Thread -> {"idle", "load", "test", "claim", "use", "release"}]
      /\ pc'[t] = "use" /\ \A u \in Thread : u # t => pc'[u] = pc[u]
  BY <1>1, Update DEF TypeOK
<1>3. sequence[CellOf(D)] = D + 1 /\ ConsumersTurn(CellOf(D)) /\ D < E
  <2>1. sequence[CellOf(D)] = D + 1
    BY <1>1 DEF Tested, Counter
  <2> QED
    BY <1>2, <2>1, WhoseTurn DEF ConsumersTurn
<1>4. TypeOK'
  BY <1>1, <1>2, <1>3 DEF TypeOK
<1>5. /\ \A u \in Thread : Owns(u)' <=> (u = t \/ Owns(u))
      /\ ~Owns(t)
  BY <1>1, <1>2 DEF Owns
<1>6. /\ \A u \in Thread : \A p : Pusher(u, p) => Pusher(u, p)'
      /\ \A u \in Thread : \A p : Popper(u, p) => Popper(u, p)'
      /\ Popper(t, pos[t])'
  BY <1>1, <1>5 DEF Pusher, Popper
<1>7. Turns'
  <2> SUFFICES ASSUME NEW i \in Index PROVE (ProducersTurn(i) \/ ConsumersTurn(i))'
    BY DEF Turns
  <2>0. sequence[i] \in Nat
    BY DEF TypeOK
  <2>1. CASE ProducersTurn(i)
    <3>1. sequence[i] # D
      BY <1>2, <1>3, <2>1 DEF ProducersTurn
    <3>2. D + 1 <= sequence[i] /\ sequence[i] < D + 1 + BufferSize
      BY <1>2, <2>0, <2>1, <3>1 DEF ProducersTurn
    <3>3. ProducersTurn(i)'
      BY <1>1, <1>6, <2>1, <3>2 DEF ProducersTurn
    <3> QED
      BY <3>3
  <2>2. CASE ConsumersTurn(i)
    <3>1. sequence[i] - 1 < D + 1 => sequence[i] - 1 < D \/ sequence[i] - 1 = D
      BY <1>2, <2>0
    <3>2. ConsumersTurn(i)'
      BY <1>1, <1>6, <2>2, <3>1 DEF ConsumersTurn
    <3> QED
      BY <3>2
  <2> QED
    BY <2>1, <2>2 DEF Turns
<1>8. Owners'
  <2> SUFFICES ASSUME NEW u \in Thread, Owns(u)'
      PROVE  /\ op[u] = "push" => /\ pos[u] < E
                                  /\ sequence[CellOf(pos[u])] = pos[u]
                                  /\ val[u] = pushed[pos[u] + 1]
                                  /\ pc'[u] = "release" => data[CellOf(pos[u])] = val[u]
             /\ op[u] = "pop" => /\ pos[u] < D + 1
                                 /\ sequence[CellOf(pos[u])] = pos[u] + 1
    BY <1>1 DEF Owners
  <2>1. CASE u = t
    BY <1>1, <1>2, <1>3, <2>1
  <2>2. CASE u # t
    <3>1. Owns(u) /\ pc'[u] = pc[u] /\ pos[u] \in Nat
      BY <1>2, <1>5, <2>2 DEF TypeOK
    <3>2. op[u] = "pop" => pos[u] < D + 1
      BY <1>2, <3>1 DEF Owners
    <3> QED
      BY <3>1, <3>2 DEF Owners
  <2> QED
    BY <2>1, <2>2
<1>9. OneOwner'
  <2>1. \A u \in Thread : Owns(u) /\ op[u] = "pop" => pos[u] # D
    BY <1>2 DEF Owners, TypeOK
  <2> QED
    BY <1>1, <1>5, <2>1 DEF OneOwner
<1>10. Tested'
  <2> SUFFICES ASSUME NEW u \in Thread, pc'[u] \in {"test", "claim"}
      PROVE  /\ pos[u] <= Counter(u)'
             /\ pc'[u] = "claim" /\ pos[u] = Counter(u)' =>
                  sequence[CellOf(pos[u])] = IF op[u] = "push" THEN pos[u] ELSE pos[u] + 1
    BY <1>1 DEF Tested
  <2>1. u # t /\ pc'[u] = pc[u] /\ pos[u] \in Nat
    BY <1>2 DEF TypeOK
  <2>2. pos[u] <= Counter(u)
    BY <2>1 DEF Tested
  <2>3. CASE op[u] = "push"
    BY <1>1, <2>1, <2>2, <2>3 DEF Counter, Tested
  <2>4. CASE op[u] # "push"
    BY <1>1, <1>2, <2>1, <2>2, <2>4 DEF Counter
  <2> QED
    BY <2>3, <2>4
<1>11. Pushes'
  BY <1>1, <1>2 DEF Pushes
<1>12. Window' /\ Popped'
  BY <1>1, <1>2, <1>3 DEF Window, Popped
<1> HIDE DEF IInv
<1> QED
  BY <1>4, <1>7, <1>8, <1>9, <1>10, <1>11, <1>12 DEF IInv

-----------------------------------------------------------------------------
(* The data of a cell.                                                     *)

LEMMA UsePush ==
  ASSUME IInv, NEW t \in Thread, use(t), op[t] = "push"
  PROVE  IInv'
<1> DEFINE c == CellOf(pos[t])
<1> USE DEF IInv
<1>1. /\ pc[t] = "use" /\ pc' = [pc EXCEPT ![t] = "release"]
      /\ data' = [data EXCEPT ![c] = val[t]]
      /\ UNCHANGED <<enqueue_pos, dequeue_pos, sequence, op, pos, val, pushed, popped>>
  BY CellIsCellOf DEF use, Goto
<1>2. /\ c \in Index /\ pos[t] \in Nat /\ Owns(t)
      /\ pc' \in [Thread -> {"idle", "load", "test", "claim", "use", "release"}]
      /\ pc'[t] = "release" /\ \A u \in Thread : u # t => pc'[u] = pc[u]
  BY <1>1, CellFacts, Update DEF TypeOK, Owns
<1>3. /\ data' \in [Index -> Value \cup {Junk}]
      /\ data'[c] = val[t] /\ \A i \in Index : i # c => data'[i] = data[i]
  BY <1>1, <1>2, Update DEF TypeOK
<1>4. TypeOK'
  BY <1>1, <1>2, <1>3 DEF TypeOK
<1>5. \A u \in Thread : Owns(u)' <=> Owns(u)
  BY <1>1, <1>2 DEF Owns
<1>6. /\ \A u \in Thread : \A p : Pusher(u, p) => Pusher(u, p)'
      /\ \A u \in Thread : \A p : Popper(u, p) => Popper(u, p)'
  BY <1>1, <1>5 DEF Pusher, Popper
<1>7. Turns'
  <2> SUFFICES ASSUME NEW i \in Index PROVE (ProducersTurn(i) \/ ConsumersTurn(i))'
    BY DEF Turns
  <2>1. CASE ProducersTurn(i)
    <3>1. ProducersTurn(i)'
      BY <1>1, <1>6, <2>1 DEF ProducersTurn
    <3> QED
      BY <3>1
  <2>2. CASE ConsumersTurn(i)
    <3>1. i # c
      BY <1>2, <2>2, OwnersTurn
    <3>2. ConsumersTurn(i)'
      BY <1>1, <1>3, <1>6, <2>2, <3>1 DEF ConsumersTurn
    <3> QED
      BY <3>2
  <2> QED
    BY <2>1, <2>2 DEF Turns
<1>8. Owners'
  <2> SUFFICES ASSUME NEW u \in Thread, Owns(u), op[u] = "push", pc'[u] = "release"
               PROVE  data'[CellOf(pos[u])] = val[u]
    BY <1>1, <1>5 DEF Owners
  <2>1. CASE u = t
    BY <1>3, <2>1
  <2>2. CASE u # t
    <3>1. CellOf(pos[u]) # c /\ CellOf(pos[u]) \in Index
      BY <1>2, <2>2, OwnsAlone, CellFacts DEF TypeOK
    <3> QED
      BY <1>2, <1>3, <2>2, <3>1 DEF Owners
  <2> QED
    BY <2>1, <2>2
<1>9. OneOwner'
  BY <1>1, <1>5 DEF OneOwner
<1>10. Tested'
  <2>1. \A u \in Thread : /\ pc'[u] \in {"test", "claim"} => pc[u] = pc'[u]
                          /\ Counter(u)' = Counter(u)
    BY <1>1, <1>2 DEF Counter
  <2> QED
    BY <1>1, <2>1 DEF Tested
<1>11. Pushes'
  BY <1>1, <1>2 DEF Pushes
<1>12. Window' /\ Popped'
  BY <1>1 DEF Window, Popped
<1> HIDE DEF IInv
<1> QED
  BY <1>4, <1>7, <1>8, <1>9, <1>10, <1>11, <1>12 DEF IInv

\* The consumer of position p finds the element pushed at p.
LEMMA UsePop ==
  ASSUME IInv, NEW t \in Thread, use(t), op[t] = "pop"
  PROVE  IInv'
<1> DEFINE c == CellOf(pos[t])
<1> USE DEF IInv
<1>1. /\ pc[t] = "use" /\ pc' = [pc EXCEPT ![t] = "release"]
      /\ val' = [val EXCEPT ![t] = data[c]]
      /\ popped' = popped \cup {<<pos[t] + 1, data[c]>>}
      /\ UNCHANGED <<enqueue_pos, dequeue_pos, sequence, data, op, pos, pushed>>
  BY CellIsCellOf DEF use, Goto
<1>2. /\ c \in Index /\ pos[t] \in Nat /\ Owns(t)
      /\ pc' \in [Thread -> {"idle", "load", "test", "claim", "use", "release"}]
      /\ pc'[t] = "release" /\ \A u \in Thread : u # t => pc'[u] = pc[u]
  BY <1>1, CellFacts, Update DEF TypeOK, Owns
<1>3. ConsumersTurn(c) /\ sequence[c] = pos[t] + 1
  BY <1>2, OwnersTurn DEF Owners
<1>4. data[c] = pushed[pos[t] + 1] /\ pos[t] + 1 \in 1..Len(pushed) /\ pos[t] + 1 \in 1..MaxPos
  <2>1. sequence[c] - 1 = pos[t]
    BY <1>2, <1>3
  <2>2. data[c] = pushed[pos[t] + 1] /\ pos[t] < enqueue_pos
    BY <1>3, <2>1 DEF ConsumersTurn
  <2>3. enqueue_pos \in 0..MaxPos /\ Len(pushed) = enqueue_pos
    BY DEF TypeOK, Window
  <2> HIDE DEF IInv
  <2> QED
    BY <1>2, <2>2, <2>3, BufferAssumption
<1>5. data[c] \in Value
  <2>1. pushed \in Seq(Value)
    BY DEF TypeOK
  <2> HIDE DEF IInv
  <2> QED
    BY <1>4, <2>1, ElementOfSeq
<1>6. /\ val' \in [Thread -> Value \cup {Junk}]
      /\ \A u \in Thread : u # t => val'[u] = val[u]
  BY <1>1, <1>5, Update DEF TypeOK
<1>7. TypeOK'
  BY <1>1, <1>2, <1>4, <1>5, <1>6 DEF TypeOK
<1>8. \A u \in Thread : Owns(u)' <=> Owns(u)
  BY <1>1, <1>2 DEF Owns
<1>9. /\ \A u \in Thread : \A p : Pusher(u, p) => Pusher(u, p)'
      /\ \A u \in Thread : \A p : Popper(u, p) => Popper(u, p)'
  BY <1>1, <1>8 DEF Pusher, Popper
<1>10. Turns'
  BY <1>1, <1>9 DEF Turns, ProducersTurn, ConsumersTurn
<1>11. Owners'
  BY <1>1, <1>2, <1>6, <1>8 DEF Owners
<1>12. OneOwner'
  BY <1>1, <1>8 DEF OneOwner
<1>13. Tested'
  <2>1. \A u \in Thread : /\ pc'[u] \in {"test", "claim"} => pc[u] = pc'[u]
                          /\ Counter(u)' = Counter(u)
    BY <1>1, <1>2 DEF Counter
  <2> QED
    BY <1>1, <2>1 DEF Tested
<1>14. Pushes'
  BY <1>1, <1>2, <1>6 DEF Pushes
<1>15. Window'
  BY <1>1 DEF Window
<1>16. Popped'
  BY <1>1, <1>4 DEF Popped
<1> HIDE DEF IInv
<1> QED
  BY <1>7, <1>10, <1>11, <1>12, <1>13, <1>14, <1>15, <1>16 DEF IInv

-----------------------------------------------------------------------------
(* The cell is passed on.                                                  *)

\* What the sequence stored by a releasing thread does to everybody else: it is
\* nobody else's cell, and nobody's tested cell unless somebody was faster.
LEMMA Release ==
  ASSUME IInv, NEW t \in Thread, release(t),
         (ProducersTurn(CellOf(pos[t])) \/ ConsumersTurn(CellOf(pos[t])))'
  PROVE  IInv'
<1> DEFINE c == CellOf(pos[t])
<1> USE DEF IInv
<1>1. /\ pc[t] = "release" /\ pc' = [pc EXCEPT ![t] = "idle"]
      /\ sequence' = [sequence EXCEPT ![c] = Turn(t)]
      /\ UNCHANGED <<enqueue_pos, dequeue_pos, data, op, pos, val, pushed, popped>>
  BY CellIsCellOf DEF release, Goto
<1>2. /\ c \in Index /\ pos[t] \in Nat /\ Owns(t) /\ op[t] \in {"push", "pop"}
      /\ enqueue_pos \in Nat /\ dequeue_pos \in Nat
      /\ pc' \in [Thread -> {"idle", "load", "test", "claim", "use", "release"}]
      /\ pc'[t] = "idle" /\ \A u \in Thread : u # t => pc'[u] = pc[u]
  BY <1>1, CellFacts, Update DEF TypeOK, Owns
<1>3. Turn(t) \in Nat
  BY <1>2, BufferAssumption DEF Turn
<1>4. /\ sequence' \in [Index -> Nat]
      /\ \A i \in Index : i # c => sequence'[i] = sequence[i]
  BY <1>1, <1>2, <1>3, Update DEF TypeOK
<1>5. TypeOK'
  BY <1>1, <1>2, <1>4 DEF TypeOK
<1>6. \A u \in Thread : Owns(u)' <=> (Owns(u) /\ u # t)
  BY <1>1, <1>2 DEF Owns
<1>7. \A u \in Thread : u # t =>
        \A p : (Pusher(u, p) => Pusher(u, p)') /\ (Popper(u, p) => Popper(u, p)')
  BY <1>1, <1>6 DEF Pusher, Popper
<1>8. Turns'
  <2> SUFFICES ASSUME NEW i \in Index, i # c PROVE (ProducersTurn(i) \/ ConsumersTurn(i))'
    BY <1>1 DEF Turns
  <2>1. CASE ProducersTurn(i)
    <3>1. \A u \in Thread : Pusher(u, sequence[i]) => u # t
      BY <2>1 DEF ProducersTurn, Pusher
    <3>2. ProducersTurn(i)'
      BY <1>1, <1>4, <1>7, <2>1, <3>1 DEF ProducersTurn
    <3> QED
      BY <3>2
  <2>2. CASE ConsumersTurn(i)
    <3>1. \A u \in Thread : Popper(u, sequence[i] - 1) => u # t
      BY <2>2 DEF ConsumersTurn, Popper
    <3>2. ConsumersTurn(i)'
      BY <1>1, <1>4, <1>7, <2>2, <3>1 DEF ConsumersTurn
    <3> QED
      BY <3>2
  <2> QED
    BY <2>1, <2>2 DEF Turns
<1>9. Owners'
  <2>1. ASSUME NEW u \in Thread, Owns(u), u # t
        PROVE  sequence'[CellOf(pos[u])] = sequence[CellOf(pos[u])] /\ pc'[u] = pc[u]
    <3>1. CellOf(pos[u]) # c /\ CellOf(pos[u]) \in Index
      BY <1>2, <2>1, OwnsAlone, CellFacts DEF TypeOK
    <3> QED
      BY <1>2, <1>4, <2>1, <3>1
  <2> QED
    BY <1>1, <1>6, <2>1 DEF Owners
<1>10. OneOwner'
  BY <1>1, <1>6 DEF OneOwner
<1>11. Tested'
  <2>1. \A u \in Thread : Counter(u)' = Counter(u)
    BY <1>1 DEF Counter
  <2>2. ASSUME NEW u \in Thread, pc[u] = "claim", pos[u] = Counter(u)
        PROVE  sequence'[CellOf(pos[u])] = sequence[CellOf(pos[u])]
    <3>0. pos[u] \in Nat /\ CellOf(pos[u]) \in Index /\ op[u] \in {"push", "pop"}
      BY CellFacts DEF TypeOK
    <3> SUFFICES ASSUME CellOf(pos[u]) = c PROVE FALSE
      BY <1>4, <3>0
    <3>1. /\ op[u] = "push" => pos[u] = enqueue_pos /\ sequence[c] = pos[u]
          /\ op[u] = "pop" => pos[u] = dequeue_pos /\ sequence[c] = pos[u] + 1
      BY <2>2 DEF Tested, Counter
    <3>2. /\ op[t] = "push" => ProducersTurn(c) /\ ~ConsumersTurn(c)
          /\ op[t] = "pop" => ConsumersTurn(c) /\ ~ProducersTurn(c)
      BY <1>2, OwnersTurn
    <3>3. /\ op[u] = "push" => ProducersTurn(c)
          /\ op[u] = "pop" => ConsumersTurn(c)
      BY <3>0, <3>1, WhoseTurn
    <3>4. op[u] = op[t]
      BY <1>2, <3>0, <3>2, <3>3
    <3>5. /\ op[t] = "push" => pos[t] < enqueue_pos /\ sequence[c] = pos[t]
          /\ op[t] = "pop" => pos[t] < dequeue_pos /\ sequence[c] = pos[t] + 1
      BY <1>2 DEF Owners
    <3> HIDE DEF IInv
    <3> QED
      BY <1>2, <3>0, <3>1, <3>4, <3>5
  <2>3. \A u \in Thread : pc'[u] \in {"test", "claim"} => pc'[u] = pc[u]
    BY <1>2
  <2> QED
    BY <1>1, <2>1, <2>2, <2>3 DEF Tested
<1>12. Pushes'
  BY <1>1, <1>2 DEF Pushes
<1>13. Window' /\ Popped'
  BY <1>1 DEF Window, Popped
<1> HIDE DEF IInv
<1> QED
  BY <1>5, <1>8, <1>9, <1>10, <1>11, <1>12, <1>13 DEF IInv

\* A producer leaves the cell to the consumer of its position ...
LEMMA ReleasePush ==
  ASSUME IInv, NEW t \in Thread, release(t), op[t] = "push"
  PROVE  IInv'
<1> DEFINE c == CellOf(pos[t])
<1>1. /\ pc[t] = "release" /\ Owns(t)
      /\ sequence' = [sequence EXCEPT ![c] = pos[t] + 1]
      /\ UNCHANGED <<enqueue_pos, dequeue_pos, data, op, pos, val, pushed, popped>>
  BY CellIsCellOf DEF release, Owns, Turn
<1>2. /\ c \in Index /\ pos[t] \in Nat /\ sequence \in [Index -> Nat]
      /\ enqueue_pos \in Nat /\ dequeue_pos \in Nat
  BY CellFacts DEF IInv, TypeOK
<1>3. sequence'[c] - 1 = pos[t]
  BY <1>1, <1>2
<1>4. /\ pos[t] < enqueue_pos /\ data[c] = pushed[pos[t] + 1] /\ sequence[c] = pos[t]
  BY <1>1 DEF IInv, Owners
<1>5. dequeue_pos <= pos[t]
  BY <1>1, <1>4, OwnersTurn DEF ProducersTurn
<1>6. enqueue_pos <= pos[t] + BufferSize
  BY <1>2, <1>5, BufferAssumption DEF IInv, Window
<1>7. ~(pos[t] < dequeue_pos)
  BY <1>2, <1>5
<1>8. ConsumersTurn(c)'
  BY <1>1, <1>2, <1>3, <1>4, <1>6, <1>7 DEF ConsumersTurn
<1> QED
  BY <1>1, <1>8, Release

\* ... and a consumer to the producer of the position one round later.
LEMMA ReleasePop ==
  ASSUME IInv, NEW t \in Thread, release(t), op[t] = "pop"
  PROVE  IInv'
<1> DEFINE c == CellOf(pos[t])
<1>1. /\ pc[t] = "release" /\ Owns(t)
      /\ sequence' = [sequence EXCEPT ![c] = pos[t] + BufferSize]
      /\ UNCHANGED <<enqueue_pos, dequeue_pos, data, op, pos, val, pushed, popped>>
  BY CellIsCellOf DEF release, Owns, Turn
<1>2. /\ c \in Index /\ pos[t] \in Nat /\ sequence \in [Index -> Nat]
      /\ enqueue_pos \in Nat /\ dequeue_pos \in Nat
  BY CellFacts DEF IInv, TypeOK
<1>3. sequence'[c] = pos[t] + BufferSize
  BY <1>1, <1>2
<1>4. pos[t] < dequeue_pos /\ sequence[c] = pos[t] + 1
  BY <1>1 DEF IInv, Owners
<1>5. enqueue_pos <= pos[t] + BufferSize
  <2>1. sequence[c] - 1 = pos[t]
    BY <1>2, <1>4
  <2> QED
    BY <1>1, <2>1, OwnersTurn DEF ConsumersTurn
<1>6. /\ dequeue_pos <= pos[t] + BufferSize
      /\ pos[t] + BufferSize < dequeue_pos + BufferSize
      /\ ~(pos[t] + BufferSize < enqueue_pos)
  BY <1>2, <1>4, <1>5, BufferAssumption DEF IInv, Window
<1>7. CellOf(pos[t] + BufferSize) = c
  BY <1>2, CellFacts
<1>8. ProducersTurn(c)'
  BY <1>1, <1>3, <1>6, <1>7 DEF ProducersTurn
<1> QED
  BY <1>1, <1>8, Release

-----------------------------------------------------------------------------
(* The results.                                                            *)

LEMMA NextIInv == IInv /\ [Next]_vars => IInv'
<1> SUFFICES ASSUME IInv, [Next]_vars PROVE IInv'
  OBVIOUS
<1>1. CASE UNCHANGED vars
  BY <1>1 DEF vars, shared, IInv, TypeOK, Turns, ProducersTurn, ConsumersTurn, Pusher, Popper,
              Owners, OneOwner, Owns, Tested, Counter, Pushes, Window, Popped
<1>2. CASE Next
  <2> PICK t \in Thread : (\E v \in Value : push(t, v)) \/ pop(t) \/ Step(t)
    BY <1>2 DEF Next
  <2>1. op[t] \in {"push", "pop"}
    BY DEF IInv, TypeOK
  <2>2. CASE claim(t)
    BY <2>1, <2>2, ClaimPush, ClaimPop
  <2>3. CASE use(t)
    BY <2>1, <2>3, UsePush, UsePop
  <2>4. CASE release(t)
    BY <2>1, <2>4, ReleasePush, ReleasePop
  <2> QED
    BY <2>2, <2>3, <2>4, OwnSteps DEF Step
<1> QED
  BY <1>1, <1>2

THEOREM Invariance == Spec => []IInv
BY InitIInv, NextIInv, PTL DEF Spec

\* The queue is first in, first out in the order of the claims, holds at most
\* BufferSize elements, never hands out more than was pushed, and no two threads
\* ever have the same cell between claim and release, so that the
\* unsynchronised accesses to a cell's data do not race.
THEOREM BoundedFifoHolds == Spec => []BoundedFifo
<1>1. IInv => BoundedFifo
  <2> SUFFICES ASSUME IInv PROVE BoundedFifo
    OBVIOUS
  <2>1. CellIsExclusive
    BY OwnsAlone, CellIsCellOf DEF CellIsExclusive
  <2> QED
    BY <2>1 DEF BoundedFifo, IInv, Window, Popped
<1> QED
  BY <1>1, Invariance, PTL

\* push() fails only when BufferSize positions are claimed and not consumed, or
\* the consumer of the cell has not released it; pop() only when nothing is
\* claimed by a producer, or the producer of the cell has not released it.
THEOREM FailsOnlyAtLimitHolds == Spec => FailsOnlyAtLimit
<1> DEFINE A == \A t \in Thread : pc[t] = "test" /\ pc'[t] = "idle" =>
       IF op[t] = "push"
         THEN \/ enqueue_pos >= dequeue_pos + BufferSize
              \/ \E u \in Thread : Owns(u) /\ op[u] = "pop" /\ Cell(u) = Cell(t)
         ELSE \/ dequeue_pos >= enqueue_pos
              \/ \E u \in Thread : Owns(u) /\ op[u] = "push" /\ Cell(u) = Cell(t)
<1>1. IInv /\ [Next]_vars => [A]_vars
  <2> SUFFICES ASSUME IInv, Next, NEW t \in Thread, pc[t] = "test", pc'[t] = "idle"
               PROVE  IF op[t] = "push"
                        THEN \/ enqueue_pos >= dequeue_pos + BufferSize
                             \/ \E u \in Thread : Owns(u) /\ op[u] = "pop" /\ Cell(u) = Cell(t)
                        ELSE \/ dequeue_pos >= enqueue_pos
                             \/ \E u \in Thread : Owns(u) /\ op[u] = "push" /\ Cell(u) = Cell(t)
    OBVIOUS
  <2> DEFINE c == CellOf(pos[t])
  <2>0. /\ pos[t] \in Nat /\ c \in Index /\ sequence[c] \in Nat
        /\ enqueue_pos \in Nat /\ dequeue_pos \in Nat
        /\ pc \in [Thread -> {"idle", "load", "test", "claim", "use", "release"}]
        /\ dequeue_pos <= enqueue_pos
    BY CellFacts DEF IInv, TypeOK, Window
  <2>1. test(t)
    <3> PICK w \in Thread : (\E v \in Value : push(w, v)) \/ pop(w) \/ Step(w)
      BY DEF Next
    <3>1. w = t
      BY <2>0 DEF push, pop, Step, load, test, claim, claim_fails, use, release, Goto
    <3> QED
      BY <2>0, <3>1 DEF push, pop, Step, load, test, claim, claim_fails, use, release, Goto
  <2>2. dif(t) < 0
    BY <2>0, <2>1 DEF test, Goto
  <2>3. /\ pos[t] <= Counter(t)
        /\ ProducersTurn(c) \/ ConsumersTurn(c)
    BY <2>0 DEF IInv, Tested, Turns
  <2>4. CASE op[t] = "push"
    <3>1. sequence[c] < pos[t] /\ pos[t] <= enqueue_pos
      BY <2>0, <2>2, <2>3, <2>4, CellIsCellOf DEF dif, Counter
    <3>2. CASE ProducersTurn(c)
      <4>1. CellOf(sequence[c]) = c /\ dequeue_pos <= sequence[c]
        BY <3>2 DEF ProducersTurn
      <4>2. sequence[c] + BufferSize <= pos[t]
        BY <2>0, <3>1, <4>1, RoundApart
      <4> QED
        BY <2>0, <2>4, <3>1, <4>1, <4>2, BufferAssumption
    <3>3. CASE ConsumersTurn(c)
      <4> DEFINE p == sequence[c] - 1
      <4>1. p \in Nat /\ CellOf(p) = c /\ enqueue_pos <= p + BufferSize
        BY <3>3 DEF ConsumersTurn
      <4>2. p + BufferSize <= pos[t]
        <5>1. p < pos[t]
          BY <2>0, <3>1
        <5> HIDE DEF p
        <5> QED
          BY <2>0, <4>1, <5>1, RoundApart
      <4>3. CASE p < dequeue_pos
        <5>1. PICK u \in Thread : Popper(u, p)
          BY <3>3, <4>3 DEF ConsumersTurn
        <5>2. Owns(u) /\ op[u] = "pop" /\ Cell(u) = Cell(t)
          BY <4>1, <5>1, CellIsCellOf DEF Popper
        <5> QED
          BY <2>4, <5>2
      <4>4. CASE ~(p < dequeue_pos)
        <5> HIDE DEF p
        <5> QED
          BY <2>0, <2>4, <3>1, <4>1, <4>2, <4>4, BufferAssumption
      <4> QED
        BY <4>3, <4>4
    <3> QED
      BY <2>3, <3>2, <3>3
  <2>5. CASE op[t] # "push"
    <3>1. sequence[c] < pos[t] + 1 /\ pos[t] <= dequeue_pos
      BY <2>0, <2>2, <2>3, <2>5, CellIsCellOf DEF dif, Counter
    <3>2. CASE ProducersTurn(c)
      <4>1. sequence[c] = pos[t] /\ pos[t] = dequeue_pos
        BY <2>0, <3>1, <3>2 DEF ProducersTurn
      <4>2. CASE sequence[c] < enqueue_pos
        <5>1. PICK u \in Thread : Pusher(u, sequence[c])
          BY <3>2, <4>2 DEF ProducersTurn
        <5>2. Owns(u) /\ op[u] = "push" /\ Cell(u) = Cell(t)
          BY <4>1, <5>1, CellIsCellOf DEF Pusher
        <5> QED
          BY <2>5, <5>2
      <4>3. CASE ~(sequence[c] < enqueue_pos)
        BY <2>0, <2>5, <4>1, <4>3
      <4> QED
        BY <4>2, <4>3
    <3>3. CASE ConsumersTurn(c)
      <4> DEFINE p == sequence[c] - 1
      <4>1. p \in Nat /\ CellOf(p) = c /\ enqueue_pos <= p + BufferSize
        BY <3>3 DEF ConsumersTurn
      <4>2. p + BufferSize <= pos[t]
        <5>1. p < pos[t]
          BY <2>0, <3>1
        <5> HIDE DEF p
        <5> QED
          BY <2>0, <4>1, <5>1, RoundApart
      <4> HIDE DEF p
      <4> QED
        BY <2>0, <2>5, <3>1, <4>1, <4>2, BufferAssumption
    <3> QED
      BY <2>3, <3>2, <3>3
  <2> QED
    BY <2>4, <2>5
<1> QED
  BY <1>1, Invariance, PTL DEF Spec, FailsOnlyAtLimit

=============================================================================
