-------------------------- MODULE AtomicPipeProofs --------------------------
(***************************************************************************)
(* What AtomicPipe's runs check for a few messages, proved for any number  *)
(* of them and any Value.                                                  *)
(*                                                                         *)
(* The inductive invariant says where the pointers are: c is NULL or the   *)
(* writer's w, it is NULL only when the reader has caught up with w, and   *)
(* the prefetch pointer r lies between front and w unless it is NULL.      *)
(***************************************************************************)
EXTENDS AtomicPipe, SequenceTheorems, TLAPS

\* The reader is behind the flush point, the flush point behind the completion
\* point, and the completion point within the queue.
Order == front <= w /\ w <= f /\ f <= Len(queue) + 1

\* The shared word is the flush point, or NULL with nothing left to read.
SharedWord == c = w \/ (c = NULL /\ front = w)

\* What is prefetched is flushed.
Prefetch == r = NULL \/ (front <= r /\ r <= w)

\* A writer that found the reader asleep still finds it so, with something to flush.
Asleep == wpc = "asleep" => c = NULL /\ w # f

\* The values read are the prefix of the queue before front.
Delivered ==
  /\ Len(got) = front - 1
  /\ \A i \in 1..Len(got) : got[i] = queue[i]

IInv == TypeOK /\ Order /\ SharedWord /\ Prefetch /\ Asleep /\ Delivered

-----------------------------------------------------------------------------
\* Taking back the last element leaves a sequence that is one shorter and
\* otherwise the same (unwrite).
LEMMA DropLast ==
  ASSUME NEW S, NEW s \in Seq(S), s # <<>>
  PROVE  /\ SubSeq(s, 1, Len(s) - 1) \in Seq(S)
         /\ Len(SubSeq(s, 1, Len(s) - 1)) = Len(s) - 1
         /\ \A i \in 1..(Len(s) - 1) : SubSeq(s, 1, Len(s) - 1)[i] = s[i]
<1> DEFINE n == Len(s) - 1
           t == SubSeq(s, 1, n)
<1>1. n \in Nat /\ \A i \in 1..n : s[i] \in S
  OBVIOUS
<1> HIDE DEF n
<1>2. /\ t \in Seq(S)
      /\ Len(t) = IF 1 <= n THEN n - 1 + 1 ELSE 0
      /\ \A i \in 1..(n - 1 + 1) : t[i] = s[1 + i - 1]
  BY <1>1, SubSeqProperties
<1> HIDE DEF t
<1>3. t \in Seq(S) /\ Len(t) = n /\ \A i \in 1..n : t[i] = s[i]
  <2>1. n - 1 + 1 = n /\ \A i \in 1..n : 1 + i - 1 = i
    BY <1>1
  <2> QED
    BY <1>1, <1>2, <2>1
<1> QED
  BY <1>3 DEF n, t

\* The constructor establishes the invariant.
LEMMA InitIInv == Init => IInv
  BY DEF Init, IInv, TypeOK, Order, SharedWord, Prefetch, Asleep, Delivered, NULL

\* A prefetched cell is in the queue and flushed.
LEMMA PrefetchedIsFlushed == IInv /\ Prefetched => front < w /\ front \in 1..Len(queue)
  BY DEF IInv, TypeOK, Order, Prefetch, Prefetched

\* Every operation of the writer and of the reader preserves the invariant.
LEMMA NextIInv == IInv /\ [Next]_vars => IInv'
<1> SUFFICES ASSUME IInv, [Next]_vars PROVE IInv'
  OBVIOUS
<1> USE DEF NULL
<1>w. ASSUME NEW v \in Value, NEW incomplete \in BOOLEAN, write(v, incomplete)
      PROVE  IInv'
  <2>1. /\ queue' \in Seq(Value)
        /\ Len(queue') = Len(queue) + 1
        /\ \A i \in 1..Len(queue) : queue'[i] = queue[i]
    BY <1>w, AppendProperties DEF IInv, TypeOK, write
  <2>2. f' \in {f, Len(queue) + 2}
    BY <1>w DEF write, back, IInv, TypeOK
  <2>3. UNCHANGED <<front, w, r, c, wpc, got>>
    BY <1>w DEF write
  <2>4. TypeOK' /\ Order' /\ SharedWord' /\ Prefetch'
    BY <2>1, <2>2, <2>3 DEF IInv, TypeOK, Order, SharedWord, Prefetch
  <2>5. Asleep'
    BY <1>w DEF write, Asleep
  <2>6. Delivered'
    BY <2>1, <2>3 DEF IInv, TypeOK, Order, Delivered
  <2> QED
    BY <2>4, <2>5, <2>6 DEF IInv
<1>u. CASE unwrite
  <2>1. queue # <<>> /\ Len(queue) \in Nat /\ f <= Len(queue)
    BY <1>u DEF unwrite, back, IInv, TypeOK, Order
  <2>2. /\ queue' \in Seq(Value)
        /\ Len(queue') = Len(queue) - 1
        /\ \A i \in 1..(Len(queue) - 1) : queue'[i] = queue[i]
    BY <1>u, <2>1, DropLast DEF IInv, TypeOK, unwrite
  <2>3. UNCHANGED <<front, w, f, r, c, wpc, got>>
    BY <1>u DEF unwrite
  <2>4. TypeOK' /\ Order' /\ SharedWord' /\ Prefetch' /\ Asleep'
    BY <2>1, <2>2, <2>3 DEF IInv, TypeOK, Order, SharedWord, Prefetch, Asleep
  <2>5. Delivered'
    BY <2>1, <2>2, <2>3 DEF IInv, TypeOK, Order, Delivered
  <2> QED
    BY <2>4, <2>5 DEF IInv
<1>f. CASE flush_cas
  BY <1>f DEF flush_cas, IInv, TypeOK, Order, SharedWord, Prefetch, Asleep, Delivered
<1>a. CASE flush_asleep
  BY <1>a DEF flush_asleep, IInv, TypeOK, Order, SharedWord, Prefetch, Asleep, Delivered
<1>c. CASE check_read
  BY <1>c DEF check_read, Prefetched, IInv, TypeOK, Order, SharedWord, Prefetch, Asleep, Delivered
<1>r. CASE read
  <2>1. front < w /\ front \in 1..Len(queue) /\ CellAt(front) = queue[front]
    BY <1>r, PrefetchedIsFlushed DEF read, CellAt
  <2>2. queue[front] \in Value
    BY <2>1 DEF IInv, TypeOK
  <2>3. /\ got' \in Seq(Value)
        /\ Len(got') = Len(got) + 1
        /\ got'[Len(got) + 1] = queue[front]
        /\ \A i \in 1..Len(got) : got'[i] = got[i]
    BY <1>r, <2>1, <2>2, AppendProperties DEF IInv, TypeOK, read
  <2>4. front' = front + 1 /\ UNCHANGED <<queue, w, f, r, c, wpc>>
    BY <1>r DEF read
  <2>5. TypeOK' /\ Order' /\ SharedWord' /\ Prefetch' /\ Asleep'
    BY <1>r, <2>1, <2>3, <2>4
    DEF read, Prefetched, IInv, TypeOK, Order, SharedWord, Prefetch, Asleep
  <2>6. Delivered'
    <3>1. Len(got) + 1 = front /\ Len(got) \in Nat
      BY DEF IInv, TypeOK, Delivered
    <3>2. ASSUME NEW i \in 1..Len(got') PROVE got'[i] = queue'[i]
      <4>1. CASE i = Len(got) + 1
        BY <4>1, <3>1, <2>3, <2>4
      <4>2. CASE i \in 1..Len(got)
        BY <4>2, <2>3, <2>4 DEF IInv, Delivered
      <4> QED
        BY <3>1, <2>3, <4>1, <4>2
    <3> QED
      BY <3>1, <3>2, <2>3, <2>4 DEF Delivered
  <2> QED
    BY <2>5, <2>6 DEF IInv
<1>s. CASE UNCHANGED vars
  BY <1>s DEF vars, IInv, TypeOK, Order, SharedWord, Prefetch, Asleep, Delivered
<1> QED
  BY <1>w, <1>u, <1>f, <1>a, <1>c, <1>r, <1>s DEF Next, Writer, Reader

\* The invariant holds in every reachable state.
THEOREM Invariance == Spec => []IInv
  BY InitIInv, NextIInv, PTL DEF Spec

-----------------------------------------------------------------------------
\* The variables keep their types; in particular read never returns a cell
\* that was not written.
THEOREM TypeCorrect == Spec => []TypeOK
<1>1. IInv => TypeOK
  BY DEF IInv
<1> QED
  BY Invariance, <1>1, PTL

\* The values read are the first values written, in order (write, unwrite,
\* flush and read together).
THEOREM FifoHolds == Spec => []Fifo
<1>1. IInv => Fifo
  BY DEF IInv, TypeOK, Order, Delivered, Fifo
<1> QED
  BY Invariance, <1>1, PTL

\* No message of an unflushed or unfinished batch is read.
THEOREM FlushedOnlyHolds == Spec => []FlushedOnly
<1>1. IInv => FlushedOnly
  BY DEF IInv, Order, FlushedOnly, back
<1> QED
  BY Invariance, <1>1, PTL

\* When flush reports a sleeping reader, the reader has drained the pipe.
THEOREM AsleepIsDrainedHolds == Spec => []AsleepIsDrained
<1>1. IInv => AsleepIsDrained
  BY DEF IInv, TypeOK, SharedWord, Prefetch, Asleep, AsleepIsDrained, NULL
<1> QED
  BY Invariance, <1>1, PTL

\* A failed read means that everything flushed was read.
THEOREM FailedReadIsEmptyHolds == Spec => FailedReadIsEmpty
<1>1. IInv /\ [Next]_vars => [check_read /\ r' \in {NULL, front} => front = w]_vars
  BY DEF IInv, TypeOK, SharedWord, check_read, NULL, vars
<1> QED
  BY Invariance, <1>1, PTL DEF Spec, FailedReadIsEmpty

\* A flushed cell keeps its value whatever the writer does later.
THEOREM FlushedIsStableHolds == Spec => FlushedIsStable
<1>1. IInv /\ [Next]_vars => [\A p \in 1..(w - 1) : CellAt(p)' = CellAt(p)]_vars
  <2> SUFFICES ASSUME IInv, Next, NEW p \in 1..(w - 1)
               PROVE  CellAt(p)' = CellAt(p)
    BY DEF vars
  <2>1. p \in 1..Len(queue)
    BY DEF IInv, TypeOK, Order
  <2>w. ASSUME NEW v \in Value, NEW incomplete \in BOOLEAN, write(v, incomplete)
        PROVE  CellAt(p)' = CellAt(p)
    BY <2>1, <2>w, AppendProperties DEF IInv, TypeOK, write, CellAt
  <2>u. CASE unwrite
    <3>1. queue # <<>> /\ Len(queue) \in Nat /\ p \in 1..(Len(queue) - 1)
      BY <2>u DEF unwrite, back, IInv, TypeOK, Order
    <3> QED
      BY <2>1, <2>u, <3>1, DropLast DEF IInv, TypeOK, unwrite, CellAt
  <2>o. CASE flush_cas \/ flush_asleep \/ check_read \/ read
    BY <2>o DEF flush_cas, flush_asleep, check_read, read, CellAt
  <2> QED
    BY <2>w, <2>u, <2>o DEF Next, Writer, Reader
<1> QED
  BY Invariance, <1>1, PTL DEF Spec, FlushedIsStable

-----------------------------------------------------------------------------
(* Slices of a sequence, for the refinement mapping.                       *)

\* What a slice s[m..n] contains.
LEMMA Slice ==
  ASSUME NEW S, NEW s \in Seq(S), NEW m \in Nat \ {0}, NEW n \in Nat,
         n <= Len(s), m <= n + 1
  PROVE  /\ SubSeq(s, m, n) \in Seq(S)
         /\ Len(SubSeq(s, m, n)) = n + 1 - m
         /\ \A i \in 1..(n + 1 - m) : SubSeq(s, m, n)[i] = s[m + i - 1]
<1> DEFINE t == SubSeq(s, m, n)
<1>1. \A i \in m..n : s[i] \in S
  OBVIOUS
<1>2. /\ t \in Seq(S)
      /\ Len(t) = IF m <= n THEN n - m + 1 ELSE 0
      /\ \A i \in 1..(n - m + 1) : t[i] = s[m + i - 1]
  BY <1>1, SubSeqProperties
<1> HIDE DEF t
<1>3. n - m + 1 = n + 1 - m
  OBVIOUS
<1>4. t \in Seq(S) /\ Len(t) = n + 1 - m /\ \A i \in 1..(n + 1 - m) : t[i] = s[m + i - 1]
  BY <1>2, <1>3
<1> QED
  BY <1>4 DEF t

\* A slice depends only on the elements it covers.
LEMMA SliceAgrees ==
  ASSUME NEW S, NEW s \in Seq(S), NEW t \in Seq(S),
         NEW m \in Nat \ {0}, NEW n \in Nat,
         n <= Len(s), n <= Len(t), m <= n + 1,
         \A i \in m..n : s[i] = t[i]
  PROVE  SubSeq(s, m, n) = SubSeq(t, m, n)
<1> DEFINE a == SubSeq(s, m, n)
           b == SubSeq(t, m, n)
<1>1. /\ a \in Seq(S) /\ Len(a) = n + 1 - m
      /\ \A i \in 1..(n + 1 - m) : a[i] = s[m + i - 1]
  BY Slice
<1>2. /\ b \in Seq(S) /\ Len(b) = n + 1 - m
      /\ \A i \in 1..(n + 1 - m) : b[i] = t[m + i - 1]
  BY Slice
<1> HIDE DEF a, b
<1>3. \A i \in 1..(n + 1 - m) : m + i - 1 \in m..n
  OBVIOUS
<1>4. Len(a) = Len(b) /\ \A i \in 1..Len(a) : a[i] = b[i]
  BY <1>1, <1>2, <1>3
<1>5. a = b
  BY <1>1, <1>2, <1>4, SeqEqual
<1> QED
  BY <1>5 DEF a, b

\* A tail slice grows with its sequence (write).
LEMMA SliceAppend ==
  ASSUME NEW S, NEW s \in Seq(S), NEW e \in S,
         NEW m \in Nat \ {0}, m <= Len(s) + 1
  PROVE  SubSeq(Append(s, e), m, Len(s) + 1) = Append(SubSeq(s, m, Len(s)), e)
<1> DEFINE n == Len(s)
           x == Append(s, e)
           a == SubSeq(x, m, n + 1)
           b == SubSeq(s, m, n)
           y == Append(b, e)
<1>0. n \in Nat /\ m <= n + 1
  OBVIOUS
<1>1. x \in Seq(S) /\ Len(x) = n + 1 /\ x[n + 1] = e /\ \A i \in 1..n : x[i] = s[i]
  BY AppendProperties
<1>2. /\ b \in Seq(S) /\ Len(b) = n + 1 - m
      /\ \A i \in 1..(n + 1 - m) : b[i] = s[m + i - 1]
  BY <1>0, Slice
<1> HIDE DEF n, x, b
<1>3. /\ a \in Seq(S) /\ Len(a) = n + 1 + 1 - m
      /\ \A i \in 1..(n + 1 + 1 - m) : a[i] = x[m + i - 1]
  BY <1>0, <1>1, Slice
<1>4. /\ y \in Seq(S) /\ Len(y) = Len(b) + 1 /\ y[Len(b) + 1] = e
      /\ \A i \in 1..Len(b) : y[i] = b[i]
  BY <1>2, AppendProperties
<1> HIDE DEF a, y
<1>5. Len(a) = Len(y)
  BY <1>0, <1>2, <1>3, <1>4
<1>6. ASSUME NEW i \in 1..Len(a) PROVE a[i] = y[i]
  <2>1. CASE i = n + 2 - m
    <3>1. m + i - 1 = n + 1 /\ i = Len(b) + 1
      BY <1>0, <1>2, <2>1
    <3> QED
      BY <1>0, <1>1, <1>3, <1>4, <3>1
  <2>2. CASE i # n + 2 - m
    <3>1. i \in 1..(n + 1 - m) /\ i \in 1..Len(b) /\ m + i - 1 \in 1..n
      BY <1>0, <1>2, <1>3, <2>2
    <3> QED
      BY <1>1, <1>2, <1>3, <1>4, <3>1
  <2> QED
    BY <2>1, <2>2
<1>7. a = y
  BY <1>3, <1>4, <1>5, <1>6, SeqEqual
<1> QED
  BY <1>7 DEF a, y, b, x, n

\* The first k elements of a tail slice, and the rest (flush).
LEMMA SliceSplit ==
  ASSUME NEW S, NEW s \in Seq(S), NEW m \in Nat \ {0}, NEW k \in Nat,
         m + k <= Len(s) + 1
  PROVE  LET t == SubSeq(s, m, Len(s)) IN
         /\ SubSeq(t, 1, k) = SubSeq(s, m, m + k - 1)
         /\ SubSeq(t, k + 1, Len(t)) = SubSeq(s, m + k, Len(s))
<1> DEFINE n == Len(s)
           t == SubSeq(s, m, n)
           a == SubSeq(t, 1, k)
           b == SubSeq(s, m, m + k - 1)
           u == SubSeq(t, k + 1, Len(t))
           v == SubSeq(s, m + k, n)
<1>0. n \in Nat /\ m + k <= n + 1 /\ m + k - 1 \in Nat /\ m <= n + 1
      /\ m + k \in Nat \ {0}
  OBVIOUS
<1>1. /\ t \in Seq(S) /\ Len(t) = n + 1 - m
      /\ \A i \in 1..(n + 1 - m) : t[i] = s[m + i - 1]
  BY <1>0, Slice
<1>2. /\ b \in Seq(S) /\ Len(b) = m + k - 1 + 1 - m
      /\ \A i \in 1..(m + k - 1 + 1 - m) : b[i] = s[m + i - 1]
  BY <1>0, Slice
<1>3. /\ v \in Seq(S) /\ Len(v) = n + 1 - (m + k)
      /\ \A i \in 1..(n + 1 - (m + k)) : v[i] = s[m + k + i - 1]
  BY <1>0, Slice
<1> HIDE DEF n, t, b, v
<1>4. k <= Len(t) /\ Len(t) \in Nat
  BY <1>0, <1>1
<1>5. /\ a \in Seq(S) /\ Len(a) = k + 1 - 1
      /\ \A i \in 1..(k + 1 - 1) : a[i] = t[1 + i - 1]
  BY <1>1, <1>4, Slice
<1>6. /\ u \in Seq(S) /\ Len(u) = Len(t) + 1 - (k + 1)
      /\ \A i \in 1..(Len(t) + 1 - (k + 1)) : u[i] = t[k + 1 + i - 1]
  BY <1>1, <1>4, Slice
<1> HIDE DEF a, u
<1>7. a = b
  <2>1. Len(a) = k /\ Len(b) = k
    BY <1>0, <1>2, <1>5
  <2>2. ASSUME NEW i \in 1..k PROVE a[i] = b[i]
    <3>1. /\ i \in 1..(k + 1 - 1) /\ i \in 1..(m + k - 1 + 1 - m) /\ 1 + i - 1 = i
          /\ i \in 1..(n + 1 - m)
      BY <1>0
    <3> QED
      BY <1>1, <1>2, <1>5, <3>1
  <2> QED
    BY <1>2, <1>5, <2>1, <2>2, SeqEqual
<1>8. u = v
  <2>1. Len(u) = Len(v)
    BY <1>0, <1>1, <1>3, <1>6
  <2>2. ASSUME NEW i \in 1..Len(u) PROVE u[i] = v[i]
    <3>1. /\ i \in 1..(Len(t) + 1 - (k + 1)) /\ i \in 1..(n + 1 - (m + k))
          /\ k + 1 + i - 1 \in 1..(n + 1 - m)
          /\ m + (k + 1 + i - 1) - 1 = m + k + i - 1
      BY <1>0, <1>1, <1>6
    <3> QED
      BY <1>1, <1>3, <1>6, <3>1
  <2> QED
    BY <1>3, <1>6, <2>1, <2>2, SeqEqual
<1> QED
  BY <1>7, <1>8 DEF a, b, u, v, t, n

-----------------------------------------------------------------------------
(* AtomicPipe implements SpscPipe.                                         *)

Staged  == SubSeq(queue, w, Len(queue))
Visible == SubSeq(queue, front, w - 1)

\* The constructor's state maps to an empty pipe.
LEMMA InitRefines == Init => P!PInit
<1> SUFFICES ASSUME Init PROVE P!PInit
  OBVIOUS
<1>1. queue = <<>> /\ w = 1 /\ f = 1 /\ front = 1 /\ got = <<>> /\ Len(queue) = 0
  BY DEF Init
<1>2. SubSeq(queue, 1, 0) = <<>>
  BY SubSeqEmpty
<1> QED
  BY <1>1, <1>2 DEF P!PInit

\* Every step of the implementation is a step of the promised pipe or
\* leaves it alone: flush_cas that succeeds and flush_asleep are Commit.
LEMMA NextRefines == IInv /\ [Next]_vars => [P!PNext]_(P!pvars)
<1> SUFFICES ASSUME IInv, [Next]_vars PROVE [P!PNext]_(P!pvars)
  OBVIOUS
<1>t. /\ queue \in Seq(Value) /\ Len(queue) \in Nat
      /\ front \in Nat \ {0} /\ w \in Nat \ {0} /\ f \in Nat \ {0} /\ w - 1 \in Nat
      /\ front <= w /\ w <= f /\ f <= Len(queue) + 1 /\ w <= Len(queue) + 1
      /\ w - 1 <= Len(queue) /\ front <= (w - 1) + 1
  BY DEF IInv, TypeOK, Order
<1>l. Len(Staged) = Len(queue) + 1 - w
  BY <1>t, Slice DEF Staged
<1>w. ASSUME NEW v \in Value, NEW incomplete \in BOOLEAN, write(v, incomplete)
      PROVE  P!Stage(v, incomplete)
  <2>1. /\ queue' = Append(queue, v) /\ queue' \in Seq(Value) /\ Len(queue') = Len(queue) + 1
        /\ \A i \in 1..Len(queue) : queue[i] = queue'[i]
        /\ UNCHANGED <<front, w, got>>
    BY <1>w, <1>t, AppendProperties DEF write
  <2>2. Staged' = Append(Staged, v)
    BY <2>1, <1>t, SliceAppend DEF Staged
  <2>3. Visible' = Visible
    <3>1. w - 1 <= Len(queue') /\ \A i \in front..(w - 1) : queue[i] = queue'[i]
      BY <2>1, <1>t
    <3>2. SubSeq(queue, front, w - 1) = SubSeq(queue', front, w - 1)
      BY <1>t, <2>1, <3>1, SliceAgrees
    <3> QED
      BY <2>1, <3>2 DEF Visible
  <2>4. (f - w)' = IF incomplete THEN f - w ELSE Len(Staged) + 1
    BY <1>w, <1>t, <1>l, <2>1 DEF write, back
  <2> QED
    BY <2>1, <2>2, <2>3, <2>4 DEF P!Stage, Staged, Visible
<1>u. ASSUME unwrite PROVE P!Unstage
  <2>1. queue # <<>> /\ f <= Len(queue) /\ Len(queue) - 1 \in Nat /\ w <= Len(queue)
    BY <1>u, <1>t DEF unwrite, back
  <2>2. /\ queue' \in Seq(Value) /\ Len(queue') = Len(queue) - 1
        /\ \A i \in 1..(Len(queue) - 1) : queue'[i] = queue[i]
        /\ UNCHANGED <<front, w, f, got>>
    BY <1>u, <1>t, <2>1, DropLast DEF unwrite
  <2>3. Staged' = SubSeq(queue, w, Len(queue) - 1)
    <3>1. SubSeq(queue', w, Len(queue) - 1) = SubSeq(queue, w, Len(queue) - 1)
      BY <1>t, <2>1, <2>2, SliceAgrees
    <3> QED
      BY <3>1, <2>2 DEF Staged
  <2>4. SubSeq(Staged, 1, Len(Staged) - 1) = SubSeq(queue, w, Len(queue) - 1)
    <3> DEFINE k == Len(queue) - w
    <3>1. k \in Nat /\ w + k <= Len(queue) + 1 /\ k = Len(Staged) - 1
          /\ w + k - 1 = Len(queue) - 1
      BY <1>t, <1>l, <2>1
    <3> HIDE DEF k
    <3>2. SubSeq(SubSeq(queue, w, Len(queue)), 1, k) = SubSeq(queue, w, w + k - 1)
      BY <1>t, <3>1, SliceSplit
    <3> QED
      BY <3>1, <3>2 DEF Staged
  <2>5. Visible' = Visible
    <3>1. w - 1 <= Len(queue') /\ \A i \in front..(w - 1) : queue[i] = queue'[i]
      BY <2>1, <2>2, <1>t
    <3>2. SubSeq(queue, front, w - 1) = SubSeq(queue', front, w - 1)
      BY <1>t, <2>2, <3>1, SliceAgrees
    <3> QED
      BY <2>2, <3>2 DEF Visible
  <2>6. Len(Staged) > f - w
    BY <1>t, <1>l, <2>1
  <2> QED
    BY <2>2, <2>3, <2>4, <2>5, <2>6 DEF P!Unstage, Staged, Visible
<1>p. ASSUME w # f, w' = f, UNCHANGED <<queue, front, f, got>> PROVE P!Commit
  <2> DEFINE k == f - w
  <2>1. k \in Nat /\ k > 0 /\ w + k = f /\ w + k <= Len(queue) + 1
        /\ w + k - 1 = f - 1 /\ f - 1 \in Nat
    BY <1>p, <1>t
  <2> HIDE DEF k
  <2>2. /\ SubSeq(Staged, 1, k) = SubSeq(queue, w, f - 1)
        /\ SubSeq(Staged, k + 1, Len(Staged)) = SubSeq(queue, f, Len(queue))
    BY <1>t, <2>1, SliceSplit DEF Staged
  <2>3. SubSeq(queue, front, w - 1) \o SubSeq(queue, w, f - 1) = SubSeq(queue, front, f - 1)
    <3>1. /\ front \in 1..(Len(queue) + 1) /\ w - 1 \in (front - 1)..Len(queue)
          /\ f - 1 \in (w - 1)..Len(queue) /\ (w - 1) + 1 = w
      BY <1>t, <2>1
    <3> QED
      BY <1>t, <3>1, ConcatAdjacentSubSeq
  <2>4. Visible' = Visible \o SubSeq(Staged, 1, k)
    BY <1>p, <2>2, <2>3 DEF Visible
  <2>5. Staged' = SubSeq(Staged, k + 1, Len(Staged))
    BY <1>p, <2>2 DEF Staged
  <2>6. (f - w)' = 0
    BY <1>p, <1>t
  <2> QED
    BY <1>p, <2>1, <2>4, <2>5, <2>6 DEF P!Commit, Staged, Visible, k
<1>r. ASSUME read PROVE P!Take
  <2>1. front < w /\ front \in 1..Len(queue) /\ w - 1 \in front..Len(queue)
        /\ CellAt(front) = queue[front]
    BY <1>r, <1>t, PrefetchedIsFlushed DEF read, CellAt
  <2>2. Head(Visible) = queue[front] /\ Tail(Visible) = SubSeq(queue, front + 1, w - 1)
    BY <1>t, <2>1, HeadTailOfSubSeq DEF Visible
  <2>3. Visible # <<>>
    <3>1. Len(Visible) = (w - 1) + 1 - front
      BY <1>t, Slice DEF Visible
    <3>2. Len(Visible) # 0
      BY <3>1, <2>1, <1>t
    <3> QED
      BY <3>2
  <2>4. /\ got' = Append(got, Head(Visible)) /\ Visible' = Tail(Visible)
        /\ Staged' = Staged /\ (f - w)' = f - w
    BY <1>r, <2>1, <2>2 DEF read, Visible, Staged
  <2> QED
    BY <2>3, <2>4 DEF P!Take, Staged, Visible
<1>s. ASSUME UNCHANGED <<queue, front, w, f, got>> PROVE UNCHANGED P!pvars
  BY <1>s DEF P!pvars
<1>1. ASSUME NEW v \in Value, NEW incomplete \in BOOLEAN, write(v, incomplete)
      PROVE  P!PNext
  BY <1>1, <1>w DEF P!PNext
<1>2. CASE unwrite
  BY <1>2, <1>u DEF P!PNext
<1>3. CASE flush_cas
  <2>1. CASE c = w
    BY <1>3, <2>1, <1>p DEF flush_cas, P!PNext
  <2>2. CASE c # w
    BY <1>3, <2>2, <1>s DEF flush_cas
  <2> QED
    BY <2>1, <2>2
<1>4. CASE flush_asleep
  <2>1. w # f
    BY <1>4 DEF flush_asleep, IInv, Asleep
  <2> QED
    BY <1>4, <2>1, <1>p DEF flush_asleep, P!PNext
<1>5. CASE check_read
  BY <1>5, <1>s DEF check_read
<1>6. CASE read
  BY <1>6, <1>r DEF P!PNext
<1>7. CASE UNCHANGED vars
  BY <1>7, <1>s DEF vars
<1> QED
  BY <1>1, <1>2, <1>3, <1>4, <1>5, <1>6, <1>7 DEF Next, Writer, Reader

\* The lock-free pipe keeps the promise of SpscPipe: messages become visible
\* in whole batches, only when flushed, and are taken once and in order.
THEOREM Refinement == Spec => ImplementsPipe
  BY Invariance, InitRefines, NextRefines, PTL DEF Spec, ImplementsPipe, P!PSpec

=============================================================================
