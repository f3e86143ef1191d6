--------------------------- MODULE ContainerProofs --------------------------
(***************************************************************************)
(* The containers that hold what threads and clients pass on: the          *)
(* ConcurrentQueue loses no wakeup, and a BufferT no cell.                 *)
(*                                                                         *)
(* ConcurrentQueue (with ConditionVariable), for any finite number of      *)
(* threads and any number of elements.  NoLostWakeup is inductive with the *)
(* types: a push adds an element and an awake thread, notify_one passes    *)
(* the duty on to a sleeper, a woken thread leaves only with an element or *)
(* when there is none, and a thread goes to sleep only when there is none. *)
(*                                                                         *)
(* Buffer, for any number of buffers, values of cells and lengths of       *)
(* calls, buffers that grow to at most 2^30 cells, and clients that keep   *)
(* to what Buffer says.  What the client is promised is only about the     *)
(* cells it has still to read; the invariant is about all the cells in its *)
(* view, which rewinds and marks can make unread again.  It says that      *)
(* there is a position a in the memory where the view begins (Represents): *)
(* the cells of the view lie there in order, around the end of a circular  *)
(* buffer, and the read and write positions and the valid marks are as far *)
(* from a as the view says.                                                *)
(* Rewinds, marks and reads leave a alone; a write into a full circular    *)
(* buffer first forgets the oldest cells, which moves a on (Cut); crunch   *)
(* and growth move the unread cells to position 0.                         *)
(***************************************************************************)
EXTENDS ConcurrentQueue, Buffer, FiniteSetTheorems, SequenceTheorems, TLAPS

(* ConcurrentQueue                                                         *)

IInv == TypeOK /\ NoLostWakeup

\* The awake threads can be counted.
LEMMA AwakeFinite == IsFiniteSet(Awake) /\ Cardinality(Awake) \in Nat
<1>1. Awake \in SUBSET Thread
  BY DEF Awake
<1> QED
  BY <1>1, ThreadAssumption, FS_Subset, FS_CardinalityType

\* The empty queue satisfies the invariant.
LEMMA InitIInv == Init => IInv
<1> SUFFICES ASSUME Init PROVE IInv
  OBVIOUS
<1>1. TypeOK
  BY PushAssumption DEF Init, TypeOK
<1>2. NoLostWakeup
  BY DEF Init, NoLostWakeup, Sleepers
<1> QED
  BY <1>1, <1>2 DEF IInv

\* Every step keeps the types.
LEMMA NextTypeOK == TypeOK /\ [Next]_vars => TypeOK'
<1> SUFFICES ASSUME TypeOK, [Next]_vars PROVE TypeOK'
  OBVIOUS
<1>1. ASSUME mQueue # <<>> PROVE Tail(mQueue) \in Seq(Value)
  BY <1>1, HeadTailProperties DEF TypeOK
<1> SUFFICES ASSUME NEW t \in Thread,
               \/ \E v \in Value : push(t, v)
               \/ clear(t) \/ try_pop(t)
               \/ \E deadline \in BOOLEAN : wait_and_pop(t, deadline)
               \/ timeout(t) \/ spurious(t) \/ Continue(t)
             PROVE TypeOK'
  <2>1. CASE UNCHANGED vars
    BY <2>1 DEF vars, TypeOK
  <2> QED
    BY <2>1 DEF Next
<1>2. ASSUME NEW v \in Value, push(t, v) PROVE TypeOK'
  <2>1. Append(mQueue, v) \in Seq(Value)
    BY AppendProperties DEF TypeOK
  <2> QED
    BY <1>2, <2>1, PushAssumption DEF push, TypeOK
<1>3. CASE clear(t)
  BY <1>3 DEF clear, TypeOK
<1>4. CASE try_pop(t)
  BY <1>4, <1>1 DEF try_pop, TypeOK
<1>5. ASSUME NEW deadline \in BOOLEAN, wait_and_pop(t, deadline) PROVE TypeOK'
  <2>1. mQueue' \in Seq(Value) /\ UNCHANGED <<expired, pushes>>
    BY <1>5, <1>1 DEF wait_and_pop, TypeOK
  <2>2. pc[t] = "idle" /\ pc' \in {pc, [pc EXCEPT ![t] = "wait"]}
    BY <1>5 DEF wait_and_pop
  <2>3. timed' \in {timed, [timed EXCEPT ![t] = deadline]}
    BY <1>5 DEF wait_and_pop
  <2> QED
    BY <2>1, <2>2, <2>3 DEF TypeOK
<1>6. CASE timeout(t)
  BY <1>6 DEF timeout, TypeOK
<1>7. CASE spurious(t)
  BY <1>7 DEF spurious, TypeOK
<1>8. CASE notify_one(t)
  <2>1. CASE Sleepers = {}
    BY <1>8, <2>1 DEF notify_one, TypeOK
  <2>2. CASE Sleepers # {}
    BY <1>8, <2>2 DEF notify_one, TypeOK, Sleepers
  <2> QED
    BY <2>1, <2>2
<1>9. CASE resume(t)
  <2>1. CASE mQueue # <<>>
    BY <1>9, <2>1, <1>1 DEF resume, TypeOK
  <2>2. CASE mQueue = <<>>
    BY <1>9, <2>2 DEF resume, TypeOK
  <2> QED
    BY <2>1, <2>2
<1> QED
  BY <1>2, <1>3, <1>4, <1>5, <1>6, <1>7, <1>8, <1>9 DEF Continue

\* Every step keeps a duty for every element while somebody sleeps.
LEMMA NextNoLostWakeup == IInv /\ [Next]_vars => NoLostWakeup'
<1> SUFFICES ASSUME IInv, [Next]_vars, Sleepers' # {}
             PROVE  Len(mQueue') <= Cardinality(Awake')
  BY DEF NoLostWakeup
<1>t. /\ mQueue \in Seq(Value) /\ Len(mQueue) \in Nat
      /\ pc \in [Thread -> {"idle", "notify", "wait", "woken"}]
  BY DEF IInv, TypeOK
<1>a. IsFiniteSet(Awake) /\ Cardinality(Awake) \in Nat
  BY AwakeFinite
<1>e. ASSUME mQueue' = <<>> PROVE Len(mQueue') <= Cardinality(Awake')
  <2>1. Awake' \in SUBSET Thread
    BY DEF Awake
  <2>2. Cardinality(Awake') \in Nat
    BY <2>1, ThreadAssumption, FS_Subset, FS_CardinalityType
  <2> QED
    BY <1>e, <2>2
<1>d. ASSUME mQueue # <<>> PROVE Len(Tail(mQueue)) = Len(mQueue) - 1
  BY <1>d, <1>t, HeadTailProperties
\* Sleepers do not disappear in a step that leaves the queue or takes from
\* it, and keeps the awake threads.
<1>k. ASSUME Awake' = Awake, Sleepers' \subseteq Sleepers,
             mQueue' = mQueue \/ (mQueue # <<>> /\ mQueue' = Tail(mQueue))
      PROVE  Len(mQueue') <= Cardinality(Awake')
  <2>1. Sleepers # {}
    BY <1>k
  <2>2. Len(mQueue) <= Cardinality(Awake)
    BY <2>1 DEF IInv, NoLostWakeup
  <2> QED
    BY <1>k, <1>d, <1>t, <1>a, <2>2
\* One more awake thread, at most one more element.
<1>m. ASSUME NEW t \in Thread, t \notin Awake, Awake' = Awake \cup {t},
             Sleepers' \subseteq Sleepers,
             mQueue' = mQueue \/ \E v \in Value : mQueue' = Append(mQueue, v)
      PROVE  Len(mQueue') <= Cardinality(Awake')
  <2>1. Sleepers # {}
    BY <1>m
  <2>2. Len(mQueue) <= Cardinality(Awake)
    BY <2>1 DEF IInv, NoLostWakeup
  <2>3. Cardinality(Awake') = Cardinality(Awake) + 1
    BY <1>m, <1>a, FS_AddElement
  <2>4. Len(mQueue') <= Len(mQueue) + 1
    BY <1>m, <1>t, AppendProperties
  <2> QED
    BY <1>t, <1>a, <2>2, <2>3, <2>4, <1>m, AppendProperties
<1> SUFFICES ASSUME NEW t \in Thread,
               \/ \E v \in Value : push(t, v)
               \/ clear(t) \/ try_pop(t)
               \/ \E deadline \in BOOLEAN : wait_and_pop(t, deadline)
               \/ timeout(t) \/ spurious(t) \/ Continue(t)
             PROVE Len(mQueue') <= Cardinality(Awake')
  <2>1. CASE UNCHANGED vars
    <3>1. Awake' = Awake /\ Sleepers' = Sleepers /\ mQueue' = mQueue
      BY <2>1 DEF vars, Awake, Sleepers
    <3> QED
      BY <3>1, <1>k
  <2> QED
    BY <2>1 DEF Next
<1>1. ASSUME NEW v \in Value, push(t, v) PROVE Len(mQueue') <= Cardinality(Awake')
  <2>1. t \notin Awake /\ Awake' = Awake \cup {t} /\ Sleepers' \subseteq Sleepers
    BY <1>1, <1>t DEF push, Awake, Sleepers
  <2> QED
    BY <1>1, <2>1, <1>m DEF push
<1>2. CASE clear(t)
  BY <1>2, <1>e DEF clear
<1>3. CASE try_pop(t)
  <2>1. Awake' = Awake /\ Sleepers' = Sleepers
    BY <1>3 DEF try_pop, Awake, Sleepers
  <2> QED
    BY <1>3, <2>1, <1>k DEF try_pop
<1>4. ASSUME NEW deadline \in BOOLEAN, wait_and_pop(t, deadline)
      PROVE  Len(mQueue') <= Cardinality(Awake')
  <2>1. CASE mQueue # <<>>
    <3>1. Awake' = Awake /\ Sleepers' = Sleepers /\ mQueue' = Tail(mQueue)
      BY <1>4, <2>1 DEF wait_and_pop, Awake, Sleepers
    <3> QED
      BY <2>1, <3>1, <1>k
  <2>2. CASE mQueue = <<>>
    BY <1>4, <2>2, <1>e DEF wait_and_pop
  <2> QED
    BY <2>1, <2>2
<1>5. ASSUME pc' = [pc EXCEPT ![t] = "woken"], mQueue' = mQueue, pc[t] \in {"wait", "woken"}
      PROVE  Len(mQueue') <= Cardinality(Awake')
  <2>1. CASE pc[t] = "wait"
    <3>1. t \notin Awake /\ Awake' = Awake \cup {t} /\ Sleepers' \subseteq Sleepers
      BY <1>5, <1>t, <2>1 DEF Awake, Sleepers
    <3> QED
      BY <1>5, <3>1, <1>m
  <2>2. CASE pc[t] = "woken"
    <3>1. Awake' = Awake /\ Sleepers' = Sleepers
      BY <1>5, <1>t, <2>2 DEF Awake, Sleepers
    <3> QED
      BY <1>5, <3>1, <1>k
  <2> QED
    BY <1>5, <2>1, <2>2
<1>6. CASE timeout(t) \/ spurious(t)
  BY <1>5, <1>6 DEF timeout, spurious
<1>7. CASE notify_one(t)
  <2>1. CASE Sleepers = {}
    <3>1. Sleepers' = {}
      BY <1>7, <2>1, <1>t DEF notify_one, Sleepers
    <3> QED
      BY <3>1
  <2>2. CASE Sleepers # {}
    <3>1. PICK u \in Sleepers : pc' = [pc EXCEPT ![t] = "idle", ![u] = "woken"]
      BY <1>7, <2>2 DEF notify_one
    <3>2. t \in Awake /\ u \notin Awake /\ u # t /\ Awake' = (Awake \ {t}) \cup {u}
      BY <1>7, <1>t, <3>1 DEF notify_one, Awake, Sleepers
    <3>3. IsFiniteSet(Awake \ {t}) /\ Cardinality(Awake \ {t}) = Cardinality(Awake) - 1
      BY <1>a, <3>2, FS_RemoveElement
    <3>4. u \notin Awake \ {t}
      BY <3>2
    <3>5. Cardinality((Awake \ {t}) \cup {u}) = Cardinality(Awake \ {t}) + 1
      BY <3>3, <3>4, FS_AddElement
    <3>6. Cardinality(Awake') = Cardinality(Awake)
      BY <1>a, <3>2, <3>3, <3>5
    <3>7. Len(mQueue) <= Cardinality(Awake) /\ mQueue' = mQueue
      BY <1>7, <2>2 DEF IInv, NoLostWakeup, notify_one
    <3> QED
      BY <3>6, <3>7
  <2> QED
    BY <2>1, <2>2
<1>8. CASE resume(t)
  <2>1. CASE mQueue # <<>>
    <3>1. /\ t \in Awake /\ Awake' = Awake \ {t} /\ Sleepers' = Sleepers
          /\ mQueue' = Tail(mQueue)
      BY <1>8, <1>t, <2>1 DEF resume, Awake, Sleepers
    <3>2. Cardinality(Awake') = Cardinality(Awake) - 1
      BY <1>a, <3>1, FS_RemoveElement
    <3>3. Len(mQueue) <= Cardinality(Awake)
      BY <3>1 DEF IInv, NoLostWakeup
    <3> QED
      BY <1>a, <1>d, <1>t, <2>1, <3>1, <3>2, <3>3
  <2>2. CASE mQueue = <<>>
    BY <1>8, <2>2, <1>e DEF resume
  <2> QED
    BY <2>1, <2>2
<1> QED
  BY <1>1, <1>2, <1>3, <1>4, <1>6, <1>7, <1>8 DEF Continue

-----------------------------------------------------------------------------
\* While a thread sleeps, every element in the queue has an awake thread that
\* takes it or wakes a sleeper, whatever the interleaving of push, notify,
\* timeouts, spurious wakeups and threads that barge in.
THEOREM NoLostWakeupHolds == Spec => []NoLostWakeup
<1>1. IInv /\ [Next]_vars => IInv'
  BY NextTypeOK, NextNoLostWakeup DEF IInv
<1>2. IInv => NoLostWakeup
  BY DEF IInv
<1> QED
  BY InitIInv, <1>1, <1>2, PTL DEF Spec

\* The types, and that only a woken timed wait has an expired deadline.
THEOREM TypeCorrect == Spec => []TypeOK
<1>1. Init => TypeOK
  BY InitIInv DEF IInv
<1> QED
  BY <1>1, NextTypeOK, PTL DEF Spec

-----------------------------------------------------------------------------
(* Buffer: the invariant                                                   *)

\* What a cell of memory can hold.
Storable == Cell \cup {Junk, 0}

BufferRecord ==
  [mode : {"plain", "circular"}, cells : Seq(Storable),
   mOwner : BOOLEAN, mReadOnly : BOOLEAN, mOnDemand : BOOLEAN,
   mReadPos : Nat, mWritePos : Nat, mReadPosMarked : Nat, mWritePosMarked : Nat]

ViewRecord ==
  [back : Seq(Storable), next : Seq(Storable), rmark : Nat \cup {NULL}, wmark : Nat \cup {NULL}]

\* The cells in the view, in order, and how many there are.
Known(v) == v.back \o v.next
Behind(v) == Len(v.back)
Ahead(v) == Len(v.next)
Extent(v) == Behind(v) + Ahead(v)

\* The position that is q cells from the start of the memory, and the cell there.
Pos(x, q) == IF x.mode = "plain" THEN q ELSE Place(x, q)
Slot(x, q) == Place(x, q) + 1

\* There is room for n cells from position a on.
Fits(x, a, n) ==
  IF x.mode = "plain" THEN a = 0 /\ n <= mAllocatedSize(x)
  ELSE (a = 0 \/ a < mAllocatedSize(x)) /\ (n = 0 \/ n < mAllocatedSize(x))

\* The mark m of the view is at the position p.
Marked(x, a, m, p) == m # NULL => Fits(x, a, m) /\ p = Pos(x, a + m)

\* The view v of the buffer x begins at the position a.
Represents(x, v, a) ==
  /\ x \in BufferRecord /\ v \in ViewRecord /\ a \in Nat
  /\ Fits(x, a, Extent(v))
  /\ x.mReadPos = Pos(x, a + Behind(v))
  /\ x.mWritePos = Pos(x, a + Extent(v))
  /\ \A i \in 1..Extent(v) : x.cells[Slot(x, a + i - 1)] = Known(v)[i]
  /\ Marked(x, a, v.rmark, x.mReadPosMarked)
  /\ Marked(x, a, v.wmark, x.mWritePosMarked)

\* What the variable b of the client holds.
Sound(b, x, v) ==
  x # NULL => /\ x.mode = Mode[b]
              /\ \E a \in 0..mAllocatedSize(x) : Represents(x, v, a)

BufferInv ==
  /\ buf \in [Name -> BufferRecord \cup {NULL}]
  /\ view \in [Name -> ViewRecord]
  /\ \A b \in Name : Sound(b, buf[b], view[b])

-----------------------------------------------------------------------------
(* Operators                                                               *)

\* The cells of the view.
LEMMA ViewFacts ==
  ASSUME NEW v \in ViewRecord
  PROVE  /\ v.back \in Seq(Storable) /\ v.next \in Seq(Storable) /\ Known(v) \in Seq(Storable)
         /\ Behind(v) \in Nat /\ Ahead(v) \in Nat /\ Extent(v) \in Nat
         /\ Extent(v) = Behind(v) + Ahead(v) /\ Len(Known(v)) = Extent(v)
         /\ \A i \in 1..Extent(v) :
              Known(v)[i] = IF i <= Behind(v) THEN v.back[i] ELSE v.next[i - Behind(v)]
         /\ \A i \in 1..Extent(v) : Known(v)[i] \in Storable
<1>1. v.back \in Seq(Storable) /\ v.next \in Seq(Storable)
  BY DEF ViewRecord
<1>2. Behind(v) \in Nat /\ Ahead(v) \in Nat
  BY <1>1, LenProperties DEF Behind, Ahead
<1>3. Extent(v) = Behind(v) + Ahead(v) /\ Extent(v) \in Nat
  BY <1>2 DEF Extent
<1>4. /\ Known(v) \in Seq(Storable)
      /\ Len(Known(v)) = Extent(v)
      /\ \A i \in 1..Extent(v) :
           Known(v)[i] = IF i <= Behind(v) THEN v.back[i] ELSE v.next[i - Behind(v)]
  BY <1>1, ConcatProperties DEF Known, Extent, Behind, Ahead
<1>5. \A i \in 1..Extent(v) : Known(v)[i] \in Storable
  BY <1>4, ElementOfSeq
<1> QED BY <1>1, <1>2, <1>3, <1>4, <1>5

\* The memory of a buffer.
LEMMA MemoryFacts ==
  ASSUME NEW x \in BufferRecord
  PROVE  /\ x.cells \in Seq(Storable) /\ mAllocatedSize(x) \in Nat
         /\ DOMAIN x.cells = 1..mAllocatedSize(x)
         /\ x.mode = "plain" \/ x.mode = "circular"
         /\ x.mode = "plain" => x.mode # "circular"
BY LenProperties DEF BufferRecord, mAllocatedSize

\* setArray changes the cells it names and no others.
LEMMA SetArrayIs ==
  ASSUME NEW x \in BufferRecord, NEW s \in Seq(Storable), NEW p \in Nat,
         Len(s) <= mAllocatedSize(x), Len(s) = 0 \/ p < mAllocatedSize(x)
  PROVE  LET y == SetArray(x, s, p)
         IN  /\ y = [x EXCEPT !.cells = y.cells]
             /\ y.cells \in Seq(Storable) /\ Len(y.cells) = Len(x.cells)
             /\ \A i \in 1..Len(s) : Slot(x, p + i - 1) \in 1..Len(x.cells)
             /\ \A i \in 1..Len(s) : y.cells[Slot(x, p + i - 1)] = s[i]
             /\ \A q \in 1..Len(x.cells) :
                  (\A i \in 1..Len(s) : q # Slot(x, p + i - 1)) => y.cells[q] = x.cells[q]
<1> DEFINE n == mAllocatedSize(x)
           Hit(q) == {i \in DOMAIN s : Place(x, p + i - 1) + 1 = q}
           cs == [q \in DOMAIN x.cells |-> IF Hit(q) = {} THEN x.cells[q] ELSE s[CHOOSE i \in Hit(q) : TRUE]]
           y == SetArray(x, s, p)
<1>1. y = [x EXCEPT !.cells = cs]
  BY DEF SetArray
<1>2. /\ x.cells \in Seq(Storable) /\ n \in Nat /\ n = Len(x.cells) /\ DOMAIN x.cells = 1..n
      /\ DOMAIN s = 1..Len(s) /\ Len(s) \in Nat /\ \A i \in 1..Len(s) : s[i] \in Storable
  BY LenProperties, ElementOfSeq, MemoryFacts DEF mAllocatedSize
<1>20. n \in Nat /\ Len(s) \in Nat
  BY <1>2
<1>21. mAllocatedSize(x) = n /\ Len(s) <= n /\ (Len(s) = 0 \/ p < n)
  OBVIOUS
<1>3. y.cells = cs /\ y = [x EXCEPT !.cells = y.cells]
  BY <1>1 DEF BufferRecord
<1>4. \A i \in 1..Len(s) : Slot(x, p + i - 1) \in 1..n
  <2> HIDE DEF n
  <2> QED BY <1>20, <1>21 DEF Slot, Place
<1>5. \A i, j \in 1..Len(s) : Slot(x, p + i - 1) = Slot(x, p + j - 1) => i = j
  <2> HIDE DEF n
  <2> QED BY <1>20, <1>21 DEF Slot, Place
<1>6. \A q : Hit(q) = {i \in 1..Len(s) : Slot(x, p + i - 1) = q}
  BY <1>2 DEF Slot
<1>7. ASSUME NEW i \in 1..Len(s)
      PROVE  cs[Slot(x, p + i - 1)] = s[i]
  <2>0. \A j \in 1..Len(s) : Slot(x, p + j - 1) = Slot(x, p + i - 1) => j = i
    BY <1>5
  <2>1. Hit(Slot(x, p + i - 1)) = {i}
    <3> HIDE DEF Hit
    <3>1. Hit(Slot(x, p + i - 1)) = {j \in 1..Len(s) : Slot(x, p + j - 1) = Slot(x, p + i - 1)}
      BY <1>6
    <3> QED BY <2>0, <3>1
  <2>2. (CHOOSE j \in {i} : TRUE) = i
    OBVIOUS
  <2> HIDE DEF Hit
  <2> QED BY <2>1, <2>2, <1>2, <1>4
<1>8. ASSUME NEW q \in 1..n, \A i \in 1..Len(s) : q # Slot(x, p + i - 1)
      PROVE  cs[q] = x.cells[q]
  <2>1. Hit(q) = {}
    BY <1>6, <1>8, ZenonT(60)
  <2> HIDE DEF Hit
  <2> QED BY <2>1, <1>2
<1>9. ASSUME NEW q \in 1..n
      PROVE  cs[q] \in Storable
  <2>1. CASE \E i \in 1..Len(s) : q = Slot(x, p + i - 1)
    BY <2>1, <1>2, <1>7
  <2>2. CASE \A i \in 1..Len(s) : q # Slot(x, p + i - 1)
    BY <2>2, <1>2, <1>8, ElementOfSeq
  <2> QED BY <2>1, <2>2
<1>10. cs \in Seq(Storable) /\ Len(cs) = n
  <2>1. cs \in [1..n -> Storable]
    <3>1. DOMAIN cs = 1..n /\ cs = [q \in 1..n |-> cs[q]]
      BY <1>2
    <3> HIDE DEF cs
    <3> QED BY <3>1, <1>9
  <2> HIDE DEF cs
  <2> QED BY <2>1, <1>2, SeqDef, LenProperties, SMTT(60)
<1> HIDE DEF cs, y
<1>11. \A i \in 1..Len(s) : y.cells[Slot(x, p + i - 1)] = s[i]
  BY <1>3, <1>7
<1>12. \A q \in 1..n : (\A i \in 1..Len(s) : q # Slot(x, p + i - 1)) => y.cells[q] = x.cells[q]
  BY <1>3, <1>8
<1> QED BY <1>2, <1>3, <1>4, <1>10, <1>11, <1>12 DEF y

-----------------------------------------------------------------------------
(* What the positions of a represented buffer say                          *)

\* The numbers a proof about a represented buffer begins with.
LEMMA Numbers ==
  ASSUME NEW x, NEW v, NEW a, Represents(x, v, a)
  PROVE  /\ x \in BufferRecord /\ v \in ViewRecord /\ a \in Nat
         /\ mAllocatedSize(x) \in Nat /\ (x.mode = "plain" \/ x.mode = "circular")
         /\ Behind(v) \in Nat /\ Ahead(v) \in Nat /\ Extent(v) = Behind(v) + Ahead(v)
         /\ Fits(x, a, Extent(v))
         /\ x.mReadPos = Pos(x, a + Behind(v)) /\ x.mWritePos = Pos(x, a + Extent(v))
         /\ x.mReadPos \in Nat /\ x.mWritePos \in Nat
         /\ Marked(x, a, v.rmark, x.mReadPosMarked) /\ Marked(x, a, v.wmark, x.mWritePosMarked)
         /\ \A i \in 1..Extent(v) : x.cells[Slot(x, a + i - 1)] = Known(v)[i]
<1>1. /\ x \in BufferRecord /\ v \in ViewRecord /\ a \in Nat
      /\ Fits(x, a, Extent(v))
      /\ x.mReadPos = Pos(x, a + Behind(v)) /\ x.mWritePos = Pos(x, a + Extent(v))
      /\ Marked(x, a, v.rmark, x.mReadPosMarked) /\ Marked(x, a, v.wmark, x.mWritePosMarked)
      /\ \A i \in 1..Extent(v) : x.cells[Slot(x, a + i - 1)] = Known(v)[i]
  BY DEF Represents
<1>2. x.mReadPos \in Nat /\ x.mWritePos \in Nat
  BY <1>1 DEF BufferRecord
<1> QED BY <1>1, <1>2, MemoryFacts, ViewFacts

\* dataSize() and freeSize() count the cells in front of the reader.
LEMMA SizesAre ==
  ASSUME NEW x, NEW v, NEW a, Represents(x, v, a)
  PROVE  /\ DataSize(x) = Ahead(v)
         /\ x.mode = "plain" => /\ x.mReadPos = Behind(v) /\ x.mWritePos = Extent(v)
                                /\ x.mWritePos <= mAllocatedSize(x)
                                /\ FreeSize(x) = mAllocatedSize(x) - Ahead(v)
         /\ x.mode = "circular" => /\ FreeSize(x) = mAllocatedSize(x) - 1 - Ahead(v)
                                   /\ x.mReadPos < mAllocatedSize(x) \/ (x.cells = <<>> /\ x.mReadPos = 0)
                                   /\ x.mWritePos < mAllocatedSize(x) \/ (x.cells = <<>> /\ x.mWritePos = 0)
<1>1. DataSize(x) = Ahead(v)
  BY Numbers DEF DataSize, Fits, Pos, Place
<1>2. CASE x.mode = "plain"
  BY <1>1, <1>2, Numbers DEF Fits, Pos, FreeSize, AllocatedSize
<1>3. CASE x.mode = "circular"
  <2>1. FreeSize(x) = mAllocatedSize(x) - 1 - Ahead(v)
    BY <1>1, <1>3, Numbers DEF FreeSize, AllocatedSize
  <2>2. mAllocatedSize(x) = 0 => x.cells = <<>>
    BY Numbers, MemoryFacts, EmptySeq DEF mAllocatedSize
  <2>3. /\ a = 0 \/ a < mAllocatedSize(x)
        /\ Extent(v) = 0 \/ Extent(v) < mAllocatedSize(x)
        /\ x.mReadPos = Place(x, a + Behind(v)) /\ x.mWritePos = Place(x, a + Extent(v))
    BY <1>3, Numbers DEF Fits, Pos
  <2>7. /\ mAllocatedSize(x) \in Nat /\ a \in Nat
        /\ Behind(v) \in Nat /\ Ahead(v) \in Nat /\ Extent(v) = Behind(v) + Ahead(v)
    BY Numbers
  <2>8. \A k \in 0..Extent(v) :
          Place(x, a + k) < mAllocatedSize(x) \/ (mAllocatedSize(x) = 0 /\ Place(x, a + k) = 0)
    <3>1. /\ a = 0 \/ a < mAllocatedSize(x)
          /\ Extent(v) = 0 \/ Extent(v) < mAllocatedSize(x)
          /\ mAllocatedSize(x) \in Nat /\ a \in Nat /\ Extent(v) \in Nat
      BY <2>3, <2>7
    <3> HIDE DEF Extent, Fits
    <3> QED BY <3>1 DEF Place
  <2>4. x.mReadPos < mAllocatedSize(x) \/ (mAllocatedSize(x) = 0 /\ x.mReadPos = 0)
    BY <2>3, <2>7, <2>8
  <2>5. x.mWritePos < mAllocatedSize(x) \/ (mAllocatedSize(x) = 0 /\ x.mWritePos = 0)
    BY <2>3, <2>7, <2>8
  <2>6. x.mode # "plain"
    BY <1>3
  <2> QED BY <1>1, <2>1, <2>2, <2>4, <2>5, <2>6
<1> QED BY <1>1, <1>2, <1>3, Numbers

\* A step from a position stays in the memory, and two steps make one.
LEMMA Steps ==
  ASSUME NEW x \in BufferRecord, NEW a \in Nat, NEW n \in Nat, Fits(x, a, n),
         NEW i \in 0..n
  PROVE  /\ Pos(x, a + i) \in Nat
         /\ \A j \in 0..(n - i) : Pos(x, Pos(x, a + i) + j) = Pos(x, a + i + j)
         /\ \A j \in 1..(n - i) : Slot(x, Pos(x, a + i) + j - 1) = Slot(x, a + i + j - 1)
         /\ \A j \in 1..n : Slot(x, a + j - 1) \in 1..mAllocatedSize(x)
         /\ \A j, k \in 1..n : Slot(x, a + j - 1) = Slot(x, a + k - 1) => j = k
<1>1. mAllocatedSize(x) \in Nat /\ (x.mode = "plain" \/ x.mode = "circular")
  BY MemoryFacts
<1>2. CASE x.mode = "plain"
  BY <1>1, <1>2 DEF Fits, Pos, Slot, Place
<1>3. CASE x.mode = "circular"
  <2>1. /\ a = 0 \/ a < mAllocatedSize(x)
        /\ n = 0 \/ n < mAllocatedSize(x)
    BY <1>3 DEF Fits
  <2>2. \A q : Pos(x, q) = Place(x, q) /\ Slot(x, q) = Place(x, q) + 1
    BY <1>3 DEF Pos, Slot
  <2>3. Place(x, a + i) \in Nat
    BY <1>1, <2>1 DEF Place
  <2>4. \A j \in 0..(n - i) : Place(x, Place(x, a + i) + j) = Place(x, a + i + j)
    BY <1>1, <2>1 DEF Place
  <2>5. \A j \in 1..(n - i) : Place(x, Place(x, a + i) + j - 1) = Place(x, a + i + j - 1)
    BY <1>1, <2>1 DEF Place
  <2>6. \A j \in 1..n : Place(x, a + j - 1) + 1 \in 1..mAllocatedSize(x)
    BY <1>1, <2>1 DEF Place
  <2>7. \A j, k \in 1..n : Place(x, a + j - 1) + 1 = Place(x, a + k - 1) + 1 => j = k
    BY <1>1, <2>1 DEF Place
  <2> QED BY <2>2, <2>3, <2>4, <2>5, <2>6, <2>7
<1> QED BY <1>1, <1>2, <1>3

\* The memory between the positions is what the client has still to read.
LEMMA ContentIs ==
  ASSUME NEW x, NEW v, NEW a, Represents(x, v, a)
  PROVE  /\ Content(x) = v.next
         /\ \A n \in 0..Ahead(v) : \A i \in 1..n : GetArray(x, x.mReadPos, n)[i] = v.next[i]
<1>1. ASSUME NEW i \in 1..Ahead(v)
      PROVE  x.cells[Place(x, x.mReadPos + i - 1) + 1] = v.next[i]
  <2>1. /\ Behind(v) \in 0..Extent(v) /\ i \in 1..(Extent(v) - Behind(v))
        /\ Behind(v) + i \in 1..Extent(v) /\ ~(Behind(v) + i <= Behind(v))
        /\ (Behind(v) + i) - Behind(v) = i /\ a + Behind(v) + i - 1 = a + (Behind(v) + i) - 1
    BY Numbers
  <2>2. Extent(v) \in Nat
    BY Numbers
  <2>3. Slot(x, x.mReadPos + i - 1) = Slot(x, a + (Behind(v) + i) - 1)
    <3>1. /\ x \in BufferRecord /\ a \in Nat /\ Fits(x, a, Extent(v))
          /\ x.mReadPos = Pos(x, a + Behind(v))
      BY Numbers
    <3>3. /\ Behind(v) \in 0..Extent(v) /\ i \in 1..(Extent(v) - Behind(v))
      BY <2>1
    <3>2. Slot(x, Pos(x, a + Behind(v)) + i - 1) = Slot(x, a + Behind(v) + i - 1)
      <4> HIDE DEF Represents
      <4>1. \A j \in 1..(Extent(v) - Behind(v)) :
              Slot(x, Pos(x, a + Behind(v)) + j - 1) = Slot(x, a + Behind(v) + j - 1)
        BY <2>2, <3>1, <3>3, Steps, ZenonT(60)
      <4> QED BY <4>1, <3>3
    <3> QED BY <2>1, <3>1, <3>2
  <2>4. x.cells[Slot(x, a + (Behind(v) + i) - 1)] = Known(v)[Behind(v) + i]
    BY <2>1, Numbers
  <2>5. Known(v)[Behind(v) + i] = v.next[i]
    BY <2>1, Numbers, ViewFacts
  <2> QED BY <2>3, <2>4, <2>5 DEF Slot
<1>2. v.next \in Seq(Storable) /\ Len(v.next) = Ahead(v) /\ Ahead(v) \in Nat
  BY Numbers, ViewFacts DEF Ahead
<1>3. v.next = [i \in 1..Ahead(v) |-> v.next[i]]
  BY <1>2, SeqDef, LenProperties
<1>4. Content(x) = [i \in 1..Ahead(v) |-> x.cells[Place(x, x.mReadPos + i - 1) + 1]]
  BY SizesAre DEF Content, GetArray
<1>5. Content(x) = v.next
  BY <1>1, <1>3, <1>4
<1>6. ASSUME NEW n \in 0..Ahead(v), NEW i \in 1..n
      PROVE  GetArray(x, x.mReadPos, n)[i] = v.next[i]
  BY <1>1, <1>2 DEF GetArray
<1> QED BY <1>5, <1>6

-----------------------------------------------------------------------------
(* Views                                                                   *)

\* u shows the first m cells of v, k of them behind the reader.
Shows(u, v, k, m) ==
  /\ u \in ViewRecord
  /\ Behind(u) = k /\ Extent(u) = m
  /\ \A i \in 1..m : Known(u)[i] = Known(v)[i]

\* It is enough to know that the two parts of u are cells of v.
LEMMA ShowsParts ==
  ASSUME NEW v, NEW u \in ViewRecord, NEW k \in Nat, NEW m \in Nat, k <= m,
         Behind(u) = k, Ahead(u) = m - k,
         \A i \in 1..k : u.back[i] = Known(v)[i],
         \A i \in 1..(m - k) : u.next[i] = Known(v)[k + i]
  PROVE  Shows(u, v, k, m)
<1>1. Extent(u) = m
  BY ViewFacts
<1>2. ASSUME NEW i \in 1..m
      PROVE  Known(u)[i] = Known(v)[i]
  <2>1. CASE i <= k
    <3>1. i \in 1..k /\ i \in 1..Extent(u)
      BY <2>1, <1>1
    <3> QED BY <2>1, <3>1, ViewFacts
  <2>2. CASE ~(i <= k)
    <3>1. i - k \in 1..(m - k) /\ k + (i - k) = i /\ i \in 1..Extent(u)
      BY <2>2, <1>1
    <3>2. Known(u)[i] = u.next[i - k]
      BY <2>2, <3>1, ViewFacts
    <3>3. u.next[i - k] = Known(v)[k + (i - k)]
      BY <3>1
    <3> QED BY <3>1, <3>2, <3>3
  <2> QED BY <2>1, <2>2
<1> QED BY <1>1, <1>2 DEF Shows

\* The view with other positions.
LEMMA ViewAtShows ==
  ASSUME NEW v \in ViewRecord, NEW k \in Nat, NEW m \in Nat, k <= m, m <= Extent(v)
  PROVE  /\ Shows(ViewAt(v, k, m), v, k, m)
         /\ ViewAt(v, k, m).rmark = v.rmark /\ ViewAt(v, k, m).wmark = v.wmark
<1> DEFINE s == Known(v)
           u == ViewAt(v, k, m)
<1>1. /\ s \in Seq(Storable) /\ Extent(v) \in Nat
      /\ \A i \in 1..Extent(v) : s[i] \in Storable
  BY ViewFacts
<1>2. (\A i \in 1..k : s[i] \in Storable) /\ (\A i \in (k + 1)..m : s[i] \in Storable)
  BY <1>1
<1>3. u = [v EXCEPT !.back = SubSeq(s, 1, k), !.next = SubSeq(s, k + 1, m)]
  BY DEF ViewAt, Known
<1> HIDE DEF s
<1>4. /\ SubSeq(s, 1, k) \in Seq(Storable) /\ Len(SubSeq(s, 1, k)) = k
      /\ \A i \in 1..k : SubSeq(s, 1, k)[i] = s[i]
  BY <1>2, SubSeqProperties
<1>5. /\ SubSeq(s, k + 1, m) \in Seq(Storable) /\ Len(SubSeq(s, k + 1, m)) = m - k
      /\ \A i \in 1..(m - k) : SubSeq(s, k + 1, m)[i] = s[k + i]
  <2>1. /\ k + 1 \in Int /\ m \in Int
        /\ (IF k + 1 <= m THEN m - (k + 1) + 1 ELSE 0) = m - k
        /\ m - (k + 1) + 1 = m - k
        /\ \A i \in 1..(m - k) : k + 1 + i - 1 = k + i
    OBVIOUS
  <2> QED BY <1>2, <2>1, SubSeqProperties
<1>6. /\ u.back = SubSeq(s, 1, k) /\ u.next = SubSeq(s, k + 1, m)
      /\ u.rmark = v.rmark /\ u.wmark = v.wmark /\ u \in ViewRecord
  BY <1>3, <1>4, <1>5 DEF ViewRecord
<1> HIDE DEF u
<1>7. Behind(u) = k /\ Ahead(u) = m - k
  BY <1>4, <1>5, <1>6 DEF Behind, Ahead
<1>8. Shows(u, v, k, m)
  BY <1>4, <1>5, <1>6, <1>7, ShowsParts DEF s
<1> QED BY <1>6, <1>8 DEF u

\* read moves cells from one part to the other.
LEMMA ViewAfterReadShows ==
  ASSUME NEW v \in ViewRecord, NEW n \in Nat, n <= Ahead(v)
  PROVE  /\ Shows(ViewAfterRead(v, n), v, Behind(v) + n, Extent(v))
         /\ ViewAfterRead(v, n).rmark = v.rmark /\ ViewAfterRead(v, n).wmark = v.wmark
<1> DEFINE u == ViewAfterRead(v, n)
           B == v.back
           N == v.next
           h == SubSeq(N, 1, n)
           t == SubSeq(N, n + 1, Len(N))
           b == Behind(v)
           l == Ahead(v)
<1>1. /\ B \in Seq(Storable) /\ N \in Seq(Storable) /\ l = Len(N) /\ b = Len(B)
  BY ViewFacts DEF Behind, Ahead
<1>2. b \in Nat /\ l \in Nat /\ Extent(v) = b + l /\ n <= l
  BY ViewFacts
<1>3. u = [v EXCEPT !.back = B \o h, !.next = t]
  BY DEF ViewAfterRead
<1>4. \A i \in 1..Extent(v) : Known(v)[i] = IF i <= b THEN B[i] ELSE N[i - b]
  BY ViewFacts
<1> HIDE DEF B, N, b, l
<1>5. \A i \in 1..l : N[i] \in Storable
  BY <1>1, ElementOfSeq
<1>6. /\ h \in Seq(Storable) /\ Len(h) = n
      /\ \A i \in 1..n : h[i] = N[i]
  <2>1. \A i \in 1..n : N[i] \in Storable
    BY <1>2, <1>5
  <2> QED BY <2>1, SubSeqProperties
<1>7. /\ t \in Seq(Storable) /\ Len(t) = l - n
      /\ \A i \in 1..(l - n) : t[i] = N[n + i]
  <2>1. \A i \in (n + 1)..l : N[i] \in Storable
    BY <1>2, <1>5
  <2>2. /\ n + 1 \in Int /\ l \in Int
        /\ (IF n + 1 <= l THEN l - (n + 1) + 1 ELSE 0) = l - n
        /\ l - (n + 1) + 1 = l - n
        /\ \A i \in 1..(l - n) : n + 1 + i - 1 = n + i
    BY <1>2
  <2> QED BY <1>1, <2>1, <2>2, SubSeqProperties
<1> HIDE DEF h, t
<1>8. /\ B \o h \in Seq(Storable) /\ Len(B \o h) = b + n
      /\ \A i \in 1..(b + n) : (B \o h)[i] = IF i <= b THEN B[i] ELSE h[i - b]
  BY <1>1, <1>6, ConcatProperties
<1>9. /\ u.back = B \o h /\ u.next = t
      /\ u.rmark = v.rmark /\ u.wmark = v.wmark /\ u \in ViewRecord
  BY <1>3, <1>7, <1>8 DEF ViewRecord
<1> HIDE DEF u
<1>10. (b + l) - (b + n) = l - n /\ b + n \in Nat /\ b + l \in Nat /\ b + n <= b + l
  BY <1>2
<1>11. Behind(u) = b + n /\ Ahead(u) = (b + l) - (b + n)
  BY <1>7, <1>8, <1>9, <1>10 DEF Behind, Ahead
<1>12. ASSUME NEW i \in 1..(b + n)
       PROVE  u.back[i] = Known(v)[i]
  <2>1. i \in 1..Extent(v) /\ (~(i <= b) => i - b \in 1..n)
    BY <1>2
  <2> QED BY <1>4, <1>6, <1>8, <1>9, <2>1
<1>13. ASSUME NEW i \in 1..((b + l) - (b + n))
       PROVE  u.next[i] = Known(v)[(b + n) + i]
  <2>0. i \in Nat /\ 1 <= i /\ i <= l - n
    BY <1>10
  <2> DEFINE j == (b + n) + i
  <2>1. j \in 1..Extent(v) /\ i \in 1..(l - n) /\ ~(j <= b) /\ j - b = n + i
    BY <1>2, <2>0
  <2> HIDE DEF j
  <2>2. Known(v)[j] = N[j - b]
    BY <1>4, <2>1
  <2>3. u.next[i] = N[n + i]
    BY <1>7, <1>9, <2>1
  <2>4. u.next[i] = Known(v)[j]
    BY <2>1, <2>2, <2>3
  <2> QED BY <2>4 DEF j
<1>14. Shows(u, v, b + n, b + l)
  BY <1>9, <1>10, <1>11, <1>12, <1>13, ShowsParts
<1> QED BY <1>2, <1>9, <1>14 DEF u, b

-----------------------------------------------------------------------------
(* Steps of a represented buffer                                           *)

\* Positions mean the same in memory of the same size.
LEMMA SameShape ==
  ASSUME NEW x, NEW y, y.mode = x.mode, mAllocatedSize(y) = mAllocatedSize(x)
  PROVE  /\ \A q : Place(y, q) = Place(x, q) /\ Pos(y, q) = Pos(x, q) /\ Slot(y, q) = Slot(x, q)
         /\ \A a, n : Fits(y, a, n) <=> Fits(x, a, n)
         /\ \A a, m, p : Marked(y, a, m, p) <=> Marked(x, a, m, p)
<1>1. \A q : Place(y, q) = Place(x, q)
  BY DEF Place
<1>2. \A q : Pos(y, q) = Pos(x, q) /\ Slot(y, q) = Slot(x, q)
  BY <1>1 DEF Pos, Slot
<1>3. \A a, n : Fits(y, a, n) <=> Fits(x, a, n)
  BY DEF Fits
<1>4. \A a, m, p : Marked(y, a, m, p) <=> Marked(x, a, m, p)
  BY <1>2, <1>3 DEF Marked
<1> QED BY <1>1, <1>2, <1>3, <1>4

\* Less needs no more room.
LEMMA FitsLess ==
  ASSUME NEW x \in BufferRecord, NEW a \in Nat, NEW n \in Nat, NEW m \in Nat, m <= n, Fits(x, a, n)
  PROVE  Fits(x, a, m)
BY MemoryFacts DEF Fits

\* The positions move within the cells of the view.
LEMMA Repositioned ==
  ASSUME NEW x, NEW v, NEW a, Represents(x, v, a),
         NEW k \in Nat, NEW m \in Nat, k <= m, m <= Extent(v),
         NEW y \in BufferRecord, y.mode = x.mode, y.cells = x.cells,
         y.mReadPos = Pos(x, a + k), y.mWritePos = Pos(x, a + m),
         NEW u, Shows(u, v, k, m),
         Marked(x, a, u.rmark, y.mReadPosMarked), Marked(x, a, u.wmark, y.mWritePosMarked)
  PROVE  Represents(y, u, a)
<1>1. mAllocatedSize(y) = mAllocatedSize(x)
  BY DEF mAllocatedSize
<1>2. /\ \A q : Place(y, q) = Place(x, q) /\ Pos(y, q) = Pos(x, q) /\ Slot(y, q) = Slot(x, q)
      /\ \A n : Fits(y, a, n) <=> Fits(x, a, n)
      /\ \A mm, p : Marked(y, a, mm, p) <=> Marked(x, a, mm, p)
  BY <1>1, SameShape
<1>3. /\ x \in BufferRecord /\ a \in Nat /\ Extent(v) \in Nat /\ Fits(x, a, Extent(v))
      /\ \A i \in 1..Extent(v) : x.cells[Slot(x, a + i - 1)] = Known(v)[i]
  BY Numbers, ViewFacts
<1>4. Fits(x, a, m)
  BY <1>3, FitsLess
<1>5. u \in ViewRecord /\ Behind(u) = k /\ Extent(u) = m /\ \A i \in 1..m : Known(u)[i] = Known(v)[i]
  BY DEF Shows
<1>6. \A i \in 1..m : y.cells[Slot(y, a + i - 1)] = Known(u)[i]
  <2> TAKE i \in 1..m
  <2>1. i \in 1..Extent(v)
    BY <1>3
  <2> QED BY <1>2, <1>3, <1>5, <2>1
<1> QED BY <1>2, <1>3, <1>4, <1>5, <1>6 DEF Represents

\* The first k cells of a circular buffer are forgotten.
LEMMA Forgotten ==
  ASSUME NEW x, NEW v, NEW a, Represents(x, v, a), x.mode = "circular",
         NEW k \in Nat, k <= Behind(v), NEW u \in ViewRecord,
         Behind(u) = Behind(v) - k, Ahead(u) = Ahead(v),
         \A i \in 1..Extent(u) : Known(u)[i] = Known(v)[k + i],
         u.rmark # NULL => v.rmark # NULL /\ v.rmark \in Nat /\ k <= v.rmark /\ u.rmark = v.rmark - k,
         u.wmark # NULL => v.wmark # NULL /\ v.wmark \in Nat /\ k <= v.wmark /\ u.wmark = v.wmark - k
  PROVE  Represents(x, u, Place(x, a + k))
<1> DEFINE N == mAllocatedSize(x)
           e == Place(x, a + k)
<1>1. /\ N \in Nat /\ a \in Nat /\ Behind(v) \in Nat /\ Ahead(v) \in Nat
      /\ Extent(v) = Behind(v) + Ahead(v) /\ Extent(u) = Extent(v) - k /\ Extent(u) \in Nat
      /\ a = 0 \/ a < N
      /\ Extent(v) = 0 \/ Extent(v) < N
  BY Numbers, ViewFacts, SMTT(60) DEF Fits
<1>2. x \in BufferRecord
  BY Numbers
<1>3. e \in Nat /\ (e = 0 \/ e < N)
  BY <1>1 DEF Place
<1>4. \A n \in Nat : k <= n /\ (n = 0 \/ n < N) =>
        /\ Place(x, e + (n - k)) = Place(x, a + n)
        /\ n - k = 0 \/ n - k < N
  <2> SUFFICES ASSUME NEW n \in Nat, k <= n, n = 0 \/ n < N
               PROVE  Place(x, e + (n - k)) = Place(x, a + n) /\ (n - k = 0 \/ n - k < N)
    OBVIOUS
  <2>1. N \in Nat /\ a \in Nat /\ (a = 0 \/ a < N)
    BY <1>1
  <2>2. CASE a + k >= N
    <3>1. e = a + k - N
      BY <2>1, <2>2 DEF Place
    <3>2. N = 0 => a = 0 /\ k = 0 /\ n = 0
      BY <2>1, <1>1
    <3> HIDE DEF e, N
    <3>3. Place(x, e + (n - k)) = IF e + (n - k) >= N THEN e + (n - k) - N ELSE e + (n - k)
      BY <2>1, <3>1 DEF Place, N
    <3>4. Place(x, a + n) = IF a + n >= N THEN a + n - N ELSE a + n
      BY <2>1, <3>1 DEF Place, N
    <3> QED BY <2>1, <2>2, <3>1, <3>2, <3>3, <3>4
  <2>3. CASE ~(a + k >= N)
    <3>1. e = a + k /\ e + (n - k) = a + n
      BY <2>1, <2>3 DEF Place
    <3> HIDE DEF e
    <3> QED BY <2>1, <3>1
  <2> QED BY <2>2, <2>3
<1>5. \A q : Pos(x, q) = Place(x, q)
  BY DEF Pos
<1>6. \A n : Fits(x, e, n) <=> (n = 0 \/ n < N)
  BY <1>3 DEF Fits
<1>7. \A n : Fits(x, a, n) <=> (n = 0 \/ n < N)
  BY <1>1 DEF Fits
<1>8. Fits(x, e, Extent(u))
  BY <1>1, <1>6
<1> HIDE DEF N, e
<1>9. x.mReadPos = Pos(x, e + Behind(u)) /\ x.mWritePos = Pos(x, e + Extent(u))
  <2>1. x.mReadPos = Place(x, a + Behind(v)) /\ x.mWritePos = Place(x, a + Extent(v))
    BY <1>5, Numbers
  <2>2. /\ k <= Behind(v) /\ (Behind(v) = 0 \/ Behind(v) < N) /\ Behind(v) \in Nat
        /\ k <= Extent(v) /\ (Extent(v) = 0 \/ Extent(v) < N) /\ Extent(v) \in Nat
    BY <1>1
  <2>3. Place(x, e + (Behind(v) - k)) = Place(x, a + Behind(v))
    BY <1>4, <2>2
  <2>4. Place(x, e + (Extent(v) - k)) = Place(x, a + Extent(v))
    BY <1>4, <2>2
  <2> QED BY <1>1, <1>5, <2>1, <2>3, <2>4
<1>10. ASSUME NEW i \in 1..Extent(u)
       PROVE  x.cells[Slot(x, e + i - 1)] = Known(u)[i]
  <2>1. k + i \in 1..Extent(v) /\ a + (k + i) - 1 = a + k + i - 1
    BY <1>1
  <2>2. x.cells[Slot(x, a + (k + i) - 1)] = Known(v)[k + i]
    BY <2>1, Numbers
  <2>3. Place(x, e + i - 1) = Place(x, a + k + i - 1)
    <3> DEFINE n == k + i - 1
    <3>1. /\ n \in Nat /\ k <= n /\ (n = 0 \/ n < N) /\ e + (n - k) = e + i - 1
          /\ a + n = a + k + i - 1
      BY <1>1, <1>3
    <3> HIDE DEF n
    <3>2. Place(x, e + (n - k)) = Place(x, a + n)
      BY <3>1, <1>4
    <3> QED BY <3>1, <3>2
  <2> QED BY <2>1, <2>2, <2>3 DEF Slot
<1>11. ASSUME NEW m, NEW mm, NEW p, Marked(x, a, m, p),
              mm # NULL => m # NULL /\ m \in Nat /\ k <= m /\ mm = m - k
       PROVE  Marked(x, e, mm, p)
  <2> SUFFICES ASSUME mm # NULL PROVE Fits(x, e, mm) /\ p = Pos(x, e + mm)
    BY DEF Marked
  <2>1. m # NULL /\ m \in Nat /\ k <= m /\ mm = m - k
    BY <1>11
  <2>2. Fits(x, a, m) /\ p = Pos(x, a + m)
    BY <1>11, <2>1 DEF Marked
  <2>3. m = 0 \/ m < N
    BY <1>7, <2>2
  <2>4. Place(x, e + (m - k)) = Place(x, a + m) /\ (m - k = 0 \/ m - k < N)
    BY <1>4, <2>1, <2>3
  <2> QED BY <1>5, <1>6, <2>1, <2>2, <2>4
<1>12. Marked(x, e, u.rmark, x.mReadPosMarked) /\ Marked(x, e, u.wmark, x.mWritePosMarked)
  BY <1>11, Numbers
<1>13. Represents(x, u, e)
  BY <1>2, <1>3, <1>8, <1>9, <1>10, <1>12 DEF Represents
<1> QED BY <1>13 DEF e

\* The view with s written.
Plus(v, s) == [v EXCEPT !.next = @ \o s]

\* The view with s written behind it.
LEMMA PlusFacts ==
  ASSUME NEW v \in ViewRecord, NEW s \in Seq(Storable)
  PROVE  /\ Plus(v, s) \in ViewRecord
         /\ Behind(Plus(v, s)) = Behind(v) /\ Ahead(Plus(v, s)) = Ahead(v) + Len(s)
         /\ Extent(Plus(v, s)) = Extent(v) + Len(s)
         /\ \A i \in 1..Extent(v) : Known(Plus(v, s))[i] = Known(v)[i]
         /\ \A j \in 1..Len(s) : Known(Plus(v, s))[Extent(v) + j] = s[j]
         /\ Plus(v, s).rmark = v.rmark /\ Plus(v, s).wmark = v.wmark
         /\ Plus(v, s).back = v.back /\ Plus(v, s).next = v.next \o s
<1> DEFINE u == Plus(v, s)
           N == v.next
           n == Len(s)
<1>1. N \in Seq(Storable) /\ Ahead(v) = Len(N) /\ n \in Nat
  BY ViewFacts, LenProperties DEF Ahead
<1>2. u = [v EXCEPT !.next = N \o s]
  BY DEF Plus
<1>3. Behind(v) \in Nat /\ Ahead(v) \in Nat /\ Extent(v) = Behind(v) + Ahead(v)
  BY ViewFacts
<1> HIDE DEF N
<1>4. /\ N \o s \in Seq(Storable) /\ Len(N \o s) = Ahead(v) + n
      /\ \A i \in 1..(Ahead(v) + n) : (N \o s)[i] = IF i <= Ahead(v) THEN N[i] ELSE s[i - Ahead(v)]
  BY <1>1, ConcatProperties
<1>5. /\ u.back = v.back /\ u.next = N \o s /\ u \in ViewRecord
      /\ u.rmark = v.rmark /\ u.wmark = v.wmark
  BY <1>2, <1>4 DEF ViewRecord
<1> HIDE DEF u, n
<1>6. Behind(u) = Behind(v) /\ Ahead(u) = Ahead(v) + n
  BY <1>4, <1>5 DEF Behind, Ahead
<1>7. Extent(u) = Extent(v) + n
  BY <1>1, <1>3, <1>6, <1>5, ViewFacts
<1>8. \A i \in 1..Extent(u) :
        Known(u)[i] = IF i <= Behind(v) THEN v.back[i] ELSE (N \o s)[i - Behind(v)]
  BY <1>5, <1>6, ViewFacts
<1>9. \A i \in 1..Extent(v) : Known(v)[i] = IF i <= Behind(v) THEN v.back[i] ELSE N[i - Behind(v)]
  BY ViewFacts DEF N
<1>10. ASSUME NEW i \in 1..Extent(v)
       PROVE  Known(u)[i] = Known(v)[i]
  <2>1. i \in 1..Extent(u)
    BY <1>1, <1>3, <1>7
  <2>2. CASE i <= Behind(v)
    BY <1>8, <1>9, <2>1, <2>2
  <2>3. CASE ~(i <= Behind(v))
    <3> DEFINE j == i - Behind(v)
    <3>1. j \in 1..(Ahead(v) + n) /\ j <= Ahead(v)
      BY <1>1, <1>3, <2>3
    <3>2. Known(u)[i] = (N \o s)[j] /\ Known(v)[i] = N[j]
      BY <1>8, <1>9, <2>1, <2>3
    <3> HIDE DEF j
    <3> QED BY <1>4, <3>1, <3>2
  <2> QED BY <2>2, <2>3
<1>11. ASSUME NEW j \in 1..n
       PROVE  Known(u)[Extent(v) + j] = s[j]
  <2> DEFINE i == Extent(v) + j
             q == Ahead(v) + j
  <2>1. /\ i \in 1..Extent(u) /\ ~(i <= Behind(v)) /\ i - Behind(v) = q
        /\ q \in 1..(Ahead(v) + n) /\ ~(q <= Ahead(v)) /\ q - Ahead(v) = j
    BY <1>1, <1>3, <1>7, SMTT(30)
  <2> HIDE DEF i, q
  <2>2. Known(u)[i] = (N \o s)[q]
    BY <1>8, <2>1
  <2>3. (N \o s)[q] = s[j]
    BY <1>4, <2>1
  <2> QED BY <2>2, <2>3 DEF i
<1> QED BY <1>5, <1>6, <1>7, <1>10, <1>11 DEF u, n, N

\* The write position moves over cells that hold s.
LEMMA Advanced ==
  ASSUME NEW x, NEW v, NEW a, Represents(x, v, a), NEW s \in Seq(Storable),
         Fits(x, a, Extent(v) + Len(s)),
         \A j \in 1..Len(s) : x.cells[Slot(x, x.mWritePos + j - 1)] = s[j]
  PROVE  Represents(WSkip(x, Len(s)), Plus(v, s), a)
<1> DEFINE n == Len(s)
           y == WSkip(x, n)
           u == Plus(v, s)
           E == Extent(v)
<1>1. /\ x \in BufferRecord /\ v \in ViewRecord /\ a \in Nat /\ E \in Nat /\ n \in Nat
      /\ x.mReadPos = Pos(x, a + Behind(v)) /\ x.mWritePos = Pos(x, a + E)
      /\ Marked(x, a, v.rmark, x.mReadPosMarked) /\ Marked(x, a, v.wmark, x.mWritePosMarked)
      /\ \A i \in 1..E : x.cells[Slot(x, a + i - 1)] = Known(v)[i]
  BY Numbers, ViewFacts, LenProperties
<1>2. E + n \in Nat /\ E \in 0..(E + n) /\ n \in 0..((E + n) - E)
  BY <1>1
<1>3. /\ Pos(x, Pos(x, a + E) + n) = Pos(x, a + E + n)
      /\ \A j \in 1..((E + n) - E) : Slot(x, Pos(x, a + E) + j - 1) = Slot(x, a + E + j - 1)
      /\ Pos(x, a + E + n) \in Nat
  <2> HIDE DEF E, n
  <2>1. E + n \in 0..(E + n) /\ a + (E + n) = a + E + n
    BY <1>1, <1>2
  <2>2. Fits(x, a, E + n)
    BY DEF E, n
  <2>3. Pos(x, a + (E + n)) \in Nat
    BY <1>1, <1>2, <2>1, <2>2, Steps
  <2>4. x \in BufferRecord /\ a \in Nat
    BY <1>1
  <2>5. \A j \in 0..((E + n) - E) : Pos(x, Pos(x, a + E) + j) = Pos(x, a + E + j)
    BY <1>2, <2>2, <2>4, Steps, ZenonT(60)
  <2>6. \A j \in 1..((E + n) - E) : Slot(x, Pos(x, a + E) + j - 1) = Slot(x, a + E + j - 1)
    BY <1>2, <2>2, <2>4, Steps, ZenonT(60)
  <2>7. Pos(x, Pos(x, a + E) + n) = Pos(x, a + E + n)
    BY <1>2, <2>5
  <2> QED BY <2>1, <2>3, <2>6, <2>7
<1>4. Forward(x, x.mWritePos, n) = Pos(x, a + E + n)
  BY <1>1, <1>3 DEF Forward, Pos
<1>5. /\ y.mode = x.mode /\ y.cells = x.cells /\ y.mReadPos = x.mReadPos
      /\ y.mWritePos = Pos(x, a + E + n) /\ y \in BufferRecord
      /\ y.mReadPosMarked = x.mReadPosMarked /\ y.mWritePosMarked = x.mWritePosMarked
  BY <1>1, <1>3, <1>4 DEF WSkip, BufferRecord
<1>6. /\ u \in ViewRecord /\ Behind(u) = Behind(v) /\ Extent(u) = E + n
      /\ \A i \in 1..E : Known(u)[i] = Known(v)[i]
      /\ \A j \in 1..n : Known(u)[E + j] = s[j]
      /\ u.rmark = v.rmark /\ u.wmark = v.wmark
  BY <1>1, PlusFacts
<1>7. Fits(x, a, E + n) /\ a + (E + n) = a + E + n
  BY <1>1
<1>8. \A j \in 1..n : x.cells[Slot(x, x.mWritePos + j - 1)] = s[j]
  OBVIOUS
<1> HIDE DEF n, y, u, E
<1>9. mAllocatedSize(y) = mAllocatedSize(x)
  BY <1>5 DEF mAllocatedSize
<1>10. /\ \A q : Pos(y, q) = Pos(x, q) /\ Slot(y, q) = Slot(x, q)
       /\ \A m : Fits(y, a, m) <=> Fits(x, a, m)
       /\ \A m, p : Marked(y, a, m, p) <=> Marked(x, a, m, p)
  BY <1>5, <1>9, SameShape
<1>11. ASSUME NEW i \in 1..(E + n)
       PROVE  y.cells[Slot(y, a + i - 1)] = Known(u)[i]
  <2>1. CASE i <= E
    <3>1. i \in 1..E
      BY <2>1, <1>1
    <3> QED BY <3>1, <1>1, <1>5, <1>6, <1>10
  <2>2. CASE ~(i <= E)
    <3> DEFINE j == i - E
    <3>1. j \in 1..n /\ j \in 1..((E + n) - E) /\ E + j = i /\ a + E + j - 1 = a + i - 1
      BY <2>2, <1>1
    <3> HIDE DEF j
    <3>2. x.cells[Slot(x, x.mWritePos + j - 1)] = s[j]
      BY <3>1, <1>8
    <3>3. Slot(x, x.mWritePos + j - 1) = Slot(x, a + i - 1)
      BY <3>1, <1>1, <1>3
    <3>4. Known(u)[i] = s[j]
      BY <3>1, <1>6
    <3> QED BY <3>2, <3>3, <3>4, <1>5, <1>10
  <2> QED BY <2>1, <2>2
<1>12. Represents(y, u, a)
  <2>1. /\ Fits(y, a, Extent(u))
        /\ y.mReadPos = Pos(y, a + Behind(u)) /\ y.mWritePos = Pos(y, a + Extent(u))
    BY <1>1, <1>5, <1>6, <1>7, <1>10
  <2>2. /\ Marked(y, a, u.rmark, y.mReadPosMarked) /\ Marked(y, a, u.wmark, y.mWritePosMarked)
    BY <1>1, <1>5, <1>6, <1>10
  <2>3. \A i \in 1..Extent(u) : y.cells[Slot(y, a + i - 1)] = Known(u)[i]
    BY <1>6, <1>11
  <2> QED BY <1>1, <1>5, <1>6, <2>1, <2>2, <2>3 DEF Represents
<1> QED BY <1>12 DEF y, u, n

\* What is written behind the view leaves the view alone.
LEMMA Overwritten ==
  ASSUME NEW x, NEW v, NEW a, Represents(x, v, a), NEW s \in Seq(Storable),
         Extent(v) + Len(s) <= mAllocatedSize(x), Len(s) = 0 \/ x.mWritePos < mAllocatedSize(x)
  PROVE  Represents(SetArray(x, s, x.mWritePos), v, a)
<1> DEFINE n == Len(s)
           w == x.mWritePos
           y == SetArray(x, s, w)
           E == Extent(v)
           N == mAllocatedSize(x)
<1>1. /\ x \in BufferRecord /\ v \in ViewRecord /\ a \in Nat /\ w \in Nat
      /\ Fits(x, a, E)
      /\ x.mReadPos = Pos(x, a + Behind(v)) /\ w = Pos(x, a + E)
      /\ Marked(x, a, v.rmark, x.mReadPosMarked) /\ Marked(x, a, v.wmark, x.mWritePosMarked)
      /\ \A i \in 1..E : x.cells[Slot(x, a + i - 1)] = Known(v)[i]
  BY Numbers
<1>2. E \in Nat /\ n \in Nat /\ N \in Nat
  BY Numbers, ViewFacts, LenProperties
<1>3. n <= N /\ (n = 0 \/ w < N) /\ E + n <= N
  BY <1>2
<1>4. /\ y = [x EXCEPT !.cells = y.cells]
      /\ y.cells \in Seq(Storable) /\ Len(y.cells) = Len(x.cells)
      /\ \A q \in 1..Len(x.cells) :
           (\A j \in 1..n : q # Slot(x, w + j - 1)) => y.cells[q] = x.cells[q]
  BY <1>1, <1>3, SetArrayIs
<1> HIDE DEF y
<1>5. /\ y \in BufferRecord /\ y.mode = x.mode
      /\ y.mReadPos = x.mReadPos /\ y.mWritePos = w
      /\ y.mReadPosMarked = x.mReadPosMarked /\ y.mWritePosMarked = x.mWritePosMarked
  BY <1>1, <1>4 DEF BufferRecord
<1>6. mAllocatedSize(y) = N /\ Len(x.cells) = N
  BY <1>4 DEF mAllocatedSize
<1>7. /\ \A q : Pos(y, q) = Pos(x, q) /\ Slot(y, q) = Slot(x, q)
      /\ \A m : Fits(y, a, m) <=> Fits(x, a, m)
      /\ \A m, p : Marked(y, a, m, p) <=> Marked(x, a, m, p)
  BY <1>5, <1>6, SameShape
<1>8. ASSUME NEW i \in 1..E, NEW j \in 1..n
      PROVE  Slot(x, a + i - 1) # Slot(x, w + j - 1)
  <2>1. CASE x.mode = "plain"
    <3>1. a = 0 /\ w = E
      BY <2>1, <1>1, <1>2 DEF Fits, Pos
    <3> HIDE DEF w, E, n, N
    <3>2. a + i - 1 = i - 1 /\ w + j - 1 = E + j - 1 /\ ~(i - 1 >= N) /\ ~(E + j - 1 >= N)
      BY <3>1, <1>2, <1>3
    <3> QED BY <3>1, <3>2, <1>2 DEF Slot, Place, N
  <2>2. CASE x.mode = "circular"
    <3>1. (a = 0 \/ a < N) /\ (E = 0 \/ E < N) /\ w = Place(x, a + E)
      BY <2>2, <1>1 DEF Fits, Pos
    <3>3. a \in Nat
      BY <1>1
    <3> HIDE DEF w, E, n, N
    <3>4. w = IF a + E >= N THEN a + E - N ELSE a + E
      BY <3>1, <3>3, <1>2 DEF Place, N
    <3>5. Place(x, a + i - 1) = IF a + i - 1 >= N THEN a + i - 1 - N ELSE a + i - 1
      BY <3>3, <1>2 DEF Place, N
    <3>6. Place(x, w + j - 1) = IF w + j - 1 >= N THEN w + j - 1 - N ELSE w + j - 1
      BY <1>1, <1>2 DEF Place, N
    <3>7. Place(x, a + i - 1) # Place(x, w + j - 1)
      BY <3>1, <3>3, <3>4, <3>5, <3>6, <1>2, <1>3
    <3>8. Place(x, a + i - 1) \in Int /\ Place(x, w + j - 1) \in Int
      BY <3>3, <3>4, <3>5, <3>6, <1>2
    <3> QED BY <3>7, <3>8 DEF Slot
  <2> QED BY <2>1, <2>2, Numbers
<1>9. ASSUME NEW i \in 1..E
      PROVE  y.cells[Slot(y, a + i - 1)] = Known(v)[i]
  <2>1. Slot(x, a + i - 1) \in 1..N
    <3>1. 0 \in 0..E
      BY <1>2
    <3> QED BY <3>1, <1>1, <1>2, Steps
  <2>2. y.cells[Slot(x, a + i - 1)] = x.cells[Slot(x, a + i - 1)]
    BY <2>1, <1>4, <1>6, <1>8
  <2> QED BY <2>2, <1>1, <1>7
<1>10. Represents(y, v, a)
  BY <1>1, <1>5, <1>7, <1>9 DEF Represents
<1> QED BY <1>10 DEF y

\* A write with room for it.
LEMMA Put ==
  ASSUME NEW x, NEW v, NEW a, Represents(x, v, a), NEW s \in Seq(Storable),
         Fits(x, a, Extent(v) + Len(s))
  PROVE  Represents(WSkip(SetArray(x, s, x.mWritePos), Len(s)), Plus(v, s), a)
<1> DEFINE n == Len(s)
           w == x.mWritePos
           y == SetArray(x, s, w)
           E == Extent(v)
           N == mAllocatedSize(x)
<1>1. x \in BufferRecord /\ a \in Nat /\ w \in Nat /\ w = Pos(x, a + E) /\ E \in Nat /\ n \in Nat /\ N \in Nat
  BY Numbers, ViewFacts, LenProperties
<1>2. n <= N /\ E + n <= N /\ (n = 0 \/ w < N)
  <2>1. CASE x.mode = "plain"
    <3>1. w = E /\ E + n <= N
      BY <2>1, <1>1 DEF Fits, Pos
    <3> HIDE DEF w, E, n, N
    <3> QED BY <3>1, <1>1
  <2>2. CASE x.mode = "circular"
    <3>1. (a = 0 \/ a < N) /\ (E + n = 0 \/ E + n < N) /\ w = Place(x, a + E)
      BY <2>2, <1>1 DEF Fits, Pos
    <3>2. Place(x, a + E) = IF a + E >= N THEN a + E - N ELSE a + E
      BY <1>1 DEF Place
    <3> HIDE DEF w, E, n, N
    <3> QED BY <3>1, <3>2, <1>1
  <2> QED BY <2>1, <2>2, Numbers
<1>3. Represents(y, v, a)
  BY <1>1, <1>2, Overwritten
<1>4. /\ y.cells \in Seq(Storable) /\ Len(y.cells) = Len(x.cells)
      /\ y = [x EXCEPT !.cells = y.cells]
      /\ \A i \in 1..n : y.cells[Slot(x, w + i - 1)] = s[i]
  <2>1. w \in Nat /\ x \in BufferRecord
    BY <1>1
  <2> HIDE DEF w
  <2> QED BY <2>1, <1>2, SetArrayIs
<1> HIDE DEF y
<1>5. y.mode = x.mode /\ y.mWritePos = w
  BY <1>1, <1>4 DEF BufferRecord
<1>6. mAllocatedSize(y) = N
  BY <1>4 DEF mAllocatedSize
<1>7. (\A q : Slot(y, q) = Slot(x, q)) /\ Fits(y, a, E + n)
  BY <1>5, <1>6, SameShape
<1>8. Represents(WSkip(y, n), Plus(v, s), a)
  BY <1>3, <1>4, <1>5, <1>7, Advanced
<1> QED BY <1>8 DEF y

\* The view v without its first k cells.
Lowered(m, k) == IF m = NULL \/ m < k THEN NULL ELSE m - k
Cut(v, k) ==
  [back |-> SubSeq(v.back, k + 1, Len(v.back)), next |-> v.next,
   rmark |-> Lowered(v.rmark, k), wmark |-> Lowered(v.wmark, k)]

\* The view without its k oldest cells.
LEMMA CutFacts ==
  ASSUME NEW v \in ViewRecord, NEW k \in Nat, k <= Behind(v)
  PROVE  /\ Cut(v, k) \in ViewRecord
         /\ Behind(Cut(v, k)) = Behind(v) - k /\ Ahead(Cut(v, k)) = Ahead(v)
         /\ \A i \in 1..Extent(Cut(v, k)) : Known(Cut(v, k))[i] = Known(v)[k + i]
<1> DEFINE u == Cut(v, k)
           B == v.back
           b == Behind(v)
           l == Ahead(v)
           t == SubSeq(B, k + 1, b)
<1>1. B \in Seq(Storable) /\ b = Len(B) /\ v.rmark \in Nat \cup {NULL} /\ v.wmark \in Nat \cup {NULL}
  BY ViewFacts DEF Behind, ViewRecord
<1>2. b \in Nat /\ l \in Nat /\ Extent(v) = b + l /\ k <= b
  BY ViewFacts
<1>3. u = [back |-> t, next |-> v.next, rmark |-> Lowered(v.rmark, k), wmark |-> Lowered(v.wmark, k)]
  BY DEF Cut, Behind
<1>4. \A i \in 1..Extent(v) : Known(v)[i] = IF i <= b THEN B[i] ELSE v.next[i - b]
  BY ViewFacts
<1>5. v.next \in Seq(Storable)
  BY ViewFacts
<1>6. \A m \in Nat \cup {NULL} : Lowered(m, k) \in Nat \cup {NULL}
  BY DEF Lowered
<1> HIDE DEF B, b, l
<1>7. /\ t \in Seq(Storable) /\ Len(t) = b - k
      /\ \A i \in 1..(b - k) : t[i] = B[k + i]
  <2>1. \A i \in (k + 1)..b : B[i] \in Storable
    BY <1>1, <1>2, ElementOfSeq
  <2>2. /\ k + 1 \in Int /\ b \in Int
        /\ (IF k + 1 <= b THEN b - (k + 1) + 1 ELSE 0) = b - k
        /\ b - (k + 1) + 1 = b - k
        /\ \A i \in 1..(b - k) : k + 1 + i - 1 = k + i
    BY <1>2
  <2> QED BY <2>1, <2>2, SubSeqProperties
<1> HIDE DEF t
<1>8. u \in ViewRecord /\ u.back = t /\ u.next = v.next
  <2> DEFINE r == Lowered(v.rmark, k)
             w == Lowered(v.wmark, k)
  <2>1. r \in Nat \cup {NULL} /\ w \in Nat \cup {NULL}
    BY <1>1, <1>6
  <2>2. u = [back |-> t, next |-> v.next, rmark |-> r, wmark |-> w]
    BY <1>3
  <2> HIDE DEF u, r, w
  <2> QED BY <2>1, <2>2, <1>5, <1>7 DEF ViewRecord
<1> HIDE DEF u
<1>9. Behind(u) = b - k /\ Ahead(u) = l
  BY <1>7, <1>8 DEF Behind, Ahead, l
<1>10. Extent(u) = b + l - k
  BY <1>2, <1>8, <1>9, ViewFacts
<1>11. ASSUME NEW i \in 1..Extent(u)
       PROVE  Known(u)[i] = Known(v)[k + i]
  <2> DEFINE j == k + i
  <2>1. j \in 1..Extent(v) /\ i \in Nat /\ i >= 1 /\ j = k + i
    BY <1>2, <1>10
  <2>2. Known(u)[i] = IF i <= b - k THEN t[i] ELSE v.next[i - (b - k)]
    BY <1>8, <1>9, ViewFacts
  <2> HIDE DEF j
  <2>3. Known(v)[j] = IF j <= b THEN B[j] ELSE v.next[j - b]
    BY <1>4, <2>1
  <2>4. (j <= b <=> i <= b - k) /\ i - (b - k) = j - b
    BY <1>2, <2>1
  <2>5. CASE i <= b - k
    <3>1. i \in 1..(b - k)
      BY <2>1, <2>5, <1>2
    <3> QED BY <2>1, <2>2, <2>3, <2>4, <2>5, <3>1, <1>7 DEF j
  <2>6. CASE ~(i <= b - k)
    BY <2>2, <2>3, <2>4, <2>6 DEF j
  <2> QED BY <2>5, <2>6
<1> QED BY <1>8, <1>9, <1>11 DEF u, b, l

\* It begins k cells further on.
LEMMA CutRepresents ==
  ASSUME NEW x, NEW v, NEW a, Represents(x, v, a), x.mode = "circular",
         NEW k \in Nat, k <= Behind(v)
  PROVE  Represents(x, Cut(v, k), Place(x, a + k))
<1> DEFINE u == Cut(v, k)
<1>1. v \in ViewRecord
  BY Numbers
<1>2. u.rmark = Lowered(v.rmark, k) /\ u.wmark = Lowered(v.wmark, k)
  BY DEF Cut
<1>3. v.rmark \in Nat \cup {NULL} /\ v.wmark \in Nat \cup {NULL}
  BY <1>1 DEF ViewRecord
<1>4. ASSUME NEW m \in Nat \cup {NULL}, Lowered(m, k) # NULL
      PROVE  m # NULL /\ m \in Nat /\ k <= m /\ Lowered(m, k) = m - k
  BY <1>4 DEF Lowered
<1>5. /\ u.rmark # NULL => v.rmark # NULL /\ v.rmark \in Nat /\ k <= v.rmark /\ u.rmark = v.rmark - k
      /\ u.wmark # NULL => v.wmark # NULL /\ v.wmark \in Nat /\ k <= v.wmark /\ u.wmark = v.wmark - k
  BY <1>2, <1>3, <1>4
<1>6. /\ u \in ViewRecord /\ Behind(u) = Behind(v) - k /\ Ahead(u) = Ahead(v)
      /\ \A i \in 1..Extent(u) : Known(u)[i] = Known(v)[k + i]
  BY <1>1, CutFacts
<1> HIDE DEF u
<1>7. Represents(x, u, Place(x, a + k))
  BY <1>5, <1>6, Forgotten
<1> QED BY <1>7 DEF u

\* There is room to write n cells, whatever is forgotten for it.
Room(x, v, n) ==
  IF x.mode = "plain" THEN Extent(v) + n <= mAllocatedSize(x) ELSE Ahead(v) + n < mAllocatedSize(x)

\* A step from x to y that writes s where there is room for it writes s, and a
\* circular buffer forgets what it had to overwrite.
LEMMA Trims ==
  ASSUME NEW x, NEW v, NEW a, Represents(x, v, a), NEW s \in Seq(Storable), Room(x, v, Len(s)),
         NEW y, y.mode = x.mode, mAllocatedSize(y) = mAllocatedSize(x),
         \A u, e : Represents(x, u, e) /\ Fits(x, e, Extent(u) + Len(s)) => Represents(y, Plus(u, s), e)
  PROVE  \E e : Represents(y, Trimmed(y, Plus(v, s)), e)
<1> DEFINE n == Len(s)
           N == mAllocatedSize(x)
           E == Extent(v)
           b == Behind(v)
           l == Ahead(v)
           u == Plus(v, s)
<1>1. /\ v \in ViewRecord /\ x \in BufferRecord /\ a \in Nat /\ Fits(x, a, E)
      /\ x.mode = "plain" \/ x.mode = "circular"
  BY Numbers
<1>2. n \in Nat /\ N \in Nat /\ E \in Nat /\ b \in Nat /\ l \in Nat /\ E = b + l
  BY <1>1, ViewFacts, MemoryFacts, LenProperties
<1>3. u.back = v.back /\ Len(u.back) = b /\ u.next = v.next \o s /\ u.rmark = v.rmark /\ u.wmark = v.wmark
  BY <1>1, PlusFacts DEF Behind
<1>4. ~(y.mode = "circular" /\ Len(u.back) > FreeSize(y)) => Trimmed(y, u) = u
  BY DEF Trimmed
<1>5. CASE Fits(x, a, E + n)
  <2>1. Represents(y, u, a)
    BY <1>5
  <2>2. Ahead(u) = l + n /\ Behind(u) = b
    BY <1>1, PlusFacts
  <2>3. y.mode = "circular" => FreeSize(y) = N - 1 - (l + n)
    BY <2>1, <2>2, SizesAre
  <2>4. y.mode = "circular" => E + n = 0 \/ E + n < N
    BY <1>5 DEF Fits
  <2>5. CASE y.mode = "plain"
    BY <2>1, <2>5, <1>4
  <2>6. CASE y.mode = "circular"
    <3>1. l + n < N
      BY <2>6 DEF Room
    <3>2. ~(Len(u.back) > FreeSize(y))
      <4>1. FreeSize(y) = N - 1 - (l + n) /\ (E + n = 0 \/ E + n < N) /\ Len(u.back) = b
        BY <2>3, <2>4, <2>6, <1>3
      <4> HIDE DEF n, N, E, b, l, u
      <4>2. ~(b > N - 1 - (l + n))
        BY <3>1, <4>1, <1>2
      <4> QED BY <4>1, <4>2
    <3> QED BY <2>1, <3>2, <1>4
  <2> QED BY <2>5, <2>6, <1>1
<1>6. CASE ~Fits(x, a, E + n)
  <2>1. x.mode = "circular"
    <3>1. x.mode = "plain" => Fits(x, a, E + n)
      BY <1>1 DEF Fits, Room
    <3> QED BY <3>1, <1>1, <1>6
  <2>2. /\ l + n < N /\ (a = 0 \/ a < N) /\ ~(E + n = 0) /\ ~(E + n < N)
    BY <2>1, <1>1, <1>6 DEF Fits, Room
  <2> DEFINE k == E + n - (N - 1)
             e == Place(x, a + k)
  <2>3. k \in Nat /\ k # 0 /\ k <= b /\ E - k + n = N - 1 /\ b - k + l = E - k
    <3> HIDE DEF N, n, E, b, l
    <3> QED BY <1>2, <2>2
  <2>4. Represents(x, Cut(v, k), e)
    <3> HIDE DEF k
    <3> QED BY <2>1, <2>3, CutRepresents
  <2>5. /\ Cut(v, k) \in ViewRecord /\ Ahead(Cut(v, k)) = l /\ Behind(Cut(v, k)) = b - k
    <3> HIDE DEF k
    <3> QED BY <1>1, <2>3, CutFacts
  <2>6. Extent(Cut(v, k)) = E - k
    <3> HIDE DEF k
    <3>1. Extent(Cut(v, k)) = (b - k) + l
      BY <2>5, ViewFacts
    <3> QED BY <3>1, <2>3, <1>2
  <2> HIDE DEF k, e
  <2>7. Fits(x, e, Extent(Cut(v, k)) + n)
    <3>1. e = 0 \/ e < N
      <4>1. e = IF a + k >= N THEN a + k - N ELSE a + k
        BY <1>1, <1>2, <2>3 DEF Place, e
      <4>2. k < N /\ a \in Nat
        <5>1. (E = 0 \/ E < N) /\ a \in Nat
          BY <1>1, <2>1 DEF Fits
        <5> HIDE DEF N, n, E, b, l
        <5> QED BY <5>1, <1>2, <2>3
      <4> HIDE DEF N, n, E, b, l
      <4> QED BY <4>1, <4>2, <1>2, <2>2, <2>3
    <3>2. Extent(Cut(v, k)) + n = N - 1 /\ N - 1 < N
      BY <1>2, <2>3, <2>6
    <3> QED BY <2>1, <3>1, <3>2 DEF Fits
  <2>8. Represents(y, Plus(Cut(v, k), s), e)
    BY <2>4, <2>7
  <2>9. Ahead(Plus(Cut(v, k), s)) = l + n
    BY <2>5, PlusFacts
  <2>10. FreeSize(y) = N - 1 - (l + n)
    BY <2>1, <2>8, <2>9, SizesAre
  <2>11. Len(u.back) > FreeSize(y) /\ Len(u.back) - FreeSize(y) = k
    <3>1. Len(u.back) = b
      BY <1>3
    <3> HIDE DEF N, n, E, b, l, u
    <3>2. b > N - 1 - (l + n) /\ b - (N - 1 - (l + n)) = k
      BY <1>2, <2>3
    <3> QED BY <3>1, <3>2, <2>10
  <2>12. Trimmed(y, u) =
           [back |-> SubSeq(u.back, k + 1, Len(u.back)), next |-> u.next,
            rmark |-> Lowered(u.rmark, k), wmark |-> Lowered(u.wmark, k)]
    <3> HIDE DEF u
    <3> QED BY <2>1, <2>3, <2>11 DEF Trimmed, Lowered
  <2>13. Plus(Cut(v, k), s) =
           [back |-> SubSeq(v.back, k + 1, Len(v.back)), next |-> v.next \o s,
            rmark |-> Lowered(v.rmark, k), wmark |-> Lowered(v.wmark, k)]
    <3> DEFINE t == SubSeq(v.back, k + 1, Len(v.back))
               r == Lowered(v.rmark, k)
               w == Lowered(v.wmark, k)
               z == v.next
               c == Cut(v, k)
               q == z \o s
    <3>1. Cut(v, k) = [back |-> t, next |-> z, rmark |-> r, wmark |-> w]
      BY DEF Cut
    <3> HIDE DEF t, r, w, z, c
    <3>2. c = [back |-> t, next |-> z, rmark |-> r, wmark |-> w]
      BY <3>1 DEF c
    <3>3. c.next \o s = q
      BY <3>2
    <3>4. Plus(c, s) = [c EXCEPT !.next = q]
      BY <3>3 DEF Plus
    <3> HIDE DEF q
    <3>5. [c EXCEPT !.next = q] = [back |-> t, next |-> q, rmark |-> r, wmark |-> w]
      BY <3>2
    <3> QED BY <3>4, <3>5 DEF t, r, w, z, c, q
  <2>14. Trimmed(y, u) = Plus(Cut(v, k), s)
    BY <2>12, <2>13, <1>3
  <2> QED BY <2>8, <2>14
<1> QED BY <1>5, <1>6

-----------------------------------------------------------------------------
(* Memory that moves or grows                                              *)

\* The view after crunch or growth: the cells still to be read.
LEMMA MovedFacts ==
  ASSUME NEW v \in ViewRecord
  PROVE  /\ Moved(v) \in ViewRecord
         /\ Behind(Moved(v)) = 0 /\ Ahead(Moved(v)) = Ahead(v) /\ Extent(Moved(v)) = Ahead(v)
         /\ \A i \in 1..Ahead(v) : Known(Moved(v))[i] = v.next[i]
         /\ Moved(v).rmark = NULL /\ Moved(v).wmark = NULL
<1> DEFINE u == Moved(v)
<1>1. v.next \in Seq(Storable) /\ Ahead(v) \in Nat
  BY ViewFacts
<1>2. <<>> \in Seq(Storable) /\ Len(<<>>) = 0
  BY EmptySeq
<1>3. /\ u \in ViewRecord /\ u.back = <<>> /\ u.next = v.next /\ u.rmark = NULL /\ u.wmark = NULL
  BY <1>1, <1>2 DEF Moved, ViewRecord
<1> HIDE DEF u
<1>4. Behind(u) = 0 /\ Ahead(u) = Ahead(v)
  BY <1>2, <1>3 DEF Behind, Ahead
<1>5. Extent(u) = Ahead(v)
  BY <1>1, <1>3, <1>4, ViewFacts
<1>6. ASSUME NEW i \in 1..Ahead(v)
      PROVE  Known(u)[i] = v.next[i]
  <2>1. i \in 1..Extent(u) /\ ~(i <= Behind(u)) /\ i - Behind(u) = i
    BY <1>1, <1>4, <1>5
  <2>2. Known(u)[i] = IF i <= Behind(u) THEN u.back[i] ELSE u.next[i - Behind(u)]
    BY <1>3, <2>1, ViewFacts
  <2> QED BY <1>3, <2>1, <2>2
<1> QED BY <1>3, <1>4, <1>5, <1>6 DEF u

\* What is behind the reader of a circular buffer may be forgotten.
LEMMA Forgets ==
  ASSUME NEW x, NEW v, NEW a, Represents(x, v, a), x.mode = "circular"
  PROVE  Represents(x, Moved(v), x.mReadPos)
<1> DEFINE u == Moved(v)
           b == Behind(v)
<1>1. v \in ViewRecord /\ x.mReadPos = Pos(x, a + b)
  BY Numbers
<1>2. b \in Nat /\ Ahead(v) \in Nat /\ Extent(v) = b + Ahead(v)
  BY <1>1, ViewFacts
<1>3. /\ u \in ViewRecord /\ Behind(u) = b - b /\ Ahead(u) = Ahead(v) /\ Extent(u) = Ahead(v)
      /\ \A i \in 1..Ahead(v) : Known(u)[i] = v.next[i]
      /\ u.rmark = NULL /\ u.wmark = NULL
  BY <1>1, <1>2, MovedFacts
<1>4. ASSUME NEW i \in 1..Extent(u)
      PROVE  Known(u)[i] = Known(v)[b + i]
  <2> DEFINE j == b + i
  <2>1. j \in 1..Extent(v) /\ ~(j <= b) /\ j - b = i /\ i \in 1..Ahead(v)
    BY <1>2, <1>3
  <2> HIDE DEF j
  <2>2. Known(v)[j] = v.next[j - b]
    BY <1>1, <2>1, ViewFacts
  <2> QED BY <1>3, <2>1, <2>2 DEF j
<1>5. x.mReadPos = Place(x, a + b)
  BY <1>1 DEF Pos
<1> HIDE DEF u, b
<1>6. b <= Behind(v) /\ Behind(u) = Behind(v) - b
  BY <1>2, <1>3 DEF b
<1>7. Represents(x, u, Place(x, a + b))
  BY <1>2, <1>3, <1>4, <1>6, Forgotten
<1> QED BY <1>5, <1>7 DEF u

\* A position from the start of the memory is where it says.
LEMMA FromStart ==
  ASSUME NEW x \in BufferRecord, NEW n \in Nat, Fits(x, 0, n)
  PROVE  /\ Pos(x, 0 + n) = n /\ n <= mAllocatedSize(x)
         /\ \A i \in 1..n : Slot(x, 0 + i - 1) = i
<1>1. mAllocatedSize(x) \in Nat /\ (x.mode = "plain" \/ x.mode = "circular")
  BY MemoryFacts
<1>2. CASE x.mode = "plain"
  <2>1. n <= mAllocatedSize(x)
    BY <1>2 DEF Fits
  <2> QED BY <1>1, <1>2, <2>1 DEF Pos, Slot, Place
<1>3. CASE x.mode = "circular"
  <2>1. n = 0 \/ n < mAllocatedSize(x)
    BY <1>3 DEF Fits
  <2>2. Place(x, 0 + n) = n
    BY <1>1, <2>1 DEF Place
  <2>3. \A i \in 1..n : Place(x, 0 + i - 1) = i - 1
    BY <1>1, <2>1 DEF Place
  <2> QED BY <1>1, <1>3, <2>1, <2>2, <2>3 DEF Pos, Slot
<1> QED BY <1>1, <1>2, <1>3

\* crunch() brings the cells that are still to be read to the front.
LEMMA CrunchKeeps ==
  ASSUME NEW x, NEW v, NEW a, Represents(x, v, a), CrunchMoves(x)
  PROVE  /\ Represents(Crunched(x), Moved(v), 0)
         /\ Crunched(x).mode = x.mode /\ mAllocatedSize(Crunched(x)) = mAllocatedSize(x)
         /\ Crunched(x).mOwner = x.mOwner
<1> DEFINE s == Content(x)
           z == SetArray(x, s, 0)
           y == Crunched(x)
           u == Moved(v)
           n == Ahead(v)
           N == mAllocatedSize(x)
<1>1. x \in BufferRecord /\ v \in ViewRecord /\ (x.mode = "plain" \/ x.mode = "circular")
  BY Numbers
<1>2. s = v.next /\ s \in Seq(Storable) /\ Len(s) = n
  BY <1>1, ContentIs, ViewFacts DEF Ahead
<1>3. n \in Nat /\ N \in Nat /\ n <= N /\ (n = 0 \/ 0 < N) /\ Fits(x, 0, n)
  <2>1. /\ N \in Nat /\ Behind(v) \in Nat /\ n \in Nat /\ Extent(v) = Behind(v) + n
        /\ Fits(x, a, Extent(v))
    BY Numbers
  <2>2. CASE x.mode = "plain"
    BY <2>1, <2>2 DEF Fits
  <2>3. CASE x.mode = "circular"
    BY <2>1, <2>3 DEF Fits
  <2> QED BY <1>1, <2>2, <2>3
<1>4. y = [z EXCEPT !.mReadPos = 0, !.mWritePos = Len(s)]
  BY DEF Crunched
<1> HIDE DEF s, y, u, n, N
<1>5. /\ z = [x EXCEPT !.cells = z.cells]
      /\ z.cells \in Seq(Storable) /\ Len(z.cells) = Len(x.cells)
      /\ \A i \in 1..Len(s) : z.cells[Slot(x, 0 + i - 1)] = s[i]
  <2> DEFINE p == 0
  <2>1. p \in Nat /\ Len(s) <= mAllocatedSize(x) /\ (Len(s) = 0 \/ p < mAllocatedSize(x))
    BY <1>2, <1>3 DEF N
  <2>2. s \in Seq(Storable)
    BY <1>2
  <2> HIDE DEF p
  <2> QED BY <1>1, <2>1, <2>2, SetArrayIs DEF p
<1> HIDE DEF z
<1>6. /\ y \in BufferRecord /\ y.cells = z.cells /\ y.mode = x.mode /\ y.mOwner = x.mOwner
      /\ y.mReadPos = 0 /\ y.mWritePos = n
  BY <1>1, <1>2, <1>3, <1>4, <1>5 DEF BufferRecord
<1>7. mAllocatedSize(y) = N
  BY <1>5, <1>6 DEF mAllocatedSize, N
<1>8. (\A q : Slot(y, q) = Slot(x, q)) /\ Fits(y, 0, n)
  BY <1>3, <1>6, <1>7, SameShape DEF N
<1>9. Pos(y, 0 + n) = n /\ Pos(y, 0 + 0) = 0
  <2>1. Fits(y, 0, 0)
    BY <1>3, <1>6, <1>8, FitsLess
  <2> QED BY <1>3, <1>6, <1>8, <2>1, FromStart
<1>10. /\ u \in ViewRecord /\ Behind(u) = 0 /\ Extent(u) = n
       /\ \A i \in 1..n : Known(u)[i] = v.next[i]
       /\ u.rmark = NULL /\ u.wmark = NULL
  BY <1>1, MovedFacts DEF u, n
<1>11. \A i \in 1..n : y.cells[Slot(y, 0 + i - 1)] = Known(u)[i]
  BY <1>2, <1>5, <1>6, <1>8, <1>10
<1>12. Marked(y, 0, u.rmark, y.mReadPosMarked) /\ Marked(y, 0, u.wmark, y.mWritePosMarked)
  BY <1>10 DEF Marked
<1>13. Represents(y, u, 0)
  BY <1>6, <1>8, <1>9, <1>10, <1>11, <1>12 DEF Represents
<1> QED BY <1>6, <1>7, <1>13 DEF y, u, N

\* More memory at the end changes nothing for a view that begins at the start.
LEMMA Extends ==
  ASSUME NEW x, NEW v, Represents(x, v, 0), NEW t \in Seq(Storable)
  PROVE  LET y == [x EXCEPT !.cells = @ \o t]
         IN  /\ Represents(y, v, 0) /\ y.mode = x.mode
             /\ mAllocatedSize(y) = mAllocatedSize(x) + Len(t)
<1> DEFINE y == [x EXCEPT !.cells = @ \o t]
           c == x.cells
           N == mAllocatedSize(x)
           E == Extent(v)
<1>1. /\ x \in BufferRecord /\ v \in ViewRecord /\ Fits(x, 0, E)
      /\ x.mReadPos = Pos(x, 0 + Behind(v)) /\ x.mWritePos = Pos(x, 0 + E)
      /\ Marked(x, 0, v.rmark, x.mReadPosMarked) /\ Marked(x, 0, v.wmark, x.mWritePosMarked)
      /\ \A i \in 1..E : c[Slot(x, 0 + i - 1)] = Known(v)[i]
  BY Numbers, SMTT(30)
<1>2. c \in Seq(Storable) /\ Len(c) = N /\ N \in Nat /\ (x.mode = "plain" \/ x.mode = "circular")
  BY <1>1, MemoryFacts DEF mAllocatedSize
<1>3. Len(t) \in Nat /\ E \in Nat /\ Behind(v) \in Nat /\ Behind(v) <= E
  <2>1. Behind(v) \in Nat /\ Ahead(v) \in Nat /\ E = Behind(v) + Ahead(v) /\ Len(t) \in Nat
    BY <1>1, ViewFacts, LenProperties
  <2> HIDE DEF E
  <2> QED BY <2>1
<1> HIDE DEF c
<1>4. /\ c \o t \in Seq(Storable) /\ Len(c \o t) = N + Len(t)
      /\ \A i \in 1..(N + Len(t)) : (c \o t)[i] = IF i <= N THEN c[i] ELSE t[i - N]
  <2>1. c \in Seq(Storable) /\ Len(c) = N
    BY <1>2
  <2> HIDE DEF N
  <2> QED BY <2>1, ConcatProperties
<1>5. /\ y \in BufferRecord /\ y.cells = c \o t /\ y.mode = x.mode
      /\ y.mReadPos = x.mReadPos /\ y.mWritePos = x.mWritePos
      /\ y.mReadPosMarked = x.mReadPosMarked /\ y.mWritePosMarked = x.mWritePosMarked
  <2>1. y = [x EXCEPT !.cells = c \o t]
    BY DEF c
  <2> HIDE DEF y
  <2> QED BY <1>1, <1>4, <2>1 DEF BufferRecord
<1> HIDE DEF y, N, E
<1>6. mAllocatedSize(y) = N + Len(t)
  BY <1>4, <1>5 DEF mAllocatedSize
<1>7. ASSUME NEW n \in Nat, Fits(x, 0, n)
      PROVE  Fits(y, 0, n)
  <2>1. CASE x.mode = "plain"
    <3>1. n <= N
      BY <1>7, <2>1 DEF Fits, N
    <3>2. n <= N + Len(t)
      BY <3>1, <1>2, <1>3, <1>4
    <3> QED BY <3>2, <2>1, <1>5, <1>6 DEF Fits
  <2>2. CASE x.mode = "circular"
    <3>1. n = 0 \/ n < N
      BY <1>7, <2>2 DEF Fits, N
    <3>2. n = 0 \/ n < N + Len(t)
      BY <3>1, <1>2, <1>3
    <3> QED BY <3>2, <2>2, <1>5, <1>6 DEF Fits
  <2> QED BY <1>2, <2>1, <2>2
<1>8. ASSUME NEW n \in Nat, Fits(x, 0, n)
      PROVE  Pos(y, 0 + n) = Pos(x, 0 + n)
  BY <1>1, <1>5, <1>7, <1>8, FromStart
<1>9. \A p : \A m \in Nat \cup {NULL} : Marked(x, 0, m, p) => Marked(y, 0, m, p)
  BY <1>7, <1>8 DEF Marked
<1>10. v.rmark \in Nat \cup {NULL} /\ v.wmark \in Nat \cup {NULL}
  BY <1>1 DEF ViewRecord
<1>11. Marked(y, 0, v.rmark, y.mReadPosMarked) /\ Marked(y, 0, v.wmark, y.mWritePosMarked)
  BY <1>1, <1>5, <1>9, <1>10
<1>12. ASSUME NEW i \in 1..E
       PROVE  y.cells[Slot(y, 0 + i - 1)] = Known(v)[i]
  <2>1. Slot(x, 0 + i - 1) = i /\ Slot(y, 0 + i - 1) = i /\ E <= N
    BY <1>1, <1>3, <1>5, <1>7, FromStart DEF N
  <2>2. i \in 1..(N + Len(t)) /\ i <= N
    BY <1>2, <1>3, <2>1
  <2> QED BY <1>1, <1>4, <1>5, <2>1, <2>2
<1>13. Fits(x, 0, Behind(v)) /\ Fits(y, 0, E)
  BY <1>1, <1>3, <1>7, FitsLess
<1>14. y.mReadPos = Pos(y, 0 + Behind(v)) /\ y.mWritePos = Pos(y, 0 + E)
  BY <1>1, <1>3, <1>5, <1>8, <1>13
<1>15. Represents(y, v, 0)
  BY <1>1, <1>5, <1>11, <1>12, <1>13, <1>14 DEF Represents, E
<1> QED BY <1>5, <1>6, <1>15 DEF y, N

\* The largest size has a number.
LEMMA MaxSizeIs ==
  MaxSize = 1073741824
BY SMTT(60) DEF MaxSize

\* It is a natural number, as the powers of two are.
LEMMA SizesAreNat ==
  MaxSize \in Nat /\ PowersOfTwo \subseteq Nat
BY SMTT(60) DEF PowersOfTwo, MaxSize

\* There is a power of two for every size but 0.
LEMMA PowerIs ==
  ASSUME NEW n \in Nat, n > 0, n <= MaxSize
  PROVE  \E p \in PowersOfTwo : n <= p /\ p < 2 * n
<1>0. n <= 1073741824
  BY MaxSizeIs, SMTT(60)
<1>1. \/ (n > 0 /\ n <= 1) \/ (n > 1 /\ n <= 2) \/ (n > 2 /\ n <= 4)
      \/ (n > 4 /\ n <= 8) \/ (n > 8 /\ n <= 16)
      \/ (n > 16 /\ n <= 32) \/ (n > 32 /\ n <= 64) \/ (n > 64 /\ n <= 128)
      \/ (n > 128 /\ n <= 256) \/ (n > 256 /\ n <= 512) \/ (n > 512 /\ n <= 1024)
      \/ (n > 1024 /\ n <= 2048) \/ (n > 2048 /\ n <= 4096) \/ (n > 4096 /\ n <= 8192)
      \/ (n > 8192 /\ n <= 16384) \/ (n > 16384 /\ n <= 32768) \/ (n > 32768 /\ n <= 65536)
      \/ (n > 65536 /\ n <= 131072) \/ (n > 131072 /\ n <= 262144)
      \/ (n > 262144 /\ n <= 524288) \/ (n > 524288 /\ n <= 1048576)
      \/ (n > 1048576 /\ n <= 2097152) \/ (n > 2097152 /\ n <= 4194304)
      \/ (n > 4194304 /\ n <= 8388608) \/ (n > 8388608 /\ n <= 16777216)
      \/ (n > 16777216 /\ n <= 33554432) \/ (n > 33554432 /\ n <= 67108864)
      \/ (n > 67108864 /\ n <= 134217728) \/ (n > 134217728 /\ n <= 268435456)
      \/ (n > 268435456 /\ n <= 536870912) \/ (n > 536870912 /\ n <= 1073741824)
  BY <1>0, SMTT(60)
<1> QED BY <1>1, SMTT(60) DEF PowersOfTwo, MaxSize

\* Sizes are rounded up.
LEMMA RoundUpIs ==
  ASSUME NEW n \in 0..MaxSize
  PROVE  RoundUp(n) \in Nat /\ RoundUp(n) >= n
<1>1. n \in Nat /\ n <= MaxSize
  BY SizesAreNat
<1>2. CASE n = 0
  BY <1>2 DEF RoundUp
<1>3. CASE n # 0
  <2>1. \E p \in PowersOfTwo : n <= p /\ p < 2 * n
    BY <1>1, <1>3, PowerIs
  <2>2. RoundUp(n) \in PowersOfTwo /\ RoundUp(n) >= n
    BY <1>3, <2>1 DEF RoundUp
  <2> QED BY <2>2, SizesAreNat
<1> QED BY <1>2, <1>3

\* Memory that was never written.
LEMMA UninitializedIs ==
  ASSUME NEW n \in Nat
  PROVE  Uninitialized(n) \in Seq(Storable) /\ Len(Uninitialized(n)) = n
<1>1. Uninitialized(n) \in [1..n -> Storable]
  BY DEF Uninitialized, Storable
<1> QED BY <1>1, SeqDef, LenProperties DEF Uninitialized

\* realloc, after a crunch of a circular buffer.
LEMMA GrownKeeps ==
  ASSUME NEW x, NEW v, NEW a, Represents(x, v, a), NEW n \in Nat,
         x.mOnDemand, mAllocatedSize(x) < Needed(x, n), MayGrow(x, n)
  PROVE  /\ Represents(Grown(x, n), IF x.mode = "plain" THEN v ELSE Moved(v), 0)
         /\ Grown(x, n).mode = x.mode
         /\ mAllocatedSize(Grown(x, n)) > mAllocatedSize(x)
         /\ mAllocatedSize(Grown(x, n)) >= Needed(x, n)
<1> DEFINE N == mAllocatedSize(x)
           u == IF x.mode = "plain" THEN v ELSE Moved(v)
           c == IF x.mode = "circular" THEN Crunched(x) ELSE x
           m == IF x.mode = "plain" THEN RoundUp(x.mWritePos + n) ELSE RoundUp(DataSize(x) + n) + 1
           y == [c EXCEPT !.cells = @ \o Uninitialized(m - Len(c.cells))]
<1>1. /\ N \in Nat /\ x.mWritePos \in Nat /\ DataSize(x) \in Nat
      /\ x.mode = "plain" \/ x.mode = "circular"
  BY Numbers, SizesAre
<1>2. /\ Needed(x, n) \in Nat /\ Needed(x, n) <= MaxSize
      /\ x.mode = "plain" => Needed(x, n) = x.mWritePos + n
      /\ x.mode = "circular" => Needed(x, n) = DataSize(x) + n + 1
  <2>1. Needed(x, n) <= MaxCells
    BY DEF MayGrow
  <2>2. /\ x.mode = "plain" => Needed(x, n) = x.mWritePos + n
        /\ x.mode = "circular" => Needed(x, n) = DataSize(x) + n + 1
    BY DEF Needed
  <2>3. Needed(x, n) \in Nat
    BY <1>1, <2>2
  <2>4. MaxCells \in Nat /\ MaxCells <= MaxSize /\ MaxSize \in Nat
    <3>1. MaxSize \in Nat
      BY SizesAreNat
    <3> QED BY <3>1, SizeAssumption
  <2> QED BY <2>1, <2>2, <2>3, <2>4
<1>20. MaxSize \in Nat
  BY SizesAreNat
<1>3. m \in Nat /\ m >= Needed(x, n)
  <2>1. CASE x.mode = "plain"
    <3>1. x.mWritePos + n \in 0..MaxSize /\ Needed(x, n) = x.mWritePos + n
      BY <2>1, <1>1, <1>2, <1>20
    <3> QED BY <2>1, <3>1, RoundUpIs
  <2>2. CASE x.mode = "circular"
    <3>1. DataSize(x) + n \in 0..MaxSize /\ Needed(x, n) = DataSize(x) + n + 1
      BY <2>2, <1>1, <1>2, <1>20
    <3>2. RoundUp(DataSize(x) + n) \in Nat /\ RoundUp(DataSize(x) + n) >= DataSize(x) + n
      BY <3>1, RoundUpIs
    <3> QED BY <2>2, <3>1, <3>2, <1>1
  <2> QED BY <1>1, <2>1, <2>2
<1>4. Grown(x, n) = y
  <2>1. ~(~x.mOnDemand \/ mAllocatedSize(x) >= Needed(x, n))
    BY <1>1, <1>2
  <2>2. Grown(x, n) = Resized(x, m)
    BY <2>1 DEF Grown
  <2> QED BY <2>2 DEF Resized
<1>5. Represents(c, u, 0) /\ mAllocatedSize(c) = N /\ c.mode = x.mode
  <2>1. CASE x.mode = "plain"
    <3>1. a = 0
      BY <2>1, Numbers DEF Fits
    <3> QED BY <2>1, <3>1
  <2>2. CASE x.mode = "circular"
    BY <2>2, CrunchKeeps DEF CrunchMoves
  <2> QED BY <1>1, <2>1, <2>2
<1>6. Len(c.cells) = N
  BY <1>5 DEF mAllocatedSize
<1> HIDE DEF N, u, c, m
<1>7. m - N \in Nat /\ N + (m - N) = m /\ m > N
  BY <1>1, <1>2, <1>3 DEF N
<1> DEFINE t == Uninitialized(m - N)
<1>8. t \in Seq(Storable) /\ Len(t) = m - N
  BY <1>7, UninitializedIs
<1>9. y = [c EXCEPT !.cells = @ \o t]
  BY <1>6
<1> HIDE DEF t, y
<1>10. Represents(y, u, 0) /\ y.mode = c.mode /\ mAllocatedSize(y) = mAllocatedSize(c) + Len(t)
  BY <1>5, <1>8, <1>9, Extends
<1>11. mAllocatedSize(y) = m
  BY <1>5, <1>7, <1>8, <1>10
<1> QED BY <1>3, <1>4, <1>5, <1>7, <1>10, <1>11 DEF u, N

-----------------------------------------------------------------------------
(* The operations                                                          *)

\* setArray at the write position keeps the size of the memory.
LEMMA PutShape ==
  ASSUME NEW x, NEW v, NEW a, Represents(x, v, a), NEW s \in Seq(Storable), Room(x, v, Len(s))
  PROVE  LET y == WSkip(SetArray(x, s, x.mWritePos), Len(s))
         IN  y.mode = x.mode /\ mAllocatedSize(y) = mAllocatedSize(x)
<1> DEFINE n == Len(s)
           w == x.mWritePos
           N == mAllocatedSize(x)
           z == SetArray(x, s, w)
<1>1. x \in BufferRecord /\ w \in Nat /\ N \in Nat /\ (x.mode = "plain" \/ x.mode = "circular")
  BY Numbers
<1>2. Behind(v) \in Nat /\ Ahead(v) \in Nat /\ Extent(v) = Behind(v) + Ahead(v) /\ n \in Nat
  BY Numbers, LenProperties
<1>3. n <= N /\ (n = 0 \/ w < N)
  <2>1. CASE x.mode = "plain"
    <3>1. w = Extent(v) /\ Extent(v) + n <= N
      BY <2>1, SizesAre DEF Room
    <3> HIDE DEF n, w, N
    <3> QED BY <3>1, <1>1, <1>2
  <2>2. CASE x.mode = "circular"
    <3>1. Ahead(v) + n < N
      BY <2>2 DEF Room
    <3>2. w < N \/ (x.cells = <<>> /\ w = 0)
      BY <2>2, SizesAre
    <3> HIDE DEF n, w, N
    <3>3. n <= N /\ N > 0
      BY <3>1, <1>1, <1>2
    <3> QED BY <3>2, <3>3, <1>1
  <2> QED BY <1>1, <2>1, <2>2
<1>4. z = [x EXCEPT !.cells = z.cells] /\ Len(z.cells) = Len(x.cells) /\ z.cells \in Seq(Storable)
  <2>1. w \in Nat /\ x \in BufferRecord
    BY <1>1
  <2> HIDE DEF w
  <2> QED BY <2>1, <1>3, SetArrayIs
<1> HIDE DEF z
<1>5. z.mode = x.mode /\ mAllocatedSize(z) = N /\ z \in BufferRecord
  BY <1>1, <1>4 DEF mAllocatedSize, BufferRecord
<1>6. WSkip(z, n).mode = z.mode /\ WSkip(z, n).cells = z.cells
  BY <1>5 DEF WSkip, BufferRecord
<1> QED BY <1>5, <1>6 DEF z, mAllocatedSize

\* writeDirect and writeArray, with the growth they may need.
LEMMA WriteKeeps ==
  ASSUME NEW x, NEW v, NEW a, Represents(x, v, a), NEW s \in Seq(Storable),
         WriteOk(x, Len(s)), MayGrow(x, Len(s))
  PROVE  LET y == WriteArray(x, s)
         IN  /\ \E e : Represents(y, ViewAfterWrite(x, y, v, s), e)
             /\ y.mode = x.mode
<1> DEFINE n == Len(s)
           N == mAllocatedSize(x)
           z == Grown(x, n)
           y == WSkip(SetArray(z, s, z.mWritePos), n)
<1>1. WriteArray(x, s) = y
  BY DEF WriteArray
<1>2. /\ N \in Nat /\ n \in Nat /\ x.mWritePos \in Nat /\ v \in ViewRecord /\ x \in BufferRecord
      /\ x.mode = "plain" \/ x.mode = "circular"
      /\ Ahead(v) \in Nat
  BY Numbers, LenProperties
<1>3. /\ x.mode = "plain" => Needed(x, n) = Extent(v) + n
      /\ x.mode = "circular" => Needed(x, n) = Ahead(v) + n + 1
  BY SizesAre DEF Needed
<1>4. ViewAfterWrite(x, y, v, s) =
        Trimmed(y, Plus(IF x.mode = "circular" /\ y.cells # <<>> /\ Len(x.cells) # Len(y.cells)
                        THEN Moved(v) ELSE v, s))
  BY DEF ViewAfterWrite, Plus
<1>5. ASSUME NEW u, NEW e, Represents(z, u, e), Room(z, u, n)
      PROVE  /\ \E f : Represents(y, Trimmed(y, Plus(u, s)), f)
             /\ y.mode = z.mode /\ Len(y.cells) = Len(z.cells)
  <2> HIDE DEF z
  <2>1. y.mode = z.mode /\ mAllocatedSize(y) = mAllocatedSize(z)
    BY <1>5, PutShape
  <2>2. \A uu, ee : Represents(z, uu, ee) /\ Fits(z, ee, Extent(uu) + n) => Represents(y, Plus(uu, s), ee)
    BY Put
  <2> HIDE DEF y
  <2>3. \E f : Represents(y, Trimmed(y, Plus(u, s)), f)
    BY <1>5, <2>1, <2>2, Trims
  <2> QED BY <2>1, <2>3 DEF mAllocatedSize
<1>6. CASE N >= Needed(x, n)
  <2>1. z = x
    BY <1>6 DEF Grown
  <2>2. Room(x, v, n)
    <3>1. CASE x.mode = "plain"
      BY <3>1, <1>3, <1>6 DEF Room
    <3>2. CASE x.mode = "circular"
      <4>1. Ahead(v) + n < N
        BY <3>2, <1>2, <1>3, <1>6
      <4> QED BY <3>2, <4>1 DEF Room
    <3> QED BY <1>2, <3>1, <3>2
  <2> HIDE DEF y, z
  <2>3. /\ \E f : Represents(y, Trimmed(y, Plus(v, s)), f)
        /\ y.mode = x.mode /\ Len(y.cells) = Len(x.cells)
    BY <2>1, <2>2, <1>5
  <2> QED BY <1>1, <1>4, <2>3
<1>7. CASE ~(N >= Needed(x, n))
  <2>1. x.mOnDemand
    BY <1>7 DEF WriteOk
  <2>2. N < Needed(x, n) /\ Needed(x, n) \in Nat
    <3>1. Needed(x, n) \in Nat
      BY <1>2, <1>3, ViewFacts
    <3> QED BY <3>1, <1>2, <1>7
  <2> DEFINE u == IF x.mode = "plain" THEN v ELSE Moved(v)
  <2>3. /\ Represents(z, u, 0) /\ z.mode = x.mode
        /\ mAllocatedSize(z) > N /\ mAllocatedSize(z) >= Needed(x, n)
    BY <1>2, <2>1, <2>2, GrownKeeps
  <2>4. mAllocatedSize(z) \in Nat /\ z.cells \in Seq(Storable) /\ mAllocatedSize(z) = Len(z.cells)
    BY <2>3, Numbers, MemoryFacts DEF mAllocatedSize
  <2>5. x.mode = "circular" => Ahead(u) = Ahead(v)
    BY <1>2, MovedFacts
  <2> HIDE DEF y, z, u
  <2>6. Room(z, u, n)
    <3>1. CASE x.mode = "plain"
      <4>1. u = v
        BY <3>1 DEF u
      <4> QED BY <3>1, <4>1, <1>3, <2>3 DEF Room
    <3>2. CASE x.mode = "circular"
      <4>1. Ahead(u) + n < mAllocatedSize(z)
        BY <3>2, <1>2, <1>3, <2>3, <2>4, <2>5
      <4> QED BY <3>2, <4>1, <2>3 DEF Room
    <3> QED BY <1>2, <3>1, <3>2
  <2>7. /\ \E f : Represents(y, Trimmed(y, Plus(u, s)), f)
        /\ y.mode = x.mode /\ Len(y.cells) = Len(z.cells)
    BY <2>3, <2>6, <1>5
  <2>8. Len(x.cells) # Len(y.cells) /\ y.cells # <<>>
    <3>1. Len(x.cells) = N
      BY DEF mAllocatedSize
    <3>2. Len(y.cells) > N
      BY <2>3, <2>4, <2>7
    <3>3. Len(y.cells) \in Nat /\ Len(y.cells) # 0
      BY <3>2, <2>4, <2>7, <1>2
    <3>4. Len(<<>>) = 0
      BY EmptySeq
    <3> HIDE DEF N
    <3> QED BY <3>1, <3>2, <3>3, <3>4, <1>2
  <2>9. u = IF x.mode = "circular" /\ y.cells # <<>> /\ Len(x.cells) # Len(y.cells) THEN Moved(v) ELSE v
    BY <2>8, <1>2 DEF u
  <2>10. ViewAfterWrite(x, y, v, s) = Trimmed(y, Plus(u, s))
    BY <1>4, <2>9
  <2> QED BY <1>1, <2>7, <2>10
<1> QED BY <1>6, <1>7

\* wskip.
LEMMA SkipKeeps ==
  ASSUME NEW x, NEW v, NEW a, Represents(x, v, a), NEW n \in Nat, x.cells # <<>>, WSkipOk(x, n)
  PROVE  LET y == WSkip(x, n)
             s == GetArray(x, x.mWritePos, n)
         IN  (\E e : Represents(y, ViewAfterWrite(x, y, v, s), e)) /\ y.mode = x.mode
<1> DEFINE N == mAllocatedSize(x)
           w == x.mWritePos
           y == WSkip(x, n)
           s == GetArray(x, w, n)
<1>1. /\ N \in Nat /\ w \in Nat /\ v \in ViewRecord /\ x \in BufferRecord
      /\ x.mode = "plain" \/ x.mode = "circular"
      /\ Behind(v) \in Nat /\ Ahead(v) \in Nat /\ Extent(v) = Behind(v) + Ahead(v)
  BY Numbers
<1>2. Room(x, v, n) /\ n <= N /\ (n = 0 \/ w < N)
  <2>1. CASE x.mode = "plain"
    <3>1. w = Extent(v) /\ w + n <= N
      BY <2>1, SizesAre DEF WSkipOk
    <3> HIDE DEF N, w
    <3>2. n <= N /\ (n = 0 \/ w < N) /\ Extent(v) + n <= N
      BY <3>1, <1>1
    <3> QED BY <2>1, <3>2 DEF Room, N
  <2>2. CASE x.mode = "circular"
    <3>1. n <= FreeSize(x) /\ FreeSize(x) = N - 1 - Ahead(v) /\ w < N
      BY <2>2, SizesAre DEF WSkipOk
    <3> HIDE DEF N, w
    <3>2. Ahead(v) + n < N /\ n <= N
      BY <3>1, <1>1
    <3> QED BY <2>2, <3>1, <3>2 DEF Room, N
  <2> QED BY <1>1, <2>1, <2>2
<1>3. ASSUME NEW i \in 1..n
      PROVE  Slot(x, w + i - 1) \in 1..N
  <2> HIDE DEF w
  <2> QED BY <1>1, <1>2 DEF Slot, Place
<1>4. s = [i \in 1..n |-> x.cells[Slot(x, w + i - 1)]]
  BY DEF GetArray, Slot
<1>5. \A q \in 1..N : x.cells[q] \in Storable
  BY <1>1, MemoryFacts, ElementOfSeq DEF mAllocatedSize
<1> HIDE DEF s
<1>6. s \in Seq(Storable) /\ Len(s) = n
  <2>1. s \in [1..n -> Storable]
    BY <1>3, <1>4, <1>5
  <2> QED BY <2>1, SeqDef, LenProperties
<1>7. \A j \in 1..n : x.cells[Slot(x, w + j - 1)] = s[j]
  BY <1>4
<1>8. y.mode = x.mode /\ y.cells = x.cells
  BY <1>1 DEF WSkip, BufferRecord
<1>9. \A u, e : Represents(x, u, e) /\ Fits(x, e, Extent(u) + Len(s)) => Represents(y, Plus(u, s), e)
  BY <1>6, <1>7, Advanced
<1> HIDE DEF y
<1>10. \E e : Represents(y, Trimmed(y, Plus(v, s)), e)
  BY <1>2, <1>6, <1>8, <1>9, Trims DEF mAllocatedSize
<1>11. ViewAfterWrite(x, y, v, s) = Trimmed(y, Plus(v, s))
  BY <1>8 DEF ViewAfterWrite, Plus
<1> QED BY <1>8, <1>10, <1>11 DEF y, s

\* zero() writes where nothing is to be read.
LEMMA ZeroKeeps ==
  ASSUME NEW x, NEW v, NEW a, Represents(x, v, a), ZeroOk(x)
  PROVE  /\ \E e : Represents(Zero(x), IF x.mode = "circular" THEN Moved(v) ELSE v, e)
         /\ Zero(x).mode = x.mode
<1> DEFINE N == mAllocatedSize(x)
           w == x.mWritePos
           n == FreeSize(x)
           s == [i \in 1..n |-> 0]
           y == SetArray(x, s, w)
<1>1. /\ N \in Nat /\ w \in Nat /\ v \in ViewRecord /\ x \in BufferRecord
      /\ x.mode = "plain" \/ x.mode = "circular"
      /\ Behind(v) \in Nat /\ Ahead(v) \in Nat /\ Extent(v) = Behind(v) + Ahead(v)
  BY Numbers
<1>2. n \in Nat /\ w + n <= N /\ n <= N /\ (n = 0 \/ w < N)
  <2>1. n >= 0 /\ w + n <= N
    BY DEF ZeroOk
  <2>2. n \in Int
    BY <1>1, SizesAre
  <2> HIDE DEF n, w, N
  <2> QED BY <1>1, <2>1, <2>2
<1>3. s \in Seq(Storable) /\ Len(s) = n
  <2>1. s \in [1..n -> Storable]
    BY DEF Storable
  <2> HIDE DEF n
  <2> QED BY <1>2, <2>1, SeqDef, LenProperties
<1>4. Zero(x) = y
  BY DEF Zero
<1> HIDE DEF s
<1>5. ASSUME x.mode = "plain" PROVE \E e : Represents(Zero(x), v, e)
  <2>1. Extent(v) + Len(s) <= N /\ (Len(s) = 0 \/ w < N)
    <3>1. w = Extent(v)
      BY <1>5, SizesAre
    <3> HIDE DEF n, w, N
    <3>2. Extent(v) + n <= N /\ Len(s) = n
      BY <3>1, <1>2, <1>3
    <3> QED BY <3>2, <1>2
  <2>2. Represents(y, v, a)
    BY <2>1, <1>3, Overwritten
  <2> QED BY <1>4, <2>2
<1>6. ASSUME x.mode = "circular" PROVE \E e : Represents(Zero(x), Moved(v), e)
  <2>1. Represents(x, Moved(v), x.mReadPos)
    BY <1>6, Forgets
  <2>2. Extent(Moved(v)) + Len(s) <= N /\ (Len(s) = 0 \/ w < N)
    <3>1. Extent(Moved(v)) = Ahead(v)
      BY <1>1, MovedFacts
    <3>2. n = N - 1 - Ahead(v)
      BY <1>6, SizesAre
    <3> HIDE DEF n, w, N
    <3>3. Ahead(v) + n <= N
      BY <3>2, <1>1
    <3>4. Len(s) = n
      BY <1>3
    <3> QED BY <3>1, <3>3, <3>4, <1>2
  <2>3. Represents(y, Moved(v), x.mReadPos)
    BY <2>1, <2>2, <1>3, Overwritten
  <2> QED BY <1>4, <2>3
<1>7. Zero(x).mode = x.mode
  BY <1>1, <1>4 DEF SetArray, BufferRecord
<1> QED BY <1>1, <1>5, <1>6, <1>7

\* readDirect, readArray and rskip.
LEMMA ReadKeeps ==
  ASSUME NEW x, NEW v, NEW a, Represents(x, v, a), NEW n \in Nat, n <= DataSize(x)
  PROVE  Represents(RSkip(x, n), ViewAfterRead(v, n), a) /\ RSkip(x, n).mode = x.mode
<1> DEFINE y == RSkip(x, n)
           u == ViewAfterRead(v, n)
           b == Behind(v)
           E == Extent(v)
<1>1. /\ v \in ViewRecord /\ x \in BufferRecord /\ a \in Nat /\ Fits(x, a, E)
      /\ x.mReadPos = Pos(x, a + b) /\ x.mWritePos = Pos(x, a + E)
      /\ Marked(x, a, v.rmark, x.mReadPosMarked) /\ Marked(x, a, v.wmark, x.mWritePosMarked)
  BY Numbers
<1>2. b \in Nat /\ Ahead(v) \in Nat /\ E = b + Ahead(v) /\ n <= Ahead(v)
  BY Numbers, SizesAre
<1>3. Shows(u, v, b + n, E) /\ u.rmark = v.rmark /\ u.wmark = v.wmark
  BY <1>1, <1>2, ViewAfterReadShows
<1>4. Forward(x, x.mReadPos, n) = Pos(x, a + (b + n)) /\ Pos(x, a + (b + n)) \in Nat
  <2>1. b \in 0..E /\ n \in 0..(E - b) /\ E \in Nat /\ b + n \in 0..E /\ a + (b + n) = a + b + n
    BY <1>1, <1>2
  <2>2. \A j \in 0..(E - b) : Pos(x, Pos(x, a + b) + j) = Pos(x, a + b + j)
    <3> HIDE DEF b, E
    <3> QED BY <1>1, <2>1, Steps, ZenonT(60)
  <2>3. Pos(x, a + (b + n)) \in Nat
    <3> HIDE DEF b, E
    <3> QED BY <1>1, <2>1, Steps
  <2>4. Forward(x, x.mReadPos, n) = Pos(x, x.mReadPos + n)
    BY DEF Forward, Pos
  <2> HIDE DEF b, E
  <2>5. Pos(x, x.mReadPos + n) = Pos(x, a + b + n)
    BY <1>1, <2>1, <2>2
  <2> QED BY <2>1, <2>3, <2>4, <2>5
<1>5. /\ y \in BufferRecord /\ y.mode = x.mode /\ y.cells = x.cells
      /\ y.mReadPos = Pos(x, a + (b + n)) /\ y.mWritePos = x.mWritePos
      /\ y.mReadPosMarked = x.mReadPosMarked /\ y.mWritePosMarked = x.mWritePosMarked
  BY <1>1, <1>4 DEF RSkip, BufferRecord
<1>6. b + n \in Nat /\ E \in Nat /\ b + n <= E
  BY <1>2
<1> HIDE DEF y, u, b, E
<1>7. Represents(y, u, a)
  BY <1>1, <1>3, <1>5, <1>6, Repositioned DEF E
<1> QED BY <1>5, <1>7 DEF y, u

-----------------------------------------------------------------------------
(* Going back                                                              *)

\* A step back undoes a step forward.
LEMMA BackwardIs ==
  ASSUME NEW x \in BufferRecord, NEW a \in Nat, NEW m \in Nat, Fits(x, a, m),
         NEW j \in 0..m, NEW n \in 0..j
  PROVE  Backward(x, Pos(x, a + j), n) = Pos(x, a + (j - n))
<1>1. mAllocatedSize(x) \in Nat /\ (x.mode = "plain" \/ x.mode = "circular")
  BY MemoryFacts
<1>2. CASE x.mode = "plain"
  BY <1>1, <1>2 DEF Fits, Pos, Backward
<1>3. CASE x.mode = "circular"
  <2>1. /\ a = 0 \/ a < mAllocatedSize(x)
        /\ m = 0 \/ m < mAllocatedSize(x)
    BY <1>3 DEF Fits
  <2>2. \A q : Pos(x, q) = Place(x, q)
    BY <1>3 DEF Pos
  <2>3. Backward(x, Place(x, a + j), n) = Place(x, a + (j - n))
    BY <1>1, <2>1 DEF Place, Backward
  <2> QED BY <2>2, <2>3
<1> QED BY <1>1, <1>2, <1>3

\* rrev.
LEMMA RewindReadKeeps ==
  ASSUME NEW x, NEW v, NEW a, Represents(x, v, a), NEW n \in Nat, n <= Behind(v)
  PROVE  Represents(RRev(x, n), ViewAt(v, Behind(v) - n, Extent(v)), a) /\ RRev(x, n).mode = x.mode
<1> DEFINE y == RRev(x, n)
           b == Behind(v)
           E == Extent(v)
           u == ViewAt(v, b - n, E)
<1>1. /\ v \in ViewRecord /\ x \in BufferRecord /\ a \in Nat /\ Fits(x, a, E)
      /\ x.mReadPos = Pos(x, a + b) /\ x.mWritePos = Pos(x, a + E)
      /\ Marked(x, a, v.rmark, x.mReadPosMarked) /\ Marked(x, a, v.wmark, x.mWritePosMarked)
  BY Numbers
<1>2. b \in Nat /\ Ahead(v) \in Nat /\ E = b + Ahead(v) /\ n <= b
  BY Numbers
<1>3. /\ b \in 0..E /\ n \in 0..b /\ E \in Nat /\ b - n \in 0..E
      /\ b - n \in Nat /\ b - n <= E
  <2> HIDE DEF b, E
  <2> QED BY <1>2
<1>4. Shows(u, v, b - n, E) /\ u.rmark = v.rmark /\ u.wmark = v.wmark
  <2>1. E <= Extent(v)
    BY <1>3
  <2> HIDE DEF b, E
  <2> QED BY <1>1, <1>3, <2>1, ViewAtShows
<1>5. Backward(x, x.mReadPos, n) = Pos(x, a + (b - n)) /\ Pos(x, a + (b - n)) \in Nat
  <2> HIDE DEF b, E
  <2>1. Backward(x, Pos(x, a + b), n) = Pos(x, a + (b - n))
    BY <1>1, <1>3, BackwardIs
  <2>2. Pos(x, a + (b - n)) \in Nat
    BY <1>1, <1>3, Steps
  <2> QED BY <1>1, <2>1, <2>2
<1>6. /\ y \in BufferRecord /\ y.mode = x.mode /\ y.cells = x.cells
      /\ y.mReadPos = Pos(x, a + (b - n)) /\ y.mWritePos = x.mWritePos
      /\ y.mReadPosMarked = x.mReadPosMarked /\ y.mWritePosMarked = x.mWritePosMarked
  BY <1>1, <1>5 DEF RRev, BufferRecord
<1> HIDE DEF y, u, b, E
<1>7. Represents(y, u, a)
  BY <1>1, <1>3, <1>4, <1>6, Repositioned DEF E
<1> QED BY <1>6, <1>7 DEF y, u, b, E

\* wrev: the cells are given up.
LEMMA RewindWriteKeeps ==
  ASSUME NEW x, NEW v, NEW a, Represents(x, v, a), NEW n \in Nat, n <= Ahead(v)
  PROVE  /\ Represents(WRev(x, n), [v EXCEPT !.next = SubSeq(@, 1, Len(@) - n)], a)
         /\ WRev(x, n).mode = x.mode
<1> DEFINE y == WRev(x, n)
           b == Behind(v)
           E == Extent(v)
           s == SubSeq(v.next, 1, Len(v.next) - n)
           u == [v EXCEPT !.next = s]
<1>1. /\ v \in ViewRecord /\ x \in BufferRecord /\ a \in Nat /\ Fits(x, a, E)
      /\ x.mReadPos = Pos(x, a + b) /\ x.mWritePos = Pos(x, a + E)
      /\ Marked(x, a, v.rmark, x.mReadPosMarked) /\ Marked(x, a, v.wmark, x.mWritePosMarked)
  BY Numbers
<1>2. b \in Nat /\ Ahead(v) \in Nat /\ E = b + Ahead(v) /\ n <= Ahead(v)
  BY Numbers
<1>3. /\ E \in Nat /\ E - n \in Nat /\ E - n <= E /\ b <= E - n /\ Ahead(v) - n = (E - n) - b
      /\ E \in 0..E /\ n \in 0..E /\ E - n \in 0..E /\ Ahead(v) - n \in Nat
  <2> HIDE DEF b, E
  <2> QED BY <1>2
<1>4. /\ v.next \in Seq(Storable) /\ Len(v.next) = Ahead(v)
  BY <1>1, ViewFacts DEF Ahead
<1>5. s \in Seq(Storable) /\ Len(s) = Ahead(v) - n /\ \A i \in 1..(Ahead(v) - n) : s[i] = v.next[i]
  <2> DEFINE h == Ahead(v) - n
  <2>1. h \in 0..Ahead(v) /\ s = SubSeq(v.next, 1, h) /\ h <= Len(v.next) /\ h \in Nat
    <3>1. s = SubSeq(v.next, 1, h)
      BY <1>4
    <3> QED BY <1>2, <1>4, <3>1
  <2> HIDE DEF h, s
  <2> QED BY <1>4, <2>1, SubSeqProperties DEF h
<1> HIDE DEF s
<1>6. /\ u \in ViewRecord /\ u.back = v.back /\ u.next = s /\ u.rmark = v.rmark /\ u.wmark = v.wmark
      /\ Behind(u) = b /\ Ahead(u) = Ahead(v) - n
  BY <1>1, <1>5 DEF ViewRecord, Behind, Ahead
<1>7. Shows(u, v, b, E - n)
  <2>1. \A i \in 1..b : u.back[i] = Known(v)[i]
    <3>1. \A i \in 1..b : i \in 1..Extent(v) /\ i <= Behind(v)
      BY <1>2
    <3> QED BY <3>1, <1>1, <1>6, ViewFacts
  <2>2. ASSUME NEW i \in 1..((E - n) - b) PROVE u.next[i] = Known(v)[b + i]
    <3> DEFINE q == b + i
    <3>1. q \in 1..Extent(v) /\ ~(q <= Behind(v)) /\ q - Behind(v) = i /\ i \in 1..(Ahead(v) - n)
      BY <1>2, <1>3
    <3>2. u.next[i] = v.next[i]
      BY <3>1, <1>5, <1>6
    <3> HIDE DEF q
    <3>3. Known(v)[q] = v.next[q - Behind(v)]
      BY <3>1, <1>1, ViewFacts
    <3> QED BY <3>1, <3>2, <3>3 DEF q
  <2>3. b \in Nat /\ E - n \in Nat /\ b <= E - n /\ Ahead(u) = (E - n) - b
    BY <1>2, <1>3, <1>6
  <2> HIDE DEF b, E, u
  <2> QED BY <2>1, <2>2, <2>3, <1>6, ShowsParts
<1>8. Backward(x, x.mWritePos, n) = Pos(x, a + (E - n)) /\ Pos(x, a + (E - n)) \in Nat
  <2> HIDE DEF b, E
  <2>1. Backward(x, Pos(x, a + E), n) = Pos(x, a + (E - n))
    BY <1>1, <1>3, BackwardIs, ZenonT(60)
  <2>2. Pos(x, a + (E - n)) \in Nat
    BY <1>1, <1>3, Steps
  <2> QED BY <1>1, <2>1, <2>2
<1>9. /\ y \in BufferRecord /\ y.mode = x.mode /\ y.cells = x.cells
      /\ y.mWritePos = Pos(x, a + (E - n)) /\ y.mReadPos = x.mReadPos
      /\ y.mReadPosMarked = x.mReadPosMarked /\ y.mWritePosMarked = x.mWritePosMarked
  BY <1>1, <1>8 DEF WRev, BufferRecord
<1>10. [v EXCEPT !.next = SubSeq(@, 1, Len(@) - n)] = u
  BY DEF s
<1> HIDE DEF y, u, b, E
<1>11. Represents(y, u, a)
  BY <1>1, <1>2, <1>3, <1>6, <1>7, <1>9, Repositioned DEF E
<1> QED BY <1>9, <1>10, <1>11 DEF y

-----------------------------------------------------------------------------
(* Marks, flags and new buffers                                            *)

\* Marks and flags change; the cells and the positions stay.
LEMMA Remarked ==
  ASSUME NEW x, NEW v, NEW a, Represents(x, v, a),
         NEW y \in BufferRecord, y.mode = x.mode, y.cells = x.cells,
         y.mReadPos = x.mReadPos, y.mWritePos = x.mWritePos,
         NEW u \in ViewRecord, u.back = v.back, u.next = v.next,
         Marked(x, a, u.rmark, y.mReadPosMarked), Marked(x, a, u.wmark, y.mWritePosMarked)
  PROVE  Represents(y, u, a)
<1>1. Known(u) = Known(v) /\ Behind(u) = Behind(v) /\ Extent(u) = Extent(v)
  BY DEF Known, Behind, Ahead, Extent
<1>2. Shows(u, v, Behind(v), Extent(v))
  BY <1>1 DEF Shows
<1>3. /\ Behind(v) \in Nat /\ Extent(v) \in Nat /\ Behind(v) <= Extent(v) /\ Extent(v) <= Extent(v)
  BY Numbers
<1>4. y.mReadPos = Pos(x, a + Behind(v)) /\ y.mWritePos = Pos(x, a + Extent(v))
  BY Numbers
<1> QED BY <1>2, <1>3, <1>4, Repositioned

\* A change of the flags alone.
LEMMA Reflagged ==
  ASSUME NEW x, NEW v, NEW a, Represents(x, v, a),
         NEW y \in BufferRecord, y.mode = x.mode, y.cells = x.cells,
         y.mReadPos = x.mReadPos, y.mWritePos = x.mWritePos,
         y.mReadPosMarked = x.mReadPosMarked, y.mWritePosMarked = x.mWritePosMarked
  PROVE  Represents(y, v, a)
<1>1. /\ v \in ViewRecord
      /\ Marked(x, a, v.rmark, y.mReadPosMarked) /\ Marked(x, a, v.wmark, y.mWritePosMarked)
  BY Numbers
<1> QED BY <1>1, Remarked

\* mark(), markRead() and markWrite().
LEMMA MarksKeep ==
  ASSUME NEW x, NEW v, NEW a, Represents(x, v, a)
  PROVE  LET r == Behind(v)
             w == Extent(v)
         IN  /\ Represents(Mark(x), [v EXCEPT !.rmark = r, !.wmark = w], a) /\ Mark(x).mode = x.mode
             /\ Represents(MarkRead(x), [v EXCEPT !.rmark = r], a) /\ MarkRead(x).mode = x.mode
             /\ Represents(MarkWrite(x), [v EXCEPT !.wmark = w], a) /\ MarkWrite(x).mode = x.mode
<1> DEFINE r == Behind(v)
           w == Extent(v)
           u1 == [v EXCEPT !.rmark = r, !.wmark = w]
           u2 == [v EXCEPT !.rmark = r]
           u3 == [v EXCEPT !.wmark = w]
<1>1. /\ v \in ViewRecord /\ x \in BufferRecord /\ a \in Nat /\ Fits(x, a, w)
      /\ x.mReadPos = Pos(x, a + r) /\ x.mWritePos = Pos(x, a + w)
      /\ Marked(x, a, v.rmark, x.mReadPosMarked) /\ Marked(x, a, v.wmark, x.mWritePosMarked)
  BY Numbers
<1>2. r \in Nat /\ w \in Nat /\ r <= w
  BY Numbers
<1> HIDE DEF r, w
<1>3. Marked(x, a, r, x.mReadPos) /\ Marked(x, a, w, x.mWritePos)
  BY <1>1, <1>2, FitsLess DEF Marked
<1>4. /\ u1 \in ViewRecord /\ u1.back = v.back /\ u1.next = v.next /\ u1.rmark = r /\ u1.wmark = w
      /\ u2 \in ViewRecord /\ u2.back = v.back /\ u2.next = v.next /\ u2.rmark = r /\ u2.wmark = v.wmark
      /\ u3 \in ViewRecord /\ u3.back = v.back /\ u3.next = v.next /\ u3.rmark = v.rmark /\ u3.wmark = w
  BY <1>1, <1>2 DEF ViewRecord
<1> HIDE DEF u1, u2, u3
<1>5. Represents(Mark(x), u1, a) /\ Mark(x).mode = x.mode
  <2> DEFINE y == Mark(x)
  <2>1. /\ y \in BufferRecord /\ y.mode = x.mode /\ y.cells = x.cells
        /\ y.mReadPos = x.mReadPos /\ y.mWritePos = x.mWritePos
        /\ y.mReadPosMarked = x.mReadPos /\ y.mWritePosMarked = x.mWritePos
    BY <1>1 DEF Mark, MarkRead, MarkWrite, BufferRecord
  <2> HIDE DEF y
  <2>2. Represents(y, u1, a)
    BY <2>1, <1>3, <1>4, Remarked
  <2> QED BY <2>1, <2>2 DEF y
<1>6. Represents(MarkRead(x), u2, a) /\ MarkRead(x).mode = x.mode
  <2> DEFINE y == MarkRead(x)
  <2>1. /\ y \in BufferRecord /\ y.mode = x.mode /\ y.cells = x.cells
        /\ y.mReadPos = x.mReadPos /\ y.mWritePos = x.mWritePos
        /\ y.mReadPosMarked = x.mReadPos /\ y.mWritePosMarked = x.mWritePosMarked
    BY <1>1 DEF MarkRead, BufferRecord
  <2> HIDE DEF y
  <2>2. Represents(y, u2, a)
    BY <2>1, <1>1, <1>3, <1>4, Remarked
  <2> QED BY <2>1, <2>2 DEF y
<1>7. Represents(MarkWrite(x), u3, a) /\ MarkWrite(x).mode = x.mode
  <2> DEFINE y == MarkWrite(x)
  <2>1. /\ y \in BufferRecord /\ y.mode = x.mode /\ y.cells = x.cells
        /\ y.mReadPos = x.mReadPos /\ y.mWritePos = x.mWritePos
        /\ y.mReadPosMarked = x.mReadPosMarked /\ y.mWritePosMarked = x.mWritePos
    BY <1>1 DEF MarkWrite, BufferRecord
  <2> HIDE DEF y
  <2>2. Represents(y, u3, a)
    BY <2>1, <1>1, <1>3, <1>4, Remarked
  <2> QED BY <2>1, <2>2 DEF y
<1> QED BY <1>5, <1>6, <1>7 DEF u1, u2, u3, r, w

\* resetRead() goes to a mark that is in the view.
LEMMA ResetReadKeeps ==
  ASSUME NEW x, NEW v, NEW a, Represents(x, v, a), v.rmark # NULL, v.rmark <= Behind(v)
  PROVE  Represents(ResetRead(x), ViewAt(v, v.rmark, Extent(v)), a) /\ ResetRead(x).mode = x.mode
<1> DEFINE y == ResetRead(x)
           k == v.rmark
           E == Extent(v)
           u == ViewAt(v, k, E)
<1>1. /\ v \in ViewRecord /\ x \in BufferRecord /\ a \in Nat
      /\ x.mWritePos = Pos(x, a + E)
      /\ Marked(x, a, v.rmark, x.mReadPosMarked) /\ Marked(x, a, v.wmark, x.mWritePosMarked)
  BY Numbers
<1>2. k \in Nat /\ E \in Nat /\ k <= E /\ E <= Extent(v)
  <2>1. k \in Nat
    BY <1>1 DEF ViewRecord
  <2>2. k <= Behind(v) /\ Behind(v) \in Nat /\ Ahead(v) \in Nat /\ E = Behind(v) + Ahead(v)
    BY Numbers
  <2> HIDE DEF k
  <2> QED BY <2>1, <2>2
<1>3. x.mReadPosMarked = Pos(x, a + k)
  BY <1>1 DEF Marked
<1>4. /\ y \in BufferRecord /\ y.mode = x.mode /\ y.cells = x.cells
      /\ y.mReadPos = Pos(x, a + k) /\ y.mWritePos = x.mWritePos
      /\ y.mReadPosMarked = x.mReadPosMarked /\ y.mWritePosMarked = x.mWritePosMarked
  BY <1>1, <1>3 DEF ResetRead, BufferRecord
<1> HIDE DEF k, E
<1>5. Shows(u, v, k, E) /\ u.rmark = v.rmark /\ u.wmark = v.wmark
  BY <1>1, <1>2, ViewAtShows
<1> HIDE DEF y, u
<1>6. Represents(y, u, a)
  BY <1>1, <1>2, <1>4, <1>5, Repositioned
<1> QED BY <1>4, <1>6 DEF y, u, k, E

\* resetWrite().
LEMMA ResetWriteKeeps ==
  ASSUME NEW x, NEW v, NEW a, Represents(x, v, a),
         v.wmark # NULL, Behind(v) <= v.wmark, v.wmark <= Extent(v)
  PROVE  Represents(ResetWrite(x), ViewAt(v, Behind(v), v.wmark), a) /\ ResetWrite(x).mode = x.mode
<1> DEFINE y == ResetWrite(x)
           k == Behind(v)
           m == v.wmark
           u == ViewAt(v, k, m)
<1>1. /\ v \in ViewRecord /\ x \in BufferRecord /\ a \in Nat
      /\ x.mReadPos = Pos(x, a + k)
      /\ Marked(x, a, v.rmark, x.mReadPosMarked) /\ Marked(x, a, v.wmark, x.mWritePosMarked)
  BY Numbers
<1>2. k \in Nat /\ m \in Nat /\ k <= m /\ m <= Extent(v)
  <2>1. m \in Nat
    BY <1>1 DEF ViewRecord
  <2> QED BY <2>1, Numbers
<1>3. x.mWritePosMarked = Pos(x, a + m)
  BY <1>1 DEF Marked
<1>4. /\ y \in BufferRecord /\ y.mode = x.mode /\ y.cells = x.cells
      /\ y.mReadPos = Pos(x, a + k) /\ y.mWritePos = Pos(x, a + m)
      /\ y.mReadPosMarked = x.mReadPosMarked /\ y.mWritePosMarked = x.mWritePosMarked
  BY <1>1, <1>3 DEF ResetWrite, BufferRecord
<1> HIDE DEF k, m
<1>5. Shows(u, v, k, m) /\ u.rmark = v.rmark /\ u.wmark = v.wmark
  BY <1>1, <1>2, ViewAtShows
<1> HIDE DEF y, u
<1>6. Represents(y, u, a)
  BY <1>1, <1>2, <1>4, <1>5, Repositioned
<1> QED BY <1>4, <1>6 DEF y, u, k, m

\* reset() goes to both and forgets them.
LEMMA ResetKeeps ==
  ASSUME NEW x, NEW v, NEW a, Represents(x, v, a),
         v.rmark # NULL, v.rmark <= Behind(v), v.wmark # NULL, v.rmark <= v.wmark, v.wmark <= Extent(v)
  PROVE  /\ Represents(Reset(x), [ViewAt(v, v.rmark, v.wmark) EXCEPT !.rmark = NULL, !.wmark = NULL], a)
         /\ Reset(x).mode = x.mode
<1> DEFINE y == Reset(x)
           k == v.rmark
           m == v.wmark
           w == ViewAt(v, k, m)
           u == [w EXCEPT !.rmark = NULL, !.wmark = NULL]
<1>1. /\ v \in ViewRecord /\ x \in BufferRecord /\ a \in Nat
      /\ Marked(x, a, v.rmark, x.mReadPosMarked) /\ Marked(x, a, v.wmark, x.mWritePosMarked)
  BY Numbers
<1>2. k \in Nat /\ m \in Nat /\ k <= m /\ m <= Extent(v)
  BY <1>1 DEF ViewRecord
<1>3. x.mReadPosMarked = Pos(x, a + k) /\ x.mWritePosMarked = Pos(x, a + m)
  BY <1>1 DEF Marked
<1>4. /\ y \in BufferRecord /\ y.mode = x.mode /\ y.cells = x.cells
      /\ y.mReadPos = Pos(x, a + k) /\ y.mWritePos = Pos(x, a + m)
  BY <1>1, <1>3 DEF Reset, ResetRead, ResetWrite, BufferRecord
<1> HIDE DEF k, m
<1>5. Shows(w, v, k, m)
  BY <1>1, <1>2, ViewAtShows
<1>6. w \in ViewRecord
  BY <1>5 DEF Shows
<1> HIDE DEF w
<1>7. /\ u \in ViewRecord /\ u.back = w.back /\ u.next = w.next /\ u.rmark = NULL /\ u.wmark = NULL
  BY <1>6 DEF ViewRecord
<1> HIDE DEF u
<1>8. Shows(u, v, k, m)
  BY <1>5, <1>7 DEF Shows, Known, Extent, Ahead, Behind
<1>9. Marked(x, a, u.rmark, y.mReadPosMarked) /\ Marked(x, a, u.wmark, y.mWritePosMarked)
  BY <1>7 DEF Marked
<1> HIDE DEF y
<1>10. Represents(y, u, a)
  BY <1>1, <1>2, <1>4, <1>8, <1>9, Repositioned
<1> QED BY <1>4, <1>10 DEF y, u, w, k, m

\* A new view fits a buffer whose positions are at the start.
LEMMA FreshKeeps ==
  ASSUME NEW y \in BufferRecord, y.mReadPos = 0, y.mWritePos = 0,
         y.mReadPosMarked = 0, y.mWritePosMarked = 0
  PROVE  Represents(y, NewView, 0)
<1>1. /\ NewView \in ViewRecord /\ NewView.rmark = 0 /\ NewView.wmark = 0
      /\ NewView.back = <<>> /\ NewView.next = <<>>
  BY EmptySeq DEF NewView, ViewRecord
<1>2. Behind(NewView) = 0 /\ Extent(NewView) = 0
  BY <1>1, EmptySeq DEF Behind, Ahead, Extent
<1>3. mAllocatedSize(y) \in Nat /\ (y.mode = "plain" \/ y.mode = "circular")
  BY MemoryFacts
<1>4. Fits(y, 0, 0) /\ Pos(y, 0 + 0) = 0
  BY <1>3 DEF Fits, Pos, Place
<1>5. Marked(y, 0, 0, 0)
  BY <1>4 DEF Marked
<1> QED BY <1>1, <1>2, <1>4, <1>5 DEF Represents

-----------------------------------------------------------------------------
(* Two buffers                                                             *)

\* The constructors.
LEMMA NewBuffers ==
  ASSUME NEW mode \in {"plain", "circular"}
  PROVE  \A y \in {NewOnDemand(mode), NewSized(mode, Capacity),
                   NewOver(mode, Uninitialized(Capacity), FALSE),
                   NewOver(mode, Uninitialized(Capacity), TRUE)} :
           y.mode = mode /\ Represents(y, NewView, 0)
<1> DEFINE New(y) == /\ y \in BufferRecord /\ y.mode = mode /\ y.mReadPos = 0 /\ y.mWritePos = 0
                     /\ y.mReadPosMarked = 0 /\ y.mWritePosMarked = 0
<1>1. /\ Uninitialized(Capacity) \in Seq(Storable)
      /\ Uninitialized(IF mode = "plain" THEN Capacity ELSE Capacity + 1) \in Seq(Storable)
  <2>1. Capacity \in Nat /\ (IF mode = "plain" THEN Capacity ELSE Capacity + 1) \in Nat
    BY SizeAssumption
  <2> QED BY <2>1, UninitializedIs
<1>2. <<>> \in Seq(Storable)
  BY EmptySeq
<1>3. Blank(mode) \in BufferRecord /\ New(NewOnDemand(mode))
  BY <1>2 DEF Blank, NewOnDemand, BufferRecord
<1>4. New(NewSized(mode, Capacity))
  BY <1>1, <1>2 DEF Blank, NewSized, BufferRecord
<1>5. \A r \in BOOLEAN : New(NewOver(mode, Uninitialized(Capacity), r))
  BY <1>1, <1>2 DEF Blank, NewOver, BufferRecord
<1>6. \A y : New(y) => Represents(y, NewView, 0)
  BY FreshKeeps
<1> HIDE DEF New
<1>7. \A y : New(y) => y.mode = mode
  BY DEF New
<1> QED BY <1>3, <1>4, <1>5, <1>6, <1>7

\* What a move leaves.
LEMMA MovedFromKeeps ==
  ASSUME NEW x \in BufferRecord
  PROVE  Represents(MovedFrom(x), NewView, 0) /\ MovedFrom(x).mode = x.mode
<1> DEFINE y == MovedFrom(x)
<1>1. <<>> \in Seq(Storable) /\ x.mode \in {"plain", "circular"}
  BY EmptySeq DEF BufferRecord
<1>2. /\ y \in BufferRecord /\ y.mode = x.mode /\ y.mReadPos = 0 /\ y.mWritePos = 0
      /\ y.mReadPosMarked = 0 /\ y.mWritePosMarked = 0
  BY <1>1 DEF MovedFrom, Blank, BufferRecord
<1> HIDE DEF y
<1>3. Represents(y, NewView, 0)
  BY <1>2, FreshKeeps
<1> QED BY <1>2, <1>3 DEF y

\* clear().
LEMMA ClearKeeps ==
  ASSUME NEW x \in BufferRecord
  PROVE  Represents(Clear(x), NewView, 0) /\ Clear(x).mode = x.mode
<1> DEFINE y == Clear(x)
<1>1. /\ y \in BufferRecord /\ y.mode = x.mode /\ y.mReadPos = 0 /\ y.mWritePos = 0
      /\ y.mReadPosMarked = 0 /\ y.mWritePosMarked = 0
  BY DEF Clear, BufferRecord
<1> HIDE DEF y
<1>2. Represents(y, NewView, 0)
  BY <1>1, FreshKeeps
<1> QED BY <1>1, <1>2 DEF y

\* Copy construction and copy assignment.
LEMMA CopyKeeps ==
  ASSUME NEW x, NEW v, NEW a, Represents(x, v, a)
  PROVE  /\ Represents(CopyOf(x), v, a) /\ CopyOf(x).mode = x.mode
         /\ \A y \in BufferRecord : Represents(AssignedFrom(y, x), v, a) /\ AssignedFrom(y, x).mode = x.mode
<1>1. x \in BufferRecord
  BY Numbers
<1>2. Represents(CopyOf(x), v, a) /\ CopyOf(x).mode = x.mode /\ CopyOf(x) \in BufferRecord
  <2> DEFINE y == CopyOf(x)
  <2>1. /\ y \in BufferRecord /\ y.mode = x.mode /\ y.cells = x.cells
        /\ y.mReadPos = x.mReadPos /\ y.mWritePos = x.mWritePos
        /\ y.mReadPosMarked = x.mReadPosMarked /\ y.mWritePosMarked = x.mWritePosMarked
    BY <1>1 DEF CopyOf, BufferRecord
  <2> HIDE DEF y
  <2>2. Represents(y, v, a)
    BY <2>1, Reflagged
  <2> QED BY <2>1, <2>2 DEF y
<1>3. ASSUME NEW t \in BufferRecord
      PROVE  Represents(AssignedFrom(t, x), v, a) /\ AssignedFrom(t, x).mode = x.mode
  <2> DEFINE c == CopyOf(x)
             y == [c EXCEPT !.mOnDemand = t.mOnDemand]
  <2>0. c \in BufferRecord /\ Represents(c, v, a) /\ c.mode = x.mode /\ t.mOnDemand \in BOOLEAN
    BY <1>2 DEF BufferRecord
  <2> HIDE DEF c
  <2>1. /\ y \in BufferRecord /\ y.mode = c.mode /\ y.cells = c.cells
        /\ y.mReadPos = c.mReadPos /\ y.mWritePos = c.mWritePos
        /\ y.mReadPosMarked = c.mReadPosMarked /\ y.mWritePosMarked = c.mWritePosMarked
    BY <2>0 DEF BufferRecord
  <2>2. AssignedFrom(t, x) = y
    BY DEF AssignedFrom, c
  <2> HIDE DEF y
  <2>3. Represents(y, v, a)
    BY <2>0, <2>1, Reflagged
  <2> QED BY <2>0, <2>1, <2>2, <2>3
<1> QED BY <1>2, <1>3

\* The range at rptr() that append copies is the data up to the end of the memory.
LEMMA AppendSourceIs ==
  ASSUME NEW x, NEW v, NEW a, Represents(x, v, a), NEW n \in Nat, n <= DataSize(x)
  PROVE  /\ AppendSource(x, n) = [i \in 1..n |-> IF OnePiece(x, i) THEN v.next[i] ELSE Junk]
         /\ AppendSource(x, n) \in Seq(Storable) /\ Len(AppendSource(x, n)) = n
<1> DEFINE N == mAllocatedSize(x)
           r == x.mReadPos
           s == AppendSource(x, n)
           t == [i \in 1..n |-> IF OnePiece(x, i) THEN v.next[i] ELSE Junk]
<1>1. N \in Nat /\ r \in Nat /\ v \in ViewRecord /\ Ahead(v) \in Nat /\ n <= Ahead(v)
  BY Numbers, SizesAre
<1>2. v.next \in Seq(Storable) /\ Len(v.next) = Ahead(v)
  BY <1>1, ViewFacts DEF Ahead
<1>3. ASSUME NEW i \in 1..n, r + i <= N
      PROVE  x.cells[r + i] = v.next[i] /\ v.next[i] \in Storable
  <2>1. Place(x, r + i - 1) + 1 = r + i
    <3>1. N \in Nat /\ r \in Nat /\ r + i <= N
      BY <1>1, <1>3
    <3> HIDE DEF r
    <3> QED BY <3>1 DEF Place
  <2>2. n \in 0..Ahead(v) /\ i \in 1..Len(v.next)
    BY <1>1, <1>2
  <2>3. GetArray(x, r, n)[i] = v.next[i]
    BY <2>2, ContentIs
  <2>4. GetArray(x, r, n)[i] = x.cells[Place(x, r + i - 1) + 1]
    BY DEF GetArray
  <2>5. v.next[i] \in Storable
    BY <1>2, <2>2, ElementOfSeq
  <2> QED BY <2>1, <2>3, <2>4, <2>5
<1>4. s = [i \in 1..n |-> IF r + i <= N THEN x.cells[r + i] ELSE Junk]
  BY DEF AppendSource
<1>5. \A i \in 1..n : OnePiece(x, i) <=> r + i <= N
  BY DEF OnePiece
<1> HIDE DEF s, r, N
<1>6. s = t
  BY <1>3, <1>4, <1>5
<1>7. s \in [1..n -> Storable]
  <2>1. Junk \in Storable
    BY DEF Storable
  <2> QED BY <1>3, <1>4, <2>1
<1>8. s \in Seq(Storable) /\ Len(s) = n
  BY <1>7, SeqDef, LenProperties
<1> QED BY <1>6, <1>8 DEF s

\* operator>> of a plain buffer.
LEMMA StreamInKeeps ==
  ASSUME NEW x, NEW v, NEW a, Represents(x, v, a), x.mode = "plain",
         NEW s \in Seq(Storable), StreamInOk(x, Len(s))
  PROVE  LET y == WSkip(SetArray(x, s, x.mWritePos), Len(s))
         IN  Represents(y, Plus(v, s), a) /\ y.mode = x.mode
<1>1. a = 0 /\ x.mWritePos = Extent(v) /\ x.mWritePos + Len(s) <= mAllocatedSize(x)
  BY Numbers, SizesAre DEF Fits, StreamInOk
<1>2. Fits(x, a, Extent(v) + Len(s))
  BY <1>1 DEF Fits
<1>3. Room(x, v, Len(s))
  BY <1>1 DEF Room
<1> QED BY <1>2, <1>3, Put, PutShape

-----------------------------------------------------------------------------
(* The invariant                                                           *)

\* A represented buffer is what the invariant asks for.
LEMMA SoundWhen ==
  ASSUME NEW b, NEW y, NEW u, NEW a, Represents(y, u, a), y.mode = Mode[b]
  PROVE  Sound(b, y, u) /\ y \in BufferRecord /\ u \in ViewRecord
<1>1. /\ y \in BufferRecord /\ u \in ViewRecord /\ a \in Nat /\ mAllocatedSize(y) \in Nat
      /\ Fits(y, a, Extent(u)) /\ (y.mode = "plain" \/ y.mode = "circular")
  BY Numbers
<1>2. a \in 0..mAllocatedSize(y)
  BY <1>1 DEF Fits
<1> QED BY <1>1, <1>2 DEF Sound

\* What a live buffer of the client is.
LEMMA SoundIs ==
  ASSUME BufferInv, NEW b \in Name
  PROVE  /\ view[b] \in ViewRecord
         /\ Alive(b) => /\ buf[b].mode = Mode[b] /\ buf[b] \in BufferRecord
                        /\ \E a : Represents(buf[b], view[b], a)
BY DEF BufferInv, Sound, Alive

\* A step that changes one variable of the client.
LEMMA OneChanges ==
  ASSUME BufferInv, NEW b \in Name, NEW y, NEW u, Becomes(b, y, u),
         y \in BufferRecord \cup {NULL}, u \in ViewRecord, Sound(b, y, u)
  PROVE  BufferInv'
<1>1. /\ buf \in [Name -> BufferRecord \cup {NULL}] /\ view \in [Name -> ViewRecord]
      /\ \A d \in Name : Sound(d, buf[d], view[d])
      /\ buf' = [buf EXCEPT ![b] = y] /\ view' = [view EXCEPT ![b] = u]
  BY DEF BufferInv, Becomes
<1>2. /\ buf' \in [Name -> BufferRecord \cup {NULL}] /\ view' \in [Name -> ViewRecord]
      /\ \A d \in Name : Sound(d, buf'[d], view'[d])
  BY <1>1
<1> QED BY <1>2 DEF BufferInv

\* The same, of a step from what represents to what represents.
LEMMA OneKept ==
  ASSUME BufferInv, NEW b \in Name, NEW y, NEW u, Becomes(b, y, u),
         y.mode = Mode[b], \E a : Represents(y, u, a)
  PROVE  BufferInv'
BY SoundWhen, OneChanges

\* A step that changes two.
LEMMA TwoKept ==
  ASSUME BufferInv, NEW b \in Name, NEW c \in Name, b # c, NEW y, NEW u, NEW z, NEW w,
         buf' = [buf EXCEPT ![b] = y, ![c] = z], view' = [view EXCEPT ![b] = u, ![c] = w],
         y.mode = Mode[b], \E a : Represents(y, u, a),
         z.mode = Mode[c], \E a : Represents(z, w, a)
  PROVE  BufferInv'
<1>1. /\ buf \in [Name -> BufferRecord \cup {NULL}] /\ view \in [Name -> ViewRecord]
      /\ \A d \in Name : Sound(d, buf[d], view[d])
  BY DEF BufferInv
<1>2. /\ Sound(b, y, u) /\ y \in BufferRecord /\ u \in ViewRecord
      /\ Sound(c, z, w) /\ z \in BufferRecord /\ w \in ViewRecord
  BY SoundWhen
<1>3. /\ buf' \in [Name -> BufferRecord \cup {NULL}] /\ view' \in [Name -> ViewRecord]
      /\ \A d \in Name : buf'[d] = IF d = c THEN z ELSE IF d = b THEN y ELSE buf[d]
      /\ \A d \in Name : view'[d] = IF d = c THEN w ELSE IF d = b THEN u ELSE view[d]
  BY <1>1, <1>2
<1>4. \A d \in Name : Sound(d, buf'[d], view'[d])
  BY <1>1, <1>2, <1>3
<1> QED BY <1>3, <1>4 DEF BufferInv

\* Lengths as the actions write them.
LEMMA Lengths ==
  ASSUME NEW v \in ViewRecord
  PROVE  /\ Len(v.back) = Behind(v) /\ Len(v.next) = Ahead(v) /\ Len(v.back \o v.next) = Extent(v)
         /\ Behind(v) \in Nat /\ Ahead(v) \in Nat
BY ViewFacts DEF Behind, Ahead, Known

\* Every action of Use keeps the invariant: construction, destruction and setMutable,
LEMMA ObjectsKeep ==
  ASSUME BufferInv, NEW b \in Name, Construct(b) \/ Destroy(b) \/ SetMutable(b)
  PROVE  BufferInv'
<1>1. CASE Construct(b)
  <2>1. Mode[b] \in {"plain", "circular"}
    BY CellAssumption
  <2>2. PICK x \in {NewOnDemand(Mode[b]), NewSized(Mode[b], Capacity),
               NewOver(Mode[b], Uninitialized(Capacity), FALSE),
               NewOver(Mode[b], Uninitialized(Capacity), TRUE)} : Becomes(b, x, NewView)
    BY <1>1 DEF Construct
  <2>3. x.mode = Mode[b] /\ Represents(x, NewView, 0)
    BY <2>1, <2>2, NewBuffers
  <2> QED BY <2>2, <2>3, OneKept
<1>2. CASE Destroy(b)
  <2>1. Becomes(b, NULL, NewView)
    BY <1>2 DEF Destroy
  <2>2. NewView \in ViewRecord
    BY EmptySeq DEF NewView, ViewRecord
  <2>3. Sound(b, NULL, NewView)
    BY DEF Sound
  <2> QED BY <2>1, <2>2, <2>3, OneChanges
<1>3. CASE SetMutable(b)
  <2> DEFINE y == [buf[b] EXCEPT !.mReadOnly = FALSE]
             x == buf[b]
  <2>1. Becomes(b, y, view[b]) /\ Alive(b)
    BY <1>3 DEF SetMutable
  <2>2. x \in BufferRecord /\ x.mode = Mode[b] /\ \E a : Represents(x, view[b], a)
    BY <2>1, SoundIs
  <2>3. /\ y \in BufferRecord /\ y.mode = x.mode /\ y.cells = x.cells
        /\ y.mReadPos = x.mReadPos /\ y.mWritePos = x.mWritePos
        /\ y.mReadPosMarked = x.mReadPosMarked /\ y.mWritePosMarked = x.mWritePosMarked
    BY <2>2 DEF BufferRecord
  <2> HIDE DEF x, y
  <2>4. \E a : Represents(y, view[b], a)
    BY <2>2, <2>3, Reflagged
  <2> QED BY <2>1, <2>2, <2>3, <2>4, OneKept
<1> QED BY <1>1, <1>2, <1>3

\* the marks,
LEMMA MarkActionsKeep ==
  ASSUME BufferInv, NEW b \in Name, SetMarks(b) \/ GoToMarks(b)
  PROVE  BufferInv'
<1> DEFINE x == buf[b]
           v == view[b]
<1>1. Alive(b)
  BY DEF SetMarks, GoToMarks
<1>2. x \in BufferRecord /\ x.mode = Mode[b] /\ v \in ViewRecord
  BY <1>1, SoundIs
<1>3. PICK a : Represents(x, v, a)
  BY <1>1, SoundIs
<1>4. Len(v.back) = Behind(v) /\ Len(v.back \o v.next) = Extent(v)
  BY <1>2, Lengths
<1>5. CASE SetMarks(b)
  <2> DEFINE u1 == [v EXCEPT !.rmark = Behind(v), !.wmark = Extent(v)]
             u2 == [v EXCEPT !.rmark = Behind(v)]
             u3 == [v EXCEPT !.wmark = Extent(v)]
  <2>1. Becomes(b, Mark(x), u1) \/ Becomes(b, MarkRead(x), u2) \/ Becomes(b, MarkWrite(x), u3)
    BY <1>4, <1>5 DEF SetMarks
  <2> HIDE DEF x, v
  <2>2. /\ Represents(Mark(x), u1, a) /\ Mark(x).mode = x.mode
        /\ Represents(MarkRead(x), u2, a) /\ MarkRead(x).mode = x.mode
        /\ Represents(MarkWrite(x), u3, a) /\ MarkWrite(x).mode = x.mode
    BY <1>3, MarksKeep
  <2> HIDE DEF u1, u2, u3
  <2> QED BY <2>1, <2>2, <1>2, OneKept
<1>6. CASE GoToMarks(b)
  <2> DEFINE u1 == [ViewAt(v, v.rmark, v.wmark) EXCEPT !.rmark = NULL, !.wmark = NULL]
             u2 == ViewAt(v, v.rmark, Extent(v))
             u3 == ViewAt(v, Behind(v), v.wmark)
  <2>1. \/ /\ v.rmark # NULL /\ v.rmark <= Behind(v)
           /\ v.wmark # NULL /\ v.rmark <= v.wmark /\ v.wmark <= Extent(v)
           /\ Becomes(b, Reset(x), u1)
        \/ /\ v.rmark # NULL /\ v.rmark <= Behind(v)
           /\ Becomes(b, ResetRead(x), u2)
        \/ /\ v.wmark # NULL /\ Behind(v) <= v.wmark /\ v.wmark <= Extent(v)
           /\ Becomes(b, ResetWrite(x), u3)
    BY <1>4, <1>6 DEF GoToMarks, ReadMarkOk, WriteMarkOk
  <2> HIDE DEF x, v
  <2>2. \/ Becomes(b, Reset(x), u1) /\ Represents(Reset(x), u1, a) /\ Reset(x).mode = x.mode
        \/ Becomes(b, ResetRead(x), u2) /\ Represents(ResetRead(x), u2, a) /\ ResetRead(x).mode = x.mode
        \/ Becomes(b, ResetWrite(x), u3) /\ Represents(ResetWrite(x), u3, a) /\ ResetWrite(x).mode = x.mode
    BY <1>3, <2>1, ResetKeeps, ResetReadKeeps, ResetWriteKeeps
  <2> HIDE DEF u1, u2, u3
  <2> QED BY <2>2, <1>2, OneKept
<1> QED BY <1>5, <1>6

\* crunch(), clear() and zero(),
LEMMA WholeBufferKeeps ==
  ASSUME BufferInv, NEW b \in Name, Crunch(b) \/ ClearAll(b) \/ ZeroFree(b)
  PROVE  BufferInv'
<1> DEFINE x == buf[b]
           v == view[b]
<1>1. Alive(b)
  BY DEF Crunch, ClearAll, ZeroFree
<1>2. x \in BufferRecord /\ x.mode = Mode[b] /\ v \in ViewRecord
  BY <1>1, SoundIs
<1>3. PICK a : Represents(x, v, a)
  BY <1>1, SoundIs
<1>4. CASE Crunch(b)
  <2>1. Becomes(b, Crunched(x), IF CrunchMoves(x) THEN Moved(v) ELSE v)
    BY <1>4 DEF Crunch
  <2> HIDE DEF x, v
  <2>2. CASE CrunchMoves(x)
    BY <2>1, <2>2, <1>2, <1>3, CrunchKeeps, OneKept
  <2>3. CASE ~CrunchMoves(x)
    <3>1. Crunched(x) = x
      BY <2>3 DEF Crunched
    <3> QED BY <2>1, <2>3, <3>1, <1>2, <1>3, OneKept
  <2> QED BY <2>2, <2>3
<1>5. CASE ClearAll(b)
  <2>1. Becomes(b, Clear(x), NewView)
    BY <1>5 DEF ClearAll
  <2> HIDE DEF x, v
  <2> QED BY <2>1, <1>2, ClearKeeps, OneKept
<1>6. CASE ZeroFree(b)
  <2>1. ZeroOk(x) /\ Becomes(b, Zero(x), IF x.mode = "circular" THEN Moved(v) ELSE v)
    BY <1>2, <1>6 DEF ZeroFree
  <2> HIDE DEF x, v
  <2>2. /\ \E e : Represents(Zero(x), IF x.mode = "circular" THEN Moved(v) ELSE v, e)
        /\ Zero(x).mode = x.mode
    BY <1>3, <2>1, ZeroKeeps
  <2> QED BY <2>1, <2>2, <1>2, OneKept
<1> QED BY <1>4, <1>5, <1>6

\* writes, reads and rewinds,
LEMMA CellsKeep ==
  ASSUME BufferInv, NEW b \in Name, NEW n \in Nat,
         \/ \E s \in [1..n -> Cell] : Write(b, s)
         \/ Read(b, n) \/ SkipWrite(b, n) \/ RewindRead(b, n) \/ RewindWrite(b, n)
  PROVE  BufferInv'
<1> DEFINE x == buf[b]
           v == view[b]
<1>1. Alive(b)
  BY DEF Write, Read, SkipWrite, RewindRead, RewindWrite
<1>2. x \in BufferRecord /\ x.mode = Mode[b] /\ v \in ViewRecord
  BY <1>1, SoundIs
<1>3. PICK a : Represents(x, v, a)
  BY <1>1, SoundIs
<1>4. /\ Len(v.back) = Behind(v) /\ Len(v.next) = Ahead(v) /\ Len(v.back \o v.next) = Extent(v)
      /\ Behind(v) \in Nat /\ Ahead(v) \in Nat
  BY <1>2, Lengths
<1>5. CASE \E s \in [1..n -> Cell] : Write(b, s)
  <2>1. PICK s \in [1..n -> Cell] : Write(b, s)
    BY <1>5
  <2> DEFINE y == WriteArray(x, s)
  <2>2. /\ WriteOk(x, Len(s)) /\ MayGrow(x, Len(s))
        /\ Becomes(b, y, ViewAfterWrite(x, y, v, s))
    BY <2>1 DEF Write
  <2>3. s \in Seq(Storable)
    <3>1. s \in [1..n -> Storable]
      BY DEF Storable
    <3> QED BY <3>1, SeqDef
  <2> HIDE DEF x, v
  <2>4. (\E e : Represents(y, ViewAfterWrite(x, y, v, s), e)) /\ y.mode = x.mode
    BY <1>3, <2>2, <2>3, WriteKeeps
  <2> HIDE DEF y
  <2> QED BY <1>2, <2>2, <2>4, OneKept
<1>6. CASE Read(b, n)
  <2>1. n <= DataSize(x) /\ Becomes(b, RSkip(x, n), ViewAfterRead(v, n))
    BY <1>6 DEF Read, ReadOk
  <2> HIDE DEF x, v
  <2> QED BY <2>1, <1>2, <1>3, ReadKeeps, OneKept
<1>7. CASE SkipWrite(b, n)
  <2> DEFINE y == WSkip(x, n)
             s == GetArray(x, x.mWritePos, n)
  <2>1. x.cells # <<>> /\ WSkipOk(x, n) /\ Becomes(b, y, ViewAfterWrite(x, y, v, s))
    BY <1>7 DEF SkipWrite
  <2> HIDE DEF x, v
  <2>2. (\E e : Represents(y, ViewAfterWrite(x, y, v, s), e)) /\ y.mode = x.mode
    BY <1>3, <2>1, SkipKeeps
  <2> HIDE DEF y, s
  <2> QED BY <1>2, <2>1, <2>2, OneKept
<1>8. CASE RewindRead(b, n)
  <2>1. /\ Behind(v) - n >= 0
        /\ Becomes(b, RRev(x, n), ViewAt(v, Behind(v) - n, Extent(v)))
    BY <1>4, <1>8 DEF RewindRead
  <2> HIDE DEF x, v
  <2>2. n <= Behind(v)
    BY <2>1, <1>4
  <2> QED BY <2>1, <2>2, <1>2, <1>3, RewindReadKeeps, OneKept
<1>9. CASE RewindWrite(b, n)
  <2> DEFINE u == [v EXCEPT !.next = SubSeq(@, 1, Len(@) - n)]
  <2>1. n <= Ahead(v) /\ Becomes(b, WRev(x, n), u)
    BY <1>4, <1>9 DEF RewindWrite
  <2> HIDE DEF x, v
  <2>2. Represents(WRev(x, n), u, a) /\ WRev(x, n).mode = x.mode
    BY <1>3, <2>1, RewindWriteKeeps
  <2> HIDE DEF u
  <2> QED BY <2>1, <2>2, <1>2, OneKept
<1> QED BY <1>5, <1>6, <1>7, <1>8, <1>9

\* and copies, moves, appends and streams.
LEMMA PairsKeep ==
  ASSUME BufferInv, NEW b \in Name, NEW c \in Name, NEW n \in Nat,
         Copy(b, c) \/ Move(b, c) \/ AppendTo(b, c, n) \/ StreamTo(b, c)
  PROVE  BufferInv'
<1> DEFINE x == buf[b]
           v == view[b]
           y == buf[c]
           w == view[c]
<1>1. Alive(c) /\ b # c
  BY DEF Copy, Move, AppendTo, StreamTo
<1>2. y \in BufferRecord /\ y.mode = Mode[c] /\ w \in ViewRecord
  BY <1>1, SoundIs
<1>3. PICK e : Represents(y, w, e)
  BY <1>1, SoundIs
<1>4. CASE Copy(b, c)
  <2>1. Mode[b] = Mode[c] /\ Becomes(b, IF Alive(b) THEN AssignedFrom(x, y) ELSE CopyOf(y), w)
    BY <1>4 DEF Copy
  <2>2. Alive(b) => x \in BufferRecord
    BY SoundIs
  <2> HIDE DEF x, y, w
  <2>3. CASE Alive(b)
    <3>1. Represents(AssignedFrom(x, y), w, e) /\ AssignedFrom(x, y).mode = y.mode
      BY <1>3, <2>2, <2>3, CopyKeeps
    <3> QED BY <2>1, <2>3, <3>1, <1>2, OneKept
  <2>4. CASE ~Alive(b)
    <3>1. Represents(CopyOf(y), w, e) /\ CopyOf(y).mode = y.mode
      BY <1>3, CopyKeeps
    <3> QED BY <2>1, <2>4, <3>1, <1>2, OneKept
  <2> QED BY <2>3, <2>4
<1>5. CASE Move(b, c)
  <2>1. /\ Mode[b] = Mode[c]
        /\ buf' = [buf EXCEPT ![b] = y, ![c] = MovedFrom(y)]
        /\ view' = [view EXCEPT ![b] = w, ![c] = NewView]
    BY <1>5 DEF Move
  <2> HIDE DEF y, w
  <2>2. Represents(MovedFrom(y), NewView, 0) /\ MovedFrom(y).mode = y.mode
    BY <1>2, MovedFromKeeps
  <2> QED BY <1>1, <1>2, <1>3, <2>1, <2>2, TwoKept
<1>6. CASE AppendTo(b, c, n)
  <2> DEFINE s == AppendSource(y, n)
             z == WriteArray(x, s)
  <2>1. /\ Alive(b) /\ n <= DataSize(y) /\ WriteOk(x, n) /\ MayGrow(x, n)
        /\ buf' = [buf EXCEPT ![b] = z, ![c] = RSkip(y, n)]
        /\ view' = [view EXCEPT ![b] = ViewAfterWrite(x, z, v, Taken(c, n)),
                                ![c] = ViewAfterRead(w, n)]
    BY <1>6 DEF AppendTo, AppendOk
  <2>2. x.mode = Mode[b] /\ \E a : Represents(x, v, a)
    BY <2>1, SoundIs
  <2>6. Taken(c, n) = [i \in 1..n |-> IF OnePiece(y, i) THEN w.next[i] ELSE Junk]
    BY DEF Taken
  <2> HIDE DEF x, v, y, w
  <2>3. s = Taken(c, n) /\ s \in Seq(Storable) /\ Len(s) = n
    BY <1>3, <2>1, <2>6, AppendSourceIs
  <2> HIDE DEF s
  <2>4. (\E f : Represents(z, ViewAfterWrite(x, z, v, s), f)) /\ z.mode = x.mode
    BY <2>1, <2>2, <2>3, WriteKeeps
  <2>5. Represents(RSkip(y, n), ViewAfterRead(w, n), e) /\ RSkip(y, n).mode = y.mode
    BY <1>3, <2>1, ReadKeeps
  <2> HIDE DEF z
  <2> QED BY <1>1, <1>2, <2>1, <2>2, <2>3, <2>4, <2>5, TwoKept
<1>7. CASE StreamTo(b, c)
  <2> DEFINE s == Content(y)
             z == WSkip(SetArray(x, s, x.mWritePos), Len(s))
  <2>1. /\ Alive(b) /\ Mode[b] = "plain" /\ StreamInOk(x, Len(s))
        /\ buf' = [buf EXCEPT ![b] = z, ![c] = RSkip(y, Len(s))]
        /\ view' = [view EXCEPT ![b].next = @ \o w.next, ![c] = ViewAfterRead(w, Len(s))]
    BY <1>7 DEF StreamTo
  <2>2. x.mode = Mode[b] /\ \E a : Represents(x, v, a)
    BY <2>1, SoundIs
  <2>3. s = w.next /\ w.next \in Seq(Storable) /\ Len(w.next) = Ahead(w) /\ Len(s) \in Nat
        /\ Len(s) <= DataSize(y)
    <3>1. s = w.next
      BY <1>3, ContentIs
    <3>2. w.next \in Seq(Storable) /\ Len(w.next) = Ahead(w) /\ Ahead(w) \in Nat
      BY <1>2, Lengths, ViewFacts
    <3>3. DataSize(y) = Ahead(w)
      BY <1>3, SizesAre
    <3> HIDE DEF s, y, w
    <3> QED BY <3>1, <3>2, <3>3
  <2>4. view' = [view EXCEPT ![b] = Plus(v, w.next), ![c] = ViewAfterRead(w, Len(s))]
    BY <1>1, <2>1 DEF Plus, BufferInv
  <2> HIDE DEF x, v, y, w, s
  <2>5. \E a : Represents(z, Plus(v, s), a)
    BY <2>1, <2>2, <2>3, StreamInKeeps
  <2>6. z.mode = x.mode
    BY <2>1, <2>2, <2>3, StreamInKeeps
  <2>7. Represents(RSkip(y, Len(s)), ViewAfterRead(w, Len(s)), e) /\ RSkip(y, Len(s)).mode = y.mode
    BY <1>3, <2>3, ReadKeeps
  <2> HIDE DEF z
  <2> QED BY <1>1, <1>2, <2>1, <2>2, <2>3, <2>4, <2>5, <2>6, <2>7, TwoKept, ZenonT(60)
<1> QED BY <1>4, <1>5, <1>6, <1>7

\* A client begins without buffers.
LEMMA BufferInvInit ==
  BufferInit => BufferInv
<1>1. NewView \in ViewRecord
  BY EmptySeq DEF NewView, ViewRecord
<1> QED BY <1>1 DEF BufferInit, BufferInv, Sound

\* The invariant is inductive.
LEMMA BufferInvNext ==
  BufferInv /\ [Use(Name)]_bufferVars => BufferInv'
<1>1. ASSUME BufferInv, Use(Name) PROVE BufferInv'
  <2>1. PICK b \in Name :
          \/ Construct(b) \/ Destroy(b) \/ SetMutable(b)
          \/ SetMarks(b) \/ GoToMarks(b) \/ Crunch(b) \/ ClearAll(b) \/ ZeroFree(b)
          \/ \E n \in Span : \E s \in [1..n -> Cell] : Write(b, s)
          \/ \E n \in Span : Read(b, n) \/ SkipWrite(b, n) \/ RewindRead(b, n) \/ RewindWrite(b, n)
          \/ \E c \in Name : Copy(b, c) \/ Move(b, c) \/ StreamTo(b, c)
          \/ \E c \in Name, n \in Span : AppendTo(b, c, n)
    BY <1>1 DEF Use
  <2>2. Span \subseteq Nat /\ 0 \in Nat
    BY SizeAssumption
  <2>3. CASE \E n \in Span : \/ \E s \in [1..n -> Cell] : Write(b, s)
                             \/ Read(b, n) \/ SkipWrite(b, n) \/ RewindRead(b, n) \/ RewindWrite(b, n)
    BY <1>1, <2>2, <2>3, CellsKeep
  <2>4. CASE \E c \in Name : Copy(b, c) \/ Move(b, c) \/ StreamTo(b, c)
    BY <1>1, <2>2, <2>4, PairsKeep
  <2>5. CASE \E c \in Name, n \in Span : AppendTo(b, c, n)
    BY <1>1, <2>2, <2>5, PairsKeep
  <2> QED BY <1>1, <2>1, <2>3, <2>4, <2>5, ObjectsKeep, MarkActionsKeep, WholeBufferKeeps
<1>2. ASSUME BufferInv, UNCHANGED bufferVars PROVE BufferInv'
  BY <1>2 DEF BufferInv, bufferVars
<1> QED BY <1>1, <1>2

\* The invariant says what the client is promised.
LEMMA BufferInvImplies ==
  BufferInv => ContentIsUnread
<1> SUFFICES ASSUME BufferInv PROVE ContentIsUnread
  OBVIOUS
<1>1. ASSUME NEW b \in Name, Alive(b)
      PROVE  /\ buf[b].mode = Mode[b]
             /\ buf[b].cells \in Seq(Cell \cup {Junk, 0})
             /\ {buf[b].mReadPos, buf[b].mWritePos} \subseteq
                  0..(IF buf[b].mode = "plain" \/ buf[b].cells = <<>> THEN Len(buf[b].cells)
                      ELSE Len(buf[b].cells) - 1)
             /\ Content(buf[b]) = view[b].next
  <2> DEFINE x == buf[b]
             v == view[b]
  <2>1. x \in BufferRecord /\ x.mode = Mode[b]
    BY <1>1, SoundIs
  <2>2. PICK a : Represents(x, v, a)
    BY <1>1, SoundIs
  <2> HIDE DEF x, v
  <2>3. Content(x) = v.next
    BY <2>2, ContentIs
  <2>4. x.cells \in Seq(Cell \cup {Junk, 0})
    BY <2>1 DEF BufferRecord, Storable
  <2> DEFINE N == Len(x.cells)
             r == x.mReadPos
             p == x.mWritePos
  <2>5. N \in Nat /\ r \in Nat /\ p \in Nat /\ N = mAllocatedSize(x)
    BY <2>2, Numbers DEF mAllocatedSize
  <2>6. {r, p} \subseteq 0..(IF x.mode = "plain" \/ x.cells = <<>> THEN N ELSE N - 1)
    <3>1. CASE x.mode = "plain"
      <4>1. r = Behind(v) /\ p = Extent(v) /\ p <= N /\ Behind(v) <= Extent(v)
        BY <2>2, <2>5, <3>1, SizesAre, Numbers
      <4> HIDE DEF N, r, p
      <4> QED BY <2>5, <3>1, <4>1
    <3>2. CASE x.mode = "circular"
      <4>1. /\ r < N \/ (x.cells = <<>> /\ r = 0)
            /\ p < N \/ (x.cells = <<>> /\ p = 0)
        BY <2>2, <2>5, <3>2, SizesAre
      <4>2. x.mode # "plain"
        BY <3>2
      <4> HIDE DEF N, r, p
      <4> QED BY <2>5, <4>1, <4>2
    <3> QED BY <2>1, <3>1, <3>2, MemoryFacts
  <2> QED BY <2>1, <2>3, <2>4, <2>6 DEF x, v
<1> QED BY <1>1 DEF ContentIsUnread, BufferTypeOK

\* In every state of every client there is such a position for each live buffer.
THEOREM BufferInvHolds == BufferSpec => []BufferInv
BY BufferInvInit, BufferInvNext, PTL DEF BufferSpec

\* Of clients that keep to the assertions of the code, and read, rewind, zero and
\* stream no further than the cells there are (Buffer names the four places): for every
\* number of buffers and lengths of calls, and buffers that grow to at most 2^30 cells,
\* the memory between the read and the write position is what was written and not
\* read, Junk in place of what append took from behind the end of a circular source.
THEOREM ContentIsUnreadHolds == BufferSpec => []ContentIsUnread
BY BufferInvHolds, BufferInvImplies, PTL

-----------------------------------------------------------------------------
(* Ranges                                                                  *)

\* A step from the position that is k cells from a.
LEMMA StepSlot ==
  ASSUME NEW x \in BufferRecord, NEW a \in Nat, NEW m \in Nat, Fits(x, a, m),
         NEW k \in 0..m, NEW j \in 1..(m - k)
  PROVE  Slot(x, Pos(x, a + k) + j - 1) = Slot(x, a + (k + j) - 1)
<1>1. mAllocatedSize(x) \in Nat /\ (x.mode = "plain" \/ x.mode = "circular")
  BY MemoryFacts
<1>2. CASE x.mode = "plain"
  BY <1>1, <1>2 DEF Fits, Pos, Slot, Place
<1>3. CASE x.mode = "circular"
  <2>1. /\ a = 0 \/ a < mAllocatedSize(x)
        /\ m = 0 \/ m < mAllocatedSize(x)
    BY <1>3 DEF Fits
  <2>2. \A q : Pos(x, q) = Place(x, q)
    BY <1>3 DEF Pos
  <2>3. Place(x, Place(x, a + k) + j - 1) = Place(x, a + (k + j) - 1)
    BY <1>1, <2>1 DEF Place
  <2> QED BY <2>2, <2>3 DEF Slot
<1> QED BY <1>1, <1>2, <1>3

\* The n cells from the k-th on begin at the position p and do not cross the end.
Straight(x, a, k, n, p) ==
  p + n <= mAllocatedSize(x) /\ \A i \in 1..n : Slot(x, a + (k + i) - 1) = p + i

\* A range of the memory that does not cross its end, as cells of the view.
LEMMA PartIs ==
  ASSUME NEW x, NEW v, NEW a, Represents(x, v, a),
         NEW k \in Nat, NEW m \in Nat, NEW n \in Nat, m = k + n, m <= Extent(v),
         NEW p \in Nat, NEW q \in Nat, q = p + n, Straight(x, a, k, n, p)
  PROVE  SubSeq(x.cells, p + 1, q) = SubSeq(Known(v), k + 1, m)
<1> DEFINE s == SubSeq(x.cells, p + 1, q)
           t == SubSeq(Known(v), k + 1, m)
<1>1. n \in Nat /\ m = k + n /\ q <= mAllocatedSize(x) /\ \A i \in 1..n : k + i \in 1..Extent(v)
  BY Numbers DEF Straight
<1>2. x.cells \in Seq(Storable) /\ Len(x.cells) = mAllocatedSize(x) /\ mAllocatedSize(x) \in Nat
  BY Numbers, MemoryFacts DEF mAllocatedSize
<1>3. Known(v) \in Seq(Storable) /\ Len(Known(v)) = Extent(v) /\ Extent(v) \in Nat
  BY Numbers, ViewFacts
<1>4. s = [i \in 1..n |-> x.cells[p + i]]
  <2>1. s = [i \in 1..(1 + q - (p + 1)) |-> x.cells[i + (p + 1) - 1]]
    OBVIOUS
  <2>2. 1 + q - (p + 1) = n /\ \A i \in 1..n : i + (p + 1) - 1 = p + i
    BY <1>1
  <2> QED BY <2>1, <2>2
<1>5. t = [i \in 1..n |-> Known(v)[k + i]]
  <2>1. t = [i \in 1..(1 + m - (k + 1)) |-> Known(v)[i + (k + 1) - 1]]
    OBVIOUS
  <2>2. 1 + m - (k + 1) = n /\ \A i \in 1..n : i + (k + 1) - 1 = k + i
    BY <1>1
  <2> QED BY <2>1, <2>2
<1>6. ASSUME NEW i \in 1..n
      PROVE  x.cells[p + i] = Known(v)[k + i]
  <2> DEFINE l == k + i
  <2>1. l \in 1..Extent(v) /\ Slot(x, a + l - 1) = p + i
    BY <1>1 DEF Straight
  <2> HIDE DEF l
  <2>2. x.cells[Slot(x, a + l - 1)] = Known(v)[l]
    BY <2>1, Numbers
  <2> QED BY <2>1, <2>2 DEF l
<1> QED BY <1>4, <1>5, <1>6

\* An empty list of ranges names no cell.
LEMMA NoRange ==
  ASSUME NEW x
  PROVE  RangeCells(x, <<>>) = <<>>
BY DEF RangeCells

\* One range is a piece of the memory.
LEMMA OneRange ==
  ASSUME NEW x \in BufferRecord, NEW p \in Nat, NEW q \in Nat, q <= mAllocatedSize(x)
  PROVE  /\ RangeCells(x, <<<<p, q>>>>) = SubSeq(x.cells, p + 1, q)
         /\ SubSeq(x.cells, p + 1, q) \in Seq(Storable)
<1>0. x.cells \in Seq(Storable) /\ Len(x.cells) = mAllocatedSize(x) /\ mAllocatedSize(x) \in Nat
  BY MemoryFacts DEF mAllocatedSize
<1> DEFINE s == <<<<p, q>>>>
           t == SubSeq(x.cells, p + 1, q)
<1>1. 1 \in DOMAIN s /\ 2 \notin DOMAIN s /\ s[1][1] = p /\ s[1][2] = q
  OBVIOUS
<1> HIDE DEF s
<1>2. RangeCells(x, s) = t \o <<>>
  BY <1>1 DEF RangeCells
<1>3. t \in Seq(Storable)
  BY <1>0, SubSeqProperties
<1> HIDE DEF t
<1> QED BY <1>2, <1>3, ConcatEmptySeq DEF s, t

\* Two are the piece up to the end of the memory and the one from its start.
LEMMA TwoRanges ==
  ASSUME NEW x, NEW p \in Nat, NEW q \in Nat, NEW f \in Nat
  PROVE  RangeCells(x, <<<<p, q>>, <<0, f>>>>) = SubSeq(x.cells, p + 1, q) \o SubSeq(x.cells, 0 + 1, f)
<1> DEFINE s == <<<<p, q>>, <<0, f>>>>
<1>1. /\ 1 \in DOMAIN s /\ 2 \in DOMAIN s /\ s[1][1] = p /\ s[1][2] = q
      /\ s[2][1] = 0 /\ s[2][2] = f
  OBVIOUS
<1> HIDE DEF s
<1>2. RangeCells(x, s) = SubSeq(x.cells, p + 1, q) \o SubSeq(x.cells, 0 + 1, f)
  BY <1>1 DEF RangeCells
<1> QED BY <1>2 DEF s

\* The ranges between two positions are the cells of the view between them.
LEMMA RangesAre ==
  ASSUME NEW x, NEW v, NEW a, Represents(x, v, a),
         NEW k \in Nat, NEW m \in Nat, k <= m, m <= Extent(v)
  PROVE  LET s == Ranges(x, Pos(x, a + k), Pos(x, a + m))
         IN  /\ RangeCells(x, s) = SubSeq(Known(v), k + 1, m)
             /\ Len(s) = 2 /\ s[2][2] = 0 => RangeCells(x, <<s[1]>>) = RangeCells(x, s)
<1> DEFINE N == mAllocatedSize(x)
           n == m - k
           r == Pos(x, a + k)
           w == Pos(x, a + m)
           s == Ranges(x, r, w)
           t == SubSeq(Known(v), k + 1, m)
<1>1. /\ x \in BufferRecord /\ v \in ViewRecord /\ a \in Nat /\ N \in Nat
      /\ x.mode = "plain" \/ x.mode = "circular"
      /\ Extent(v) \in Nat /\ Fits(x, a, Extent(v)) /\ n \in Nat /\ m = k + n
  BY Numbers
<1>2. Fits(x, a, m)
  BY <1>1, FitsLess
<1>3. /\ r \in Nat /\ w \in Nat
      /\ \A j \in 1..n : Slot(x, r + j - 1) = Slot(x, a + (k + j) - 1)
  <2>1. k \in 0..m /\ m \in 0..m /\ m - k = n
    BY <1>1
  <2>2. r \in Nat
    BY <1>1, <1>2, <2>1, Steps
  <2>5. ASSUME NEW j \in 1..n PROVE Slot(x, Pos(x, a + k) + j - 1) = Slot(x, a + (k + j) - 1)
    <3>1. j \in 1..(m - k)
      OBVIOUS
    <3> HIDE DEF n, r, w
    <3> QED BY <1>1, <1>2, <2>1, <3>1, StepSlot, ZenonT(60)
  <2>6. \A j \in 1..n : Slot(x, r + j - 1) = Slot(x, a + (k + j) - 1)
    BY <2>5
  <2>3. w \in Nat
    BY <1>1, <1>2, <2>1, Steps
  <2> HIDE DEF r, w, n
  <2> QED BY <2>2, <2>3, <2>6
<1>4. CASE x.mode = "plain"
  <2>1. a = 0 /\ m <= N /\ r = k /\ w = m
    BY <1>1, <1>2, <1>4 DEF Fits, Pos
  <2>2. s = <<<<k, m>>>>
    BY <1>4, <2>1 DEF Ranges
  <2>3. Len(s) # 2
    BY <2>2
  <2>4. Straight(x, a, k, n, k)
    <3> HIDE DEF N, n
    <3>1. n \in Nat /\ m = k + n /\ N \in Nat /\ N = mAllocatedSize(x)
      BY <1>1 DEF N
    <3> QED BY <2>1, <3>1 DEF Slot, Place, Straight
  <2>6. SubSeq(x.cells, k + 1, m) = t
    <3> HIDE DEF n
    <3> QED BY <1>1, <2>4, PartIs
  <2>7. RangeCells(x, s) = SubSeq(x.cells, k + 1, m)
    <3>1. RangeCells(x, <<<<k, m>>>>) = SubSeq(x.cells, k + 1, m)
      BY <1>1, <2>1, OneRange
    <3> QED BY <2>2, <3>1
  <2> HIDE DEF s, t
  <2> QED BY <2>3, <2>6, <2>7 DEF s, t
<1>5. ASSUME x.mode = "circular"
      PROVE  /\ w < r => r + n >= N /\ w = r + n - N /\ r < N
             /\ r < w => r + n < N /\ w = r + n
             /\ r = w => m = k
  <2>1. /\ a = 0 \/ a < N
        /\ m = 0 \/ m < N
        /\ r = Place(x, a + k) /\ w = Place(x, a + m)
    BY <1>2, <1>5 DEF Fits, Pos
  <2> HIDE DEF r, w, n
  <2>2. n \in Nat /\ m = k + n
    BY <1>1
  <2> QED BY <2>1, <2>2, <1>1 DEF Place
<1>6. CASE x.mode = "circular" /\ w < r
  <2> DEFINE h == N - r
  <2>1. r + n >= N /\ w = r + n - N /\ r < N
    BY <1>5, <1>6
  <2>2. s = <<<<r, N>>, <<0, w>>>>
    BY <1>6 DEF Ranges
  <2>6. N = mAllocatedSize(x) /\ N \in Nat
    BY <1>1
  <2> HIDE DEF r, w, n, N, s
  <2>3. /\ h \in Nat /\ h <= n /\ N = r + h /\ w \in Nat /\ n = h + w /\ w <= N
    BY <1>1, <1>3, <1>6, <2>1, <2>6
  <2> HIDE DEF h
  <2>13. k + h \in Nat /\ k + h <= m /\ k + h <= Extent(v) /\ m = (k + h) + w
    BY <1>1, <2>3
  <2>4. Straight(x, a, k, h, r)
    <3>1. \A i \in 1..h : i \in 1..n /\ Slot(x, r + i - 1) = r + i
      BY <1>1, <1>3, <2>3, <2>6 DEF Slot, Place
    <3>2. r + h <= mAllocatedSize(x)
      BY <1>3, <2>3, <2>6
    <3> QED BY <1>3, <3>1, <3>2 DEF Straight
  <2>5. Straight(x, a, k + h, w, 0)
    <3>1. ASSUME NEW i \in 1..w
          PROVE  Slot(x, a + ((k + h) + i) - 1) = 0 + i
      <4> DEFINE j == h + i
      <4>1. j \in 1..n /\ (k + h) + i = k + j /\ r + j - 1 = N + i - 1
        BY <1>1, <1>3, <2>3
      <4>2. Slot(x, N + i - 1) = 0 + i
        BY <2>6, <2>3 DEF Slot, Place
      <4> HIDE DEF j
      <4>3. Slot(x, r + j - 1) = Slot(x, a + (k + j) - 1)
        BY <1>3, <4>1
      <4> QED BY <4>1, <4>2, <4>3
    <3>2. 0 + w <= mAllocatedSize(x)
      BY <2>3, <2>6
    <3> QED BY <3>1, <3>2 DEF Straight
  <2>7. SubSeq(x.cells, r + 1, N) = SubSeq(Known(v), k + 1, k + h)
    <3> DEFINE e == k + h
    <3>1. e \in Nat /\ e = k + h /\ e <= Extent(v)
      BY <2>13
    <3> HIDE DEF e
    <3>2. SubSeq(x.cells, r + 1, N) = SubSeq(Known(v), k + 1, e)
      BY <1>3, <2>3, <2>4, <2>6, <3>1, PartIs
    <3> QED BY <3>2 DEF e
  <2>8. SubSeq(x.cells, 0 + 1, w) = SubSeq(Known(v), (k + h) + 1, m)
    <3> DEFINE e == k + h
    <3>1. e \in Nat /\ m = e + w /\ Straight(x, a, e, w, 0) /\ w = 0 + w /\ 0 \in Nat
      BY <2>3, <2>5, <2>13
    <3> HIDE DEF e
    <3>2. SubSeq(x.cells, 0 + 1, w) = SubSeq(Known(v), e + 1, m)
      BY <2>3, <3>1, PartIs
    <3> QED BY <3>2 DEF e
  <2>9. SubSeq(Known(v), k + 1, k + h) \o SubSeq(Known(v), (k + h) + 1, m) = t
    <3>1. Known(v) \in Seq(Storable) /\ Len(Known(v)) = Extent(v)
      BY <1>1, ViewFacts
    <3> DEFINE e == k + h
    <3>2. /\ k + 1 \in 1..(Extent(v) + 1) /\ e \in ((k + 1) - 1)..Extent(v) /\ m \in e..Extent(v)
      BY <1>1, <2>3, <2>13
    <3> HIDE DEF e
    <3>3. SubSeq(Known(v), k + 1, e) \o SubSeq(Known(v), e + 1, m) = SubSeq(Known(v), k + 1, m)
      BY <3>1, <3>2, ConcatAdjacentSubSeq
    <3> QED BY <3>3 DEF e
  <2>10. RangeCells(x, s) = SubSeq(x.cells, r + 1, N) \o SubSeq(x.cells, 0 + 1, w)
    <3>1. RangeCells(x, <<<<r, N>>, <<0, w>>>>) = SubSeq(x.cells, r + 1, N) \o SubSeq(x.cells, 0 + 1, w)
      BY <1>3, <2>6, TwoRanges, ZenonT(60)
    <3> QED BY <2>2, <3>1
  <2>11. RangeCells(x, s) = t
    BY <2>7, <2>8, <2>9, <2>10
  <2>12. ASSUME s[2][2] = 0 PROVE RangeCells(x, <<s[1]>>) = RangeCells(x, s)
    <3>1. s[1] = <<r, N>> /\ w = 0
      BY <2>2, <2>12
    <3>4. /\ RangeCells(x, <<<<r, N>>>>) = SubSeq(x.cells, r + 1, N)
          /\ SubSeq(x.cells, r + 1, N) \in Seq(Storable)
      <4>1. N <= mAllocatedSize(x) /\ N \in Nat
        BY <1>1, <2>6
      <4> QED BY <1>1, <1>3, <4>1, OneRange
    <3>2. RangeCells(x, <<s[1]>>) = SubSeq(x.cells, r + 1, N)
      BY <3>1, <3>4
    <3>3. SubSeq(x.cells, 0 + 1, w) = <<>>
      BY <3>1, SubSeqEmpty
    <3> QED BY <2>10, <3>2, <3>3, <3>4, ConcatEmptySeq
  <2> HIDE DEF t
  <2> QED BY <2>11, <2>12 DEF s, t, r, w
<1>7. CASE x.mode = "circular" /\ r < w
  <2>1. r + n < N /\ w = r + n
    BY <1>5, <1>7
  <2>2. s = <<<<r, w>>>>
    <3> HIDE DEF r, w
    <3>1. ~(w < r) /\ w # r
      BY <1>3, <1>7
    <3> QED BY <1>7, <3>1 DEF Ranges
  <2>3. Len(s) # 2
    BY <2>2
  <2> HIDE DEF r, w, s
  <2>4. Straight(x, a, k, n, r)
    <3> HIDE DEF n, N
    <3>0. n \in Nat /\ r \in Nat /\ N \in Nat /\ N = mAllocatedSize(x)
      BY <1>1, <1>3 DEF N
    <3>1. \A i \in 1..n : Slot(x, r + i - 1) = Slot(x, a + (k + i) - 1)
      BY <1>3
    <3>2. \A i \in 1..n : Slot(x, r + i - 1) = r + i
      BY <2>1, <3>0 DEF Slot, Place
    <3>3. r + n <= mAllocatedSize(x)
      BY <2>1, <3>0
    <3> QED BY <3>1, <3>2, <3>3 DEF Straight
  <2>5. r + (m - k) = w /\ w <= N
    BY <1>1, <1>3, <2>1
  <2>6. SubSeq(x.cells, r + 1, w) = t
    <3> HIDE DEF n
    <3> QED BY <1>1, <1>3, <2>1, <2>4, PartIs
  <2>7. RangeCells(x, s) = SubSeq(x.cells, r + 1, w)
    <3>1. RangeCells(x, <<<<r, w>>>>) = SubSeq(x.cells, r + 1, w)
      BY <1>1, <1>3, <2>5, OneRange
    <3> QED BY <2>2, <3>1
  <2> HIDE DEF t
  <2> QED BY <2>3, <2>6, <2>7 DEF s, t, r, w
<1>8. CASE x.mode = "circular" /\ r = w
  <2>1. m = k
    BY <1>5, <1>8
  <2>2. s = <<>>
    <3> HIDE DEF r, w
    <3> QED BY <1>3, <1>8 DEF Ranges
  <2>3. Len(s) # 2
    BY <2>2
  <2>4. t = <<>>
    BY <2>1, SubSeqEmpty
  <2>5. RangeCells(x, s) = <<>>
    BY <2>2, NoRange
  <2> HIDE DEF t, s
  <2> QED BY <2>3, <2>4, <2>5 DEF s, t
<1>9. w < r \/ r < w \/ r = w
  <2> HIDE DEF r, w
  <2> QED BY <1>3
<1> QED BY <1>1, <1>4, <1>6, <1>7, <1>8, <1>9

\* The ranges that clients get.
LEMMA BufferInvRanges ==
  BufferInv => RangesAreContent
<1> SUFFICES ASSUME BufferInv, NEW b \in Name, Alive(b)
             PROVE  /\ RangeCells(buf[b], DataRanges(buf[b])) = view[b].next
                    /\ (ReadMarkOk(b) /\ WriteMarkOk(b, view[b].rmark)) =>
                         RangeCells(buf[b], DataRangesFromMark(buf[b])) =
                           SubSeq(view[b].back \o view[b].next, view[b].rmark + 1, view[b].wmark)
  BY DEF RangesAreContent
<1> DEFINE x == buf[b]
           v == view[b]
<1>1. x \in BufferRecord /\ v \in ViewRecord
  BY SoundIs
<1>2. PICK a : Represents(x, v, a)
  BY SoundIs
<1>3. /\ Len(v.back) = Behind(v) /\ Len(v.next) = Ahead(v) /\ Len(v.back \o v.next) = Extent(v)
      /\ Behind(v) \in Nat /\ Ahead(v) \in Nat /\ Extent(v) \in Nat /\ Extent(v) = Behind(v) + Ahead(v)
      /\ Known(v) = v.back \o v.next /\ v.back \in Seq(Storable) /\ v.next \in Seq(Storable)
  BY <1>1, Lengths, ViewFacts DEF Known
<1>4. (ReadMarkOk(b) /\ WriteMarkOk(b, v.rmark)) =>
        /\ v.rmark # NULL /\ v.rmark <= Behind(v)
        /\ v.wmark # NULL /\ v.rmark <= v.wmark /\ v.wmark <= Extent(v)
  BY <1>3 DEF ReadMarkOk, WriteMarkOk
<1> HIDE DEF x, v
<1>5. RangeCells(x, DataRanges(x)) = v.next
  <2> DEFINE k == Behind(v)
             m == Extent(v)
  <2>1. k \in Nat /\ m \in Nat /\ k <= m /\ m <= Extent(v)
    BY <1>3
  <2>2. DataRanges(x) = Ranges(x, Pos(x, a + k), Pos(x, a + m))
    BY <1>2, Numbers DEF DataRanges
  <2> HIDE DEF k, m
  <2>3. RangeCells(x, DataRanges(x)) = SubSeq(Known(v), k + 1, m)
    <3> DEFINE s == Ranges(x, Pos(x, a + k), Pos(x, a + m))
    <3>1. /\ RangeCells(x, s) = SubSeq(Known(v), k + 1, m)
          /\ Len(s) = 2 /\ s[2][2] = 0 => RangeCells(x, <<s[1]>>) = RangeCells(x, s)
      BY <1>2, <2>1, RangesAre
    <3> HIDE DEF s
    <3> QED BY <2>2, <3>1 DEF s
  <2>4. SubSeq(v.back \o v.next, Len(v.back) + 1, Len(v.back) + Len(v.next)) = v.next
    <3> DEFINE f == v.back
               g == v.next
    <3>1. f \in Seq(Storable) /\ g \in Seq(Storable)
      BY <1>3
    <3> HIDE DEF f, g
    <3>2. SubSeq(f \o g, Len(f) + 1, Len(f) + Len(g)) = g
      BY <3>1, SubSeqOfConcat2
    <3> QED BY <3>2 DEF f, g
  <2> QED BY <1>3, <2>3, <2>4 DEF k, m
<1>6. ASSUME v.rmark # NULL, v.rmark <= Behind(v),
             v.wmark # NULL, v.rmark <= v.wmark, v.wmark <= Extent(v)
      PROVE  RangeCells(x, DataRangesFromMark(x)) = SubSeq(v.back \o v.next, v.rmark + 1, v.wmark)
  <2> DEFINE k == v.rmark
             m == v.wmark
             s == Ranges(x, Pos(x, a + k), Pos(x, a + m))
  <2>1. k \in Nat /\ m \in Nat /\ k <= m /\ m <= Extent(v)
    BY <1>1, <1>6 DEF ViewRecord
  <2>2. x.mReadPosMarked = Pos(x, a + k) /\ x.mWritePosMarked = Pos(x, a + m)
    BY <1>2, <1>6, Numbers DEF Marked
  <2>3. DataRangesFromMark(x) = IF Len(s) = 2 /\ s[2][2] = 0 THEN <<s[1]>> ELSE s
    BY <2>2 DEF DataRangesFromMark
  <2> HIDE DEF k, m
  <2>4. /\ RangeCells(x, s) = SubSeq(Known(v), k + 1, m)
        /\ Len(s) = 2 /\ s[2][2] = 0 => RangeCells(x, <<s[1]>>) = RangeCells(x, s)
    BY <1>2, <2>1, RangesAre
  <2> HIDE DEF s
  <2> QED BY <1>3, <2>3, <2>4 DEF k, m
<1> QED BY <1>4, <1>5, <1>6 DEF x, v

\* Of the same clients: the ranges that getDataRanges gives for direct access cover the unread cells in order, and those of
\* getDataRangesFromMark the cells between the marks.
THEOREM RangesAreContentHolds == BufferSpec => []RangesAreContent
BY BufferInvHolds, BufferInvRanges, PTL

=============================================================================
