------------------------- MODULE PoolMemoryProofs -------------------------
(***************************************************************************)
(* Proofs about PoolMemory, for every pool, size of the big blocks and set *)
(* of requests, until a request makes mBumpPtr wrap around: large chunks,  *)
(* free chunks and big blocks never overlap (MemorySafe), and an           *)
(* allocation loses at most what the code means to lose (LossIsBounded).   *)
(***************************************************************************)
EXTENDS ScalablePoolAllocator, SequenceTheorems, FiniteSetTheorems, TLAPS

ChunkRecord == [addr : Nat, size : Nat]

\* c ends before d begins, or the other way round.
Apart(c, d) == End(c) <= d.addr \/ End(d) <= c.addr

InPool(c) == mBumpPtr <= c.addr /\ End(c) <= PoolSize

\* The list s is in address order, and neighbours i and i + 1 touch only
\* where i is in K.
SortedBut(s, K) ==
  \A i, j \in 1..Len(s) :
    i < j => /\ End(s[i]) <= s[j].addr
             /\ End(s[i]) = s[j].addr => j = i + 1 /\ i \in K

\* The words of the chunks of the list s.
Covered(s) == UNION {Extent(s[j]) : j \in 1..Len(s)}

Pointers ==
  /\ mBlockAllocPtr \in 0..(PoolSize + BigBlockSize)
  /\ mBumpPtr \in 0..PoolSize

InUse ==
  /\ large \in SUBSET ChunkRecord
  /\ IsFiniteSet(large)
  /\ \A c \in large : InPool(c)
  /\ \A c, d \in large : c # d => Apart(c, d)

FreeList ==
  /\ mLargeFreeList \in Seq(ChunkRecord)
  /\ \A i \in 1..Len(mLargeFreeList) : InPool(mLargeFreeList[i])
  /\ SortedBut(mLargeFreeList, {})

InUseIsNotFree ==
  \A c \in large : \A i \in 1..Len(mLargeFreeList) : Apart(c, mLargeFreeList[i])

\* The blocks end below both pointers: mBlockAllocPtr alone says nothing, as it
\* is moved beyond mBumpPtr by a call that fails.
BlocksBelow ==
  \A b \in bigBlocks :
    b \in Nat /\ b + BigBlockSize <= mBumpPtr /\ b + BigBlockSize <= mBlockAllocPtr

IInv == Pointers /\ InUse /\ FreeList /\ InUseIsNotFree /\ BlocksBelow

-----------------------------------------------------------------------------
(* Sequences                                                               *)

\* RemoveAt of SequencesExt, index by index.
LEMMA RemoveAtIs ==
  ASSUME NEW S, NEW s \in Seq(S), NEW i \in 1..Len(s)
  PROVE  /\ RemoveAt(s, i) \in Seq(S)
         /\ Len(RemoveAt(s, i)) = Len(s) - 1
         /\ \A j \in 1..(Len(s) - 1) :
              RemoveAt(s, i)[j] = IF j < i THEN s[j] ELSE s[j + 1]
<1> DEFINE a == SubSeq(s, 1, i - 1)
           b == SubSeq(s, i + 1, Len(s))
<1>1. Len(s) \in Nat /\ \A j \in 1..Len(s) : s[j] \in S
  BY LenProperties
<1>2. /\ a \in Seq(S) /\ Len(a) = i - 1
      /\ \A j \in 1..(i - 1) : a[j] = s[j]
  <2>1. \A j \in 1..(i - 1) : s[j] \in S
    BY <1>1
  <2>2. /\ a \in Seq(S) /\ Len(a) = IF 1 <= i - 1 THEN (i - 1) - 1 + 1 ELSE 0
        /\ \A j \in 1..((i - 1) - 1 + 1) : a[j] = s[1 + j - 1]
    BY <2>1, <1>1, SubSeqProperties
  <2> QED BY <2>2, <1>1
<1>3. /\ b \in Seq(S) /\ Len(b) = Len(s) - i
      /\ \A j \in 1..(Len(s) - i) : b[j] = s[i + j]
  <2>1. \A j \in (i + 1)..Len(s) : s[j] \in S
    BY <1>1
  <2>2. /\ b \in Seq(S) /\ Len(b) = IF i + 1 <= Len(s) THEN Len(s) - (i + 1) + 1 ELSE 0
        /\ \A j \in 1..(Len(s) - (i + 1) + 1) : b[j] = s[(i + 1) + j - 1]
    BY <2>1, <1>1, SubSeqProperties
  <2> QED BY <2>2, <1>1
<1>4. RemoveAt(s, i) = a \o b
  BY DEF RemoveAt
<1> HIDE DEF a, b
<1>5. /\ a \o b \in Seq(S) /\ Len(a \o b) = Len(a) + Len(b)
      /\ \A j \in 1..(Len(a) + Len(b)) :
           (a \o b)[j] = IF j <= Len(a) THEN a[j] ELSE b[j - Len(a)]
  BY <1>2, <1>3, ConcatProperties
<1>6. ASSUME NEW j \in 1..(Len(s) - 1)
      PROVE  (a \o b)[j] = IF j < i THEN s[j] ELSE s[j + 1]
  <2>1. CASE j < i
    BY <2>1, <1>1, <1>2, <1>3, <1>5
  <2>2. CASE j >= i
    <3>1. (a \o b)[j] = b[j - (i - 1)]
      BY <2>2, <1>1, <1>2, <1>3, <1>5
    <3>2. b[j - (i - 1)] = s[i + (j - (i - 1))]
      BY <2>2, <1>1, <1>3
    <3> QED BY <3>1, <3>2, <2>2, <1>1
  <2>3. j < i \/ j >= i
    BY <1>1
  <2> QED BY <2>1, <2>2, <2>3
<1>7. a \o b \in Seq(S) /\ Len(a \o b) = Len(s) - 1
  BY <1>1, <1>2, <1>3, <1>5
<1> QED BY <1>4, <1>6, <1>7

\* InsertAt of SequencesExt, index by index.
LEMMA InsertAtIs ==
  ASSUME NEW S, NEW s \in Seq(S), NEW i \in 1..(Len(s) + 1), NEW e \in S
  PROVE  /\ InsertAt(s, i, e) \in Seq(S)
         /\ Len(InsertAt(s, i, e)) = Len(s) + 1
         /\ \A j \in 1..(Len(s) + 1) :
              InsertAt(s, i, e)[j] = IF j < i THEN s[j] ELSE IF j = i THEN e ELSE s[j - 1]
<1> DEFINE a == SubSeq(s, 1, i - 1)
           b == SubSeq(s, i, Len(s))
           m == <<e>>
<1>1. Len(s) \in Nat /\ \A j \in 1..Len(s) : s[j] \in S
  BY LenProperties
<1>2. /\ a \in Seq(S) /\ Len(a) = i - 1
      /\ \A j \in 1..(i - 1) : a[j] = s[j]
  <2>1. \A j \in 1..(i - 1) : s[j] \in S
    BY <1>1
  <2>2. /\ a \in Seq(S) /\ Len(a) = IF 1 <= i - 1 THEN (i - 1) - 1 + 1 ELSE 0
        /\ \A j \in 1..((i - 1) - 1 + 1) : a[j] = s[1 + j - 1]
    BY <2>1, <1>1, SubSeqProperties
  <2> QED BY <2>2, <1>1
<1>3. /\ b \in Seq(S) /\ Len(b) = Len(s) - i + 1
      /\ \A j \in 1..(Len(s) - i + 1) : b[j] = s[i + j - 1]
  <2>1. \A j \in i..Len(s) : s[j] \in S
    BY <1>1
  <2>2. /\ b \in Seq(S) /\ Len(b) = IF i <= Len(s) THEN Len(s) - i + 1 ELSE 0
        /\ \A j \in 1..(Len(s) - i + 1) : b[j] = s[i + j - 1]
    BY <2>1, <1>1, SubSeqProperties
  <2> QED BY <2>2, <1>1
<1>4. m \in Seq(S) /\ Len(m) = 1 /\ m[1] = e
  OBVIOUS
<1>5. InsertAt(s, i, e) = (a \o m) \o b
  BY DEF InsertAt
<1> HIDE DEF a, b, m
<1>6. /\ a \o m \in Seq(S) /\ Len(a \o m) = i
      /\ \A j \in 1..i : (a \o m)[j] = IF j < i THEN s[j] ELSE e
  <2>1. /\ a \o m \in Seq(S) /\ Len(a \o m) = Len(a) + Len(m)
        /\ \A j \in 1..(Len(a) + Len(m)) :
             (a \o m)[j] = IF j <= Len(a) THEN a[j] ELSE m[j - Len(a)]
    BY <1>2, <1>4, ConcatProperties
  <2> QED BY <2>1, <1>1, <1>2, <1>4
<1> DEFINE am == a \o m
<1> HIDE DEF am
<1>7. /\ am \in Seq(S) /\ Len(am) = i
      /\ \A j \in 1..i : am[j] = IF j < i THEN s[j] ELSE e
  BY <1>6 DEF am
<1>8. /\ am \o b \in Seq(S) /\ Len(am \o b) = Len(am) + Len(b)
      /\ \A j \in 1..(Len(am) + Len(b)) :
           (am \o b)[j] = IF j <= Len(am) THEN am[j] ELSE b[j - Len(am)]
  BY <1>3, <1>7, ConcatProperties
<1>9. ASSUME NEW j \in 1..(Len(s) + 1)
      PROVE  (am \o b)[j] = IF j < i THEN s[j] ELSE IF j = i THEN e ELSE s[j - 1]
  <2>1. CASE j <= i
    BY <2>1, <1>1, <1>3, <1>7, <1>8
  <2>2. CASE j > i
    <3>1. (am \o b)[j] = b[j - i]
      BY <2>2, <1>1, <1>3, <1>7, <1>8
    <3>2. b[j - i] = s[i + (j - i) - 1]
      BY <2>2, <1>1, <1>3
    <3> QED BY <3>1, <3>2, <2>2, <1>1
  <2>3. j <= i \/ j > i
    BY <1>1
  <2> QED BY <2>1, <2>2, <2>3
<1>10. am \o b \in Seq(S) /\ Len(am \o b) = Len(s) + 1
  BY <1>1, <1>3, <1>7, <1>8
<1> QED BY <1>5, <1>9, <1>10 DEF am

-----------------------------------------------------------------------------
(* The list of free chunks                                                 *)

\* The chunk that a and its right neighbour b become.
Joined(a, b) == [addr |-> a.addr, size |-> a.size + Header + b.size]

Touch(s, k) == k \in 1..(Len(s) - 1) /\ End(s[k]) = s[k + 1].addr

LEMMA EndIs ==
  ASSUME NEW c \in ChunkRecord
  PROVE  /\ c.addr \in Nat /\ c.size \in Nat /\ End(c) \in Nat
         /\ End(c) = c.addr + 1 + c.size /\ c.addr < End(c)
<1>1. c.addr \in Nat /\ c.size \in Nat
  BY DEF ChunkRecord
<1>2. End(c) = c.addr + 1 + c.size
  BY DEF End, Header
<1> QED BY <1>1, <1>2

LEMMA JoinedIs ==
  ASSUME NEW a \in ChunkRecord, NEW b \in ChunkRecord, End(a) = b.addr
  PROVE  /\ Joined(a, b) \in ChunkRecord
         /\ Joined(a, b).addr = a.addr
         /\ End(Joined(a, b)) = End(b)
<1>1. a.addr \in Nat /\ a.size \in Nat /\ b.addr \in Nat /\ b.size \in Nat
  BY DEF ChunkRecord
<1>2. Joined(a, b) \in ChunkRecord
  BY <1>1 DEF ChunkRecord, Joined, Header
<1>3. Joined(a, b).addr = a.addr /\ Joined(a, b).size = a.size + Header + b.size
  BY DEF Joined
<1>4. End(Joined(a, b)) = a.addr + Header + (a.size + Header + b.size)
  BY <1>3 DEF End
<1>5. a.addr + Header + a.size = b.addr
  BY DEF End
<1>6. End(b) = b.addr + Header + b.size
  BY DEF End
<1> QED BY <1>1, <1>2, <1>3, <1>4, <1>5, <1>6 DEF Header

\* What the merge of two neighbours (deallocateLarge) makes of the list.
LEMMA MergeAtIs ==
  ASSUME NEW s \in Seq(ChunkRecord), NEW k \in Int
  PROVE  /\ MergeAt(s, k) \in Seq(ChunkRecord)
         /\ ~Touch(s, k) => MergeAt(s, k) = s
         /\ Touch(s, k) =>
              /\ Len(MergeAt(s, k)) = Len(s) - 1
              /\ \A j \in 1..(Len(s) - 1) :
                   MergeAt(s, k)[j] = IF j < k THEN s[j]
                                      ELSE IF j = k THEN Joined(s[k], s[k + 1]) ELSE s[j + 1]
<1>1. Len(s) \in Nat /\ \A j \in 1..Len(s) : s[j] \in ChunkRecord
  BY LenProperties
<1>2. CASE ~Touch(s, k)
  BY <1>2 DEF MergeAt, Touch
<1>3. CASE Touch(s, k)
  <2> DEFINE t == [s EXCEPT ![k] = Joined(s[k], s[k + 1])]
  <2>1. k \in 1..Len(s) /\ k + 1 \in 1..Len(s)
    BY <1>1, <1>3 DEF Touch
  <2>2. Joined(s[k], s[k + 1]) \in ChunkRecord
    BY <1>1, <2>1 DEF ChunkRecord, Joined, Header
  <2>3. [s EXCEPT ![k].size = @ + Header + s[k + 1].size] = t
    <3>1. s[k] \in ChunkRecord
      BY <1>1, <2>1
    <3>2. [s[k] EXCEPT !.size = @ + Header + s[k + 1].size] = Joined(s[k], s[k + 1])
      BY <3>1, SMTT(30) DEF ChunkRecord, Joined
    <3> QED BY <3>2
  <2>4. /\ t \in Seq(ChunkRecord) /\ Len(t) = Len(s)
        /\ \A j \in 1..Len(s) : t[j] = IF j = k THEN Joined(s[k], s[k + 1]) ELSE s[j]
    BY <2>1, <2>2, ExceptSeq
  <2>5. MergeAt(s, k) = RemoveAt(t, k + 1)
    BY <1>3, <2>3 DEF MergeAt, Touch
  <2> HIDE DEF t
  <2>6. /\ RemoveAt(t, k + 1) \in Seq(ChunkRecord)
        /\ Len(RemoveAt(t, k + 1)) = Len(t) - 1
        /\ \A j \in 1..(Len(t) - 1) :
             RemoveAt(t, k + 1)[j] = IF j < k + 1 THEN t[j] ELSE t[j + 1]
    BY <2>1, <2>4, RemoveAtIs
  <2>7. ASSUME NEW j \in 1..(Len(s) - 1)
        PROVE  MergeAt(s, k)[j] = IF j < k THEN s[j]
                                  ELSE IF j = k THEN Joined(s[k], s[k + 1]) ELSE s[j + 1]
    <3>1. MergeAt(s, k)[j] = IF j < k + 1 THEN t[j] ELSE t[j + 1]
      BY <2>4, <2>5, <2>6
    <3>2. /\ j \in 1..Len(s) /\ j + 1 \in 1..Len(s)
      BY <1>1
    <3> QED BY <3>1, <3>2, <2>4, <2>1, <1>1
  <2>8. MergeAt(s, k) \in Seq(ChunkRecord) /\ Len(MergeAt(s, k)) = Len(s) - 1
    BY <2>4, <2>5, <2>6
  <2> QED BY <1>3, <2>7, <2>8
<1> QED BY <1>2, <1>3

\* A merge leaves the order alone and one touching pair less.
LEMMA MergeAtSorted ==
  ASSUME NEW s \in Seq(ChunkRecord), NEW k \in Int
  PROVE  /\ \A K : SortedBut(s, K) /\ ~Touch(s, k) => SortedBut(MergeAt(s, k), K \ {k})
         /\ SortedBut(s, {k}) /\ Touch(s, k) => SortedBut(MergeAt(s, k), {})
         /\ SortedBut(s, {k, k + 1}) /\ Touch(s, k) => SortedBut(MergeAt(s, k), {k})
<1> DEFINE t == MergeAt(s, k)
<1>1. Len(s) \in Nat /\ \A j \in 1..Len(s) : s[j] \in ChunkRecord
  BY LenProperties
<1>2. ASSUME NEW K, SortedBut(s, K), ~Touch(s, k)
      PROVE  SortedBut(MergeAt(s, k), K \ {k})
  <2>1. MergeAt(s, k) = s
    BY <1>2, MergeAtIs
  <2>2. \A i, j \in 1..Len(s) : i < j /\ End(s[i]) = s[j].addr => i # k
    BY <1>1, <1>2 DEF SortedBut, Touch
  <2> QED BY <1>1, <1>2, <2>1, <2>2 DEF SortedBut
<1>3. ASSUME NEW m \in {{k}, {k, k + 1}}, SortedBut(s, m), Touch(s, k)
      PROVE  SortedBut(t, IF m = {k} THEN {} ELSE {k})
  <2>1. /\ t \in Seq(ChunkRecord) /\ Len(t) = Len(s) - 1
        /\ \A j \in 1..(Len(s) - 1) :
             t[j] = IF j < k THEN s[j] ELSE IF j = k THEN Joined(s[k], s[k + 1]) ELSE s[j + 1]
    BY <1>3, MergeAtIs
  <2>2. k \in 1..(Len(s) - 1)
    BY <1>3 DEF Touch
  <2> HIDE DEF t
  <2> DEFINE from(j) == IF j <= k THEN j ELSE j + 1
             to(j) == IF j < k THEN j ELSE j + 1
  <2>3. \A j \in 1..(Len(s) - 1) :
          /\ from(j) \in 1..Len(s) /\ to(j) \in 1..Len(s)
          /\ t[j].addr = s[from(j)].addr
          /\ End(t[j]) = End(s[to(j)])
    <3> TAKE j \in 1..(Len(s) - 1)
    <3>1. from(j) \in 1..Len(s) /\ to(j) \in 1..Len(s)
      BY <1>1, <2>2
    <3>2. CASE j # k
      BY <3>1, <3>2, <1>1, <2>1, <2>2
    <3>3. CASE j = k
      <4>1. t[j] = Joined(s[k], s[k + 1])
        BY <3>3, <2>1, <2>2
      <4>2. s[k] \in ChunkRecord /\ s[k + 1] \in ChunkRecord /\ End(s[k]) = s[k + 1].addr
        BY <1>1, <2>2, <1>3 DEF Touch
      <4>3. End(Joined(s[k], s[k + 1])) = End(s[k + 1]) /\ Joined(s[k], s[k + 1]).addr = s[k].addr
        BY <4>2, JoinedIs
      <4>4. from(j) = k /\ to(j) = k + 1
        BY <3>3, <2>2
      <4> QED BY <3>1, <4>1, <4>3, <4>4
    <3> QED BY <3>2, <3>3
  <2>4. ASSUME NEW i \in 1..(Len(s) - 1), NEW j \in 1..(Len(s) - 1), i < j
        PROVE  /\ End(t[i]) <= t[j].addr
               /\ End(t[i]) = t[j].addr => j = i + 1 /\ i \in (IF m = {k} THEN {} ELSE {k})
    <3>1. to(i) < from(j)
      BY <2>2, <2>4, <1>1
    <3>2. /\ End(s[to(i)]) <= s[from(j)].addr
          /\ End(s[to(i)]) = s[from(j)].addr => from(j) = to(i) + 1 /\ to(i) \in m
      BY <2>3, <3>1, <1>3 DEF SortedBut
    <3>3. to(i) \in m /\ from(j) = to(i) + 1 => j = i + 1 /\ i = k /\ m # {k}
      BY <2>2, <2>4, <1>1
    <3> QED BY <3>2, <3>3, <2>3
  <2> QED BY <2>1, <2>4 DEF SortedBut
<1>4. {k} # {k, k + 1}
  OBVIOUS
<1>5. SortedBut(s, {k}) /\ Touch(s, k) => SortedBut(t, {})
  BY <1>3
<1>6. SortedBut(s, {k, k + 1}) /\ Touch(s, k) => SortedBut(t, {k})
  BY <1>3, <1>4
<1>7. \A K : SortedBut(s, K) /\ ~Touch(s, k) => SortedBut(MergeAt(s, k), K \ {k})
  BY <1>2
<1> QED BY <1>5, <1>6, <1>7

\* Closed under the merge of chunks that touch.
MergeClosed(G) == \A a, b \in G : End(a) = b.addr => Joined(a, b) \in G

\* A merge neither loses nor adds a word, and keeps what merging keeps.
LEMMA MergeAtCovers ==
  ASSUME NEW s \in Seq(ChunkRecord), NEW k \in Int
  PROVE  /\ Covered(MergeAt(s, k)) = Covered(s)
         /\ \A G : MergeClosed(G) /\ (\A j \in 1..Len(s) : s[j] \in G)
                     => \A j \in 1..Len(MergeAt(s, k)) : MergeAt(s, k)[j] \in G
<1> DEFINE t == MergeAt(s, k)
<1>1. Len(s) \in Nat /\ \A j \in 1..Len(s) : s[j] \in ChunkRecord
  BY LenProperties
<1>2. CASE ~Touch(s, k)
  BY <1>2, MergeAtIs
<1>3. CASE Touch(s, k)
  <2>1. /\ Len(t) = Len(s) - 1
        /\ \A j \in 1..(Len(s) - 1) :
             t[j] = IF j < k THEN s[j] ELSE IF j = k THEN Joined(s[k], s[k + 1]) ELSE s[j + 1]
    BY <1>3, MergeAtIs
  <2>2. k \in 1..(Len(s) - 1) /\ k \in 1..Len(s) /\ k + 1 \in 1..Len(s)
    BY <1>1, <1>3 DEF Touch
  <2>3. s[k] \in ChunkRecord /\ s[k + 1] \in ChunkRecord /\ End(s[k]) = s[k + 1].addr
    BY <1>1, <2>2, <1>3 DEF Touch
  <2> HIDE DEF t
  <2>4. Extent(Joined(s[k], s[k + 1])) = Extent(s[k]) \cup Extent(s[k + 1])
    <3> DEFINE a == s[k]
               b == s[k + 1]
               ab == Joined(a, b)
    <3>1. ab.addr = a.addr /\ End(ab) = End(b) /\ End(a) = b.addr
      BY <2>3, JoinedIs
    <3>2. a.addr \in Nat /\ a.size \in Nat /\ b.addr \in Nat /\ b.size \in Nat
      BY <2>3 DEF ChunkRecord
    <3>3. a.addr < End(a) /\ b.addr < End(b) /\ End(a) \in Nat /\ End(b) \in Nat
      BY <2>3, EndIs
    <3> HIDE DEF a, b, ab
    <3>4. Extent(ab) = Extent(a) \cup Extent(b)
      BY <3>1, <3>2, <3>3 DEF Extent
    <3> QED BY <3>4 DEF a, b, ab
  <2>5. ASSUME NEW w
        PROVE  (\E j \in 1..Len(t) : w \in Extent(t[j])) <=> (\E j \in 1..Len(s) : w \in Extent(s[j]))
    <3>1. ASSUME NEW j \in 1..Len(t), w \in Extent(t[j])
          PROVE  \E i \in 1..Len(s) : w \in Extent(s[i])
      <4>1. CASE j < k
        <5>1. j \in 1..Len(s) /\ t[j] = s[j]
          BY <4>1, <2>1, <2>2, <1>1
        <5> QED BY <5>1, <3>1
      <4>2. CASE j = k
        BY <4>2, <3>1, <2>1, <2>2, <2>4
      <4>3. CASE j > k
        <5>1. j + 1 \in 1..Len(s) /\ t[j] = s[j + 1]
          BY <4>3, <2>1, <2>2, <1>1
        <5> QED BY <5>1, <3>1
      <4> QED BY <4>1, <4>2, <4>3, <2>1, <2>2
    <3>2. ASSUME NEW i \in 1..Len(s), w \in Extent(s[i])
          PROVE  \E j \in 1..Len(t) : w \in Extent(t[j])
      <4>1. CASE i < k
        <5>1. i \in 1..Len(t) /\ t[i] = s[i]
          BY <4>1, <2>1, <2>2, <1>1
        <5> QED BY <5>1, <3>2
      <4>2. CASE i \in {k, k + 1}
        <5>1. k \in 1..Len(t) /\ t[k] = Joined(s[k], s[k + 1])
          BY <2>1, <2>2, <1>1
        <5> QED BY <5>1, <4>2, <3>2, <2>4
      <4>3. CASE i > k + 1
        <5>1. i - 1 \in 1..Len(t) /\ t[i - 1] = s[i]
          BY <4>3, <2>1, <2>2, <1>1
        <5> QED BY <5>1, <3>2
      <4> QED BY <4>1, <4>2, <4>3, <2>2, <1>1
    <3> QED BY <3>1, <3>2
  <2>6. Covered(t) = Covered(s)
    BY <2>5 DEF Covered
  <2>7. ASSUME NEW G, MergeClosed(G), \A j \in 1..Len(s) : s[j] \in G, NEW j \in 1..Len(t)
        PROVE  t[j] \in G
    <3>1. Joined(s[k], s[k + 1]) \in G
      BY <2>7, <2>2, <2>3 DEF MergeClosed
    <3>2. j # k => \E i \in 1..Len(s) : t[j] = s[i]
      BY <2>1, <2>2, <1>1
    <3>3. j = k => t[j] = Joined(s[k], s[k + 1])
      BY <2>1, <2>2
    <3> QED BY <3>1, <3>2, <3>3, <2>7
  <2>8. \A G : MergeClosed(G) /\ (\A j \in 1..Len(s) : s[j] \in G)
                 => \A j \in 1..Len(t) : t[j] \in G
    BY <2>7
  <2> QED BY <2>6, <2>8 DEF t
<1> QED BY <1>2, <1>3

\* The merges of deallocateLarge around the chunk at i: afterwards no two
\* neighbours touch.
LEMMA MergeIs ==
  ASSUME NEW s \in Seq(ChunkRecord), NEW i \in 1..Len(s), SortedBut(s, {i - 1, i})
  PROVE  /\ Merge(s, i) \in Seq(ChunkRecord)
         /\ SortedBut(Merge(s, i), {})
         /\ Covered(Merge(s, i)) = Covered(s)
         /\ \A G : MergeClosed(G) /\ (\A j \in 1..Len(s) : s[j] \in G)
                     => \A j \in 1..Len(Merge(s, i)) : Merge(s, i)[j] \in G
<1> DEFINE t == MergeAt(s, i - 1)
           k == IF Touch(s, i - 1) THEN i - 1 ELSE i
<1>1. Len(s) \in Nat /\ i \in Int /\ i - 1 \in Int
  OBVIOUS
<1>2. /\ t \in Seq(ChunkRecord) /\ Covered(t) = Covered(s)
      /\ \A G : MergeClosed(G) /\ (\A j \in 1..Len(s) : s[j] \in G)
                  => \A j \in 1..Len(t) : t[j] \in G
  BY <1>1, MergeAtIs, MergeAtCovers
<1>3. Len(t) < Len(s) <=> Touch(s, i - 1)
  <2>1. Touch(s, i - 1) => Len(t) = Len(s) - 1
    BY <1>1, MergeAtIs
  <2>2. ~Touch(s, i - 1) => t = s
    BY <1>1, MergeAtIs
  <2> QED BY <2>1, <2>2, <1>1
<1>4. SortedBut(t, {k})
  <2>1. CASE Touch(s, i - 1)
    <3>1. {i - 1, i} = {i - 1, (i - 1) + 1}
      BY <1>1
    <3>2. SortedBut(s, {i - 1, (i - 1) + 1})
      BY <3>1
    <3> QED BY <2>1, <3>2, <1>1, MergeAtSorted
  <2>2. CASE ~Touch(s, i - 1)
    <3>1. {i - 1, i} \ {i - 1} = {i}
      BY <1>1
    <3>2. SortedBut(t, {i - 1, i} \ {i - 1})
      BY <2>2, <1>1, MergeAtSorted
    <3> QED BY <2>2, <3>1, <3>2
  <2> QED BY <2>1, <2>2
<1>5. Merge(s, i) = MergeAt(t, k)
  BY <1>3 DEF Merge
<1>6. k \in Int
  BY <1>1
<1> HIDE DEF t, k
<1>7. SortedBut(MergeAt(t, k), {})
  <2>1. CASE Touch(t, k)
    BY <2>1, <1>2, <1>4, <1>6, MergeAtSorted
  <2>2. CASE ~Touch(t, k)
    <3>1. SortedBut(MergeAt(t, k), {k} \ {k})
      BY <2>2, <1>2, <1>4, <1>6, MergeAtSorted
    <3>2. {k} \ {k} = {}
      OBVIOUS
    <3> QED BY <3>1, <3>2
  <2> QED BY <2>1, <2>2
<1>8. /\ MergeAt(t, k) \in Seq(ChunkRecord) /\ Covered(MergeAt(t, k)) = Covered(t)
      /\ \A G : MergeClosed(G) /\ (\A j \in 1..Len(t) : t[j] \in G)
                  => \A j \in 1..Len(MergeAt(t, k)) : MergeAt(t, k)[j] \in G
  BY <1>2, <1>6, MergeAtIs, MergeAtCovers
<1> QED BY <1>2, <1>5, <1>7, <1>8

LEMMA SortedIs ==
  ASSUME NEW s \in Seq(ChunkRecord)
  PROVE  SortedBut(s, {}) <=> \A i, j \in 1..Len(s) : i < j => End(s[i]) < s[j].addr
<1>1. \A j \in 1..Len(s) : End(s[j]) \in Nat /\ s[j].addr \in Nat
  BY LenProperties, EndIs
<1> QED BY <1>1 DEF SortedBut

\* A chunk with the place it has in the list between its neighbours.
LEMMA InsertedIsSorted ==
  ASSUME NEW s \in Seq(ChunkRecord), SortedBut(s, {}), NEW c \in ChunkRecord,
         NEW i \in 1..(Len(s) + 1),
         \A j \in 1..(i - 1) : s[j].addr < c.addr,
         \A j \in i..Len(s) : s[j].addr > c.addr,
         \A j \in 1..Len(s) : Apart(c, s[j])
  PROVE  SortedBut(InsertAt(s, i, c), {i - 1, i})
<1> DEFINE t == InsertAt(s, i, c)
<1>1. Len(s) \in Nat /\ \A j \in 1..Len(s) : s[j] \in ChunkRecord
  BY LenProperties
<1>2. \A j \in 1..Len(s) : s[j].addr \in Nat /\ End(s[j]) \in Nat /\ s[j].addr < End(s[j])
  BY <1>1, EndIs
<1>3. c.addr \in Nat /\ End(c) \in Nat /\ c.addr < End(c)
  BY EndIs
<1>4. /\ Len(t) = Len(s) + 1
      /\ \A j \in 1..(Len(s) + 1) :
           t[j] = IF j < i THEN s[j] ELSE IF j = i THEN c ELSE s[j - 1]
  BY InsertAtIs
<1> HIDE DEF t
<1>5. \A j, k \in 1..Len(s) : j < k => End(s[j]) < s[k].addr
  BY SortedIs
<1>6. \A j \in 1..(i - 1) : End(s[j]) <= c.addr
  BY <1>1, <1>2, <1>3, SMTT(30) DEF Apart
<1>7. \A j \in i..Len(s) : End(c) <= s[j].addr
  BY <1>1, <1>2, <1>3 DEF Apart
<1>8. \A j \in 1..(i - 1) : j < i - 1 => End(s[j]) < c.addr
  <2> SUFFICES ASSUME NEW j \in 1..(i - 1), j < i - 1
               PROVE  End(s[j]) < c.addr
    OBVIOUS
  <2>1. i - 1 \in 1..Len(s) /\ j \in 1..Len(s) /\ i - 1 \in 1..(i - 1)
    BY <1>1
  <2>2. End(s[j]) < s[i - 1].addr
    BY <2>1, <1>5
  <2>3. s[i - 1].addr < c.addr
    BY <2>1
  <2> QED BY <2>1, <2>2, <2>3, <1>2, <1>3
<1>9. \A j \in i..Len(s) : j > i => End(c) < s[j].addr
  <2> SUFFICES ASSUME NEW j \in i..Len(s), j > i
               PROVE  End(c) < s[j].addr
    OBVIOUS
  <2>1. i \in 1..Len(s) /\ j \in 1..Len(s) /\ i \in i..Len(s)
    BY <1>1
  <2>2. End(s[i]) < s[j].addr
    BY <2>1, <1>5
  <2>3. End(c) <= s[i].addr
    BY <2>1, <1>7
  <2> QED BY <2>1, <2>2, <2>3, <1>2, <1>3
<1>10. ASSUME NEW j \in 1..Len(t), NEW k \in 1..Len(t), j < k
       PROVE  /\ End(t[j]) <= t[k].addr
              /\ End(t[j]) = t[k].addr => k = j + 1 /\ j \in {i - 1, i}
  <2>1. CASE k < i
    <3>1. t[j] = s[j] /\ j \in 1..Len(s)
      BY <2>1, <1>1, <1>4, <1>10
    <3>2. t[k] = s[k] /\ k \in 1..Len(s)
      BY <2>1, <1>1, <1>4
    <3>3. End(s[j]) < s[k].addr
      BY <3>1, <3>2, <1>5, <1>10
    <3> QED BY <3>1, <3>2, <3>3, <1>2
  <2>2. CASE k = i
    <3>1. t[j] = s[j] /\ t[k] = c /\ j \in 1..Len(s) /\ j \in 1..(i - 1)
      BY <2>2, <1>1, <1>4, <1>10
    <3>2. End(s[j]) <= c.addr /\ (j < i - 1 => End(s[j]) < c.addr)
      BY <3>1, <1>6, <1>8
    <3>3. End(s[j]) = c.addr => j = i - 1
      BY <3>1, <3>2, <1>2, <1>3
    <3> QED BY <3>1, <3>2, <3>3, <2>2
  <2>3. CASE k > i /\ j = i
    <3>0. t[j] = c
      BY <2>3, <1>1, <1>4
    <3>1. t[k] = s[k - 1] /\ k - 1 \in i..Len(s) /\ k - 1 \in 1..Len(s)
      BY <2>3, <1>1, <1>4
    <3>2. End(c) <= s[k - 1].addr /\ (k - 1 > i => End(c) < s[k - 1].addr)
      BY <3>1, <1>7, <1>9
    <3>3. End(c) = s[k - 1].addr => k - 1 = i
      BY <3>1, <3>2, <1>2, <1>3
    <3> QED BY <3>0, <3>1, <3>2, <3>3, <2>3, <1>1, <1>4
  <2>4. CASE k > i /\ j # i
    <3> DEFINE m == IF j < i THEN j ELSE j - 1
    <3>0. t[j] = s[m] /\ m \in 1..Len(s)
      BY <2>4, <1>1, <1>4, <1>10
    <3>1. t[k] = s[k - 1] /\ k - 1 \in 1..Len(s)
      BY <2>4, <1>1, <1>4
    <3>2. m < k - 1
      BY <2>4, <1>1, <1>4, <1>10
    <3> HIDE DEF m
    <3>3. End(s[m]) < s[k - 1].addr
      BY <3>0, <3>1, <3>2, <1>5
    <3>4. End(t[j]) < t[k].addr /\ End(t[j]) \in Nat /\ t[k].addr \in Nat
      BY <3>0, <3>1, <3>3, <1>2
    <3> QED BY <3>4
  <2>5. k < i \/ k = i \/ (k > i /\ j = i) \/ (k > i /\ j # i)
    BY <1>1, <1>4
  <2> QED BY <2>1, <2>2, <2>3, <2>4, <2>5
<1> QED BY <1>10 DEF SortedBut, t


-----------------------------------------------------------------------------
(* The steps keep the invariant                                            *)

LEMMA Requests == \A sz \in Request : sz \in Nat /\ sz >= 2
BY PoolAssumption DEF Header, SizeOfLargeChunk

LEMMA Constants == PoolSize \in Nat /\ BigBlockSize \in Nat /\ BigBlockSize > 0
BY PoolAssumption

\* The invariant as numbers: what the steps need of each chunk.
LEMMA Numbers ==
  ASSUME IInv
  PROVE  /\ PoolSize \in Nat /\ mBumpPtr \in Nat /\ mBlockAllocPtr \in Nat
         /\ mBumpPtr <= PoolSize
         /\ \A c \in large : /\ c \in ChunkRecord /\ c.addr \in Nat /\ End(c) \in Nat
                             /\ mBumpPtr <= c.addr /\ c.addr < End(c) /\ End(c) <= PoolSize
         /\ mLargeFreeList \in Seq(ChunkRecord) /\ Len(mLargeFreeList) \in Nat
         /\ DOMAIN mLargeFreeList = 1..Len(mLargeFreeList)
         /\ \A i \in 1..Len(mLargeFreeList) :
              LET c == mLargeFreeList[i]
              IN  /\ c \in ChunkRecord /\ c.addr \in Nat /\ End(c) \in Nat
                  /\ mBumpPtr <= c.addr /\ c.addr < End(c) /\ End(c) <= PoolSize
         /\ \A i, j \in 1..Len(mLargeFreeList) :
              i < j => End(mLargeFreeList[i]) < mLargeFreeList[j].addr
<1>1. PoolSize \in Nat /\ mBumpPtr \in Nat /\ mBlockAllocPtr \in Nat /\ mBumpPtr <= PoolSize
  BY Constants DEF IInv, Pointers
<1>2. \A c \in large : /\ c \in ChunkRecord /\ c.addr \in Nat /\ End(c) \in Nat
                       /\ mBumpPtr <= c.addr /\ c.addr < End(c) /\ End(c) <= PoolSize
  BY EndIs DEF IInv, InUse, InPool
<1>3. /\ mLargeFreeList \in Seq(ChunkRecord) /\ Len(mLargeFreeList) \in Nat
      /\ DOMAIN mLargeFreeList = 1..Len(mLargeFreeList)
      /\ \A i \in 1..Len(mLargeFreeList) : mLargeFreeList[i] \in ChunkRecord
  BY LenProperties DEF IInv, FreeList
<1>4. \A i \in 1..Len(mLargeFreeList) :
        LET c == mLargeFreeList[i]
        IN  /\ c \in ChunkRecord /\ c.addr \in Nat /\ End(c) \in Nat
            /\ mBumpPtr <= c.addr /\ c.addr < End(c) /\ End(c) <= PoolSize
  BY <1>3, EndIs DEF IInv, FreeList, InPool
<1>5. \A i, j \in 1..Len(mLargeFreeList) :
        i < j => End(mLargeFreeList[i]) < mLargeFreeList[j].addr
  BY <1>3, SortedIs DEF IInv, FreeList
<1> QED BY <1>1, <1>2, <1>3, <1>4, <1>5

\* A new chunk in use that is apart from the others in use and in the pool.
LEMMA InUseGrows ==
  ASSUME IInv, NEW n \in ChunkRecord, large' = large \cup {n},
         mBumpPtr' <= n.addr, End(n) <= PoolSize, mBumpPtr' <= mBumpPtr, mBumpPtr' \in Nat,
         \A c \in large : Apart(c, n)
  PROVE  InUse'
<1>1. \A c \in large : c.addr \in Nat /\ mBumpPtr <= c.addr /\ End(c) <= PoolSize
  BY Numbers
<1>2. mBumpPtr \in Nat
  BY Numbers
<1>3. large' \in SUBSET ChunkRecord /\ IsFiniteSet(large')
  BY FS_AddElement DEF IInv, InUse
<1>4. \A c \in large' : InPool(c)'
  BY <1>1, <1>2 DEF InPool
<1>5. \A c, d \in large' : c # d => Apart(c, d)
  BY DEF IInv, InUse, Apart
<1> QED BY <1>3, <1>4, <1>5 DEF InUse, Apart, End

\* What is cut off a free chunk, and what is left of it, when sz words are asked for.
LEMMA Carving ==
  ASSUME NEW c \in ChunkRecord, NEW sz \in Nat, c.size >= sz
  PROVE  LET n == [addr |-> c.addr, size |-> sz]
         IN  /\ n \in ChunkRecord /\ n.addr = c.addr /\ End(n) = c.addr + 1 + sz
             /\ End(n) <= End(c)
             /\ Splits(c, sz) => /\ Split(c, sz) \in ChunkRecord
                                 /\ Split(c, sz).addr = End(n)
                                 /\ End(Split(c, sz)) = End(c)
             /\ ~Splits(c, sz) => End(c) - End(n) <= SizeOfLargeChunk
<1> DEFINE n == [addr |-> c.addr, size |-> sz]
           r == Split(c, sz)
<1>1. c.addr \in Nat /\ c.size \in Nat /\ End(c) = c.addr + 1 + c.size
  BY EndIs
<1>2. n \in ChunkRecord /\ n.addr = c.addr /\ n.size = sz
  BY <1>1 DEF ChunkRecord
<1>3. End(n) = c.addr + 1 + sz
  BY <1>2, EndIs
<1>4. Splits(c, sz) => c.size - sz - 1 \in Nat
  BY <1>1 DEF Splits, SizeOfLargeChunk
<1>5. r.addr = c.addr + 1 + sz /\ r.size = c.size - sz - 1
  BY DEF Split, Header
<1>6. Splits(c, sz) => r \in ChunkRecord
  BY <1>1, <1>4 DEF Split, Header, ChunkRecord
<1>7. Splits(c, sz) => End(r) = r.addr + 1 + r.size
  BY <1>6, EndIs
<1> HIDE DEF n, r
<1>8. Splits(c, sz) => End(r) = End(c)
  BY <1>1, <1>5, <1>7
<1>9. ~Splits(c, sz) => c.size - sz <= SizeOfLargeChunk
  BY <1>1 DEF Splits, SizeOfLargeChunk
<1>10. ~Splits(c, sz) => End(c) - End(n) <= SizeOfLargeChunk
  BY <1>1, <1>3, <1>9
<1>11. End(n) <= End(c)
  BY <1>1, <1>3
<1> QED BY <1>2, <1>3, <1>5, <1>6, <1>8, <1>10, <1>11 DEF n, r

\* allocateLarge leaves a list whose chunks end where they did, in the old order,
\* and begin where they did or behind the new chunk n.
Carved(s, t, i, n, f) ==
  /\ f \in [1..Len(t) -> 1..Len(s)]
  /\ \A j, k \in 1..Len(t) : j < k => f[j] < f[k]
  /\ \A j \in 1..Len(t) :
       /\ End(t[j]) = End(s[f[j]])
       /\ f[j] # i => t[j].addr = s[f[j]].addr
       /\ f[j] = i => t[j].addr = End(n)

LEMMA FromFreeListCarves ==
  ASSUME IInv, NEW sz \in Request, NEW i \in 1..Len(mLargeFreeList), FromFreeList(sz, i)
  PROVE  LET c == mLargeFreeList[i]
             n == [addr |-> c.addr, size |-> sz]
         IN  /\ mLargeFreeList' \in Seq(ChunkRecord)
             /\ \E f : Carved(mLargeFreeList, mLargeFreeList', i, n, f)
<1> DEFINE s == mLargeFreeList
           t == mLargeFreeList'
           c == s[i]
           n == [addr |-> c.addr, size |-> sz]
<1>1. s \in Seq(ChunkRecord) /\ Len(s) \in Nat /\ \A j \in 1..Len(s) : s[j] \in ChunkRecord
  BY Numbers
<1>2. sz \in Nat /\ c.size >= sz /\ c \in ChunkRecord
  BY <1>1, Requests DEF FromFreeList
<1>3. t = IF Splits(c, sz) THEN [s EXCEPT ![i] = Split(c, sz)] ELSE RemoveAt(s, i)
  BY DEF FromFreeList
<1>4. /\ Splits(c, sz) => /\ Split(c, sz) \in ChunkRecord
                          /\ Split(c, sz).addr = End(n)
                          /\ End(Split(c, sz)) = End(c)
  BY <1>2, Carving
<1>5. CASE Splits(c, sz)
  <2>1. /\ t \in Seq(ChunkRecord) /\ Len(t) = Len(s)
        /\ \A j \in 1..Len(s) : t[j] = IF j = i THEN Split(c, sz) ELSE s[j]
    BY <1>1, <1>3, <1>4, <1>5, ExceptSeq
  <2> DEFINE f == [j \in 1..Len(s) |-> j]
  <2>2. f \in [1..Len(t) -> 1..Len(s)] /\ \A j \in 1..Len(t) : f[j] = j
    BY <2>1
  <2> HIDE DEF f, s, t, c, n
  <2>3. \A j \in 1..Len(t) : /\ End(t[j]) = End(s[j])
                             /\ j # i => t[j].addr = s[j].addr
                             /\ j = i => t[j].addr = End(n)
    BY <2>1, <1>4, <1>5 DEF c
  <2>4. Carved(s, t, i, n, f)
    BY <2>2, <2>3 DEF Carved
  <2> QED BY <2>1, <2>4 DEF s, t, c, n
<1>6. CASE ~Splits(c, sz)
  <2>1. /\ t \in Seq(ChunkRecord) /\ Len(t) = Len(s) - 1
        /\ \A j \in 1..(Len(s) - 1) : t[j] = IF j < i THEN s[j] ELSE s[j + 1]
    BY <1>1, <1>3, <1>6, RemoveAtIs
  <2> DEFINE f == [j \in 1..(Len(s) - 1) |-> IF j < i THEN j ELSE j + 1]
  <2> HIDE DEF s, t, c, n
  <2>2. f \in [1..Len(t) -> 1..Len(s)]
    BY <2>1, <1>1
  <2>3. \A j \in 1..Len(t) : f[j] = (IF j < i THEN j ELSE j + 1) /\ t[j] = s[f[j]]
    BY <2>1
  <2> HIDE DEF f
  <2>4. \A j \in 1..Len(t) : f[j] # i
    BY <2>1, <2>3, <1>1
  <2>5. \A j, k \in 1..Len(t) : j < k => f[j] < f[k]
    BY <2>1, <2>3, <1>1
  <2>6. Carved(s, t, i, n, f)
    BY <2>2, <2>3, <2>4, <2>5 DEF Carved
  <2> QED BY <2>1, <2>6 DEF s, t, c, n
<1> QED BY <1>5, <1>6

LEMMA FromFreeListKeeps ==
  ASSUME IInv, NEW sz \in Request, NEW i \in 1..Len(mLargeFreeList), FromFreeList(sz, i)
  PROVE  IInv'
<1> DEFINE s == mLargeFreeList
           t == mLargeFreeList'
           c == s[i]
           n == [addr |-> c.addr, size |-> sz]
<1>1. /\ large' = large \cup {n}
      /\ mBlockAllocPtr' = mBlockAllocPtr /\ mBumpPtr' = mBumpPtr /\ bigBlocks' = bigBlocks
      /\ c.size >= sz
  BY DEF FromFreeList
<1>2. /\ t \in Seq(ChunkRecord)
      /\ \E f : Carved(s, t, i, n, f)
  BY FromFreeListCarves
<1>3. PICK f : Carved(s, t, i, n, f)
  BY <1>2
<1>4. c \in ChunkRecord /\ sz \in Nat
  BY Numbers, Requests
<1>5. n \in ChunkRecord /\ n.addr = c.addr /\ End(n) <= End(c)
  BY <1>1, <1>4, Carving
<1>6. \A j \in 1..Len(s) : /\ s[j].addr \in Nat /\ End(s[j]) \in Nat
                           /\ mBumpPtr <= s[j].addr /\ s[j].addr < End(s[j]) /\ End(s[j]) <= PoolSize
  BY Numbers
<1>7. \A j, k \in 1..Len(s) : j < k => End(s[j]) < s[k].addr
  BY Numbers
<1>8. /\ Len(t) \in Nat
      /\ \A j \in 1..Len(t) : t[j] \in ChunkRecord
      /\ \A j \in 1..Len(t) : t[j].addr \in Nat /\ End(t[j]) \in Nat
  BY <1>2, LenProperties, EndIs
<1>9. End(n) \in Nat /\ n.addr < End(n)
  BY <1>5, EndIs
<1>10. mBumpPtr \in Nat /\ PoolSize \in Nat /\ Len(s) \in Nat
  BY Numbers
<1>11. \A d \in large : \A j \in 1..Len(s) : Apart(d, s[j])
  BY DEF IInv, InUseIsNotFree
<1>12. \A d \in large : d.addr \in Nat /\ End(d) \in Nat
  BY Numbers
<1>20. i \in 1..Len(s) /\ c = s[i]
  OBVIOUS
<1>21. /\ c.addr \in Nat /\ End(c) \in Nat
       /\ mBumpPtr <= c.addr /\ c.addr < End(c) /\ End(c) <= PoolSize
  BY <1>6
<1> HIDE DEF s, t, c, n
<1>13. ASSUME NEW j \in 1..Len(t)
       PROVE  /\ f[j] \in 1..Len(s) /\ End(t[j]) = End(s[f[j]]) /\ t[j].addr >= s[f[j]].addr
              /\ f[j] = i => t[j].addr = End(n)
              /\ f[j] # i => t[j].addr = s[f[j]].addr
  <2>1. f[j] \in 1..Len(s) /\ End(t[j]) = End(s[f[j]])
    BY <1>3 DEF Carved
  <2>2. CASE f[j] # i
    BY <2>1, <2>2, <1>3, <1>6 DEF Carved
  <2>3. CASE f[j] = i
    <3>1. t[j].addr = End(n)
      BY <2>3, <1>3 DEF Carved
    <3>2. t[j].addr >= c.addr
      BY <3>1, <1>5, <1>9, <1>21
    <3>3. s[f[j]] = c
      BY <2>3, <1>20
    <3> QED BY <2>1, <2>3, <3>1, <3>2, <3>3
  <2> QED BY <2>2, <2>3
<1>14. Pointers'
  BY <1>1 DEF IInv, Pointers
<1>15. InUse'
  <2>1. ASSUME NEW d \in large
        PROVE  Apart(d, n)
    <3>1. Apart(d, c)
      BY <1>11, <1>20
    <3> QED BY <3>1, <1>5, <1>9, <1>12, <1>21 DEF Apart
  <2>2. mBumpPtr' <= n.addr /\ End(n) <= PoolSize
    BY <1>1, <1>5, <1>9, <1>10, <1>21
  <2>3. mBumpPtr' <= mBumpPtr /\ mBumpPtr' \in Nat
    BY <1>1, <1>10
  <2> QED BY <1>1, <1>5, <2>1, <2>2, <2>3, InUseGrows
<1>16. FreeList'
  <2>1. \A j \in 1..Len(t) : mBumpPtr <= t[j].addr /\ End(t[j]) <= PoolSize
    <3> TAKE j \in 1..Len(t)
    <3>1. /\ f[j] \in 1..Len(s) /\ End(t[j]) = End(s[f[j]]) /\ t[j].addr >= s[f[j]].addr
      BY <1>13
    <3>2. /\ s[f[j]].addr \in Nat /\ mBumpPtr <= s[f[j]].addr /\ End(s[f[j]]) <= PoolSize
      BY <3>1, <1>6
    <3>3. t[j].addr \in Nat
      BY <1>8
    <3> QED BY <3>1, <3>2, <3>3, <1>10, SMTT(30)
  <2>2. ASSUME NEW j \in 1..Len(t), NEW k \in 1..Len(t), j < k
        PROVE  End(t[j]) < t[k].addr
    <3>1. f[j] < f[k]
      BY <1>3, <2>2 DEF Carved
    <3>2. End(s[f[j]]) < s[f[k]].addr
      BY <3>1, <1>7, <1>13
    <3>3. /\ End(t[j]) = End(s[f[j]]) /\ t[k].addr >= s[f[k]].addr
          /\ f[j] \in 1..Len(s) /\ f[k] \in 1..Len(s)
      BY <1>13
    <3>4. /\ End(s[f[j]]) \in Nat /\ s[f[k]].addr \in Nat /\ t[k].addr \in Nat
      BY <3>3, <1>6, <1>8
    <3> QED BY <3>2, <3>3, <3>4, SMTT(30)
  <2>3. SortedBut(t, {})
    BY <1>2, <2>2, SortedIs
  <2> QED BY <1>1, <1>2, <2>1, <2>3 DEF FreeList, InPool, SortedBut, End, t
<1>17. InUseIsNotFree'
  <2>1. ASSUME NEW d \in large, NEW j \in 1..Len(t)
        PROVE  Apart(d, t[j])
    <3>1. Apart(d, s[f[j]])
      BY <1>11, <1>13
    <3>2. /\ f[j] \in 1..Len(s) /\ End(t[j]) = End(s[f[j]]) /\ t[j].addr >= s[f[j]].addr
      BY <1>13
    <3>3. /\ d.addr \in Nat /\ End(d) \in Nat /\ t[j].addr \in Nat
          /\ s[f[j]].addr \in Nat /\ End(s[f[j]]) \in Nat
      BY <3>2, <1>6, <1>8, <1>12
    <3> QED BY <3>1, <3>2, <3>3, SMTT(30) DEF Apart
  <2>2. ASSUME NEW j \in 1..Len(t)
        PROVE  Apart(n, t[j])
    <3>1. CASE f[j] = i
      BY <3>1, <1>8, <1>9, <1>13 DEF Apart
    <3>2. CASE f[j] # i
      <4>1. End(c) < s[f[j]].addr \/ End(s[f[j]]) < c.addr
        <5>1. f[j] \in 1..Len(s)
          BY <1>13
        <5>2. f[j] < i \/ i < f[j]
          BY <5>1, <3>2, <1>10, <1>20
        <5> QED BY <5>1, <5>2, <1>7, <1>20
      <4>2. f[j] \in 1..Len(s) /\ End(t[j]) = End(s[f[j]]) /\ t[j].addr = s[f[j]].addr
        BY <1>13, <3>2
      <4> QED BY <4>1, <4>2, <1>5, <1>6, <1>9, <1>21 DEF Apart
    <3> QED BY <3>1, <3>2
  <2> QED BY <1>1, <2>1, <2>2 DEF InUseIsNotFree, Apart, End, t
<1>18. BlocksBelow'
  BY <1>1 DEF IInv, BlocksBelow
<1> QED BY <1>14, <1>15, <1>16, <1>17, <1>18 DEF IInv

\* Unless the request wraps around, the address is the difference.
LEMMA BumpPtrDoesNotWrap ==
  ASSUME IInv, NEW sz \in Request, FromBumpPtr(sz), ~overrun'
  PROVE  Lowered(sz) = mBumpPtr - sz - Header
<1>1. ~Wraps(sz)
  BY Zenon DEF FromBumpPtr
<1>2. mBumpPtr \in Nat /\ sz \in Nat
  BY Numbers, Requests
<1> QED BY <1>1, <1>2 DEF Lowered, Header

LEMMA FromBumpPtrKeeps ==
  ASSUME IInv, NEW sz \in Request, FromBumpPtr(sz), ~overrun'
  PROVE  IInv'
<1> DEFINE s == mLargeFreeList
           a == mBumpPtr - sz - Header
           n == [addr |-> a, size |-> sz]
<1>1. /\ a >= mBlockAllocPtr
      /\ mBumpPtr' = a /\ large' = large \cup {n}
      /\ mBlockAllocPtr' = mBlockAllocPtr /\ s' = s /\ bigBlocks' = bigBlocks
  <2>1. Lowered(sz) = a
    BY BumpPtrDoesNotWrap
  <2> QED BY <2>1 DEF FromBumpPtr, HasRoom
<1>2. sz \in Nat
  BY Requests
<1>3. mBumpPtr \in Nat /\ mBlockAllocPtr \in Nat /\ PoolSize \in Nat /\ mBumpPtr <= PoolSize
  BY Numbers
<1>4. a \in Nat /\ a < mBumpPtr
  BY <1>1, <1>2, <1>3 DEF Header
<1>5. n \in ChunkRecord /\ n.addr = a /\ n.size = sz
  BY <1>2, <1>4 DEF ChunkRecord
<1>6. End(n) = mBumpPtr
  <2>1. End(n) = a + 1 + sz
    BY <1>5, EndIs
  <2> QED BY <2>1, <1>2, <1>3 DEF Header
<1>7. \A d \in large : d.addr \in Nat /\ mBumpPtr <= d.addr
  BY Numbers
<1>8. \A i \in 1..Len(s) : s[i].addr \in Nat /\ mBumpPtr <= s[i].addr /\ End(s[i]) <= PoolSize
  BY Numbers
<1> HIDE DEF a, n
<1>9. Pointers'
  BY <1>1, <1>3, <1>4 DEF IInv, Pointers
<1>10. InUse'
  <2>1. \A d \in large : Apart(d, n)
    BY <1>6, <1>7 DEF Apart
  <2>2. mBumpPtr' <= n.addr /\ End(n) <= PoolSize /\ mBumpPtr' <= mBumpPtr /\ mBumpPtr' \in Nat
    BY <1>1, <1>3, <1>4, <1>5, <1>6
  <2> QED BY <1>1, <1>5, <2>1, <2>2, InUseGrows
<1>11. FreeList'
  <2>1. \A i \in 1..Len(s) : a <= s[i].addr
    BY <1>3, <1>4, <1>8
  <2>2. /\ s' \in Seq(ChunkRecord) /\ SortedBut(s, {})'
    BY <1>1 DEF IInv, FreeList, SortedBut, End
  <2>3. \A i \in 1..Len(s') : mBumpPtr' <= s'[i].addr /\ End(s'[i]) <= PoolSize
    BY <1>1, <1>8, <2>1 DEF InPool, End
  <2> QED BY <2>2, <2>3 DEF FreeList, InPool, End
<1>12. InUseIsNotFree'
  <2>1. \A i \in 1..Len(s) : Apart(n, s[i])
    BY <1>6, <1>8 DEF Apart
  <2>2. \A d \in large : \A i \in 1..Len(s) : Apart(d, s[i])
    BY DEF IInv, InUseIsNotFree
  <2>3. \A d \in large' : \A i \in 1..Len(s) : Apart(d, s[i])
    BY <2>1, <2>2, <1>1
  <2> QED BY <2>3, <1>1 DEF InUseIsNotFree, Apart, End
<1>13. BlocksBelow'
  <2> SUFFICES ASSUME NEW b \in bigBlocks
               PROVE  b \in Nat /\ b + BigBlockSize <= a /\ b + BigBlockSize <= mBlockAllocPtr
    BY <1>1 DEF BlocksBelow
  <2>1. b \in Nat /\ b + BigBlockSize <= mBlockAllocPtr
    BY DEF IInv, BlocksBelow
  <2> QED BY <2>1, <1>1, <1>3, <1>4, Constants
<1> QED BY <1>9, <1>10, <1>11, <1>12, <1>13 DEF IInv

\* One chunk less in use.
LEMMA InUseShrinks ==
  ASSUME IInv, NEW c \in large, large' = large \ {c},
         \A d \in large \ {c} : mBumpPtr' <= d.addr
  PROVE  InUse'
<1>1. \A d \in large : End(d) <= PoolSize
  BY Numbers
<1>2. large' \in SUBSET ChunkRecord /\ IsFiniteSet(large')
  BY FS_RemoveElement DEF IInv, InUse
<1>3. \A d, e \in large' : d # e => Apart(d, e)
  BY DEF IInv, InUse
<1> QED BY <1>1, <1>2, <1>3 DEF InUse, InPool, Apart, End

\* The front chunk is given back: mBumpPtr moves up.
LEMMA BumpBackKeeps ==
  ASSUME IInv, NEW c \in large, c.addr = mBumpPtr,
         large' = large \ {c}, mBumpPtr' = End(c), mLargeFreeList' = mLargeFreeList,
         mBlockAllocPtr' = mBlockAllocPtr, bigBlocks' = bigBlocks
  PROVE  IInv'
<1> DEFINE s == mLargeFreeList
<1>1. /\ c.addr \in Nat /\ End(c) \in Nat /\ c.addr < End(c) /\ End(c) <= PoolSize
      /\ PoolSize \in Nat /\ mBumpPtr \in Nat
  BY Numbers
<1>2. ASSUME NEW d \in ChunkRecord, Apart(c, d), mBumpPtr <= d.addr
      PROVE  End(c) <= d.addr
  <2>1. d.addr \in Nat /\ End(d) \in Nat /\ d.addr < End(d)
    BY EndIs
  <2> QED BY <2>1, <1>1, <1>2 DEF Apart
<1>3. Pointers'
  BY <1>1 DEF IInv, Pointers
<1>4. InUse'
  <2>1. ASSUME NEW d \in large \ {c}
        PROVE  End(c) <= d.addr
    <3>1. Apart(c, d)
      BY DEF IInv, InUse
    <3>2. d \in ChunkRecord /\ mBumpPtr <= d.addr
      BY Numbers
    <3> QED BY <3>1, <3>2, <1>2
  <2>2. \A d \in large \ {c} : mBumpPtr' <= d.addr
    BY <2>1
  <2> QED BY <2>2, InUseShrinks
<1>5. FreeList'
  <2>1. ASSUME NEW i \in 1..Len(s)
        PROVE  End(c) <= s[i].addr /\ End(s[i]) <= PoolSize
    <3>1. Apart(c, s[i])
      BY DEF IInv, InUseIsNotFree
    <3>2. s[i] \in ChunkRecord /\ mBumpPtr <= s[i].addr /\ End(s[i]) <= PoolSize
      BY Numbers
    <3> QED BY <3>1, <3>2, <1>2
  <2>2. s' \in Seq(ChunkRecord) /\ SortedBut(s, {})'
    BY DEF IInv, FreeList, SortedBut, End
  <2>3. \A i \in 1..Len(s') : mBumpPtr' <= s'[i].addr /\ End(s'[i]) <= PoolSize
    BY <2>1 DEF InPool, End
  <2> QED BY <2>2, <2>3 DEF FreeList, InPool, End
<1>6. InUseIsNotFree'
  BY DEF IInv, InUseIsNotFree, Apart, End
<1>7. BlocksBelow'
  <2> SUFFICES ASSUME NEW b \in bigBlocks
               PROVE  b \in Nat /\ b + BigBlockSize <= End(c) /\ b + BigBlockSize <= mBlockAllocPtr
    BY DEF BlocksBelow
  <2>1. b \in Nat /\ b + BigBlockSize <= mBumpPtr /\ b + BigBlockSize <= mBlockAllocPtr
    BY DEF IInv, BlocksBelow
  <2> QED BY <2>1, <1>1, Constants
<1> QED BY <1>3, <1>4, <1>5, <1>6, <1>7 DEF IInv

\* The chunks that may be free when the chunks U are in use.
FreeBeside(U) == {x \in ChunkRecord : InPool(x) /\ \A d \in U : Apart(d, x)}

LEMMA FreeBesideIsClosed ==
  ASSUME IInv, NEW U \in SUBSET large
  PROVE  MergeClosed(FreeBeside(U))
<1> SUFFICES ASSUME NEW a \in FreeBeside(U), NEW b \in FreeBeside(U), End(a) = b.addr
             PROVE  Joined(a, b) \in FreeBeside(U)
  BY DEF MergeClosed
<1>1. a \in ChunkRecord /\ b \in ChunkRecord
  BY DEF FreeBeside
<1>2. /\ a.addr \in Nat /\ End(a) \in Nat /\ a.addr < End(a)
      /\ b.addr \in Nat /\ End(b) \in Nat /\ b.addr < End(b)
  BY <1>1, EndIs
<1> DEFINE x == Joined(a, b)
<1>3. x \in ChunkRecord /\ x.addr = a.addr /\ End(x) = End(b)
  BY <1>1, JoinedIs
<1> HIDE DEF x
<1>4. InPool(x)
  BY <1>3 DEF InPool, FreeBeside
<1>5. ASSUME NEW d \in U
      PROVE  Apart(d, x)
  <2>1. d.addr \in Nat /\ End(d) \in Nat /\ d.addr < End(d)
    BY Numbers
  <2>2. Apart(d, a) /\ Apart(d, b)
    BY DEF FreeBeside
  <2> QED BY <2>1, <2>2, <1>2, <1>3 DEF Apart
<1> QED BY <1>3, <1>4, <1>5 DEF FreeBeside, x

\* What deallocateLarge makes of the list: c is in its place and merged.
LEMMA InsertMerges ==
  ASSUME IInv, NEW c \in large, NEW i \in 1..(Len(mLargeFreeList) + 1), IsPlaceOf(c, i)
  PROVE  LET s == mLargeFreeList
             t == Merge(InsertAt(s, i, c), i)
         IN  /\ t \in Seq(ChunkRecord)
             /\ SortedBut(t, {})
             /\ Covered(t) = Covered(s) \cup Extent(c)
             /\ \A j \in 1..Len(t) : t[j] \in FreeBeside(large \ {c})
<1> DEFINE s == mLargeFreeList
           u == InsertAt(s, i, c)
           t == Merge(u, i)
           G == FreeBeside(large \ {c})
<1>1. c \in ChunkRecord /\ s \in Seq(ChunkRecord) /\ Len(s) \in Nat
  BY Numbers
<1>2. \A j \in 1..Len(s) : s[j] \in ChunkRecord /\ Apart(c, s[j])
  BY Numbers DEF IInv, InUseIsNotFree
<1>3. /\ u \in Seq(ChunkRecord) /\ Len(u) = Len(s) + 1
      /\ \A j \in 1..(Len(s) + 1) : u[j] = IF j < i THEN s[j] ELSE IF j = i THEN c ELSE s[j - 1]
  BY <1>1, InsertAtIs
<1>4. SortedBut(u, {i - 1, i})
  <2>1. SortedBut(s, {})
    BY DEF IInv, FreeList
  <2>2. /\ \A j \in 1..(i - 1) : s[j].addr < c.addr
        /\ \A j \in i..Len(s) : s[j].addr > c.addr
    BY DEF IsPlaceOf
  <2> QED BY <1>1, <1>2, <2>1, <2>2, InsertedIsSorted
<1> HIDE DEF u
<1>5. i \in 1..Len(u)
  BY <1>1, <1>3
<1>6. /\ t \in Seq(ChunkRecord) /\ SortedBut(t, {}) /\ Covered(t) = Covered(u)
      /\ \A H : MergeClosed(H) /\ (\A j \in 1..Len(u) : u[j] \in H)
                  => \A j \in 1..Len(t) : t[j] \in H
  BY <1>3, <1>4, <1>5, MergeIs
<1>7. MergeClosed(G)
  BY FreeBesideIsClosed
<1>8. c \in G
  BY <1>1 DEF IInv, InUse, FreeBeside
<1>9. \A j \in 1..Len(s) : s[j] \in G
  BY <1>2 DEF IInv, FreeList, InUseIsNotFree, FreeBeside
<1> HIDE DEF G, t, s
<1>10. ASSUME NEW j \in 1..Len(u)
       PROVE  u[j] = c \/ \E k \in 1..Len(s) : u[j] = s[k]
  <2>1. CASE j < i
    <3>1. j \in 1..Len(s) /\ u[j] = s[j]
      BY <2>1, <1>1, <1>3 DEF s
    <3> QED BY <3>1
  <2>2. CASE j = i
    BY <2>2, <1>1, <1>3
  <2>3. CASE j > i
    <3>1. j - 1 \in 1..Len(s) /\ u[j] = s[j - 1]
      BY <2>3, <1>1, <1>3 DEF s
    <3> QED BY <3>1
  <2>4. j < i \/ j = i \/ j > i
    BY <1>5, <1>3, <1>1
  <2> QED BY <2>1, <2>2, <2>3, <2>4
<1>11. \A j \in 1..Len(t) : t[j] \in G
  <2>1. \A j \in 1..Len(u) : u[j] \in G
    BY <1>8, <1>9, <1>10
  <2> QED BY <2>1, <1>6, <1>7
<1>12. Covered(u) = Covered(s) \cup Extent(c)
  <2>1. ASSUME NEW k \in 1..Len(s)
        PROVE  \E j \in 1..Len(u) : u[j] = s[k]
    <3>1. CASE k < i
      <4>1. k \in 1..Len(u) /\ u[k] = s[k]
        BY <3>1, <1>1, <1>3 DEF s
      <4> QED BY <4>1
    <3>2. CASE k >= i
      <4>1. k + 1 \in 1..Len(u) /\ u[k + 1] = s[(k + 1) - 1]
        BY <3>2, <1>1, <1>3 DEF s
      <4>2. (k + 1) - 1 = k
        BY <1>1
      <4> QED BY <4>1, <4>2
    <3>3. k < i \/ k >= i
      BY <1>5, <1>3, <1>1
    <3> QED BY <3>1, <3>2, <3>3
  <2>2. u[i] = c
    BY <1>1, <1>3, <1>5
  <2> QED BY <2>1, <2>2, <1>5, <1>10 DEF Covered
<1> QED BY <1>6, <1>11, <1>12 DEF G, t, u, s

LEMMA InsertKeeps ==
  ASSUME IInv, NEW c \in large, NEW i \in 1..(Len(mLargeFreeList) + 1), IsPlaceOf(c, i),
         mLargeFreeList' = Merge(InsertAt(mLargeFreeList, i, c), i),
         large' = large \ {c}, mBumpPtr' = mBumpPtr,
         mBlockAllocPtr' = mBlockAllocPtr, bigBlocks' = bigBlocks
  PROVE  IInv'
<1> DEFINE t == mLargeFreeList'
<1>1. /\ t \in Seq(ChunkRecord) /\ SortedBut(t, {})
      /\ \A j \in 1..Len(t) : t[j] \in FreeBeside(large \ {c})
  BY InsertMerges
<1>2. Pointers' /\ BlocksBelow'
  BY DEF IInv, Pointers, BlocksBelow
<1>3. InUse'
  <2>1. \A d \in large \ {c} : mBumpPtr' <= d.addr
    BY Numbers
  <2> QED BY <2>1, InUseShrinks
<1>4. FreeList'
  <2>1. \A j \in 1..Len(t) : mBumpPtr' <= t[j].addr /\ End(t[j]) <= PoolSize
    BY <1>1 DEF FreeBeside, InPool
  <2> QED BY <1>1, <2>1 DEF FreeList, InPool, SortedBut, End
<1>5. InUseIsNotFree'
  <2>1. \A d \in large \ {c} : \A j \in 1..Len(t) : Apart(d, t[j])
    BY <1>1 DEF FreeBeside
  <2> QED BY <2>1 DEF InUseIsNotFree, Apart, End
<1> QED BY <1>2, <1>3, <1>4, <1>5 DEF IInv

LEMMA MoveBlockAllocPtrKeeps ==
  ASSUME IInv, MoveBlockAllocPtr
  PROVE  IInv'
<1>1. mBlockAllocPtr \in Nat /\ mBumpPtr \in Nat /\ mBumpPtr <= PoolSize
  BY Numbers
<1>2. mBumpPtr' = mBumpPtr /\ mLargeFreeList' = mLargeFreeList /\ large' = large
  BY DEF MoveBlockAllocPtr
<1>3. mBlockAllocPtr' = IF mBlockAllocPtr > PoolSize THEN mBlockAllocPtr
                        ELSE mBlockAllocPtr + BigBlockSize
  BY DEF MoveBlockAllocPtr
<1>4. Pointers'
  BY <1>1, <1>2, <1>3, Constants DEF IInv, Pointers
<1>5. InUse' /\ InUseIsNotFree'
  BY <1>2 DEF IInv, InUse, InUseIsNotFree, InPool, Apart, End
<1>6. FreeList'
  BY <1>2 DEF IInv, FreeList, InPool, SortedBut, End
<1>7. BlocksBelow'
  <2>1. mBlockAllocPtr <= mBlockAllocPtr' /\ mBlockAllocPtr' \in Nat
    BY <1>1, <1>3, Constants
  <2>2. ASSUME NEW b \in bigBlocks
        PROVE  b \in Nat /\ b + BigBlockSize <= mBumpPtr' /\ b + BigBlockSize <= mBlockAllocPtr'
    <3>1. b \in Nat /\ b + BigBlockSize <= mBumpPtr /\ b + BigBlockSize <= mBlockAllocPtr
      BY DEF IInv, BlocksBelow
    <3> QED BY <3>1, <2>1, <1>1, <1>2, Constants
  <2>3. Grows => mBlockAllocPtr + BigBlockSize <= mBumpPtr' /\ mBlockAllocPtr + BigBlockSize <= mBlockAllocPtr'
    BY <1>1, <1>2, <1>3, Constants DEF Grows
  <2>4. bigBlocks' = IF Grows THEN bigBlocks \cup {mBlockAllocPtr} ELSE bigBlocks
    BY DEF MoveBlockAllocPtr
  <2> QED BY <2>2, <2>3, <2>4, <1>1 DEF BlocksBelow
<1> QED BY <1>4, <1>5, <1>6, <1>7 DEF IInv

\* IInv is kept until a request wraps around.
Sound == ~overrun => IInv

LEMMA InitHolds == MemoryInit => IInv
<1> SUFFICES ASSUME MemoryInit
             PROVE  IInv
  OBVIOUS
<1>1. Pointers
  BY Constants DEF MemoryInit, Pointers
<1>2. InUse /\ BlocksBelow /\ InUseIsNotFree
  BY FS_EmptySet DEF MemoryInit, InUse, BlocksBelow, InUseIsNotFree
<1>3. FreeList
  <2>1. mLargeFreeList = <<>> /\ Len(mLargeFreeList) = 0 /\ mLargeFreeList \in Seq(ChunkRecord)
    BY EmptySeq DEF MemoryInit
  <2>2. 1..Len(mLargeFreeList) = {}
    BY <2>1
  <2> QED BY <2>1, <2>2 DEF FreeList, SortedBut
<1> QED BY <1>1, <1>2, <1>3 DEF IInv

\* What any step of the memory is.
LEMMA Steps ==
  ASSUME LargeNext \/ MoveBlockAllocPtr
  PROVE  /\ ~overrun
         /\ \/ \E sz \in Request : \E i \in DOMAIN mLargeFreeList : FromFreeList(sz, i)
            \/ \E sz \in Request : FromBumpPtr(sz)
            \/ \E c \in large : c.addr = mBumpPtr /\ DeallocateLarge(c)
            \/ \E c \in large : c.addr # mBumpPtr /\ DeallocateLarge(c)
            \/ MoveBlockAllocPtr
BY DEF LargeNext, AllocateLarge, MoveBlockAllocPtr

LEMMA StepKeeps ==
  ASSUME IInv, LargeNext \/ MoveBlockAllocPtr, ~overrun'
  PROVE  IInv'
<1>1. ASSUME NEW sz \in Request, NEW i \in DOMAIN mLargeFreeList, FromFreeList(sz, i)
      PROVE  IInv'
  <2>1. i \in 1..Len(mLargeFreeList)
    BY Numbers
  <2> QED BY <1>1, <2>1, FromFreeListKeeps
<1>2. ASSUME NEW sz \in Request, FromBumpPtr(sz)
      PROVE  IInv'
  BY <1>2, FromBumpPtrKeeps
<1>3. ASSUME NEW c \in large, c.addr = mBumpPtr, DeallocateLarge(c)
      PROVE  IInv'
  BY <1>3, BumpBackKeeps DEF DeallocateLarge
<1>4. ASSUME NEW c \in large, c.addr # mBumpPtr, DeallocateLarge(c)
      PROVE  IInv'
  <2>1. PICK i \in 1..(Len(mLargeFreeList) + 1) :
          IsPlaceOf(c, i) /\ mLargeFreeList' = Merge(InsertAt(mLargeFreeList, i, c), i)
    BY <1>4 DEF DeallocateLarge
  <2>2. /\ large' = large \ {c} /\ mBumpPtr' = mBumpPtr
        /\ mBlockAllocPtr' = mBlockAllocPtr /\ bigBlocks' = bigBlocks
    BY <1>4 DEF DeallocateLarge
  <2> QED BY <2>1, <2>2, InsertKeeps
<1>5. ASSUME MoveBlockAllocPtr
      PROVE  IInv'
  BY <1>5, MoveBlockAllocPtrKeeps
<1> QED BY <1>1, <1>2, <1>3, <1>4, <1>5, Steps

\* The pointers, the chunks in use, the free list and the blocks fit together
\* after every call, whatever calls come before, until a request wraps around.
THEOREM Invariance == MemorySpec => []Sound
<1>1. Sound /\ [LargeNext \/ MoveBlockAllocPtr]_memory => Sound'
  <2> SUFFICES ASSUME Sound, [LargeNext \/ MoveBlockAllocPtr]_memory, ~overrun'
               PROVE  IInv'
    BY DEF Sound
  <2>1. CASE UNCHANGED memory
    <3>1. IInv
      BY <2>1 DEF Sound, memory
    <3>2. IInv => IInv'
      BY <2>1 DEF memory, IInv, Pointers, InUse, FreeList, InUseIsNotFree, BlocksBelow,
                  InPool, Apart, SortedBut, End
    <3> QED BY <3>1, <3>2
  <2>2. CASE LargeNext \/ MoveBlockAllocPtr
    <3>1. ~overrun
      BY <2>2, Steps
    <3>2. IInv
      BY <3>1 DEF Sound
    <3> QED BY <2>2, <3>2, StepKeeps
  <2> QED BY <2>1, <2>2
<1>2. MemoryInit => Sound
  BY InitHolds DEF Sound
<1> QED BY <1>1, <1>2, PTL DEF MemorySpec

LEMMA IInvIsSafe == Sound => MemorySafe
<1> SUFFICES ASSUME IInv
             PROVE  MemoryTypeOK /\ RegionsDisjoint /\ FreeListMerged
  BY DEF Sound, MemorySafe
<1>1. /\ PoolSize \in Nat /\ mBumpPtr \in Nat /\ mBumpPtr <= PoolSize
      /\ DOMAIN mLargeFreeList = 1..Len(mLargeFreeList) /\ Len(mLargeFreeList) \in Nat
  BY Numbers
<1>2. \A c \in Chunks : /\ c \in ChunkRecord /\ c.addr \in Nat /\ End(c) \in Nat
                        /\ mBumpPtr <= c.addr /\ c.addr < End(c) /\ End(c) <= PoolSize
  BY Numbers DEF Chunks, ToSet
<1>3. MemoryTypeOK
  <2>1. mBlockAllocPtr \in 0..(PoolSize + BigBlockSize) /\ mBumpPtr \in 0..PoolSize
    BY DEF IInv, Pointers
  <2>2. \A c \in Chunks : c \in [addr : 0..(PoolSize - 1), size : Nat]
    <3> TAKE c \in Chunks
    <3>1. c.addr \in 0..(PoolSize - 1)
      BY <1>1, <1>2
    <3> QED BY <3>1, <1>2 DEF ChunkRecord
  <2>3. \A b \in bigBlocks : b \in 0..(PoolSize - 1)
    <3> TAKE b \in bigBlocks
    <3>1. b \in Nat /\ b + BigBlockSize <= mBumpPtr
      BY DEF IInv, BlocksBelow
    <3> QED BY <3>1, <1>1, Constants
  <2> QED BY <2>1, <2>2, <2>3 DEF MemoryTypeOK
<1>4. \A c, d \in Chunks : c # d => Apart(c, d)
  <2>1. \A i, j \in 1..Len(mLargeFreeList) :
          mLargeFreeList[i] # mLargeFreeList[j] => Apart(mLargeFreeList[i], mLargeFreeList[j])
    <3> TAKE i, j \in 1..Len(mLargeFreeList)
    <3>1. i = j \/ i < j \/ j < i
      BY <1>1
    <3>2. i < j => End(mLargeFreeList[i]) < mLargeFreeList[j].addr
      BY Numbers
    <3>3. j < i => End(mLargeFreeList[j]) < mLargeFreeList[i].addr
      BY Numbers
    <3>4. /\ End(mLargeFreeList[i]) \in Nat /\ mLargeFreeList[i].addr \in Nat
          /\ End(mLargeFreeList[j]) \in Nat /\ mLargeFreeList[j].addr \in Nat
      BY Numbers
    <3> QED BY <3>1, <3>2, <3>3, <3>4 DEF Apart
  <2>2. \A c, d \in large : c # d => Apart(c, d)
    BY DEF IInv, InUse
  <2>3. \A c \in large : \A i \in 1..Len(mLargeFreeList) :
          Apart(c, mLargeFreeList[i]) /\ Apart(mLargeFreeList[i], c)
    BY DEF IInv, InUseIsNotFree, Apart
  <2> QED BY <2>1, <2>2, <2>3, <1>1 DEF Chunks, ToSet
<1>5. RegionsDisjoint
  <2>1. \A c \in Chunks : Extent(c) \subseteq mBumpPtr..(PoolSize - 1)
    BY <1>1, <1>2 DEF Extent
  <2>2. ASSUME NEW c \in Chunks, NEW d \in Chunks, c # d
        PROVE  Extent(c) \cap Extent(d) = {}
    <3>1. Apart(c, d)
      BY <1>4, <2>2
    <3>2. c.addr \in Nat /\ End(c) \in Nat /\ d.addr \in Nat /\ End(d) \in Nat
      BY <1>2
    <3> QED BY <3>1, <3>2 DEF Apart, Extent
  <2>3. \A b \in bigBlocks : BlockExtent(b) \subseteq 0..(mBumpPtr - 1)
    <3> TAKE b \in bigBlocks
    <3>1. b \in Nat /\ b + BigBlockSize <= mBumpPtr
      BY DEF IInv, BlocksBelow
    <3> QED BY <3>1, <1>1, Constants DEF BlockExtent
  <2> QED BY <2>1, <2>2, <2>3 DEF RegionsDisjoint
<1>6. FreeListMerged
  <2> SUFFICES ASSUME NEW i \in 1..(Len(mLargeFreeList) - 1)
               PROVE  End(mLargeFreeList[i]) < mLargeFreeList[i + 1].addr
    BY DEF FreeListMerged
  <2>1. i \in 1..Len(mLargeFreeList) /\ i + 1 \in 1..Len(mLargeFreeList) /\ i < i + 1
    BY <1>1
  <2> QED BY <2>1, Numbers
<1> QED BY <1>3, <1>5, <1>6

\* Large chunks in use, free large chunks and big blocks never overlap, and no two
\* neighbours of the free list are left unmerged, after every sequence of
\* allocateLarge, deallocateLarge and allocateBlocks in which no request is so large
\* that mBumpPtr wraps around.
THEOREM MemorySafeHolds == MemorySpec => []MemorySafe
BY Invariance, IInvIsSafe, PTL

-----------------------------------------------------------------------------
(* What is lost                                                            *)

NotHeld ==
  {w \in mBumpPtr..(PoolSize - 1) :
     w \notin Covered(mLargeFreeList) /\ \A c \in large : w \notin Extent(c)}

LostIsNotHeld == Lost = NotHeld

LEMMA LostIs == IInv => LostIsNotHeld
<1> SUFFICES ASSUME IInv
             PROVE  LostIsNotHeld
  OBVIOUS
<1>1. DOMAIN mLargeFreeList = 1..Len(mLargeFreeList)
  BY Numbers
<1>2. UNION {Extent(c) : c \in Chunks} = Covered(mLargeFreeList) \cup UNION {Extent(c) : c \in large}
  BY <1>1 DEF Chunks, ToSet, Covered
<1> QED BY <1>2 DEF LostIsNotHeld, Lost, NotHeld

LEMMA LostIsNext == IInv' => LostIsNotHeld'
BY LostIs, PTL

\* The two halves of LossIsBounded, of one step.
LossBound ==
  /\ Cardinality(Lost' \ Lost) <= SizeOfLargeChunk
  /\ Cardinality(large') <= Cardinality(large) => Lost' \subseteq Lost

LEMMA NoLoss ==
  ASSUME Lost' \subseteq Lost
  PROVE  LossBound
<1>1. Lost' \ Lost = {}
  OBVIOUS
<1>2. Cardinality(Lost' \ Lost) = 0
  BY <1>1, FS_EmptySet
<1> QED BY <1>2 DEF LossBound, SizeOfLargeChunk

LEMMA FromFreeListLoss ==
  ASSUME IInv, IInv', NEW sz \in Request, NEW i \in 1..Len(mLargeFreeList), FromFreeList(sz, i)
  PROVE  LossBound
<1> DEFINE s == mLargeFreeList
           t == mLargeFreeList'
           c == s[i]
           n == [addr |-> c.addr, size |-> sz]
           rest == (IF Splits(c, sz) THEN {} ELSE End(n)..(End(c) - 1))
<1>1. /\ large' = large \cup {n} /\ mBumpPtr' = mBumpPtr /\ c.size >= sz
      /\ t = IF Splits(c, sz) THEN [s EXCEPT ![i] = Split(c, sz)] ELSE RemoveAt(s, i)
  BY DEF FromFreeList
<1>2. /\ s \in Seq(ChunkRecord) /\ Len(s) \in Nat
      /\ \A j \in 1..Len(s) : s[j] \in ChunkRecord
      /\ c \in ChunkRecord /\ sz \in Nat
  BY Numbers, Requests
<1>3. /\ n \in ChunkRecord /\ n.addr = c.addr /\ End(n) <= End(c)
      /\ Splits(c, sz) => /\ Split(c, sz) \in ChunkRecord
                          /\ Split(c, sz).addr = End(n) /\ End(Split(c, sz)) = End(c)
      /\ ~Splits(c, sz) => End(c) - End(n) <= SizeOfLargeChunk
  BY <1>1, <1>2, Carving
<1>4. c.addr \in Nat /\ End(c) \in Nat /\ End(n) \in Nat /\ c.addr < End(n)
  BY <1>2, <1>3, EndIs
<1>5. Extent(c) \subseteq Extent(n) \cup (End(n)..(End(c) - 1))
  BY <1>3, <1>4 DEF Extent
<1>6. ASSUME NEW j \in 1..Len(s), NEW w \in Extent(s[j])
      PROVE  w \in Extent(n) \cup rest \/ \E k \in 1..Len(t) : w \in Extent(t[k])
  <2>1. CASE Splits(c, sz)
    <3>1. /\ Len(t) = Len(s)
          /\ \A k \in 1..Len(s) : t[k] = IF k = i THEN Split(c, sz) ELSE s[k]
      BY <1>1, <1>2, <1>3, <2>1, ExceptSeq
    <3>2. CASE j # i
      BY <3>1, <3>2
    <3>3. CASE j = i
      <4>1. Extent(Split(c, sz)) = End(n)..(End(c) - 1)
        BY <1>3, <2>1 DEF Extent
      <4>2. w \in Extent(n) \/ w \in Extent(Split(c, sz))
        BY <4>1, <1>5, <3>3
      <4>3. i \in 1..Len(t) /\ t[i] = Split(c, sz)
        BY <3>1
      <4> QED BY <4>2, <4>3
    <3> QED BY <3>2, <3>3
  <2>2. CASE ~Splits(c, sz)
    <3>1. /\ Len(t) = Len(s) - 1
          /\ \A k \in 1..(Len(s) - 1) : t[k] = IF k < i THEN s[k] ELSE s[k + 1]
      BY <1>1, <1>2, <2>2, RemoveAtIs
    <3>2. CASE j < i
      <4>1. j \in 1..Len(t) /\ t[j] = s[j]
        BY <3>1, <3>2, <1>2
      <4> QED BY <4>1
    <3>3. CASE j > i
      <4>1. j - 1 \in 1..Len(t) /\ t[j - 1] = s[(j - 1) + 1]
        BY <3>1, <3>3, <1>2
      <4>2. (j - 1) + 1 = j
        BY <1>2
      <4> QED BY <4>1, <4>2
    <3>4. CASE j = i
      BY <3>4, <2>2, <1>5
    <3>5. j < i \/ j > i \/ j = i
      BY <1>2
    <3> QED BY <3>2, <3>3, <3>4, <3>5
  <2> QED BY <2>1, <2>2
<1>7. Lost' \ Lost \subseteq rest
  <2> SUFFICES ASSUME NEW w \in Lost', w \notin Lost
               PROVE  w \in rest
    OBVIOUS
  <2>1. /\ w \in mBumpPtr..(PoolSize - 1)
        /\ ~\E k \in 1..Len(t) : w \in Extent(t[k])
        /\ \A d \in large' : w \notin Extent(d)
    BY <1>1, LostIsNext DEF LostIsNotHeld, NotHeld, Covered, Extent, End
  <2>2. n \in large' /\ large \subseteq large'
    BY <1>1
  <2>3. \E j \in 1..Len(s) : w \in Extent(s[j])
    BY <2>1, <2>2, LostIs DEF LostIsNotHeld, NotHeld, Covered
  <2> QED BY <2>1, <2>2, <2>3, <1>6
<1>8. Cardinality(Lost' \ Lost) <= SizeOfLargeChunk
  <2>1. IsFiniteSet(rest) /\ Cardinality(rest) \in Nat /\ Cardinality(rest) <= SizeOfLargeChunk
    <3>1. CASE Splits(c, sz)
      BY <3>1, FS_EmptySet DEF SizeOfLargeChunk
    <3>2. CASE ~Splits(c, sz)
      <4>1. /\ IsFiniteSet(End(n)..(End(c) - 1))
            /\ Cardinality(End(n)..(End(c) - 1)) =
                 IF End(n) > End(c) - 1 THEN 0 ELSE (End(c) - 1) - End(n) + 1
        <5>1. End(c) - 1 \in Int /\ End(n) \in Int
          BY <1>4
        <5> QED BY <5>1, FS_Interval
      <4>2. rest = End(n)..(End(c) - 1)
        BY <3>2
      <4> QED BY <4>1, <4>2, <3>2, <1>3, <1>4 DEF SizeOfLargeChunk
    <3> QED BY <3>1, <3>2
  <2>2. IsFiniteSet(Lost' \ Lost) /\ Cardinality(Lost' \ Lost) <= Cardinality(rest)
    BY <1>7, <2>1, FS_Subset
  <2>3. Cardinality(Lost' \ Lost) \in Nat
    BY <2>2, FS_CardinalityType
  <2> QED BY <2>1, <2>2, <2>3 DEF SizeOfLargeChunk
<1>9. Cardinality(large') > Cardinality(large)
  <2>1. IsFiniteSet(large)
    BY DEF IInv, InUse
  <2>2. n \notin large
    <3> SUFFICES ASSUME n \in large
                 PROVE  FALSE
      OBVIOUS
    <3>1. Apart(n, c)
      BY DEF IInv, InUseIsNotFree
    <3> QED BY <3>1, <1>3, <1>4, <1>2, EndIs DEF Apart
  <2>3. Cardinality(large') = Cardinality(large) + 1
    BY <1>1, <2>1, <2>2, FS_AddElement
  <2>4. Cardinality(large) \in Nat
    BY <2>1, FS_CardinalityType
  <2> QED BY <2>3, <2>4
<1>10. ~(Cardinality(large') <= Cardinality(large))
  <2>1. Cardinality(large) \in Nat /\ Cardinality(large') \in Nat
    BY FS_CardinalityType DEF IInv, InUse
  <2> QED BY <2>1, <1>9
<1> QED BY <1>8, <1>10 DEF LossBound

LEMMA FromBumpPtrLoss ==
  ASSUME IInv, IInv', NEW sz \in Request, FromBumpPtr(sz), ~overrun'
  PROVE  LossBound
<1> DEFINE a == mBumpPtr - sz - Header
           n == [addr |-> a, size |-> sz]
<1>1. /\ mBumpPtr' = a /\ large' = large \cup {n} /\ mLargeFreeList' = mLargeFreeList
  BY BumpPtrDoesNotWrap DEF FromBumpPtr
<1>2. sz \in Nat /\ mBumpPtr \in Nat /\ PoolSize \in Nat
  BY Requests, Numbers
<1>3. End(n) = mBumpPtr /\ n.addr = a
  BY <1>2 DEF End, Header
<1>4. Extent(n) = a..(mBumpPtr - 1)
  BY <1>3 DEF Extent
<1>5. a \in Int
  BY <1>2 DEF Header
<1> HIDE DEF a, n
<1>6. ASSUME NEW w \in Lost'
      PROVE  w \in Lost
  <2>1. /\ w \in a..(PoolSize - 1)
        /\ w \notin Covered(mLargeFreeList)
        /\ \A d \in large' : w \notin Extent(d)
    BY <1>1, LostIsNext DEF LostIsNotHeld, NotHeld, Covered, Extent, End
  <2>2. w \notin Extent(n) /\ \A d \in large : w \notin Extent(d)
    BY <2>1, <1>1
  <2>3. w \in mBumpPtr..(PoolSize - 1)
    BY <2>1, <2>2, <1>2, <1>4, <1>5
  <2> QED BY <2>1, <2>2, <2>3, LostIs DEF LostIsNotHeld, NotHeld
<1> QED BY <1>6, NoLoss

LEMMA DeallocateLargeLoss ==
  ASSUME IInv, IInv', NEW c \in large, DeallocateLarge(c)
  PROVE  LossBound
<1>1. large' = large \ {c}
  BY DEF DeallocateLarge
<1>2. CASE c.addr = mBumpPtr
  <2>1. mBumpPtr' = End(c) /\ mLargeFreeList' = mLargeFreeList
    BY <1>2 DEF DeallocateLarge
  <2>2. c.addr \in Nat /\ End(c) \in Nat /\ c.addr < End(c) /\ PoolSize \in Nat
    BY Numbers
  <2>3. ASSUME NEW w \in Lost'
        PROVE  w \in Lost
    <3>1. /\ w \in End(c)..(PoolSize - 1)
          /\ w \notin Covered(mLargeFreeList)
          /\ \A d \in large \ {c} : w \notin Extent(d)
      BY <1>1, <2>1, LostIsNext DEF LostIsNotHeld, NotHeld, Covered, Extent, End
    <3>2. w \in mBumpPtr..(PoolSize - 1) /\ w \notin Extent(c)
      BY <3>1, <2>2, <1>2 DEF Extent
    <3> QED BY <3>1, <3>2, LostIs DEF LostIsNotHeld, NotHeld
  <2> QED BY <2>3, NoLoss
<1>3. CASE c.addr # mBumpPtr
  <2>1. PICK i \in 1..(Len(mLargeFreeList) + 1) :
          IsPlaceOf(c, i) /\ mLargeFreeList' = Merge(InsertAt(mLargeFreeList, i, c), i)
    BY <1>3 DEF DeallocateLarge
  <2>2. mBumpPtr' = mBumpPtr
    BY <1>3 DEF DeallocateLarge
  <2>3. Covered(mLargeFreeList') = Covered(mLargeFreeList) \cup Extent(c)
    BY <2>1, InsertMerges
  <2>4. Covered(mLargeFreeList)' = Covered(mLargeFreeList')
    BY DEF Covered, Extent, End
  <2>5. ASSUME NEW w \in Lost'
        PROVE  w \in Lost
    <3>1. /\ w \in mBumpPtr..(PoolSize - 1)
          /\ w \notin Covered(mLargeFreeList)'
          /\ \A d \in large \ {c} : w \notin Extent(d)
      BY <1>1, <2>2, LostIsNext DEF LostIsNotHeld, NotHeld, Extent, End
    <3> QED BY <3>1, <2>3, <2>4, LostIs DEF LostIsNotHeld, NotHeld
  <2> QED BY <2>5, NoLoss
<1> QED BY <1>2, <1>3

\* Until a request wraps around, a step loses at most the three words of a remainder that is too small for the
\* list (allocateLarge), and a step that frees a chunk loses none: every word of
\* the pool above mBumpPtr is otherwise in use or in the free list.
THEOREM LossIsBoundedHolds == MemorySpec => LossIsBounded
<1>1. Sound /\ Sound' /\ [LargeNext \/ MoveBlockAllocPtr]_memory => [~overrun' => LossBound]_memory
  <2> SUFFICES ASSUME Sound, Sound', LargeNext \/ MoveBlockAllocPtr, ~overrun'
               PROVE  LossBound
    OBVIOUS
  <2>5. IInv /\ IInv'
    BY Steps DEF Sound
  <2>1. ASSUME NEW sz \in Request, NEW i \in DOMAIN mLargeFreeList, FromFreeList(sz, i)
        PROVE  LossBound
    <3>1. i \in 1..Len(mLargeFreeList)
      BY <2>5, Numbers
    <3> QED BY <2>1, <2>5, <3>1, FromFreeListLoss
  <2>2. ASSUME NEW sz \in Request, FromBumpPtr(sz)
        PROVE  LossBound
    BY <2>2, <2>5, FromBumpPtrLoss
  <2>3. ASSUME NEW c \in large, DeallocateLarge(c)
        PROVE  LossBound
    BY <2>3, <2>5, DeallocateLargeLoss
  <2>4. ASSUME MoveBlockAllocPtr
        PROVE  LossBound
    <3>1. Lost' = Lost
      BY <2>4 DEF MoveBlockAllocPtr, Lost, Chunks, ToSet, Extent, End
    <3> QED BY <3>1, NoLoss
  <2> QED BY <2>1, <2>2, <2>3, <2>4, Steps
<1> QED BY <1>1, Invariance, PTL DEF MemorySpec, LossIsBounded, LossBound

-----------------------------------------------------------------------------
(* The memory in the allocator                                             *)

LEMMA ThreadsOnMemory ==
  ASSUME NEW t \in Thread, Call(t) \/ Step(t)
  PROVE  MoveBlockAllocPtr \/ UNCHANGED memory
<1>1. Call(t) => UNCHANGED memory
  BY DEF Call, Allocate, Deallocate, Exit
<1>2. \/ AllocateTLS(t) \/ ZeroTLS(t) \/ TryActiveBlocks(t) \/ GetPublicFreeListBlock(t)
      \/ GetPartialBlock(t) \/ PrivatizePublicFreeList(t) \/ PopFreeBlock(t) \/ PushRest(t)
      => UNCHANGED memory
  BY DEF AllocateTLS, ZeroTLS, TryActiveBlocks, GetPublicFreeListBlock, GetPartialBlock,
         PrivatizePublicFreeList, PopFreeBlock, PushRest
<1>3. \/ FindBin(t) \/ LinkMail(t) \/ StoreMail(t) \/ LeaveBlock(t) \/ WaitForMail(t)
      \/ GiveBlock(t) \/ DeallocateTLS(t)
      => UNCHANGED memory
  BY DEF FindBin, LinkMail, StoreMail, LeaveBlock, WaitForMail, GiveBlock, DeallocateTLS
<1>4. Grow(t) => MoveBlockAllocPtr
  BY DEF Grow, AllocateBlocks
<1> QED BY <1>1, <1>2, <1>3, <1>4 DEF Step

\* Whatever the threads do with small chunks, exits and blocks that change hands
\* included, the pool's memory is used as MemorySpec says.
THEOREM PoolUsesMemory == PoolSpec => MemorySpec
<1>1. PoolNext \/ (LargeNext /\ UNCHANGED poolVars) => LargeNext \/ MoveBlockAllocPtr \/ UNCHANGED memory
  BY ThreadsOnMemory DEF PoolNext
<1>2. UNCHANGED <<memory, poolVars>> => UNCHANGED memory
  OBVIOUS
<1>3. [PoolNext \/ (LargeNext /\ UNCHANGED poolVars)]_<<memory, poolVars>>
      => [LargeNext \/ MoveBlockAllocPtr]_memory
  BY <1>1, <1>2
<1> QED BY <1>3, PTL DEF PoolSpec, MemorySpec

\* So large chunks, free large chunks and big blocks do not overlap in the whole
\* allocator either, whatever its threads do with the small chunks, as far as
\* PoolSpec follows them: up to a stray mail or a request that wraps around.
THEOREM PoolIsMemorySafe == PoolSpec => []MemorySafe
BY PoolUsesMemory, MemorySafeHolds, PTL

=============================================================================
