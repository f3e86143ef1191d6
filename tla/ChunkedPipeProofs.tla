-------------------------- MODULE ChunkedPipeProofs -------------------------
(***************************************************************************)
(* The chunks of AtomicQueue have one holder each and no step touches one  *)
(* that was freed; and the pipe over recycled chunks implements the pipe   *)
(* over an unbounded array of cells.  For any number of chunks, any number *)
(* of values per chunk and any number of messages.                         *)
(*                                                                         *)
(* The invariant gives every linked chunk its range of positions: the      *)
(* ranges do not meet, next and prev lead to the range above and below,    *)
(* and the pointers of both threads are cells of linked chunks.  So two    *)
(* pointers are equal exactly if their positions are, and a chunk that     *)
(* leaves the list at either end has no pointer into it.                   *)
(***************************************************************************)
EXTENDS ChunkedPipe, SequenceTheorems, TLAPS

\* The chunks that hold cells between begin and end.
Linked == heap \ {spare_chunk, taken, old}

\* The position of a cell that is not NULL.
At(a) == base[a[1]] + a[2] + 1

IsCell(a) == a \in Linked \X (0..(N - 1))

Pushing == wpc \in {"spare", "link"}

\* A chunk that is not linked is the spare one or held by one of the threads.
Holders ==
  /\ {spare_chunk, taken, old} \ {NoChunk} \subseteq heap
  /\ spare_chunk # NoChunk => spare_chunk \notin {taken, old}
  /\ taken # NoChunk => taken # old /\ wpc = "link"
  /\ old # NoChunk => rpc = "recycle"

\* The ranges of positions of linked chunks do not meet.
Apart ==
  \A j, k \in Linked : j = k \/ base[j] + N <= base[k] \/ base[k] + N <= base[j]

Bounds ==
  \A k \in Linked : base[begin[1]] <= base[k] /\ base[k] <= base[end[1]]

Above == \A k \in Linked \ {end[1]} : next[k] \in Linked /\ base[next[k]] = base[k] + N

Below ==
  \A k \in Linked \ {begin[1]} :
    prev[k] \in Linked /\ next[prev[k]] = k /\ base[k] = base[prev[k]] + N

\* What the pointers of the two threads refer to.
Pointers ==
  /\ IsCell(begin) /\ IsCell(back) /\ IsCell(w) /\ IsCell(f)
  /\ r # NULL => IsCell(r)
  /\ c # NULL => c = w
  /\ end \in Linked \X (0..N)
  /\ end[2] = N <=> Pushing

\* The order of the pointers, and how many values were written and read.
Order ==
  /\ At(begin) <= At(w) /\ At(w) <= At(f) /\ At(f) <= At(back)
  /\ r # NULL => At(begin) <= At(r) /\ At(r) <= At(w)
  /\ At(begin) = Len(got) + 1
  /\ At(back) = Len(log) + 1
  /\ At(end) = Len(log) + 2
  /\ Len(log) <= MaxWrites
  /\ Pushing /\ log # <<>> => At(f) <= Len(log)

\* A cell keeps what was written at its position.
Contents ==
  \A k \in Linked, i \in 0..(N - 1) :
    base[k] + i + 1 <= Len(log) => values[k][i] = log[base[k] + i + 1]

IInv ==
  /\ TypeOK /\ ~fault
  /\ Holders /\ Apart /\ Bounds /\ Above /\ Below
  /\ Pointers /\ Order /\ Contents

-----------------------------------------------------------------------------
(* Cells and their positions.                                              *)

LEMMA CellFacts ==
  ASSUME TypeOK, NEW a, IsCell(a)
  PROVE  /\ a = <<a[1], a[2]>> /\ a[1] \in Linked /\ a[1] \in Chunk /\ a[2] \in 0..(N - 1)
         /\ base[a[1]] \in Nat /\ At(a) \in Nat \ {0}
         /\ base[a[1]] < At(a) /\ At(a) <= base[a[1]] + N
         /\ a # NULL /\ a \in Address
  <1>1. a = <<a[1], a[2]>> /\ a[1] \in Linked /\ a[2] \in 0..(N - 1)
    BY DEF IsCell
  <1>2. a[1] \in Chunk /\ base[a[1]] \in Nat
    BY <1>1 DEF Linked, TypeOK
  <1>3. a # NULL
    BY <1>2, ChunkAssumption DEF NULL
  <1>4. a[2] \in 0..N
    BY <1>1, ChunkAssumption
  <1>5. a \in Address
    BY <1>1, <1>2, <1>4 DEF Address
  <1> QED BY <1>1, <1>2, <1>3, <1>5, ChunkAssumption DEF At

LEMMA LinkedFacts ==
  ASSUME TypeOK PROVE Linked \subseteq Chunk /\ \A k \in Linked : base[k] \in Nat
  BY DEF TypeOK, Linked

\* Two cells are the same if their positions are.
LEMMA Unique ==
  ASSUME TypeOK, Apart, NEW a, NEW b, IsCell(a), IsCell(b), At(a) = At(b)
  PROVE  a = b
  <1>1. a[1] = b[1]
    BY CellFacts, ChunkAssumption DEF Apart
  <1> QED BY <1>1, CellFacts DEF At

\* The end is behind back, and a chunk that is only begun is not the first.
LEMMA EndFacts ==
  ASSUME IInv
  PROVE  /\ end = <<end[1], end[2]>> /\ end[1] \in Linked /\ end[1] \in Chunk
         /\ end[2] \in 0..N /\ end \in Address
         /\ base[end[1]] \in Nat /\ At(end) = At(back) + 1
         /\ Len(log) \in Nat /\ Len(got) \in Nat
  <1> USE DEF IInv
  <1>1. Len(log) \in Nat /\ Len(got) \in Nat
    BY DEF TypeOK
  <1> QED BY <1>1, LinkedFacts DEF TypeOK, Pointers, Order, Address

LEMMA InitIInv == Init => IInv
  <1> SUFFICES ASSUME Init PROVE IInv
    OBVIOUS
  <1> USE ChunkAssumption
  <1> PICK k \in Chunk :
        /\ heap = {k} /\ begin = <<k, 0>> /\ back = <<k, 0>>
        /\ w = back /\ f = back /\ r = back /\ c = back
        /\ IF N = 1
             THEN end = <<k, N>> /\ wpc = "spare"
             ELSE end = <<k, 1>> /\ wpc = "idle"
    BY DEF Init
  <1>0. {begin, back, end, w, f, r, c} \subseteq Address
    BY DEF Address
  <1>1. TypeOK /\ ~fault
    <2>1. Fresh \in [0..(N - 1) -> Value \cup {Junk}]
      BY DEF Fresh
    <2>2. values \in [Chunk -> [0..(N - 1) -> Value \cup {Junk}]]
      BY <2>1 DEF Init
    <2>3. /\ prev \in [Chunk -> Chunk \cup {NoChunk, Junk}]
          /\ next \in [Chunk -> Chunk \cup {NoChunk, Junk}]
          /\ base \in [Chunk -> Nat]
          /\ wpc \in {"idle", "spare"} /\ rpc = "idle" /\ complete = TRUE /\ fault = FALSE
          /\ {spare_chunk, taken, old} = {NoChunk}
          /\ log = <<>> /\ got = <<>>
      BY DEF Init
    <2>4. heap \subseteq Chunk /\ {spare_chunk, taken, old} \subseteq Chunk \cup {NoChunk}
      BY <2>3
    <2>5. log \in Seq(Value) /\ got \in Seq(Value)
      BY <2>3
    <2>6. complete \in BOOLEAN /\ fault \in BOOLEAN /\ ~fault
      BY <2>3
    <2> QED BY <1>0, <2>2, <2>3, <2>4, <2>5, <2>6 DEF TypeOK
  <1>2. spare_chunk = NoChunk /\ taken = NoChunk /\ old = NoChunk /\ Linked = {k}
    BY DEF Init, Linked
  <1>3. base[k] = 0
    BY DEF Init
  <1>4. Holders /\ Apart /\ Bounds /\ Above /\ Below
    BY <1>2, <1>3 DEF Holders, Apart, Bounds, Above, Below
  <1>5. Pointers
    BY <1>2 DEF Pointers, IsCell, Pushing, NULL
  <1>6. log = <<>> /\ got = <<>>
    BY DEF Init
  <1>7. Order
    BY <1>3, <1>6 DEF Order, At
  <1>8. Contents
    BY <1>3, <1>6, <1>2 DEF Contents
  <1> QED BY <1>1, <1>4, <1>5, <1>7, <1>8 DEF IInv

-----------------------------------------------------------------------------
(* Steps that leave the list of chunks as it is.                           *)

LEMMA ListKept ==
  ASSUME IInv, Linked' = Linked, begin'[1] = begin[1], end'[1] = end[1],
         \A k \in Linked : base'[k] = base[k] /\ next'[k] = next[k] /\ prev'[k] = prev[k]
  PROVE  Apart' /\ Bounds' /\ Above' /\ Below'
  <1> USE DEF IInv
  <1>1. begin[1] \in Linked /\ end[1] \in Linked
    BY EndFacts, CellFacts DEF Pointers
  <1>2. Apart'
    BY DEF Apart
  <1>3. Bounds'
    BY <1>1 DEF Bounds
  <1>4. Above'
    BY DEF Above
  <1>5. Below'
    BY DEF Below
  <1> QED BY <1>2, <1>3, <1>4, <1>5


\* The steps on w and c, and the reader's on r and c.
LEMMA PointerSteps ==
  ASSUME IInv, flush_cas \/ flush_asleep \/ check_read
  PROVE  IInv'
  <1> USE DEF IInv
  <1>1. /\ UNCHANGED <<memory, back, end, f, taken, complete, log, begin, rpc, old, got>>
        /\ wpc' = wpc \/ (wpc \in {"idle", "asleep"} /\ wpc' \in {"idle", "asleep"})
    BY DEF flush_cas, flush_asleep, check_read, writer, reader
  <1>2. /\ w' \in {w, f} /\ c' \in {c, f, NULL} /\ r' \in {r, c}
        /\ c' # NULL => c' = w'
        /\ r' = r \/ (r' = c /\ w' = w)
    BY DEF flush_cas, flush_asleep, check_read, Pointers, writer, reader
  <1>3. Linked' = Linked /\ base' = base /\ next' = next /\ prev' = prev /\ heap' = heap
    BY <1>1 DEF Linked, memory
  <1>4. TypeOK'
    <2>1. NULL \in Address
      BY DEF Address
    <2>2. {begin, back, end, w, f, r, c}' \subseteq Address
      BY <1>1, <1>2, <2>1 DEF TypeOK
    <2>3. wpc' \in {"idle", "spare", "link", "asleep"}
      BY <1>1 DEF TypeOK
    <2> QED BY <1>1, <2>2, <2>3 DEF TypeOK, memory
  <1>5. ~fault' /\ Holders'
    BY <1>1 DEF Holders, memory
  <1>6. Apart' /\ Bounds' /\ Above' /\ Below'
    BY <1>1, <1>3, ListKept
  <1>7. Pushing' <=> Pushing
    BY <1>1 DEF Pushing
  <1>8. Pointers'
    BY <1>1, <1>2, <1>3, <1>7 DEF Pointers, IsCell
  <1>9. Order'
    <2>1. /\ At(begin)' = At(begin) /\ At(back)' = At(back) /\ At(end)' = At(end)
          /\ At(f)' = At(f)
      BY <1>1, <1>3 DEF At
    <2>2. At(w)' = At(w) \/ At(w)' = At(f)
      BY <1>1, <1>2, <1>3 DEF At
    <2>3. /\ At(w) \in Nat /\ At(f) \in Nat /\ At(back) \in Nat /\ At(begin) \in Nat
          /\ r # NULL => At(r) \in Nat
      BY CellFacts DEF Pointers
    <2>4. At(begin) <= At(w)' /\ At(w)' <= At(f) /\ At(w) <= At(w)'
      BY <2>2, <2>3 DEF Order
    <2>5. r' # NULL => At(begin) <= At(r)' /\ At(r)' <= At(w)'
      <3>1. CASE r' = r
        BY <1>3, <2>3, <2>4, <2>2, <3>1 DEF Order, At
      <3>2. CASE r' = c /\ w' = w
        BY <1>3, <2>3, <3>2 DEF Order, At, Pointers
      <3> QED BY <1>2, <3>1, <3>2
    <2> QED BY <1>1, <1>7, <2>1, <2>4, <2>5 DEF Order
  <1>10. Contents'
    BY <1>1, <1>3 DEF Contents, memory
  <1> QED BY <1>4, <1>5, <1>6, <1>8, <1>9, <1>10


\* Chunks that are not linked may change hands.
LEMMA CellsKept ==
  ASSUME IInv, UNCHANGED <<begin, back, end, w, f, r, c, log, got>>,
         Linked' = Linked, Pushing' <=> Pushing,
         \A k \in Linked : /\ base'[k] = base[k] /\ next'[k] = next[k]
                           /\ prev'[k] = prev[k] /\ values'[k] = values[k]
  PROVE  Apart' /\ Bounds' /\ Above' /\ Below' /\ Pointers' /\ Order' /\ Contents'
  <1> USE DEF IInv
  <1>1. Apart' /\ Bounds' /\ Above' /\ Below'
    BY ListKept
  <1>2. Pointers'
    BY DEF Pointers, IsCell
  <1>3. /\ begin[1] \in Linked /\ back[1] \in Linked /\ w[1] \in Linked /\ f[1] \in Linked
        /\ end[1] \in Linked
        /\ r # NULL => r[1] \in Linked
    BY CellFacts, EndFacts DEF Pointers
  <1>4. /\ At(begin)' = At(begin) /\ At(back)' = At(back) /\ At(w)' = At(w)
        /\ At(f)' = At(f) /\ At(end)' = At(end)
        /\ r # NULL => At(r)' = At(r)
    BY <1>3 DEF At
  <1>5. Order'
    BY <1>4 DEF Order
  <1>6. Contents'
    BY DEF Contents
  <1> QED BY <1>1, <1>2, <1>5, <1>6

LEMMA PushSpare == ASSUME IInv, push_spare PROVE IInv'
  <1>1. /\ UNCHANGED <<heap, values, prev, next, fault, base, back, end, w, f,
                       complete, log, begin, r, rpc, old, got, c>>
        /\ taken' = spare_chunk /\ spare_chunk' = NoChunk /\ wpc' = "link" /\ wpc = "spare"
    BY DEF push_spare, reader
  <1>2. taken = NoChunk
    BY <1>1 DEF IInv, Holders
  <1>3. Linked' = Linked
    BY <1>1, <1>2 DEF Linked
  <1>4. TypeOK'
    BY <1>1 DEF IInv, TypeOK
  <1>5. ~fault' /\ Holders'
    BY <1>1, <1>2 DEF IInv, Holders
  <1>6. Apart' /\ Bounds' /\ Above' /\ Below' /\ Pointers' /\ Order' /\ Contents'
    BY <1>1, <1>3, CellsKept DEF Pushing
  <1> QED BY <1>4, <1>5, <1>6 DEF IInv

LEMMA PopRecycle == ASSUME IInv, pop_recycle PROVE IInv'
  <1> USE DEF IInv
  <1>1. /\ UNCHANGED <<writer, begin, r, got, c>>
        /\ spare_chunk' = old /\ heap' = heap \ {spare_chunk}
        /\ old' = NoChunk /\ rpc' = "idle"
        /\ fault' = (fault \/ spare_chunk \notin heap \cup {NoChunk})
        /\ values' = [x \in Chunk |-> IF x = spare_chunk THEN Fresh ELSE values[x]]
        /\ base' = [x \in Chunk |-> IF x = spare_chunk THEN 0 ELSE base[x]]
        /\ prev' = [x \in Chunk |-> IF x = spare_chunk THEN Junk ELSE prev[x]]
        /\ next' = [x \in Chunk |-> IF x = spare_chunk THEN Junk ELSE next[x]]
    BY DEF pop_recycle, Free
  <1>2. Linked' = Linked
    BY <1>1, ChunkAssumption DEF Linked, writer, TypeOK
  <1>3. TypeOK'
    <2>1. Fresh \in [0..(N - 1) -> Value \cup {Junk}]
      BY DEF Fresh
    <2>2. values' \in [Chunk -> [0..(N - 1) -> Value \cup {Junk}]]
      BY <1>1, <2>1 DEF TypeOK
    <2>3. /\ prev' \in [Chunk -> Chunk \cup {NoChunk, Junk}]
          /\ next' \in [Chunk -> Chunk \cup {NoChunk, Junk}]
          /\ base' \in [Chunk -> Nat]
      BY <1>1 DEF TypeOK
    <2>4. heap' \subseteq Chunk /\ {spare_chunk, taken, old}' \subseteq Chunk \cup {NoChunk}
      BY <1>1 DEF TypeOK, writer
    <2>5. fault' \in BOOLEAN
      BY <1>1
    <2> QED BY <1>1, <2>2, <2>3, <2>4, <2>5 DEF TypeOK, writer
  <1>4. ~fault' /\ Holders'
    BY <1>1 DEF Holders, writer
  <1>5. \A k \in Linked : /\ base'[k] = base[k] /\ next'[k] = next[k]
                          /\ prev'[k] = prev[k] /\ values'[k] = values[k]
    BY <1>1 DEF Linked, TypeOK
  <1> QED BY <1>1, <1>2, <1>3, <1>4, <1>5, CellsKept DEF Pushing, writer


-----------------------------------------------------------------------------
(* The writer's steps on the list.                                         *)

LEMMA AppendKeeps ==
  ASSUME NEW S, NEW s \in Seq(S), NEW e \in S
  PROVE  /\ Append(s, e) \in Seq(S) /\ Len(Append(s, e)) = Len(s) + 1
         /\ \A i \in 1..Len(s) : Append(s, e)[i] = s[i]
         /\ Append(s, e)[Len(s) + 1] = e
  OBVIOUS

\* write() fills the cell at back and steps on to the one at end.
LEMMA WriteStep ==
  ASSUME IInv, NEW v \in Value, NEW incomplete \in BOOLEAN, write(v, incomplete)
  PROVE  IInv'
  <1> USE ChunkAssumption
  <1>1. /\ UNCHANGED <<heap, prev, next, spare_chunk, base, w, taken, begin, r, rpc, old, got, c>>
        /\ wpc = "idle" /\ Len(log) < MaxWrites
        /\ values' = [values EXCEPT ![back[1]][back[2]] = v]
        /\ fault' = (fault \/ back[1] \notin heap)
        /\ log' = Append(log, v)
        /\ back' = end /\ end' = <<end[1], end[2] + 1>>
        /\ complete' = ~incomplete
    BY DEF write, Touch, reader
  <1>2. /\ f' = f \/ f' = end
        /\ end[2] + 1 = N => f' = f /\ wpc' = "spare"
        /\ end[2] + 1 # N => wpc' = "idle"
    BY DEF write
  <1>3. /\ end = <<end[1], end[2]>> /\ end[1] \in Linked /\ end[1] \in Chunk
        /\ end[2] \in 0..(N - 1)
        /\ base[end[1]] \in Nat /\ At(end) = At(back) + 1 /\ Len(log) \in Nat
    BY <1>1, EndFacts DEF IInv, Pointers, Pushing
  <1>4. /\ back[1] \in Linked /\ back[1] \in Chunk /\ back[2] \in 0..(N - 1)
        /\ At(back) \in Nat
        /\ At(f) \in Nat /\ f[1] \in Linked /\ f \in Address
    BY CellFacts DEF IInv, Pointers
  <1>5. Linked' = Linked
    BY <1>1 DEF Linked
  <1>6. IsCell(end) /\ end' \in Linked \X (0..N)
    BY <1>1, <1>3 DEF IsCell
  <1>7. log' \in Seq(Value) /\ Len(log') = Len(log) + 1
        /\ (\A i \in 1..Len(log) : log'[i] = log[i]) /\ log'[Len(log) + 1] = v
    BY <1>1, AppendKeeps DEF IInv, TypeOK
  <1>8. values' \in [Chunk -> [0..(N - 1) -> Value \cup {Junk}]]
    BY <1>1, <1>4 DEF IInv, TypeOK
  <1>9. TypeOK'
    <2>1. end' \in Address /\ end \in Address
      BY <1>6, LinkedFacts, EndFacts DEF IInv, Address
    <2>2. {begin, back, end, w, f, r, c}' \subseteq Address
      BY <1>1, <1>2, <2>1 DEF IInv, TypeOK
    <2>3. complete' \in BOOLEAN /\ fault' \in BOOLEAN
      BY <1>1
    <2>4. wpc' \in {"idle", "spare"}
      BY <1>2
    <2> QED BY <1>1, <1>7, <1>8, <2>2, <2>3, <2>4 DEF IInv, TypeOK
  <1>10. ~fault' /\ Holders'
    BY <1>1, <1>4 DEF IInv, Holders, Linked
  <1>11. Apart' /\ Bounds' /\ Above' /\ Below'
    BY <1>1, <1>5, ListKept
  <1>12. Pointers'
    <2>1. (end'[2] = N) <=> Pushing'
      BY <1>1, <1>2, <1>3 DEF Pushing
    <2> QED BY <1>1, <1>2, <1>5, <1>6, <2>1 DEF IInv, Pointers, IsCell
  <1>13. Order'
    <2>1. /\ At(begin)' = At(begin) /\ At(w)' = At(w) /\ At(r)' = At(r)
          /\ At(back)' = At(end) /\ At(end)' = At(end) + 1
          /\ At(f)' = At(f) \/ (At(f)' = At(end) /\ f' = end)
      <3>1. base' = base /\ begin' = begin /\ w' = w /\ r' = r /\ back' = end
        BY <1>1
      <3>2. end'[1] = end[1] /\ end'[2] = end[2] + 1
        BY <1>1
      <3>3. At(begin)' = At(begin) /\ At(w)' = At(w) /\ At(r)' = At(r) /\ At(back)' = At(end)
        BY <3>1 DEF At
      <3>4. At(end)' = At(end) + 1
        BY <1>3, <3>1, <3>2 DEF At
      <3>5. At(f)' = At(f) \/ (At(f)' = At(end) /\ f' = end)
        BY <1>2, <3>1 DEF At
      <3> QED BY <3>3, <3>4, <3>5
    <2>2. At(w) \in Nat
      BY CellFacts DEF IInv, Pointers
    <2>3. /\ At(begin)' <= At(w)' /\ At(w)' <= At(f)' /\ At(f)' <= At(back)'
          /\ At(back)' = Len(log') + 1 /\ At(end)' = Len(log') + 2
          /\ Len(log') <= MaxWrites
      BY <1>1, <1>3, <1>4, <1>7, <2>1, <2>2 DEF IInv, Order
    <2>4. Pushing' => At(f)' <= Len(log')
      <3>1. Pushing' => end[2] + 1 = N
        BY <1>2 DEF Pushing
      <3>2. Pushing' => At(f)' = At(f)
        BY <1>1, <1>2, <3>1 DEF At
      <3> QED BY <1>3, <1>4, <1>7, <3>2 DEF IInv, Order
    <2> QED BY <1>1, <2>1, <2>3, <2>4 DEF IInv, Order
  <1>14. Contents'
    <2> SUFFICES ASSUME NEW k \in Linked', NEW i \in 0..(N - 1), base'[k] + i + 1 <= Len(log')
                 PROVE  values'[k][i] = log'[base'[k] + i + 1]
      BY DEF Contents
    <2>0. k \in Linked /\ base'[k] = base[k] /\ base[k] + i + 1 <= Len(log) + 1
      BY <1>1, <1>5, <1>7
    <2>1. k \in Chunk /\ base[k] \in Nat
      BY <2>0, LinkedFacts DEF IInv
    <2>2. CASE k = back[1] /\ i = back[2]
      <3>1. base[k] + i + 1 = Len(log) + 1
        BY <2>2 DEF IInv, Order, At
      <3>2. values'[k][i] = v
        BY <1>1, <1>4, <2>2 DEF IInv, TypeOK
      <3> QED BY <2>0, <3>1, <3>2, <1>7
    <2>3. CASE ~(k = back[1] /\ i = back[2])
      <3>1. values'[k][i] = values[k][i]
        BY <1>1, <1>4, <2>1, <2>3 DEF IInv, TypeOK
      <3>2. base[k] + i + 1 # Len(log) + 1
        <4>1. IsCell(<<k, i>>) /\ IsCell(back)
          BY <2>0 DEF IsCell, IInv, Pointers
        <4>2. <<k, i>> # back
          BY <2>3
        <4>3. At(<<k, i>>) # At(back)
          BY <4>1, <4>2, Unique DEF IInv
        <4> QED BY <4>3 DEF At, IInv, Order
      <3>3. base[k] + i + 1 \in 1..Len(log)
        <4>1. Len(log) \in Nat /\ base[k] \in Nat /\ i \in Nat
          BY <1>3, <2>1
        <4> QED BY <2>0, <3>2, <4>1
      <3> QED BY <2>0, <3>1, <3>3, <1>7 DEF IInv, Contents
    <2> QED BY <2>2, <2>3
  <1> QED BY <1>9, <1>10, <1>11, <1>12, <1>13, <1>14 DEF IInv


\* push() links the spare chunk or a new one, which nobody else has.
LEMMA LinkStep == ASSUME IInv, push_link PROVE IInv'
  <1> USE ChunkAssumption
  <1>1. PICK k \in Chunk :
          /\ IF taken # NoChunk THEN k = taken /\ heap' = heap
                                ELSE k \notin heap /\ heap' = heap \cup {k}
          /\ next' = [next EXCEPT ![end[1]] = k]
          /\ prev' = [prev EXCEPT ![k] = end[1]]
          /\ fault' = (fault \/ end[1] \notin heap \/ k \notin heap')
          /\ base' = [base EXCEPT ![k] = base[end[1]] + N]
          /\ end' = <<k, 0>>
    BY DEF push_link, Malloc
  <1>2. /\ UNCHANGED <<values, spare_chunk, back, w, complete, log, begin, r, rpc, old, got, c>>
        /\ wpc = "link" /\ wpc' = "idle" /\ taken' = NoChunk
        /\ f' = IF complete THEN back ELSE f
    BY DEF push_link, reader
  <1>3. /\ end[1] \in Linked /\ end[1] \in Chunk /\ end[2] = N /\ base[end[1]] \in Nat
        /\ At(end) = At(back) + 1 /\ Len(log) \in Nat
    BY <1>2, EndFacts DEF IInv, Pointers, Pushing
  <1>4. k \notin Linked /\ Linked' = Linked \cup {k} /\ k \in heap' /\ Linked \subseteq heap
        /\ k # spare_chunk /\ k # old
    BY <1>1, <1>2 DEF IInv, Linked, Holders, TypeOK
  <1>5. /\ \A j \in Linked : base'[j] = base[j] /\ prev'[j] = prev[j]
        /\ \A j \in Linked : j # end[1] => next'[j] = next[j]
        /\ base'[k] = base[end[1]] + N /\ prev'[k] = end[1] /\ next'[end[1]] = k
    BY <1>1, <1>3, <1>4, LinkedFacts DEF IInv, TypeOK
  <1>6. TypeOK'
    <2>1. /\ heap' \subseteq Chunk
          /\ prev' \in [Chunk -> Chunk \cup {NoChunk, Junk}]
          /\ next' \in [Chunk -> Chunk \cup {NoChunk, Junk}]
      BY <1>1, <1>3 DEF IInv, TypeOK
    <2>2. base' \in [Chunk -> Nat]
      BY <1>1, <1>3 DEF IInv, TypeOK
    <2>3. end' \in Address
      BY <1>1 DEF Address
    <2>4. {begin, back, end, w, f, r, c}' \subseteq Address
      BY <1>2, <2>3 DEF IInv, TypeOK
    <2>5. fault' \in BOOLEAN
      BY <1>1
    <2> QED BY <1>2, <2>1, <2>2, <2>4, <2>5 DEF IInv, TypeOK
  <1>7. ~fault' /\ Holders'
    BY <1>1, <1>2, <1>3, <1>4 DEF IInv, Holders
  <1>8. \A j \in Linked : base[j] \in Nat /\ base[j] <= base[end[1]] /\ base[j] + N <= base'[k]
    BY <1>3, <1>5, LinkedFacts DEF IInv, Bounds
  <1>9. begin[1] \in Linked /\ back[1] \in Linked /\ w[1] \in Linked /\ f[1] \in Linked
    BY CellFacts DEF IInv, Pointers
  <1>10. Apart'
    BY <1>4, <1>5, <1>8 DEF IInv, Apart
  <1>11. Bounds'
    BY <1>1, <1>2, <1>3, <1>4, <1>5, <1>8, <1>9 DEF IInv, Bounds
  <1>12. Above'
    <2>1. end'[1] = k
      BY <1>1
    <2> SUFFICES ASSUME NEW j \in Linked PROVE next'[j] \in Linked' /\ base'[next'[j]] = base'[j] + N
      BY <1>4, <2>1 DEF Above
    <2>2. CASE j = end[1]
      BY <1>4, <1>5, <2>2
    <2>3. CASE j # end[1]
      BY <1>4, <1>5, <2>3 DEF IInv, Above
    <2> QED BY <2>2, <2>3
  <1>13. Below'
    <2> SUFFICES ASSUME NEW j \in Linked', j # begin[1]
                 PROVE  prev'[j] \in Linked' /\ next'[prev'[j]] = j /\ base'[j] = base'[prev'[j]] + N
      BY <1>2 DEF Below
    <2>1. CASE j = k
      BY <1>3, <1>4, <1>5, <2>1
    <2>2. CASE j \in Linked
      <3>1. prev[j] \in Linked /\ next[prev[j]] = j /\ base[j] = base[prev[j]] + N
        BY <2>2 DEF IInv, Below
      <3>2. prev[j] # end[1]
        BY <1>3, <1>8, <2>2, <3>1
      <3> QED BY <1>4, <1>5, <2>2, <3>1, <3>2
    <2> QED BY <1>4, <2>1, <2>2
  <1>14. Pointers'
    <2>1. \A a : IsCell(a) => a \in Linked' \X (0..(N - 1))
      BY <1>4 DEF IsCell
    <2>2. end' \in Linked' \X (0..N) /\ end'[2] # N
      BY <1>1, <1>4
    <2>3. ~Pushing'
      BY <1>2 DEF Pushing
    <2>4. IsCell(f')
      BY <1>2 DEF IInv, Pointers
    <2> QED BY <1>2, <2>1, <2>2, <2>3, <2>4 DEF IInv, Pointers, IsCell
  <1>15. Order'
    <2>1. /\ At(begin)' = At(begin) /\ At(back)' = At(back) /\ At(w)' = At(w)
          /\ At(f)' \in {At(f), At(back)}
      BY <1>2, <1>5, <1>9 DEF At
    <2>2. At(end)' = At(end)
      BY <1>1, <1>3, <1>5 DEF At
    <2>3. r # NULL => At(r)' = At(r)
      <3>1. r # NULL => r[1] \in Linked
        BY CellFacts DEF IInv, Pointers
      <3> QED BY <1>2, <1>5, <3>1 DEF At
    <2>4. At(back) \in Nat /\ At(f) \in Nat /\ At(w) \in Nat
      BY CellFacts DEF IInv, Pointers
    <2>5. At(w) <= At(f)' /\ At(f)' <= At(back)
      BY <2>1, <2>4 DEF IInv, Order
    <2>6. ~Pushing'
      BY <1>2 DEF Pushing
    <2> QED BY <1>2, <2>1, <2>2, <2>3, <2>5, <2>6 DEF IInv, Order
  <1>16. Contents'
    <2> SUFFICES ASSUME NEW j \in Linked', NEW i \in 0..(N - 1), base'[j] + i + 1 <= Len(log')
                 PROVE  values'[j][i] = log'[base'[j] + i + 1]
      BY DEF Contents
    <2>1. j # k
      <3>1. base[end[1]] + N + 1 = Len(log) + 2
        BY <1>3 DEF IInv, Order, At
      <3> QED BY <1>2, <1>3, <1>5, <3>1
    <2> QED BY <1>2, <1>4, <1>5, <2>1 DEF IInv, Contents
  <1> QED BY <1>6, <1>7, <1>10, <1>11, <1>12, <1>13, <1>14, <1>15, <1>16 DEF IInv


LEMMA DropLast ==
  ASSUME NEW S, NEW s \in Seq(S), Len(s) > 0
  PROVE  /\ SubSeq(s, 1, Len(s) - 1) \in Seq(S)
         /\ Len(SubSeq(s, 1, Len(s) - 1)) = Len(s) - 1
         /\ \A i \in 1..(Len(s) - 1) : SubSeq(s, 1, Len(s) - 1)[i] = s[i]
  <1> DEFINE n == Len(s) - 1
             t == SubSeq(s, 1, n)
  <1>1. n \in Nat /\ \A i \in 1..n : s[i] \in S
    OBVIOUS
  <1> HIDE DEF n
  <1>2. /\ t \in Seq(S)
        /\ Len(t) = IF 1 <= n THEN n - 1 + 1 ELSE 0
        /\ \A i \in 1..(n - 1 + 1) : t[i] = s[1 + i - 1]
    BY <1>1, SubSeqProperties
  <1> HIDE DEF t
  <1>3. t \in Seq(S) /\ Len(t) = n /\ \A i \in 1..n : t[i] = s[i]
    <2>1. n - 1 + 1 = n /\ \A i \in 1..n : 1 + i - 1 = i
      BY <1>1
    <2> QED
      BY <1>1, <1>2, <2>1
  <1> QED
    BY <1>3 DEF n, t

\* unpush() moves back to the cell before: f, and so everything the reader can
\* reach, is there or below.
LEMMA BackFacts ==
  ASSUME IInv, f # back, ~Pushing
  PROVE  /\ IsCell(Before(back)) /\ At(Before(back)) = At(back) - 1
         /\ At(f) <= At(back) - 1 /\ Len(log) > 0
         /\ end[2] = 0 => end[1] # begin[1]
         /\ end[2] # 0 => Before(end) = <<end[1], end[2] - 1>>
         /\ back[1] \in Linked
  <1> USE ChunkAssumption
  <1>1. /\ back[1] \in Linked /\ back[2] \in 0..(N - 1) /\ base[back[1]] \in Nat
        /\ At(back) \in Nat /\ At(f) \in Nat \ {0} /\ At(begin) \in Nat /\ At(w) \in Nat
        /\ base[begin[1]] \in Nat /\ base[begin[1]] < At(begin)
    BY CellFacts DEF IInv, Pointers
  <1>2. At(f) # At(back)
    BY Unique DEF IInv, Pointers
  <1>3. At(f) < At(back) /\ At(begin) < At(back)
    BY <1>1, <1>2 DEF IInv, Order
  <1>4. Len(log) > 0
    BY <1>1, <1>3, EndFacts DEF IInv, Order
  <1>5. IsCell(Before(back)) /\ At(Before(back)) = At(back) - 1
    <2>1. CASE back[2] > 0
      <3>1. Before(back) = <<back[1], back[2] - 1>> /\ back[2] - 1 \in 0..(N - 1)
        BY <1>1, <2>1 DEF Before
      <3> QED BY <1>1, <3>1 DEF At, IsCell
    <2>2. CASE back[2] = 0
      <3>1. Before(back) = <<prev[back[1]], N - 1>>
        BY <2>2 DEF Before
      <3>2. back[1] # begin[1]
        BY <1>1, <1>3, <2>2 DEF At
      <3>3. /\ prev[back[1]] \in Linked
            /\ base[back[1]] = base[prev[back[1]]] + N
        BY <1>1, <3>2 DEF IInv, Below
      <3>4. base[prev[back[1]]] \in Nat
        BY <3>3, LinkedFacts DEF IInv
      <3>5. N - 1 \in 0..(N - 1)
        OBVIOUS
      <3> QED BY <2>2, <3>1, <3>3, <3>4, <3>5 DEF At, IsCell
    <2> QED BY <1>1, <2>1, <2>2
  <1>6. end[2] = 0 => end[1] # begin[1]
    BY <1>1, <1>3, EndFacts DEF At
  <1>7. end[2] # 0 => Before(end) = <<end[1], end[2] - 1>>
    BY EndFacts DEF Before
  <1> QED BY <1>1, <1>3, <1>4, <1>5, <1>6, <1>7

\* The parts of the invariant that unwrite() keeps whatever it does to the list,
\* if the cells up to its new back are still linked.
LEMMA UnwritePointers ==
  ASSUME IInv, f # back, ~Pushing, ~Pushing',
         UNCHANGED <<w, f, begin, r, c, got>>,
         back' = Before(back), log' = SubSeq(log, 1, Len(log) - 1),
         Linked' \subseteq Linked,
         \A k \in Linked' : base'[k] = base[k] /\ values'[k] = values[k],
         \A k \in Linked : base[k] + 1 <= At(back) - 1 => k \in Linked',
         end' \in Linked' \X (0..(N - 1)), At(end)' = At(end) - 1
  PROVE  Pointers' /\ Order' /\ Contents' /\ log' \in Seq(Value)
  <1> USE ChunkAssumption
  <1>1. /\ IsCell(Before(back)) /\ At(Before(back)) = At(back) - 1
        /\ At(f) <= At(back) - 1 /\ Len(log) > 0
    BY BackFacts
  <1>2. log' \in Seq(Value) /\ Len(log') = Len(log) - 1 /\ Len(log) \in Nat
        /\ \A i \in 1..(Len(log) - 1) : log'[i] = log[i]
    BY <1>1, DropLast, EndFacts DEF IInv, TypeOK
  <1>3. ASSUME NEW a, IsCell(a), At(a) <= At(back) - 1
        PROVE  a \in Linked' \X (0..(N - 1)) /\ base'[a[1]] + a[2] + 1 = At(a)
    <2>1. a = <<a[1], a[2]>> /\ a[1] \in Linked /\ a[2] \in 0..(N - 1) /\ base[a[1]] \in Nat
      BY <1>3, CellFacts DEF IInv
    <2>2. At(back) \in Nat
      BY CellFacts DEF IInv, Pointers
    <2>3. a[1] \in Linked'
      BY <1>3, <2>1, <2>2 DEF At
    <2> QED BY <2>1, <2>3 DEF At
  <1>4. /\ IsCell(begin) /\ IsCell(w) /\ IsCell(f)
        /\ At(begin) \in Nat /\ At(w) \in Nat /\ At(f) \in Nat /\ At(back) \in Nat
        /\ r # NULL => IsCell(r) /\ At(r) \in Nat
    BY CellFacts DEF IInv, Pointers
  <1>5. /\ At(begin) <= At(back) - 1 /\ At(w) <= At(back) - 1
        /\ r # NULL => At(r) <= At(back) - 1
    BY <1>1, <1>4 DEF IInv, Order
  <1>6. Pointers'
    <2>1. end'[2] # N
      OBVIOUS
    <2>2. end' \in Linked' \X (0..N)
      OBVIOUS
    <2>3. IsCell(begin)' /\ IsCell(back)' /\ IsCell(w)' /\ IsCell(f)'
      BY <1>1, <1>3, <1>4, <1>5 DEF IsCell
    <2>4. r' # NULL => IsCell(r)'
      BY <1>3, <1>4, <1>5 DEF IsCell
    <2> QED BY <2>1, <2>2, <2>3, <2>4 DEF IInv, Pointers
  <1>7. Order'
    <2>1. /\ At(begin)' = At(begin) /\ At(w)' = At(w) /\ At(f)' = At(f)
          /\ At(back)' = At(back) - 1
          /\ r # NULL => At(r)' = At(r)
      BY <1>1, <1>3, <1>4, <1>5 DEF At
    <2>2. At(back)' = Len(log') + 1 /\ At(end)' = Len(log') + 2 /\ Len(log') <= MaxWrites
      BY <1>2, <2>1 DEF IInv, Order
    <2>3. /\ At(begin)' <= At(w)' /\ At(w)' <= At(f)' /\ At(f)' <= At(back)'
          /\ At(begin)' = Len(got') + 1
          /\ r' # NULL => At(begin)' <= At(r)' /\ At(r)' <= At(w)'
      BY <1>1, <2>1 DEF IInv, Order
    <2> QED BY <2>2, <2>3 DEF Order
  <1>8. Contents'
    <2> SUFFICES ASSUME NEW k \in Linked', NEW i \in 0..(N - 1), base'[k] + i + 1 <= Len(log')
                 PROVE  values'[k][i] = log'[base'[k] + i + 1]
      BY DEF Contents
    <2>1. k \in Linked /\ base'[k] = base[k] /\ base[k] \in Nat /\ values'[k] = values[k]
      BY LinkedFacts DEF IInv
    <2>2. base[k] + i + 1 \in 1..(Len(log) - 1)
      BY <1>2, <2>1
    <2>3. values[k][i] = log[base[k] + i + 1]
      BY <1>2, <2>1, <2>2 DEF IInv, Contents
    <2>4. log'[base[k] + i + 1] = log[base[k] + i + 1]
      BY <1>2, <2>2
    <2> QED BY <2>1, <2>3, <2>4
  <1> QED BY <1>2, <1>6, <1>7, <1>8


LEMMA UnwriteStep == ASSUME IInv, unwrite PROVE IInv'
  <1> USE ChunkAssumption
  <1>1. /\ UNCHANGED <<spare_chunk, w, f, wpc, taken, complete, begin, r, rpc, old, got, c>>
        /\ wpc = "idle" /\ f # back
        /\ back' = Before(back) /\ end' = Before(end)
        /\ log' = SubSeq(log, 1, Len(log) - 1)
    BY DEF unwrite, reader
  <1>2. ~Pushing /\ ~Pushing'
    BY <1>1 DEF Pushing
  <1>3. /\ IsCell(Before(back)) /\ At(Before(back)) = At(back) - 1
        /\ end[2] = 0 => end[1] # begin[1]
        /\ end[2] # 0 => Before(end) = <<end[1], end[2] - 1>>
        /\ back[1] \in Linked /\ Linked \subseteq heap
    BY <1>1, <1>2, BackFacts DEF Linked
  <1>4. /\ end[1] \in Linked /\ end[1] \in Chunk /\ end[2] \in 0..(N - 1) /\ base[end[1]] \in Nat
        /\ At(end) = At(back) + 1
    BY <1>2, EndFacts DEF IInv, Pointers
  <1>5. CASE end[2] # 0
    <2>1. UNCHANGED <<heap, values, prev, next, base>> /\ fault' = (fault \/ back[1] \notin heap)
      BY <1>4, <1>5 DEF unwrite, Touch
    <2>2. Linked' = Linked
      BY <1>1, <2>1 DEF Linked
    <2>3. end' = <<end[1], end[2] - 1>> /\ end' \in Linked \X (0..(N - 1))
      BY <1>1, <1>3, <1>4, <1>5
    <2>4. At(end)' = At(end) - 1
      BY <1>4, <2>1, <2>3 DEF At
    <2>5. Pointers' /\ Order' /\ Contents' /\ log' \in Seq(Value)
      BY <1>1, <1>2, <2>1, <2>2, <2>3, <2>4, UnwritePointers
    <2>6. Apart' /\ Bounds' /\ Above' /\ Below'
      BY <1>1, <2>1, <2>2, <2>3, ListKept
    <2>7. ~fault' /\ Holders'
      BY <1>1, <1>3, <2>1 DEF IInv, Holders
    <2>8. TypeOK'
      <3>1. end' \in Address /\ back' \in Address
        BY <1>1, <1>3, <2>3, CellFacts, LinkedFacts DEF IInv, Address
      <3>2. {begin, back, end, w, f, r, c}' \subseteq Address
        BY <1>1, <3>1 DEF IInv, TypeOK
      <3>3. fault' \in BOOLEAN
        BY <2>1
      <3> QED BY <1>1, <2>1, <2>5, <3>2, <3>3 DEF IInv, TypeOK
    <2> QED BY <2>5, <2>6, <2>7, <2>8 DEF IInv
  <1>6. CASE end[2] = 0
    <2> DEFINE p == prev[end[1]]
               e == end[1]
    <2>1. /\ fault' = (fault \/ ~({p, e, back[1]} \subseteq heap) \/ next[p] # e)
          /\ heap' = heap \ {e}
          /\ values' = [x \in Chunk |-> IF x = e THEN Fresh ELSE values[x]]
          /\ base' = [x \in Chunk |-> IF x = e THEN 0 ELSE base[x]]
          /\ prev' = [x \in Chunk |-> IF x = e THEN Junk ELSE prev[x]]
          /\ next' = [next EXCEPT ![p] = NoChunk, ![e] = Junk]
      BY <1>6 DEF unwrite, Free
    <2>2. p \in Linked /\ next[p] = e /\ base[e] = base[p] + N /\ end' = <<p, N - 1>>
      BY <1>1, <1>3, <1>4, <1>6 DEF IInv, Below, Before
    <2>3. p \in Chunk /\ base[p] \in Nat /\ p # e /\ e \in Linked /\ e \in Chunk /\ base[e] \in Nat
      BY <1>4, <2>2, LinkedFacts DEF IInv
    <2>4. Linked' = Linked \ {e}
      BY <1>1, <2>1 DEF Linked
    <2> HIDE DEF p, e
    <2>5. \A k \in Linked : k # e => /\ base'[k] = base[k] /\ values'[k] = values[k]
                                     /\ prev'[k] = prev[k]
                                     /\ k # p => next'[k] = next[k]
      BY <2>1, <2>3, LinkedFacts DEF IInv, TypeOK
    <2>6. At(end)' = At(end) - 1
      BY <1>6, <2>2, <2>3, <2>5 DEF At, e
    <2>7. \A k \in Linked : base[k] \in Nat /\ (k # e => base[k] + N <= base[e])
      BY <2>3, LinkedFacts DEF IInv, Bounds, Apart, e
    <2>8. end' \in Linked' \X (0..(N - 1))
      BY <2>2, <2>3, <2>4
    <2>9. Pointers' /\ Order' /\ Contents' /\ log' \in Seq(Value)
      <3>1. \A k \in Linked' : base'[k] = base[k] /\ values'[k] = values[k]
        BY <2>4, <2>5
      <3>2. At(back) = base[e]
        BY <1>4, <1>6, <2>3, CellFacts DEF At, e, IInv, Pointers
      <3>3. \A k \in Linked : base[k] + 1 <= At(back) - 1 => k \in Linked'
        BY <2>3, <2>4, <2>7, <3>2
      <3> QED BY <1>1, <1>2, <2>4, <2>6, <2>8, <3>1, <3>3, UnwritePointers
    <2>10. Apart'
      BY <2>4, <2>5 DEF IInv, Apart
    <2>11. begin' = begin /\ begin[1] \in Linked /\ begin[1] # e
      BY <1>1, <1>3, <1>6, CellFacts DEF IInv, Pointers, e
    <2>12. Bounds'
      BY <2>2, <2>3, <2>4, <2>5, <2>7, <2>11 DEF IInv, Bounds
    <2>13. Above'
      <3> SUFFICES ASSUME NEW k \in Linked', k # p
                   PROVE  next'[k] \in Linked' /\ base'[next'[k]] = base'[k] + N
        BY <2>2 DEF Above
      <3>1. k \in Linked /\ k # e
        BY <2>4
      <3>2. next[k] \in Linked /\ base[next[k]] = base[k] + N
        BY <3>1 DEF IInv, Above, e
      <3>3. next[k] # e
        BY <2>2, <2>3, <2>7, <3>1, <3>2 DEF IInv, Apart
      <3> QED BY <2>4, <2>5, <3>1, <3>2, <3>3
    <2>14. Below'
      <3> SUFFICES ASSUME NEW k \in Linked', k # begin[1]
                   PROVE  prev'[k] \in Linked' /\ next'[prev'[k]] = k /\ base'[k] = base'[prev'[k]] + N
        BY <2>11 DEF Below
      <3>1. k \in Linked /\ k # e
        BY <2>4
      <3>2. prev[k] \in Linked /\ next[prev[k]] = k /\ base[k] = base[prev[k]] + N
        BY <3>1 DEF IInv, Below
      <3>3. prev[k] # e
        BY <2>3, <2>7, <3>1, <3>2
      <3>4. prev[k] # p
        BY <2>2, <3>1, <3>2
      <3> QED BY <2>4, <2>5, <3>1, <3>2, <3>3, <3>4
    <2>15. ~fault' /\ Holders'
      BY <1>1, <1>3, <2>1, <2>2, <2>3 DEF IInv, Holders, Linked
    <2>16. TypeOK'
      <3>1. end' \in Address /\ back' \in Address
        BY <1>1, <1>3, <2>2, <2>3, CellFacts DEF IInv, Address
      <3>2. {begin, back, end, w, f, r, c}' \subseteq Address
        BY <1>1, <3>1 DEF IInv, TypeOK
      <3>3. fault' \in BOOLEAN
        BY <2>1
      <3>4. Fresh \in [0..(N - 1) -> Value \cup {Junk}]
        BY DEF Fresh
      <3>5. values' \in [Chunk -> [0..(N - 1) -> Value \cup {Junk}]]
        BY <2>1, <3>4 DEF IInv, TypeOK
      <3>6. /\ prev' \in [Chunk -> Chunk \cup {NoChunk, Junk}]
            /\ next' \in [Chunk -> Chunk \cup {NoChunk, Junk}]
            /\ base' \in [Chunk -> Nat] /\ heap' \subseteq Chunk
        BY <2>1, <2>3 DEF IInv, TypeOK
      <3> QED BY <1>1, <2>9, <3>2, <3>3, <3>5, <3>6 DEF IInv, TypeOK
    <2> QED BY <2>9, <2>10, <2>12, <2>13, <2>14, <2>15, <2>16 DEF IInv
  <1> QED BY <1>5, <1>6


-----------------------------------------------------------------------------
(* The reader's step on the list.                                          *)

\* What the reader is about to read was flushed, and the end is further on.
LEMMA FrontFacts ==
  ASSUME IInv, Prefetched
  PROVE  /\ At(begin) < At(r) /\ At(begin) < At(w) /\ At(begin) < At(f)
         /\ At(begin) < At(back) /\ At(begin) + 1 < At(end)
         /\ At(begin) \in 1..Len(log) /\ (Pushing => At(begin) \in 1..(Len(log) - 1))
         /\ values[begin[1]][begin[2]] = log[At(begin)] /\ log[At(begin)] \in Value
         /\ begin[2] = N - 1 => begin[1] # end[1]
  <1> USE ChunkAssumption
  <1>1. r # begin /\ IsCell(r) /\ IsCell(begin) /\ r # NULL
    BY DEF Prefetched, IInv, Pointers
  <1>2. /\ At(begin) \in Nat \ {0} /\ At(w) \in Nat /\ At(f) \in Nat /\ At(back) \in Nat /\ At(r) \in Nat
        /\ Len(log) \in Nat /\ At(end) = At(back) + 1
    BY <1>1, CellFacts, EndFacts DEF IInv, Pointers
  <1>3. At(r) # At(begin)
    BY <1>1, Unique DEF IInv
  <1>4. /\ At(begin) < At(r) /\ At(begin) < At(w) /\ At(begin) < At(f)
        /\ At(begin) < At(back) /\ At(begin) + 1 < At(end)
    BY <1>1, <1>2, <1>3 DEF IInv, Order
  <1>5. At(begin) \in 1..Len(log)
    BY <1>2, <1>4 DEF IInv, Order
  <1>6. Pushing => At(begin) \in 1..(Len(log) - 1)
    <2>1. log # <<>>
      BY <1>5
    <2> QED BY <1>2, <1>4, <2>1 DEF IInv, Order
  <1>7. values[begin[1]][begin[2]] = log[At(begin)]
    BY <1>1, <1>5, CellFacts DEF IInv, Contents, At
  <1>8. log[At(begin)] \in Value
    BY <1>5 DEF IInv, TypeOK
  <1>9. begin[2] = N - 1 => begin[1] # end[1]
    <2>1. base[begin[1]] \in Nat /\ end[2] \in 0..N
      BY <1>1, CellFacts, EndFacts DEF IInv
    <2>2. begin[2] = N - 1 => At(begin) = base[begin[1]] + N
      BY <2>1 DEF At
    <2>3. At(end) = base[end[1]] + end[2] + 1
      BY DEF At
    <2>4. end[1] = begin[1] => At(end) <= base[begin[1]] + N + 1
      BY <2>1, <2>3
    <2> QED BY <1>2, <1>4, <2>1, <2>2, <2>4
  <1> QED BY <1>4, <1>5, <1>6, <1>7, <1>8, <1>9

\* The parts of the invariant that read() keeps whatever it does to the list,
\* if the cells behind the one that is read are still linked.
LEMMA ReadPointers ==
  ASSUME IInv, Prefetched, UNCHANGED <<back, end, w, f, wpc, log, r, c>>,
         got' = Append(got, values[begin[1]][begin[2]]),
         Linked' \subseteq Linked, end[1] \in Linked',
         \A k \in Linked' : base'[k] = base[k] /\ values'[k] = values[k],
         \A k \in Linked : base[k] + N >= At(begin) + 1 => k \in Linked',
         begin' \in Linked' \X (0..(N - 1)), At(begin)' = At(begin) + 1
  PROVE  Pointers' /\ Order' /\ Contents' /\ got' \in Seq(Value)
  <1> USE ChunkAssumption
  <1>1. /\ At(begin) < At(r) /\ At(begin) < At(w) /\ At(begin) < At(f) /\ At(begin) < At(back)
        /\ values[begin[1]][begin[2]] \in Value
    BY FrontFacts
  <1>2. got' \in Seq(Value) /\ Len(got') = Len(got) + 1
    BY <1>1, AppendKeeps DEF IInv, TypeOK
  <1>3. ASSUME NEW a, IsCell(a), At(begin) < At(a)
        PROVE  a \in Linked' \X (0..(N - 1)) /\ base'[a[1]] + a[2] + 1 = At(a)
    <2>1. a = <<a[1], a[2]>> /\ a[1] \in Linked /\ a[2] \in 0..(N - 1) /\ base[a[1]] \in Nat
      BY <1>3, CellFacts DEF IInv
    <2>2. At(begin) \in Nat
      BY CellFacts DEF IInv, Pointers
    <2>3. a[1] \in Linked'
      BY <1>3, <2>1, <2>2 DEF At
    <2> QED BY <2>1, <2>3 DEF At
  <1>4. /\ IsCell(back) /\ IsCell(w) /\ IsCell(f) /\ IsCell(r) /\ r # NULL
        /\ At(begin) \in Nat /\ At(w) \in Nat /\ At(f) \in Nat /\ At(back) \in Nat /\ At(r) \in Nat
    BY CellFacts DEF IInv, Pointers, Prefetched
  <1>5. Pushing' <=> Pushing
    BY DEF Pushing
  <1>6. Pointers'
    <2>1. end' \in Linked' \X (0..N)
      BY EndFacts
    <2>2. IsCell(begin)' /\ IsCell(back)' /\ IsCell(w)' /\ IsCell(f)' /\ IsCell(r)'
      BY <1>1, <1>3, <1>4 DEF IsCell
    <2> QED BY <1>5, <2>1, <2>2 DEF IInv, Pointers
  <1>7. Order'
    <2>1. /\ At(w)' = At(w) /\ At(f)' = At(f) /\ At(back)' = At(back) /\ At(r)' = At(r)
      BY <1>1, <1>3, <1>4 DEF At
    <2>2. At(end)' = At(end)
      BY DEF At
    <2>3. /\ At(begin)' <= At(w)' /\ At(begin)' <= At(r)' /\ At(begin)' = Len(got') + 1
      BY <1>1, <1>2, <1>4, <2>1 DEF IInv, Order
    <2> QED BY <1>4, <1>5, <2>1, <2>2, <2>3 DEF IInv, Order
  <1>8. Contents'
    BY DEF IInv, Contents
  <1> QED BY <1>2, <1>6, <1>7, <1>8

LEMMA ReadStep == ASSUME IInv, read PROVE IInv'
  <1> USE ChunkAssumption
  <1>1. /\ UNCHANGED <<heap, values, next, spare_chunk, base, back, end, w, f, wpc, taken,
                       complete, log, r, c>>
        /\ rpc = "idle" /\ Prefetched
        /\ got' = Append(got, values[begin[1]][begin[2]])
    BY DEF read, writer
  <1>2. /\ begin = <<begin[1], begin[2]>> /\ begin[1] \in Linked /\ begin[1] \in Chunk
        /\ begin[2] \in 0..(N - 1) /\ base[begin[1]] \in Nat /\ At(begin) \in Nat
    BY CellFacts DEF IInv, Pointers
  <1>3. old = NoChunk
    BY <1>1 DEF IInv, Holders
  <1>4. end[1] \in Linked /\ Linked \subseteq heap
    BY EndFacts DEF Linked
  <1>5. CASE begin[2] + 1 # N
    <2>1. /\ begin' = <<begin[1], begin[2] + 1>> /\ UNCHANGED <<prev, rpc, old>>
          /\ fault' = (fault \/ begin[1] \notin heap)
      BY <1>5 DEF read, Touch
    <2>2. Linked' = Linked
      BY <1>1, <2>1 DEF Linked
    <2>3. begin' \in Linked' \X (0..(N - 1)) /\ At(begin)' = At(begin) + 1
      <3>1. begin[2] + 1 \in 0..(N - 1)
        BY <1>2, <1>5
      <3>2. begin'[1] = begin[1] /\ begin'[2] = begin[2] + 1 /\ base' = base
        BY <1>1, <2>1
      <3>3. At(begin)' = At(begin) + 1
        BY <1>2, <3>2 DEF At
      <3> QED BY <1>2, <2>1, <2>2, <3>1, <3>3
    <2>4. Pointers' /\ Order' /\ Contents' /\ got' \in Seq(Value)
      BY <1>1, <1>4, <2>2, <2>3, ReadPointers
    <2>5. Apart' /\ Bounds' /\ Above' /\ Below'
      BY <1>1, <2>1, <2>2, ListKept
    <2>6. ~fault' /\ Holders'
      BY <1>1, <1>2, <1>4, <2>1 DEF IInv, Holders
    <2>7. TypeOK'
      <3>1. begin' \in Address
        BY <1>2, <2>3, LinkedFacts, <2>2 DEF IInv, Address
      <3>2. {begin, back, end, w, f, r, c}' \subseteq Address
        BY <1>1, <3>1 DEF IInv, TypeOK
      <3>3. fault' \in BOOLEAN
        BY <2>1
      <3> QED BY <1>1, <2>1, <2>4, <3>2, <3>3 DEF IInv, TypeOK
    <2> QED BY <2>4, <2>5, <2>6, <2>7 DEF IInv
  <1>6. CASE begin[2] + 1 = N
    <2> DEFINE k == next[begin[1]]
               b == begin[1]
    <2>1. /\ fault' = (fault \/ b \notin heap \/ k \notin heap)
          /\ begin' = <<k, 0>> /\ prev' = [x \in Chunk |-> IF x = k THEN NoChunk ELSE prev[x]]
          /\ old' = b /\ rpc' = "recycle"
      BY <1>6 DEF read
    <2>2. b # end[1]
      BY <1>1, <1>2, <1>6, FrontFacts
    <2>3. k \in Linked /\ base[k] = base[b] + N /\ At(begin) = base[b] + N
      BY <1>2, <1>6, <2>2 DEF IInv, Above, At
    <2>4. b \in Linked /\ b \in Chunk /\ base[b] \in Nat /\ k \in Chunk /\ k # b
      BY <1>2, <2>3, LinkedFacts DEF IInv
    <2> HIDE DEF k, b
    <2>5. Linked' = Linked \ {b}
      BY <1>1, <1>3, <2>1, <2>4 DEF Linked, IInv, TypeOK
    <2>6. \A j \in Linked : base[j] \in Nat /\ (j # b => base[b] + N <= base[j])
      BY <2>4, LinkedFacts DEF IInv, Bounds, Apart, b
    <2>7. begin' \in Linked' \X (0..(N - 1)) /\ At(begin)' = At(begin) + 1
      BY <1>1, <2>1, <2>3, <2>4, <2>5 DEF At
    <2>8. Pointers' /\ Order' /\ Contents' /\ got' \in Seq(Value)
      <3>1. \A j \in Linked : base[j] + N >= At(begin) + 1 => j \in Linked'
        BY <2>3, <2>4, <2>5, <2>6
      <3>2. end[1] \in Linked' /\ Linked' \subseteq Linked
        BY <1>4, <2>2, <2>5
      <3> QED BY <1>1, <2>7, <3>1, <3>2, ReadPointers
    <2>9. Apart'
      BY <1>1, <2>5 DEF IInv, Apart
    <2>10. Bounds'
      BY <1>1, <2>1, <2>3, <2>5, <2>6 DEF IInv, Bounds
    <2>11. \A j \in Linked : j # k => prev'[j] = prev[j]
      BY <2>1, LinkedFacts DEF IInv, TypeOK
    <2>12. Above'
      <3> SUFFICES ASSUME NEW j \in Linked, j # b, j # end[1]
                   PROVE  next[j] \in Linked' /\ base[next[j]] = base[j] + N
        BY <1>1, <2>5 DEF Above
      <3>1. next[j] \in Linked /\ base[next[j]] = base[j] + N
        BY DEF IInv, Above
      <3>2. next[j] # b
        BY <2>4, <2>6, <3>1
      <3> QED BY <2>5, <3>1, <3>2
    <2>13. Below'
      <3> SUFFICES ASSUME NEW j \in Linked, j # b, j # k
                   PROVE  prev[j] \in Linked' /\ next[prev[j]] = j /\ base[j] = base[prev[j]] + N
        BY <1>1, <2>1, <2>5, <2>11 DEF Below
      <3>1. prev[j] \in Linked /\ next[prev[j]] = j /\ base[j] = base[prev[j]] + N
        BY DEF IInv, Below, b
      <3>2. prev[j] # b
        BY <3>1 DEF k, b
      <3> QED BY <2>5, <3>1, <3>2
    <2>14. ~fault' /\ Holders'
      BY <1>1, <1>3, <1>4, <2>1, <2>3, <2>4 DEF IInv, Holders, Linked
    <2>15. TypeOK'
      <3>1. begin' \in Address
        BY <2>1, <2>4 DEF Address
      <3>2. {begin, back, end, w, f, r, c}' \subseteq Address
        BY <1>1, <3>1 DEF IInv, TypeOK
      <3>3. fault' \in BOOLEAN
        BY <2>1
      <3>4. prev' \in [Chunk -> Chunk \cup {NoChunk, Junk}] /\ old' \in Chunk
        BY <2>1, <2>4 DEF IInv, TypeOK
      <3> QED BY <1>1, <2>1, <2>8, <3>2, <3>3, <3>4 DEF IInv, TypeOK
    <2> QED BY <2>8, <2>9, <2>10, <2>12, <2>13, <2>14, <2>15 DEF IInv
  <1> QED BY <1>5, <1>6

-----------------------------------------------------------------------------
LEMMA NextIInv == IInv /\ [Next]_vars => IInv'
  <1> SUFFICES ASSUME IInv, [Next]_vars PROVE IInv'
    OBVIOUS
  <1>1. CASE UNCHANGED vars
    <2>1. UNCHANGED <<heap, values, prev, next, spare_chunk, fault, base, back, end, w, f, wpc,
                      taken, complete, log, begin, r, rpc, old, got, c>>
      BY <1>1 DEF vars, memory, writer, reader
    <2>2. Linked' = Linked /\ (Pushing' <=> Pushing)
      BY <2>1 DEF Linked, Pushing
    <2>3. Apart' /\ Bounds' /\ Above' /\ Below' /\ Pointers' /\ Order' /\ Contents'
      BY <2>1, <2>2, CellsKept
    <2>4. TypeOK' /\ ~fault' /\ Holders'
      BY <2>1 DEF IInv, TypeOK, Holders
    <2> QED BY <2>3, <2>4 DEF IInv
  <1>2. CASE Next
    BY <1>2, WriteStep, PushSpare, LinkStep, UnwriteStep, PointerSteps, ReadStep, PopRecycle
       DEF Next, Writer, Reader
  <1> QED BY <1>1, <1>2

THEOREM Invariance == Spec => []IInv
  BY InitIInv, NextIInv, PTL DEF Spec

\* No step of the writer or of the reader uses a chunk that was freed or frees one
\* twice, and every chunk has one holder: AtomicQueue's push, unpush and pop with
\* the spare chunk between them, for every number of values per chunk.
THEOREM OneHolderHolds == Spec => []OneHolder
<1>1. IInv => OneHolder
  <2> SUFFICES ASSUME IInv PROVE OneHolder
    OBVIOUS
  <2>1. LiveChunks = Linked
    BY DEF LiveChunks, Linked, IInv, Bounds
  <2>2. heap = Linked \cup ({spare_chunk, taken, old} \ {NoChunk})
    BY ChunkAssumption DEF Linked, IInv, Holders, TypeOK
  <2>3. \A k \in Linked \ {end[1]} : next[k] \in Linked /\ base[next[k]] = base[k] + N
    BY DEF IInv, Above
  <2> QED BY <2>1, <2>2, <2>3 DEF OneHolder, IInv, Holders
<1> QED BY <1>1, Invariance, PTL


-----------------------------------------------------------------------------
(* The refinement: cells in recycled chunks implement cells in an array.   *)

\* The values whose push() is complete.
Queue == IF wpc \in {"spare", "link"} /\ log # <<>> THEN SubSeq(log, 1, Len(log) - 1) ELSE log

IsPointer(a) == a = NULL \/ IsCell(a)

\* Pointers compare as their positions do.
LEMMA PosFacts ==
  ASSUME TypeOK, Apart, NEW a, NEW b, IsPointer(a), IsPointer(b)
  PROVE  /\ Pos(a) \in Nat /\ (a = NULL => Pos(a) = 0) /\ (a # NULL => Pos(a) = At(a))
         /\ Pos(a) = 0 <=> a = NULL
         /\ Pos(a) = Pos(b) <=> a = b
  <1>1. a # NULL => At(a) \in Nat \ {0} /\ IsCell(a)
    BY CellFacts DEF IsPointer
  <1>2. b # NULL => At(b) \in Nat \ {0} /\ IsCell(b)
    BY CellFacts DEF IsPointer
  <1>3. (a # NULL => Pos(a) = At(a)) /\ (b # NULL => Pos(b) = At(b))
    BY DEF Pos, At
  <1>4. (a = NULL => Pos(a) = 0) /\ (b = NULL => Pos(b) = 0)
    BY DEF Pos
  <1>5. a # NULL /\ b # NULL /\ At(a) = At(b) => a = b
    BY <1>1, <1>2, Unique
  <1> QED BY <1>1, <1>2, <1>3, <1>4, <1>5

LEMMA PointerFacts ==
  ASSUME IInv
  PROVE  /\ IsPointer(begin) /\ IsPointer(back) /\ IsPointer(w) /\ IsPointer(f)
         /\ IsPointer(r) /\ IsPointer(c) /\ TypeOK /\ Apart
         /\ begin # NULL /\ back # NULL /\ w # NULL /\ f # NULL
         /\ Pos(begin) = Len(got) + 1 /\ Pos(back) = Len(log) + 1
         /\ Pos(f) <= Len(log) + 1 /\ Pos(f) \in Nat
  <1>1. /\ IsPointer(begin) /\ IsPointer(back) /\ IsPointer(w) /\ IsPointer(f)
        /\ IsPointer(r) /\ IsPointer(c)
    BY DEF IInv, Pointers, IsPointer
  <1>2. begin # NULL /\ back # NULL /\ w # NULL /\ f # NULL
    BY CellFacts DEF IInv, Pointers
  <1>3. Pos(begin) = At(begin) /\ Pos(back) = At(back) /\ Pos(f) = At(f) /\ Pos(f) \in Nat
    BY <1>1, <1>2, PosFacts DEF IInv
  <1> QED BY <1>1, <1>2, <1>3 DEF IInv, Order

\* A linked chunk keeps its range.
LEMMA BaseKept ==
  ASSUME IInv, Next
  PROVE  \A k \in Linked : k \in Linked' => base'[k] = base[k]
  <1>1. CASE push_link
    <2>1. PICK k \in Chunk :
            /\ IF taken # NoChunk THEN k = taken ELSE k \notin heap
            /\ base' = [base EXCEPT ![k] = base[end[1]] + N]
      BY <1>1 DEF push_link, Malloc
    <2>2. k \notin Linked
      BY <2>1 DEF Linked
    <2> QED BY <2>1, <2>2, LinkedFacts DEF IInv, TypeOK
  <1>2. CASE unwrite
    <2>1. base' = base \/ (heap' = heap \ {end[1]}
                           /\ base' = [x \in Chunk |-> IF x = end[1] THEN 0 ELSE base[x]])
      BY <1>2 DEF unwrite, Free
    <2> QED BY <2>1, LinkedFacts DEF Linked, IInv
  <1>3. CASE pop_recycle
    <2>1. base' = [x \in Chunk |-> IF x = spare_chunk THEN 0 ELSE base[x]]
      BY <1>3 DEF pop_recycle, Free
    <2> QED BY <2>1, LinkedFacts DEF Linked, IInv
  <1>4. ASSUME NEW v \in Value, NEW incomplete \in BOOLEAN, write(v, incomplete) PROVE base' = base
    BY <1>4 DEF write
  <1>5. CASE push_spare \/ flush_cas \/ flush_asleep \/ check_read \/ read
    BY <1>5 DEF push_spare, flush_cas, flush_asleep, check_read, read, memory
  <1> QED BY <1>1, <1>2, <1>3, <1>4, <1>5 DEF Next, Writer, Reader

\* So a pointer that a step leaves alone keeps its position.
LEMMA PosKept ==
  ASSUME IInv, IInv', Next
  PROVE  /\ w' = w => Pos(w)' = Pos(w)
         /\ f' = f => Pos(f)' = Pos(f)
         /\ r' = r => Pos(r)' = Pos(r)
         /\ c' = c => Pos(c)' = Pos(c)
  <1>1. ASSUME NEW a, a # NULL, a \in Linked \X (0..(N - 1)), a \in Linked' \X (0..(N - 1))
        PROVE  base'[a[1]] = base[a[1]]
    BY <1>1, BaseKept
  <1>2. /\ w \in Linked \X (0..(N - 1)) /\ w' \in Linked' \X (0..(N - 1))
        /\ f \in Linked \X (0..(N - 1)) /\ f' \in Linked' \X (0..(N - 1))
        /\ r # NULL => r \in Linked \X (0..(N - 1))
        /\ r' # NULL => r' \in Linked' \X (0..(N - 1))
        /\ c # NULL => c \in Linked \X (0..(N - 1))
        /\ c' # NULL => c' \in Linked' \X (0..(N - 1))
    BY DEF IInv, Pointers, IsCell
  <1>3. w # NULL /\ f # NULL
    BY PointerFacts
  <1>4. w' = w => Pos(w)' = Pos(w)
    BY <1>1, <1>2, <1>3 DEF Pos
  <1>5. f' = f => Pos(f)' = Pos(f)
    BY <1>1, <1>2, <1>3 DEF Pos
  <1>6. r' = r => Pos(r)' = Pos(r)
    BY <1>1, <1>2 DEF Pos
  <1>7. c' = c => Pos(c)' = Pos(c)
    BY <1>1, <1>2 DEF Pos
  <1> QED BY <1>4, <1>5, <1>6, <1>7


Front == Len(got) + 1
Asleep == IF wpc = "asleep" THEN "asleep" ELSE "idle"

\* The constructor's chunk maps to the empty pipe.
LEMMA InitRefines == Init => A!Init
  <1> SUFFICES ASSUME Init PROVE A!Init
    OBVIOUS
  <1>1. PICK k \in Chunk : back = <<k, 0>> /\ w = back /\ f = back /\ r = back /\ c = back
    BY DEF Init
  <1>2. base = [x \in Chunk |-> 0] /\ log = <<>> /\ got = <<>> /\ wpc # "asleep"
    BY DEF Init
  <1>3. Pos(w) = 1 /\ Pos(f) = 1 /\ Pos(r) = 1 /\ Pos(c) = 1
    BY <1>1, <1>2, ChunkAssumption DEF Pos, NULL
  <1> QED BY <1>2, <1>3 DEF A!Init

LEMMA BackPos == IInv => Pos(back) = Len(log) + 1
  BY PointerFacts

LEMMA BackPosNext == IInv' => (Pos(back) = Len(log) + 1)'
  BY BackPos, PTL

\* write() inside a chunk is one step of the pipe; at the end of a chunk the step is
\* taken when the next chunk is linked.
LEMMA WriteRefines ==
  ASSUME IInv, IInv', Next, NEW v \in Value, NEW incomplete \in BOOLEAN, write(v, incomplete)
  PROVE  A!write(v, incomplete) \/ UNCHANGED A!vars
  <1>1. /\ wpc = "idle" /\ Len(log) < MaxWrites /\ log' = Append(log, v)
        /\ UNCHANGED <<base, w, r, c, got>>
    BY DEF write, reader
  <1>2. Pos(w)' = Pos(w) /\ Pos(r)' = Pos(r) /\ Pos(c)' = Pos(c) /\ Front' = Front
    BY <1>1, PosKept DEF Front
  <1>3. Queue = log /\ Len(log) \in Nat /\ log \in Seq(Value) /\ Asleep = "idle"
    BY <1>1 DEF Queue, IInv, TypeOK, Asleep
  <1>4. CASE end[2] + 1 # N
    <2>1. wpc' = "idle" /\ f' = IF incomplete THEN f ELSE end
      BY <1>4 DEF write
    <2>2. Queue' = Append(Queue, v) /\ Asleep' = Asleep
      BY <1>1, <1>3, <2>1 DEF Queue, Asleep
    <2>3. Pos(f)' = IF incomplete THEN Pos(f) ELSE Len(Queue) + 1 + 1
      <3>1. CASE incomplete
        BY <2>1, <3>1, PosKept
      <3>2. CASE ~incomplete
        <4>1. f' = back'
          BY <2>1, <3>2 DEF write
        <4>2. Pos(back)' = Len(log') + 1
          BY BackPosNext
        <4>3. Len(log') = Len(log) + 1
          BY <1>1, <1>3, AppendKeeps
        <4> QED BY <1>3, <3>2, <4>1, <4>2, <4>3 DEF Pos
      <3> QED BY <3>1, <3>2
    <2> QED BY <1>1, <1>2, <1>3, <2>2, <2>3 DEF A!write, A!back, Queue, Front, Asleep
  <1>5. CASE end[2] + 1 = N
    <2>1. wpc' = "spare" /\ f' = f
      BY <1>5 DEF write
    <2>2. Pos(f)' = Pos(f) /\ Asleep' = Asleep
      BY <1>1, <2>1, PosKept DEF Asleep
    <2>3. Queue' = log
      <3>1. log' # <<>> /\ Len(log') - 1 = Len(log)
        BY <1>1, <1>3, AppendKeeps
      <3>2. SubSeq(log', 1, Len(log)) = log
        BY <1>1, <1>3
      <3> QED BY <2>1, <3>1, <3>2 DEF Queue
    <2> QED BY <1>1, <1>2, <1>3, <2>2, <2>3 DEF A!vars, Queue, Front, Asleep
  <1> QED BY <1>4, <1>5

LEMMA LinkRefines ==
  ASSUME IInv, IInv', Next, push_link
  PROVE  UNCHANGED A!vars \/ \E v \in Value, incomplete \in BOOLEAN : A!write(v, incomplete)
  <1>1. /\ wpc = "link" /\ wpc' = "idle" /\ UNCHANGED <<w, r, c, got, log, complete, back>>
        /\ f' = IF complete THEN back ELSE f
    BY DEF push_link, reader
  <1>2. Pos(w)' = Pos(w) /\ Pos(r)' = Pos(r) /\ Pos(c)' = Pos(c) /\ Front' = Front
    BY <1>1, PosKept DEF Front
  <1>3. log \in Seq(Value) /\ Len(log) \in Nat /\ Queue' = log /\ Asleep = "idle" /\ Asleep' = "idle"
    BY <1>1 DEF IInv, TypeOK, Queue, Asleep
  <1>4. Pos(f)' = IF complete THEN Len(log) + 1 ELSE Pos(f)
    <2>1. Pos(back)' = Len(log) + 1
      BY <1>1, BackPosNext
    <2>2. CASE complete
      BY <1>1, <2>1, <2>2 DEF Pos
    <2>3. CASE ~complete
      BY <1>1, <2>3, PosKept
    <2> QED BY <2>2, <2>3
  <1>5. CASE log = <<>>
    <2>1. At(f) <= At(back) /\ At(back) = 1 /\ At(f) \in Nat \ {0}
      BY <1>5, CellFacts DEF IInv, Order, Pointers
    <2>2. Pos(f) = At(f)
      BY PointerFacts DEF Pos, At
    <2>3. Pos(f)' = Pos(f)
      BY <1>4, <1>5, <2>1, <2>2
    <2>4. Queue' = Queue
      BY <1>1, <1>3, <1>5 DEF Queue
    <2> QED BY <1>1, <1>2, <1>3, <2>3, <2>4 DEF A!vars, Queue, Front, Asleep
  <1>6. CASE log # <<>>
    <2> DEFINE v == log[Len(log)]
               incomplete == ~complete
    <2>1. Len(log) > 0 /\ v \in Value /\ incomplete \in BOOLEAN
      <3>1. Len(log) > 0 /\ log[Len(log)] \in Value
        BY <1>3, <1>6
      <3>2. complete \in BOOLEAN
        BY DEF IInv, TypeOK
      <3> QED BY <3>1, <3>2
    <2>2. Queue = SubSeq(log, 1, Len(log) - 1) /\ Len(Queue) = Len(log) - 1 /\ Queue \in Seq(Value)
      BY <1>1, <1>3, <1>6, <2>1, DropLast DEF Queue
    <2>3. Queue' = Append(Queue, v)
      <3>1. /\ Len(Append(Queue, v)) = Len(log) /\ Append(Queue, v) \in Seq(Value)
            /\ \A i \in 1..(Len(log) - 1) : Append(Queue, v)[i] = log[i]
            /\ Append(Queue, v)[Len(log)] = v
        BY <1>3, <2>1, <2>2, AppendKeeps, DropLast
      <3>2. \A i \in 1..Len(log) : Append(Queue, v)[i] = log[i]
        BY <1>3, <3>1
      <3> QED BY <1>3, <3>1, <3>2, SeqEqual
    <2>4. Pos(f)' = IF incomplete THEN Pos(f) ELSE Len(Queue) + 1 + 1
      <3>1. Len(Queue) = Len(log) - 1 /\ Len(log) \in Nat
        BY <1>3, <2>2
      <3>2. Len(Queue) + 1 + 1 = Len(log) + 1
        BY <3>1
      <3> QED BY <1>4, <3>2
    <2>5. Len(Queue) < MaxWrites
      <3>1. Len(log) <= MaxWrites
        BY DEF IInv, Order
      <3>2. Len(Queue) = Len(log) - 1 /\ Len(log) \in Nat
        BY <1>3, <2>2
      <3> QED BY <3>1, <3>2, ChunkAssumption
    <2> HIDE DEF v, incomplete
    <2>6. A!write(v, incomplete)
      BY <1>1, <1>2, <1>3, <2>3, <2>4, <2>5 DEF A!write, A!back, Queue, Front, Asleep
    <2> QED BY <2>1, <2>6
  <1> QED BY <1>5, <1>6


\* The exchanges on spare_chunk are invisible.
LEMMA SpareRefines ==
  ASSUME IInv, IInv', Next, push_spare \/ pop_recycle PROVE UNCHANGED A!vars
  <1>1. UNCHANGED <<w, f, r, c, got, log>>
    BY DEF push_spare, pop_recycle, writer, reader
  <1>2. (wpc = "spare" /\ wpc' = "link") \/ wpc' = wpc
    BY DEF push_spare, pop_recycle, writer
  <1>3. Queue' = Queue /\ Asleep' = Asleep /\ Front' = Front
    BY <1>1, <1>2 DEF Queue, Asleep, Front
  <1>4. Pos(w)' = Pos(w) /\ Pos(f)' = Pos(f) /\ Pos(r)' = Pos(r) /\ Pos(c)' = Pos(c)
    BY <1>1, PosKept
  <1> QED BY <1>1, <1>3, <1>4 DEF A!vars, Queue, Asleep, Front

LEMMA UnwriteRefines == ASSUME IInv, IInv', Next, unwrite PROVE A!unwrite
  <1>1. /\ UNCHANGED <<w, f, r, c, got, wpc>> /\ wpc = "idle" /\ f # back
        /\ log' = SubSeq(log, 1, Len(log) - 1)
    BY DEF unwrite, reader
  <1>2. Pos(w)' = Pos(w) /\ Pos(f)' = Pos(f) /\ Pos(r)' = Pos(r) /\ Pos(c)' = Pos(c)
    BY <1>1, PosKept
  <1>3. Pos(f) # Len(log) + 1
    BY <1>1, PointerFacts, PosFacts
  <1>4. Queue = log /\ Queue' = log' /\ Asleep = "idle" /\ Asleep' = "idle" /\ Front' = Front
    BY <1>1 DEF Queue, Asleep, Front
  <1> QED BY <1>1, <1>2, <1>3, <1>4 DEF A!unwrite, A!back, Queue, Asleep, Front

LEMMA FlushRefines ==
  ASSUME IInv, IInv', Next
  PROVE  (flush_cas => A!flush_cas) /\ (flush_asleep => A!flush_asleep)
  <1>1. /\ (w = f <=> Pos(w) = Pos(f)) /\ (c = w <=> Pos(c) = Pos(w))
    BY PointerFacts, PosFacts
  <1>2. base' = base => /\ w' = f => Pos(w)' = Pos(f)
                        /\ c' = f => Pos(c)' = Pos(f)
    BY DEF Pos
  <1>3. ASSUME flush_cas PROVE A!flush_cas
    <2>1. /\ UNCHANGED <<f, r, got, log, base>> /\ wpc = "idle" /\ w # f
          /\ IF c = w THEN c' = f /\ w' = f /\ wpc' = wpc
                      ELSE wpc' = "asleep" /\ UNCHANGED <<c, w>>
      BY <1>3 DEF flush_cas, memory, reader
    <2>2. Queue' = Queue /\ Asleep = "idle" /\ Front' = Front
      BY <2>1 DEF Queue, Asleep, Front
    <2>3. Pos(f)' = Pos(f) /\ Pos(r)' = Pos(r)
      BY <2>1, PosKept
    <2>4. CASE c = w
      <3>1. Asleep' = Asleep
        BY <2>1, <2>4 DEF Asleep
      <3> QED BY <1>1, <1>2, <2>1, <2>2, <2>3, <2>4, <3>1 DEF A!flush_cas, Queue, Asleep, Front
    <2>5. CASE c # w
      <3>1. Asleep' = "asleep" /\ Pos(c)' = Pos(c) /\ Pos(w)' = Pos(w)
        BY <2>1, <2>5, PosKept DEF Asleep
      <3> QED BY <1>1, <2>1, <2>2, <2>3, <2>5, <3>1 DEF A!flush_cas, Queue, Asleep, Front
    <2> QED BY <2>4, <2>5
  <1>4. ASSUME flush_asleep PROVE A!flush_asleep
    <2>1. UNCHANGED <<f, r, got, log, base>> /\ wpc = "asleep" /\ wpc' = "idle" /\ c' = f /\ w' = f
      BY <1>4 DEF flush_asleep, memory, reader
    <2>2. Queue' = Queue /\ Asleep = "asleep" /\ Asleep' = "idle" /\ Front' = Front
      BY <2>1 DEF Queue, Asleep, Front
    <2>3. Pos(f)' = Pos(f) /\ Pos(r)' = Pos(r)
      BY <2>1, PosKept
    <2> QED BY <1>2, <2>1, <2>2, <2>3 DEF A!flush_asleep, Queue, Asleep, Front
  <1> QED BY <1>3, <1>4

LEMMA PrefetchedRefines == IInv => (Prefetched <=> A!Prefetched)
  <1> SUFFICES ASSUME IInv PROVE Prefetched <=> A!Prefetched
    OBVIOUS
  <1>1. /\ (begin = r <=> Pos(begin) = Pos(r)) /\ (r = NULL <=> Pos(r) = 0)
        /\ Pos(begin) = Len(got) + 1
    BY PointerFacts, PosFacts
  <1> QED BY <1>1 DEF Prefetched, A!Prefetched, A!NULL

LEMMA ReaderRefines ==
  ASSUME IInv, IInv', Next
  PROVE  (check_read => A!check_read) /\ (read => A!read)
  <1>1. ASSUME check_read PROVE A!check_read
    <2>1. /\ UNCHANGED <<w, f, wpc, got, log, base>> /\ ~Prefetched
          /\ r' = c /\ c' = IF c = begin THEN NULL ELSE c
      BY <1>1 DEF check_read, memory, writer
    <2>2. ~A!Prefetched
      BY <2>1, PrefetchedRefines
    <2>3. c = begin <=> Pos(c) = Len(got) + 1
      BY PointerFacts, PosFacts
    <2>4. Pos(r)' = Pos(c) /\ Pos(c)' = IF Pos(c) = Len(got) + 1 THEN 0 ELSE Pos(c)
      BY <2>1, <2>3 DEF Pos
    <2>5. Queue' = Queue /\ Asleep' = Asleep /\ Front' = Front
      BY <2>1 DEF Queue, Asleep, Front
    <2>6. Pos(f)' = Pos(f) /\ Pos(w)' = Pos(w)
      BY <2>1, PosKept
    <2> QED BY <2>2, <2>4, <2>5, <2>6, <2>1 DEF A!check_read, A!NULL, Queue, Asleep, Front
  <1>2. ASSUME read PROVE A!read
    <2>1. /\ UNCHANGED <<w, f, wpc, r, c, log>> /\ Prefetched
          /\ got' = Append(got, values[begin[1]][begin[2]])
      BY <1>2 DEF read, writer
    <2>2. A!Prefetched
      BY <2>1, PrefetchedRefines
    <2>3. values[begin[1]][begin[2]] = log[Len(got) + 1] /\ log[Len(got) + 1] \in Value
          /\ Len(got) + 1 \in 1..Len(log) /\ (Pushing => Len(got) + 1 \in 1..(Len(log) - 1))
      BY <2>1, FrontFacts DEF IInv, Order
    <2>4. Len(got) + 1 \in 1..Len(Queue) /\ Queue[Len(got) + 1] = log[Len(got) + 1]
      <3>1. CASE Pushing
        <4>1. log # <<>> /\ Len(log) > 0 /\ log \in Seq(Value)
          BY <2>3 DEF IInv, TypeOK
        <4>2. Queue = SubSeq(log, 1, Len(log) - 1)
          BY <3>1, <4>1 DEF Queue, Pushing
        <4>3. Len(Queue) = Len(log) - 1 /\ \A i \in 1..(Len(log) - 1) : Queue[i] = log[i]
          BY <4>1, <4>2, DropLast
        <4> QED BY <2>3, <3>1, <4>3
      <3>2. CASE ~Pushing
        BY <2>3, <3>2 DEF Queue, Pushing
      <3> QED BY <3>1, <3>2
    <2>5. Queue' = Queue /\ Asleep' = Asleep
      BY <2>1 DEF Queue, Asleep
    <2>6. got' = Append(got, Queue[Len(got) + 1]) /\ Front' = Front + 1
      <3>1. Len(got') = Len(got) + 1
        BY <2>1, <2>3, AppendKeeps DEF IInv, TypeOK
      <3> QED BY <2>1, <2>3, <2>4, <3>1 DEF Front
    <2>7. Pos(f)' = Pos(f) /\ Pos(w)' = Pos(w) /\ Pos(r)' = Pos(r) /\ Pos(c)' = Pos(c)
      BY <2>1, PosKept
    <2> QED BY <2>2, <2>4, <2>5, <2>6, <2>7 DEF A!read, A!CellAt, Queue, Asleep, Front
  <1> QED BY <1>1, <1>2

\* Every step is a step of the pipe over an array or leaves it alone.
LEMMA NextRefines == IInv /\ IInv' /\ [Next]_vars => [A!Next]_(A!vars)
  <1> SUFFICES ASSUME IInv, IInv', [Next]_vars PROVE A!Next \/ UNCHANGED A!vars
    OBVIOUS
  <1>1. CASE UNCHANGED vars
    BY <1>1 DEF vars, memory, writer, reader, A!vars, Pos
  <1>2. CASE Next
    <2> USE <1>2
    <2>1. ASSUME NEW v \in Value, NEW incomplete \in BOOLEAN, write(v, incomplete)
          PROVE  A!Next \/ UNCHANGED A!vars
      BY <2>1, WriteRefines DEF A!Next, A!Writer
    <2>2. CASE push_link
      BY <2>2, LinkRefines DEF A!Next, A!Writer
    <2>3. CASE push_spare \/ pop_recycle
      BY <2>3, SpareRefines
    <2>4. CASE unwrite \/ flush_cas \/ flush_asleep
      BY <2>4, UnwriteRefines, FlushRefines DEF A!Next, A!Writer
    <2>5. CASE check_read \/ read
      BY <2>5, ReaderRefines DEF A!Next, A!Reader
    <2> QED BY <2>1, <2>2, <2>3, <2>4, <2>5 DEF Next, Writer, Reader
  <1> QED BY <1>1, <1>2

\* Comparing addresses of recycled cells decides what comparing positions decides:
\* the pipe over AtomicQueue's chunks implements AtomicPipe, step for step.
THEOREM Refinement == Spec => ImplementsAtomicPipe
  BY Invariance, InitRefines, NextRefines, PTL DEF Spec, ImplementsAtomicPipe, A!Spec


=============================================================================
