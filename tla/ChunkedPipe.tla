----------------------------- MODULE ChunkedPipe ----------------------------
(***************************************************************************)
(* atomic::AtomicPipe on top of the memory of atomic::AtomicQueue          *)
(* (include/core/AtomicQueue.h): the cells live in chunks of N values that *)
(* are linked, unlinked, recycled through one spare slot, and freed.       *)
(*                                                                         *)
(* An address is a pair <<chunk, pos>>; the pipe compares addresses        *)
(* (w, f, r, c), so recycling a chunk could confuse it.  Every access to a *)
(* chunk is checked against the heap: touching a freed chunk, following a  *)
(* pointer that is not one, or freeing twice sets fault.                   *)
(*                                                                         *)
(* Steps that touch only memory of their own thread are merged; the steps  *)
(* on spare_chunk (an atomic exchange) are separate.  Only push() and      *)
(* pop() at the end of a chunk take more than one step.                    *)
(***************************************************************************)
EXTENDS Naturals, Sequences

CONSTANTS
  Value,                  \* the messages
  Junk,                   \* content of memory that was never written
  Chunk,                  \* the blocks malloc can return
  NoChunk,                \* the NULL chunk pointer
  N,                      \* values per chunk
  MaxWrites,              \* bound: number of write() calls
  MaxInFlight             \* bound: messages written and not read

ASSUME ChunkAssumption ==
  /\ N \in Nat \ {0}
  /\ MaxWrites \in Nat /\ MaxInFlight \in Nat
  /\ NoChunk \notin Chunk /\ Junk \notin Chunk /\ Junk \notin Value

NULL == <<NoChunk, 0>>

VARIABLES
  heap,                   \* the chunks malloc has returned and free has not taken back
  values, prev, next,     \* fields of chunk_t
  begin,                  \* <<begin_chunk, begin_pos>>, the address of front()
  back,                   \* <<back_chunk, back_pos>>
  end,                    \* <<end_chunk, end_pos>>
  spare_chunk,            \* shared between push() and pop()
  w, f, r, c,             \* AtomicPipe's pointers, as addresses
  wpc,                    \* writer: "idle", "spare" / "link" inside push(), "asleep" inside flush()
  rpc,                    \* reader: "idle", or "recycle" inside pop()
  taken,                  \* writer: the chunk obtained from spare_chunk in push()
  complete,               \* writer: the write() in progress has incomplete_ = false
  old,                    \* reader: the chunk o in pop()
  fault,                  \* an invalid memory access happened
  base,                   \* history: position of the first cell of a linked chunk
  log, got                \* history: values written and not taken back; values read

memory == <<heap, values, prev, next, spare_chunk, fault, base>>
writer == <<back, end, w, f, wpc, taken, complete, log>>
reader == <<begin, r, rpc, old, got>>
vars   == <<memory, writer, reader, c>>

\* Dereferencing a pointer to chunk k is an error unless k is allocated.
Touch(k) == fault' = (fault \/ k \notin heap)

\* malloc returns any block that is not allocated; its content is Junk.
Malloc(k) == k \in Chunk \ heap

Fresh == [i \in 0..(N - 1) |-> Junk]

\* free(k), on heap and on the fields: nothing is known of k afterwards.
Free(k) ==
  /\ heap' = heap \ {k}
  /\ values' = [x \in Chunk |-> IF x = k THEN Fresh ELSE values[x]]
  /\ base' = [x \in Chunk |-> IF x = k THEN 0 ELSE base[x]]
  /\ prev' = [x \in Chunk |-> IF x = k THEN Junk ELSE prev[x]]

\* Position of the cell at an address, in the order of pushes (0 for NULL).
Pos(a) == IF a = NULL THEN 0 ELSE base[a[1]] + a[2] + 1

\* AtomicQueue(), then AtomicPipe(): one chunk, one push, all pointers at it.
Init ==
  \E k \in Chunk :
    /\ heap = {k}
    /\ values = [x \in Chunk |-> Fresh]
    /\ prev = [x \in Chunk |-> Junk]
    /\ next = [x \in Chunk |-> Junk]
    /\ begin = <<k, 0>> /\ back = <<k, 0>>
    /\ spare_chunk = NoChunk
    /\ w = back /\ f = back /\ r = back /\ c = back
    /\ IF N = 1
         THEN end = <<k, N>> /\ wpc = "spare"
         ELSE end = <<k, 1>> /\ wpc = "idle"
    /\ rpc = "idle"
    /\ taken = NoChunk /\ old = NoChunk /\ complete = TRUE
    /\ fault = FALSE
    /\ base = [x \in Chunk |-> 0]
    /\ log = <<>> /\ got = <<>>

-----------------------------------------------------------------------------
(* The writer: AtomicPipe::write is queue.back() = value_, queue.push()    *)
(* and, for a complete message, f = &queue.back().                         *)

Live == Len(log) - Len(got)

\* push() inside a chunk: ++end_pos != N.
write(v, incomplete) ==
  /\ wpc = "idle"
  /\ Len(log) < MaxWrites /\ Live < MaxInFlight
  /\ values' = [values EXCEPT ![back[1]][back[2]] = v]
  /\ Touch(back[1])
  /\ log' = Append(log, v)
  /\ back' = end
  /\ end' = <<end[1], end[2] + 1>>
  /\ complete' = ~incomplete
  /\ IF end[2] + 1 # N
       THEN /\ f' = IF incomplete THEN f ELSE end
            /\ wpc' = "idle"
       ELSE /\ f' = f
            /\ wpc' = "spare"
  /\ UNCHANGED <<heap, prev, next, spare_chunk, base, w, taken, reader, c>>

\* push() at the end of a chunk: spare_chunk.fetch_and_store(NULL).
push_spare ==
  /\ wpc = "spare"
  /\ taken' = spare_chunk
  /\ spare_chunk' = NoChunk
  /\ wpc' = "link"
  /\ UNCHANGED <<heap, values, prev, next, fault, base, back, end, w, f,
                 complete, log, reader, c>>

\* ... then link the spare chunk, or a new one, behind end_chunk.
push_link ==
  /\ wpc = "link"
  /\ \E k \in Chunk :
       /\ IF taken # NoChunk THEN k = taken /\ heap' = heap
                             ELSE Malloc(k) /\ heap' = heap \cup {k}
       /\ next' = [next EXCEPT ![end[1]] = k]
       /\ prev' = [prev EXCEPT ![k] = end[1]]
       /\ fault' = (fault \/ end[1] \notin heap \/ k \notin heap')
       /\ base' = [base EXCEPT ![k] = base[end[1]] + N]
       /\ end' = <<k, 0>>
  /\ f' = IF complete THEN back ELSE f
  /\ taken' = NoChunk
  /\ wpc' = "idle"
  /\ UNCHANGED <<values, spare_chunk, back, w, complete, log, reader, c>>

\* unpush() moves back and end one cell back and frees the chunk end leaves.
Before(a) == IF a[2] > 0 THEN <<a[1], a[2] - 1>> ELSE <<prev[a[1]], N - 1>>

unwrite ==
  /\ wpc = "idle"
  /\ f # back
  /\ back' = Before(back)
  /\ end' = Before(end)
  /\ IF end[2] > 0
       THEN UNCHANGED <<heap, values, prev, next, base>> /\ Touch(back[1])
       ELSE LET p == prev[end[1]] IN
            /\ fault' = (fault \/ ~({p, end[1], back[1]} \subseteq heap)
                               \/ next[p] # end[1])
            /\ Free(end[1])
            /\ next' = [next EXCEPT ![p] = NoChunk, ![end[1]] = Junk]
  /\ log' = SubSeq(log, 1, Len(log) - 1)
  /\ UNCHANGED <<spare_chunk, w, f, wpc, taken, complete, reader, c>>

\* Mutant of flush_cas: publishes up to back, the unfinished batch included.
flush_cas_PublishesBack ==
  /\ wpc = "idle"
  /\ w # f
  /\ IF c = w
       THEN c' = back /\ w' = f /\ wpc' = wpc
       ELSE wpc' = "asleep" /\ UNCHANGED <<c, w>>
  /\ UNCHANGED <<memory, back, end, f, taken, complete, log, reader>>

flush_cas ==
  /\ wpc = "idle"
  /\ w # f
  /\ IF c = w
       THEN c' = f /\ w' = f /\ wpc' = wpc
       ELSE wpc' = "asleep" /\ UNCHANGED <<c, w>>
  /\ UNCHANGED <<memory, back, end, f, taken, complete, log, reader>>

flush_asleep ==
  /\ wpc = "asleep"
  /\ c' = f
  /\ w' = f
  /\ wpc' = "idle"
  /\ UNCHANGED <<memory, back, end, f, taken, complete, log, reader>>

-----------------------------------------------------------------------------
(* The reader.                                                             *)

Prefetched == begin # r /\ r # NULL

check_read ==
  /\ rpc = "idle"
  /\ ~Prefetched
  /\ r' = c
  /\ c' = IF c = begin THEN NULL ELSE c
  /\ UNCHANGED <<memory, writer, begin, rpc, old, got>>

\* *value_ = queue.front(); queue.pop(), up to the exchange on spare_chunk.
read ==
  /\ rpc = "idle"
  /\ Prefetched
  /\ got' = Append(got, values[begin[1]][begin[2]])
  /\ IF begin[2] + 1 # N
       THEN /\ begin' = <<begin[1], begin[2] + 1>>
            /\ Touch(begin[1])
            /\ UNCHANGED <<prev, rpc, old>>
       ELSE LET k == next[begin[1]] IN
            /\ fault' = (fault \/ begin[1] \notin heap \/ k \notin heap)
            /\ begin' = <<k, 0>>
            /\ prev' = [x \in Chunk |-> IF x = k THEN NoChunk ELSE prev[x]]
            /\ old' = begin[1]
            /\ rpc' = "recycle"
  /\ UNCHANGED <<heap, values, next, spare_chunk, base, writer, r, c>>

\* Mutant of pop_recycle: the chunk that was spare before is not freed.
pop_recycle_Leak ==
  /\ rpc = "recycle"
  /\ spare_chunk' = old
  /\ UNCHANGED <<heap, fault>>
  /\ old' = NoChunk
  /\ rpc' = "idle"
  /\ UNCHANGED <<values, prev, next, base, writer, begin, r, got, c>>

\* spare_chunk.fetch_and_store(o), then free what was there.
pop_recycle ==
  /\ rpc = "recycle"
  /\ spare_chunk' = old
  /\ Free(spare_chunk)
  /\ next' = [x \in Chunk |-> IF x = spare_chunk THEN Junk ELSE next[x]]
  /\ fault' = (fault \/ spare_chunk \notin heap \cup {NoChunk})
  /\ old' = NoChunk
  /\ rpc' = "idle"
  /\ UNCHANGED <<writer, begin, r, got, c>>

-----------------------------------------------------------------------------
Writer ==
  \/ \E v \in Value, incomplete \in BOOLEAN : write(v, incomplete)
  \/ push_spare \/ push_link
  \/ unwrite
  \/ flush_cas \/ flush_asleep

Reader == check_read \/ read \/ pop_recycle

Next == Writer \/ Reader

Spec == Init /\ [][Next]_vars

-----------------------------------------------------------------------------
Address == (Chunk \X (0..N)) \cup {NULL}

TypeOK ==
  /\ heap \subseteq Chunk
  /\ values \in [Chunk -> [0..(N - 1) -> Value \cup {Junk}]]
  /\ prev \in [Chunk -> Chunk \cup {NoChunk, Junk}]
  /\ next \in [Chunk -> Chunk \cup {NoChunk, Junk}]
  /\ {begin, back, end, w, f, r, c} \subseteq Address
  /\ {spare_chunk, taken, old} \subseteq Chunk \cup {NoChunk}
  /\ wpc \in {"idle", "spare", "link", "asleep"}
  /\ rpc \in {"idle", "recycle"}
  /\ complete \in BOOLEAN /\ fault \in BOOLEAN
  /\ base \in [Chunk -> Nat]
  /\ log \in Seq(Value) /\ got \in Seq(Value)

\* Every allocated chunk is accounted for: it holds cells between begin and
\* end, or is the spare, or is held by the thread that moves it to or from
\* the spare slot, and of these only one at a time: neither thread can free or
\* relink a chunk under the other.  Nothing leaks and the heap holds one unused
\* chunk at most.  So no step of either uses a freed chunk or frees one twice,
\* although unwrite() frees chunks that pop() could have recycled and push()
\* takes chunks that pop() is about to free.
LiveChunks ==
  {k \in heap : base[begin[1]] <= base[k] /\ base[k] <= base[end[1]]
                /\ k \notin {spare_chunk, taken, old}}
OneHolder ==
  /\ TypeOK
  /\ ~fault
  /\ heap = LiveChunks \cup ({spare_chunk, taken, old} \ {NoChunk})
  /\ \A k \in LiveChunks \ {end[1]} : next[k] \in LiveChunks /\ base[next[k]] = base[k] + N
  /\ spare_chunk # NoChunk => spare_chunk \notin {taken, old}
  /\ taken # NoChunk => taken # old

\* Comparing addresses of recycled cells decides exactly what comparing
\* positions decides: the chunked pipe implements the pipe over an unbounded
\* array of cells, step for step.
A == INSTANCE AtomicPipe WITH
       queue <- IF wpc \in {"spare", "link"} /\ log # <<>> THEN SubSeq(log, 1, Len(log) - 1) ELSE log,
       front <- Len(got) + 1,
       w <- Pos(w), f <- Pos(f), r <- Pos(r), c <- Pos(c),
       wpc <- IF wpc = "asleep" THEN "asleep" ELSE "idle"

ImplementsAtomicPipe == A!Spec

=============================================================================
