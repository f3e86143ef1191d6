----------------------------- MODULE AtomicPipe -----------------------------
(***************************************************************************)
(* atomic::AtomicPipe (include/core/AtomicQueue.h): the lock-free pipe     *)
(* between one writer thread and one reader thread.                        *)
(*                                                                         *)
(* A cell of the underlying AtomicQueue is identified by its position      *)
(* 1, 2, 3, ... in the order of pushes; 0 is the NULL pointer.  queue      *)
(* keeps every value that was pushed and not taken back by unpush, so      *)
(* back() is always position Len(queue) + 1 and front() is position        *)
(* front.  How the cells live in recycled chunks of memory is the subject  *)
(* of module ChunkedPipe, which implements this one.                       *)
(*                                                                         *)
(* w, f and the queue's back belong to the writer, r and front to the      *)
(* reader; c is the only shared word and is accessed by compare-and-swap.  *)
(***************************************************************************)
EXTENDS Naturals, Sequences

CONSTANTS
  Value,                  \* the messages
  Junk,                   \* content of a cell that was never written
  MaxWrites               \* bound: number of messages ever written

ASSUME MaxWritesAssumption == MaxWrites \in Nat
ASSUME JunkAssumption == Junk \notin Value

NULL == 0

VARIABLES
  queue,                  \* the pushed values, consumed ones included
  front,                  \* position of AtomicQueue::front()
  w,                      \* writer: first cell not flushed
  f,                      \* writer: first cell not completed
  r,                      \* reader: first cell not prefetched, or NULL
  c,                      \* shared: last flushed position, NULL when the reader sleeps
  wpc,                    \* writer: "idle", or "asleep" between the failed CAS of flush and c = f
  got                     \* history: the values read

vars == <<queue, front, w, f, r, c, wpc, got>>

\* AtomicQueue::back(), the cell the next write fills.
back == Len(queue) + 1

\* What the reader finds in a cell.
CellAt(p) == IF p \in 1..Len(queue) THEN queue[p] ELSE Junk

\* The constructor pushes once and points everything at that cell.
Init ==
  /\ queue = <<>>
  /\ front = 1
  /\ w = 1 /\ f = 1 /\ r = 1 /\ c = 1
  /\ wpc = "idle"
  /\ got = <<>>

-----------------------------------------------------------------------------
(* The writer.                                                             *)

write(v, incomplete) ==
  /\ wpc = "idle"
  /\ Len(queue) < MaxWrites
  /\ queue' = Append(queue, v)
  /\ f' = IF incomplete THEN f ELSE back + 1
  /\ UNCHANGED <<front, w, r, c, wpc, got>>

\* Mutant of unwrite: tests the flush point w instead of the completion point f.
unwrite_TestsFlushPoint ==
  /\ wpc = "idle"
  /\ w # back
  /\ queue' = SubSeq(queue, 1, Len(queue) - 1)
  /\ UNCHANGED <<front, w, f, r, c, wpc, got>>

unwrite ==
  /\ wpc = "idle"
  /\ f # back
  /\ queue' = SubSeq(queue, 1, Len(queue) - 1)
  /\ UNCHANGED <<front, w, f, r, c, wpc, got>>

\* Mutant of flush_cas: w = f is missing after the successful exchange.
flush_cas_KeepsW ==
  /\ wpc = "idle"
  /\ w # f
  /\ IF c = w
       THEN c' = f /\ UNCHANGED <<w, wpc>>
       ELSE wpc' = "asleep" /\ UNCHANGED <<c, w>>
  /\ UNCHANGED <<queue, front, f, r, got>>

\* Mutant of flush_cas: publishes up to back(), the unfinished batch included.
flush_cas_PublishesBack ==
  /\ wpc = "idle"
  /\ w # f
  /\ IF c = w
       THEN c' = back /\ w' = f /\ wpc' = wpc
       ELSE wpc' = "asleep" /\ UNCHANGED <<c, w>>
  /\ UNCHANGED <<queue, front, f, r, got>>

\* c.compare_and_swap(f, w): succeeds when the reader is awake.
flush_cas ==
  /\ wpc = "idle"
  /\ w # f
  /\ IF c = w
       THEN c' = f /\ w' = f /\ wpc' = wpc
       ELSE wpc' = "asleep" /\ UNCHANGED <<c, w>>
  /\ UNCHANGED <<queue, front, f, r, got>>

\* Mutant of flush_asleep: leaves c NULL, so the reader never sees the message.
flush_asleep_NoStore ==
  /\ wpc = "asleep"
  /\ w' = f
  /\ wpc' = "idle"
  /\ UNCHANGED <<queue, front, f, r, c, got>>

\* The reader is asleep: c = f without compare-and-swap; flush returns false.
flush_asleep ==
  /\ wpc = "asleep"
  /\ c' = f
  /\ w' = f
  /\ wpc' = "idle"
  /\ UNCHANGED <<queue, front, f, r, got>>

-----------------------------------------------------------------------------
(* The reader.                                                             *)

\* First test of check_read: cells up to r can be read without touching c.
Prefetched == front # r /\ r # NULL

\* c.compare_and_swap(NULL, &queue.front()) when nothing is prefetched; the
\* read fails when the old value was front (and c is now NULL) or NULL.
check_read ==
  /\ ~Prefetched
  /\ r' = c
  /\ c' = IF c = front THEN NULL ELSE c
  /\ UNCHANGED <<queue, front, w, f, wpc, got>>

read ==
  /\ Prefetched
  /\ got' = Append(got, CellAt(front))
  /\ front' = front + 1
  /\ UNCHANGED <<queue, w, f, r, c, wpc>>

-----------------------------------------------------------------------------
Writer ==
  \/ \E v \in Value, incomplete \in BOOLEAN : write(v, incomplete)
  \/ unwrite
  \/ flush_cas
  \/ flush_asleep

Reader == check_read \/ read

Next == Writer \/ Reader

Spec == Init /\ [][Next]_vars

(***************************************************************************)
(* Fairness: the reader keeps calling read() and a writer that entered     *)
(* flush() leaves it.  Whether the writer calls anything is up to it.      *)
(***************************************************************************)
FairSpec == Spec /\ WF_vars(Reader) /\ WF_vars(flush_asleep)

-----------------------------------------------------------------------------
TypeOK ==
  /\ queue \in Seq(Value)
  /\ front \in Nat \ {0}
  /\ w \in Nat \ {0} /\ f \in Nat \ {0}
  /\ r \in Nat /\ c \in Nat
  /\ wpc \in {"idle", "asleep"}
  /\ got \in Seq(Value)

\* The values read are the first values written, in order: the prefetch
\* pointer r, the compare-and-swap on c and unwrite never let the reader see
\* a cell twice, skip one, or read one that the writer takes back.
Fifo ==
  /\ Len(got) <= Len(queue)
  /\ \A i \in 1..Len(got) : got[i] = queue[i]

\* The reader stays behind the flush point, which stays behind the completed
\* prefix: no message of an unfinished or unflushed batch is ever read.
FlushedOnly == front <= w /\ w <= f /\ f <= back

\* flush reports a sleeping reader (returns false) only if the reader has
\* drained everything flushed before and saw the pipe empty: the caller may
\* rely on the return value to wake it up.
AsleepIsDrained == (wpc = "asleep" \/ c = NULL) => front = w /\ r \in {NULL, front}

\* Once a cell is flushed its value never changes, whatever the writer does.
FlushedIsStable ==
  [][\A p \in 1..(w - 1) : CellAt(p)' = CellAt(p)]_vars

\* check_read fails (r is NULL or front afterwards) only if every flushed
\* message has been read: a caller may take false for "empty".
FailedReadIsEmpty ==
  [][check_read /\ r' \in {NULL, front} => front = w]_vars

\* A flushed message is eventually read, even when the flush found the
\* reader asleep.
FlushedIsRead ==
  \A p \in 1..MaxWrites : (w > p) ~> (front > p)

-----------------------------------------------------------------------------
(* The pipe implements its promise.                                        *)

P == INSTANCE SpscPipe WITH
       staged    <- SubSeq(queue, w, Len(queue)),
       complete  <- f - w,
       visible   <- SubSeq(queue, front, w - 1),
       delivered <- got

ImplementsPipe == P!PSpec

=============================================================================
