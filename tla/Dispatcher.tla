----------------------------- MODULE Dispatcher -----------------------------
(***************************************************************************)
(* threading::Dispatcher with its thread contexts, destinations and        *)
(* signalers (include/threading/Dispatcher*.h): message passing between    *)
(* the contexts of a process.                                              *)
(*                                                                         *)
(* There is one AtomicPipe per ordered pair <<source, destination>>.  It   *)
(* is used through what module SpscPipe promises and AtomicPipe is shown   *)
(* to implement: flush publishes a batch in one step, read takes the       *)
(* oldest published message and fails only if there is none.  Message n of *)
(* a pipe is the number n, so a pipe is the pair of counters sent, taken.  *)
(*                                                                         *)
(* Each context has a 64-bit bitmap, here the set of its one bits: bit s   *)
(* says that source s may have messages, bit WaitSignal that the reader is *)
(* about to sleep on the semaphore.  Every atomic operation of             *)
(* include/core/Atomic.h on the bitmap is one step.                        *)
(*                                                                         *)
(* A context is written from one thread and read from one thread, which    *)
(* may be the same.  A context is created before it is written to, and     *)
(* destroyed when nobody uses it: the code does not check either.          *)
(***************************************************************************)
EXTENDS Naturals, FiniteSetsExt

CONSTANTS
  MaxThreads,             \* mMaxThreadContextCount
  Route,                  \* pairs <<source, destination>> that have a DispatcherDestination
  MaxBatch,               \* bound: messages in one write()
  MaxRead,                \* bound: the count argument of read()
  MaxSent,                \* bound: messages sent through one pipe
  MaxCreated              \* bound: number of createThreadContext() calls

WaitSignal == 63

Thread == 0..(MaxThreads - 1)

ASSUME DispatcherAssumption ==
  /\ MaxThreads \in 1..63          \* ZILLIANS_DISPATCHER_MAX_THREADS
  /\ Route \subseteq Thread \X Thread
  /\ MaxBatch \in Nat /\ MaxRead \in Nat /\ MaxSent \in Nat /\ MaxCreated \in Nat

VARIABLES
  attached,               \* mAttachedFlags (and mSignalers # NULL)
  created,                \* number of contexts created so far
  sent, taken,            \* messages published in, and read from, each pipe
  bitmap, sem,            \* mBitmap and mSemaphore of each context's signaler
  wpc,                    \* per source: "idle", "signal" after flush, "post" after bitmap_btsr
  wdst,                   \* per source: the destination of the write() in progress
  rpc,                    \* per destination: "idle", "wait", "woken" in poll(), "scan" in read()
  signals,                \* per destination: the local variable of read()
  room,                   \* per destination: count - n of read()
  orphan                  \* history, per destination: sources whose messages a
                          \* former context with the same id left unread

pipes  == <<sent, taken>>
writer == <<wpc, wdst>>
reader == <<rpc, signals, room>>
vars   == <<attached, created, pipes, bitmap, sem, writer, reader, orphan>>

\* Dispatcher(): all pipes exist, no context does.
Init ==
  /\ attached = [t \in Thread |-> FALSE]
  /\ created = 0
  /\ sent = [p \in Thread \X Thread |-> 0]
  /\ taken = [p \in Thread \X Thread |-> 0]
  /\ bitmap = [t \in Thread |-> {}]
  /\ sem = [t \in Thread |-> 0]
  /\ wpc = [t \in Thread |-> "idle"]
  /\ wdst = [t \in Thread |-> 0]
  /\ rpc = [t \in Thread |-> "idle"]
  /\ signals = [t \in Thread |-> {}]
  /\ room = [t \in Thread |-> 0]
  /\ orphan = [t \in Thread |-> {}]

HasMessage(s, d) == taken[<<s, d>>] < sent[<<s, d>>]
WritingTo(s, d)  == wpc[s] # "idle" /\ wdst[s] = d

-----------------------------------------------------------------------------
(* Contexts.                                                               *)

\* createThreadContext(id), or (-1) when the scan for a free flag finds id.
\* The signaler is new, the pipes are those of the dispatcher.
createThreadContext(id) ==
  /\ ~attached[id]
  /\ created < MaxCreated
  /\ created' = created + 1
  /\ attached' = [attached EXCEPT ![id] = TRUE]
  /\ bitmap' = [bitmap EXCEPT ![id] = {}]
  /\ sem' = [sem EXCEPT ![id] = 0]
  /\ orphan' = [orphan EXCEPT ![id] = {s \in Thread : HasMessage(s, id)}]
  /\ UNCHANGED <<pipes, writer, reader>>

\* ~DispatcherThreadContext(), by the last user of the context.
distroyThreadContext(id) ==
  /\ attached[id]
  /\ wpc[id] = "idle" /\ rpc[id] = "idle"
  /\ \A s \in Thread : ~WritingTo(s, id)
  /\ attached' = [attached EXCEPT ![id] = FALSE]
  /\ UNCHANGED <<created, pipes, bitmap, sem, writer, reader, orphan>>

-----------------------------------------------------------------------------
(* Writing.                                                                *)

\* DispatcherDestination::write of count messages: count - 1 incomplete
\* writes and a complete one, which flushes the pipe.
write(s, d, count) ==
  /\ attached[s] /\ attached[d]
  /\ wpc[s] = "idle"
  /\ sent[<<s, d>>] + count <= MaxSent
  /\ sent' = [sent EXCEPT ![<<s, d>>] = @ + count]
  /\ wpc' = [wpc EXCEPT ![s] = "signal"]
  /\ wdst' = [wdst EXCEPT ![s] = d]
  /\ UNCHANGED <<attached, created, taken, bitmap, sem, reader, orphan>>

\* Mutant of signal: sets the bit without resetting the wait bit.
signal_KeepsWait(s) ==
  LET d == wdst[s] IN
  /\ wpc[s] = "signal"
  /\ bitmap' = [bitmap EXCEPT ![d] = @ \cup {s}]
  /\ wpc' = [wpc EXCEPT ![s] = IF WaitSignal \in bitmap[d] THEN "post" ELSE "idle"]
  /\ orphan' = [orphan EXCEPT ![d] = @ \ {s}]
  /\ UNCHANGED <<attached, created, pipes, sem, wdst, reader>>

\* Mutant of signal: ignores the result of bitmap_btsr and never posts.
signal_NeverPosts(s) ==
  LET d == wdst[s] IN
  /\ wpc[s] = "signal"
  /\ bitmap' = [bitmap EXCEPT ![d] = (@ \cup {s}) \ {WaitSignal}]
  /\ wpc' = [wpc EXCEPT ![s] = "idle"]
  /\ orphan' = [orphan EXCEPT ![d] = @ \ {s}]
  /\ UNCHANGED <<attached, created, pipes, sem, wdst, reader>>

\* bitmap_btsr(mBitmap, s, mWaitSignal), and whether a post is due.
signal(s) ==
  LET d == wdst[s] IN
  /\ wpc[s] = "signal"
  /\ bitmap' = [bitmap EXCEPT ![d] = (@ \cup {s}) \ {WaitSignal}]
  /\ wpc' = [wpc EXCEPT ![s] = IF WaitSignal \in bitmap[d] THEN "post" ELSE "idle"]
  /\ orphan' = [orphan EXCEPT ![d] = @ \ {s}]
  /\ UNCHANGED <<attached, created, pipes, sem, wdst, reader>>

\* mSemaphore.post()
post(s) ==
  /\ wpc[s] = "post"
  /\ sem' = [sem EXCEPT ![wdst[s]] = @ + 1]
  /\ wpc' = [wpc EXCEPT ![s] = "idle"]
  /\ UNCHANGED <<attached, created, pipes, bitmap, wdst, reader, orphan>>

-----------------------------------------------------------------------------
(* Reading: DispatcherThreadContext::read.                                 *)

\* Non-blocking: signals = bitmap_xchg(mBitmap, 0).  A zero bitmap changes
\* nothing: read() returns false.
check(d, count) ==
  /\ attached[d]
  /\ rpc[d] = "idle"
  /\ bitmap[d] # {}
  /\ signals' = [signals EXCEPT ![d] = bitmap[d]]
  /\ bitmap' = [bitmap EXCEPT ![d] = {}]
  /\ room' = [room EXCEPT ![d] = count]
  /\ rpc' = [rpc EXCEPT ![d] = "scan"]
  /\ UNCHANGED <<attached, created, pipes, sem, writer, orphan>>

\* Blocking: bitmap_izte(mBitmap, 1 << mWaitSignal, 0).
poll(d, count) ==
  /\ attached[d]
  /\ rpc[d] = "idle"
  /\ room' = [room EXCEPT ![d] = count]
  /\ IF bitmap[d] = {}
       THEN /\ bitmap' = [bitmap EXCEPT ![d] = {WaitSignal}]
            /\ rpc' = [rpc EXCEPT ![d] = "wait"]
            /\ UNCHANGED signals
       ELSE /\ signals' = [signals EXCEPT ![d] = bitmap[d]]
            /\ bitmap' = [bitmap EXCEPT ![d] = {}]
            /\ rpc' = [rpc EXCEPT ![d] = "scan"]
  /\ UNCHANGED <<attached, created, pipes, sem, writer, orphan>>

\* mSemaphore.wait() returns.
poll_wait(d) ==
  /\ rpc[d] = "wait"
  /\ sem[d] > 0
  /\ sem' = [sem EXCEPT ![d] = @ - 1]
  /\ rpc' = [rpc EXCEPT ![d] = "woken"]
  /\ UNCHANGED <<attached, created, pipes, bitmap, writer, signals, room, orphan>>

\* ... then result = bitmap_xchg(mBitmap, 0); read() returns at once on zero.
poll_xchg(d) ==
  /\ rpc[d] = "woken"
  /\ signals' = [signals EXCEPT ![d] = bitmap[d]]
  /\ bitmap' = [bitmap EXCEPT ![d] = {}]
  /\ rpc' = [rpc EXCEPT ![d] = IF bitmap[d] = {} THEN "idle" ELSE "scan"]
  /\ UNCHANGED <<attached, created, pipes, sem, writer, room, orphan>>

\* The loops over the sources and over the room left: one pipe read.
Scanning(d) == rpc[d] = "scan" /\ room[d] > 0 /\ signals[d] \cap Thread # {}

scan(d) ==
  LET s == Min(signals[d] \cap Thread) IN
  /\ Scanning(d)
  /\ IF HasMessage(s, d)
       THEN /\ taken' = [taken EXCEPT ![<<s, d>>] = @ + 1]
            /\ room' = [room EXCEPT ![d] = @ - 1]
            /\ UNCHANGED signals
       ELSE /\ signals' = [signals EXCEPT ![d] = @ \ {s}]
            /\ UNCHANGED <<taken, room>>
  /\ UNCHANGED <<attached, created, sent, bitmap, sem, writer, rpc, orphan>>

\* Mutant of bitOr: the bits of sources that were not drained are dropped.
bitOr_Dropped(d) ==
  /\ rpc[d] = "scan"
  /\ ~Scanning(d)
  /\ signals' = [signals EXCEPT ![d] = {}]
  /\ room' = [room EXCEPT ![d] = 0]
  /\ rpc' = [rpc EXCEPT ![d] = "idle"]
  /\ UNCHANGED <<attached, created, pipes, bitmap, sem, writer, orphan>>

\* mSignaler.bitOr(signals): sources that are not known to be empty.
bitOr(d) ==
  /\ rpc[d] = "scan"
  /\ ~Scanning(d)
  /\ bitmap' = [bitmap EXCEPT ![d] = @ \cup signals[d]]
  /\ signals' = [signals EXCEPT ![d] = {}]
  /\ room' = [room EXCEPT ![d] = 0]
  /\ rpc' = [rpc EXCEPT ![d] = "idle"]
  /\ UNCHANGED <<attached, created, pipes, sem, writer, orphan>>

-----------------------------------------------------------------------------
Lifecycle(t) == createThreadContext(t) \/ distroyThreadContext(t)

Signalling(s) == signal(s) \/ post(s)

Reader(d) ==
  \/ \E count \in 1..MaxRead : check(d, count) \/ poll(d, count)
  \/ poll_wait(d) \/ poll_xchg(d)
  \/ scan(d) \/ bitOr(d)

Next ==
  \/ \E t \in Thread : Lifecycle(t) \/ Signalling(t) \/ Reader(t)
  \/ \E pipe \in Route, count \in 1..MaxBatch : write(pipe[1], pipe[2], count)

Spec == Init /\ [][Next]_vars

(***************************************************************************)
(* Fairness: a thread that entered write() leaves it, and the owner of a   *)
(* context keeps calling read().  Nobody has to write, create or destroy.  *)
(***************************************************************************)
FairSpec ==
  /\ Spec
  /\ \A t \in Thread : WF_vars(Signalling(t)) /\ WF_vars(Reader(t))

-----------------------------------------------------------------------------
TypeOK ==
  /\ attached \in [Thread -> BOOLEAN]
  /\ created \in Nat
  /\ sent \in [Thread \X Thread -> Nat]
  /\ taken \in [Thread \X Thread -> Nat]
  /\ bitmap \in [Thread -> SUBSET (Thread \cup {WaitSignal})]
  /\ sem \in [Thread -> Nat]
  /\ wpc \in [Thread -> {"idle", "signal", "post"}]
  /\ wdst \in [Thread -> Thread]
  /\ rpc \in [Thread -> {"idle", "wait", "woken", "scan"}]
  /\ signals \in [Thread -> SUBSET (Thread \cup {WaitSignal})]
  /\ room \in [Thread -> Nat]
  /\ orphan \in [Thread -> SUBSET Thread]

\* A published message is never forgotten: its source's bit is set, or is
\* about to be set by the writer, or is in the hands of the reader, whatever
\* the interleaving of flush, signal, the exchange of the bitmap, the pipe
\* reads and bitOr.  (Messages left by a former context are excepted.)
NoLostSignal ==
  /\ TypeOK
  /\ \A s, d \in Thread :
       attached[d] /\ HasMessage(s, d) =>
         \/ s \in bitmap[d] \cup signals[d] \cup orphan[d]
         \/ wpc[s] = "signal" /\ wdst[s] = d

\* The semaphore, the wait bit and the posts due match the reader one to
\* one: a reader that waits finds its wait bit or exactly one post, one
\* that does not wait finds neither, and one that was woken finds a signal.
Posting(d) == {s \in Thread : wpc[s] = "post" /\ wdst[s] = d}
WaitBits(d) == bitmap[d] \cap {WaitSignal}
WakeupsMatch ==
  \A d \in Thread :
    /\ sem[d] + Cardinality(Posting(d)) + Cardinality(WaitBits(d))
         = IF rpc[d] = "wait" THEN 1 ELSE 0
    /\ rpc[d] = "woken" => bitmap[d] # {}
    /\ rpc[d] = "wait" /\ WaitBits(d) = {} => bitmap[d] # {}

\* Every message is read, as long as its destination lives and keeps reading.
MessagesArrive ==
  \A s, d \in Thread : \A n \in 1..MaxSent :
    (attached[d] /\ sent[<<s, d>>] >= n /\ s \notin orphan[d])
      ~> (taken[<<s, d>>] >= n \/ ~attached[d])

\* "Read the first message available from any pipes": a reader does not go
\* to sleep while a message is in one of its pipes and its writer has
\* returned from write().
SleepsOnlyWhenEmpty ==
  \A s, d \in Thread :
    rpc[d] = "wait" /\ WaitSignal \in bitmap[d] /\ HasMessage(s, d)
      => WritingTo(s, d)

=============================================================================
