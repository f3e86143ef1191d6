-------------------------- MODULE DispatcherProofs --------------------------
(***************************************************************************)
(* No message is forgotten and no wakeup is lost or superfluous, for any   *)
(* number of contexts, routes, batches and reads.                          *)
(*                                                                         *)
(* NoLostSignal needs that a reader holds signal bits only while it scans: *)
(* the exchange of the bitmap overwrites what it held.  WakeupsMatch needs *)
(* that a detached context is at rest, because a new signaler forgets the  *)
(* wait bit and the posts of the old one, and that the wait bit is never   *)
(* among the bits a reader holds, because bitOr would put it back.         *)
(***************************************************************************)
EXTENDS Dispatcher, FiniteSetTheorems, TLAPS

\* The bits in the hands of a reader are those of sources, and only in a scan.
HeldBits ==
  \A d \in Thread : signals[d] \subseteq Thread /\ (rpc[d] # "scan" => signals[d] = {})

\* Nobody uses a context that is not attached.
DetachedIsIdle ==
  \A d \in Thread : ~attached[d] =>
    /\ wpc[d] = "idle" /\ rpc[d] = "idle"
    /\ \A s \in Thread : ~WritingTo(s, d)

\* WakeupsMatch with the wait bit as a condition; the wait bit stands alone.
Balanced(d) ==
  /\ sem[d] + Cardinality(Posting(d)) + (IF WaitSignal \in bitmap[d] THEN 1 ELSE 0)
       = IF rpc[d] = "wait" THEN 1 ELSE 0
  /\ rpc[d] = "woken" => bitmap[d] # {}
  /\ rpc[d] = "wait" /\ WaitSignal \notin bitmap[d] => bitmap[d] # {}
  /\ WaitSignal \in bitmap[d] => bitmap[d] = {WaitSignal}

IInv == NoLostSignal /\ HeldBits /\ DetachedIsIdle /\ \A d \in Thread : Balanced(d)

\* The bit of a source is not the wait bit, and posts can be counted.
LEMMA ThreadFacts ==
  /\ WaitSignal \notin Thread
  /\ IsFiniteSet(Thread)
  /\ \A d \in Thread : IsFiniteSet(Posting(d)) /\ Cardinality(Posting(d)) \in Nat
<1>1. MaxThreads \in Int /\ MaxThreads - 1 < WaitSignal
  BY DispatcherAssumption DEF WaitSignal
<1>2. WaitSignal \notin Thread
  BY <1>1 DEF Thread, WaitSignal
<1>3. IsFiniteSet(Thread)
  BY <1>1, FS_Interval DEF Thread
<1>4. \A d \in Thread : Posting(d) \in SUBSET Thread
  BY DEF Posting
<1> QED
  BY <1>2, <1>3, <1>4, FS_Subset, FS_CardinalityType

\* The wait bit counts one or nothing.
LEMMA WaitBitCount ==
  ASSUME NEW d \in Thread
  PROVE  Cardinality(WaitBits(d)) = IF WaitSignal \in bitmap[d] THEN 1 ELSE 0
<1>1. CASE WaitSignal \in bitmap[d]
  <2>1. WaitBits(d) = {WaitSignal}
    BY <1>1 DEF WaitBits
  <2> QED
    BY <1>1, <2>1, FS_Singleton
<1>2. CASE WaitSignal \notin bitmap[d]
  <2>1. WaitBits(d) = {}
    BY <1>2 DEF WaitBits
  <2> QED
    BY <1>2, <2>1, FS_EmptySet
<1> QED
  BY <1>1, <1>2

\* The dispatcher begins without contexts, messages and signals.
LEMMA InitIInv == Init => IInv
<1> SUFFICES ASSUME Init PROVE IInv
  OBVIOUS
<1>1. TypeOK
  <2>1. 0 \in Thread
    BY DispatcherAssumption DEF Thread
  <2> QED
    BY <2>1 DEF Init, TypeOK
<1>2. NoLostSignal
  BY <1>1 DEF NoLostSignal, Init, HasMessage
<1>3. HeldBits /\ DetachedIsIdle
  BY DEF HeldBits, DetachedIsIdle, Init, WritingTo
<1>4. ASSUME NEW d \in Thread PROVE Balanced(d)
  <2>1. Posting(d) = {} /\ WaitSignal \notin bitmap[d]
    BY DEF Init, Posting
  <2>2. Cardinality(Posting(d)) = 0
    BY <2>1, FS_EmptySet
  <2> QED
    BY <2>1, <2>2 DEF Init, Balanced
<1> QED
  BY <1>2, <1>3, <1>4 DEF IInv

\* A function that is changed at one place keeps its type.
LEMMA Update ==
  ASSUME NEW S, NEW T, NEW g \in [S -> T], NEW x, NEW v \in T
  PROVE  [g EXCEPT ![x] = v] \in [S -> T]
OBVIOUS

\* Every step keeps the types.
LEMMA NextTypeOK == TypeOK /\ [Next]_vars => TypeOK'
<1> SUFFICES ASSUME TypeOK, [Next]_vars PROVE TypeOK'
  OBVIOUS
<1> USE DEF TypeOK, pipes, writer, reader
<1>1. CASE UNCHANGED vars
  BY <1>1 DEF vars
<1>2. ASSUME NEW t \in Thread, createThreadContext(t) PROVE TypeOK'
  <2> USE <1>2 DEF createThreadContext
  <2>1. attached' \in [Thread -> BOOLEAN]
    BY Update, Zenon
  <2>2. orphan' \in [Thread -> SUBSET Thread]
    BY Update
  <2>3. bitmap' \in [Thread -> SUBSET (Thread \cup {WaitSignal})] /\ sem' \in [Thread -> Nat]
    BY Update
  <2> QED
    BY <2>1, <2>2, <2>3
<1>3. ASSUME NEW t \in Thread, distroyThreadContext(t) PROVE TypeOK'
  <2>1. attached' \in [Thread -> BOOLEAN]
    BY <1>3, Update, Zenon DEF distroyThreadContext
  <2> QED
    BY <1>3, <2>1 DEF distroyThreadContext
<1>4. ASSUME NEW s \in Thread, signal(s) PROVE TypeOK'
  <2> USE <1>4 DEF signal
  <2>1. wpc' \in [Thread -> {"idle", "signal", "post"}]
    OBVIOUS
  <2>2. bitmap' \in [Thread -> SUBSET (Thread \cup {WaitSignal})]
    OBVIOUS
  <2>3. orphan' \in [Thread -> SUBSET Thread]
    OBVIOUS
  <2> QED
    BY <2>1, <2>2, <2>3
<1>5. ASSUME NEW s \in Thread, post(s) PROVE TypeOK'
  BY <1>5 DEF post
<1>6. ASSUME NEW d \in Thread, NEW count \in 1..MaxRead, check(d, count) PROVE TypeOK'
  BY <1>6, DispatcherAssumption DEF check
<1>7. ASSUME NEW d \in Thread, NEW count \in 1..MaxRead, poll(d, count) PROVE TypeOK'
  <2>1. count \in Nat
    BY DispatcherAssumption
  <2>2. room' \in [Thread -> Nat]
    BY <1>7, <2>1, Update DEF poll
  <2>3. bitmap' \in [Thread -> SUBSET (Thread \cup {WaitSignal})]
    BY <1>7, Update DEF poll
  <2>4. signals' \in [Thread -> SUBSET (Thread \cup {WaitSignal})]
    BY <1>7 DEF poll
  <2>5. rpc' \in [Thread -> {"idle", "wait", "woken", "scan"}]
    BY <1>7 DEF poll
  <2> QED
    BY <1>7, <2>2, <2>3, <2>4, <2>5 DEF poll
<1>8. ASSUME NEW d \in Thread, poll_wait(d) PROVE TypeOK'
  <2>1. sem[d] - 1 \in Nat
    BY <1>8 DEF poll_wait
  <2>2. sem' \in [Thread -> Nat]
    BY <1>8, <2>1, Update DEF poll_wait
  <2> QED
    BY <1>8, <2>2 DEF poll_wait
<1>9. ASSUME NEW d \in Thread, poll_xchg(d) PROVE TypeOK'
  BY <1>9 DEF poll_xchg
<1>10. ASSUME NEW d \in Thread, scan(d) PROVE TypeOK'
  <2> DEFINE s == Min(signals[d] \cap Thread)
  <2>1. CASE HasMessage(s, d)
    <3>1. room[d] - 1 \in Nat
      BY <1>10 DEF scan, Scanning
    <3>2. room' \in [Thread -> Nat]
      BY <1>10, <2>1, <3>1, Update DEF scan
    <3>3. taken' = [taken EXCEPT ![<<s, d>>] = @ + 1]
      BY <1>10, <2>1 DEF scan
    <3>4. taken' \in [Thread \X Thread -> Nat]
      <4> HIDE DEF s
      <4>1. CASE <<s, d>> \in Thread \X Thread
        BY <3>3, <4>1
      <4>2. CASE <<s, d>> \notin Thread \X Thread
        BY <3>3, <4>2
      <4> QED
        BY <4>1, <4>2
    <3> QED
      BY <1>10, <2>1, <3>2, <3>4 DEF scan
  <2>2. CASE ~HasMessage(s, d)
    <3>1. signals' \in [Thread -> SUBSET (Thread \cup {WaitSignal})]
      BY <1>10, <2>2 DEF scan
    <3> QED
      BY <1>10, <2>2, <3>1 DEF scan
  <2> QED
    BY <2>1, <2>2
<1>11. ASSUME NEW d \in Thread, bitOr(d) PROVE TypeOK'
  BY <1>11 DEF bitOr
<1>12. ASSUME NEW p \in Route, NEW count \in 1..MaxBatch, write(p[1], p[2], count)
       PROVE  TypeOK'
  <2>1. p[1] \in Thread /\ p[2] \in Thread /\ count \in Nat
    BY DispatcherAssumption
  <2> QED
    BY <1>12, <2>1 DEF write
<1> QED
  BY <1>1, <1>2, <1>3, <1>4, <1>5, <1>6, <1>7, <1>8, <1>9, <1>10, <1>11, <1>12
  DEF Next, Lifecycle, Signalling, Reader

\* The steps of Next, one by one.
LEMMA Steps ==
  ASSUME [Next]_vars
  PROVE  \/ UNCHANGED vars
         \/ \E t \in Thread : \/ createThreadContext(t) \/ distroyThreadContext(t)
                              \/ signal(t) \/ post(t)
                              \/ poll_wait(t) \/ poll_xchg(t) \/ scan(t) \/ bitOr(t)
                              \/ \E count \in Nat : check(t, count) \/ poll(t, count)
         \/ \E s, d \in Thread, count \in Nat \ {0} : write(s, d, count)
<1>1. ASSUME NEW p \in Route, NEW count \in 1..MaxBatch, write(p[1], p[2], count)
      PROVE  \E s, d \in Thread, n \in Nat \ {0} : write(s, d, n)
  <2>1. p[1] \in Thread /\ p[2] \in Thread /\ count \in Nat \ {0}
    BY DispatcherAssumption
  <2> QED
    BY <1>1, <2>1
<1>2. 1..MaxRead \subseteq Nat
  BY DispatcherAssumption
<1> QED
  BY <1>1, <1>2 DEF Next, Lifecycle, Signalling, Reader

\* Readers take and give back bits of sources, and hold none outside a scan.
LEMMA NextHeldBits == TypeOK /\ HeldBits /\ (\A d \in Thread : Balanced(d)) /\ [Next]_vars => HeldBits'
<1> SUFFICES ASSUME TypeOK, HeldBits, \A d \in Thread : Balanced(d), [Next]_vars PROVE HeldBits'
  OBVIOUS
<1> USE DEF HeldBits
<1>t. /\ signals \in [Thread -> SUBSET (Thread \cup {WaitSignal})]
      /\ bitmap \in [Thread -> SUBSET (Thread \cup {WaitSignal})]
      /\ rpc \in [Thread -> {"idle", "wait", "woken", "scan"}]
      /\ sem \in [Thread -> Nat]
  BY DEF TypeOK
\* A reader that takes the bitmap does not wait, and finds no wait bit.
<1>b. ASSUME NEW d \in Thread, rpc[d] # "wait" PROVE bitmap[d] \subseteq Thread
  <2>1. sem[d] \in Nat /\ Cardinality(Posting(d)) \in Nat
    BY ThreadFacts, <1>t
  <2>2. WaitSignal \notin bitmap[d]
    BY <1>b, <2>1 DEF Balanced
  <2> QED
    BY <1>t, <2>2
<1>1. CASE UNCHANGED <<signals, rpc>>
  BY <1>1
<1>2. ASSUME NEW d \in Thread, NEW count, check(d, count) \/ poll(d, count) \/ poll_xchg(d)
      PROVE  HeldBits'
  BY <1>2, <1>b, <1>t DEF check, poll, poll_xchg
<1>3. ASSUME NEW d \in Thread, poll_wait(d) \/ bitOr(d) PROVE HeldBits'
  BY <1>3, <1>t DEF poll_wait, bitOr
<1>4. ASSUME NEW d \in Thread, scan(d) PROVE HeldBits'
  BY <1>4, <1>t DEF scan, Scanning
<1> QED
  BY Steps, <1>1, <1>2, <1>3, <1>4
  DEF vars, reader, createThreadContext, distroyThreadContext, signal, post, write

\* A context is created at rest and destroyed at rest, and used in between.
LEMMA NextDetachedIsIdle == TypeOK /\ DetachedIsIdle /\ [Next]_vars => DetachedIsIdle'
<1> SUFFICES ASSUME TypeOK, DetachedIsIdle, [Next]_vars PROVE DetachedIsIdle'
  OBVIOUS
<1> USE DEF DetachedIsIdle, WritingTo
<1>t. /\ attached \in [Thread -> BOOLEAN] /\ wdst \in [Thread -> Thread]
      /\ wpc \in [Thread -> {"idle", "signal", "post"}]
      /\ rpc \in [Thread -> {"idle", "wait", "woken", "scan"}]
  BY DEF TypeOK
<1>1. CASE UNCHANGED <<attached, wpc, wdst, rpc>>
  BY <1>1
<1>2. ASSUME NEW id \in Thread, createThreadContext(id) PROVE DetachedIsIdle'
  BY <1>2, <1>t DEF createThreadContext, writer, reader
<1>3. ASSUME NEW id \in Thread, distroyThreadContext(id) PROVE DetachedIsIdle'
  BY <1>3, <1>t DEF distroyThreadContext, writer, reader
<1>4. ASSUME NEW s \in Thread, signal(s) \/ post(s) PROVE DetachedIsIdle'
  BY <1>4, <1>t DEF signal, post, reader
<1>5. ASSUME NEW s \in Thread, NEW d \in Thread, NEW count, write(s, d, count)
      PROVE  DetachedIsIdle'
  BY <1>5, <1>t DEF write, reader
<1>6. ASSUME NEW d \in Thread, NEW count, check(d, count) \/ poll(d, count)
      PROVE  DetachedIsIdle'
  BY <1>6, <1>t DEF check, poll, writer
<1>7. ASSUME NEW d \in Thread, poll_wait(d) \/ poll_xchg(d) \/ bitOr(d) PROVE DetachedIsIdle'
  BY <1>7, <1>t DEF poll_wait, poll_xchg, bitOr, writer
<1>8. ASSUME NEW d \in Thread, scan(d) PROVE DetachedIsIdle'
  BY <1>8, <1>t DEF scan, writer
<1> QED
  BY Steps, <1>1, <1>2, <1>3, <1>4, <1>5, <1>6, <1>7, <1>8 DEF vars, writer, reader

\* Every published message keeps its bit, its announcement or its reader.
LEMMA NextNoLostSignal == IInv /\ [Next]_vars => NoLostSignal'
<1> DEFINE Covered(s, d) ==
      \/ ~attached[d] \/ ~HasMessage(s, d)
      \/ s \in bitmap[d] \cup signals[d] \cup orphan[d]
      \/ wpc[s] = "signal" /\ wdst[s] = d
<1> SUFFICES ASSUME IInv, [Next]_vars, NEW s \in Thread, NEW d \in Thread
             PROVE  Covered(s, d)'
  BY NextTypeOK DEF IInv, NoLostSignal
<1>i. TypeOK /\ Covered(s, d) /\ (rpc[d] # "scan" => signals[d] = {})
  BY DEF IInv, NoLostSignal, HeldBits
<1>t. /\ attached \in [Thread -> BOOLEAN] /\ wdst \in [Thread -> Thread]
      /\ bitmap \in [Thread -> SUBSET (Thread \cup {WaitSignal})]
      /\ signals \in [Thread -> SUBSET (Thread \cup {WaitSignal})]
      /\ orphan \in [Thread -> SUBSET Thread]
      /\ wpc \in [Thread -> {"idle", "signal", "post"}]
      /\ rpc \in [Thread -> {"idle", "wait", "woken", "scan"}]
      /\ sent \in [Thread \X Thread -> Nat] /\ taken \in [Thread \X Thread -> Nat]
  BY <1>i DEF TypeOK
<1>w. s # WaitSignal
  BY ThreadFacts
<1>1. CASE UNCHANGED vars
  BY <1>1, <1>i DEF vars, pipes, writer, reader, HasMessage
<1>2. ASSUME NEW id \in Thread, createThreadContext(id) PROVE Covered(s, d)'
  BY <1>2, <1>i, <1>t DEF createThreadContext, pipes, writer, reader, HasMessage
<1>3. ASSUME NEW id \in Thread, distroyThreadContext(id) PROVE Covered(s, d)'
  BY <1>3, <1>i, <1>t DEF distroyThreadContext, pipes, writer, reader, HasMessage
<1>4. ASSUME NEW q \in Thread, signal(q) PROVE Covered(s, d)'
  <2>1. s \in bitmap[d] => s \in bitmap'[d]
    BY <1>4, <1>t, <1>w DEF signal
  <2>2. CASE q = s /\ wdst[s] = d
    BY <1>4, <1>t, <1>w, <2>2 DEF signal
  <2>3. CASE ~(q = s /\ wdst[s] = d)
    <3>1. s \in orphan[d] => s \in orphan'[d]
      BY <1>4, <1>t, <2>3 DEF signal
    <3>2. wpc[s] = "signal" /\ wdst[s] = d => wpc'[s] = "signal"
      BY <1>4, <1>t, <2>3 DEF signal
    <3> QED
      BY <1>4, <1>i, <2>1, <3>1, <3>2 DEF signal, pipes, reader, HasMessage
  <2> QED
    BY <2>2, <2>3
<1>5. ASSUME NEW q \in Thread, post(q) PROVE Covered(s, d)'
  BY <1>5, <1>i, <1>t DEF post, pipes, reader, HasMessage
<1>6. ASSUME NEW q \in Thread, NEW e \in Thread, NEW count \in Nat \ {0}, write(q, e, count)
      PROVE  Covered(s, d)'
  <2>1. CASE q = s /\ e = d
    BY <1>6, <1>t, <2>1 DEF write
  <2>2. CASE ~(q = s /\ e = d)
    <3>1. sent'[<<s, d>>] = sent[<<s, d>>]
      BY <1>6, <1>t, <2>2 DEF write
    <3>2. wpc[s] = "signal" => wpc'[s] = wpc[s] /\ wdst'[s] = wdst[s]
      BY <1>6, <1>t DEF write
    <3> QED
      BY <1>6, <1>i, <3>1, <3>2 DEF write, reader, HasMessage
  <2> QED
    BY <2>1, <2>2
<1>7. ASSUME NEW e \in Thread, NEW count, check(e, count) PROVE Covered(s, d)'
  BY <1>7, <1>i, <1>t DEF check, pipes, writer, HasMessage
<1>8. ASSUME NEW e \in Thread, NEW count, poll(e, count) PROVE Covered(s, d)'
  BY <1>8, <1>i, <1>t DEF poll, pipes, writer, HasMessage
<1>9. ASSUME NEW e \in Thread, poll_wait(e) PROVE Covered(s, d)'
  BY <1>9, <1>i, <1>t DEF poll_wait, pipes, writer, HasMessage
<1>10. ASSUME NEW e \in Thread, poll_xchg(e) PROVE Covered(s, d)'
  BY <1>10, <1>i, <1>t DEF poll_xchg, pipes, writer, HasMessage
<1>11. ASSUME NEW e \in Thread, scan(e) PROVE Covered(s, d)'
  <2> DEFINE q == Min(signals[e] \cap Thread)
  <2>1. CASE HasMessage(q, e)
    <3>1. HasMessage(s, d)' => HasMessage(s, d)
      <4>1. taken' = [taken EXCEPT ![<<q, e>>] = @ + 1] /\ UNCHANGED sent
        BY <1>11, <2>1 DEF scan
      <4> HIDE DEF q
      <4>2. taken[<<s, d>>] <= taken'[<<s, d>>]
        <5>1. taken[<<s, d>>] \in Nat
          BY <1>t
        <5>2. taken'[<<s, d>>] \in {taken[<<s, d>>], taken[<<s, d>>] + 1}
          BY <4>1, <1>t
        <5> QED
          BY <5>1, <5>2
      <4>3. taken[<<s, d>>] \in Nat /\ taken'[<<s, d>>] \in Nat /\ sent[<<s, d>>] \in Nat
        BY <4>1, <1>t
      <4> QED
        BY <4>1, <4>2, <4>3 DEF HasMessage
    <3> QED
      BY <1>11, <1>i, <2>1, <3>1 DEF scan, writer
  <2>2. CASE ~HasMessage(q, e)
    <3>1. s \in signals[d] => s \in signals'[d] \/ ~HasMessage(s, d)
      BY <1>11, <1>t, <2>2 DEF scan
    <3>2. UNCHANGED <<attached, sent, taken, bitmap, orphan, wpc, wdst>>
      BY <1>11, <2>2 DEF scan, writer
    <3> QED
      BY <1>i, <3>1, <3>2 DEF HasMessage
  <2> QED
    BY <2>1, <2>2
<1>12. ASSUME NEW e \in Thread, bitOr(e) PROVE Covered(s, d)'
  BY <1>12, <1>i, <1>t DEF bitOr, pipes, writer, HasMessage
<1> HIDE DEF Covered
<1> QED
  BY Steps, <1>1, <1>2, <1>3, <1>4, <1>5, <1>6, <1>7, <1>8, <1>9, <1>10, <1>11, <1>12

\* Every step keeps wait bit, posts and semaphore in step with the reader.
LEMMA NextBalanced == IInv /\ [Next]_vars => \A d \in Thread : Balanced(d)'
<1> SUFFICES ASSUME IInv, [Next]_vars, NEW d \in Thread
             PROVE  Balanced(d)'
  OBVIOUS
<1>t. /\ attached \in [Thread -> BOOLEAN] /\ wdst \in [Thread -> Thread]
      /\ bitmap \in [Thread -> SUBSET (Thread \cup {WaitSignal})]
      /\ sem \in [Thread -> Nat]
      /\ wpc \in [Thread -> {"idle", "signal", "post"}]
      /\ rpc \in [Thread -> {"idle", "wait", "woken", "scan"}]
  BY DEF IInv, NoLostSignal, TypeOK
<1>b. Balanced(d) /\ sem[d] \in Nat /\ Cardinality(Posting(d)) \in Nat /\ IsFiniteSet(Posting(d))
  BY <1>t, ThreadFacts DEF IInv
<1>w. WaitSignal \notin Thread
  BY ThreadFacts
\* A step that touches neither the signaler nor its users.
<1>k. ASSUME Posting(d)' = Posting(d), sem'[d] = sem[d], bitmap'[d] = bitmap[d], rpc'[d] = rpc[d]
      PROVE  Balanced(d)'
  BY <1>b, <1>k DEF Balanced
\* Only writers change the posts that are due.
<1>p. ASSUME UNCHANGED <<wpc, wdst>> PROVE Posting(d)' = Posting(d)
  BY <1>p DEF Posting
<1>1. CASE UNCHANGED vars
  BY <1>1, <1>k, <1>p DEF vars, writer, reader
<1>2. ASSUME NEW id \in Thread, createThreadContext(id) PROVE Balanced(d)'
  <2>1. CASE id = d
    <3>1. rpc[d] = "idle" /\ \A q \in Thread : ~WritingTo(q, d)
      BY <1>2, <2>1 DEF createThreadContext, IInv, DetachedIsIdle
    <3>2. Posting(d) = {}
      BY <3>1 DEF Posting, WritingTo
    <3>3. Cardinality(Posting(d)') = 0
      BY <1>2, <1>p, <3>2, FS_EmptySet DEF createThreadContext, writer
    <3> QED
      BY <1>2, <1>t, <2>1, <3>1, <3>3 DEF createThreadContext, reader, Balanced
  <2>2. CASE id # d
    BY <1>2, <1>t, <1>k, <1>p, <2>2 DEF createThreadContext, writer, reader
  <2> QED
    BY <2>1, <2>2
<1>3. ASSUME NEW id \in Thread, distroyThreadContext(id) PROVE Balanced(d)'
  BY <1>3, <1>k, <1>p DEF distroyThreadContext, writer, reader
<1>4. ASSUME NEW q \in Thread, signal(q) PROVE Balanced(d)'
  <2>1. CASE wdst[q] = d /\ WaitSignal \in bitmap[d]
    <3>1. q \notin Posting(d) /\ Posting(d)' = Posting(d) \cup {q}
      BY <1>4, <1>t, <2>1 DEF signal, Posting
    <3>2. Cardinality(Posting(d)') = Cardinality(Posting(d)) + 1
      BY <1>b, <3>1, FS_AddElement
    <3>3. bitmap'[d] = (bitmap[d] \cup {q}) \ {WaitSignal} /\ q # WaitSignal
      BY <1>4, <1>t, <1>w, <2>1 DEF signal
    <3>4. UNCHANGED <<sem, rpc>>
      BY <1>4 DEF signal, reader
    <3> QED
      BY <1>b, <2>1, <3>2, <3>3, <3>4 DEF Balanced
  <2>2. CASE wdst[q] = d /\ WaitSignal \notin bitmap[d]
    <3>1. Posting(d)' = Posting(d)
      BY <1>4, <1>t, <2>2 DEF signal, Posting
    <3>2. bitmap'[d] = (bitmap[d] \cup {q}) \ {WaitSignal} /\ q # WaitSignal
      BY <1>4, <1>t, <1>w, <2>2 DEF signal
    <3>3. UNCHANGED <<sem, rpc>>
      BY <1>4 DEF signal, reader
    <3> QED
      BY <1>b, <2>2, <3>1, <3>2, <3>3 DEF Balanced
  <2>3. CASE wdst[q] # d
    <3>1. Posting(d)' = Posting(d)
      BY <1>4, <1>t, <2>3 DEF signal, Posting
    <3> QED
      BY <1>4, <1>t, <1>k, <2>3, <3>1 DEF signal, reader
  <2> QED
    BY <2>1, <2>2, <2>3
<1>5. ASSUME NEW q \in Thread, post(q) PROVE Balanced(d)'
  <2>1. CASE wdst[q] = d
    <3>1. q \in Posting(d) /\ Posting(d)' = Posting(d) \ {q}
      BY <1>5, <1>t, <2>1 DEF post, Posting
    <3>2. Cardinality(Posting(d)') = Cardinality(Posting(d)) - 1
      BY <1>b, <3>1, FS_RemoveElement
    <3>3. sem'[d] = sem[d] + 1 /\ UNCHANGED <<bitmap, rpc>>
      BY <1>5, <1>t, <2>1 DEF post, reader
    <3> QED
      BY <1>b, <3>2, <3>3 DEF Balanced
  <2>2. CASE wdst[q] # d
    <3>1. Posting(d)' = Posting(d)
      BY <1>5, <1>t, <2>2 DEF post, Posting
    <3> QED
      BY <1>5, <1>t, <1>k, <2>2, <3>1 DEF post, reader
  <2> QED
    BY <2>1, <2>2
<1>6. ASSUME NEW q \in Thread, NEW e \in Thread, NEW count, write(q, e, count)
      PROVE  Balanced(d)'
  <2>1. Posting(d)' = Posting(d)
    BY <1>6, <1>t DEF write, Posting
  <2> QED
    BY <1>6, <1>k, <2>1 DEF write, reader
<1>7. ASSUME NEW e \in Thread, e # d,
             \/ poll_wait(e) \/ poll_xchg(e) \/ scan(e) \/ bitOr(e)
             \/ \E count \in Nat : check(e, count) \/ poll(e, count)
      PROVE  Balanced(d)'
  <2>1. sem'[d] = sem[d] /\ bitmap'[d] = bitmap[d] /\ rpc'[d] = rpc[d] /\ UNCHANGED <<wpc, wdst>>
    <3>1. CASE poll_wait(e) \/ poll_xchg(e)
      BY <1>7, <1>t, <3>1 DEF poll_wait, poll_xchg, writer
    <3>2. CASE scan(e) \/ bitOr(e)
      BY <1>7, <1>t, <3>2 DEF scan, bitOr, writer
    <3>3. ASSUME NEW count \in Nat, check(e, count) \/ poll(e, count)
          PROVE  /\ sem'[d] = sem[d] /\ bitmap'[d] = bitmap[d] /\ rpc'[d] = rpc[d]
                 /\ UNCHANGED <<wpc, wdst>>
      BY <1>7, <1>t, <3>3 DEF check, poll, writer
    <3> QED
      BY <1>7, <3>1, <3>2, <3>3
  <2> QED
    BY <1>k, <1>p, <2>1
<1>8. ASSUME NEW count, check(d, count) PROVE Balanced(d)'
  BY <1>8, <1>b, <1>p, <1>t DEF check, writer, Balanced
<1>9. ASSUME NEW count, poll(d, count) PROVE Balanced(d)'
  BY <1>9, <1>b, <1>p, <1>t DEF poll, writer, Balanced
<1>10. CASE poll_wait(d)
  BY <1>10, <1>b, <1>p, <1>t DEF poll_wait, writer, Balanced
<1>11. CASE poll_xchg(d)
  BY <1>11, <1>b, <1>p, <1>t DEF poll_xchg, writer, Balanced
<1>12. CASE scan(d)
  BY <1>12, <1>k, <1>p DEF scan, writer
<1>13. CASE bitOr(d)
  <2>1. WaitSignal \notin signals[d]
    BY <1>w DEF IInv, HeldBits
  <2> QED
    BY <1>13, <1>b, <1>p, <1>t, <2>1 DEF bitOr, writer, Balanced
<1> QED
  BY Steps, <1>1, <1>2, <1>3, <1>4, <1>5, <1>6, <1>7, <1>8, <1>9, <1>10, <1>11, <1>12, <1>13

-----------------------------------------------------------------------------
\* IInv is an invariant of the dispatcher.
THEOREM Invariance == Spec => []IInv
<1>1. IInv /\ [Next]_vars => IInv'
  <2> SUFFICES ASSUME IInv, [Next]_vars PROVE IInv'
    OBVIOUS
  <2>1. TypeOK
    BY DEF IInv, NoLostSignal
  <2>2. NoLostSignal' /\ \A d \in Thread : Balanced(d)'
    BY NextNoLostSignal, NextBalanced
  <2>3. HeldBits' /\ DetachedIsIdle'
    BY <2>1, NextHeldBits, NextDetachedIsIdle DEF IInv
  <2> QED
    BY <2>2, <2>3 DEF IInv
<1> QED
  BY InitIInv, <1>1, PTL DEF Spec

\* A published message is never forgotten: DispatcherThreadContext::read finds its
\* bit, whatever the interleaving of flush, signal, the exchange of the bitmap, the
\* pipe reads and bitOr, with any number of contexts that come and go.
THEOREM NoLostSignalHolds == Spec => []NoLostSignal
<1>1. IInv => NoLostSignal
  BY DEF IInv
<1> QED
  BY Invariance, <1>1, PTL

\* DispatcherThreadSignaler::poll sleeps exactly as often as it is posted, and
\* wakes only for a signal.
THEOREM WakeupsMatchHolds == Spec => []WakeupsMatch
<1>1. IInv => WakeupsMatch
  <2> SUFFICES ASSUME IInv, NEW d \in Thread
               PROVE  /\ sem[d] + Cardinality(Posting(d)) + Cardinality(WaitBits(d))
                           = IF rpc[d] = "wait" THEN 1 ELSE 0
                      /\ rpc[d] = "woken" => bitmap[d] # {}
                      /\ rpc[d] = "wait" /\ WaitBits(d) = {} => bitmap[d] # {}
    BY DEF WakeupsMatch
  <2>1. Balanced(d) /\ Cardinality(WaitBits(d)) = IF WaitSignal \in bitmap[d] THEN 1 ELSE 0
    BY WaitBitCount DEF IInv
  <2>2. WaitBits(d) = {} <=> WaitSignal \notin bitmap[d]
    BY DEF WaitBits
  <2> QED
    BY <2>1, <2>2 DEF Balanced
<1> QED
  BY Invariance, <1>1, PTL

\* "Read the first message available from any pipes" holds but for the messages a
\* former context left behind: a reader that sleeps on a message has a writer that
\* is about to wake it, or the message is an orphan.
THEOREM SleepsOnOrphansOnly ==
  Spec => [](\A s, d \in Thread :
               rpc[d] = "wait" /\ WaitSignal \in bitmap[d] /\ HasMessage(s, d)
                 => WritingTo(s, d) \/ s \in orphan[d])
<1> DEFINE Sleeps(s, d) == rpc[d] = "wait" /\ WaitSignal \in bitmap[d] /\ HasMessage(s, d)
           Excused(s, d) == WritingTo(s, d) \/ s \in orphan[d]
<1>1. ASSUME IInv, NEW s \in Thread, NEW d \in Thread, Sleeps(s, d) PROVE Excused(s, d)
  <2>1. bitmap[d] = {WaitSignal}
    BY <1>1 DEF IInv, Balanced
  <2>2. attached[d] /\ signals[d] = {} /\ s # WaitSignal
    BY <1>1, ThreadFacts DEF IInv, DetachedIsIdle, HeldBits
  <2>3. s \in orphan[d] \/ (wpc[s] = "signal" /\ wdst[s] = d)
    BY <1>1, <2>1, <2>2 DEF IInv, NoLostSignal
  <2> QED
    BY <2>3 DEF WritingTo
<1>2. IInv => \A s, d \in Thread : Sleeps(s, d) => Excused(s, d)
  BY <1>1
<1> QED
  BY Invariance, <1>2, PTL

=============================================================================
