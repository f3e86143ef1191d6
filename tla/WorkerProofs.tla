---------------------------- MODULE WorkerProofs ----------------------------
(***************************************************************************)
(* The condition table of a Worker, for any number of clients, worker      *)
(* threads, keys and calls, and any choice of operations: keys have one    *)
(* owner, acknowledgements match waiting clients, and a lone client's      *)
(* calls are synchronous.                                                  *)
(*                                                                         *)
(* Everything rests on counting: the places of a key in the two queues and *)
(* among the threads change by one at a time, and every action that takes  *)
(* a key from one place puts it into another.                              *)
(***************************************************************************)
EXTENDS Worker, FiniteSetTheorems, SequenceTheorems, TLAPS

\* The places of elements of T in a sequence.
Places(s, T) == {i \in DOMAIN s : s[i] \in T}

\* Worker threads that have key k and will signal its condition, and the
\* clients that wait for a signal.
Signalling(k) == {w \in Serving(k) : wpc[w] # "push"}
Waiting(k)    == {c \in Client : cpc[c] = "wait" /\ handle[c][2] = k}

\* Threads at work have a call, those in wrap() one with a key; clients that
\* wait have a keyed call; and who is not in the scenario does nothing.
WellFormed ==
  /\ scenario \in Scenario
  /\ \A w \in WorkerThread :
       /\ wpc[w] # "idle" => job[w][1] \in 1..calls
       /\ wpc[w] \in {"wrap", "signal", "push"} => job[w][2] \in Key
       /\ wpc[w] \in {"signal", "push"} => job[w][1] \in ran
       /\ w \notin scenario.threads => wpc[w] = "idle"
  /\ \A c \in Client :
       /\ handle[c] # NoCall => handle[c] \in (1..calls) \X Key
       /\ cpc[c] = "wait" => handle[c] # NoCall
       /\ c \notin scenario.clients => handle[c] = NoCall

\* SlotsConserved without the types.
OneOwner ==
  \A k \in Key :
    Cardinality(Free(k)) + Cardinality(Queued(k)) + Cardinality(Serving(k))
      + (IF k \in lost THEN 1 ELSE 0) = 1

\* Without async calls nothing is cancelled and no signal is left over: there
\* are at most as many, pending or to come, as clients that wait for one, and
\* exactly as many when no handler throws.
Balanced ==
  "async" \notin scenario.use =>
    /\ \A c \in Client : cpc[c] = "idle" => handle[c] = NoCall
    /\ \A k \in Key : ~flags[k]
    /\ \A k \in Key :
         LET sum == conditions[k] + Cardinality(Queued(k)) + Cardinality(Signalling(k)) IN
         /\ sum <= Cardinality(Waiting(k))
         /\ "throw" \notin scenario.use => sum = Cardinality(Waiting(k))

\* The last call of a lone client is the only one on its key, and a signal
\* pending there is that call's.
LastCall ==
  Alone(scenario.clients) =>
    \A c \in scenario.clients : handle[c] # NoCall =>
      /\ \A i \in DOMAIN jobs : jobs[i][2] = handle[c][2] => jobs[i] = handle[c]
      /\ \A w \in WorkerThread :
           wpc[w] # "idle" /\ job[w][2] = handle[c][2] => job[w] = handle[c]
      /\ ~({"blocking", "async"} \subseteq scenario.use) /\ conditions[handle[c][2]] > 0 =>
           handle[c][1] \in ran

\* A lone worker thread runs the calls in the order of their numbers.
InOrder ==
  Alone(scenario.threads) /\ Only({"post", "blocking"}) =>
    LET m == calls - Len(jobs) IN
    /\ \A i \in DOMAIN jobs : jobs[i][1] = m + i
    /\ \A w \in scenario.threads :
         /\ wpc[w] \in {"wrap", "run"} => job[w][1] = m /\ ran = 1..(m - 1)
         /\ wpc[w] \notin {"wrap", "run"} => ran = 1..m

IInv ==
  TypeOK /\ WellFormed /\ OneOwner /\ Balanced /\ LastCall /\ InOrder /\ LoneClientIsServed

-----------------------------------------------------------------------------
(* Counting.                                                               *)

LEMMA PlacesFinite ==
  ASSUME NEW S, NEW s \in Seq(S), NEW T
  PROVE  IsFiniteSet(Places(s, T)) /\ Cardinality(Places(s, T)) \in Nat
<1>1. IsFiniteSet(1..Len(s))
  BY FS_Interval
<1>2. Places(s, T) \in SUBSET (1..Len(s))
  BY DEF Places
<1> QED
  BY <1>1, <1>2, FS_Subset, FS_CardinalityType

LEMMA AppendPlaces ==
  ASSUME NEW S, NEW s \in Seq(S), NEW x \in S, NEW T
  PROVE  Cardinality(Places(Append(s, x), T)) =
           Cardinality(Places(s, T)) + (IF x \in T THEN 1 ELSE 0)
<1> DEFINE n == Len(s)   P == Places(s, T)   Q == Places(Append(s, x), T)
<1>1. /\ n \in Nat /\ DOMAIN s = 1..n /\ DOMAIN Append(s, x) = 1..(n + 1)
      /\ Append(s, x)[n + 1] = x /\ \A i \in 1..n : Append(s, x)[i] = s[i]
  OBVIOUS
<1>2. IsFiniteSet(P) /\ Cardinality(P) \in Nat /\ n + 1 \notin P
  <2>1. n + 1 \notin P
    BY <1>1 DEF Places
  <2> QED
    BY <2>1, PlacesFinite
<1>3. Q = IF x \in T THEN P \cup {n + 1} ELSE P
  <2>1. \A i \in 1..(n + 1) : i \in 1..n \/ i = n + 1
    BY <1>1
  <2>2. \A i \in 1..n : i \in 1..(n + 1) /\ i # n + 1
    BY <1>1
  <2>3. n + 1 \in 1..(n + 1)
    BY <1>1
  <2> QED
    BY <1>1, <2>1, <2>2, <2>3, Zenon DEF Places
<1>4. Cardinality(P \cup {n + 1}) = Cardinality(P) + 1
  BY <1>2, FS_AddElement
<1> QED
  BY <1>2, <1>3, <1>4

LEMMA TailPlaces ==
  ASSUME NEW S, NEW s \in Seq(S), s # <<>>, NEW T
  PROVE  Cardinality(Places(s, T)) =
           Cardinality(Places(Tail(s), T)) + (IF Head(s) \in T THEN 1 ELSE 0)
<1> DEFINE n == Len(s)   P == Places(s, T)   Q == Places(Tail(s), T)
           f == [i \in Q |-> i + 1]
<1>1. /\ n \in Nat /\ n >= 1 /\ DOMAIN s = 1..n /\ DOMAIN Tail(s) = 1..(n - 1)
      /\ Head(s) = s[1] /\ \A i \in 1..(n - 1) : Tail(s)[i] = s[i + 1]
      /\ Tail(s) \in Seq(S)
  OBVIOUS
<1>2. /\ IsFiniteSet(P) /\ Cardinality(P) \in Nat
      /\ IsFiniteSet(Q) /\ Cardinality(Q) \in Nat
  BY <1>1, PlacesFinite
<1>3. ExistsBijection(Q, P \ {1})
  <2>1. f \in [Q -> P \ {1}]
    BY <1>1 DEF Places
  <2>2. \A i, j \in Q : f[i] = f[j] => i = j
    BY <1>1 DEF Places
  <2>3. ASSUME NEW j \in P \ {1} PROVE \E i \in Q : f[i] = j
    <3>1. j - 1 \in Q
      BY <1>1 DEF Places
    <3>2. f[j - 1] = j
      BY <1>1, <3>1 DEF Places
    <3> QED
      BY <3>1, <3>2
  <2> HIDE DEF f
  <2> QED
    BY <2>1, <2>2, <2>3 DEF ExistsBijection, Bijection, Injection, Surjection, IsInjective
<1>4. Cardinality(P \ {1}) = Cardinality(Q)
  BY <1>2, <1>3, FS_Bijection
<1>5. 1 \in P <=> Head(s) \in T
  BY <1>1 DEF Places
<1>6. Cardinality(P \ {1}) = IF 1 \in P THEN Cardinality(P) - 1 ELSE Cardinality(P)
  BY <1>2, FS_RemoveElement
<1> HIDE DEF P, Q
<1> QED
  BY <1>2, <1>4, <1>5, <1>6 DEF P, Q

\* Two finite sets that differ in w only.
LEMMA MoveOne ==
  ASSUME NEW S, NEW R, NEW w, IsFiniteSet(S), \A u : u # w => (u \in R <=> u \in S)
  PROVE  /\ IsFiniteSet(R) /\ Cardinality(R) \in Nat /\ Cardinality(S) \in Nat
         /\ Cardinality(R) + (IF w \in S THEN 1 ELSE 0) =
              Cardinality(S) + (IF w \in R THEN 1 ELSE 0)
<1>1. Cardinality(S) \in Nat
  BY FS_CardinalityType
<1>2. CASE w \in S
  <2>1. CASE w \in R
    <3>1. R = S
      BY <1>2, <2>1
    <3> QED
      BY <1>1, <1>2, <2>1, <3>1
  <2>2. CASE w \notin R
    <3>1. R = S \ {w}
      BY <1>2, <2>2
    <3> QED
      <4>1. IsFiniteSet(S \ {w}) /\ Cardinality(S \ {w}) = Cardinality(S) - 1
        BY <1>2, FS_RemoveElement
      <4>2. Cardinality(R) \in Nat
        BY <3>1, <4>1, FS_CardinalityType
      <4> QED
        BY <1>1, <1>2, <2>2, <3>1, <4>1, <4>2
  <2> QED
    BY <2>1, <2>2
<1>3. CASE w \notin S
  <2>1. CASE w \in R
    <3>1. R = S \cup {w}
      BY <1>3, <2>1
    <3> QED
      <4>1. IsFiniteSet(S \cup {w}) /\ Cardinality(S \cup {w}) = Cardinality(S) + 1
        BY <1>3, FS_AddElement
      <4> QED
        BY <1>1, <1>3, <2>1, <3>1, <4>1
  <2>2. CASE w \notin R
    <3>1. R = S
      BY <1>3, <2>2
    <3> QED
      BY <1>1, <1>3, <2>2, <3>1
  <2> QED
    BY <2>1, <2>2
<1> QED
  BY <1>2, <1>3


-----------------------------------------------------------------------------
(* Types.                                                                  *)

AnyKey == Key \cup {NoKey}

LEMMA KeyFacts ==
  /\ TableSize \in Nat \ {0}
  /\ NoKey \notin Key /\ NoKey \in Nat /\ Key \subseteq Nat
  /\ \A s \in Scenario : /\ s.maxCalls \in Nat
                         /\ s.clients \in SUBSET Client /\ s.threads \in SUBSET WorkerThread
BY WorkerAssumption DEF Key, NoKey

LEMMA Update ==
  ASSUME NEW S, NEW R, NEW f \in [S -> R], NEW a \in S, NEW b \in R
  PROVE  /\ [f EXCEPT ![a] = b] \in [S -> R]
         /\ [f EXCEPT ![a] = b][a] = b
         /\ \A c \in S : c # a => [f EXCEPT ![a] = b][c] = f[c]
OBVIOUS

LEMMA InitTypes == Init => TypeOK /\ WellFormed
<1> SUFFICES ASSUME Init PROVE TypeOK /\ WellFormed
  OBVIOUS
<1> USE KeyFacts DEF Init
<1>1. slots \in Seq(Key)
  <2>1. \A i \in 1..TableSize : i - 1 \in Key
    BY DEF Key
  <2> QED
    BY <2>1, IsASeq
<1>2. NoCall \in (0..calls) \X (Key \cup {NoKey})
  BY DEF NoCall
<1>3. TypeOK
  <2>1. /\ jobs \in Seq((1..calls) \X (Key \cup {NoKey}))
        /\ job \in [WorkerThread -> (0..calls) \X (Key \cup {NoKey})]
        /\ handle \in [Client -> (0..calls) \X (Key \cup {NoKey})]
    BY <1>2
  <2>2. flags \in [Key -> BOOLEAN]
    OBVIOUS
  <2>3. calls \in 0..scenario.maxCalls
    OBVIOUS
  <2> QED
    BY <1>1, <2>1, <2>2, <2>3 DEF TypeOK
<1>4. WellFormed
  BY DEF WellFormed
<1> QED
  BY <1>3, <1>4

\* What a new call with key k changes.
LEMMA CallTypes ==
  ASSUME TypeOK, WellFormed, NEW c \in Client, NewCall(c), NEW k \in AnyKey,
         jobs' = Append(jobs, <<calls', k>>), UNCHANGED <<scenario, worker, returned>>
  PROVE  /\ calls \in Nat /\ calls' = calls + 1 /\ calls' \in 0..scenario'.maxCalls
         /\ jobs' \in Seq((1..calls') \X AnyKey)
         /\ job' \in [WorkerThread -> (0..calls') \X AnyKey]
         /\ wpc' \in [WorkerThread -> {"idle", "wrap", "run", "signal", "push"}]
         /\ handle \in [Client -> (0..calls') \X AnyKey]
         /\ ran' \subseteq 1..calls' /\ returned' \subseteq 1..calls'
         /\ \A w \in WorkerThread :
              /\ wpc'[w] # "idle" => job'[w][1] \in 1..calls'
              /\ wpc'[w] \in {"wrap", "signal", "push"} => job'[w][2] \in Key
              /\ wpc'[w] \in {"signal", "push"} => job'[w][1] \in ran'
              /\ w \notin scenario'.threads => wpc'[w] = "idle"
<1>1. /\ calls \in Nat /\ calls' = calls + 1 /\ calls' \in 0..scenario'.maxCalls
  BY KeyFacts DEF NewCall, TypeOK, WellFormed
<1>2. 1..calls \subseteq 1..calls' /\ 0..calls \subseteq 0..calls' /\ calls' \in 1..calls'
  BY <1>1
<1>3. jobs' \in Seq((1..calls') \X AnyKey)
  <2>1. jobs \in Seq((1..calls) \X AnyKey)
    BY DEF TypeOK, AnyKey
  <2>2. (1..calls) \X AnyKey \subseteq (1..calls') \X AnyKey
    BY <1>2
  <2>3. jobs \in Seq((1..calls') \X AnyKey)
    BY <2>1, <2>2, SeqMonotonic
  <2>4. <<calls', k>> \in (1..calls') \X AnyKey
    BY <1>2
  <2> QED
    BY <2>3, <2>4, AppendProperties
<1>4. /\ job' \in [WorkerThread -> (0..calls') \X AnyKey]
      /\ handle \in [Client -> (0..calls') \X AnyKey]
  <2>1. (0..calls) \X AnyKey \subseteq (0..calls') \X AnyKey
    BY <1>2
  <2> QED
    BY <2>1 DEF TypeOK, AnyKey, worker
<1>5. ran' \subseteq 1..calls' /\ returned' \subseteq 1..calls'
  BY <1>2 DEF TypeOK, worker
<1>6. wpc' \in [WorkerThread -> {"idle", "wrap", "run", "signal", "push"}]
  BY DEF TypeOK, worker
<1>7. \A w \in WorkerThread :
              /\ wpc'[w] # "idle" => job'[w][1] \in 1..calls'
              /\ wpc'[w] \in {"wrap", "signal", "push"} => job'[w][2] \in Key
              /\ wpc'[w] \in {"signal", "push"} => job'[w][1] \in ran'
              /\ w \notin scenario'.threads => wpc'[w] = "idle"
  BY <1>2 DEF WellFormed, worker
<1> QED
  BY <1>1, <1>3, <1>4, <1>5, <1>6, <1>7

LEMMA PostTypes ==
  ASSUME TypeOK, WellFormed, NEW c \in Client, post(c)
  PROVE  TypeOK' /\ WellFormed'
<1> USE DEF post
<1>0. NewCall(c) /\ NoKey \in AnyKey /\ UNCHANGED <<scenario, worker, returned>>
  BY DEF AnyKey
<1>1. /\ calls \in Nat /\ calls' = calls + 1 /\ calls' \in 0..scenario'.maxCalls
      /\ jobs' \in Seq((1..calls') \X AnyKey)
      /\ job' \in [WorkerThread -> (0..calls') \X AnyKey]
      /\ wpc' \in [WorkerThread -> {"idle", "wrap", "run", "signal", "push"}]
      /\ handle \in [Client -> (0..calls') \X AnyKey]
      /\ ran' \subseteq 1..calls' /\ returned' \subseteq 1..calls'
  BY <1>0, CallTypes
<1>2. \A w \in WorkerThread :
              /\ wpc'[w] # "idle" => job'[w][1] \in 1..calls'
              /\ wpc'[w] \in {"wrap", "signal", "push"} => job'[w][2] \in Key
              /\ wpc'[w] \in {"signal", "push"} => job'[w][1] \in ran'
              /\ w \notin scenario'.threads => wpc'[w] = "idle"
  BY <1>0, CallTypes
<1>3. TypeOK'
  BY <1>1 DEF TypeOK, AnyKey, table
<1>4. (1..calls) \X Key \subseteq (1..calls') \X Key
  BY <1>1
<1>5. WellFormed'
  BY <1>0, <1>2, <1>4 DEF WellFormed
<1> QED
  BY <1>3, <1>5

LEMMA TakeSlotTypes ==
  ASSUME TypeOK, WellFormed, NEW c \in Client, blocking(c) \/ async(c)
  PROVE  /\ TypeOK' /\ WellFormed'
         /\ slots # <<>> /\ Head(slots) \in Key /\ slots' = Tail(slots)
         /\ jobs' = Append(jobs, <<calls', Head(slots)>>)
         /\ handle' = [handle EXCEPT ![c] = <<calls', Head(slots)>>]
         /\ flags' = [flags EXCEPT ![Head(slots)] = FALSE]
         /\ calls' = calls + 1 /\ calls \in Nat /\ cpc[c] = "idle"
         /\ UNCHANGED <<scenario, mTerminated, worker, returned, lost>>
<1> DEFINE h == Head(slots)
<1>1. TakeSlot(c) /\ NewCall(c) /\ UNCHANGED <<scenario, mTerminated, worker, returned, lost>>
  BY DEF blocking, async, TakeSlot
<1>2. /\ slots # <<>> /\ slots' = Tail(slots)
      /\ flags' = [flags EXCEPT ![h] = FALSE]
      /\ handle' = [handle EXCEPT ![c] = <<calls', h>>]
      /\ jobs' = Append(jobs, <<calls', h>>)
  BY <1>1 DEF TakeSlot
<1>3. h \in Key /\ slots' \in Seq(Key) /\ h \in AnyKey
  BY <1>2, HeadTailProperties DEF TypeOK, AnyKey
<1>4. /\ calls \in Nat /\ calls' = calls + 1 /\ calls' \in 0..scenario'.maxCalls
      /\ jobs' \in Seq((1..calls') \X AnyKey)
      /\ job' \in [WorkerThread -> (0..calls') \X AnyKey]
      /\ wpc' \in [WorkerThread -> {"idle", "wrap", "run", "signal", "push"}]
      /\ handle \in [Client -> (0..calls') \X AnyKey]
      /\ ran' \subseteq 1..calls' /\ returned' \subseteq 1..calls'
  BY <1>1, <1>2, <1>3, CallTypes
<1>5. \A w \in WorkerThread :
              /\ wpc'[w] # "idle" => job'[w][1] \in 1..calls'
              /\ wpc'[w] \in {"wrap", "signal", "push"} => job'[w][2] \in Key
              /\ wpc'[w] \in {"signal", "push"} => job'[w][1] \in ran'
              /\ w \notin scenario'.threads => wpc'[w] = "idle"
  BY <1>1, <1>2, <1>3, CallTypes
<1>6. <<calls', h>> \in (1..calls') \X Key /\ <<calls', h>> \in (0..calls') \X AnyKey
  BY <1>3, <1>4
<1>7. /\ handle' \in [Client -> (0..calls') \X AnyKey]
      /\ handle'[c] = <<calls', h>> /\ \A d \in Client : d # c => handle'[d] = handle[d]
  BY <1>2, <1>4, <1>6, Update
<1>8. flags' \in [Key -> BOOLEAN]
  BY <1>2, <1>3, Update, Zenon DEF TypeOK
<1>9. /\ conditions' \in [Key -> Nat]
      /\ cpc' \in [Client -> {"idle", "wait"}]
      /\ \A d \in Client : d # c => cpc'[d] = cpc[d]
  <2>1. CASE blocking(c)
    BY <2>1, Update DEF blocking, TypeOK
  <2>2. CASE async(c)
    BY <2>2, <1>3, Update DEF async, TypeOK
  <2> QED
    BY <2>1, <2>2
<1>10. TypeOK'
  BY <1>1, <1>3, <1>4, <1>7, <1>8, <1>9 DEF TypeOK, AnyKey
<1>11. (1..calls) \X Key \subseteq (1..calls') \X Key
  BY <1>4
<1>12. NoCall \notin (1..calls') \X Key
  BY KeyFacts DEF NoCall
<1>13. c \in scenario.clients /\ cpc[c] = "idle"
  BY <1>1 DEF NewCall
<1>14. \A d \in Client :
       /\ handle'[d] # NoCall => handle'[d] \in (1..calls') \X Key
       /\ cpc'[d] = "wait" => handle'[d] # NoCall
       /\ d \notin scenario.clients => handle'[d] = NoCall
  BY <1>6, <1>7, <1>9, <1>11, <1>12, <1>13 DEF WellFormed
<1>15. WellFormed'
  BY <1>1, <1>5, <1>14 DEF WellFormed
<1> QED
  BY <1>1, <1>2, <1>3, <1>4, <1>10, <1>13, <1>15

LEMMA ClientTypes ==
  ASSUME TypeOK, WellFormed, NEW c \in Client,
         wait(c) \/ wait_returns(c) \/ timed_wait(c) \/ cancel(c)
  PROVE  TypeOK' /\ WellFormed'
<1> USE DEF TypeOK, WellFormed
<1>1. CASE wait(c)
  <2>1. /\ cpc' \in [Client -> {"idle", "wait"}] /\ handle[c] # NoCall
        /\ \A d \in Client : d # c => cpc'[d] = cpc[d]
    BY <1>1, Update DEF wait
  <2> QED
    BY <1>1, <2>1 DEF wait, table, worker
<1>2. ASSUME Acknowledged(c), cpc' \in [Client -> {"idle", "wait"}],
             cpc'[c] = "idle", \A d \in Client : d # c => cpc'[d] = cpc[d]
      PROVE  TypeOK' /\ WellFormed'
  <2> DEFINE k == handle[c][2]
  <2>1. k \in Key /\ handle[c][1] \in 1..calls /\ conditions[k] - 1 \in Nat
    <3>1. handle[c] # NoCall
      BY <1>2 DEF Acknowledged, NoCall
    <3>2. handle[c] \in (1..calls) \X Key
      BY <3>1
    <3> QED
      BY <1>2, <3>2 DEF Acknowledged
  <2>2. conditions' \in [Key -> Nat]
    BY <1>2, <2>1, Update DEF Acknowledged
  <2>3. NoCall \in (0..calls) \X (Key \cup {NoKey})
    BY KeyFacts DEF NoCall
  <2>4. /\ handle' \in [Client -> (0..calls) \X (Key \cup {NoKey})]
        /\ handle'[c] = NoCall /\ \A d \in Client : d # c => handle'[d] = handle[d]
    BY <1>2, <2>3, Update DEF Acknowledged
  <2>5. returned' \subseteq 1..calls
    BY <1>2, <2>1 DEF Acknowledged
  <2>6. UNCHANGED <<scenario, slots, flags, lost, jobs, mTerminated, wpc, job, ran, calls>>
    BY <1>2 DEF Acknowledged, worker
  <2>7. TypeOK'
    BY <1>2, <2>2, <2>4, <2>5, <2>6
  <2>8. WellFormed'
    BY <1>2, <2>4, <2>6
  <2> QED
    BY <2>7, <2>8
<1>3. CASE wait_returns(c)
  BY <1>2, <1>3, Update DEF wait_returns
<1>4. CASE timed_wait(c)
  BY <1>2, <1>4 DEF timed_wait
<1>5. CASE cancel(c)
  <2>1. handle[c][2] \in Key
    BY <1>5 DEF cancel
  <2>2. flags' \in [Key -> BOOLEAN]
    BY <1>5, <2>1, Update, Zenon DEF cancel
  <2>3. UNCHANGED <<scenario, slots, conditions, lost, jobs, mTerminated, worker, client>>
    BY <1>5 DEF cancel
  <2> QED
    BY <2>2, <2>3 DEF worker, client
<1> QED
  BY <1>1, <1>3, <1>4, <1>5

LEMMA WorkerTypes ==
  ASSUME TypeOK, WellFormed, NEW w \in WorkerThread, RunWorker(w)
  PROVE  /\ TypeOK' /\ WellFormed'
         /\ \A v \in WorkerThread : v # w => wpc'[v] = wpc[v] /\ job'[v] = job[v]
<1> USE DEF TypeOK, WellFormed
<1>0. NoCall \in (0..calls) \X (Key \cup {NoKey})
  BY KeyFacts DEF NoCall
<1>1. CASE run(w)
  <2>1. /\ Head(jobs) \in (1..calls) \X (Key \cup {NoKey})
        /\ jobs' \in Seq((1..calls) \X (Key \cup {NoKey}))
    BY <1>1, HeadTailProperties DEF run
  <2>2. (1..calls) \X (Key \cup {NoKey}) \subseteq (0..calls) \X (Key \cup {NoKey})
    BY KeyFacts
  <2>3. /\ job' \in [WorkerThread -> (0..calls) \X (Key \cup {NoKey})]
        /\ job'[w] = Head(jobs) /\ \A v \in WorkerThread : v # w => job'[v] = job[v]
    BY <1>1, <2>1, <2>2, Update DEF run
  <2>4. /\ wpc' \in [WorkerThread -> {"idle", "wrap", "run", "signal", "push"}]
        /\ wpc'[w] = IF Head(jobs)[2] = NoKey THEN "run" ELSE "wrap"
        /\ \A v \in WorkerThread : v # w => wpc'[v] = wpc[v]
    BY <1>1, Update DEF run
  <2>5. UNCHANGED <<scenario, slots, conditions, flags, lost, mTerminated, ran, cpc, handle, calls, returned>>
        /\ w \in scenario.threads
    BY <1>1 DEF run, table, client
  <2>6. TypeOK'
    BY <2>1, <2>3, <2>4, <2>5
  <2>7. WellFormed'
    BY <2>1, <2>3, <2>4, <2>5
  <2> QED
    BY <2>3, <2>4, <2>6, <2>7
\* What the steps inside a call have in common.
<1>2. ASSUME NEW pc \in {"idle", "run", "signal", "push"}, wpc[w] # "idle",
             wpc' = [wpc EXCEPT ![w] = pc],
             job' \in {job, [job EXCEPT ![w] = NoCall]},
             pc # "idle" => job' = job,
             pc \in {"signal", "push"} => job[w][2] \in Key /\ job[w][1] \in ran',
             ran \subseteq ran', ran' \subseteq 1..calls,
             slots' \in Seq(Key), conditions' \in [Key -> Nat], flags' \in [Key -> BOOLEAN],
             lost' \subseteq Key,
             UNCHANGED <<scenario, jobs, mTerminated, cpc, handle, calls, returned>>
      PROVE  /\ TypeOK' /\ WellFormed'
             /\ \A v \in WorkerThread : v # w => wpc'[v] = wpc[v] /\ job'[v] = job[v]
  <2>1. /\ wpc' \in [WorkerThread -> {"idle", "wrap", "run", "signal", "push"}]
        /\ wpc'[w] = pc /\ \A v \in WorkerThread : v # w => wpc'[v] = wpc[v]
    BY <1>2, Update
  <2>2. /\ job' \in [WorkerThread -> (0..calls) \X (Key \cup {NoKey})]
        /\ \A v \in WorkerThread : v # w => job'[v] = job[v]
    <3>1. CASE job' = job
      BY <3>1
    <3>2. CASE job' = [job EXCEPT ![w] = NoCall]
      <4> DEFINE S == (0..calls) \X (Key \cup {NoKey})
      <4>1. job \in [WorkerThread -> S] /\ NoCall \in S
        BY <1>0
      <4> HIDE DEF S
      <4>2. /\ [job EXCEPT ![w] = NoCall] \in [WorkerThread -> S]
            /\ \A v \in WorkerThread : v # w => [job EXCEPT ![w] = NoCall][v] = job[v]
        BY <4>1, Update
      <4> QED
        BY <3>2, <4>2 DEF S
    <3> QED
      BY <1>2, <3>1, <3>2
  <2>3. TypeOK'
    BY <1>2, <2>1, <2>2
  <2>4. \A v \in WorkerThread :
       /\ wpc'[v] # "idle" => job'[v][1] \in 1..calls
       /\ wpc'[v] \in {"wrap", "signal", "push"} => job'[v][2] \in Key
       /\ wpc'[v] \in {"signal", "push"} => job'[v][1] \in ran'
       /\ v \notin scenario.threads => wpc'[v] = "idle"
    BY <1>2, <2>1, <2>2
  <2>5. WellFormed'
    BY <1>2, <2>4
  <2> QED
    BY <2>1, <2>2, <2>3, <2>5
<1>3. CASE wrap(w)
  <2>1. job[w][2] \in Key
    BY <1>3 DEF wrap
  <2>2. flags' \in [Key -> BOOLEAN]
    <3>1. [flags EXCEPT ![job[w][2]] = FALSE] \in [Key -> BOOLEAN]
      BY <2>1, Update, Zenon
    <3> QED
      BY <1>3, <3>1 DEF wrap
  <2>3. UNCHANGED <<scenario, slots, conditions, jobs, mTerminated, ran, cpc, handle, calls, returned>>
    BY <1>3 DEF wrap, client
  <2>4. CASE flags[job[w][2]]
    BY <1>2, <1>3, <2>1, <2>2, <2>3, <2>4 DEF wrap
  <2>5. CASE ~flags[job[w][2]]
    BY <1>2, <1>3, <2>1, <2>2, <2>3, <2>5 DEF wrap
  <2> QED
    BY <2>4, <2>5
<1>4. CASE handler(w)
  <2>1. job[w][1] \in 1..calls /\ job[w][2] \in Key \cup {NoKey}
    BY <1>4 DEF handler
  <2>2. UNCHANGED <<scenario, slots, conditions, flags, lost, jobs, mTerminated, cpc, handle, calls, returned>>
    BY <1>4 DEF handler, client, table
  <2>3. CASE job[w][2] = NoKey
    BY <1>2, <1>4, <2>1, <2>2, <2>3 DEF handler
  <2>4. CASE job[w][2] # NoKey
    BY <1>2, <1>4, <2>1, <2>2, <2>4 DEF handler
  <2> QED
    BY <2>3, <2>4
<1>5. CASE handler_throws(w)
  <2>1. job[w][2] \in Key \cup {NoKey}
    OBVIOUS
  <2>2. lost' \subseteq Key
    BY <1>5, <2>1 DEF handler_throws
  <2>3. UNCHANGED <<scenario, slots, conditions, flags, jobs, mTerminated, ran, cpc, handle, calls, returned>>
    BY <1>5 DEF handler_throws, client
  <2> QED
    BY <1>2, <1>5, <2>2, <2>3 DEF handler_throws
<1>6. CASE signal(w)
  <2>1. job[w][2] \in Key /\ job[w][1] \in ran
    BY <1>6 DEF signal
  <2>2. conditions' \in [Key -> Nat]
    BY <1>6, <2>1, Update DEF signal
  <2>3. UNCHANGED <<scenario, slots, flags, lost, jobs, mTerminated, job, ran, cpc, handle, calls, returned>>
    BY <1>6 DEF signal, client
  <2> QED
    BY <1>2, <1>6, <2>1, <2>2, <2>3 DEF signal
<1>7. CASE push(w)
  <2>1. job[w][2] \in Key
    BY <1>7 DEF push
  <2>2. slots' \in Seq(Key)
    BY <1>7, <2>1, AppendProperties DEF push
  <2>3. UNCHANGED <<scenario, conditions, flags, lost, jobs, mTerminated, ran, cpc, handle, calls, returned>>
    BY <1>7 DEF push, client
  <2> QED
    BY <1>2, <1>7, <2>2, <2>3 DEF push
<1> QED
  BY <1>1, <1>3, <1>4, <1>5, <1>6, <1>7 DEF RunWorker

LEMMA NextTypes == TypeOK /\ WellFormed /\ [Next]_vars => TypeOK' /\ WellFormed'
<1> SUFFICES ASSUME TypeOK, WellFormed, [Next]_vars PROVE TypeOK' /\ WellFormed'
  OBVIOUS
<1>1. CASE stop \/ UNCHANGED vars
  <2>1. mTerminated' \in BOOLEAN
    BY <1>1 DEF stop, vars, TypeOK
  <2>2. UNCHANGED <<scenario, table, jobs, worker, client>>
    BY <1>1 DEF stop, vars
  <2> QED
    BY <2>1, <2>2 DEF table, worker, client, TypeOK, WellFormed
<1>2. CASE \E w \in WorkerThread : RunWorker(w)
  BY <1>2, WorkerTypes
<1>3. CASE \E c \in Client : \/ post(c) \/ blocking(c) \/ async(c)
                             \/ wait(c) \/ wait_returns(c) \/ timed_wait(c) \/ cancel(c)
  BY <1>3, PostTypes, TakeSlotTypes, ClientTypes
<1> QED
  BY <1>1, <1>2, <1>3 DEF Next


-----------------------------------------------------------------------------
(* The counts of a key.                                                    *)

\* The calls with key k.
With(k) == {x \in Nat \X Nat : x[2] = k}

\* The counts are numbers, and those of the queues count places.
Counts ==
  /\ jobs \in Seq(Nat \X AnyKey)
  /\ \A k \in Key :
       /\ Free(k) = Places(slots, {k}) /\ Queued(k) = Places(jobs, With(k))
       /\ Cardinality(Free(k)) \in Nat /\ Cardinality(Queued(k)) \in Nat
       /\ IsFiniteSet(Serving(k)) /\ Cardinality(Serving(k)) \in Nat
       /\ IsFiniteSet(Signalling(k)) /\ Cardinality(Signalling(k)) \in Nat
       /\ IsFiniteSet(Waiting(k)) /\ Cardinality(Waiting(k)) \in Nat

LEMMA Counted == TypeOK => Counts
<1> SUFFICES ASSUME TypeOK PROVE Counts
  OBVIOUS
<1>1. jobs \in Seq(Nat \X AnyKey) /\ slots \in Seq(Key)
  <2>1. jobs \in Seq((1..calls) \X AnyKey)
    BY DEF TypeOK, AnyKey
  <2>2. (1..calls) \X AnyKey \subseteq Nat \X AnyKey
    OBVIOUS
  <2> QED
    BY <2>1, <2>2, SeqMonotonic DEF TypeOK
<1> SUFFICES ASSUME NEW k \in Key
    PROVE  /\ Free(k) = Places(slots, {k}) /\ Queued(k) = Places(jobs, With(k))
           /\ Cardinality(Free(k)) \in Nat /\ Cardinality(Queued(k)) \in Nat
           /\ IsFiniteSet(Serving(k)) /\ Cardinality(Serving(k)) \in Nat
           /\ IsFiniteSet(Signalling(k)) /\ Cardinality(Signalling(k)) \in Nat
           /\ IsFiniteSet(Waiting(k)) /\ Cardinality(Waiting(k)) \in Nat
  BY <1>1 DEF Counts
<1>2. Free(k) = Places(slots, {k})
  BY DEF Free, Places
<1>3. Queued(k) = Places(jobs, With(k))
  <2>1. \A i \in DOMAIN jobs : jobs[i] \in Nat \X Nat
    <3>1. AnyKey \subseteq Nat
      BY KeyFacts DEF AnyKey
    <3>2. \A i \in DOMAIN jobs : jobs[i] \in Nat \X AnyKey
      BY <1>1
    <3> QED
      BY <3>1, <3>2
  <2> QED
    BY <2>1 DEF Queued, Places, With
<1>4. Cardinality(Free(k)) \in Nat /\ Cardinality(Queued(k)) \in Nat
  BY <1>1, <1>2, <1>3, PlacesFinite
<1>5. /\ Serving(k) \in SUBSET WorkerThread /\ Signalling(k) \in SUBSET WorkerThread
      /\ Waiting(k) \in SUBSET Client
  BY DEF Serving, Signalling, Waiting
<1> QED
  BY <1>2, <1>3, <1>4, <1>5, WorkerAssumption, FS_Subset, FS_CardinalityType

LEMMA CountedNext == TypeOK' => Counts'
BY Counted, PTL

\* How the queues change the counts.
LEMMA QueueCounts ==
  ASSUME TypeOK, TypeOK', NEW k \in Key
  PROVE  /\ slots' = slots => Cardinality(Free(k)') = Cardinality(Free(k))
         /\ slots # <<>> /\ slots' = Tail(slots) =>
              Cardinality(Free(k)) =
                Cardinality(Free(k)') + (IF Head(slots) = k THEN 1 ELSE 0)
         /\ \A h \in Key : slots' = Append(slots, h) =>
              Cardinality(Free(k)') = Cardinality(Free(k)) + (IF h = k THEN 1 ELSE 0)
         /\ jobs' = jobs => Cardinality(Queued(k)') = Cardinality(Queued(k))
         /\ jobs # <<>> /\ jobs' = Tail(jobs) =>
              Cardinality(Queued(k)) =
                Cardinality(Queued(k)') + (IF Head(jobs)[2] = k THEN 1 ELSE 0)
         /\ \A n \in Nat, h \in AnyKey : jobs' = Append(jobs, <<n, h>>) =>
              Cardinality(Queued(k)') = Cardinality(Queued(k)) + (IF h = k THEN 1 ELSE 0)
<1>1. /\ slots \in Seq(Key) /\ jobs \in Seq(Nat \X AnyKey)
      /\ Free(k) = Places(slots, {k}) /\ Queued(k) = Places(jobs, With(k))
  BY Counted DEF TypeOK, Counts
<1>2. Free(k)' = Places(slots', {k}) /\ Queued(k)' = Places(jobs', With(k))
  BY CountedNext DEF Counts
<1>3. slots' = slots => Cardinality(Free(k)') = Cardinality(Free(k))
  BY <1>1, <1>2
<1>4. slots # <<>> /\ slots' = Tail(slots) =>
         Cardinality(Free(k)) = Cardinality(Free(k)') + (IF Head(slots) = k THEN 1 ELSE 0)
  <2> SUFFICES ASSUME slots # <<>>, slots' = Tail(slots)
      PROVE Cardinality(Free(k)) = Cardinality(Free(k)') + (IF Head(slots) = k THEN 1 ELSE 0)
    OBVIOUS
  <2>1. Cardinality(Places(slots, {k})) =
          Cardinality(Places(Tail(slots), {k})) + (IF Head(slots) \in {k} THEN 1 ELSE 0)
    BY <1>1, TailPlaces
  <2> QED
    BY <1>1, <1>2, <2>1
<1>5. ASSUME NEW h \in Key, slots' = Append(slots, h)
      PROVE  Cardinality(Free(k)') = Cardinality(Free(k)) + (IF h = k THEN 1 ELSE 0)
  <2>1. Cardinality(Places(Append(slots, h), {k})) =
          Cardinality(Places(slots, {k})) + (IF h \in {k} THEN 1 ELSE 0)
    BY <1>1, AppendPlaces
  <2> QED
    BY <1>1, <1>2, <1>5, <2>1
<1>6. jobs' = jobs => Cardinality(Queued(k)') = Cardinality(Queued(k))
  BY <1>1, <1>2
<1>7. jobs # <<>> /\ jobs' = Tail(jobs) =>
         Cardinality(Queued(k)) = Cardinality(Queued(k)') + (IF Head(jobs)[2] = k THEN 1 ELSE 0)
  <2> SUFFICES ASSUME jobs # <<>>, jobs' = Tail(jobs)
      PROVE Cardinality(Queued(k)) = Cardinality(Queued(k)') + (IF Head(jobs)[2] = k THEN 1 ELSE 0)
    OBVIOUS
  <2>1. Cardinality(Places(jobs, With(k))) =
          Cardinality(Places(Tail(jobs), With(k))) + (IF Head(jobs) \in With(k) THEN 1 ELSE 0)
    BY <1>1, TailPlaces
  <2>2. Head(jobs) \in Nat \X AnyKey /\ AnyKey \subseteq Nat
    BY <1>1, HeadTailProperties, KeyFacts DEF AnyKey
  <2>3. Head(jobs) \in With(k) <=> Head(jobs)[2] = k
    BY <2>2 DEF With
  <2> QED
    BY <1>1, <1>2, <2>1, <2>3
<1>8. ASSUME NEW n \in Nat, NEW h \in AnyKey, jobs' = Append(jobs, <<n, h>>)
      PROVE  Cardinality(Queued(k)') = Cardinality(Queued(k)) + (IF h = k THEN 1 ELSE 0)
  <2>1. Cardinality(Places(Append(jobs, <<n, h>>), With(k))) =
          Cardinality(Places(jobs, With(k))) + (IF <<n, h>> \in With(k) THEN 1 ELSE 0)
    BY <1>1, AppendPlaces
  <2>2. <<n, h>> \in With(k) <=> h = k
    BY KeyFacts DEF With, AnyKey
  <2> QED
    BY <1>1, <1>2, <1>8, <2>1, <2>2
<1> QED
  BY <1>3, <1>4, <1>5, <1>6, <1>7, <1>8

\* How a step of one worker thread, or of one client, changes the counts.
LEMMA ThreadCounts ==
  ASSUME TypeOK, NEW k \in Key, NEW w \in WorkerThread,
         \A v \in WorkerThread : v # w => wpc'[v] = wpc[v] /\ job'[v] = job[v]
  PROVE  /\ Cardinality(Serving(k)') + (IF w \in Serving(k) THEN 1 ELSE 0) =
              Cardinality(Serving(k)) + (IF w \in Serving(k)' THEN 1 ELSE 0)
         /\ Cardinality(Signalling(k)') + (IF w \in Signalling(k) THEN 1 ELSE 0) =
              Cardinality(Signalling(k)) + (IF w \in Signalling(k)' THEN 1 ELSE 0)
<1>1. IsFiniteSet(Serving(k)) /\ IsFiniteSet(Signalling(k))
  BY Counted DEF Counts
<1>2. \A v : v # w => (v \in Serving(k)' <=> v \in Serving(k))
  BY DEF Serving
<1>3. \A v : v # w => (v \in Signalling(k)' <=> v \in Signalling(k))
  BY DEF Signalling, Serving
<1> QED
  BY <1>1, <1>2, <1>3, MoveOne

LEMMA ClientCounts ==
  ASSUME TypeOK, NEW k \in Key, NEW c \in Client,
         \A d \in Client : d # c => cpc'[d] = cpc[d] /\ handle'[d] = handle[d]
  PROVE  Cardinality(Waiting(k)') + (IF c \in Waiting(k) THEN 1 ELSE 0) =
           Cardinality(Waiting(k)) + (IF c \in Waiting(k)' THEN 1 ELSE 0)
<1>1. IsFiniteSet(Waiting(k))
  BY Counted DEF Counts
<1>2. \A d : d # c => (d \in Waiting(k)' <=> d \in Waiting(k))
  BY DEF Waiting
<1> QED
  BY <1>1, <1>2, MoveOne

-----------------------------------------------------------------------------
(* Keys have one owner.                                                    *)

LEMMA InitOneOwner == Init => OneOwner
<1> SUFFICES ASSUME Init, NEW k \in Key
             PROVE  Cardinality(Free(k)) + Cardinality(Queued(k)) + Cardinality(Serving(k))
                      + (IF k \in lost THEN 1 ELSE 0) = 1
  BY DEF OneOwner
<1>1. Free(k) = {k + 1}
  BY KeyFacts DEF Init, Free, Key
<1>2. Queued(k) = {} /\ Serving(k) = {} /\ lost = {}
  BY DEF Init, Queued, Serving
<1>3. Cardinality({k + 1}) = 1 /\ Cardinality({}) = 0
  BY FS_EmptySet, FS_Singleton
<1> QED
  BY <1>1, <1>2, <1>3

\* A key that a worker thread has is nowhere else.
LEMMA ServedIsNowhereElse ==
  ASSUME TypeOK, OneOwner, NEW k \in Key
  PROVE  /\ Serving(k) # {} => k \notin lost /\ Queued(k) = {} /\ Free(k) = {}
         /\ Free(k) # {} => Queued(k) = {} /\ Serving(k) = {}
<1> DEFINE f == Cardinality(Free(k))   q == Cardinality(Queued(k))
           s == Cardinality(Serving(k))
<1>1. f \in Nat /\ q \in Nat /\ s \in Nat /\ IsFiniteSet(Serving(k))
  BY Counted DEF Counts
<1>2. IsFiniteSet(Free(k)) /\ IsFiniteSet(Queued(k))
  <2>1. /\ slots \in Seq(Key) /\ jobs \in Seq(Nat \X AnyKey)
        /\ Free(k) = Places(slots, {k}) /\ Queued(k) = Places(jobs, With(k))
    BY Counted DEF Counts, TypeOK
  <2> QED
    BY <2>1, PlacesFinite
<1>3. /\ (s = 0 <=> Serving(k) = {}) /\ (q = 0 <=> Queued(k) = {}) /\ (f = 0 <=> Free(k) = {})
  BY <1>1, <1>2, FS_EmptySet
<1>4. f + q + s + (IF k \in lost THEN 1 ELSE 0) = 1
  BY DEF OneOwner
<1> HIDE DEF f, q, s
<1> QED
  BY <1>1, <1>3, <1>4

LEMMA NextOneOwner ==
  ASSUME TypeOK, WellFormed, OneOwner, [Next]_vars
  PROVE  OneOwner'
<1>0. TypeOK' /\ WellFormed'
  BY NextTypes
<1> SUFFICES ASSUME NEW k \in Key
             PROVE  (Cardinality(Free(k)) + Cardinality(Queued(k)) + Cardinality(Serving(k))
                       + (IF k \in lost THEN 1 ELSE 0) = 1)'
  BY DEF OneOwner
<1> DEFINE f == Cardinality(Free(k))      g == Cardinality(Free(k)')
           q == Cardinality(Queued(k))    r == Cardinality(Queued(k)')
           s == Cardinality(Serving(k))   t == Cardinality(Serving(k)')
<1> SUFFICES g + r + t + (IF k \in lost' THEN 1 ELSE 0) = 1
  OBVIOUS
<1>1. f \in Nat /\ q \in Nat /\ s \in Nat /\ g \in Nat /\ r \in Nat /\ t \in Nat
  BY <1>0, Counted, CountedNext DEF Counts
<1>2. f + q + s + (IF k \in lost THEN 1 ELSE 0) = 1
  BY DEF OneOwner
<1>3. /\ slots' = slots => g = f
      /\ slots # <<>> /\ slots' = Tail(slots) => f = g + (IF Head(slots) = k THEN 1 ELSE 0)
      /\ \A h \in Key : slots' = Append(slots, h) => g = f + (IF h = k THEN 1 ELSE 0)
      /\ jobs' = jobs => r = q
      /\ jobs # <<>> /\ jobs' = Tail(jobs) => q = r + (IF Head(jobs)[2] = k THEN 1 ELSE 0)
      /\ \A n \in Nat, h \in AnyKey :
           jobs' = Append(jobs, <<n, h>>) => r = q + (IF h = k THEN 1 ELSE 0)
  BY <1>0, QueueCounts
<1>4. UNCHANGED worker => t = s
  BY DEF worker, Serving
<1>5. ASSUME UNCHANGED <<slots, jobs, worker, lost>>
      PROVE  g + r + t + (IF k \in lost' THEN 1 ELSE 0) = 1
  BY <1>2, <1>3, <1>4, <1>5
<1>6. ASSUME NEW c \in Client, post(c)
      PROVE  g + r + t + (IF k \in lost' THEN 1 ELSE 0) = 1
  <2>1. /\ jobs' = Append(jobs, <<calls', NoKey>>) /\ calls' \in Nat
        /\ UNCHANGED <<slots, worker, lost>>
    BY <1>0, <1>6, KeyFacts DEF post, table, TypeOK, WellFormed
  <2>2. r = q + 0
    BY <1>3, <2>1, KeyFacts DEF AnyKey
  <2> HIDE DEF f, g, q, r, s, t
  <2> QED
    BY <1>1, <1>2, <1>3, <1>4, <2>1, <2>2
<1>7. ASSUME NEW c \in Client, blocking(c) \/ async(c)
      PROVE  g + r + t + (IF k \in lost' THEN 1 ELSE 0) = 1
  <2>1. /\ slots # <<>> /\ Head(slots) \in Key /\ slots' = Tail(slots)
        /\ jobs' = Append(jobs, <<calls', Head(slots)>>)
        /\ calls' = calls + 1 /\ calls \in Nat
        /\ UNCHANGED <<worker, lost>>
    BY <1>7, TakeSlotTypes
  <2>2. r = q + (IF Head(slots) = k THEN 1 ELSE 0)
    BY <1>3, <2>1 DEF AnyKey
  <2>3. f = g + (IF Head(slots) = k THEN 1 ELSE 0)
    BY <1>3, <2>1
  <2> HIDE DEF f, g, q, r, s, t
  <2> QED
    BY <1>1, <1>2, <1>4, <2>1, <2>2, <2>3
<1>8. ASSUME NEW w \in WorkerThread, RunWorker(w)
      PROVE  g + r + t + (IF k \in lost' THEN 1 ELSE 0) = 1
  <2>1. \A v \in WorkerThread : v # w => wpc'[v] = wpc[v] /\ job'[v] = job[v]
    BY <1>8, WorkerTypes
  <2>2. t + (IF w \in Serving(k) THEN 1 ELSE 0) = s + (IF w \in Serving(k)' THEN 1 ELSE 0)
    BY <2>1, ThreadCounts
  <2>3. /\ w \in Serving(k) <=> wpc[w] # "idle" /\ job[w][2] = k
        /\ w \in Serving(k)' <=> wpc'[w] # "idle" /\ job'[w][2] = k
    BY DEF Serving
  <2>4. w \in Serving(k) => k \notin lost
    BY ServedIsNowhereElse
  <2>5. CASE run(w)
    <3>1. /\ jobs # <<>> /\ jobs' = Tail(jobs) /\ UNCHANGED <<slots, lost>>
          /\ wpc[w] = "idle" /\ wpc'[w] # "idle" /\ job'[w] = Head(jobs)
      BY <2>5, Update DEF run, table, TypeOK
    <3> HIDE DEF f, g, q, r, s, t
    <3> QED
      BY <1>1, <1>2, <1>3, <2>2, <2>3, <3>1
  <2>6. CASE wrap(w)
    <3>1. /\ UNCHANGED <<slots, jobs>> /\ wpc[w] # "idle"
          /\ \/ lost' = lost \cup {job[w][2]} /\ wpc'[w] = "idle"
             \/ lost' = lost /\ wpc'[w] # "idle" /\ job' = job
      BY <2>6 DEF wrap, TypeOK
    <3> HIDE DEF f, g, q, r, s, t
    <3> QED
      BY <1>1, <1>2, <1>3, <2>2, <2>3, <2>4, <3>1
  <2>7. CASE handler(w)
    <3>1. /\ UNCHANGED <<slots, jobs, lost>> /\ wpc[w] # "idle"
          /\ \/ job[w][2] = NoKey /\ wpc'[w] = "idle"
             \/ wpc'[w] # "idle" /\ job' = job
      BY <2>7 DEF handler, TypeOK, table
    <3> HIDE DEF f, g, q, r, s, t
    <3> QED
      BY <1>1, <1>2, <1>3, <2>2, <2>3, <3>1, KeyFacts
  <2>8. CASE handler_throws(w)
    <3>1. /\ UNCHANGED <<slots, jobs>> /\ wpc[w] # "idle" /\ wpc'[w] = "idle"
          /\ lost' = lost \cup ({job[w][2]} \ {NoKey})
      BY <2>8 DEF handler_throws, TypeOK
    <3> HIDE DEF f, g, q, r, s, t
    <3> QED
      BY <1>1, <1>2, <1>3, <2>2, <2>3, <2>4, <3>1, KeyFacts
  <2>9. CASE signal(w)
    <3>1. /\ UNCHANGED <<slots, jobs, lost, job>> /\ wpc[w] # "idle" /\ wpc'[w] # "idle"
      BY <2>9 DEF signal, TypeOK
    <3> HIDE DEF f, g, q, r, s, t
    <3> QED
      BY <1>1, <1>2, <1>3, <2>2, <2>3, <3>1
  <2>10. CASE push(w)
    <3>1. /\ UNCHANGED <<jobs, lost>> /\ wpc[w] # "idle" /\ wpc'[w] = "idle"
          /\ slots' = Append(slots, job[w][2]) /\ job[w][2] \in Key
      BY <2>10 DEF push, TypeOK, WellFormed
    <3> HIDE DEF f, g, q, r, s, t
    <3> QED
      BY <1>1, <1>2, <1>3, <2>2, <2>3, <3>1
  <2> QED
    BY <1>8, <2>5, <2>6, <2>7, <2>8, <2>9, <2>10 DEF RunWorker
<1>9. ASSUME NEW c \in Client, wait(c) \/ wait_returns(c) \/ timed_wait(c) \/ cancel(c)
      PROVE  UNCHANGED <<slots, jobs, worker, lost>>
  BY <1>9 DEF wait, wait_returns, timed_wait, cancel, Acknowledged, table
<1>10. stop \/ UNCHANGED vars => UNCHANGED <<slots, jobs, worker, lost>>
  BY DEF stop, vars, table
<1> HIDE DEF f, g, q, r, s, t
<1> QED
  BY <1>5, <1>6, <1>7, <1>8, <1>9, <1>10 DEF Next

-----------------------------------------------------------------------------
(* Acknowledgements match waiting clients.                                 *)

LEMMA ScenarioStays == [Next]_vars => scenario' = scenario
BY DEF Next, vars, RunWorker, run, wrap, handler, handler_throws, signal, push, post, blocking,
       async, wait, wait_returns, timed_wait, cancel, stop, Acknowledged

LEMMA InitBalanced == Init => Balanced
<1> SUFFICES ASSUME Init PROVE Balanced
  OBVIOUS
<1>1. ASSUME NEW k \in Key
      PROVE  Queued(k) = {} /\ Signalling(k) = {} /\ Waiting(k) = {} /\ conditions[k] = 0 /\ ~flags[k]
  BY DEF Init, Queued, Signalling, Serving, Waiting
<1>2. Cardinality({}) = 0
  BY FS_EmptySet
<1>3. \A c \in Client : handle[c] = NoCall
  BY DEF Init
<1> QED
  BY <1>1, <1>2, <1>3 DEF Balanced

\* Without async calls there is nothing to wait for but the current call, so
\* nothing to cancel.
LEMMA NextUncancelled ==
  ASSUME TypeOK, WellFormed, Balanced, [Next]_vars, "async" \notin scenario.use
  PROVE  /\ \A c \in Client : cpc'[c] = "idle" => handle'[c] = NoCall
         /\ \A k \in Key : ~flags'[k]
<1>1. /\ \A c \in Client : cpc[c] = "idle" => handle[c] = NoCall
      /\ \A k \in Key : ~flags[k]
  BY DEF Balanced
<1>2. CASE UNCHANGED <<cpc, handle, flags>>
  BY <1>1, <1>2
<1>3. CASE stop \/ UNCHANGED vars
  BY <1>2, <1>3 DEF stop, vars, table, client
<1>4. ASSUME NEW w \in WorkerThread, RunWorker(w)
      PROVE  /\ \A c \in Client : cpc'[c] = "idle" => handle'[c] = NoCall
             /\ \A k \in Key : ~flags'[k]
  <2>1. CASE wrap(w)
    <3>1. ~flags[job[w][2]]
      BY <1>1, <2>1 DEF wrap, WellFormed
    <3> QED
      BY <1>2, <2>1, <3>1 DEF wrap, client
  <2>2. CASE ~wrap(w)
    BY <1>2, <1>4, <2>2 DEF RunWorker, run, handler, handler_throws, signal, push, table, client
  <2> QED
    BY <2>1, <2>2
<1>5. ASSUME NEW c \in Client, post(c) PROVE UNCHANGED <<cpc, handle, flags>>
  BY <1>5 DEF post, table
<1>6. ASSUME NEW c \in Client, blocking(c)
      PROVE  /\ \A d \in Client : cpc'[d] = "idle" => handle'[d] = NoCall
             /\ \A k \in Key : ~flags'[k]
  <2>1. /\ flags' = [flags EXCEPT ![Head(slots)] = FALSE] /\ Head(slots) \in Key
        /\ \A d \in Client : d # c => handle'[d] = handle[d]
    <3>1. /\ flags' = [flags EXCEPT ![Head(slots)] = FALSE] /\ Head(slots) \in Key
          /\ handle' = [handle EXCEPT ![c] = <<calls', Head(slots)>>]
      BY <1>6, TakeSlotTypes
    <3> QED
      BY <3>1 DEF TypeOK
  <2>2. cpc'[c] = "wait" /\ \A d \in Client : d # c => cpc'[d] = cpc[d]
    BY <1>6 DEF blocking, TypeOK
  <2>3. \A k \in Key : ~flags'[k]
    BY <1>1, <2>1, Zenon DEF TypeOK
  <2> QED
    BY <1>1, <2>1, <2>2, <2>3
<1>7. ASSUME NEW c \in Client PROVE ~async(c) /\ ~wait(c) /\ ~timed_wait(c) /\ ~cancel(c)
  BY <1>1 DEF async, wait, timed_wait, cancel, Acknowledged, NoCall
<1>8. ASSUME NEW c \in Client, wait_returns(c)
      PROVE  /\ \A d \in Client : cpc'[d] = "idle" => handle'[d] = NoCall
             /\ \A k \in Key : ~flags'[k]
  BY <1>1, <1>8 DEF wait_returns, Acknowledged, TypeOK
<1> QED
  BY <1>2, <1>3, <1>4, <1>5, <1>6, <1>7, <1>8 DEF Next

LEMMA NextBalanced ==
  ASSUME TypeOK, WellFormed, Balanced, [Next]_vars
  PROVE  Balanced'
<1>0. TypeOK' /\ WellFormed' /\ scenario' = scenario
  BY NextTypes, ScenarioStays
<1> SUFFICES ASSUME "async" \notin scenario.use, NEW k \in Key
    PROVE  LET sum == conditions'[k] + Cardinality(Queued(k)') + Cardinality(Signalling(k)') IN
           /\ sum <= Cardinality(Waiting(k)')
           /\ "throw" \notin scenario.use => sum = Cardinality(Waiting(k)')
  BY <1>0, NextUncancelled DEF Balanced
<1> DEFINE n == conditions[k]                m == conditions'[k]
           q == Cardinality(Queued(k))       r == Cardinality(Queued(k)')
           s == Cardinality(Signalling(k))   t == Cardinality(Signalling(k)')
           v == Cardinality(Waiting(k))      u == Cardinality(Waiting(k)')
           B == /\ m + r + t <= u
                /\ "throw" \notin scenario.use => m + r + t = u
<1> SUFFICES B
  OBVIOUS
<1>1. /\ n \in Nat /\ q \in Nat /\ s \in Nat /\ v \in Nat
      /\ m \in Nat /\ r \in Nat /\ t \in Nat /\ u \in Nat
  BY <1>0, Counted, CountedNext DEF Counts, TypeOK
<1>2. /\ n + q + s <= v
      /\ "throw" \notin scenario.use => n + q + s = v
  BY DEF Balanced
<1>3. /\ jobs' = jobs => r = q
      /\ jobs # <<>> /\ jobs' = Tail(jobs) => q = r + (IF Head(jobs)[2] = k THEN 1 ELSE 0)
      /\ \A i \in Nat, h \in AnyKey :
           jobs' = Append(jobs, <<i, h>>) => r = q + (IF h = k THEN 1 ELSE 0)
  BY <1>0, QueueCounts
<1>4. UNCHANGED worker => t = s
  BY DEF worker, Signalling, Serving
<1>5. UNCHANGED <<cpc, handle>> => u = v
  BY DEF Waiting
<1>6. ASSUME UNCHANGED <<conditions, jobs, worker, cpc, handle>> PROVE B
  BY <1>2, <1>3, <1>4, <1>5, <1>6
<1>7. ASSUME NEW c \in Client, post(c) PROVE B
  <2>1. /\ jobs' = Append(jobs, <<calls', NoKey>>) /\ calls' \in Nat
        /\ UNCHANGED <<conditions, worker, cpc, handle>>
    BY <1>0, <1>7, KeyFacts DEF post, table, TypeOK, WellFormed
  <2>2. r = q + 0
    BY <1>3, <2>1, KeyFacts DEF AnyKey
  <2>3. m = n
    BY <2>1
  <2> HIDE DEF n, m, q, r, s, t, u, v
  <2> QED
    BY <1>1, <1>2, <1>4, <1>5, <2>1, <2>2, <2>3
<1>8. ASSUME NEW c \in Client, blocking(c) PROVE B
  <2> DEFINE h == Head(slots)
  <2>1. /\ jobs' = Append(jobs, <<calls', h>>) /\ h \in Key
        /\ handle' = [handle EXCEPT ![c] = <<calls', h>>]
        /\ calls' = calls + 1 /\ calls \in Nat /\ cpc[c] = "idle"
        /\ UNCHANGED worker
    BY <1>8, TakeSlotTypes
  <2>2. cpc' = [cpc EXCEPT ![c] = "wait"] /\ conditions' = conditions
    BY <1>8 DEF blocking
  <2>3. r = q + (IF h = k THEN 1 ELSE 0)
    BY <1>3, <2>1 DEF AnyKey
  <2>4. /\ \A d \in Client : d # c => cpc'[d] = cpc[d] /\ handle'[d] = handle[d]
        /\ cpc'[c] = "wait" /\ handle'[c][2] = h
    BY <2>1, <2>2 DEF TypeOK
  <2>5. u + (IF c \in Waiting(k) THEN 1 ELSE 0) = v + (IF c \in Waiting(k)' THEN 1 ELSE 0)
    BY <2>4, ClientCounts
  <2>6. c \notin Waiting(k) /\ (c \in Waiting(k)' <=> h = k)
    BY <2>1, <2>4 DEF Waiting
  <2>7. m = n
    BY <2>2
  <2> HIDE DEF n, m, q, r, s, t, u, v
  <2> QED
    BY <1>1, <1>2, <1>4, <2>1, <2>3, <2>5, <2>6, <2>7
<1>9. ASSUME NEW c \in Client PROVE ~async(c) /\ ~wait(c) /\ ~timed_wait(c) /\ ~cancel(c)
  <2>1. cpc[c] = "idle" => handle[c] = NoCall
    BY DEF Balanced
  <2> QED
    BY <2>1 DEF async, wait, timed_wait, cancel, Acknowledged, NoCall
<1>10. ASSUME NEW c \in Client, wait_returns(c) PROVE B
  <2> DEFINE j == handle[c][2]
  <2>1. /\ cpc[c] = "wait" /\ conditions[j] > 0 /\ j \in Key
        /\ conditions' = [conditions EXCEPT ![j] = @ - 1]
        /\ handle' = [handle EXCEPT ![c] = NoCall] /\ cpc' = [cpc EXCEPT ![c] = "idle"]
        /\ UNCHANGED <<jobs, worker>>
    BY <1>10 DEF wait_returns, Acknowledged, WellFormed
  <2>2. /\ \A d \in Client : d # c => cpc'[d] = cpc[d] /\ handle'[d] = handle[d]
        /\ cpc'[c] = "idle"
    BY <2>1 DEF TypeOK
  <2>3. u + (IF c \in Waiting(k) THEN 1 ELSE 0) = v + (IF c \in Waiting(k)' THEN 1 ELSE 0)
    BY <2>2, ClientCounts
  <2>4. c \notin Waiting(k)' /\ (c \in Waiting(k) <=> j = k)
    BY <2>1, <2>2 DEF Waiting
  <2>5. m = IF j = k THEN n - 1 ELSE n
    BY <2>1 DEF TypeOK
  <2> HIDE DEF n, m, q, r, s, t, u, v
  <2> QED
    BY <1>1, <1>2, <1>3, <1>4, <2>1, <2>3, <2>4, <2>5
<1>11. ASSUME NEW w \in WorkerThread, RunWorker(w) PROVE B
  <2>1. \A x \in WorkerThread : x # w => wpc'[x] = wpc[x] /\ job'[x] = job[x]
    BY <1>11, WorkerTypes
  <2>2. t + (IF w \in Signalling(k) THEN 1 ELSE 0) = s + (IF w \in Signalling(k)' THEN 1 ELSE 0)
    BY <2>1, ThreadCounts
  <2>3. /\ w \in Signalling(k) <=> wpc[w] \notin {"idle", "push"} /\ job[w][2] = k
        /\ w \in Signalling(k)' <=> wpc'[w] \notin {"idle", "push"} /\ job'[w][2] = k
    BY DEF Signalling, Serving
  <2>4. UNCHANGED <<cpc, handle>>
    BY <1>11 DEF RunWorker, run, wrap, handler, handler_throws, signal, push, client
  <2>5. CASE run(w)
    <3>1. /\ jobs # <<>> /\ jobs' = Tail(jobs) /\ m = n
          /\ wpc[w] = "idle" /\ wpc'[w] \notin {"idle", "push"} /\ job'[w] = Head(jobs)
      BY <2>5 DEF run, table, TypeOK
    <3> HIDE DEF n, m, q, r, s, t, u, v
    <3>2. q = r + (IF Head(jobs)[2] = k THEN 1 ELSE 0)
      BY <1>3, <3>1
    <3>3. t = s + (IF Head(jobs)[2] = k THEN 1 ELSE 0)
      BY <1>1, <2>2, <2>3, <3>1
    <3>4. m + r + t = n + q + s /\ u = v
      BY <1>1, <1>5, <2>4, <3>1, <3>2, <3>3
    <3> QED
      BY <1>2, <3>4
  <2>6. CASE wrap(w)
    <3>1. ~flags[job[w][2]]
      BY <2>6 DEF wrap, WellFormed, Balanced
    <3>2. /\ jobs' = jobs /\ m = n /\ job' = job
          /\ wpc[w] \notin {"idle", "push"} /\ wpc'[w] \notin {"idle", "push"}
      BY <2>6, <3>1 DEF wrap, TypeOK
    <3> HIDE DEF n, m, q, r, s, t, u, v
    <3> QED
      BY <1>1, <1>2, <1>3, <1>5, <2>2, <2>3, <2>4, <3>2
  <2>7. CASE handler(w)
    <3>1. /\ jobs' = jobs /\ m = n /\ wpc[w] \notin {"idle", "push"}
          /\ \/ job[w][2] = NoKey /\ wpc'[w] = "idle"
             \/ wpc'[w] \notin {"idle", "push"} /\ job' = job
      BY <2>7 DEF handler, TypeOK, table
    <3> HIDE DEF n, m, q, r, s, t, u, v
    <3> QED
      BY <1>1, <1>2, <1>3, <1>5, <2>2, <2>3, <2>4, <3>1, KeyFacts
  <2>8. CASE handler_throws(w)
    <3>1. /\ jobs' = jobs /\ m = n /\ wpc'[w] = "idle" /\ "throw" \in scenario.use
      BY <2>8 DEF handler_throws, TypeOK
    <3> HIDE DEF n, m, q, r, s, t, u, v
    <3> QED
      BY <1>1, <1>2, <1>3, <1>5, <2>2, <2>3, <2>4, <3>1
  <2>9. CASE signal(w)
    <3>1. /\ jobs' = jobs /\ job' = job /\ wpc[w] = "signal" /\ wpc'[w] = "push"
          /\ job[w][2] \in Key
      BY <2>9 DEF signal, TypeOK, WellFormed
    <3>2. m = IF job[w][2] = k THEN n + 1 ELSE n
      BY <2>9, <3>1 DEF signal, TypeOK
    <3> HIDE DEF n, m, q, r, s, t, u, v
    <3> QED
      BY <1>1, <1>2, <1>3, <1>5, <2>2, <2>3, <2>4, <3>1, <3>2
  <2>10. CASE push(w)
    <3>1. /\ jobs' = jobs /\ m = n /\ wpc[w] = "push" /\ wpc'[w] = "idle"
      BY <2>10 DEF push, TypeOK
    <3> HIDE DEF n, m, q, r, s, t, u, v
    <3> QED
      BY <1>1, <1>2, <1>3, <1>5, <2>2, <2>3, <2>4, <3>1
  <2> QED
    BY <1>11, <2>5, <2>6, <2>7, <2>8, <2>9, <2>10 DEF RunWorker
<1>12. stop \/ UNCHANGED vars => UNCHANGED <<conditions, jobs, worker, cpc, handle>>
  BY DEF stop, vars, table, client
<1> HIDE DEF B
<1> QED
  BY <1>6, <1>7, <1>8, <1>9, <1>10, <1>11, <1>12 DEF Next

-----------------------------------------------------------------------------
(* A lone client.                                                          *)

LEMMA AloneIsOne ==
  ASSUME NEW s \in Scenario
  PROVE  /\ Alone(s.clients) => \A c, d \in s.clients : c = d
         /\ Alone(s.threads) => \A w, v \in s.threads : w = v
<1>1. s.clients \in SUBSET Client /\ s.threads \in SUBSET WorkerThread
  BY KeyFacts
<1>2. IsFiniteSet(s.clients) /\ IsFiniteSet(s.threads)
  BY <1>1, WorkerAssumption, FS_Subset
<1>3. /\ Alone(s.clients) => \E x : s.clients = {x}
      /\ Alone(s.threads) => \E x : s.threads = {x}
  BY <1>2, FS_Singleton DEF Alone
<1> QED
  BY <1>3

\* The lone client's handle after it has taken a key.
LEMMA TakeSlotLastCall ==
  ASSUME TypeOK, WellFormed, OneOwner, Balanced, Alone(scenario.clients),
         NEW c \in scenario.clients, c \in Client, blocking(c) \/ async(c)
  PROVE  /\ \A i \in DOMAIN jobs' : jobs'[i][2] = handle'[c][2] => jobs'[i] = handle'[c]
         /\ \A w \in WorkerThread : ~(wpc'[w] # "idle" /\ job'[w][2] = handle'[c][2])
         /\ ~({"blocking", "async"} \subseteq scenario.use) => conditions'[handle'[c][2]] = 0
<1> DEFINE h == Head(slots)
<1>1. /\ slots # <<>> /\ h \in Key
      /\ jobs' = Append(jobs, <<calls', h>>)
      /\ handle' = [handle EXCEPT ![c] = <<calls', h>>]
      /\ calls' = calls + 1 /\ calls \in Nat /\ cpc[c] = "idle"
      /\ UNCHANGED worker
  BY TakeSlotTypes
<1>2. handle'[c] = <<calls', h>>
  BY <1>1 DEF TypeOK
<1>3. Queued(h) = {} /\ Serving(h) = {}
  <2>1. 1 \in Free(h)
    BY <1>1 DEF Free, TypeOK
  <2> QED
    BY <1>1, <2>1, ServedIsNowhereElse
<1>4. \A i \in DOMAIN jobs' : jobs'[i][2] = h => jobs'[i] = <<calls', h>>
  <2>1. jobs \in Seq(Nat \X AnyKey) /\ <<calls', h>> \in Nat \X AnyKey
    BY <1>1, Counted DEF Counts, AnyKey
  <2>2. /\ DOMAIN jobs = 1..Len(jobs) /\ DOMAIN jobs' = 1..(Len(jobs) + 1) /\ Len(jobs) \in Nat
        /\ \A i \in 1..Len(jobs) : jobs'[i] = jobs[i]
        /\ jobs'[Len(jobs) + 1] = <<calls', h>>
    BY <1>1, <2>1
  <2>3. \A i \in DOMAIN jobs' : i \in DOMAIN jobs \/ i = Len(jobs) + 1
    BY <2>2
  <2>4. \A i \in DOMAIN jobs : jobs[i][2] # h
    BY <1>3 DEF Queued
  <2> QED
    BY <2>2, <2>3, <2>4
<1>5. \A w \in WorkerThread : ~(wpc'[w] # "idle" /\ job'[w][2] = h)
  BY <1>1, <1>3 DEF Serving, worker
<1>6. ASSUME ~({"blocking", "async"} \subseteq scenario.use) PROVE conditions'[h] = 0
  <2>1. CASE async(c)
    BY <1>1, <2>1 DEF async, TypeOK
  <2>2. CASE blocking(c)
    <3>1. "async" \notin scenario.use /\ conditions' = conditions
      BY <1>6, <2>2 DEF blocking
    <3>2. Waiting(h) = {}
      <4>1. \A d \in Client : cpc[d] = "wait" => d \in scenario.clients
        BY DEF WellFormed
      <4>2. scenario \in Scenario
        BY DEF WellFormed
      <4> QED
        BY <1>1, <4>1, <4>2, AloneIsOne DEF Waiting
    <3>3. conditions[h] + Cardinality(Queued(h)) + Cardinality(Signalling(h)) <= Cardinality(Waiting(h))
      BY <1>1, <3>1 DEF Balanced
    <3>4. /\ conditions[h] \in Nat /\ Cardinality(Queued(h)) \in Nat
          /\ Cardinality(Signalling(h)) \in Nat /\ Cardinality(Waiting(h)) = 0
      BY <1>1, <3>2, Counted, FS_EmptySet DEF Counts, TypeOK
    <3> QED
      BY <3>1, <3>3, <3>4
  <2> QED
    BY <2>1, <2>2
<1> QED
  BY <1>2, <1>4, <1>5, <1>6

LEMMA NextLastCall ==
  ASSUME TypeOK, WellFormed, OneOwner, Balanced, LastCall, [Next]_vars
  PROVE  LastCall'
<1>0. TypeOK' /\ WellFormed' /\ scenario' = scenario /\ scenario \in Scenario
  BY NextTypes, ScenarioStays DEF WellFormed
<1> SUFFICES ASSUME Alone(scenario.clients), NEW c \in scenario.clients, handle'[c] # NoCall
    PROVE  /\ \A i \in DOMAIN jobs' : jobs'[i][2] = handle'[c][2] => jobs'[i] = handle'[c]
           /\ \A w \in WorkerThread :
                wpc'[w] # "idle" /\ job'[w][2] = handle'[c][2] => job'[w] = handle'[c]
           /\ ~({"blocking", "async"} \subseteq scenario.use) /\ conditions'[handle'[c][2]] > 0 =>
                handle'[c][1] \in ran'
  BY <1>0 DEF LastCall
<1> DEFINE
      J == \A i \in DOMAIN jobs' : jobs'[i][2] = handle'[c][2] => jobs'[i] = handle'[c]
      W == \A w \in WorkerThread :
             wpc'[w] # "idle" /\ job'[w][2] = handle'[c][2] => job'[w] = handle'[c]
      R == ~({"blocking", "async"} \subseteq scenario.use) /\ conditions'[handle'[c][2]] > 0 =>
             handle'[c][1] \in ran'
<1> SUFFICES J /\ W /\ R
  OBVIOUS
<1>1. c \in Client /\ \A d \in scenario.clients : d = c
  BY <1>0, AloneIsOne, KeyFacts
<1>2. ASSUME handle[c] # NoCall
      PROVE  /\ \A i \in DOMAIN jobs : jobs[i][2] = handle[c][2] => jobs[i] = handle[c]
             /\ \A w \in WorkerThread :
                  wpc[w] # "idle" /\ job[w][2] = handle[c][2] => job[w] = handle[c]
             /\ ~({"blocking", "async"} \subseteq scenario.use) /\ conditions[handle[c][2]] > 0 =>
                  handle[c][1] \in ran
             /\ handle[c][2] \in Key
  BY <1>1, <1>2 DEF LastCall, WellFormed
<1>3. ASSUME handle' = handle, UNCHANGED <<jobs, worker, conditions>> PROVE J /\ W /\ R
  BY <1>2, <1>3 DEF worker
<1>4. ASSUME NEW d \in Client, post(d) PROVE J /\ W /\ R
  <2>1. /\ handle' = handle /\ UNCHANGED <<worker, conditions>>
        /\ jobs' = Append(jobs, <<calls', NoKey>>) /\ calls' \in Nat
    BY <1>0, <1>4, KeyFacts DEF post, table, TypeOK, WellFormed
  <2>2. jobs \in Seq(Nat \X AnyKey) /\ <<calls', NoKey>> \in Nat \X AnyKey
    BY <2>1, Counted DEF Counts, AnyKey
  <2>3. /\ DOMAIN jobs = 1..Len(jobs) /\ DOMAIN jobs' = 1..(Len(jobs) + 1) /\ Len(jobs) \in Nat
        /\ \A i \in 1..Len(jobs) : jobs'[i] = jobs[i]
        /\ jobs'[Len(jobs) + 1] = <<calls', NoKey>>
    BY <2>1, <2>2
  <2>4. \A i \in DOMAIN jobs' : i \in DOMAIN jobs \/ i = Len(jobs) + 1
    BY <2>3
  <2>5. J
    BY <1>2, <2>1, <2>3, <2>4, KeyFacts
  <2> QED
    BY <1>2, <2>1, <2>5 DEF worker
<1>5. ASSUME NEW d \in Client, blocking(d) \/ async(d) PROVE J /\ W /\ R
  <2>1. d = c
    BY <1>1, <1>5 DEF blocking, async, TakeSlot, NewCall
  <2>2. /\ J
        /\ \A w \in WorkerThread : ~(wpc'[w] # "idle" /\ job'[w][2] = handle'[c][2])
        /\ ~({"blocking", "async"} \subseteq scenario.use) => conditions'[handle'[c][2]] = 0
    BY <1>1, <1>5, <2>1, TakeSlotLastCall
  <2> QED
    BY <2>2
<1>6. ASSUME NEW d \in Client PROVE ~wait_returns(d) /\ ~timed_wait(d)
  <2> SUFFICES ASSUME Acknowledged(d) PROVE FALSE
    BY DEF wait_returns, timed_wait
  <2>1. handle[d] # NoCall
    BY DEF Acknowledged, NoCall
  <2>2. d = c
    BY <1>1, <2>1 DEF WellFormed
  <2> QED
    BY <1>1, <2>2 DEF Acknowledged, TypeOK
<1>7. ASSUME NEW d \in Client, wait(d) \/ cancel(d)
      PROVE  handle' = handle /\ UNCHANGED <<jobs, worker, conditions>>
  BY <1>7 DEF wait, cancel, table, client
<1>8. ASSUME stop \/ UNCHANGED vars
      PROVE  handle' = handle /\ UNCHANGED <<jobs, worker, conditions>>
  BY <1>8 DEF stop, vars, table, client
<1>9. ASSUME NEW w \in WorkerThread, RunWorker(w) PROVE J /\ W /\ R
  <2>1. handle' = handle /\ handle[c] # NoCall
    BY <1>9 DEF RunWorker, run, wrap, handler, handler_throws, signal, push, client
  <2>2. \A v \in WorkerThread : v # w => wpc'[v] = wpc[v] /\ job'[v] = job[v]
    BY <1>9, WorkerTypes
  <2>3. CASE run(w)
    <3>1. /\ jobs # <<>> /\ jobs' = Tail(jobs) /\ job'[w] = Head(jobs)
          /\ UNCHANGED <<conditions, ran>>
      BY <2>3 DEF run, TypeOK, table
    <3>2. jobs \in Seq(Nat \X AnyKey)
      BY Counted DEF Counts
    <3>3. /\ \A i \in DOMAIN jobs' : i + 1 \in DOMAIN jobs /\ jobs'[i] = jobs[i + 1]
          /\ 1 \in DOMAIN jobs /\ Head(jobs) = jobs[1]
      BY <3>1, <3>2
    <3> QED
      BY <1>2, <2>1, <2>2, <3>1, <3>3
  <2>4. CASE ~run(w)
    <3>1. /\ jobs' = jobs /\ ran \subseteq ran'
          /\ wpc'[w] # "idle" => wpc[w] # "idle" /\ job'[w] = job[w]
      BY <1>9, <2>4 DEF RunWorker, wrap, handler, handler_throws, signal, push, TypeOK
    <3>2. J /\ W
      BY <1>2, <2>1, <2>2, <3>1
    <3>3. CASE signal(w)
      <4>1. /\ wpc[w] = "signal" /\ conditions' = [conditions EXCEPT ![job[w][2]] = @ + 1]
            /\ job[w][1] \in ran /\ job[w][2] \in Key
        BY <3>3 DEF signal, WellFormed
      <4>2. handle[c][2] = job[w][2] => handle[c][1] \in ran
        BY <1>2, <2>1, <4>1
      <4>3. handle[c][2] # job[w][2] => conditions'[handle[c][2]] = conditions[handle[c][2]]
        BY <1>2, <2>1, <4>1 DEF TypeOK
      <4> QED
        BY <1>2, <2>1, <3>1, <3>2, <4>2, <4>3
    <3>4. CASE ~signal(w)
      <4>1. conditions' = conditions
        BY <1>9, <2>4, <3>4 DEF RunWorker, wrap, handler, handler_throws, push, table
      <4> QED
        BY <1>2, <2>1, <3>1, <3>2, <4>1
    <3> QED
      BY <3>3, <3>4
  <2> QED
    BY <2>3, <2>4
<1> HIDE DEF J, W, R
<1> QED
  BY <1>3, <1>4, <1>5, <1>6, <1>7, <1>8, <1>9 DEF Next

\* With one worker thread and nothing that drops a call, calls run in order.
LEMMA NextInOrder ==
  ASSUME TypeOK, WellFormed, Balanced, InOrder, [Next]_vars
  PROVE  InOrder'
<1>0. TypeOK' /\ WellFormed' /\ scenario' = scenario /\ scenario \in Scenario
  BY NextTypes, ScenarioStays DEF WellFormed
<1> DEFINE m == calls - Len(jobs)   n == calls' - Len(jobs')
<1> SUFFICES ASSUME Alone(scenario.threads), Only({"post", "blocking"})
    PROVE  /\ \A i \in DOMAIN jobs' : jobs'[i][1] = n + i
           /\ \A w \in scenario.threads :
                /\ wpc'[w] \in {"wrap", "run"} => job'[w][1] = n /\ ran' = 1..(n - 1)
                /\ wpc'[w] \notin {"wrap", "run"} => ran' = 1..n
  BY <1>0 DEF InOrder, Only
<1> DEFINE
      J == \A i \in DOMAIN jobs' : jobs'[i][1] = n + i
      W == \A w \in scenario.threads :
                /\ wpc'[w] \in {"wrap", "run"} => job'[w][1] = n /\ ran' = 1..(n - 1)
                /\ wpc'[w] \notin {"wrap", "run"} => ran' = 1..n
<1> SUFFICES J /\ W
  OBVIOUS
<1>1. /\ \A i \in DOMAIN jobs : jobs[i][1] = m + i
      /\ \A w \in scenario.threads :
           /\ wpc[w] \in {"wrap", "run"} => job[w][1] = m /\ ran = 1..(m - 1)
           /\ wpc[w] \notin {"wrap", "run"} => ran = 1..m
  BY DEF InOrder
<1>2. /\ jobs \in Seq(Nat \X AnyKey) /\ Len(jobs) \in Nat /\ calls \in Nat /\ m \in Int
      /\ scenario.threads \subseteq WorkerThread
      /\ \A w, v \in scenario.threads : w = v
      /\ "async" \notin scenario.use /\ "throw" \notin scenario.use
  <2>1. jobs \in Seq(Nat \X AnyKey) /\ calls \in Nat
    <3>1. jobs \in Seq(Nat \X AnyKey)
      BY Counted DEF Counts
    <3>2. scenario.maxCalls \in Nat /\ calls \in 0..scenario.maxCalls
      BY <1>0, KeyFacts DEF TypeOK
    <3> QED
      BY <3>1, <3>2
  <2>2. /\ scenario.threads \subseteq WorkerThread
        /\ \A w, v \in scenario.threads : w = v
    BY <1>0, AloneIsOne, KeyFacts
  <2>3. "async" \notin scenario.use /\ "throw" \notin scenario.use
    BY DEF Only
  <2>4. Len(jobs) \in Nat
    BY <2>1
  <2> QED
    BY <2>1, <2>2, <2>3, <2>4
<1>3. ASSUME UNCHANGED <<jobs, calls, worker>> PROVE J /\ W
  BY <1>1, <1>3 DEF worker
<1>4. ASSUME NEW c \in Client, post(c) \/ blocking(c) PROVE J /\ W
  <2>1. PICK k \in AnyKey : /\ jobs' = Append(jobs, <<calls', k>>)
                            /\ calls' = calls + 1 /\ UNCHANGED worker
    <3>1. CASE post(c)
      BY <3>1 DEF post, NewCall, AnyKey
    <3>2. CASE blocking(c)
      BY <3>2, TakeSlotTypes DEF AnyKey
    <3> QED
      BY <1>4, <3>1, <3>2
  <2>2. <<calls', k>> \in Nat \X AnyKey
    BY <1>2, <2>1
  <2>3. /\ DOMAIN jobs = 1..Len(jobs) /\ DOMAIN jobs' = 1..(Len(jobs) + 1)
        /\ Len(jobs') = Len(jobs) + 1
        /\ \A i \in 1..Len(jobs) : jobs'[i] = jobs[i]
        /\ jobs'[Len(jobs) + 1] = <<calls', k>>
    BY <1>2, <2>1, <2>2
  <2>4. n = m
    BY <1>2, <2>1, <2>3
  <2>5. \A i \in DOMAIN jobs' : i \in DOMAIN jobs \/ i = Len(jobs) + 1
    BY <1>2, <2>3
  <2>6. calls' = m + (Len(jobs) + 1)
    BY <1>2, <2>1
  <2>7. J
    BY <1>1, <2>3, <2>4, <2>5, <2>6
  <2>8. W
    BY <1>1, <2>1, <2>4 DEF worker
  <2> QED
    BY <2>7, <2>8
<1>5. ASSUME NEW c \in Client PROVE ~async(c)
  BY <1>2 DEF async
<1>6. ASSUME NEW c \in Client, wait(c) \/ wait_returns(c) \/ timed_wait(c) \/ cancel(c)
      PROVE  UNCHANGED <<jobs, calls, worker>>
  BY <1>6 DEF wait, wait_returns, timed_wait, cancel, Acknowledged, table, client
<1>7. ASSUME stop \/ UNCHANGED vars PROVE UNCHANGED <<jobs, calls, worker>>
  BY <1>7 DEF stop, vars, client
<1>8. ASSUME NEW w \in WorkerThread, RunWorker(w) PROVE J /\ W
  <2>1. calls' = calls
    BY <1>8 DEF RunWorker, run, wrap, handler, handler_throws, signal, push, client
  <2>2. CASE run(w)
    <3>1. /\ jobs # <<>> /\ jobs' = Tail(jobs) /\ job'[w] = Head(jobs) /\ ran' = ran
          /\ w \in scenario.threads /\ wpc[w] = "idle" /\ wpc'[w] \in {"wrap", "run"}
      BY <2>2 DEF run, TypeOK
    <3>2. /\ \A i \in DOMAIN jobs' : i \in Nat /\ i + 1 \in DOMAIN jobs /\ jobs'[i] = jobs[i + 1]
          /\ 1 \in DOMAIN jobs /\ Head(jobs) = jobs[1] /\ Len(jobs') = Len(jobs) - 1
      BY <1>2, <3>1
    <3>3. n = m + 1
      BY <1>2, <2>1, <3>2
    <3>4. J
      <4> SUFFICES ASSUME NEW i \in DOMAIN jobs' PROVE jobs'[i][1] = n + i
        OBVIOUS
      <4>1. jobs[i + 1][1] = m + (i + 1) /\ i \in Nat
        BY <1>1, <3>2
      <4> HIDE DEF m, n
      <4> QED
        BY <1>2, <3>2, <3>3, <4>1
    <3>5. job'[w][1] = n /\ ran' = 1..(n - 1)
      <4>1. job'[w][1] = m + 1 /\ ran' = 1..m
        BY <1>1, <3>1, <3>2
      <4> HIDE DEF m, n
      <4> QED
        BY <1>2, <3>3, <4>1
    <3>6. W
      BY <1>2, <3>1, <3>5
    <3> QED
      BY <3>4, <3>6
  <2>3. CASE ~run(w)
    <3>1. jobs' = jobs /\ n = m /\ J
      BY <1>1, <1>8, <2>1, <2>3 DEF RunWorker, wrap, handler, handler_throws, signal, push
    <3>2. CASE wrap(w)
      <4>1. ~flags[job[w][2]]
        BY <1>2, <3>2 DEF wrap, WellFormed, Balanced
      <4>2. wpc[w] = "wrap" /\ wpc'[w] = "run" /\ job' = job /\ ran' = ran
        BY <3>2, <4>1 DEF wrap, TypeOK
      <4>3. \A v \in WorkerThread : v # w => wpc'[v] = wpc[v]
        BY <1>8, WorkerTypes
      <4> HIDE DEF m, n
      <4> QED
        BY <1>1, <1>2, <3>1, <4>2, <4>3
    <3>3. CASE handler(w)
      <4>1. /\ wpc[w] = "run" /\ wpc'[w] \notin {"wrap", "run"}
            /\ ran' = ran \cup {job[w][1]} /\ job[w][1] \in 1..calls
            /\ w \in scenario.threads
        BY <3>3 DEF handler, TypeOK, WellFormed
      <4>2. job[w][1] = m /\ ran = 1..(m - 1)
        BY <1>1, <4>1
      <4>3. ran' = 1..m
        <5> HIDE DEF m
        <5> QED
          BY <1>2, <4>1, <4>2
      <4> HIDE DEF m, n
      <4> QED
        BY <1>2, <3>1, <4>1, <4>3
    <3>4. CASE signal(w) \/ push(w)
      <4>1. /\ wpc[w] \notin {"wrap", "run"} /\ wpc'[w] \notin {"wrap", "run"} /\ ran' = ran
            /\ w \in scenario.threads
        BY <3>4 DEF signal, push, TypeOK, WellFormed
      <4> HIDE DEF m, n
      <4> QED
        BY <1>1, <1>2, <3>1, <4>1
    <3>5. ~handler_throws(w)
      BY <1>2 DEF handler_throws
    <3> QED
      BY <1>8, <2>3, <3>2, <3>3, <3>4, <3>5 DEF RunWorker
  <2> QED
    BY <2>2, <2>3
<1> HIDE DEF J, W
<1> QED
  BY <1>3, <1>4, <1>5, <1>6, <1>7, <1>8 DEF Next

LEMMA NextServed ==
  ASSUME TypeOK, WellFormed, LastCall, InOrder, LoneClientIsServed, [Next]_vars
  PROVE  LoneClientIsServed'
<1>0. scenario' = scenario /\ scenario \in Scenario
  BY ScenarioStays DEF WellFormed
<1> SUFFICES ASSUME Alone(scenario.clients), ~({"blocking", "async"} \subseteq scenario.use)
    PROVE  /\ returned' \subseteq ran'
           /\ Alone(scenario.threads) /\ Only({"post", "blocking"}) =>
                \A n \in returned' : 1..n \subseteq ran'
  BY <1>0 DEF LoneClientIsServed, Only
<1>1. ran \subseteq ran'
  BY DEF Next, vars, RunWorker, run, wrap, handler, handler_throws, signal, push, post, blocking,
         async, wait, wait_returns, timed_wait, cancel, stop, Acknowledged, worker
<1>2. \/ returned' = returned
      \/ \E c \in Client : Acknowledged(c)
  BY DEF Next, vars, RunWorker, run, wrap, handler, handler_throws, signal, push, post, blocking,
         async, wait, wait_returns, timed_wait, cancel, stop, client
<1>3. /\ returned \subseteq ran
      /\ Alone(scenario.threads) /\ Only({"post", "blocking"}) =>
           \A n \in returned : 1..n \subseteq ran
  BY DEF LoneClientIsServed
<1>4. ASSUME NEW c \in Client, Acknowledged(c)
      PROVE  /\ returned' = returned \cup {handle[c][1]} /\ handle[c][1] \in ran
  <2>1. handle[c] # NoCall /\ conditions[handle[c][2]] > 0
    BY <1>4 DEF Acknowledged, NoCall
  <2>2. c \in scenario.clients
    BY <2>1 DEF WellFormed
  <2> QED
    BY <1>4, <2>1, <2>2 DEF LastCall, Acknowledged
<1>5. ASSUME Alone(scenario.threads), Only({"post", "blocking"}), NEW n \in ran
      PROVE  1..n \subseteq ran
  <2>1. PICK w : scenario.threads = {w}
    <3>1. IsFiniteSet(scenario.threads)
      BY <1>0, KeyFacts, WorkerAssumption, FS_Subset
    <3> QED
      BY <1>5, <3>1, FS_Singleton DEF Alone
  <2>2. \E p \in Int : ran = 1..p
    <3>1. calls \in Nat /\ Len(jobs) \in Nat
      BY <1>0, Counted, KeyFacts DEF Counts, TypeOK
    <3> DEFINE m == calls - Len(jobs)
    <3>2. m \in Int /\ m - 1 \in Int
      BY <3>1
    <3>3. ran = 1..(m - 1) \/ ran = 1..m
      BY <1>5, <2>1 DEF InOrder
    <3> QED
      BY <3>2, <3>3
  <2> QED
    BY <2>2
<1> QED
  BY <1>1, <1>2, <1>3, <1>4, <1>5

-----------------------------------------------------------------------------
(* The results.                                                            *)

THEOREM Invariance == Spec => []IInv
<1>1. Init => IInv
  <2> SUFFICES ASSUME Init PROVE IInv
    OBVIOUS
  <2>1. LastCall /\ LoneClientIsServed
    <3>1. scenario \in Scenario /\ handle = [c \in Client |-> NoCall] /\ returned = {}
      BY DEF Init
    <3>2. scenario.clients \subseteq Client
      BY <3>1, KeyFacts
    <3> QED
      BY <3>1, <3>2 DEF LastCall, LoneClientIsServed
  <2>2. InOrder
    <3>1. calls - Len(jobs) = 0 /\ DOMAIN jobs = {} /\ ran = {}
      <4>1. jobs = <<>> /\ calls = 0 /\ ran = {}
        BY DEF Init
      <4>2. Len(jobs) = 0
        BY <4>1
      <4>3. DOMAIN jobs = 1..0
        BY <4>1, <4>2, LenProperties
      <4>4. 0 - 0 = 0 /\ 1..0 = {}
        OBVIOUS
      <4> QED
        BY <4>1, <4>2, <4>3, <4>4
    <3>2. \A w \in scenario.threads : wpc[w] \notin {"wrap", "run"}
      BY KeyFacts DEF Init
    <3>3. 1..0 = {}
      OBVIOUS
    <3> QED
      BY <3>1, <3>2, <3>3 DEF InOrder
  <2> QED
    BY <2>1, <2>2, InitTypes, InitOneOwner, InitBalanced DEF IInv
<1>2. IInv /\ [Next]_vars => IInv'
  BY NextTypes, NextOneOwner, NextBalanced, NextLastCall, NextInOrder, NextServed DEF IInv
<1> QED
  BY <1>1, <1>2, PTL DEF Spec

\* Every key of the condition table has exactly one owner, whatever is called,
\* cancelled, thrown or stopped: two calls never share a condition through the
\* worker, and no key is given back twice.
THEOREM SlotsConservedHolds == Spec => []SlotsConserved
<1>1. IInv => SlotsConserved
  BY DEF IInv, OneOwner, SlotsConserved
<1> QED
  BY <1>1, Invariance, PTL

\* Between blocking calls, for every key the clients that wait are as many as
\* the signals pending and the calls that will signal.
THEOREM SignalsMatchHolds == Spec => []SignalsMatch
<1>1. IInv => SignalsMatch
  <2> SUFFICES ASSUME IInv, Only({"post", "blocking", "stop"}), NEW k \in Key
      PROVE  Cardinality(Waiting(k)) =
               conditions[k] + Cardinality(Queued(k)) + Cardinality(Signalling(k))
    BY DEF SignalsMatch, Waiting, Signalling
  <2>1. "async" \notin scenario.use /\ "throw" \notin scenario.use
    BY DEF Only
  <2> QED
    BY <2>1 DEF IInv, Balanced
<1> QED
  BY <1>1, Invariance, PTL

\* With one client that uses blocking or async calls but not both, a call that
\* was waited for has run; with one worker thread and blocking calls only, so
\* has everything posted before it.
THEOREM LoneClientIsServedHolds == Spec => []LoneClientIsServed
BY Invariance, PTL DEF IInv

=============================================================================
