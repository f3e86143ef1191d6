------------------------------- MODULE Worker -------------------------------
(***************************************************************************)
(* Worker (include/core/Worker.h): handlers run on the threads that serve  *)
(* an io_service; synchronous calls use a slot of a condition table.       *)
(*                                                                         *)
(* mConditionSlots is a queue of free keys.  A keyed call takes a key,     *)
(* queues wrap(key, handler) and waits on mConditions[key]; wrap runs the  *)
(* handler, signals the condition and gives the key back, in this order.   *)
(* A ConditionVariable is its number of pending signals (module            *)
(* ConcurrentQueue shows that a wait() gets one when there is one).        *)
(*                                                                         *)
(* The clients are threads outside the worker, so io_service::dispatch     *)
(* queues the handler like io_service::post.  One worker thread is a       *)
(* Worker, several are a GlobalWorker.                                     *)
(***************************************************************************)
EXTENDS Naturals, Sequences, FiniteSets

CONSTANTS
  Client,                 \* threads that call the worker
  WorkerThread,           \* threads in Worker::run
  TableSize,              \* mConditionTableSize
  Scenario                \* ways the worker is used: the clients that call it, its
                          \* threads, a bound on the number of calls, and what
                          \* happens: some of Operations

Operations == {"post", "blocking", "async", "timed", "cancel", "throw", "stop"}

Key == 0..(TableSize - 1)
NoKey == TableSize

ASSUME WorkerAssumption ==
  /\ TableSize \in Nat \ {0}
  /\ IsFiniteSet(Client) /\ IsFiniteSet(WorkerThread)
  /\ Scenario \subseteq [clients : SUBSET Client, threads : SUBSET WorkerThread,
                         maxCalls : Nat, use : SUBSET Operations]

VARIABLES
  scenario,               \* the one of this behaviour
  slots,                  \* mConditionSlots
  conditions,             \* mConditions: pending signals
  flags,                  \* mCancellationFlags
  jobs,                   \* mIoService: the queued handlers, as <<call, key>>
  mTerminated,
  wpc, job,               \* per worker thread: "idle", "wrap", "run", "signal", "push"; its handler
  cpc,                    \* per client: "idle", or "wait" on the condition of handle
  handle,                 \* per client: <<call, key>> of its last keyed call
  calls,                  \* number of calls so far; calls are numbered
  ran, returned,          \* history: handlers that have run, calls that were waited for
  lost                    \* history: keys that wrap did not give back

table  == <<slots, conditions, flags, lost>>
worker == <<wpc, job, ran>>
client == <<cpc, handle, calls, returned>>
vars   == <<scenario, table, jobs, mTerminated, worker, client>>

NoCall == <<0, NoKey>>

Init ==
  /\ scenario \in Scenario
  /\ slots = [i \in 1..TableSize |-> i - 1]
  /\ conditions = [k \in Key |-> 0]
  /\ flags = [k \in Key |-> FALSE]
  /\ jobs = <<>>
  /\ mTerminated = FALSE
  /\ wpc = [w \in WorkerThread |-> "idle"]
  /\ job = [w \in WorkerThread |-> NoCall]
  /\ cpc = [c \in Client |-> "idle"]
  /\ handle = [c \in Client |-> NoCall]
  /\ calls = 0
  /\ ran = {} /\ returned = {} /\ lost = {}

-----------------------------------------------------------------------------
(* The clients.                                                            *)

NewCall(c) ==
  /\ c \in scenario.clients
  /\ cpc[c] = "idle"
  /\ calls < scenario.maxCalls
  /\ calls' = calls + 1

\* post(handler) and dispatch(handler)
post(c) ==
  /\ "post" \in scenario.use
  /\ NewCall(c)
  /\ jobs' = Append(jobs, <<calls', NoKey>>)
  /\ UNCHANGED <<scenario, table, mTerminated, worker, cpc, handle, returned>>

\* Mutant of TakeSlot: looks at the first free key without removing it.
TakeSlot_Peek(c) ==
  /\ NewCall(c)
  /\ slots # <<>>
  /\ slots' = slots
  /\ flags' = [flags EXCEPT ![Head(slots)] = FALSE]
  /\ handle' = [handle EXCEPT ![c] = <<calls', Head(slots)>>]
  /\ jobs' = Append(jobs, <<calls', Head(slots)>>)

\* mConditionSlots->pop(key), which waits for a free key, then
\* mCancellationFlags[key] = false, then the wrapped handler is queued.
TakeSlot(c) ==
  /\ NewCall(c)
  /\ slots # <<>>
  /\ slots' = Tail(slots)
  /\ flags' = [flags EXCEPT ![Head(slots)] = FALSE]
  /\ handle' = [handle EXCEPT ![c] = <<calls', Head(slots)>>]
  /\ jobs' = Append(jobs, <<calls', Head(slots)>>)

\* post(handler, true) and dispatch(handler, true), up to the wait
blocking(c) ==
  /\ "blocking" \in scenario.use
  /\ TakeSlot(c)
  /\ cpc' = [cpc EXCEPT ![c] = "wait"]
  /\ UNCHANGED <<scenario, conditions, mTerminated, worker, returned, lost>>

\* async() also resets the condition.
async(c) ==
  /\ "async" \in scenario.use
  /\ TakeSlot(c)
  /\ conditions' = [conditions EXCEPT ![Head(slots)] = 0]
  /\ UNCHANGED <<scenario, mTerminated, worker, cpc, returned, lost>>

\* wait(key) with the key that async() returned
wait(c) ==
  /\ cpc[c] = "idle" /\ handle[c] # NoCall
  /\ cpc' = [cpc EXCEPT ![c] = "wait"]
  /\ UNCHANGED <<scenario, table, jobs, mTerminated, worker, handle, calls, returned>>

\* The condition's wait returns: one pending signal is consumed.
Acknowledged(c) ==
  LET k == handle[c][2] IN
  /\ k # NoKey
  /\ conditions[k] > 0
  /\ conditions' = [conditions EXCEPT ![k] = @ - 1]
  /\ returned' = returned \cup {handle[c][1]}
  /\ handle' = [handle EXCEPT ![c] = NoCall]
  /\ UNCHANGED <<scenario, slots, flags, lost, jobs, mTerminated, worker, calls>>

wait_returns(c) ==
  /\ cpc[c] = "wait"
  /\ Acknowledged(c)
  /\ cpc' = [cpc EXCEPT ![c] = "idle"]

\* timed_wait(key); a timeout returns false and changes nothing.
timed_wait(c) ==
  /\ "timed" \in scenario.use
  /\ cpc[c] = "idle"
  /\ Acknowledged(c)
  /\ UNCHANGED cpc

cancel(c) ==
  /\ "cancel" \in scenario.use
  /\ cpc[c] = "idle" /\ handle[c] # NoCall
  /\ flags' = [flags EXCEPT ![handle[c][2]] = TRUE]
  /\ UNCHANGED <<scenario, slots, conditions, lost, jobs, mTerminated, worker, client>>

\* stop(): the threads leave io_service::run() after their current handler.
stop ==
  /\ "stop" \in scenario.use
  /\ ~mTerminated
  /\ mTerminated' = TRUE
  /\ UNCHANGED <<scenario, table, jobs, worker, client>>

-----------------------------------------------------------------------------
(* The worker threads.                                                     *)

\* io_service::run() takes the next handler.
run(w) ==
  /\ w \in scenario.threads
  /\ wpc[w] = "idle"
  /\ jobs # <<>>
  /\ ~mTerminated
  /\ jobs' = Tail(jobs)
  /\ job' = [job EXCEPT ![w] = Head(jobs)]
  /\ wpc' = [wpc EXCEPT ![w] = IF Head(jobs)[2] = NoKey THEN "run" ELSE "wrap"]
  /\ UNCHANGED <<scenario, table, mTerminated, ran, client>>

\* Mutant of wrap: acknowledges the call before the handler runs.
wrap_SignalsEarly(w) ==
  LET k == job[w][2] IN
  /\ wpc[w] = "wrap"
  /\ conditions' = [conditions EXCEPT ![k] = @ + 1]
  /\ wpc' = [wpc EXCEPT ![w] = "run"]
  /\ UNCHANGED <<scenario, slots, flags, lost, jobs, mTerminated, job, ran, client>>

\* wrap(): if(!mCancellationFlags[key]); a cancelled call keeps its key.
wrap(w) ==
  LET k == job[w][2] IN
  /\ wpc[w] = "wrap"
  /\ IF flags[k]
       THEN /\ flags' = [flags EXCEPT ![k] = FALSE]
            /\ lost' = lost \cup {k}
            /\ wpc' = [wpc EXCEPT ![w] = "idle"]
            /\ job' = [job EXCEPT ![w] = NoCall]
       ELSE /\ wpc' = [wpc EXCEPT ![w] = "run"]
            /\ UNCHANGED <<flags, lost, job>>
  /\ UNCHANGED <<scenario, slots, conditions, jobs, mTerminated, ran, client>>

\* Mutant of handler: gives the key back without signalling the condition.
handler_NoSignal(w) ==
  /\ wpc[w] = "run"
  /\ ran' = ran \cup {job[w][1]}
  /\ IF job[w][2] = NoKey
       THEN /\ wpc' = [wpc EXCEPT ![w] = "idle"]
            /\ job' = [job EXCEPT ![w] = NoCall]
       ELSE /\ wpc' = [wpc EXCEPT ![w] = "push"]
            /\ UNCHANGED job
  /\ UNCHANGED <<scenario, table, jobs, mTerminated, client>>

\* The handler runs to its end.
handler(w) ==
  /\ wpc[w] = "run"
  /\ ran' = ran \cup {job[w][1]}
  /\ IF job[w][2] = NoKey
       THEN /\ wpc' = [wpc EXCEPT ![w] = "idle"]
            /\ job' = [job EXCEPT ![w] = NoCall]
       ELSE /\ wpc' = [wpc EXCEPT ![w] = "signal"]
            /\ UNCHANGED job
  /\ UNCHANGED <<scenario, table, jobs, mTerminated, client>>

\* The handler throws: run() catches, wrap() does not finish.
handler_throws(w) ==
  /\ "throw" \in scenario.use
  /\ wpc[w] = "run"
  /\ lost' = lost \cup ({job[w][2]} \ {NoKey})
  /\ wpc' = [wpc EXCEPT ![w] = "idle"]
  /\ job' = [job EXCEPT ![w] = NoCall]
  /\ UNCHANGED <<scenario, slots, conditions, flags, jobs, mTerminated, ran, client>>

\* mConditions[key]->signal(0)
signal(w) ==
  LET k == job[w][2] IN
  /\ wpc[w] = "signal"
  /\ conditions' = [conditions EXCEPT ![k] = @ + 1]
  /\ wpc' = [wpc EXCEPT ![w] = "push"]
  /\ UNCHANGED <<scenario, slots, flags, lost, jobs, mTerminated, job, ran, client>>

\* mConditionSlots->push(key)
push(w) ==
  /\ wpc[w] = "push"
  /\ slots' = Append(slots, job[w][2])
  /\ wpc' = [wpc EXCEPT ![w] = "idle"]
  /\ job' = [job EXCEPT ![w] = NoCall]
  /\ UNCHANGED <<scenario, conditions, flags, lost, jobs, mTerminated, ran, client>>

-----------------------------------------------------------------------------
RunWorker(w) ==
  run(w) \/ wrap(w) \/ handler(w) \/ handler_throws(w) \/ signal(w) \/ push(w)

Next ==
  \/ \E w \in WorkerThread : RunWorker(w)
  \/ \E c \in Client :
       \/ post(c) \/ blocking(c) \/ async(c)
       \/ wait(c) \/ wait_returns(c) \/ timed_wait(c)
       \/ cancel(c)
  \/ stop

Spec == Init /\ [][Next]_vars

(***************************************************************************)
(* Fairness: worker threads run, and a client whose condition is signalled *)
(* returns from its wait.                                                  *)
(***************************************************************************)
FairSpec ==
  /\ Spec
  /\ \A w \in WorkerThread : WF_vars(RunWorker(w))
  /\ \A c \in Client : WF_vars(wait_returns(c))

-----------------------------------------------------------------------------
TypeOK ==
  /\ slots \in Seq(Key)
  /\ conditions \in [Key -> Nat]
  /\ flags \in [Key -> BOOLEAN]
  /\ jobs \in Seq((1..calls) \X (Key \cup {NoKey}))
  /\ mTerminated \in BOOLEAN
  /\ wpc \in [WorkerThread -> {"idle", "wrap", "run", "signal", "push"}]
  /\ job \in [WorkerThread -> (0..calls) \X (Key \cup {NoKey})]
  /\ cpc \in [Client -> {"idle", "wait"}]
  /\ handle \in [Client -> (0..calls) \X (Key \cup {NoKey})]
  /\ calls \in 0..scenario.maxCalls
  /\ ran \subseteq 1..calls /\ returned \subseteq 1..calls
  /\ lost \subseteq Key

\* Who has key k: a place in the queue of free keys, a queued call, a worker.
Queued(k)  == {i \in DOMAIN jobs : jobs[i][2] = k}
Serving(k) == {w \in WorkerThread : wpc[w] # "idle" /\ job[w][2] = k}
Free(k)    == {i \in DOMAIN slots : slots[i] = k}

\* Every key has exactly one owner: it is free once, or one call that is
\* queued or running has it, or it was lost with a cancelled or failed call.
\* Two calls never share a condition through the worker.
SlotsConserved ==
  /\ TypeOK
  /\ \A k \in Key :
       Cardinality(Free(k)) + Cardinality(Queued(k)) + Cardinality(Serving(k))
         + (IF k \in lost THEN 1 ELSE 0) = 1

Only(S) == scenario.use \subseteq S
Alone(S) == Cardinality(S) = 1

\* For blocking calls, acknowledgements and waiting clients match: every
\* client waiting on a key has a signal pending or a call that will signal.
SignalsMatch ==
  Only({"post", "blocking", "stop"}) =>
    \A k \in Key :
      Cardinality({c \in Client : cpc[c] = "wait" /\ handle[c][2] = k})
        = conditions[k] + Cardinality(Queued(k))
            + Cardinality({w \in Serving(k) : wpc[w] # "push"})

\* A client that waits returns, unless the worker is stopped, as long as no
\* call is cancelled, no handler throws, and only a lone client uses async
\* (whose reset of the condition can eat the signal of another client).
WaitReturns ==
  \/ ~Only({"post", "blocking", "stop"})
       /\ ~(Only({"post", "async", "timed"}) /\ Alone(scenario.clients))
  \/ \A c \in Client : (cpc[c] = "wait") ~> (cpc[c] = "idle" \/ mTerminated)

\* With one client that uses blocking or async calls, not both (a blocking
\* call does not reset the condition and can meet a signal an async call left),
\* the calls it waits for are synchronous; and if there is also one worker
\* thread and it only makes blocking calls, it waits for everything posted
\* before too, as WorkerTest expects.
LoneClientIsServed ==
  Alone(scenario.clients) /\ ~({"blocking", "async"} \subseteq scenario.use) =>
    /\ returned \subseteq ran
    /\ Alone(scenario.threads) /\ Only({"post", "blocking"}) =>
         \A n \in returned : 1..n \subseteq ran
=============================================================================
