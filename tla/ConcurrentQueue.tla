--------------------------- MODULE ConcurrentQueue --------------------------
(***************************************************************************)
(* ConcurrentQueue (include/core/ConcurrentQueue.h), and ConditionVariable *)
(* (include/core/ConditionVariable.h, the implementation that is compiled  *)
(* in), which is a ConcurrentQueue under other names: signal is push,      *)
(* wait is wait_and_pop, timed_wait is timed_wait_and_pop, reset is clear. *)
(*                                                                         *)
(* What a thread does while it holds mMutex is one step.  Two things are   *)
(* not: push() notifies after it has released the mutex, and a thread      *)
(* that sleeps on mConditionVariable takes the mutex again after it was    *)
(* woken, when others may have emptied the queue.  boost's wait(lock, p)   *)
(* is while(!p()) wait(lock); its timed form returns p() on a timeout.     *)
(***************************************************************************)
EXTENDS Naturals, Sequences, FiniteSets

CONSTANTS
  Thread,                 \* the threads that use the queue
  Value,                  \* the elements
  MaxPushes               \* bound: number of push() calls

ASSUME ThreadAssumption == IsFiniteSet(Thread)
ASSUME PushAssumption == MaxPushes \in Nat

VARIABLES
  mQueue,
  pc,                     \* "idle"; "notify" in push(); "wait" asleep, "woken" in wait_and_pop()
  timed,                  \* the thread called timed_wait_and_pop()
  expired,                \* its deadline has passed
  pushes                  \* number of push() calls so far

vars == <<mQueue, pc, timed, expired, pushes>>

Init ==
  /\ mQueue = <<>>
  /\ pc = [t \in Thread |-> "idle"]
  /\ timed = [t \in Thread |-> FALSE]
  /\ expired = [t \in Thread |-> FALSE]
  /\ pushes = 0

Sleepers == {t \in Thread : pc[t] = "wait"}

-----------------------------------------------------------------------------
\* Mutant of push: the element is there, nobody is told.
push_NoNotify(t, v) ==
  /\ pc[t] = "idle"
  /\ pushes < MaxPushes
  /\ mQueue' = Append(mQueue, v)
  /\ pushes' = pushes + 1
  /\ UNCHANGED <<pc, timed, expired>>

push(t, v) ==
  /\ pc[t] = "idle"
  /\ pushes < MaxPushes
  /\ mQueue' = Append(mQueue, v)
  /\ pc' = [pc EXCEPT ![t] = "notify"]
  /\ pushes' = pushes + 1
  /\ UNCHANGED <<timed, expired>>

\* mConditionVariable.notify_one(), the mutex being free.
notify_one(t) ==
  /\ pc[t] = "notify"
  /\ IF Sleepers = {}
       THEN pc' = [pc EXCEPT ![t] = "idle"]
       ELSE \E u \in Sleepers : pc' = [pc EXCEPT ![t] = "idle", ![u] = "woken"]
  /\ UNCHANGED <<mQueue, timed, expired, pushes>>

clear(t) ==
  /\ pc[t] = "idle"
  /\ mQueue' = <<>>
  /\ UNCHANGED <<pc, timed, expired, pushes>>

\* try_pop() on an empty queue returns false and changes nothing.
try_pop(t) ==
  /\ pc[t] = "idle"
  /\ mQueue # <<>>
  /\ mQueue' = Tail(mQueue)
  /\ UNCHANGED <<pc, timed, expired, pushes>>

\* wait_and_pop() and timed_wait_and_pop() up to the first wait.
wait_and_pop(t, deadline) ==
  /\ pc[t] = "idle"
  /\ IF mQueue # <<>>
       THEN /\ mQueue' = Tail(mQueue)
            /\ UNCHANGED <<pc, timed>>
       ELSE /\ pc' = [pc EXCEPT ![t] = "wait"]
            /\ timed' = [timed EXCEPT ![t] = deadline]
            /\ UNCHANGED mQueue
  /\ UNCHANGED <<expired, pushes>>

\* The deadline of a waiting thread passes, possibly after it was notified
\* and before it has the mutex again.
timeout(t) ==
  /\ pc[t] \in {"wait", "woken"} /\ timed[t]
  /\ pc' = [pc EXCEPT ![t] = "woken"]
  /\ expired' = [expired EXCEPT ![t] = TRUE]
  /\ UNCHANGED <<mQueue, timed, pushes>>

\* A condition variable may wake a thread for no reason.
spurious(t) ==
  /\ pc[t] = "wait"
  /\ pc' = [pc EXCEPT ![t] = "woken"]
  /\ UNCHANGED <<mQueue, timed, expired, pushes>>

\* Mutant of resume: a thread whose deadline has passed returns false
\* without testing the queue again.
resume_TimeoutFirst(t) ==
  /\ pc[t] = "woken"
  /\ IF mQueue # <<>> /\ ~expired[t]
       THEN /\ mQueue' = Tail(mQueue)
            /\ pc' = [pc EXCEPT ![t] = "idle"]
       ELSE /\ pc' = [pc EXCEPT ![t] = IF expired[t] THEN "idle" ELSE "wait"]
            /\ UNCHANGED mQueue
  /\ expired' = [expired EXCEPT ![t] = FALSE]
  /\ UNCHANGED <<timed, pushes>>

\* A woken thread has the mutex again and tests the predicate: it pops, or
\* returns false after its deadline, or sleeps again.
resume(t) ==
  /\ pc[t] = "woken"
  /\ IF mQueue # <<>>
       THEN /\ mQueue' = Tail(mQueue)
            /\ pc' = [pc EXCEPT ![t] = "idle"]
       ELSE /\ pc' = [pc EXCEPT ![t] = IF expired[t] THEN "idle" ELSE "wait"]
            /\ UNCHANGED mQueue
  /\ expired' = [expired EXCEPT ![t] = FALSE]
  /\ UNCHANGED <<timed, pushes>>

-----------------------------------------------------------------------------
\* What a call that was begun still has to do.
Continue(t) == notify_one(t) \/ resume(t)

Next ==
  \E t \in Thread :
    \/ \E v \in Value : push(t, v)
    \/ clear(t)
    \/ try_pop(t)
    \/ \E deadline \in BOOLEAN : wait_and_pop(t, deadline)
    \/ timeout(t)
    \/ spurious(t)
    \/ Continue(t)

Spec == Init /\ [][Next]_vars

(***************************************************************************)
(* Fairness: a thread that can run inside push() or wait_and_pop() does.   *)
(* Nothing forces a deadline to pass or a sleeper to wake without notice.  *)
(***************************************************************************)
FairSpec == Spec /\ \A t \in Thread : WF_vars(Continue(t))

-----------------------------------------------------------------------------
\* Types; only a thread that woke from a timed wait has an expired deadline.
TypeOK ==
  /\ mQueue \in Seq(Value)
  /\ pc \in [Thread -> {"idle", "notify", "wait", "woken"}]
  /\ timed \in [Thread -> BOOLEAN]
  /\ expired \in [Thread -> BOOLEAN]
  /\ \A t \in Thread : expired[t] => pc[t] = "woken" /\ timed[t]
  /\ pushes \in 0..MaxPushes

\* Threads that will still wake a sleeper or look at the queue themselves.
Awake == {t \in Thread : pc[t] \in {"notify", "woken"}}

\* No signal is lost: while a thread sleeps, every element in the queue has
\* an awake thread of its own that will take it or wake somebody for it.
\* Notifying after the unlock, timeouts that consume a notification, threads
\* that barge in with try_pop, and spurious wakeups all preserve this.
NoLostWakeup == Sleepers # {} => Len(mQueue) <= Cardinality(Awake)

\* "No signal will be lost, all wait() calls will succeed with corresponding
\* signal() calls": elements and sleeping threads do not both remain.
SleepersAreServed ==
  (mQueue # <<>> /\ Sleepers # {}) ~> (mQueue = <<>> \/ Sleepers = {})

=============================================================================
