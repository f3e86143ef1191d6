---------------------------- MODULE Transaction ----------------------------
(***************************************************************************)
(* Transaction (include/core/Transaction.h): a list of actions, each with  *)
(* its rollback, executed in order by run(), which an action pauses by     *)
(* returning false and aborts by throwing.                                 *)
(*                                                                         *)
(* Every next() hands run() to std::async with the default policy, so it   *)
(* may start in a thread at once or be deferred to mResult.get(); assigning*)
(* mResult waits for the thread of the run it replaces and drops a deferred*)
(* one.  mRunLock admits one run, rollback or reset at a time.  next()     *)
(* reads and writes mProgramCounter without it.                            *)
(*                                                                         *)
(* The caller's calls are made one after the other, against the runs that  *)
(* are still going on; actions are added before the first next().          *)
(*                                                                         *)
(* The routines are taken to be what the tests' are: an action adds to the *)
(* transaction state, before it throws if it throws, and its rollback      *)
(* takes away the same, whether it is there or not.  A rollback routine    *)
(* that throws has taken away nothing.                                     *)
(***************************************************************************)
EXTENDS Integers

CONSTANTS
  MaxActions,             \* bound: number of actions added
  MaxRuns,                \* bound: number of runs started
  MaxUndos                \* bound: number of rollbacks and resets

ASSUME BoundsAssumption == MaxActions \in Nat /\ MaxRuns \in Nat /\ MaxUndos \in Nat

Action == 0..(MaxActions - 1)
Run == 1..MaxRuns
NoRun == 0

VARIABLES
  length,                 \* mTransactions.size()
  mProgramCounter,
  mRunLock,               \* the run that holds it, or NoRun
  run,                    \* Run -> where it is, see RunState
  mResult,                \* the run whose future it is, or NoRun
  caller,                 \* "idle", "assign" (mResult = async) or "get" (mResult.get())
  waitFor,                \* the run "assign" waits for; the new one if no other was going on
  blocking,               \* the argument of the next() in progress
  outcome,                \* the outcome of the last call
  started, undos,         \* number of runs, of rollbacks and resets
  done,                   \* Action -> how often its changes are in the transaction state
  off,                    \* history: the actions that rollbacks put out of step, see DoneIsPrefix
  fault                   \* mTransactions was indexed with -1, or with 0 when it is empty

Outcome == {"true", "false", "thrown"}
\* An action has returned, true or false, and is not counted yet.
Returned == {"goOn", "pause"}
RunState == {"new", "deferred", "dropped", "queued", "call", "test", "end"} \cup Returned \cup Outcome

calls == <<caller, waitFor, blocking, outcome>>
effects == <<done, off>>
transactionVars == <<length, mProgramCounter, mRunLock, run, mResult, calls, started, undos,
                     effects, fault>>

TransactionInit ==
  /\ length = 0
  /\ mProgramCounter = 0
  /\ mRunLock = NoRun
  /\ run = [r \in Run |-> "new"]
  /\ mResult = NoRun
  /\ caller = "idle" /\ waitFor = NoRun /\ blocking = FALSE /\ outcome = "none"
  /\ started = 0 /\ undos = 0
  /\ done = [i \in Action |-> 0] /\ off = {}
  /\ fault = FALSE

\* A thread is in, or on its way to, run().
InThread(r) == run[r] \in {"queued", "call", "test", "end"} \cup Returned
Free == mRunLock = NoRun
Idle == caller = "idle" /\ ~fault

-----------------------------------------------------------------------------
(* The caller                                                              *)

add ==
  /\ Idle
  /\ started = 0 /\ undos = 0 /\ outcome = "none"
  /\ length < MaxActions
  /\ length' = length + 1
  /\ UNCHANGED <<mProgramCounter, mRunLock, run, mResult, calls, started, undos,
                 effects, fault>>

\* next(), when it finds the transaction complete.
next_complete ==
  /\ Idle
  /\ mProgramCounter = -1 \/ mProgramCounter >= length
  /\ mProgramCounter' = -1
  /\ outcome' = "true"
  /\ UNCHANGED <<length, mRunLock, run, mResult, caller, waitFor, blocking, started,
                 undos, effects, fault>>

\* next(), otherwise: mResult = std::async(run).
next(block, start) ==
  LET r   == started + 1
      old == mResult
  IN  /\ Idle
      /\ mProgramCounter # -1 /\ mProgramCounter < length
      /\ started < MaxRuns
      /\ started' = r
      /\ mResult' = r
      /\ run' = [q \in Run |-> IF q = r THEN start
                               ELSE IF q = old /\ run[q] = "deferred" THEN "dropped"
                               ELSE run[q]]
      /\ waitFor' = IF old # NoRun /\ InThread(old) THEN old ELSE r
      /\ blocking' = block
      /\ caller' = IF old # NoRun /\ InThread(old) THEN "assign"
                   ELSE IF block THEN "get" ELSE "idle"
      /\ outcome' = "false"
      /\ UNCHANGED <<length, mProgramCounter, mRunLock, undos, effects, fault>>

\* The run that mResult held before has ended.
assigned ==
  /\ caller = "assign" /\ ~fault
  /\ ~InThread(waitFor)
  /\ caller' = IF blocking THEN "get" ELSE "idle"
  /\ UNCHANGED <<length, mProgramCounter, mRunLock, run, mResult, waitFor, blocking,
                 outcome, started, undos, effects, fault>>

\* waitForCompletion(); a future can be asked once.
waitForCompletion ==
  /\ Idle
  /\ mResult # NoRun
  /\ blocking' = FALSE
  /\ caller' = "get"
  /\ UNCHANGED <<length, mProgramCounter, mRunLock, run, mResult, waitFor, outcome,
                 started, undos, effects, fault>>

\* get() of a deferred run runs it in the caller's thread.
get_deferred ==
  /\ caller = "get" /\ ~fault
  /\ run[mResult] = "deferred"
  /\ run' = [run EXCEPT ![mResult] = "queued"]
  /\ UNCHANGED <<length, mProgramCounter, mRunLock, mResult, calls, started, undos,
                 effects, fault>>

get ==
  /\ caller = "get" /\ ~fault
  /\ run[mResult] \in Outcome
  /\ outcome' = run[mResult]
  /\ mResult' = NoRun
  /\ caller' = "idle"
  /\ UNCHANGED <<length, mProgramCounter, mRunLock, run, waitFor, blocking, started,
                 undos, effects, fault>>

\* The rollback routines of the actions in S have been called.
RolledBack(changes, S) == [i \in Action |-> IF i \in S THEN changes[i] - 1 ELSE changes[i]]

\* Where rollback() starts.  When the transaction is not complete, that is an
\* action that has not been executed.
FirstUndone == IF mProgramCounter = -1 THEN length - 1 ELSE mProgramCounter

rollback ==
  /\ Idle
  /\ Free
  /\ undos < MaxUndos
  /\ FirstUndone < length
  /\ undos' = undos + 1
  /\ done' = RolledBack(done, 0..FirstUndone)
  /\ off' = IF mProgramCounter = -1 THEN off ELSE off \cup {FirstUndone}
  /\ mProgramCounter' = 0
  /\ outcome' = "none"
  /\ UNCHANGED <<length, mRunLock, run, mResult, caller, waitFor, blocking, started, fault>>

\* rollback() of an empty list that is not complete yet indexes the list with 0.
rollback_empty ==
  /\ Idle
  /\ Free
  /\ undos < MaxUndos
  /\ FirstUndone >= length
  /\ undos' = undos + 1
  /\ fault' = TRUE
  /\ UNCHANGED <<length, mProgramCounter, mRunLock, run, mResult, calls, started, effects>>

\* rollback() lets the exception of a routine out, and leaves the counter alone.
rollback_throws(i) ==
  /\ Idle
  /\ Free
  /\ undos < MaxUndos
  /\ i <= FirstUndone /\ FirstUndone < length
  /\ undos' = undos + 1
  /\ done' = RolledBack(done, (i + 1)..FirstUndone)
  /\ off' = off \cup ((i + 1)..FirstUndone)
  /\ outcome' = "thrown"
  /\ UNCHANGED <<length, mProgramCounter, mRunLock, run, mResult, caller, waitFor, blocking,
                 started, fault>>

\* reset(): what was done is final, the actions start over.
reset ==
  /\ Idle
  /\ Free
  /\ undos < MaxUndos
  /\ undos' = undos + 1
  /\ mProgramCounter' = 0
  /\ done' = [i \in Action |-> 0] /\ off' = {}
  /\ outcome' = "none"
  /\ UNCHANGED <<length, mRunLock, run, mResult, caller, waitFor, blocking, started, fault>>

-----------------------------------------------------------------------------
(* run()                                                                   *)

Goto(r, where) == run' = [run EXCEPT ![r] = where]

\* Mutant: without the lock.
enter_Unlocked(r) ==
  /\ run[r] = "queued" /\ ~fault
  /\ IF mProgramCounter < 0
       THEN Goto(r, "true") /\ UNCHANGED mRunLock
       ELSE Goto(r, "test") /\ mRunLock' = r
  /\ UNCHANGED <<length, mProgramCounter, mResult, calls, started, undos, effects, fault>>

\* lock_guard, and the test of the program counter.
enter(r) ==
  /\ run[r] = "queued" /\ ~fault
  /\ Free
  /\ IF mProgramCounter < 0
       THEN Goto(r, "true") /\ UNCHANGED mRunLock
       ELSE Goto(r, "test") /\ mRunLock' = r
  /\ UNCHANGED <<length, mProgramCounter, mResult, calls, started, undos, effects, fault>>

\* What a read of mProgramCounter in run() can yield after next() has written -1
\* over the value that run() has just stored: either value.
Seen == IF mProgramCounter = -1 THEN {-1, length} ELSE {mProgramCounter}

\* while(mProgramCounter < mTransactions.size())
test(r) ==
  /\ run[r] = "test" /\ ~fault
  /\ \E pc \in Seen :
       /\ Goto(r, IF pc < length THEN "call" ELSE "end")
       /\ fault' = (pc = -1)
  /\ UNCHANGED <<length, mProgramCounter, mRunLock, mResult, calls, started, undos, effects>>

\* The action returns.
act(r, result) ==
  /\ run[r] = "call" /\ ~fault
  /\ done' = [done EXCEPT ![mProgramCounter] = @ + 1]
  /\ Goto(r, IF result THEN "goOn" ELSE "pause")
  /\ UNCHANGED <<length, mProgramCounter, mRunLock, mResult, calls, started, undos, off, fault>>

\* ++mProgramCounter, and break if the action returned false.
count(r) ==
  /\ run[r] \in Returned /\ ~fault
  /\ mProgramCounter' = mProgramCounter + 1
  /\ Goto(r, IF run[r] = "goOn" THEN "test" ELSE "end")
  /\ UNCHANGED <<length, mRunLock, mResult, calls, started, undos, effects, fault>>

\* The action throws: it and all before it are rolled back, and the exceptions of
\* the routines in failing are swallowed.
act_throws(r, failing) ==
  /\ run[r] = "call" /\ ~fault
  /\ failing \subseteq 0..mProgramCounter
  /\ done' = RolledBack([done EXCEPT ![mProgramCounter] = @ + 1], (0..mProgramCounter) \ failing)
  /\ off' = off \cup failing
  /\ mProgramCounter' = 0
  /\ mRunLock' = NoRun
  /\ Goto(r, "thrown")
  /\ UNCHANGED <<length, mResult, calls, started, undos, fault>>

\* Mutant: always complete.
leave_True(r) ==
  /\ run[r] = "end" /\ ~fault
  /\ Goto(r, "true")
  /\ mRunLock' = NoRun
  /\ UNCHANGED <<length, mProgramCounter, mResult, calls, started, undos, effects, fault>>

\* Mutant: keeps the lock when it pauses.
leave_Locked(r) ==
  /\ run[r] = "end" /\ ~fault
  /\ \E pc \in Seen :
       IF pc = length
       THEN mProgramCounter' = -1 /\ Goto(r, "true") /\ mRunLock' = NoRun
       ELSE Goto(r, "false") /\ UNCHANGED <<mProgramCounter, mRunLock>>
  /\ UNCHANGED <<length, mResult, calls, started, undos, effects, fault>>

\* if(mProgramCounter == mTransactions.size())
leave(r) ==
  /\ run[r] = "end" /\ ~fault
  /\ \E pc \in Seen :
       IF pc = length
       THEN mProgramCounter' = -1 /\ Goto(r, "true")
       ELSE Goto(r, "false") /\ UNCHANGED mProgramCounter
  /\ mRunLock' = NoRun
  /\ UNCHANGED <<length, mResult, calls, started, undos, effects, fault>>

Running(r) ==
  \/ enter(r) \/ test(r) \/ count(r) \/ leave(r)
  \/ \E result \in BOOLEAN : act(r, result)
  \/ \E failing \in SUBSET Action : act_throws(r, failing)

Returning == assigned \/ get_deferred \/ get

TransactionNext ==
  \/ add
  \/ next_complete
  \/ \E block \in BOOLEAN, start \in {"queued", "deferred"} : next(block, start)
  \/ waitForCompletion
  \/ rollback \/ rollback_empty
  \/ \E i \in Action : rollback_throws(i)
  \/ reset
  \/ Returning
  \/ \E r \in Run : Running(r)

TransactionSpec == TransactionInit /\ [][TransactionNext]_transactionVars

(***************************************************************************)
(* Fairness: a thread in run() goes on (actions return), and so does a     *)
(* call that can return.  Nobody has to call anything.                     *)
(***************************************************************************)
FairTransactionSpec ==
  /\ TransactionSpec
  /\ WF_transactionVars(Returning)
  /\ \A r \in Run : WF_transactionVars(Running(r))

-----------------------------------------------------------------------------
(* Properties                                                              *)

\* Every variable has its type; the program counter is -1 or a position in the
\* list of Transaction.h, or its end.
TransactionTypeOK ==
  /\ length \in 0..MaxActions
  /\ mProgramCounter \in -1..length
  /\ mRunLock \in Run \cup {NoRun}
  /\ run \in [Run -> RunState]
  /\ mResult \in Run \cup {NoRun}
  /\ caller \in {"idle", "assign", "get"}
  /\ waitFor \in Run \cup {NoRun}
  /\ blocking \in BOOLEAN
  /\ outcome \in Outcome \cup {"none"}
  /\ started \in 0..MaxRuns /\ undos \in 0..MaxUndos
  /\ done \in [Action -> Int] /\ off \subseteq Action
  /\ fault \in BOOLEAN

\* The action i has been executed, going by the counter; the action at the counter
\* too, while a run has not counted it yet.
Counted(i) ==
  \/ mProgramCounter = -1 /\ i < length
  \/ i < mProgramCounter
  \/ i = mProgramCounter /\ \E r \in Run : run[r] \in Returned

\* The transaction state is what the program counter says, through pauses, resets,
\* failures and calls of next() that pile up behind a run ("make sure there's only
\* one thread in the run() function", Transaction.h:128): every action before the
\* counter has been done once, and no other.  Out of step are only, until a
\* reset(), actions whose rollback routine threw in run(), actions that a
\* rollback() undid before a routine threw, and the action at which a rollback()
\* of a transaction that was not complete began.
DoneIsPrefix ==
  \A i \in Action \ off : done[i] = IF Counted(i) THEN 1 ELSE 0

\* A blocking next() that was called while no run was going on tells the truth
\* when it returns, unless actions are out of step: true, the transaction is
\* complete; false, it is paused in the middle; an exception, nothing is done.
\* (Behind another run it does not: the mutex may let the new run in first, and
\* the old one changes the state again.)
AnswerIsTrue ==
  [][get /\ blocking /\ waitFor = mResult /\ off = {} =>
       /\ outcome' = "true" => \A i \in 0..(length - 1) : done[i] = 1
       /\ outcome' = "false" => \E i \in 0..(length - 1) : done[i] = 0
       /\ outcome' = "thrown" => \A i \in Action : done[i] = 0]_transactionVars

\* A rollback routine is called for an action whose changes are there to be taken
\* back: "Each RollbackRoutine is a counter-part of ActionRoutine which invalidate
\* all changes made by ActionRoutine" (Transaction.h:43), and the routines of the
\* test check it ("BOOST_CHECK(c.currentState == 3);", TransactionTest.cpp:245).
UndoesOnlyWhatWasDone == \A i \in Action : done[i] >= 0

\* Every call returns, if actions do: nobody keeps mRunLock, and the future that
\* next() replaces or asks is made ready.
CallsReturn == (caller # "idle") ~> (caller = "idle" \/ fault)

=============================================================================
