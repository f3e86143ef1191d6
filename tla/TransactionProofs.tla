------------------------- MODULE TransactionProofs -------------------------
(***************************************************************************)
(* The transaction state follows the program counter, for any number of    *)
(* actions and of calls, although next() writes the counter without the    *)
(* lock.                                                                   *)
(***************************************************************************)
EXTENDS Transaction, TLAPS

Inside(r) == run[r] \in {"call", "test", "end"} \cup Returned

\* One run at a time is past the lock.
Exclusive == \A r \in Run : Inside(r) <=> mRunLock = r

\* Runs are started in order, so before the first one nothing has happened.
Started ==
  /\ \A r \in Run : r > started => run[r] = "new"
  /\ started = 0 /\ undos = 0 /\ outcome = "none" => mProgramCounter = 0

\* The action that is called, or that has just returned, exists.
CallsInList ==
  \A r \in Run : run[r] \in {"call"} \cup Returned /\ ~fault =>
                   mProgramCounter \in 0..(length - 1)

IInv == TransactionTypeOK /\ Exclusive /\ Started /\ CallsInList /\ DoneIsPrefix

\* Type correctness and the other invariants hold when the transaction is built.
LEMMA InitIInv == TransactionInit => IInv
  <1> SUFFICES ASSUME TransactionInit PROVE IInv
    OBVIOUS
  <1> USE BoundsAssumption DEF TransactionInit, Run, NoRun, Action, RunState, Outcome, Returned
  <1>1. TransactionTypeOK
    <2>1. length \in 0..MaxActions /\ mProgramCounter \in -1..length
      OBVIOUS
    <2>2. run \in [Run -> RunState] /\ done \in [Action -> Int] /\ off \subseteq Action
      OBVIOUS
    <2>3. started \in 0..MaxRuns /\ undos \in 0..MaxUndos
      OBVIOUS
    <2>5. fault \in BOOLEAN /\ blocking \in BOOLEAN
      BY Zenon
    <2>4. /\ mRunLock \in Run \cup {NoRun} /\ mResult \in Run \cup {NoRun}
          /\ waitFor \in Run \cup {NoRun}
          /\ caller \in {"idle", "assign", "get"} /\ outcome \in Outcome \cup {"none"}
      OBVIOUS
    <2> QED BY <2>1, <2>2, <2>3, <2>4, <2>5 DEF TransactionTypeOK
  <1>2. Exclusive /\ Started /\ CallsInList
    BY DEF Exclusive, Started, CallsInList, Inside
  <1>3. DoneIsPrefix
    BY DEF DoneIsPrefix, Counted
  <1> QED BY <1>1, <1>2, <1>3 DEF IInv

\* The counts stay integers when rollback routines are called.
LEMMA RolledBackType ==
  ASSUME NEW changes \in [Action -> Int], NEW S
  PROVE  RolledBack(changes, S) \in [Action -> Int]
  BY DEF RolledBack

\* The calls of the caller preserve the invariant.
LEMMA CallerStep == ASSUME IInv, add \/ next_complete \/ rollback \/ rollback_empty \/ reset
                           \/ (\E i \in Action : rollback_throws(i)) \/ waitForCompletion \/ Returning
                           \/ \E block \in BOOLEAN, start \in {"queued", "deferred"} :
                                next(block, start)
                    PROVE  IInv'
  <1> USE BoundsAssumption DEF IInv, TransactionTypeOK, Exclusive, Started, CallsInList,
          DoneIsPrefix, Counted, Inside, Run, NoRun, Action, RunState, Outcome,
          Returned, calls, effects
  <1>1. CASE add
    BY <1>1 DEF add, Idle
  <1>2. CASE next_complete
    <2>1. TransactionTypeOK'
      BY <1>2 DEF next_complete, Idle
    <2>2. Exclusive' /\ Started'
      BY <1>2 DEF next_complete, Idle
    <2>3. CallsInList'
      BY <1>2 DEF next_complete, Idle
    <2>4. DoneIsPrefix'
      BY <1>2 DEF next_complete, Idle
    <2> QED BY <2>1, <2>2, <2>3, <2>4
  <1>3. CASE rollback
    <2>0. done' \in [Action -> Int] /\ FirstUndone \in -1..(length - 1)
      BY <1>3, RolledBackType DEF rollback, FirstUndone
    <2>4. off' \subseteq Action
      BY <1>3, <2>0 DEF rollback, FirstUndone
    <2>1. TransactionTypeOK'
      BY <1>3, <2>0, <2>4 DEF rollback, Idle, Free
    <2>2. Exclusive' /\ Started' /\ CallsInList'
      BY <1>3 DEF rollback, Idle, Free
    <2>3. DoneIsPrefix'
      <3>1. \A r \in Run : run'[r] \notin Returned /\ run[r] \notin Returned
        BY <1>3 DEF rollback, Free
      <3>2. \A i \in Action : done'[i] = IF i <= FirstUndone THEN done[i] - 1 ELSE done[i]
        BY <1>3, <2>0 DEF rollback, RolledBack
      <3>3. mProgramCounter' = 0
        BY <1>3 DEF rollback
      <3>4. off' = IF mProgramCounter = -1 THEN off ELSE off \cup {FirstUndone}
        BY <1>3 DEF rollback
      <3> QED BY <3>1, <3>2, <3>3, <3>4 DEF FirstUndone
    <2> QED BY <2>1, <2>2, <2>3
  <1>8. CASE rollback_empty
    BY <1>8 DEF rollback_empty, Idle, Free
  <1>9. ASSUME NEW i \in Action, rollback_throws(i) PROVE IInv'
    <2>0. done' \in [Action -> Int] /\ FirstUndone \in Int
      BY <1>9, RolledBackType DEF rollback_throws, FirstUndone
    <2>1. TransactionTypeOK'
      BY <1>9, <2>0 DEF rollback_throws, Idle, Free
    <2>2. Exclusive' /\ Started' /\ CallsInList'
      BY <1>9 DEF rollback_throws, Idle, Free
    <2>3. DoneIsPrefix'
      <3>1. \A j \in Action : j \notin off' => j \notin off /\ done'[j] = done[j]
        BY <1>9, <2>0 DEF rollback_throws, RolledBack
      <3>2. UNCHANGED <<length, mProgramCounter, run>>
        BY <1>9 DEF rollback_throws
      <3> QED BY <3>1, <3>2
    <2> QED BY <2>1, <2>2, <2>3
  <1>4. CASE reset
    <2>1. done' \in [Action -> Int] /\ TransactionTypeOK'
      BY <1>4 DEF reset, Idle, Free
    <2>2. Exclusive' /\ Started' /\ CallsInList'
      BY <1>4 DEF reset, Idle, Free
    <2>3. DoneIsPrefix'
      BY <1>4 DEF reset, Idle, Free
    <2> QED BY <2>1, <2>2, <2>3
  <1>5. CASE waitForCompletion
    BY <1>5 DEF waitForCompletion, Idle
  <1>6. CASE Returning
    <2>1. CASE assigned
      BY <2>1 DEF assigned, InThread
    <2>2. CASE get_deferred
      <3>1. /\ mResult \in Run => run[mResult] = "deferred" /\ run' = [run EXCEPT ![mResult] = "queued"]
            /\ mResult \notin Run => run' = run
            /\ UNCHANGED <<length, mProgramCounter, mRunLock, mResult, calls, started, undos,
                           effects, fault>>
        BY <2>2 DEF get_deferred
      <3>2. TransactionTypeOK'
        BY <3>1
      <3>3. Exclusive' /\ Started' /\ CallsInList'
        BY <3>1
      <3>4. DoneIsPrefix'
        BY <3>1
      <3> QED BY <3>2, <3>3, <3>4
    <2>3. CASE get
      BY <2>3 DEF get
    <2> QED BY <1>6, <2>1, <2>2, <2>3 DEF Returning
  <1>7. ASSUME NEW block \in BOOLEAN, NEW start \in {"queued", "deferred"}, next(block, start)
        PROVE  IInv'
    <2>1. TransactionTypeOK'
      BY <1>7 DEF next, Idle, InThread
    <2>2. /\ UNCHANGED <<length, mProgramCounter, mRunLock, done, off, fault>>
          /\ \A r \in Run : run'[r] = run[r] \/ (~Inside(r) /\ ~Inside(r)')
          /\ \A r \in Run : r > started' => run'[r] = run[r]
          /\ started' = started + 1
      BY <1>7 DEF next, Idle, InThread
    <2>3. Exclusive' /\ Started' /\ CallsInList'
      BY <2>2
    <2>4. DoneIsPrefix'
      BY <2>2
    <2> QED BY <2>1, <2>3, <2>4
  <1> QED BY <1>1, <1>2, <1>3, <1>4, <1>5, <1>6, <1>7, <1>8, <1>9

\* The steps of run() preserve the invariant.
LEMMA RunStep == ASSUME IInv, NEW r \in Run, Running(r) PROVE IInv'
  <1> USE BoundsAssumption DEF IInv, TransactionTypeOK, Exclusive, Started, CallsInList,
          DoneIsPrefix, Counted, Inside, Run, NoRun, Action, RunState, Outcome,
          Returned, calls, effects,
          Goto, Seen
  <1>1. CASE enter(r)
    <2>1. TransactionTypeOK'
      BY <1>1 DEF enter, Free
    <2>2. Exclusive' /\ Started'
      BY <1>1 DEF enter, Free
    <2>3. CallsInList'
      BY <1>1 DEF enter, Free
    <2>4. DoneIsPrefix'
      BY <1>1 DEF enter, Free
    <2> QED BY <2>1, <2>2, <2>3, <2>4
  <1>2. CASE test(r)
    <2>0. fault' \in BOOLEAN
      <3>1. PICK pc \in Seen : fault' = (pc = -1)
        BY <1>2 DEF test
      <3> QED BY <3>1, Zenon
    <2>1. TransactionTypeOK'
      BY <1>2, <2>0 DEF test
    <2>2. Exclusive' /\ Started'
      BY <1>2 DEF test
    <2>3. CallsInList'
      <3>1. PICK pc \in Seen : /\ run' = [run EXCEPT ![r] = IF pc < length THEN "call" ELSE "end"]
                              /\ fault' = (pc = -1)
        BY <1>2 DEF test
      <3> SUFFICES ASSUME NEW q \in Run, run'[q] \in {"call"} \cup Returned, ~fault'
                   PROVE  mProgramCounter' \in 0..(length' - 1)
        BY DEF CallsInList
      <3>2. run[r] = "test" /\ length' = length /\ mProgramCounter' = mProgramCounter
        BY <1>2 DEF test
      <3>3. pc # -1
        BY <3>1, Zenon
      <3>4. q = r
        BY <3>1, <3>2
      <3>5. pc < length
        BY <3>1, <3>4
      <3>6. pc = mProgramCounter
        BY <3>3, <3>5
      <3> QED BY <3>2, <3>3, <3>5, <3>6
    <2>4. DoneIsPrefix'
      BY <1>2, SMTT(30) DEF test
    <2> QED BY <2>1, <2>2, <2>3, <2>4
  <1>3. CASE leave(r)
    <2>1. TransactionTypeOK'
      BY <1>3 DEF leave
    <2>2. Exclusive' /\ Started'
      BY <1>3, SMTT(30) DEF leave
    <2>3. CallsInList'
      BY <1>3 DEF leave
    <2>4. DoneIsPrefix'
      <3>1. /\ UNCHANGED <<length, done, off>>
            /\ \A q \in Run : run'[q] \notin Returned /\ run[q] \notin Returned
        BY <1>3 DEF leave
      <3>2. mProgramCounter' = mProgramCounter \/ (mProgramCounter \in {-1, length} /\ mProgramCounter' = -1)
        BY <1>3 DEF leave
      <3>3. \A i \in Action : Counted(i)' = Counted(i)
        BY <3>1, <3>2
      <3> QED BY <3>1, <3>3
    <2> QED BY <2>1, <2>2, <2>3, <2>4
  <1>4. ASSUME NEW result \in BOOLEAN, act(r, result) PROVE IInv'
    <2>1. TransactionTypeOK'
      BY <1>4 DEF act
    <2>2. Exclusive' /\ Started'
      BY <1>4 DEF act
    <2>3. CallsInList'
      BY <1>4 DEF act
    <2>4. DoneIsPrefix'
      <3>1. /\ run[r] = "call" /\ mProgramCounter \in 0..(length - 1)
            /\ run'[r] \in Returned /\ UNCHANGED <<length, mProgramCounter, off>>
        BY <1>4 DEF act
      <3>2. \A q \in Run : run[q] \notin Returned
        BY <3>1
      <3>3. \A i \in Action : done'[i] = IF i = mProgramCounter THEN done[i] + 1 ELSE done[i]
        BY <1>4, <3>1 DEF act
      <3>4. \A i \in Action : Counted(i) <=> i < mProgramCounter
        BY <3>1, <3>2
      <3>5. \A i \in Action : Counted(i)' <=> i <= mProgramCounter
        BY <3>1
      <3> QED BY <3>1, <3>3, <3>4, <3>5, SMTT(30)
    <2> QED BY <2>1, <2>2, <2>3, <2>4
  <1>5. CASE count(r)
    <2>1. TransactionTypeOK'
      BY <1>5 DEF count
    <2>2. Exclusive' /\ Started'
      BY <1>5 DEF count
    <2>3. CallsInList'
      BY <1>5 DEF count
    <2>4. DoneIsPrefix'
      <3>1. /\ run[r] \in Returned /\ mProgramCounter \in 0..(length - 1)
            /\ mProgramCounter' = mProgramCounter + 1 /\ UNCHANGED <<length, done, off>>
        BY <1>5 DEF count
      <3>2. \A q \in Run : run'[q] \notin Returned
        BY <1>5 DEF count
      <3>3. \A i \in Action : Counted(i)' <=> i <= mProgramCounter
        BY <3>1, <3>2
      <3>4. \A i \in Action : Counted(i) <=> i <= mProgramCounter
        BY <3>1
      <3> QED BY <3>1, <3>3, <3>4
    <2> QED BY <2>1, <2>2, <2>3, <2>4
  <1>6. ASSUME NEW failing \in SUBSET Action, act_throws(r, failing) PROVE IInv'
    <2> DEFINE tried == [done EXCEPT ![mProgramCounter] = @ + 1]
    <2>0. mProgramCounter \in 0..(length - 1) /\ tried \in [Action -> Int]
      BY <1>6 DEF act_throws
    <2>1. done' \in [Action -> Int]
      BY <1>6, <2>0, RolledBackType DEF act_throws
    <2>6. off' \subseteq Action /\ mProgramCounter' = 0 /\ mRunLock' = NoRun
      BY <1>6 DEF act_throws
    <2>7. run' \in [Run -> RunState] /\ UNCHANGED <<length, mResult, calls, started, undos, fault>>
      BY <1>6 DEF act_throws
    <2>2. TransactionTypeOK'
      BY <2>1, <2>6, <2>7
    <2>3. Exclusive' /\ Started'
      BY <1>6 DEF act_throws
    <2>4. CallsInList'
      BY <1>6 DEF act_throws
    <2>5. DoneIsPrefix'
      <3>1. \A q \in Run : run'[q] \notin Returned /\ run[q] \notin Returned
        BY <1>6 DEF act_throws
      <3>2. \A j \in Action : j \notin failing =>
              done'[j] = IF j < mProgramCounter THEN done[j] - 1 ELSE done[j]
        BY <1>6, <2>0 DEF act_throws, RolledBack
      <3>3. mProgramCounter' = 0 /\ off' = off \cup failing
        BY <1>6 DEF act_throws
      <3> QED BY <2>0, <3>1, <3>2, <3>3, SMTT(30)
    <2> QED BY <2>2, <2>3, <2>4, <2>5
  <1> QED BY <1>1, <1>2, <1>3, <1>4, <1>5, <1>6 DEF Running

\* IInv is an invariant of the transaction.
THEOREM Invariance == TransactionSpec => []IInv
<1>1. IInv /\ [TransactionNext]_transactionVars => IInv'
  <2> SUFFICES ASSUME IInv, [TransactionNext]_transactionVars PROVE IInv'
    OBVIOUS
  <2>1. CASE UNCHANGED transactionVars
    BY <2>1 DEF IInv, TransactionTypeOK, Exclusive, Started, CallsInList, DoneIsPrefix, Counted, Inside,
         transactionVars, calls, effects
  <2>2. CASE TransactionNext
    BY <2>2, CallerStep, RunStep DEF TransactionNext
  <2> QED BY <2>1, <2>2
<1> QED BY <1>1, InitIInv, PTL DEF TransactionSpec

\* Transaction.h's counter, lock and futures keep their types.
THEOREM TypeCorrect == TransactionSpec => []TransactionTypeOK
  BY Invariance, PTL DEF IInv

\* Through any interleaving of runs, rollbacks, resets and failures, the changes of
\* an action are in the state once if the counter has passed it and not at all if
\* not, unless it is one of the actions that Transaction.h's rollbacks put out of
\* step: its routine threw, a routine threw after its own in rollback(), or
\* rollback() began at it although it had not been executed.
THEOREM DoneIsPrefixHolds == TransactionSpec => []DoneIsPrefix
  BY Invariance, PTL DEF IInv

-----------------------------------------------------------------------------
(* The outcome of a blocking next().                                       *)

\* A run that is not over is the one mResult refers to, or the one the
\* assignment of mResult waits for.
OneIsGoingOn ==
  /\ mResult \in 0..started
  /\ caller \in {"assign", "get"} => mResult # NoRun
  /\ caller = "assign" => waitFor # mResult
  /\ \A r \in Run : InThread(r) => r = mResult \/ (caller = "assign" /\ r = waitFor)
  /\ \A r \in Run : run[r] = "deferred" => r = mResult

\* What the run that a blocking next() waits for has left in the counter.
Outcomes ==
  caller = "get" /\ blocking /\ waitFor = mResult =>
    /\ run[mResult] = "true" => mProgramCounter = -1
    /\ run[mResult] = "false" => mProgramCounter \in 0..(length - 1)
    /\ run[mResult] = "thrown" => mProgramCounter = 0
    /\ run[mResult] \notin Outcome => mProgramCounter # -1

AInv == OneIsGoingOn /\ Outcomes

LEMMA InitAInv == TransactionInit => AInv
  BY BoundsAssumption DEF TransactionInit, AInv, OneIsGoingOn, Outcomes, InThread, NoRun,
                          Returned

\* The calls of the caller.  A blocking next() starts from a counter that is not
\* -1, and while it waits the caller makes no other call.
LEMMA CallerAInv ==
  ASSUME IInv, AInv, add \/ next_complete \/ rollback \/ rollback_empty \/ reset
                     \/ (\E i \in Action : rollback_throws(i)) \/ waitForCompletion \/ Returning
                     \/ \E block \in BOOLEAN, start \in {"queued", "deferred"} :
                          next(block, start)
  PROVE  AInv'
  <1> USE BoundsAssumption DEF IInv, TransactionTypeOK, AInv, InThread, Run, NoRun, Outcome, Returned, calls
  <1>1. CASE add \/ next_complete \/ rollback \/ rollback_empty \/ reset
             \/ \E i \in Action : rollback_throws(i)
    BY <1>1 DEF add, next_complete, rollback, rollback_empty, rollback_throws, reset, Idle,
                OneIsGoingOn, Outcomes
  <1>2. CASE waitForCompletion
    BY <1>2 DEF waitForCompletion, Idle, OneIsGoingOn, Outcomes
  <1>3. CASE assigned
    <2>1. waitFor # mResult /\ ~InThread(waitFor) /\ caller' \in {"get", "idle"}
      BY <1>3 DEF assigned, OneIsGoingOn
    <2>2. UNCHANGED <<length, mProgramCounter, run, mResult, waitFor, blocking, started>>
      BY <1>3 DEF assigned
    <2>3. Outcomes'
      BY <2>1, <2>2 DEF Outcomes
    <2>4. caller = "assign" /\ mResult \in Run \cup {NoRun}
      BY <1>3 DEF assigned
    <2>5. /\ mResult \in 0..started
          /\ \A r \in Run : InThread(r) => r = mResult \/ r = waitFor
          /\ \A r \in Run : run[r] = "deferred" => r = mResult
      BY DEF OneIsGoingOn
    <2>6. mResult # NoRun
      BY <1>3 DEF assigned, OneIsGoingOn
    <2>7. OneIsGoingOn'
      <3> HIDE DEF IInv, TransactionTypeOK, AInv, Run
      <3> QED BY <2>1, <2>2, <2>4, <2>5, <2>6 DEF OneIsGoingOn
    <2> QED BY <2>3, <2>7
  <1>4. CASE get_deferred
    <2>1. mResult \in Run
      BY <1>4 DEF get_deferred, OneIsGoingOn
    <2>2. run'[mResult] = "queued" /\ \A r \in Run : r # mResult => run'[r] = run[r]
      BY <1>4, <2>1 DEF get_deferred
    <2> QED BY <1>4, <2>1, <2>2 DEF get_deferred, OneIsGoingOn, Outcomes
  <1>5. CASE get
    BY <1>5 DEF get, OneIsGoingOn, Outcomes
  <1>6. ASSUME NEW block \in BOOLEAN, NEW start \in {"queued", "deferred"}, next(block, start)
        PROVE  AInv'
    <2> DEFINE r == started + 1
    <2>1. /\ r \in Run /\ mResult \in 0..started /\ started' = r /\ mResult' = r /\ r # mResult
          /\ mProgramCounter # -1 /\ mProgramCounter' = mProgramCounter
          /\ caller = "idle"
      BY <1>6 DEF next, Idle, OneIsGoingOn
    <2>2. run'[r] = start
      BY <1>6, <2>1 DEF next
    <2>3. \A q \in Run : q # r => run'[q] = IF q = mResult /\ run[q] = "deferred"
                                            THEN "dropped" ELSE run[q]
      BY <1>6, <2>1 DEF next
    <2>4. OneIsGoingOn'
      <3>1. CASE mResult # NoRun /\ InThread(mResult)
        <4>1. caller' = "assign" /\ waitFor' = mResult
          BY <1>6, <3>1 DEF next
        <4> QED BY <2>1, <2>2, <2>3, <4>1 DEF OneIsGoingOn
      <3>2. CASE ~(mResult # NoRun /\ InThread(mResult))
        <4>1. caller' \in {"get", "idle"}
          BY <1>6, <3>2 DEF next
        <4> QED BY <2>1, <2>2, <2>3, <3>2, <4>1 DEF OneIsGoingOn
      <3> QED BY <3>1, <3>2
    <2>5. Outcomes'
      BY <2>1, <2>2 DEF Outcomes
    <2> QED BY <2>4, <2>5
  <1> QED BY <1>1, <1>2, <1>3, <1>4, <1>5, <1>6 DEF Returning

\* The steps of run(): nobody but the run that is waited for moves the counter.
LEMMA RunAInv == ASSUME IInv, AInv, NEW r \in Run, Running(r) PROVE AInv'
  <1> USE BoundsAssumption DEF IInv, TransactionTypeOK, AInv, Run, NoRun, Returned
  <1>1. /\ InThread(r) /\ UNCHANGED <<length, mResult, caller, waitFor, blocking, started>>
        /\ \A q \in Run : q # r => run'[q] = run[q]
    BY DEF Running, enter, test, leave, act, count, act_throws, Goto, InThread, calls
  <1>2. run'[r] # "deferred"
    BY DEF Running, enter, test, leave, act, count, act_throws, Goto, calls
  <1>3. OneIsGoingOn'
    <2> HIDE DEF IInv, TransactionTypeOK, AInv, Run
    <2> QED BY <1>1, <1>2 DEF AInv, OneIsGoingOn, InThread
  <1>4. Outcomes'
    <2> SUFFICES ASSUME caller = "get", blocking, waitFor = mResult
        PROVE  /\ run'[mResult] = "true" => mProgramCounter' = -1
               /\ run'[mResult] = "false" => mProgramCounter' \in 0..(length - 1)
               /\ run'[mResult] = "thrown" => mProgramCounter' = 0
               /\ run'[mResult] \notin Outcome => mProgramCounter' # -1
      BY <1>1 DEF Outcomes
    <2>1. r = mResult
      BY <1>1 DEF OneIsGoingOn
    <2>2. mProgramCounter \in 0..length /\ length \in Nat
      BY <1>1, <2>1 DEF Outcomes, InThread, Outcome
    <2>3. Seen = {mProgramCounter}
      BY <2>2 DEF Seen
    <2>4. CASE enter(r)
      BY <2>1, <2>2, <2>4 DEF enter, Goto, Outcome
    <2>5. CASE test(r)
      BY <2>1, <2>2, <2>5 DEF test, Goto, Outcome
    <2>6. CASE leave(r)
      BY <2>1, <2>2, <2>3, <2>6 DEF leave, Goto, Outcome
    <2>7. ASSUME NEW result \in BOOLEAN, act(r, result)
          PROVE  run'[r] \notin Outcome /\ mProgramCounter' # -1
      BY <2>2, <2>7 DEF act, Goto, Outcome
    <2>8. ASSUME NEW failing \in SUBSET Action, act_throws(r, failing)
          PROVE  run'[r] = "thrown" /\ mProgramCounter' = 0
      BY <2>1, <2>8 DEF act_throws, Goto
    <2>9. CASE count(r)
      BY <2>1, <2>2, <2>9 DEF count, Goto, Outcome
    <2> QED BY <2>1, <2>4, <2>5, <2>6, <2>7, <2>8, <2>9 DEF Running, Outcome
  <1> QED BY <1>3, <1>4

\* A blocking next() that was called while no run was going on tells the truth,
\* unless actions are out of step: true means complete, false paused in the
\* middle, an exception nothing done.
THEOREM AnswerIsTrueHolds == TransactionSpec => AnswerIsTrue
<1> DEFINE Truth == /\ outcome' = "true" => \A i \in 0..(length - 1) : done[i] = 1
                    /\ outcome' = "false" => \E i \in 0..(length - 1) : done[i] = 0
                    /\ outcome' = "thrown" => \A i \in Action : done[i] = 0
<1>1. IInv /\ AInv /\ [TransactionNext]_transactionVars => AInv'
  <2> SUFFICES ASSUME IInv, AInv, [TransactionNext]_transactionVars PROVE AInv'
    OBVIOUS
  <2>1. CASE UNCHANGED transactionVars
    BY <2>1 DEF AInv, OneIsGoingOn, Outcomes, InThread, transactionVars, calls
  <2>2. CASE TransactionNext
    BY <2>2, CallerAInv, RunAInv DEF TransactionNext
  <2> QED BY <2>1, <2>2
<1>2. IInv /\ AInv => [get /\ blocking /\ waitFor = mResult /\ off = {} => Truth]_transactionVars
  <2> SUFFICES ASSUME IInv, AInv, get, blocking, waitFor = mResult, off = {} PROVE Truth
    OBVIOUS
  <2>1. /\ outcome' = "true" => mProgramCounter = -1
        /\ outcome' = "false" => mProgramCounter \in 0..(length - 1)
        /\ outcome' = "thrown" => mProgramCounter = 0
    BY DEF get, AInv, Outcomes
  <2>2. length \in 0..MaxActions /\ 0..(length - 1) \subseteq Action
    BY BoundsAssumption DEF IInv, TransactionTypeOK, Action
  <2>3. \A r \in Run : run[r] \notin Returned
    <3>1. run[mResult] \in Outcome /\ caller = "get"
      BY DEF get
    <3> QED BY <3>1 DEF AInv, OneIsGoingOn, InThread, Returned, Outcome
  <2>4. \A i \in Action : done[i] = IF Counted(i) THEN 1 ELSE 0
    BY DEF IInv, DoneIsPrefix
  <2>5. \A i \in Action : Counted(i) <=> i < (IF mProgramCounter = -1 THEN length ELSE mProgramCounter)
    BY <2>2, <2>3, BoundsAssumption DEF Counted, IInv, TransactionTypeOK, Action
  <2> QED BY <2>1, <2>2, <2>4, <2>5, BoundsAssumption DEF Action
<1> QED BY <1>1, <1>2, InitAInv, Invariance, PTL DEF TransactionSpec, AnswerIsTrue

=============================================================================
