----------------------------- MODULE MCServices -----------------------------
(***************************************************************************)
(* Components that do not interact, for TLC: a behaviour is of one of      *)
(* them, its subject.                                                      *)
(***************************************************************************)
EXTENDS ConcurrentQueue, DependencySolver, JoinFunctionModule, Transaction

VARIABLE subject

Subjects == {"queue", "graph", "solver", "join", "transaction"}
QueueIdle == UNCHANGED vars
SolverIdle == UNCHANGED solvervars
JoinIdle == UNCHANGED joinvars
TransactionIdle == UNCHANGED transactionVars

\* Bound: parallel edges between two vertices at a time.
SmallGraph == g.multi => Cardinality(asked'.node) <= 2

ServicesInit ==
  /\ subject \in Subjects
  /\ Init
  /\ NothingAsked
  /\ IF subject = "graph" THEN \E multi \in BOOLEAN : GraphInit(multi) ELSE GraphInit(FALSE)
  /\ IF subject = "join" THEN JoinInit ELSE JoinInit /\ size = 1
  /\ TransactionInit

QueueStep(A) == subject = "queue" /\ A /\ SolverIdle /\ JoinIdle /\ TransactionIdle /\ UNCHANGED subject
JoinStep(A) == subject = "join" /\ A /\ QueueIdle /\ SolverIdle /\ TransactionIdle /\ UNCHANGED subject
TransactionStep(A) ==
  subject = "transaction" /\ A /\ QueueIdle /\ SolverIdle /\ JoinIdle /\ UNCHANGED subject

ServicesNext ==
  \/ QueueStep(Next)
  \/ JoinStep(JoinNext)
  \/ TransactionStep(TransactionNext)
  \/ /\ subject \in {"graph", "solver"}
     /\ QueueIdle /\ JoinIdle /\ TransactionIdle /\ UNCHANGED subject
     /\ \/ subject = "graph" /\ GraphNext /\ SmallGraph
             /\ UNCHANGED <<increment_number, mGroupFlag, answer>>
        \/ subject = "solver" /\ SolverNext

\* The queue's and the transaction's fairness, and that the flow graph's tasks are run.
ServicesSpec ==
  /\ ServicesInit /\ [][ServicesNext]_<<subject, vars, solvervars, joinvars, transactionVars>>
  /\ \A t \in Thread : WF_vars(QueueStep(Continue(t)))
  /\ WF_joinvars(JoinStep(Task))
  /\ WF_transactionVars(TransactionStep(Returning))
  /\ \A r \in Run : WF_transactionVars(TransactionStep(Running(r)))

=============================================================================
