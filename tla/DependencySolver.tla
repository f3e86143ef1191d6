-------------------------- MODULE DependencySolver --------------------------
(***************************************************************************)
(* DependencySolver (include/utility/DependencySolver.h and .cpp): nodes   *)
(* named by strings and "id requires require_id" edges between them, kept  *)
(* in an indirect graph, and the orders in which to load and unload them.  *)
(* The methods return false where the graph throws invalid_argument.       *)
(*                                                                         *)
(* boost::topological_sort throws not_a_dag on a cycle, and otherwise      *)
(* yields, through the front_inserter, an order in which the source of     *)
(* every edge comes before its target: any such order.                     *)
(***************************************************************************)
EXTENDS IndirectGraph, SequencesExt, Relation

VARIABLES
  increment_number,       \* the static of addDependency()
  mGroupFlag,             \* the vertices whose flag is set
  answer                  \* what a compile call is about to return, or NoAnswer

solvervars == <<graphvars, increment_number, mGroupFlag, answer>>

NoAnswer == [order |-> "none"]

NothingAsked ==
  /\ increment_number = 0
  /\ mGroupFlag = {}
  /\ answer = NoAnswer

\* The solver's out-edge container is a setS.
SolverInit == GraphInit(FALSE) /\ NothingAsked

\* A vertex is new with its flag down.
Edits ==
  /\ UNCHANGED answer
  /\ mGroupFlag' = mGroupFlag \intersect DOMAIN g'.vertex

addNode(id) == AddVertex(id) /\ Edits /\ UNCHANGED increment_number

\* The number is used up whether or not the edge can be added.
addDependency(id, require_id) ==
  /\ increment_number < MaxEdges
  /\ increment_number' = increment_number + 1
  /\ AddEdge(increment_number', id, require_id)
  /\ Edits

removeNode(id) == RemoveVertex(id) /\ Edits /\ UNCHANGED increment_number

removeDependency(id, require_id) ==
  RemoveEdge(id, require_id) /\ Edits /\ UNCHANGED increment_number

\* The two queries leave everything alone; agreed notes their answers.
isNodeExist(id) ==
  /\ agreed' = (vertex(g, id) <=> id \in Nodes)
  /\ UNCHANGED <<g, asked, increment_number, mGroupFlag, answer>>

isDependencyExist(id, require_id) ==
  /\ agreed' = (edge(g, id, require_id) <=> <<id, require_id>> \in Pairs)
  /\ UNCHANGED <<g, asked, increment_number, mGroupFlag, answer>>

clear_all == ClearGraph /\ Edits /\ UNCHANGED increment_number

-----------------------------------------------------------------------------
\* External: the orders boost::topological_sort may yield; none on a cycle.
topological_sort(gr) ==
  {s \in SetToSeqs(DOMAIN gr.vertex) :
     \A e \in DOMAIN gr.edge : \E i, j \in DOMAIN s : i < j /\ s[i] = e[1] /\ s[j] = e[2]}

PushFront(s, x) == <<x>> \o s
Refs(gr, order) == [i \in DOMAIN order |-> vertex_ref(gr, order[i])]

\* The traversals set the flag of a vertex before they visit it.
RECURSIVE Flag(_, _, _, _)
Flag(gr, Neighbours(_, _), v, flags) ==
  FoldSet(LAMBDA w, acc : IF w \in acc THEN acc ELSE Flag(gr, Neighbours, w, acc \union {w}),
          flags, Neighbours(gr, v))

Targets(gr, v) == {e[2] : e \in OutEdges(gr, v)}
findRequireNode(gr, v, flags) == Flag(gr, Targets, v, flags)

Sources(gr, v) == {e[1] : e \in InEdges(gr, v)}
findDependentNode(gr, v, flags) == Flag(gr, Sources, v, flags)

\* A compile call over the vertices in chosen: result is filled from the
\* front or from the back, and stays empty when there is no order.
Compile(kind, id, chosen, PushOn(_, _)) ==
  /\ LET orders == topological_sort(g)
     IN \/ /\ orders = {}
           /\ answer' = [order |-> kind, of |-> id, ok |-> FALSE, result |-> <<>>]
        \/ \E make_order \in orders :
             answer' = [order |-> kind, of |-> id, ok |-> TRUE,
                        result |-> FoldLeft(PushOn, <<>>,
                          Refs(g, SelectSeq(make_order, LAMBDA v : v \in chosen)))]
  /\ UNCHANGED <<graphvars, increment_number>>

compileTopologicalOrder ==
  Compile("load", "all", DOMAIN g.vertex, PushFront) /\ UNCHANGED mGroupFlag

compileReversedTopologicalOrder ==
  Compile("unload", "all", DOMAIN g.vertex, Append) /\ UNCHANGED mGroupFlag

\* Mutant of compileRequireNodes: the flags of the last call stay up.
compileRequireNodes_StaleFlags(id) ==
  /\ vertex(g, id)
  /\ mGroupFlag' = findRequireNode(g, g.vmap[id], mGroupFlag)
  /\ Compile("load", id, mGroupFlag', PushFront)

\* An id that is not a node is looked up outside the try: the exception
\* leaves the call, when every flag is down.
compileRequireNodes(id) ==
  /\ vertex(g, id)
  /\ mGroupFlag' = findRequireNode(g, g.vmap[id], {})
  /\ Compile("load", id, mGroupFlag', PushFront)

compileDependentNodes(id) ==
  /\ vertex(g, id)
  /\ mGroupFlag' = findDependentNode(g, g.vmap[id], {})
  /\ Compile("unload", id, mGroupFlag', Append)

CompileUnknown(id) ==
  /\ ~vertex(g, id)
  /\ mGroupFlag' = {}
  /\ UNCHANGED <<graphvars, increment_number, answer>>

Call ==
  \/ \E id \in Ref :
       \/ addNode(id) \/ removeNode(id) \/ isNodeExist(id)
       \/ compileRequireNodes(id) \/ compileDependentNodes(id) \/ CompileUnknown(id)
  \/ \E id, require_id \in Ref :
       \/ addDependency(id, require_id) \/ removeDependency(id, require_id)
       \/ isDependencyExist(id, require_id)
  \/ clear_all
  \/ compileTopologicalOrder
  \/ compileReversedTopologicalOrder

\* A compile call returns.
TakeAnswer ==
  /\ answer # NoAnswer
  /\ answer' = NoAnswer
  /\ UNCHANGED <<graphvars, increment_number, mGroupFlag>>

SolverNext == (answer = NoAnswer /\ Call) \/ TakeAnswer

-----------------------------------------------------------------------------
\* <<a, b>>: a requires b, directly or through others.
Requires == TransitiveClosure([p \in Nodes \X Nodes |-> p \in Pairs], Nodes)

\* What an answer is about: every node, or what the node needs, or what
\* needs the node.
Expected(requires) ==
  IF answer.of = "all" THEN Nodes
  ELSE IF answer.order = "load" THEN {n \in Nodes : requires[answer.of, n]}
  ELSE {n \in Nodes : requires[n, answer.of]}

\* "sorted by load order, exclude the given node": an order is found exactly
\* when no node requires itself; it lists each node it should once, a node
\* after all it requires when loading and before them when unloading,
\* whatever was asked, added and removed before.
OrdersAreRight ==
  answer # NoAnswer =>
    LET requires == Requires
        result == answer.result
    IN /\ answer.ok <=> IsIrreflexive(requires, Nodes)
       /\ answer.ok =>
            /\ ToSet(result) = Expected(requires)
            /\ Len(result) = Cardinality(Expected(requires))
            /\ \A i, j \in DOMAIN result :
                 requires[result[i], result[j]] =>
                   IF answer.order = "load" THEN j < i ELSE i < j

=============================================================================
