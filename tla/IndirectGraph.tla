---------------------------- MODULE IndirectGraph ---------------------------
(***************************************************************************)
(* The indirect graph of include/utility/GraphUtil.h: a boost adjacency    *)
(* list whose vertices and edges carry a reference of the caller's, and a  *)
(* mapping from the references back to the descriptors.                    *)
(*                                                                         *)
(*   g.vertex    the vertices, with the property vertex_indirect_reference *)
(*   g.edge      the edges <<u, v, n>>, with edge_indirect_reference; n    *)
(*               tells parallel edges apart                                *)
(*   g.multi     whether the out-edge container admits parallel edges:     *)
(*               listS, as in the class's example and tests, or setS       *)
(*   g.vmap      mVertexReferenceMap                                       *)
(*   g.emap      mEdgeReferenceMap                                         *)
(*                                                                         *)
(* A call returns the graph and whether it succeeded; one that does not    *)
(* throws std::invalid_argument.  The forms of a function that take        *)
(* references and the forms that take descriptors differ in the lookup     *)
(* only.                                                                   *)
(***************************************************************************)
EXTENDS Integers, Sequences, FiniteSets, FiniteSetsExt, Functions, TLC

CONSTANTS
  Ref,                    \* vertex references
  MaxEdges                \* bound: edge references are 1..MaxEdges

VARIABLES
  g,
  asked,                  \* history: what the caller put in and has not taken out
  agreed                  \* history: the last call succeeded exactly when it should

graphvars == <<g, asked, agreed>>

Descriptor == 1..Cardinality(Ref)
Nothing == <<>>           \* the function with an empty domain
Done(gr) == [g |-> gr, ok |-> TRUE]
Throws(gr) == [g |-> gr, ok |-> FALSE]
Without(f, S) == Restrict(f, DOMAIN f \ S)

Between(gr, u, v) == {e \in DOMAIN gr.edge : e[1] = u /\ e[2] = v}
OutEdges(gr, u) == {e \in DOMAIN gr.edge : e[1] = u}
InEdges(gr, u) == {e \in DOMAIN gr.edge : e[2] = u}

-----------------------------------------------------------------------------
EmptyGraph(multi) ==
  [multi |-> multi, vertex |-> Nothing, edge |-> Nothing, vmap |-> Nothing, emap |-> Nothing]

\* The graph is copied as it is, the mapping is built again from the
\* properties of its vertices and edges.
copy(gr) == [gr EXCEPT !.vmap = AntiFunction(gr.vertex), !.emap = AntiFunction(gr.edge)]

\* A vertex added under a reference that is taken is removed again.
add_vertex(gr, ru) ==
  LET u == Min(Descriptor \ DOMAIN gr.vertex)
  IN IF ru \in DOMAIN gr.vmap
       THEN Throws(gr)
       ELSE Done([gr EXCEPT !.vertex = (u :> ru) @@ @, !.vmap = (ru :> u) @@ @])

\* boost::remove_vertex leaves the edges of the vertex alone.
remove_vertex(gr, ru) ==
  IF ru \in DOMAIN gr.vmap
    THEN Done([gr EXCEPT !.vertex = Without(@, {gr.vmap[ru]}), !.vmap = Without(@, {ru})])
    ELSE Throws(gr)

\* vertex(): whether the reference names a vertex; g.vmap[ru] is the vertex.
vertex(gr, ru) == ru \in DOMAIN gr.vmap

vertex_ref(gr, u) == gr.vertex[u]

\* Both ends must be there, the edge must be new unless the container admits
\* parallel ones, and its reference too (the edge that was added under a
\* reference that is taken is removed again).
add_edge(gr, re, ru, rv) ==
  IF ~(vertex(gr, ru) /\ vertex(gr, rv))
    THEN Throws(gr)
    ELSE LET between == Between(gr, gr.vmap[ru], gr.vmap[rv])
             e == <<gr.vmap[ru], gr.vmap[rv], Min((1..MaxEdges + 1) \ {d[3] : d \in between})>>
         IN IF (between # {} /\ ~gr.multi) \/ re \in DOMAIN gr.emap
              THEN Throws(gr)
              ELSE Done([gr EXCEPT !.edge = (e :> re) @@ @, !.emap = (re :> e) @@ @])

\* remove_edge() of a descriptor: its reference goes first.
remove_edge_at(gr, e) ==
  IF gr.edge[e] \in DOMAIN gr.emap
    THEN Done([gr EXCEPT !.emap = Without(@, {gr.edge[e]}), !.edge = Without(@, {e})])
    ELSE Throws(gr)

\* edge(): whether there is an edge between two references; boost::edge finds one
\* of them.
edge(gr, ru, rv) ==
  vertex(gr, ru) /\ vertex(gr, rv) /\ Between(gr, gr.vmap[ru], gr.vmap[rv]) # {}

Found(gr, ru, rv) ==
  IF edge(gr, ru, rv) THEN Between(gr, gr.vmap[ru], gr.vmap[rv]) ELSE {Nothing}

\* Mutant of remove_edge: boost's edge goes without its reference.
remove_edge_KeepsReference(gr, e) ==
  IF e = Nothing THEN Throws(gr)
  ELSE Done([gr EXCEPT !.edge = Without(@, Between(gr, e[1], e[2]))])

\* remove_edge() of two vertices, of which boost::edge finds e: the reference of
\* e goes from the mapping, and every edge between the two from the graph.
remove_edge(gr, e) ==
  IF e = Nothing \/ gr.edge[e] \notin DOMAIN gr.emap
    THEN Throws(gr)
    ELSE Done([gr EXCEPT !.emap = Without(@, {gr.edge[e]}),
                         !.edge = Without(@, Between(gr, e[1], e[2]))])

\* edge() of an edge reference; g.emap[re] is the edge.
edge_of(gr, re) == re \in DOMAIN gr.emap

remove_edge_ref(gr, re) ==
  IF edge_of(gr, re)
    THEN Done([gr EXCEPT !.edge = Without(@, {gr.emap[re]}), !.emap = Without(@, {re})])
    ELSE Throws(gr)

\* The edges are noted first and removed one by one, whatever that throws.
clear_edges(gr, S) == FoldSet(LAMBDA e, acc : remove_edge_at(acc, e).g, gr, S)

clear_out_edges(gr, u) == clear_edges(gr, OutEdges(gr, u))

clear_in_edges(gr, u) == clear_edges(gr, InEdges(gr, u))

clear_vertex(gr, ru) ==
  IF vertex(gr, ru)
    THEN Done(clear_in_edges(clear_out_edges(gr, gr.vmap[ru]), gr.vmap[ru]))
    ELSE Throws(gr)

-----------------------------------------------------------------------------
(***************************************************************************)
(* A caller of the library.  asked.edge is a set of <<reference, from,     *)
(* to>>; asked.stale are the references that remove_edge() of two vertices *)
(* left in the mapping when it removed parallel edges.  The caller can     *)
(* neither use such a reference again (add_edge() throws) nor remove it    *)
(* (that hands boost the descriptor of an edge that is gone).              *)
(***************************************************************************)
Nodes == asked.node
Pairs == {<<d[2], d[3]>> : d \in asked.edge}
Touching(ru) == {d \in asked.edge : ru \in {d[2], d[3]}}
Joining(ru, rv) == {d \in asked.edge : d[2] = ru /\ d[3] = rv}
Named(edges) == {d[1] : d \in edges}

GraphInit(multi) ==
  /\ g = EmptyGraph(multi)
  /\ asked = [node |-> {}, edge |-> {}, stale |-> {}]
  /\ agreed = TRUE

\* A call with the given result; it should succeed if legal, and leave the caller
\* with what then says.
Returns(result, legal, then) ==
  /\ g' = result.g
  /\ agreed' = (result.ok <=> legal)
  /\ asked' = IF legal THEN then ELSE asked

AddVertex(ru) ==
  Returns(add_vertex(g, ru), ru \notin Nodes, [asked EXCEPT !.node = @ \union {ru}])

\* boost asks its callers to clear a vertex before they remove it.
RemoveVertex(ru) ==
  LET cleared == clear_vertex(g, ru)
  IN Returns(IF cleared.ok THEN remove_vertex(cleared.g, ru) ELSE cleared, ru \in Nodes,
             [asked EXCEPT !.node = @ \ {ru}, !.edge = @ \ Touching(ru)])

AddEdge(re, ru, rv) ==
  Returns(add_edge(g, re, ru, rv),
          /\ {ru, rv} \subseteq Nodes
          /\ g.multi \/ <<ru, rv>> \notin Pairs
          /\ re \notin Named(asked.edge) \union asked.stale,
          [asked EXCEPT !.edge = @ \union {<<re, ru, rv>>}])

RemoveEdge(ru, rv) ==
  \E e \in Found(g, ru, rv) :
    Returns(remove_edge(g, e), <<ru, rv>> \in Pairs,
            [asked EXCEPT !.edge = @ \ Joining(ru, rv),
                          !.stale = @ \union (Named(Joining(ru, rv)) \ {g.edge[e]})])

RemoveEdgeRef(re) ==
  /\ re \notin asked.stale
  /\ Returns(remove_edge_ref(g, re), re \in Named(asked.edge),
             [asked EXCEPT !.edge = {d \in @ : d[1] # re}])

ClearOutEdges(ru) ==
  /\ vertex(g, ru)
  /\ Returns(Done(clear_out_edges(g, g.vmap[ru])), TRUE,
             [asked EXCEPT !.edge = {d \in @ : d[2] # ru}])

ClearInEdges(ru) ==
  /\ vertex(g, ru)
  /\ Returns(Done(clear_in_edges(g, g.vmap[ru])), TRUE,
             [asked EXCEPT !.edge = {d \in @ : d[3] # ru}])

\* The copy's mapping has no stale references.
CopyGraph == Returns(Done(copy(g)), TRUE, [asked EXCEPT !.stale = {}])

ClearGraph ==
  Returns(Done(EmptyGraph(g.multi)), TRUE, [node |-> {}, edge |-> {}, stale |-> {}])

GraphNext ==
  \/ \E ru \in Ref : AddVertex(ru) \/ RemoveVertex(ru) \/ ClearOutEdges(ru) \/ ClearInEdges(ru)
  \/ \E re \in 1..MaxEdges, ru, rv \in Ref : AddEdge(re, ru, rv)
  \/ \E ru, rv \in Ref : RemoveEdge(ru, rv)
  \/ \E re \in 1..MaxEdges : RemoveEdgeRef(re)
  \/ CopyGraph
  \/ ClearGraph

-----------------------------------------------------------------------------
\* "We provide additional helper function to maintain the relationship between the
\* reference to descriptor when adding/removing vertex/edge" (GraphUtil.h:64):
\* references and descriptors name each other both ways, no edge dangles from a
\* vertex that is gone, and graph, mapping and every call's outcome are what the
\* caller's calls add up to.  The one exception is exactly what remove_edge() of
\* two vertices joined by several edges leaves: the references of those that
\* boost::edge did not find.
GraphIsAsked ==
  /\ agreed
  /\ g.vmap = AntiFunction(g.vertex)
  /\ Without(g.emap, asked.stale) = AntiFunction(g.edge)
  /\ asked.stale \subseteq DOMAIN g.emap
  /\ DOMAIN g.vmap = Nodes /\ Cardinality(DOMAIN g.vertex) = Cardinality(Nodes)
  /\ \A e \in DOMAIN g.edge : {e[1], e[2]} \subseteq DOMAIN g.vertex
  /\ asked.edge = {<<g.edge[e], g.vertex[e[1]], g.vertex[e[2]]>> : e \in DOMAIN g.edge}

=============================================================================
