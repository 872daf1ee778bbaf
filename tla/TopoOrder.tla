------------------------------ MODULE TopoOrder ------------------------------
(***************************************************************************)
(* The ranks of one scope over its whole life: nodes and edges come and    *)
(* go, edges are accepted or refused as cycles, and aborted batches leave  *)
(* their rank changes behind (graph.go rollback).                          *)
(***************************************************************************)
EXTENDS Topo

CONSTANTS
    Vertex,     \* node identifiers
    MaxOrd      \* bound on scope.nextOrd (int64 in the code)

VARIABLES
    alive,      \* the nodes in scope.index
    edges,      \* the dependency edges
    ord,        \* ord[n]: scope.ord, 0 for a node that does not exist
    nextOrd     \* scope.nextOrd

topoVars == <<alive, edges, ord, nextOrd>>
-----------------------------------------------------------------------------
\* newScope.
TopoInit ==
    /\ alive = {}
    /\ edges = {}
    /\ ord = [n \in Vertex |-> 0]
    /\ nextOrd = 1

\* create: a new node gets the next rank.  Its dependencies are added by
\* AddEdge, as linkBatch does.
AddVertex(n) ==
    /\ n \in Vertex \ alive
    /\ nextOrd < MaxOrd
    /\ alive' = alive \cup {n}
    /\ nextOrd' = nextOrd + 1
    /\ ord' = [ord EXCEPT ![n] = nextOrd + 1]
    /\ UNCHANGED edges

\* AddEdges or linkBatch, one edge: an existing edge is skipped, an edge from a
\* node to itself is refused before any search, a cycle is refused.
AddEdge(x, y) ==
    /\ x \in alive /\ y \in alive /\ x # y
    /\ <<x, y>> \notin edges
    /\ LET r == addEdgeOrder(alive, edges, ord, x, y)
       IN  /\ ~ r.cycle
           /\ ord' = r.ord
    /\ edges' = edges \cup {<<x, y>>}
    /\ UNCHANGED <<alive, nextOrd>>

\* The same edge in a batch that fails later on: rollback takes the edge back
\* and leaves the ranks as they are.
AddEdgeAborted(x, y) ==
    /\ x \in alive /\ y \in alive /\ x # y
    /\ <<x, y>> \notin edges
    /\ LET r == addEdgeOrder(alive, edges, ord, x, y)
       IN  /\ ~ r.cycle
           /\ ord' = r.ord
    /\ UNCHANGED <<alive, edges, nextOrd>>

\* unlinkEdge.
RemoveEdge(x, y) ==
    /\ <<x, y>> \in edges
    /\ edges' = edges \ {<<x, y>>}
    /\ UNCHANGED <<alive, ord, nextOrd>>

\* RemoveNode: the node goes with its edges; nobody else is renumbered.
RemoveVertex(n) ==
    /\ n \in alive
    /\ alive' = alive \ {n}
    /\ edges' = {e \in edges : e[1] # n /\ e[2] # n}
    /\ ord' = [ord EXCEPT ![n] = 0]
    /\ UNCHANGED nextOrd

TopoNext ==
    \/ \E n \in Vertex : AddVertex(n) \/ RemoveVertex(n)
    \/ \E x, y \in Vertex :
          AddEdge(x, y) \/ AddEdgeAborted(x, y) \/ RemoveEdge(x, y)

TopoSpec == TopoInit /\ [][TopoNext]_topoVars
-----------------------------------------------------------------------------
\* The invariant the fast path rests on: every edge goes up in rank, and no two nodes
\* share one.  forwardSearch depends on the latter: "a node ranked exactly ub" is taken
\* to be the source of the new edge.
RanksAreTopological ==
    /\ \A e \in edges : ord[e[1]] < ord[e[2]]
    /\ \A m, n \in alive : ord[m] = ord[n] => m = n

\* The bounded search answers exactly the question it stands for: an edge is
\* refused if and only if its target already reaches its source (G4, and
\* contract 6.2).
CycleVerdictIsExact ==
    \A x, y \in alive : x # y /\ <<x, y>> \notin edges =>
        (addEdgeOrder(alive, edges, ord, x, y).cycle <=> x \in Reach(alive, edges, y))

\* The searches' two regions never share a node, or reorder would hand one node
\* two ranks (topo.go:117 "the two regions are disjoint").
RegionsAreDisjoint ==
    \A x, y \in alive :
        x # y /\ ord[x] > ord[y] /\ ~ addEdgeOrder(alive, edges, ord, x, y).cycle =>
            forwardSearch(alive, edges, ord, y, ord[x])
                \cap backwardSearch(alive, edges, ord, x, ord[y]) = {}

\* The order is kept and the searches that keep it are exact.
OrderIsSound == RanksAreTopological /\ CycleVerdictIsExact /\ RegionsAreDisjoint
=============================================================================
