-------------------------------- MODULE Topo --------------------------------
(***************************************************************************)
(* storage/memory/topo.go: Pearce and Kelly's incremental topological      *)
(* order.  Each node has a distinct rank, and every edge goes up in rank.  *)
(* A new edge that already goes up is free; one that goes down triggers    *)
(* two bounded searches and a permutation of the ranks they visited.       *)
(*                                                                         *)
(* A graph is a set of edges <<from, to>>; ord is the rank function.  The  *)
(* order in which the depth-first searches visit their regions is left     *)
(* out: reorder sorts each region by rank before it uses it.               *)
(***************************************************************************)
EXTENDS Naturals, FiniteSets

\* The nodes N that relation R leads to from x, x included: the least set that
\* holds x and is closed under R.
Reach(N, R, x) ==
    {n \in N : \A S \in SUBSET N :
        (x \in S /\ \A e \in R : e[1] \in S => e[2] \in S) => n \in S}

\* forwardSearch bounded one rank too tightly.
forwardSearchTooTight(N, edges, ord, y, ub) ==
    Reach(N, {e \in edges : ord[e[2]] + 1 < ub}, y)

\* forwardSearch: everything reachable from y through nodes ranked below ub.
forwardSearch(N, edges, ord, y, ub) ==
    Reach(N, {e \in edges : ord[e[2]] < ub}, y)

\* The forward search meets a node ranked exactly ub, which can only be the
\* new edge's source: y already reaches it.
searchMeets(edges, ord, region, ub) ==
    \E e \in edges : e[1] \in region /\ ord[e[2]] = ub

\* backwardSearch: everything that reaches x through nodes ranked above lb.
backwardSearch(N, edges, ord, x, lb) ==
    Reach(N, {<<e[2], e[1]>> : e \in {f \in edges : ord[f[1]] > lb}}, x)

\* The k-th smallest number of a finite set.
KthSmallest(pool, k) ==
    CHOOSE v \in pool : Cardinality({u \in pool : u <= v}) = k

\* reorder: the ranks the two regions occupy are handed out again, in order,
\* first to deltaB and then to deltaF, each region keeping its own order.
reorder(ord, deltaB, deltaF) ==
    LET pool == {ord[n] : n \in deltaB \cup deltaF}
        upTo(region, n) == Cardinality({m \in region : ord[m] <= ord[n]})
    IN  [n \in DOMAIN ord |->
            IF n \in deltaB THEN KthSmallest(pool, upTo(deltaB, n))
            ELSE IF n \in deltaF
                 THEN KthSmallest(pool, Cardinality(deltaB) + upTo(deltaF, n))
            ELSE ord[n]]

\* addEdgeOrder: the ranks after making room for x -> y, or the news that the
\* edge would close a cycle (the ranks are then untouched).
addEdgeOrder(N, edges, ord, x, y) ==
    IF ord[x] < ord[y] THEN [ord |-> ord, cycle |-> FALSE]
    ELSE LET deltaF == forwardSearch(N, edges, ord, y, ord[x])
         IN  IF searchMeets(edges, ord, deltaF, ord[x])
             THEN [ord |-> ord, cycle |-> TRUE]
             ELSE [ord |-> reorder(ord, backwardSearch(N, edges, ord, x, ord[y]), deltaF),
                   cycle |-> FALSE]
=============================================================================
