---------------------------- MODULE MCMemoryScope ----------------------------
(* Small instances of MemoryScope. *)
EXTENDS MemoryScope

OneAttempt == [attempts |-> 1, inFlight |-> 0]

spec(id, trigger, deps) ==
    [id |-> id, trigger |-> trigger, deps |-> deps, kind |-> "", priority |-> 0, attempts |-> 0]

\* Three nodes; c may join in one of several shapes.
GraphNode == {"a", "b", "c"}
GraphNodeBatches ==
    {<<spec("a", "AllSuccess", <<>>)>>,
     <<spec("b", "AllSuccess", <<"a">>)>>,
     <<spec("a", "AllSuccess", <<>>), spec("c", "AllDone", <<"b", "a">>)>>}
GraphEdgeBatches == {<<<<"c", "b">>>>, <<<<"b", "c">>, <<"c", "a">>>>}
GraphCutBatches == {<<<<"a", "b">>>>, <<<<"a", "c">>>>}

\* Two independent nodes, the second of higher priority, another kind and no retry.
LeaseNode == {"a", "b"}
LeaseNodeBatches ==
    {<<spec("a", "AllSuccess", <<>>)>>,
     <<[spec("b", "AllSuccess", <<>>) EXCEPT !.kind = "x", !.priority = 1, !.attempts = 1]>>}
LeaseCancels == {<<"a", "b">>}
TwoAttempts == [attempts |-> 2, inFlight |-> 0]
OneInFlight == {[attempts |-> 1, inFlight |-> 1]}
LeaseKinds == {{}, {"x"}}

\* A diamond with a different rule at each join.
JoinNode == {"a", "b", "c", "d"}
JoinNodeBatches ==
    {<<spec("a", "AllSuccess", <<>>), [spec("b", "AllSuccess", <<"a">>) EXCEPT !.attempts = 2],
       spec("c", "AllDone", <<"a">>), spec("d", trigger, <<"b", "c">>)>> :
        trigger \in {"NoneFailed", "NoneFailedMinOneSuccess", "Always"}}
DrainPolicy == [attempts |-> 1, inFlight |-> 1]

\* One batch per node; b depends on a, c on b.
ChainNodeBatches ==
    {<<spec("a", "AllSuccess", <<>>)>>, <<spec("b", "AllSuccess", <<"a">>)>>,
     <<spec("c", "AllSuccess", <<"b">>)>>}
ChainCuts == {<<<<"a", "b">>, <<"c", "b">>>>}
PairNodeBatches == {<<spec("a", "AllSuccess", <<>>)>>, <<spec("b", "AllSuccess", <<>>)>>}
PairEdges == {<<<<"a", "b">>>>}
=============================================================================
