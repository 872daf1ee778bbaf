---------------------------- MODULE MCRedisScope ----------------------------
(* Small instances of RedisScope. *)
EXTENDS RedisScope

RedisId == {"a", "b", "c", "d", "e"}
Forth == <<"a", "b", "c", "d", "e">>
BothWays == {Forth, Reverse(Forth)}

def(trigger, priority) == [trigger |-> trigger, kind |-> "", priority |-> priority, attempts |-> 0]
spec(id, trigger, deps) == [id |-> id, def |-> def(trigger, 0), deps |-> deps]

node(trigger, priority, ord) ==
    [def |-> def(trigger, priority), phase |-> "Blocked", status |-> "New", reason |-> "None",
     attempt |-> 0, epoch |-> 0, ord |-> ord, fifo |-> 0, deps |-> NoDeps, expired |-> FALSE,
     due |-> FALSE, aged |-> FALSE]
claimedNode(n) == [n EXCEPT !.phase = "Claimed", !.status = "InProgress", !.epoch = 1, !.attempt = 1]
readyNode(n) == [n EXCEPT !.phase = "Ready"]
cancelledNode(n) == [n EXCEPT !.phase = "Done", !.status = "Error", !.reason = "Cancelled",
                             !.aged = TRUE]
waiting(n, count) == [n EXCEPT !.deps.Unsatisfied = count]

\* Keys with these nodes and these edges, none of them resolved; fifo lists the ready nodes.
keys(nodes, edges, fifo, cfg) ==
    [node |-> [i \in DOMAIN nodes |->
                 IF i \in ToSet(fifo) THEN [nodes[i] EXCEPT !.fifo = CHOOSE j \in DOMAIN fifo : fifo[j] = i]
                 ELSE nodes[i]],
     pred |-> [i \in RedisId |-> [p \in {e[1] : e \in {f \in edges : f[2] = i}} |-> FALSE]],
     succ |-> [i \in RedisId |-> {e[2] : e \in {f \in edges : f[1] = i}}],
     ready |-> [i \in ToSet(fifo) |->
                  packScore(nodes[i].def.priority, CHOOSE j \in DOMAIN fifo : fifo[j] = i)],
     sched |-> {}, leases |-> {i \in DOMAIN nodes : nodes[i].phase = "Claimed"},
     stats |-> <<>>, floor |-> 0, cfg |-> cfg,
     nextOrd |-> Cardinality(DOMAIN nodes), nextFifo |-> Len(fifo)]

Two == [attempts |-> 2, inFlight |-> 0, sealed |-> FALSE]
Narrow == [attempts |-> 0, inFlight |-> 1, sealed |-> FALSE]

\* a is held; b and c wait for it; d, which waited for b, was cancelled long ago.
Held == keys([a |-> claimedNode(node("AllSuccess", 0, 1)), b |-> waiting(node("AllSuccess", 0, 2), 1),
              c |-> waiting(node("AllDone", 0, 3), 1), d |-> waiting(cancelledNode(node("AllSuccess", 0, 4)), 1)],
             {<<"a", "b">>, <<"a", "c">>, <<"b", "d">>}, <<>>, Two)
\* a and the more urgent b are ready; c waits for both.
Open == keys([a |-> readyNode(node("AllSuccess", 0, 1)), b |-> readyNode(node("AllSuccess", 1, 2)),
              c |-> waiting(node("NoneFailed", 0, 3), 2)],
             {<<"a", "c">>, <<"b", "c">>}, <<"a", "b">>, Narrow)

Edits ==
    {[op |-> "AddNodes", specs |-> <<spec("e", "AllSuccess", <<"a">>), spec("b", "AllSuccess", <<"e">>)>>],
     [op |-> "AddNodes", specs |-> <<spec("e", "AllSuccess", <<>>), spec("a", "Always", <<>>)>>],
     [op |-> "AddEdges", edges |-> <<<<"d", "b">>, <<"c", "b">>>>],
     [op |-> "AddEdges", edges |-> <<<<"b", "c">>, <<"b", "a">>>>],
     [op |-> "RemoveEdges", edges |-> <<<<"a", "c">>, <<"a", "b">>>>],
     [op |-> "RemoveNode", id |-> "a", policy |-> "Detach"],
     [op |-> "RemoveNode", id |-> "a", policy |-> "Fail"],
     [op |-> "RemoveNode", id |-> "d", policy |-> "Reject"],
     [op |-> "Cancel", ids |-> <<"c", "a">>],
     [op |-> "Cancel", ids |-> <<"b", "e">>],
     [op |-> "CancelScope"], [op |-> "Sweep"], [op |-> "Seal"],
     [op |-> "SetScopeConfig", cfg |-> [attempts |-> 1, inFlight |-> 1]]}
NoLease == <<"", 0>>
Work ==
    {[op |-> "Complete", lease |-> NoLease, outcome |-> o] : o \in {"Success", "Skip", "Fail"}} \cup
    {[op |-> "Extend", lease |-> NoLease],
     [op |-> "Claim", kinds |-> {}, max |-> 1, cap |-> 0],
     [op |-> "CollectTerminal", limit |-> 1, ids |-> <<>>]}

RedisClient == {"editor", "worker"}
RedisMenu == [editor |-> Edits, worker |-> Work]
RedisCalls == [editor |-> 1, worker |-> 3]
RedisSeeds == {Held, Open}

\* d is collected and made anew, on its own this time; then b is removed.
RecycleMenu ==
    [editor |-> {[op |-> "CollectTerminal", limit |-> 1, ids |-> <<>>],
                 [op |-> "AddNodes", specs |-> <<spec("d", "AllSuccess", <<>>)>>],
                 [op |-> "RemoveNode", id |-> "b", policy |-> "Fail"]}]
RecycleCalls == [editor |-> 3]
RecycleSeeds == {Held}
=============================================================================
