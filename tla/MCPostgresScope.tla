--------------------------- MODULE MCPostgresScope ---------------------------
(* Small instances of PostgresScope. *)
EXTENDS PostgresScope

def(trigger, attempts) == [trigger |-> trigger, kind |-> "", priority |-> 0, attempts |-> attempts]
spec(id, trigger, deps) == [id |-> id, def |-> def(trigger, 0), deps |-> deps]
row(name, trigger, rank) == NewRow(spec(name, trigger, <<>>), 0, rank)
waiting(r, preds) == [r EXCEPT !.preds = preds, !.deps.Unsatisfied = Cardinality(DOMAIN preds)]
claimedRow(r) == [r EXCEPT !.phase = "Claimed", !.status = "InProgress", !.epoch = 1, !.attempt = 1]
cancelledRow(r) == [r EXCEPT !.phase = "Done", !.status = "Error", !.reason = "Cancelled", !.aged = TRUE]
readyRow(r) == [r EXCEPT !.phase = "Ready"]

seed(rows, fifo, cfg) == [rows |-> rows, line |-> fifo, cfg |-> cfg, floor |-> 0]
Two == [attempts |-> 2, inFlight |-> 0]

\* a is held and b and c wait for it; d was cancelled long ago.
Held == seed(<<claimedRow(row("a", "AllSuccess", 1)),
               waiting(row("b", "AllSuccess", 2), (1 :> FALSE)),
               waiting(row("c", "AllDone", 3), (1 :> FALSE)),
               cancelledRow(row("d", "AllSuccess", 4))>>, <<>>, Two)
\* a is ready; b waits for it and c for both.
Open == seed(<<readyRow(row("a", "AllSuccess", 1)),
               waiting(row("b", "AllSuccess", 2), (1 :> FALSE)),
               waiting(row("c", "AllDone", 3), (1 :> FALSE) @@ (2 :> FALSE))>>, <<1>>, Two)

\* x was cancelled; a and b are ready, b whatever becomes of its dependencies.
Spent == seed(<<cancelledRow(row("x", "AllSuccess", 1)),
                readyRow(row("a", "AllSuccess", 2)),
                readyRow(row("b", "AllDone", 3))>>, <<2, 3>>, Two)
\* Two ready nodes in a scope that takes one at a time.
Narrow == seed(<<readyRow(row("a", "AllSuccess", 1)), readyRow(row("b", "AllSuccess", 2))>>,
               <<1, 2>>, [attempts |-> 1, inFlight |-> 1])
\* a succeeded long ago, at its first attempt.
Old == seed(<<[claimedRow(row("a", "AllSuccess", 1)) EXCEPT
                 !.phase = "Done", !.status = "Success", !.aged = TRUE]>>, <<>>, Two)

edge(f, t) == [from |-> f, to |-> t]
NoLease == <<"", 0>>
Edits ==
    {[op |-> "AddNodes", specs |-> <<spec("e", "AllSuccess", <<"a">>), spec("b", "AllSuccess", <<"e">>)>>],
     [op |-> "AddNodes", specs |-> <<spec("e", "AllSuccess", <<>>), spec("a", "Always", <<>>)>>],
     [op |-> "AddEdges", edges |-> <<edge("d", "b"), edge("c", "b")>>],
     [op |-> "AddEdges", edges |-> <<edge("b", "c"), edge("b", "a")>>],
     [op |-> "RemoveEdges", edges |-> <<edge("a", "c"), edge("a", "b")>>],
     [op |-> "RemoveNode", id |-> "a", policy |-> "Detach"],
     [op |-> "RemoveNode", id |-> "a", policy |-> "Fail"],
     [op |-> "RemoveNode", id |-> "d", policy |-> "Reject"],
     [op |-> "Cancel", ids |-> <<"c", "a">>],
     [op |-> "Cancel", ids |-> <<"b", "e">>],
     [op |-> "CancelScope"], [op |-> "Sweep"], [op |-> "Seal"],
     [op |-> "SetScopeConfig", cfg |-> [attempts |-> 1, inFlight |-> 1]]}
Work ==
    {[op |-> "Complete", lease |-> NoLease, outcome |-> o] : o \in {"Success", "Failure"}} \cup
    {[op |-> "Extend", lease |-> NoLease], [op |-> "Claim", kinds |-> {}, max |-> 2],
     [op |-> "CollectTerminal", limit |-> 1]}

PgName == {"a", "b", "c", "d", "e"}
PgClient == {"editor", "worker"}
PgMenu == [editor |-> Edits, worker |-> Work]
PgCalls == [editor |-> 1, worker |-> 2]
PgSeeds == {Held, Open}

SettleMenu == [editor |-> {[op |-> "AddEdges", edges |-> <<edge("x", "a"), edge("a", "b")>>]},
               worker |-> {[op |-> "Sweep"]}]
SettleSeeds == {Spent}
OneCall == [editor |-> 1, worker |-> 1]

ClaimMenu == [c \in PgClient |-> {[op |-> "Claim", kinds |-> {}, max |-> 1]}]
ClaimSeeds == {Narrow}

RecycleMenu ==
    [editor |-> {[op |-> "CollectTerminal", limit |-> 1],
                 [op |-> "AddNodes", specs |-> <<spec("a", "AllSuccess", <<>>)>>]},
     worker |-> {[op |-> "Claim", kinds |-> {}, max |-> 1]}]
RecycleSeeds == {Old}
RecycleCalls == [editor |-> 2, worker |-> 1]

SealMenu == [editor |-> {[op |-> "AddNodes", specs |-> <<spec("b", "AllSuccess", <<>>)>>]},
             worker |-> {[op |-> "Seal"]}]
SealSeeds == {Old}
=============================================================================
