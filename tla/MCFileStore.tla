----------------------------- MODULE MCFileStore -----------------------------
(* Small instances of FileStore. *)
EXTENDS FileStore

TwoAttempts == [attempts |-> 2, inFlight |-> 0]

spec(id, deps) ==
    [id |-> id, trigger |-> "AllSuccess", deps |-> deps, kind |-> "", priority |-> 0,
     attempts |-> 0]

\* The second batch is refused and rolled back, because c is never added; if a is there,
\* its rank has changed by then.
CallRequests ==
    {[op |-> "AddNodes", specs |-> <<spec("a", <<>>)>>],
     [op |-> "AddNodes", specs |-> <<spec("b", <<>>), spec("a", <<"b", "c">>)>>],
     [op |-> "RemoveNode", node |-> "a", policy |-> "Detach"],
     [op |-> "Cancel", ids |-> <<"a">>],
     [op |-> "Claim", kinds |-> {}, max |-> 1],
     [op |-> "Sweep"]}

\* A Cancel that is refused after it cancelled a.
HalfCancel ==
    {[op |-> "AddNodes",
      specs |-> <<spec("a", <<>>), [spec("b", <<"a">>) EXCEPT !.trigger = "AllDone"]>>],
     [op |-> "Cancel", ids |-> <<"a", "c">>],
     [op |-> "Claim", kinds |-> {}, max |-> 1]}

\* A CancelScope that a replay may walk in another order.
WholeCancel ==
    {[op |-> "AddNodes", specs |-> <<spec("a", <<>>), spec("b", <<"a">>)>>],
     [op |-> "CancelScope"]}
=============================================================================
