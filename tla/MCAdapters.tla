------------------------------ MODULE MCAdapters ------------------------------
(***************************************************************************)
(* What stands between a client and the engine, side by side: a remote     *)
(* worker and its lease (RemoteWorker), and the daemon with the requests   *)
(* its adapters have in flight (Daemon).  They share no state, and a       *)
(* behaviour is one of one of them, chosen at the start; the other stays   *)
(* where it begins, where none of its fair actions can happen.             *)
(***************************************************************************)
EXTENDS RemoteWorker, Daemon

VARIABLE part

\* Two workers of different kinds compete for one node.
Pairings == {<<"grpc", "http">>, <<"grpc", "typed">>, <<"http", "typed">>}
Handles == {<<"http", "http">>}

\* Two requests at a time, of every kind.
Pairs == {<<"sse", "watch">>, <<"poll", "claim">>}

AdaptersInit ==
    /\ part \in {"worker", "daemon"}
    /\ Init /\ DaemonInit
    /\ part # "worker" => proto = CHOOSE p \in Protos : TRUE
    /\ part # "daemon" => grace = "long" /\ store = "redis" /\ kind = CHOOSE k \in Kinds : TRUE

AdaptersNext ==
    \/ part = "worker" /\ Next /\ UNCHANGED <<daemonVars, part>>
    \/ part = "daemon" /\ DaemonNext /\ UNCHANGED <<vars, part>>

AdaptersSpec ==
    /\ AdaptersInit /\ [][AdaptersNext]_<<vars, daemonVars, part>>
    /\ Fairness /\ DaemonFairness
=============================================================================
