------------------------------- MODULE MCStreams -------------------------------
(***************************************************************************)
(* The two ways an event reaches a subscriber, side by side: through the   *)
(* Manager from the in-memory log (Subscriptions), and through a durable   *)
(* watch on PostgreSQL or Redis (DurableWatch).  They share no state, and  *)
(* a behaviour is one of one of them, chosen at the start; the other stays *)
(* where it begins, where none of its fair actions can happen.             *)
(***************************************************************************)
EXTENDS Subscriptions, DurableWatch, SequencesExt

VARIABLE part

\* Record is appendLog once for every effect.
ASSUME RecordIsRepeatedAppend ==
    \A cap \in 1..4, first \in 1..2 : \A len \in 0..(2 * cap - 1), k \in 1..(3 * cap + 1) :
        LET newest == first + len - 1
            after == FoldLeft(LAMBDA l, i : appendLog(l, cap),
                              [cursor |-> newest, logStart |-> first], [i \in 1..k |-> i])
        IN  after = [cursor |-> newest + k, logStart |-> newest + k + 1 - kept(len + k, cap)]

\* A subscription of either tier and with either overflow policy.
AllOptions == [durable : BOOLEAN, slow : BOOLEAN]
DurableOnly == {[durable |-> TRUE, slow |-> FALSE]}

StreamsInit ==
    /\ part \in {"subscription", "watch"}
    /\ Init /\ WatchInit
    /\ part # "subscription" => opts = [s \in Sub |-> CHOOSE o \in Options : TRUE]
    /\ part # "watch" => backend = "redis"

StreamsNext ==
    \/ part = "subscription" /\ Next /\ UNCHANGED <<watchVars, part>>
    \/ part = "watch" /\ WatchNext /\ UNCHANGED <<vars, part>>

StreamsSpec ==
    /\ StreamsInit /\ [][StreamsNext]_<<vars, watchVars, part>>
    /\ Fairness /\ WatchFairness
=============================================================================
