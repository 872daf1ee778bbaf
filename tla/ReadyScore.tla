------------------------------ MODULE ReadyScore ------------------------------
(***************************************************************************)
(* The score under which the Redis backend files a ready node: one number  *)
(* per node in a sorted set, of which a claim takes the lowest.            *)
(***************************************************************************)
EXTENDS Integers

CONSTANTS
    PriorityBias,       \* 32768 in the code: priorities are -Bias..Bias-1 (int16)
    FifoScale           \* 2^32 in the code: arrival numbers stay below it

ASSUME ScaleAssumption == PriorityBias \in Nat \ {0} /\ FifoScale \in Nat \ {0}

\* Priority and arrival weighed together the wrong way round.
packScoreUnscaled(priority, fifo) == (2 * PriorityBias - 1 - (priority + PriorityBias)) + fifo

\* packScore: one number that sorts by priority, highest first, then by arrival.
packScore(priority, fifo) ==
    (2 * PriorityBias - 1 - (priority + PriorityBias)) * FifoScale + fifo
=============================================================================
