-------------------------------- MODULE MCCore --------------------------------
(***************************************************************************)
(* The three specifications the backends are measured against, side by     *)
(* side: the lease protocol of one scope, the dependency counters of one   *)
(* node, and the ranks of one graph.  They share no state, and a behaviour *)
(* is one of one of them, chosen at the start; the others stay where they  *)
(* begin.                                                                  *)
(*                                                                         *)
(* Two identifiers and epochs up to 3 are enough for a node to be deleted, *)
(* re-created and claimed again while an old lease is in a worker's hands. *)
(* Four predecessors give every rule every mix of outcomes.  Five nodes    *)
(* and two spare ranks give ranks with gaps and every affected region on   *)
(* five nodes.                                                             *)
(***************************************************************************)
EXTENDS LeaseProtocol, DependencyTally, TopoOrder, TLC

VARIABLE part

coreVars == <<vars, tallyVars, topoVars, part>>

CoreInit ==
    /\ part \in {"leases", "tally", "order"}
    /\ Init /\ TallyInit /\ TopoInit
    /\ part # "tally" => trigger = "AllSuccess"

CoreNext ==
    \/ part = "leases" /\ Next /\ UNCHANGED <<tallyVars, topoVars, part>>
    \/ part = "tally" /\ TallyNext /\ UNCHANGED <<vars, topoVars, part>>
    \/ part = "order" /\ TopoNext /\ UNCHANGED <<vars, tallyVars, part>>

CoreSpec == CoreInit /\ [][CoreNext]_coreVars

Symmetry == Permutations(Vertex)
=============================================================================
