-------------------------- MODULE DependencyTally --------------------------
(***************************************************************************)
(* One node and its predecessors (storage/memory/scope.go).  The node      *)
(* keeps four counters and an edge record per predecessor, and never looks *)
(* at the predecessors again: linkEdge, markSatisfied and unlinkEdge keep  *)
(* the counters, and settle (or the loop in terminate, which makes the     *)
(* same choice) moves the node from them.  Edges come and go while         *)
(* predecessors resolve, in any order.                                     *)
(*                                                                         *)
(* The node is watched while no worker has ever held it: it is Blocked,    *)
(* Ready, or Done because its rule became unsatisfiable.                   *)
(***************************************************************************)
EXTENDS TriggerRules, FiniteSets

CONSTANT Pred       \* the nodes that may become predecessors

ASSUME PredFinite == IsFiniteSet(Pred)

VARIABLES
    trigger,        \* the node's rule, fixed when it is created
    outcome,        \* outcome[p]: "Pending", or how p's terminal status counts
    edge,           \* edge[p]: "None", or predEdge: "Waiting" / "Satisfied"
    deps,           \* the DepCounts the node carries
    phase           \* "Absent", "Blocked", "Ready" or "Done"

tallyVars == <<trigger, outcome, edge, deps, phase>>

Edge == {"None", "Waiting", "Satisfied"}

TallyTypeOK ==
    /\ trigger \in TriggerRule
    /\ outcome \in [Pred -> Tally \cup {"Pending"}]
    /\ edge \in [Pred -> Edge]
    /\ deps \in DepCounts
    /\ phase \in {"Absent", "Blocked", "Ready", "Done"}
-----------------------------------------------------------------------------
(***************************************************************************)
(* scope.go                                                                *)
(***************************************************************************)

\* linkEdge forgets that a predecessor may already be terminal.
linkCountAlwaysWaits(p) == [deps EXCEPT !.Unsatisfied = @ + 1]

\* linkEdge's tally: an edge from a terminal predecessor is born satisfied.
linkCount(p) ==
    IF outcome[p] = "Pending"
    THEN [deps EXCEPT !.Unsatisfied = @ + 1]
    ELSE [deps EXCEPT ![outcome[p]] = @ + 1]

\* unlinkEdge's tally.
unlinkCount(p) ==
    IF edge[p] = "Waiting"
    THEN [deps EXCEPT !.Unsatisfied = Less(@)]
    ELSE [deps EXCEPT ![outcome[p]] = Less(@)]

\* markSatisfied's tally for an edge that was waiting.
markCount(t) ==
    [deps EXCEPT !.Unsatisfied = Less(@), ![t] = @ + 1]

\* settle with the default case dropped: a Ready node is never blocked again.
settledStaysReady(ph, d) ==
    IF ph \notin {"Blocked", "Ready"} THEN ph
    ELSE IF Unsatisfiable(d, trigger) THEN "Done"
    ELSE IF DepsReady(d, trigger) THEN "Ready" ELSE ph

\* settle: the phase the rule implies.  A node that is Done is left alone.
settled(ph, d) ==
    IF ph \notin {"Blocked", "Ready"} THEN ph
    ELSE IF Unsatisfiable(d, trigger) THEN "Done"
    ELSE IF DepsReady(d, trigger) THEN "Ready" ELSE "Blocked"

TallyInit ==
    /\ trigger \in TriggerRule
    /\ outcome = [p \in Pred |-> "Pending"]
    /\ edge = [p \in Pred |-> "None"]
    /\ deps = NoDeps
    /\ phase = "Absent"

\* AddNodes: the node is created Blocked, an edge is linked for every declared
\* dependency (in whatever state that predecessor is by now), and settle runs
\* once, on the finished tally.
CreateNode(declared) ==
    /\ phase = "Absent"
    /\ edge' = [p \in Pred |-> IF p \notin declared THEN "None"
                               ELSE IF outcome[p] = "Pending" THEN "Waiting"
                               ELSE "Satisfied"]
    /\ LET tally(o) == Cardinality({p \in declared : outcome[p] = o})
           linked == [Unsatisfied |-> tally("Pending"),
                      Succeeded   |-> tally("Succeeded"),
                      Skipped     |-> tally("Skipped"),
                      Failed      |-> tally("Failed")]
       IN  /\ deps' = linked
           /\ phase' = settled("Blocked", linked)
    /\ UNCHANGED <<trigger, outcome>>

\* AddEdges, one edge: refused into a terminal node; settled afterwards.
Link(p) ==
    /\ edge[p] = "None"
    /\ phase \in {"Blocked", "Ready"}
    /\ edge' = [edge EXCEPT ![p] =
                  IF outcome[p] = "Pending" THEN "Waiting" ELSE "Satisfied"]
    /\ deps' = linkCount(p)
    /\ phase' = settled(phase, linkCount(p))
    /\ UNCHANGED <<trigger, outcome>>

\* RemoveEdges, one edge.
Unlink(p) ==
    /\ edge[p] # "None"
    /\ edge' = [edge EXCEPT ![p] = "None"]
    /\ deps' = unlinkCount(p)
    /\ phase' = settled(phase, unlinkCount(p))
    /\ UNCHANGED <<trigger, outcome>>

\* A predecessor terminates and terminate visits the node, if it has an edge.
\* The visit can wake or doom the node and never re-blocks it; settled says the
\* same, because a Ready node's rule stays satisfied when an edge resolves.
Resolve(p, t) ==
    /\ outcome[p] = "Pending"
    /\ outcome' = [outcome EXCEPT ![p] = t]
    /\ IF edge[p] = "Waiting"
       THEN /\ edge' = [edge EXCEPT ![p] = "Satisfied"]
            /\ deps' = markCount(t)
            /\ phase' = IF phase \notin {"Blocked", "Ready"} THEN phase
                        ELSE IF Unsatisfiable(markCount(t), trigger) THEN "Done"
                        ELSE IF DepsReady(markCount(t), trigger) THEN "Ready"
                        ELSE phase
       ELSE UNCHANGED <<edge, deps, phase>>
    /\ UNCHANGED trigger

TallyNext ==
    \/ \E declared \in SUBSET Pred : CreateNode(declared)
    \/ \E p \in Pred :
        \/ Link(p)
        \/ Unlink(p)
        \/ \E t \in Tally : Resolve(p, t)

TallySpec == TallyInit /\ [][TallyNext]_tallyVars
-----------------------------------------------------------------------------
(***************************************************************************)
(* What the counters must mean                                             *)
(***************************************************************************)

\* The predecessors that count towards each tally.
Waiting == {p \in Pred : edge[p] = "Waiting"}
Counted(t) == {p \in Pred : edge[p] = "Satisfied" /\ outcome[p] = t}

\* The counters are a recount of the edges: no sequence of linkEdge,
\* markSatisfied and unlinkEdge double-counts or loses a predecessor, and the
\* "while positive" guards on the decrements never swallow one.
DepsAreARecount ==
    /\ deps.Unsatisfied = Cardinality(Waiting)
    /\ \A t \in Tally : deps[t] = Cardinality(Counted(t))

\* A node waits only on a predecessor that has not resolved: scope.go settle
\* "stops a graph from ever containing a node that waits forever on a
\* dependency that will not resolve".
BlockedWaitsOnSomeone ==
    phase = "Blocked" => \E p \in Pred : edge[p] = "Waiting" /\ outcome[p] = "Pending"

\* G3: a node is claimable only while its rule is satisfied.
ReadyMeansRuleHolds == phase = "Ready" => DepsReady(deps, trigger)

\* The phase the counters decide is the right one: a node neither waits for nothing nor
\* is claimable too early (scope.go settle).
PhaseIsRight == BlockedWaitsOnSomeone /\ ReadyMeansRuleHolds

\* Every way the unresolved predecessors of counters d can still resolve.
Completions(d) ==
    LET Split == {x \in [Tally -> 0..d.Unsatisfied] :
                    x["Succeeded"] + x["Skipped"] + x["Failed"] = d.Unsatisfied}
    IN  {[Unsatisfied |-> 0,
          Succeeded   |-> d.Succeeded + x["Succeeded"],
          Skipped     |-> d.Skipped + x["Skipped"],
          Failed      |-> d.Failed + x["Failed"]] : x \in Split}

\* DepCounts.Unsatisfiable answers exactly "no matter how the remaining
\* predecessors resolve" (node.go:115-116) for a node that has predecessors: true when
\* every completion leaves the rule unsatisfied, false when some completion satisfies it.
DoomIsExact ==
    (\E p \in Pred : edge[p] # "None") =>
        (Unsatisfiable(deps, trigger) <=>
            /\ trigger # "Always"
            /\ \A c \in Completions(deps) : ~ DepsReady(c, trigger))
-----------------------------------------------------------------------------
(***************************************************************************)
(* What the documentation says and the code does not do                    *)
(***************************************************************************)

\* docs/spec/01-contract.md:269-270: "A node with zero predecessors is ready under every
\* rule."  Under NoneFailedMinOneSuccess it is born Done: Unsatisfiable takes no
\* predecessors for predecessors that all resolved without a success.
RootIsReady == [][CreateNode({}) => phase' = "Ready"]_tallyVars

=============================================================================
