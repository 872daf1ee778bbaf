---------------------------- MODULE TriggerRules ----------------------------
(***************************************************************************)
(* The trigger rules of node.go: what a node's four dependency counters    *)
(* say about it.  A node is never told which predecessor did what; the     *)
(* whole decision is made from how many predecessors are unresolved, how   *)
(* many succeeded, how many were skipped and how many failed.              *)
(***************************************************************************)
EXTENDS Naturals

\* node.go TriggerRule.  The zero value is AllSuccess.
TriggerRule ==
    {"AllSuccess", "AllDone", "NoneFailed", "NoneFailedMinOneSuccess", "Always"}

\* node.go DepCounts.
DepCounts ==
    [Unsatisfied : Nat, Succeeded : Nat, Skipped : Nat, Failed : Nat]

NoDeps == [Unsatisfied |-> 0, Succeeded |-> 0, Skipped |-> 0, Failed |-> 0]

\* How a resolved predecessor counts: the three tallies besides Unsatisfied.
Tally == {"Succeeded", "Skipped", "Failed"}

\* DepCounts.Ready: may the node be claimed now?
DepsReady(d, rule) ==
    \/ rule = "Always"
    \/ /\ d.Unsatisfied = 0
       /\ \/ rule = "AllSuccess" /\ d.Failed = 0 /\ d.Skipped = 0
          \/ rule = "AllDone"
          \/ rule = "NoneFailed" /\ d.Failed = 0
          \/ rule = "NoneFailedMinOneSuccess" /\ d.Failed = 0 /\ d.Succeeded > 0

\* Unsatisfiable with NoneFailed taking a skip for a failure.
UnsatisfiableBySkip(d, rule) ==
    \/ rule \in {"AllSuccess", "NoneFailed"} /\ (d.Failed > 0 \/ d.Skipped > 0)
    \/ /\ rule = "NoneFailedMinOneSuccess"
       /\ d.Failed > 0 \/ (d.Unsatisfied = 0 /\ d.Succeeded = 0)

\* DepCounts.Unsatisfiable: can no future outcome make the node claimable?
Unsatisfiable(d, rule) ==
    \/ rule = "AllSuccess" /\ (d.Failed > 0 \/ d.Skipped > 0)
    \/ rule = "NoneFailed" /\ d.Failed > 0
    \/ /\ rule = "NoneFailedMinOneSuccess"
       /\ d.Failed > 0 \/ (d.Unsatisfied = 0 /\ d.Succeeded = 0)

\* DepCounts.TerminalReason: the reason an unsatisfiable node is given.
TerminalReason(d) == IF d.Failed > 0 THEN "UpstreamFailed" ELSE "Skipped"

\* The tally a terminal predecessor belongs to (scope.go markSatisfied,
\* linkEdge and unlinkEdge make the same three-way choice).
TallyOf(status, reason) ==
    IF status = "Success" THEN "Succeeded"
    ELSE IF reason = "Skipped" THEN "Skipped" ELSE "Failed"

\* A counter is decremented only while it is positive (scope.go).
Less(n) == IF n > 0 THEN n - 1 ELSE 0
=============================================================================
