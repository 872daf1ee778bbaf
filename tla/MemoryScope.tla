----------------------------- MODULE MemoryScope -----------------------------
(***************************************************************************)
(* One scope of the in-memory backend (storage/memory).  Every operation   *)
(* of the storage port runs under the scope's lock, so each is one action. *)
(* An operation that fails without changing the scope is a stuttering step *)
(* and has no action of its own; one that fails after it changed something *)
(* is modelled to the end.                                                 *)
(***************************************************************************)
EXTENDS ScopeCommands

CONSTANTS
    NodeBatches,    \* AddNodes arguments: sequences of specs
    EdgeBatches,    \* AddEdges arguments: sequences of <<from, to>>
    CutBatches,     \* RemoveEdges arguments
    CancelBatches,  \* Cancel arguments: sequences of identifiers
    Policies,       \* CascadePolicy values RemoveNode is called with
    Outcomes,       \* what workers report: "Success", "Fail", "Skip"
    KindSets,       \* ClaimRequest.Kinds; the empty set means any kind
    ClaimSizes,     \* ClaimRequest.Max
    LeaseRequests,  \* lease durations Claim asks for, 0 for the default
    ExtendRequests, \* lease durations Extend asks for
    Policy,         \* the store's default policy: [attempts, inFlight], the fields
                    \* MaxAttempts and MaxInFlight (0 for no limit) of ScopeConfig
    NewPolicies,    \* policies SetScopeConfig is called with
    CollectLimits,  \* CollectTerminal's limits, 0 for its default
    MaxEpoch,       \* bound on the fencing epoch (uint64 in the code)
    MaxOrd          \* bound on the ranks handed out (int64 in the code)

ASSUME PolicyBounds == \A p \in {Policy} \cup NewPolicies :
                          p.attempts \in Nat \ {0} /\ p.inFlight \in Nat

\* The calls name nodes, edges between nodes, and times and sizes that are numbers.
ASSUME CallsAreTyped ==
    /\ NodeBatches \subseteq Seq(NodeSpec)
    /\ EdgeBatches \cup CutBatches \subseteq Seq(Node \X Node)
    /\ CancelBatches \subseteq Seq(Node)
    /\ Outcomes \subseteq {"Success", "Fail", "Skip"}
    /\ ClaimSizes \cup LeaseRequests \cup ExtendRequests \subseteq Nat
    /\ MaxEpoch \in Nat /\ MaxOrd \in Nat

VARIABLES
    scope,          \* the scope record (ScopeOps!EmptyScope lists its fields)
    granted,        \* history: every lease Claim returned, as <<node, epoch>>
    accepted        \* history: every lease whose Complete was accepted

vars == <<scope, granted, accepted>>
-----------------------------------------------------------------------------
(***************************************************************************)
(* The operations                                                          *)
(***************************************************************************)
Init ==
    /\ scope = EmptyScope(Policy)
    /\ granted = {}
    /\ accepted = {}

AddNodes(specs) ==
    /\ ~ scope.sealed
    /\ scope.nextOrd + Len(specs) <= MaxOrd
    /\ scope' = finishBatch(addNodesBatch(scope, specs))
    /\ UNCHANGED <<granted, accepted>>

\* Not refused by a seal: only new nodes are.
AddEdges(es) ==
    /\ scope' = finishBatch(addEdgesBatch(scope, es))
    /\ UNCHANGED <<granted, accepted>>

RemoveEdges(es) ==
    /\ scope' = finishCut(cutEdgesBatch(scope, es))
    /\ UNCHANGED <<granted, accepted>>

RemoveNode(n, policy) ==
    /\ removable(scope, n, policy)
    /\ scope' = removed(scope, n, policy)
    /\ UNCHANGED <<granted, accepted>>

Cancel(ids) ==
    /\ scope' = cancelled(scope, ids)
    /\ UNCHANGED <<granted, accepted>>

CancelScope ==
    /\ scope' \in scopeCancelled(scope)
    /\ UNCHANGED <<granted, accepted>>

Seal ==
    /\ scope' = [scope EXCEPT !.sealed = TRUE]
    /\ UNCHANGED <<granted, accepted>>

\* SetScopeConfig: at any time, whatever is in flight.
SetScopeConfig(cfg) ==
    /\ scope' = [scope EXCEPT !.cfg = cfg]
    /\ UNCHANGED <<granted, accepted>>

Claim(kinds, want, req) ==
    /\ \E c \in claimed(scope, kinds, want, req) :
          /\ \A l \in c.leases : l[2] <= MaxEpoch
          /\ scope' = c.s
          /\ granted' = granted \cup c.leases
    /\ UNCHANGED accepted

\* A worker presents a lease it was granted, however long ago.
Complete(n, e, outcome) ==
    /\ <<n, e>> \in granted
    /\ fence(scope, n, e)
    /\ scope' \in completed(scope, n, outcome)
    /\ accepted' = accepted \cup {<<n, e>>}
    /\ UNCHANGED granted

Extend(n, e, req) ==
    /\ <<n, e>> \in granted
    /\ fence(scope, n, e)
    /\ scope' = [scope EXCEPT !.deadline[n] = ClampLease(req)]
    /\ UNCHANGED <<granted, accepted>>

Sweep(limit) ==
    /\ scope' \in swept(scope, limit)
    /\ UNCHANGED <<granted, accepted>>

CollectTerminal(limit) ==
    /\ scope' \in collected(scope, limit)
    /\ UNCHANGED <<granted, accepted>>

\* The store's clock: one tick off every timer, one tick onto every age.
Tick ==
    /\ scope' = [scope EXCEPT
          !.deadline = [n \in Node |-> Less(@[n])],
          !.readyAt = [n \in Node |-> Less(@[n])],
          !.age = [n \in Node |-> IF scope.phase[n] = "Done" /\ @[n] < Retention
                                  THEN @[n] + 1 ELSE @[n]]]
    /\ UNCHANGED <<granted, accepted>>

Next ==
    \/ \E specs \in NodeBatches : AddNodes(specs)
    \/ \E es \in EdgeBatches : AddEdges(es)
    \/ \E es \in CutBatches : RemoveEdges(es)
    \/ \E n \in Node, policy \in Policies : RemoveNode(n, policy)
    \/ \E ids \in CancelBatches : Cancel(ids)
    \/ CancelScope
    \/ Seal
    \/ \E cfg \in NewPolicies : SetScopeConfig(cfg)
    \/ \E kinds \in KindSets, want \in ClaimSizes, req \in LeaseRequests : Claim(kinds, want, req)
    \/ \E l \in granted, outcome \in Outcomes : Complete(l[1], l[2], outcome)
    \/ \E l \in granted, req \in ExtendRequests : Extend(l[1], l[2], req)
    \/ Sweep(SweepBatch)
    \/ \E limit \in CollectLimits : CollectTerminal(limit)
    \/ Tick

Spec == Init /\ [][Next]_vars

\* Some worker keeps asking for work of any kind, the maintenance loop keeps
\* sweeping (manager.go maintain), and time passes.  Nothing is assumed of a worker
\* that holds a lease: it may never be heard of again.
Fairness ==
    /\ WF_vars(\E req \in LeaseRequests : Claim({}, 1, req))
    /\ WF_vars(Sweep(SweepBatch))
    /\ WF_vars(Tick)

FairSpec == Spec /\ Fairness
-----------------------------------------------------------------------------
(***************************************************************************)
(* Properties                                                              *)
(***************************************************************************)
TypeOK ==
    /\ \A n \in Node :
          /\ scope.phase[n] \in Phase /\ scope.status[n] \in Status
          /\ scope.reason[n] \in Reason
          /\ scope.deps[n] \in DepCounts
          /\ DOMAIN scope.pred[n] \subseteq Node
          /\ Range(scope.succ[n]) \subseteq Node
          /\ scope.epoch[n] \in 0..MaxEpoch /\ scope.attempt[n] \in Nat
          /\ scope.deadline[n] \in 0..MaxLease /\ scope.readyAt[n] \in 0..RetryMax
    /\ scope.epochFloor \in 0..MaxEpoch
    /\ granted \subseteq Node \X (1..MaxEpoch) /\ accepted \subseteq granted

\* How many nodes each of ScopeStats' counters should say there are.
Recount(b) ==
    Cardinality(IF b = "Total" THEN Alive(scope)
                ELSE {n \in Alive(scope) : bucket(scope, n) = b})

\* ScopeStats never scans: its counters are kept by leaveBucket and enterBucket
\* on every path, rollback and cascade included, and must equal a recount.
StatsAreARecount == \A b \in Bucket : scope.stats[b] = Recount(b)

\* The dependency counters of every node, the satisfied flag of every edge and
\* the statuses of the predecessors tell one story, through every mix of edge
\* edits, cascades, removals and rollbacks.
DepsAreARecount ==
    \A n \in Alive(scope) :
        LET preds == DOMAIN scope.pred[n]
            resolved == {p \in preds : scope.phase[p] = "Done"}
            tally(t) == {p \in resolved : TallyOf(scope.status[p], scope.reason[p]) = t}
        IN  /\ preds \subseteq Alive(scope)
            /\ \A p \in preds : scope.pred[n][p] <=> p \in resolved
            /\ scope.deps[n].Unsatisfied = Cardinality(preds \ resolved)
            /\ \A t \in Tally : scope.deps[n][t] = Cardinality(tally(t))

\* The heaps hold exactly the nodes of their phase, each once; succ mirrors pred.
\* A node missing from its heap is never claimed, reclaimed or promoted again.
IndexesMatchPhases ==
    /\ Range(scope.ready) = {n \in Node : scope.phase[n] = "Ready"}
    /\ Len(scope.ready) = Cardinality(Range(scope.ready))
    /\ scope.leases = {n \in Node : scope.phase[n] = "Claimed"}
    /\ scope.scheduled = {n \in Node : scope.phase[n] = "Scheduled"}
    /\ \A p, n \in Node : p \in DOMAIN scope.pred[n] <=> n \in Range(scope.succ[p])

\* G4 through whole batches: the ranks are topological, distinct and among those handed
\* out, also after a batch that was rolled back with its rank changes left in place.
RanksAreTopological(s) ==
    /\ \A e \in EdgesOf(s) : s.ord[e[1]] < s.ord[e[2]]
    /\ \A n \in Alive(s) : s.ord[n] \in 2..s.nextOrd
    /\ \A m, n \in Alive(s) : s.ord[m] = s.ord[n] => m = n

\* What a node's record says twice is said alike: every counter, of a node or of the
\* scope, is a recount (scope.go linkEdge, markSatisfied, enterBucket, leaveBucket).
CountersAreRecounts == StatsAreARecount /\ DepsAreARecount

\* The scope is of its type, and its heaps and ranks agree with its phases and edges.
WellFormed == TypeOK /\ IndexesMatchPhases /\ RanksAreTopological(scope)

\* No node waits for nothing: a Blocked node has a predecessor that is not done,
\* and its rule is still open (scope.go settle; node.go Unsatisfiable "rather than
\* left blocked forever, which is what keeps a scope's completion decidable").
BlockedWaitsOnSomeone ==
    \A n \in Node : scope.phase[n] = "Blocked" =>
        /\ \E p \in DOMAIN scope.pred[n] : scope.phase[p] # "Done"
        /\ ~ DepsReady(scope.deps[n], scope.def[n].trigger)
        /\ ~ Unsatisfiable(scope.deps[n], scope.def[n].trigger)

\* G3 for a node no worker has held yet: it is claimable only while its rule is
\* satisfied, however its edges were edited.
FirstAttemptHonoursRule ==
    \A n \in Node : scope.phase[n] = "Ready" /\ scope.attempt[n] = 0 =>
        DepsReady(scope.deps[n], scope.def[n].trigger)

\* A trigger rule is neither waited on in vain nor passed over (scope.go settle, fanOut,
\* makeReady), over whole graphs and through every edit of them.
RulesAreHonoured == BlockedWaitsOnSomeone /\ FirstAttemptHonoursRule

\* A node is never started more often than the most generous policy it lived under
\* allows, however Nacks, expiries and policy changes interleave.
AttemptsAreBounded ==
    \A n \in Alive(scope) :
        LET limits == {p.attempts : p \in {Policy} \cup NewPolicies}
        IN  scope.attempt[n] <= IF scope.def[n].attempts > 0 THEN scope.def[n].attempts
                                ELSE Max(limits)

\* ScopeConfig.MaxInFlight: a step that grants a lease leaves no more nodes in
\* flight than the policy in force, also after the policy was tightened.
InFlightIsBounded ==
    [][granted' # granted /\ scope'.cfg.inFlight > 0 =>
          Cardinality({n \in Node : scope'.phase[n] = "Claimed"}) <= scope'.cfg.inFlight]_vars

\* The AddNodes and AddEdges that would be refused now.
RefusedBatches ==
    {b \in {addNodesBatch(scope, specs) : specs \in NodeBatches}
             \cup {addEdgesBatch(scope, es) : es \in EdgeBatches} : ~ b.ok}

\* A refused AddNodes or AddEdges leaves nothing behind but ranks, whatever state the
\* scope is in when it is called, and the ranks it leaves still order the graph
\* (store.go: "every spec lands or none does"; graph.go journal and rollback).
RefusedBatchLeavesOnlyRanks ==
    \A b \in RefusedBatches :
        /\ BesidesRanks(finishBatch(b)) = BesidesRanks(scope)
        /\ RanksAreTopological(finishBatch(b))

\* The contract's Reason table: a node that is waiting or running says why its last
\* attempt failed, a succeeded one says nothing, a failed one why it is final.
ReasonsTellWhy ==
    \A n \in Alive(scope) :
        LET reason == scope.reason[n]
        IN  CASE scope.status[n] = "New" ->
                    IF scope.attempt[n] = 0 THEN reason = "None"
                    ELSE reason \in {"WorkerError", "Timeout"}
              [] scope.status[n] = "InProgress" ->
                    IF scope.attempt[n] = 1 THEN reason = "None"
                    ELSE reason \in {"WorkerError", "Timeout"}
              [] scope.status[n] = "Success" -> reason = "None"
              [] OTHER -> reason # "None"

\* Every attempt is accounted for: there are no more than the policy allows, and the
\* reason says how the last one ended (lease.go failAttempt, exhausted).
AttemptsAreAccounted == AttemptsAreBounded /\ ReasonsTellWhy

\* A sealed scope drains: once no node can be added, and no worker renews its lease
\* for ever, every node reaches a final status, whichever workers fail, skip or die
\* (store.go ScopeStats.Complete; node.go Unsatisfiable "keeps a scope's completion
\* decidable").
SealedScopeCompletes == scope.sealed ~> \A n \in Alive(scope) : scope.phase[n] = "Done"

\* Claim takes the best work first, across kinds: a node that is left Ready while
\* one of lower priority is granted is of a kind the claimant did not ask for
\* (lease.go popReady compares the heads of all the queues asked for).
ClaimHonoursPriority ==
    [][\A l \in granted' \ granted, m \in Node :
          scope'.phase[m] = "Ready" /\ scope'.def[m].priority > scope'.def[l[1]].priority =>
              \E kinds \in KindSets :
                  scope'.def[l[1]].kind \in kinds /\ scope'.def[m].kind \notin kinds]_vars
-----------------------------------------------------------------------------
(***************************************************************************)
(* What the documentation says and the code does not do                    *)
(***************************************************************************)

\* store.go: "RemoveEdges drops dependencies atomically."  A RemoveEdges that is
\* refused leaves the scope as it was.
RefusedCutLeavesNoTrace ==
    \A es \in CutBatches :
        LET b == cutEdgesBatch(scope, es) IN ~ b.ok => b.s = scope

\* graph.go journal: "the ranks left behind by an aborted batch are still a valid ordering
\* -- just a different one, which no caller can observe."  Inspect shows a node's rank, so
\* a refused batch leaves every node's rank as it was.
RefusedBatchLeavesRanksAlone ==
    \A b \in RefusedBatches : finishBatch(b).ord = scope.ord

\* Contract G3: "A node becomes claimable only when its trigger rule is satisfied",
\* on every attempt.
ReadyHonoursRule ==
    \A n \in Node : scope.phase[n] = "Ready" =>
        DepsReady(scope.deps[n], scope.def[n].trigger)
-----------------------------------------------------------------------------
(***************************************************************************)
(* The scope implements the lease protocol                                 *)
(***************************************************************************)
Protocol == INSTANCE LeaseProtocol WITH
    state <- [n \in Node |-> CoarseState(scope.phase[n])],
    epoch <- scope.epoch,
    floor <- scope.epochFloor,
    expired <- Expired(scope)

\* Every operation of the in-memory backend, cascades and inline reclaims
\* included, is one step of LeaseProtocol (store.go: "Each mutating method is one
\* atomic operation"), so the theorems about LeaseProtocol hold of it.
ImplementsLeaseProtocol == Protocol!Spec
=============================================================================
