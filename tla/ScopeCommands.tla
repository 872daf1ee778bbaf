---------------------------- MODULE ScopeCommands ----------------------------
(***************************************************************************)
(* What one operation of the storage port does to a scope of the in-memory *)
(* backend (storage/memory/graph.go, lease.go and memory.go), as operators *)
(* on the scope record of ScopeOps.  An operation whose result depends on  *)
(* the order a Go map or heap yields equal keys in, or on jitter, is the   *)
(* set of its possible results.                                            *)
(***************************************************************************)
EXTENDS ScopeOps

CONSTANTS
    MinLease, MaxLease, DefaultLease,   \* ScopeConfig lease bounds, in ticks
    RetryBase, RetryMax,                \* ScopeConfig retry delays, in ticks
    SweepBatch,                         \* ScopeConfig.SweepBatchSize
    Retention                           \* ScopeConfig.TerminalRetention, in ticks

ASSUME LeaseBounds == /\ MinLease \in Nat \ {0}
                      /\ MaxLease \in Nat
                      /\ DefaultLease \in Nat
                      /\ MinLease <= MaxLease
-----------------------------------------------------------------------------
(***************************************************************************)
(* lease.go, backoff.go and config.go helpers                              *)
(***************************************************************************)

\* ScopeConfig.ClampLease.
ClampLease(d) == Min({Max({IF d = 0 THEN DefaultLease ELSE d, MinLease}), MaxLease})

\* scope.effectiveRetry: a node's own attempt limit, if it has one.
maxAttempts(s, n) == IF s.def[n].attempts > 0 THEN s.def[n].attempts ELSE s.cfg.attempts

\* Backoff's window before attempt a + 1, doubled up to the cap.
backoffWindow[a \in Nat] ==
    IF a <= 1 THEN Min({RetryBase, RetryMax})
    ELSE LET w == backoffWindow[a - 1]
         IN  IF w >= RetryMax \div 2 THEN RetryMax ELSE 2 * w

\* The delays jitter can return for a window.
Delays(a) == 0..(backoffWindow[a] - 1)

\* The attempts check, one attempt too generous.
exhaustedLate(s, n) == s.attempt[n] > maxAttempts(s, n)

exhausted(s, n) == s.attempt[n] >= maxAttempts(s, n)

\* failAttempt: a Nack and a reclaimed lease alike.
failAttempt(s, n, reason, delay) ==
    LET t == [s EXCEPT !.leases = @ \ {n}, !.deadline = put(@, n, 0)]
    IN  IF exhausted(s, n)
        THEN terminate(t, n, "Error", reason)
        ELSE schedule([t EXCEPT !.reason = put(@, n, reason)], n, delay)

Expired(s) == {n \in s.leases : s.deadline[n] = 0}
Due(s) == {n \in s.scheduled : s.readyAt[n] = 0}

\* reclaimExpired's loop over the leases in order, each with a delay of its own.
reclaimOne(delay, s, n) == failAttempt(s, n, "Timeout", delay[n])
reclaim(s, order, delay) == loop(LAMBDA t, n : reclaimOne(delay, t, n), s, order)

\* reclaimExpired: up to limit expired leases, in whatever order the deadline
\* heap yields them.
reclaimExpired(s, limit) ==
    LET k == Min({limit, Cardinality(Expired(s))})
        picks == UNION {orders(V) : V \in kSubset(k, Expired(s))}
        delays == {f \in [Expired(s) -> 0..RetryMax] :
                      \A n \in Expired(s) : f[n] \in Delays(s.attempt[n])}
    IN  {reclaim(s, order, f) : order \in picks, f \in delays}

promote(s, order) == loop(makeReady, s, order)

\* promoteScheduled: every node whose backoff has elapsed.
promoteScheduled(s) == {promote(s, order) : order \in orders(Due(s))}

\* popReady ordered by arrival alone.
bestReadyIgnoresPriority(s, kinds) ==
    LET fits(i) == kinds = {} \/ s.def[s.ready[i]].kind \in kinds
    IN  {i \in DOMAIN s.ready : fits(i) /\ \A j \in DOMAIN s.ready : fits(j) => i <= j}

\* popReady: the position of the best ready node of the wanted kinds, highest
\* priority first and first come first served within it; empty if there is none.
bestReady(s, kinds) ==
    LET fits(i) == kinds = {} \/ s.def[s.ready[i]].kind \in kinds
        prio(i) == s.def[s.ready[i]].priority
    IN  {i \in DOMAIN s.ready :
            fits(i) /\ \A j \in DOMAIN s.ready : fits(j) =>
                prio(j) < prio(i) \/ (prio(j) = prio(i) /\ i <= j)}

\* The in-flight check, off by one.
atCapLate(s) == s.cfg.inFlight > 0 /\ s.stats.InProgress > s.cfg.inFlight

atCap(s) == s.cfg.inFlight > 0 /\ s.stats.InProgress >= s.cfg.inFlight

\* One turn of Claim's loop: stop at the in-flight limit or when nothing fits.
grantOne(c, kinds, lease) ==
    LET best == bestReady(c.s, kinds)
    IN  IF best = {} \/ atCap(c.s) THEN c
        ELSE LET n == c.s.ready[CHOOSE i \in best : TRUE]
             IN  [s |-> enterBucket([leaveBucket(c.s, n) EXCEPT
                          !.ready = without(@, n), !.epoch = put(@, n, c.s.epoch[n] + 1),
                          !.attempt = put(@, n, c.s.attempt[n] + 1),
                          !.phase = put(@, n, "Claimed"), !.status = put(@, n, "InProgress"),
                          !.deadline = put(@, n, lease), !.leases = @ \cup {n}], n),
                  leases |-> c.leases \cup {<<n, c.s.epoch[n] + 1>>}]

grantLoop(s, kinds, want, lease) ==
    loop(LAMBDA c, i : grantOne(c, kinds, lease),
         [s |-> s, leases |-> {}], [i \in 1..want |-> i])

\* Claim reclaims, promotes and grants, in this order.
claimed(s, kinds, want, req) ==
    {grantLoop(b, kinds, want, ClampLease(req)) :
        b \in UNION {promoteScheduled(a) : a \in reclaimExpired(s, SweepBatch)}}

swept(s, limit) == UNION {promoteScheduled(a) : a \in reclaimExpired(s, limit)}

\* The fence with the epoch comparison left out.
fenceIgnoresEpoch(s, n, e) == s.phase[n] = "Claimed"

\* The fence of Complete and Extend.
fence(s, n, e) == s.phase[n] = "Claimed" /\ s.epoch[n] = e

\* Complete, for a caller that passed the fence.
completed(s, n, outcome) ==
    CASE outcome = "Success" -> {terminate(s, n, "Success", "None")}
      [] outcome = "Skip" -> {terminate(s, n, "Error", "Skipped")}
      [] outcome = "Fail" -> {failAttempt(s, n, "WorkerError", d) : d \in Delays(s.attempt[n])}
-----------------------------------------------------------------------------
(***************************************************************************)
(* graph.go batches.  b carries the scope so far, whether the batch is     *)
(* still good, the journal (nodes created and edges linked), and the nodes *)
(* to settle, in order.                                                    *)
(***************************************************************************)
startBatch(s) == [s |-> s, ok |-> TRUE, created |-> <<>>, edges |-> <<>>, touched |-> <<>>]

touch(b, n) == IF n \in Range(b.touched) THEN b ELSE [b EXCEPT !.touched = Append(@, n)]

fail(b) == [b EXCEPT !.ok = FALSE]

\* The tail of linkBatch's and AddEdges' loop body: from and to exist.
linkNew(b, from, to) ==
    IF b.s.phase[to] = "Done" THEN fail(b)
    ELSE LET r == addEdgeOrder(Alive(b.s), EdgesOf(b.s), b.s.ord, from, to)
         IN  IF r.cycle THEN fail(b)
             ELSE [b EXCEPT !.s = linkEdge([b.s EXCEPT !.ord = r.ord], from, to),
                            !.edges = Append(@, <<from, to>>)]

\* materialise, one spec.
materialiseOne(b, spec) ==
    IF ~ b.ok THEN b
    ELSE IF spec.id \in Alive(b.s)
         THEN IF b.s.def[spec.id] = DefOf(spec) THEN b ELSE fail(b)
    ELSE [b EXCEPT !.s = create(@, spec), !.created = Append(@, spec.id)]

\* linkBatch, one spec.  NodeSpec.Validate has refused a node that names itself.
linkDep(id, b, dep) ==
    IF ~ b.ok THEN b
    ELSE IF dep \notin Alive(b.s) THEN fail(b)
    ELSE IF dep \in DOMAIN b.s.pred[id] THEN b
    ELSE linkNew(b, dep, id)

linkSpec(b, spec) ==
    IF b.ok THEN loop(LAMBDA c, dep : linkDep(spec.id, c, dep), touch(b, spec.id), spec.deps)
    ELSE b

unlinkAll(s, es) == loop(LAMBDA t, e : unlinkEdge(t, e[1], e[2]), s, es)
newestFirst(q) == [i \in DOMAIN q |-> q[Len(q) + 1 - i]]

\* rollback that leaves the nodes of the failed batch behind.
rollbackEdgesOnly(b) == unlinkAll(b.s, newestFirst(b.edges))

\* rollback: edges first, then nodes, newest first.  Ranks stay as they are.
rollback(b) ==
    loop(dropNode, unlinkAll(b.s, newestFirst(b.edges)), newestFirst(b.created))

settleAll(s, ns) == loop(settle, s, ns)

finishBatch(b) == IF b.ok THEN settleAll(b.s, b.touched) ELSE rollback(b)

\* AddEdges' loop body.
addOneEdge(b, e) ==
    IF ~ b.ok THEN b
    ELSE IF e[1] \notin Alive(b.s) \/ e[2] \notin Alive(b.s) \/ e[1] = e[2] THEN fail(b)
    ELSE IF e[1] \in DOMAIN b.s.pred[e[2]] THEN b
    ELSE LET c == linkNew(b, e[1], e[2]) IN IF c.ok THEN touch(c, e[2]) ELSE c

addNodesBatch(s, specs) ==
    LET made == loop(materialiseOne, startBatch(s), specs)
    IN  loop(linkSpec, made, specs)

addEdgesBatch(s, es) == loop(addOneEdge, startBatch(s), es)

\* RemoveEdges' loop: an unknown node ends it, and what was unlinked before that
\* stays unlinked; nothing is settled then.
cutOneEdge(b, e) ==
    IF ~ b.ok THEN b
    ELSE IF e[1] \notin Alive(b.s) \/ e[2] \notin Alive(b.s) THEN fail(b)
    ELSE IF e[1] \notin DOMAIN b.s.pred[e[2]] THEN b
    ELSE touch([b EXCEPT !.s = unlinkEdge(@, e[1], e[2])], e[2])

cutEdgesBatch(s, es) == loop(cutOneEdge, startBatch(s), es)

finishCut(b) == IF b.ok THEN settleAll(b.s, b.touched) ELSE b.s

\* terminate for each node in turn, with one reason.
terminateAll(s, ns, reason) == loop(LAMBDA t, n : terminate(t, n, "Error", reason), s, ns)

\* The edges from n to each of outs, unlinked.
cutFrom(s, n, outs) == unlinkAll(s, [i \in DOMAIN outs |-> <<n, outs[i]>>])

\* The edges into n, unlinked.
cutInto(s, n) ==
    LET ins == (CHOOSE order \in orders(DOMAIN s.pred[n]) : TRUE)
    IN  unlinkAll(s, [i \in DOMAIN ins |-> <<ins[i], n>>])

\* n taken out of every heap.
withdrawn(s, n) ==
    [s EXCEPT !.ready = without(@, n), !.scheduled = @ \ {n}, !.leases = @ \ {n}]

\* The scope without n: under CascadeFail its successors are terminated first,
\* under CascadeDetach they are settled last.
removed(s, n, policy) ==
    LET outs == s.succ[n]
        failed == IF policy = "Fail" THEN terminateAll(s, outs, "Removed") ELSE s
        gone == dropNode(withdrawn(cutInto(cutFrom(failed, n, outs), n), n), n)
    IN  IF policy = "Detach" THEN settleAll(gone, outs) ELSE gone

removable(s, n, policy) ==
    /\ s.phase[n] \notin {"Absent", "Claimed"}
    /\ policy = "Reject" => s.succ[n] = <<>>

cancelAll(s, order) == terminateAll(s, order, "Cancelled")

\* Cancel: an unknown identifier ends the batch with what was cancelled before it
\* kept.
cancelled(s, ids) ==
    LET unknown == {i \in DOMAIN ids : ids[i] \notin Alive(s)}
    IN  cancelAll(s, IF unknown = {} THEN ids ELSE SubSeq(ids, 1, Min(unknown) - 1))

\* CancelScope: every live node, in the order a Go map yields them.
scopeCancelled(s) ==
    {cancelAll(s, order) : order \in orders({n \in Alive(s) : s.phase[n] # "Done"})}

\* CollectTerminal's test on one node.
collectable(s, n) ==
    s.phase[n] = "Done" /\ s.age[n] >= Retention /\ s.succ[n] = <<>>

\* detachSucc for every predecessor of n.
detached(s, n) ==
    LET succ == [p \in Node |-> IF p \in DOMAIN s.pred[n] THEN without(s.succ[p], n)
                                ELSE s.succ[p]]
    IN  [s EXCEPT !.succ = succ]

collectOne(c, n) ==
    IF c.left = 0 \/ ~ collectable(c.s, n) THEN c
    ELSE [s |-> dropNode(detached(c.s, n), n), left |-> c.left - 1]

\* CollectTerminal: one pass over the index, in the order a Go map yields it.  The
\* default limit, 100, is more than the nodes there are.
collectAll(s, limit, order) ==
    LET left == IF limit = 0 THEN Cardinality(Node) ELSE limit
    IN  loop(collectOne, [s |-> s, left |-> left], order).s

collected(s, limit) == {collectAll(s, limit, order) : order \in orders(Alive(s))}
=============================================================================
