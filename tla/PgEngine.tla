------------------------------ MODULE PgEngine ------------------------------
(***************************************************************************)
(* The PostgreSQL backend's engine (storage/postgres/engine.go, topo.go    *)
(* and the helpers of graph.go, lease.go and pipeline.go): what one        *)
(* transaction does to the rows it has locked, as operators on the         *)
(* transaction t.                                                          *)
(*                                                                         *)
(* A row of dagw.nodes is a record; the edges into it are its preds field, *)
(* predecessor -> satisfied, because every statement that writes an edge   *)
(* holds the lock on the row the edge leads to; but for the cascade of a   *)
(* deleted row's foreign keys, which a commit carries out.  t.rows are the *)
(* rows t has locked, as t sees them; t.gone are those it deleted.         *)
(* Everything else a transaction reads is what was committed.              *)
(*                                                                         *)
(* Abstractions.  Payloads, labels, messages and worker names are left     *)
(* out.  A deadline, a ready_at and an updated_at are kept as whether the  *)
(* clock has reached them (expired, due) or has left them behind by the    *)
(* retention (aged).  The fifo numbers of the ready rows are one sequence. *)
(***************************************************************************)
EXTENDS Topo, TriggerRules, Integers, SequencesExt

Bucket == {"Total", "Blocked", "Scheduled", "Ready", "InProgress", "Succeeded", "Failed"}
NoDelta == [b \in Bucket |-> 0]

\* What t sees: its own rows over the committed ones.
View(t, base) == Restrict(t.rows @@ base, (DOMAIN t.rows \cup DOMAIN base) \ t.gone)

EdgesOf(v) == {<<p, i>> \in (DOMAIN v) \X (DOMAIN v) : p \in DOMAIN v[i].preds}
Ascending(S) == [k \in 1..Cardinality(S) |-> KthSmallest(S, k)]
idOf(v, name) == {i \in DOMAIN v : v[i].name = name}
-----------------------------------------------------------------------------
(***************************************************************************)
(* Counters                                                                *)
(***************************************************************************)
bucketColumn(r) ==
    CASE r.phase \in {"Blocked", "Scheduled", "Ready"} -> r.phase
      [] r.phase = "Claimed" -> "InProgress"
      [] OTHER -> IF r.status = "Success" THEN "Succeeded" ELSE "Failed"

\* moveBucket, leaveBucket and enterBucket only note the change; flushCounters
\* writes it at the end of the transaction.
moveBucket(t, old, new) ==
    [t EXCEPT !.stats[bucketColumn(old)] = @ - 1, !.stats[bucketColumn(new)] = @ + 1]

leaveBucket(t, r) == [t EXCEPT !.stats[bucketColumn(r)] = @ - 1]

enterBucket(t, r) == [t EXCEPT !.stats[bucketColumn(r)] = @ + 1]
-----------------------------------------------------------------------------
(***************************************************************************)
(* Phase changes of row i.  n is the row as the code has it in hand, which *)
(* may be an older copy than the one t holds.                              *)
(***************************************************************************)

\* eff: the nodes an event was written for; line: the fifo numbers drawn.
makeReady(t, i, n) ==
    LET r == [t.rows[i] EXCEPT !.phase = "Ready", !.status = "New", !.due = FALSE]
    IN  [moveBucket(t, n, r) EXCEPT !.rows[i] = r, !.eff = @ \cup {i}, !.line = Append(@, i)]

\* No event: becoming blocked is not a public transition.
makeBlocked(t, i, n) ==
    LET r == [t.rows[i] EXCEPT !.phase = "Blocked", !.status = "New"]
    IN  [moveBucket(t, n, r) EXCEPT !.rows[i] = r]

\* failAttempt's retry: setRetryFields, then schedule.  due tells whether the
\* jittered delay came out as nothing.
schedule(t, i, reason, due) ==
    LET r == [t.rows[i] EXCEPT !.phase = "Scheduled", !.status = "New", !.reason = reason,
                               !.due = due, !.expired = FALSE]
    IN  [moveBucket(t, t.rows[i], r) EXCEPT !.rows[i] = r, !.eff = @ \cup {i}]

\* The UPDATE of terminate that ends one node.
finishRow(t, i, status, reason) ==
    LET r == [t.rows[i] EXCEPT !.phase = "Done", !.status = status, !.reason = reason,
                               !.expired = FALSE, !.due = FALSE]
    IN  [moveBucket(t, t.rows[i], r) EXCEPT !.rows[i] = r, !.eff = @ \cup {i}]

\* cascadeSuccessors that releases a successor at the first predecessor to finish.
cascadeOneEager(t, i, p, tally) ==
    IF i \notin DOMAIN t.rows \/ p \notin DOMAIN t.rows[i].preds \/ t.rows[i].preds[p] THEN t
    ELSE LET r == [t.rows[i] EXCEPT !.preds[p] = TRUE, !.deps.Unsatisfied = Less(@),
                                    !.deps[tally] = @ + 1]
             u == [t EXCEPT !.rows[i] = r]
         IN  IF r.phase = "Blocked" THEN makeReady(u, i, r) ELSE u

\* cascadeSuccessors, one successor i of the row p that just finished:
\* markEdgeSatisfied, which fails if the edge already counts, applyDepDelta, and the
\* decision on the new tally.
cascadeOne(t, i, p, tally) ==
    IF i \notin DOMAIN t.rows \/ p \notin DOMAIN t.rows[i].preds \/ t.rows[i].preds[p] THEN t
    ELSE LET r == [t.rows[i] EXCEPT !.preds[p] = TRUE, !.deps.Unsatisfied = Less(@),
                                    !.deps[tally] = @ + 1]
             u == [t EXCEPT !.rows[i] = r]
         IN  IF r.phase \notin {"Blocked", "Ready"} THEN u
             ELSE IF Unsatisfiable(r.deps, r.def.trigger)
                  THEN [u EXCEPT !.queue = Append(@, [id |-> i, status |-> "Error",
                                                      reason |-> TerminalReason(r.deps)])]
             ELSE IF DepsReady(r.deps, r.def.trigger) /\ r.phase # "Ready"
                  THEN makeReady(u, i, r)
             ELSE u

cascade(t, succs, p, status, reason) ==
    FoldLeft(LAMBDA u, i : cascadeOne(u, i, p, TallyOf(status, reason)), t, succs)

\* successorsForUpdate: who is locked, and in which order.
successorsOf(v, p) == Ascending({i \in DOMAIN v : p \in DOMAIN v[i].preds})
-----------------------------------------------------------------------------
(***************************************************************************)
(* Edges and nodes                                                         *)
(***************************************************************************)

\* linkDependency's INSERT that takes every predecessor for unfinished.
insertEdgeUnresolved(t, f, i) ==
    [t EXCEPT !.rows[i].preds = (f :> FALSE) @@ @, !.rows[i].deps["Unsatisfied"] = @ + 1]

\* linkDependency's INSERT, and the tally it writes back.
insertEdge(t, f, i) ==
    LET r == t.rows[f]
        done == r.phase = "Done"
        tally == IF done THEN TallyOf(r.status, r.reason) ELSE "Unsatisfied"
    IN  [t EXCEPT !.rows[i].preds = (f :> done) @@ @, !.rows[i].deps[tally] = @ + 1]

\* unlinkDependency; no change when there is no such edge.
unlinkDependency(t, f, i) ==
    IF f \notin DOMAIN t.rows[i].preds THEN t
    ELSE LET r == t.rows[f]
             tally == IF t.rows[i].preds[f] THEN TallyOf(r.status, r.reason) ELSE "Unsatisfied"
         IN  [t EXCEPT !.rows[i].preds = Restrict(@, DOMAIN @ \ {f}),
                       !.rows[i].deps[tally] = Less(@)]

NewRow(spec, epoch, rank) ==
    [name |-> spec.id, def |-> spec.def, phase |-> "Blocked", status |-> "New",
     reason |-> "None", attempt |-> 0, epoch |-> epoch, rank |-> rank, deps |-> NoDeps,
     preds |-> <<>>, expired |-> FALSE, due |-> FALSE, aged |-> FALSE]

\* createNodes, one spec: the row gets the next id, a rank above every other, and
\* the scope's epoch floor.
createNode(t, base, spec, floor) ==
    LET v == View(t, base)
        id == 1 + Max({t.lastId} \cup DOMAIN v)
        r == NewRow(spec, floor, 1 + Max({0} \cup {v[i].rank : i \in DOMAIN v}))
    IN  [enterBucket(t, r) EXCEPT !.rows = (id :> r) @@ @, !.locks = @ \cup {id},
                                  !.lastId = id, !.eff = @ \cup {id}, !.stats.Total = @ + 1]

\* deleteNodeRow: out of the counters, the epoch into the floor, the row gone.
deleteNodeRow(t, i, epoch) ==
    [leaveBucket(t, t.rows[i]) EXCEPT
        !.stats.Total = @ - 1, !.floor = Max({@, epoch}),
        !.rows = Restrict(@, DOMAIN @ \ {i}), !.gone = @ \cup {i}]

specMatches(r, spec) == r.def = spec.def
-----------------------------------------------------------------------------
(***************************************************************************)
(* topo.go: the same order maintenance as in memory, on rows that are not  *)
(* locked while the regions are searched                                   *)
(***************************************************************************)
forwardRegion(v, y, ub) == Reach(DOMAIN v, {e \in EdgesOf(v) : v[e[2]].rank < ub}, y)

meetsSource(v, region, x) == \E e \in EdgesOf(v) : e[1] \in region /\ e[2] = x

backwardRegion(v, x, lb) ==
    Reach(DOMAIN v, {<<e[2], e[1]>> : e \in {f \in EdgesOf(v) : v[f[1]].rank > lb}}, x)

\* Would the edge x -> y close a cycle?
closesCycle(v, x, y) ==
    /\ v[x].rank >= v[y].rank
    /\ meetsSource(v, forwardRegion(v, y, v[x].rank), x)

\* The rows reorder updates, in its order: those that reach x, then those y reaches.
reorderRegion(v, x, y) ==
    LET byRank(S) == SetToSortSeq(S, LAMBDA i, j : v[i].rank < v[j].rank)
    IN  IF v[x].rank < v[y].rank THEN <<>>
        ELSE byRank(backwardRegion(v, x, v[y].rank)) \o byRank(forwardRegion(v, y, v[x].rank))

\* reorder, for a region of which t holds every row.
reorderRows(t, v, x, y) ==
    IF v[x].rank < v[y].rank THEN t
    ELSE LET ord == reorder([i \in DOMAIN v |-> v[i].rank],
                            backwardRegion(v, x, v[y].rank), forwardRegion(v, y, v[x].rank))
         IN  [t EXCEPT !.rows = [i \in DOMAIN @ |-> [@[i] EXCEPT !.rank = ord[i]]]]
-----------------------------------------------------------------------------
(***************************************************************************)
(* lease.go                                                                *)
(***************************************************************************)

\* nodeRow.retryEffective: a node's own attempt limit, if it has one.
maxAttempts(r, cfg) == IF r.def.attempts > 0 THEN r.def.attempts ELSE cfg.attempts

exhausted(r, cfg) == r.attempt >= maxAttempts(r, cfg)

\* The row a claim of claimSQL takes: the best Ready row nobody has locked.
\* fifo is the order the ready rows were numbered in.
claimable(v, held, kinds, fifo) ==
    LET fits == {i \in DOMAIN v : /\ v[i].phase = "Ready" /\ i \notin held
                                  /\ kinds = {} \/ v[i].def.kind \in kinds}
        at(i) == CHOOSE k \in DOMAIN fifo : fifo[k] = i
        before(i, j) == \/ v[i].def.priority > v[j].def.priority
                        \/ v[i].def.priority = v[j].def.priority /\ at(i) <= at(j)
    IN  {i \in fits : \A j \in fits : before(i, j)}

\* claimOne's UPDATE.
grant(t, i, r) ==
    LET g == [r EXCEPT !.phase = "Claimed", !.status = "InProgress", !.epoch = @ + 1,
                       !.attempt = @ + 1, !.expired = FALSE]
    IN  [moveBucket(t, r, g) EXCEPT !.rows = (i :> g) @@ @, !.locks = @ \cup {i},
                                    !.eff = @ \cup {i},
                                    !.leases = @ \cup {<<g.name, g.epoch>>}]

\* The fence without the epoch.
fenceIgnoresEpoch(r, e) == r.phase = "Claimed"

\* loadLeasedNode's test; Extend's WHERE clause makes the same one.
fence(r, e) == r.phase = "Claimed" /\ r.epoch = e
=============================================================================
