------------------------------ MODULE RedisOps ------------------------------
(***************************************************************************)
(* The functions of the Redis backend's Lua prelude                        *)
(* (storage/redis/lua_prelude.go), as operators on the keys of one scope.  *)
(*                                                                         *)
(* k.node is the hash n:<id> of every node that exists, k.pred[i] the hash *)
(* p:<i> (predecessor -> satisfied) and k.succ[i] the set s:<i>: the two   *)
(* ends of an edge are separate keys.  k.ready holds the scores of the     *)
(* ready sets, k.sched and k.leases the members of the two deadline sets,  *)
(* k.stats the counters, k.cfg the scope's configuration hash.             *)
(*                                                                         *)
(* Abstractions.  A deadline, a ready time and an update time are kept as  *)
(* whether the server's clock has reached them (expired, due) or has left  *)
(* them behind by the retention (aged).  A node's kind selects its ready   *)
(* set, so one map holds the scores of all of them.  The index set idx has *)
(* exactly the nodes that exist, because createNode and the two deletions  *)
(* are its only writers.  Payloads, messages and the event stream are left *)
(* out; DurableWatch has the stream.  The order in which SMEMBERS, HKEYS   *)
(* and equal scores list their members is o, a sequence of all ids.        *)
(***************************************************************************)
EXTENDS Topo, TriggerRules, ReadyScore, SequencesExt

CONSTANTS
    Id,                 \* node identifiers
    DefaultMaxAttempts  \* DEFAULT_MAX_ATTEMPTS

Bucket == {"Total", "Blocked", "Scheduled", "Ready", "InProgress", "Succeeded", "Failed"}

listed(S, o) == SelectSeq(o, LAMBDA i : i \in S)
EdgesOf(k) == {<<p, i>> \in Id \X Id : p \in DOMAIN k.pred[i]}

bucketField(n) ==
    CASE n.phase \in {"Blocked", "Scheduled", "Ready"} -> n.phase
      [] n.phase = "Claimed" -> "InProgress"
      [] OTHER -> IF n.status = "Success" THEN "Succeeded" ELSE "Failed"

adjustBucket(k, n, delta) == [k EXCEPT !.stats[bucketField(n)] = @ + delta]

\* What every transition does: the hash of i becomes n, out of one bucket into
\* another.
rewrite(k, i, n) ==
    adjustBucket([adjustBucket(k, k.node[i], -1) EXCEPT !.node[i] = n], n, 1)
-----------------------------------------------------------------------------
(***************************************************************************)
(* Phase transitions                                                       *)
(***************************************************************************)

\* The only way to become claimable.
makeReady(k, i) ==
    LET fifo == k.nextFifo + 1
        n == [k.node[i] EXCEPT !.phase = "Ready", !.status = "New", !.fifo = fifo,
                                 !.due = FALSE]
    IN  [rewrite(k, i, n) EXCEPT
            !.sched = @ \ {i}, !.nextFifo = fifo,
            !.ready = (i :> packScore(n.def.priority, fifo)) @@ @]

\* makeBlocked that leaves the node in its ready set.
makeBlockedStillListed(k, i) ==
    rewrite([k EXCEPT !.sched = @ \ {i}], i,
            [k.node[i] EXCEPT !.phase = "Blocked", !.status = "New", !.due = FALSE])

unlist(k, i) == [k EXCEPT !.ready = Restrict(@, DOMAIN @ \ {i})]

makeBlocked(k, i) ==
    rewrite([unlist(k, i) EXCEPT !.sched = @ \ {i}], i,
            [k.node[i] EXCEPT !.phase = "Blocked", !.status = "New", !.due = FALSE])

scheduleRetry(k, i, due) ==
    rewrite([unlist(k, i) EXCEPT !.sched = @ \cup {i}], i,
            [k.node[i] EXCEPT !.phase = "Scheduled", !.status = "New", !.due = due])
-----------------------------------------------------------------------------
(***************************************************************************)
(* Edges                                                                   *)
(***************************************************************************)
hasEdge(k, p, i) == p \in DOMAIN k.pred[i]

\* markSatisfied, for an edge that does not count yet.
satisfies(k, i, p) == hasEdge(k, p, i) /\ ~ k.pred[i][p]

\* A repeated fan-out counts again.
markSatisfiedAgain(k, i, p) ==
    LET t == TallyOf(k.node[p].status, k.node[p].reason)
    IN  [k EXCEPT !.pred[i][p] = TRUE, !.node[i].deps[t] = @ + 1]

markSatisfied(k, i, p) ==
    LET t == TallyOf(k.node[p].status, k.node[p].reason)
    IN  [k EXCEPT !.pred[i][p] = TRUE,
                  !.node[i].deps = [[@ EXCEPT !.Unsatisfied = Less(@)] EXCEPT ![t] = @ + 1]]

linkEdge(k, p, i) ==
    LET done == k.node[p].phase = "Done"
        t == IF done THEN TallyOf(k.node[p].status, k.node[p].reason) ELSE "Unsatisfied"
    IN  [k EXCEPT !.pred[i] = (p :> done) @@ @, !.succ[p] = @ \cup {i},
                  !.node[i].deps[t] = @ + 1]

\* unlinkEdge; nothing happens, the successor set included, when p is not among
\* the predecessors of i.
unlinkEdge(k, p, i) ==
    IF ~ hasEdge(k, p, i) THEN k
    ELSE LET t == IF k.pred[i][p] THEN TallyOf(k.node[p].status, k.node[p].reason)
                  ELSE "Unsatisfied"
         IN  [k EXCEPT !.pred[i] = Restrict(@, DOMAIN @ \ {p}), !.succ[p] = @ \ {i},
                       !.node[i].deps[t] = Less(@)]
-----------------------------------------------------------------------------
(***************************************************************************)
(* Topological order.  The forward search follows the successor sets, the  *)
(* backward one the predecessor hashes.  A successor without a hash has no *)
(* rank: comparing it raises a Lua error, and the script ends there with   *)
(* what it has written so far left in place.                               *)
(***************************************************************************)
ordOf(k) == [i \in DOMAIN k.node |-> k.node[i].ord]

\* The nodes the forward search visits.
forwardRegion(k, x, y) ==
    LET N == DOMAIN k.node
    IN  forwardSearch(N, {<<p, i>> \in N \X N : i \in k.succ[p]}, ordOf(k), y, k.node[x].ord)

\* "fast", "cycle", "error" or "reordered"; o decides what the search meets first.
searchVerdict(k, x, y, o) ==
    LET stops == {i \in UNION {k.succ[n] : n \in forwardRegion(k, x, y)} :
                     i = x \/ i \notin DOMAIN k.node}
    IN  IF k.node[x].ord < k.node[y].ord THEN "fast"
        ELSE IF stops = {} THEN "reordered"
        ELSE IF Head(listed(stops, o)) = x THEN "cycle" ELSE "error"

reordered(k, x, y) ==
    LET ord == reorder(ordOf(k),
                       backwardSearch(DOMAIN k.node, EdgesOf(k), ordOf(k), x, k.node[y].ord),
                       forwardRegion(k, x, y))
    IN  [k EXCEPT !.node = [i \in DOMAIN @ |-> [@[i] EXCEPT !.ord = ord[i]]]]

orderEdge(k, x, y, o) ==
    LET v == searchVerdict(k, x, y, o)
    IN  [k |-> IF v = "reordered" THEN reordered(k, x, y) ELSE k, verdict |-> v]
-----------------------------------------------------------------------------
(***************************************************************************)
(* terminate and settle                                                    *)
(***************************************************************************)

\* The commands of terminate that end one node.
finishNode(k, i, why) ==
    rewrite([unlist(k, i) EXCEPT !.sched = @ \ {i}, !.leases = @ \ {i}], i,
            [k.node[i] EXCEPT !.phase = "Done", !.status = why.status, !.reason = why.reason,
                              !.expired = FALSE, !.due = FALSE, !.aged = FALSE])

\* terminate's visit to one successor.  A doomed one is queued; the reason is kept
\* by id, so a second doom of a node still in the queue replaces the first.
visit(q, i, p) ==
    IF ~ satisfies(q.k, i, p) THEN q
    ELSE LET k == markSatisfied(q.k, i, p)
             n == k.node[i]
         IN  IF n.phase \notin {"Blocked", "Ready"} THEN [q EXCEPT !.k = k]
             ELSE IF Unsatisfiable(n.deps, n.def.trigger)
                  THEN [k |-> k, queue |-> Append(q.queue, i),
                        why |-> (i :> [status |-> "Error", reason |-> TerminalReason(n.deps)])
                                    @@ q.why]
             ELSE IF DepsReady(n.deps, n.def.trigger) /\ n.phase # "Ready"
                  THEN [q EXCEPT !.k = makeReady(k, i)]
             ELSE [q EXCEPT !.k = k]

\* One turn of terminate's loop.
terminateStep(q, o) ==
    IF q.queue = <<>> THEN q
    ELSE LET i == Head(q.queue)
             rest == [q EXCEPT !.queue = Tail(@)]
         IN  IF i \notin DOMAIN q.k.node \/ q.k.node[i].phase = "Done" THEN rest
             ELSE FoldLeft(LAMBDA r, w : visit(r, w, i),
                           [rest EXCEPT !.k = finishNode(@, i, q.why[i])],
                           listed(q.k.succ[i], o))

\* Every edge is marked once, so the loop turns at most once per edge and once for
\* the root.
terminate(k, root, status, reason, o) ==
    LET turns == 1 + Cardinality(EdgesOf(k))
        run[j \in 0..turns] ==
            IF j = 0 THEN [k |-> k, queue |-> <<root>>,
                           why |-> root :> [status |-> status, reason |-> reason]]
            ELSE CHOOSE next \in {terminateStep(q, o) : q \in {run[j - 1]}} : TRUE
    IN  run[turns].k

settle(k, i, o) ==
    IF i \notin DOMAIN k.node \/ k.node[i].phase \notin {"Blocked", "Ready"} THEN k
    ELSE LET n == k.node[i]
         IN  IF Unsatisfiable(n.deps, n.def.trigger)
             THEN terminate(k, i, "Error", TerminalReason(n.deps), o)
             ELSE IF DepsReady(n.deps, n.def.trigger)
                  THEN IF n.phase = "Ready" THEN k ELSE makeReady(k, i)
             ELSE IF n.phase = "Blocked" THEN k ELSE makeBlocked(k, i)
-----------------------------------------------------------------------------
(***************************************************************************)
(* Attempts                                                                *)
(***************************************************************************)

\* orDefault: in the configuration hash, zero and missing both mean unset.
orDefault(v, def) == IF v = 0 THEN def ELSE v

\* The attempt limit failAttempt works with.
attemptLimit(k, n) ==
    IF n.def.attempts > 0 THEN n.def.attempts
    ELSE orDefault(k.cfg.attempts, DefaultMaxAttempts)

exhausted(k, n) == n.attempt >= attemptLimit(k, n)

\* failAttempt: a Nack and a reclaimed lease alike.  due: the jittered delay came out
\* as nothing.
failAttempt(k, i, reason, due, o) ==
    LET c == [k EXCEPT !.leases = @ \ {i}, !.node[i].expired = FALSE]
    IN  IF exhausted(c, c.node[i]) THEN terminate(c, i, "Error", reason, o)
        ELSE scheduleRetry([c EXCEPT !.node[i].reason = reason], i, due)

Expired(k) == {i \in k.leases : k.node[i].expired}
Due(k) == {i \in k.sched : k.node[i].due}

\* reclaimExpired: the expired leases, up to limit, each with a delay of its own.
reclaimExpired(k, limit, nodelay, o) ==
    LET first == SubSeq(listed(Expired(k), o), 1, Min({limit, Cardinality(Expired(k))}))
    IN  FoldLeft(LAMBDA r, i : failAttempt(r, i, "Timeout", i \in nodelay, o), k, first)

\* promoteScheduled; PROMOTE_CAP, 10000, is more than the nodes there are.
promoteScheduled(k, o) == FoldLeft(makeReady, k, listed(Due(k), o))
-----------------------------------------------------------------------------
(***************************************************************************)
(* Nodes                                                                   *)
(***************************************************************************)

retireEpoch(k, i) == [k EXCEPT !.floor = Max({@, k.node[i].epoch})]

\* DEL of the node's four keys, and ZREM from the index.
dropKeys(k, i) ==
    [k EXCEPT !.node = Restrict(@, DOMAIN @ \ {i}), !.succ[i] = {}, !.pred[i] = <<>>]

deleteNodeKeys(k, i) == dropKeys(retireEpoch(k, i), i)

createNode(k, spec) ==
    LET n == [def |-> spec.def, phase |-> "Blocked", status |-> "New", reason |-> "None",
              attempt |-> 0, epoch |-> k.floor, ord |-> k.nextOrd + 1, fifo |-> 0, deps |-> NoDeps,
              expired |-> FALSE, due |-> FALSE, aged |-> FALSE]
    IN  adjustBucket([k EXCEPT !.node = (spec.id :> n) @@ @, !.nextOrd = @ + 1,
                               !.stats.Total = @ + 1], n, 1)

specMatches(k, spec) == k.node[spec.id].def = spec.def


\* rollbackBatch: edges first, then nodes, newest first; ranks are not restored.
rollbackBatch(k, created, edges) ==
    LET drop(r, i) == deleteNodeKeys([adjustBucket(r, r.node[i], -1) EXCEPT
                                         !.stats.Total = @ - 1], i)
    IN  FoldLeft(drop, FoldLeft(LAMBDA r, e : unlinkEdge(r, e[1], e[2]), k, Reverse(edges)),
                 Reverse(created))
=============================================================================
