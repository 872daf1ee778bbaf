------------------------------ MODULE ScopeOps ------------------------------
(***************************************************************************)
(* The in-memory backend's scope (storage/memory/scope.go and the helpers  *)
(* of graph.go and lease.go), as operators on a scope record.  Every       *)
(* helper of the code that changes the scope is one operator here: it      *)
(* takes the scope s and returns the scope after it.                       *)
(*                                                                         *)
(* Abstractions.  Payloads, labels, messages and worker names are left     *)
(* out.  Times are kept as time still to go: a deadline or a readyAt of 0  *)
(* has been reached, age is the time since a node finished (capped at the  *)
(* retention).  Only comparisons of fifo numbers are ever used, so the     *)
(* ready heaps are one sequence in fifo order; ranks are the code's own    *)
(* numbers, because Inspect shows them.  pred lists are unordered; succ    *)
(* lists keep their order, because cascades and wake-ups follow it.        *)
(***************************************************************************)
EXTENDS Topo, TriggerRules, Integers, Sequences, FiniteSetsExt, Folds, Functions

CONSTANT Node       \* node identifiers

ASSUME NodeFinite == IsFiniteSet(Node)

Phase == {"Absent", "Blocked", "Scheduled", "Ready", "Claimed", "Done"}
Status == {"New", "InProgress", "Success", "Error"}
Reason == {"None", "WorkerError", "Timeout", "UpstreamFailed", "Skipped", "Cancelled", "Removed"}
Bucket == {"Total", "Blocked", "Scheduled", "Ready", "InProgress", "Succeeded", "Failed"}

\* The part of a NodeSpec a node keeps and specMatches compares.
NoDef == [trigger |-> "AllSuccess", kind |-> "", priority |-> 0, attempts |-> 0]
DefOf(spec) == [trigger |-> spec.trigger, kind |-> spec.kind,
                priority |-> spec.priority, attempts |-> spec.attempts]

\* The part of a NodeSpec that is modelled.
NodeSpec == [id : Node, deps : Seq(Node), trigger : TriggerRule, kind : STRING,
             priority : Int, attempts : Nat]

\* newScope, with the store's default policy.
EmptyScope(policy) ==
    [phase |-> [n \in Node |-> "Absent"],    status |-> [n \in Node |-> "New"],
     reason |-> [n \in Node |-> "None"],     def |-> [n \in Node |-> NoDef],
     deps |-> [n \in Node |-> NoDeps],
     pred |-> [n \in Node |-> <<>>],         \* pred[n]: predecessor -> satisfied
     succ |-> [n \in Node |-> <<>>],         ord |-> [n \in Node |-> 0],
     epoch |-> [n \in Node |-> 0],           attempt |-> [n \in Node |-> 0],
     deadline |-> [n \in Node |-> 0],        readyAt |-> [n \in Node |-> 0],
     age |-> [n \in Node |-> 0],
     ready |-> <<>>, leases |-> {}, scheduled |-> {},
     stats |-> [b \in Bucket |-> 0],
     cfg |-> policy, sealed |-> FALSE, epochFloor |-> 0,
     nextOrd |-> 1]                          \* the last rank handed out

Alive(s) == {n \in Node : s.phase[n] # "Absent"}
EdgesOf(s) == {e \in Node \X Node : e[1] \in DOMAIN s.pred[e[2]]}

\* A scope but for its ranks.
BesidesRanks(s) == [s EXCEPT !.ord = 0, !.nextOrd = 0]

\* Where a node in phase ph is, as far as leases are concerned (LeaseProtocol).
CoarseState(ph) ==
    IF ph \in {"Blocked", "Ready", "Scheduled"} THEN "Open" ELSE ph

\* f with v for n.
put(f, n, v) == [f EXCEPT ![n] = v]

\* A loop of the code over the sequence q: op for each element, in order.
loop(op(_, _), s, q) ==
    MapThenFoldSet(LAMBDA e, x : op(x, e), s, LAMBDA i : q[i], LAMBDA S : Max(S), DOMAIN q)

\* The sequences of all the elements of S, each once.
orders(S) == Injection(1..Cardinality(S), S)

\* The sequence q with n taken out, wherever it is.
withoutOne(n, r, m) == IF m = n THEN r ELSE Append(r, m)
without(q, n) == loop(LAMBDA r, m : withoutOne(n, r, m), <<>>, q)
-----------------------------------------------------------------------------
(***************************************************************************)
(* Counters and phases                                                     *)
(***************************************************************************)

bucket(s, n) ==
    CASE s.phase[n] \in {"Blocked", "Scheduled", "Ready"} -> s.phase[n]
      [] s.phase[n] = "Claimed" -> "InProgress"
      [] OTHER -> IF s.status[n] = "Success" THEN "Succeeded" ELSE "Failed"

leaveBucket(s, n) == [s EXCEPT !.stats[bucket(s, n)] = @ - 1]
enterBucket(s, n) == [s EXCEPT !.stats[bucket(s, n)] = @ + 1]

makeReady(s, n) ==
    enterBucket([leaveBucket(s, n) EXCEPT
        !.phase = put(@, n, "Ready"), !.status = put(@, n, "New"), !.readyAt = put(@, n, 0),
        !.scheduled = @ \ {n}, !.ready = Append(@, n)], n)

\* makeBlocked that forgets to take the node out of the ready heap.
makeBlockedStillQueued(s, n) ==
    enterBucket([leaveBucket(s, n) EXCEPT
        !.phase = put(@, n, "Blocked"), !.status = put(@, n, "New"), !.readyAt = put(@, n, 0),
        !.scheduled = @ \ {n}], n)

makeBlocked(s, n) ==
    enterBucket([leaveBucket(s, n) EXCEPT
        !.phase = put(@, n, "Blocked"), !.status = put(@, n, "New"), !.readyAt = put(@, n, 0),
        !.scheduled = @ \ {n}, !.ready = without(@, n)], n)

schedule(s, n, at) ==
    enterBucket([leaveBucket(s, n) EXCEPT
        !.phase = put(@, n, "Scheduled"), !.status = put(@, n, "New"),
        !.readyAt = put(@, n, at), !.ready = without(@, n), !.scheduled = @ \cup {n}], n)

\* finishNode that counts the node out of the bucket it has just entered.
finishNodeLateLeave(s, n, status, reason) ==
    LET t == [s EXCEPT
                !.phase = put(@, n, "Done"), !.status = put(@, n, status),
                !.reason = put(@, n, reason), !.deadline = put(@, n, 0),
                !.readyAt = put(@, n, 0), !.age = put(@, n, 0),
                !.ready = without(@, n), !.scheduled = @ \ {n}, !.leases = @ \ {n}]
    IN  enterBucket(leaveBucket(t, n), n)

\* The part of terminate that finishes one node.
finishNode(s, n, status, reason) ==
    enterBucket([leaveBucket(s, n) EXCEPT
        !.phase = put(@, n, "Done"), !.status = put(@, n, status),
        !.reason = put(@, n, reason), !.deadline = put(@, n, 0), !.readyAt = put(@, n, 0),
        !.age = put(@, n, 0),
        !.ready = without(@, n), !.scheduled = @ \ {n}, !.leases = @ \ {n}], n)

\* markSatisfied for every edge out of n that has not resolved yet.
resolve(d, t) == [d EXCEPT !.Unsatisfied = Less(d.Unsatisfied), ![t] = d[t] + 1]

markSatisfied(s, n, status, reason) ==
    LET hit == {w \in Node : n \in DOMAIN s.pred[w] /\ ~ s.pred[w][n]}
        pred == [w \in Node |-> IF w \in hit THEN [s.pred[w] EXCEPT ![n] = TRUE] ELSE s.pred[w]]
        deps == [w \in Node |-> IF w \in hit THEN resolve(s.deps[w], TallyOf(status, reason))
                                ELSE s.deps[w]]
    IN  [s EXCEPT !.pred = pred, !.deps = deps]

\* terminate's visit to one successor w of a node that just finished, in the scope t
\* that s became when its edges were marked.  A successor that is Scheduled or Claimed
\* is only told.
undecided(s, t, w) == t.pred[w] # s.pred[w] /\ t.phase[w] \in {"Blocked", "Ready"}

isDoomed(s, t, w) == undecided(s, t, w) /\ Unsatisfiable(t.deps[w], t.def[w].trigger)

isWoken(s, t, w) ==
    /\ undecided(s, t, w) /\ ~ isDoomed(s, t, w) /\ t.phase[w] # "Ready"
    /\ DepsReady(t.deps[w], t.def[w].trigger)

wakeOne(s, t, x, w) == IF isWoken(s, t, w) THEN makeReady(x, w) ELSE x

doomOne(s, t, q, w) ==
    IF isDoomed(s, t, w)
    THEN Append(q, [node |-> w, status |-> "Error", reason |-> TerminalReason(t.deps[w])])
    ELSE q

wake(s, t, ws) == loop(LAMBDA x, w : wakeOne(s, t, x, w), t, ws)
doom(s, t, ws) == loop(LAMBDA q, w : doomOne(s, t, q, w), <<>>, ws)

\* fanOut that dooms nobody.
fanOutNeverDooms(s, n, status, reason) ==
    [s |-> wake(s, markSatisfied(s, n, status, reason), s.succ[n]), queue |-> <<>>]

\* terminate's loop over the successors of a node that just finished: those that can
\* run are made ready, those that never can join the queue.
fanOut(s, n, status, reason) ==
    LET t == markSatisfied(s, n, status, reason)
    IN  [s |-> wake(s, t, s.succ[n]), queue |-> doom(s, t, s.succ[n])]

\* One turn of terminate's loop.
terminateStep(q) ==
    IF q.queue = <<>> THEN q
    ELSE LET it == Head(q.queue)
         IN  IF q.s.phase[it.node] \in {"Absent", "Done"}
             THEN [s |-> q.s, queue |-> Tail(q.queue)]
             ELSE LET f == fanOut(finishNode(q.s, it.node, it.status, it.reason),
                                  it.node, it.status, it.reason)
                  IN  [s |-> f.s, queue |-> Tail(q.queue) \o f.queue]

\* The same, evaluated once.
turn(q) == CHOOSE next \in {terminateStep(x) : x \in {q}} : TRUE

\* terminate: an edge is marked once, so it queues its target at most once; the walk
\* ends after at most one turn per edge and one for the root.
terminate(s, root, status, reason) ==
    LET turns == 1 + Cardinality(EdgesOf(s))
        start == [s |-> s, queue |-> <<[node |-> root, status |-> status, reason |-> reason]>>]
    IN  loop(LAMBDA q, k : turn(q), start, [k \in 1..turns |-> k]).s

\* settle that never takes a node out of the ready set.
settleNeverBlocks(s, n) ==
    IF s.phase[n] \notin {"Blocked", "Ready"} THEN s
    ELSE IF Unsatisfiable(s.deps[n], s.def[n].trigger)
         THEN terminate(s, n, "Error", TerminalReason(s.deps[n]))
    ELSE IF DepsReady(s.deps[n], s.def[n].trigger) /\ s.phase[n] = "Blocked"
         THEN makeReady(s, n)
    ELSE s

settle(s, n) ==
    IF s.phase[n] \notin {"Blocked", "Ready"} THEN s
    ELSE IF Unsatisfiable(s.deps[n], s.def[n].trigger)
         THEN terminate(s, n, "Error", TerminalReason(s.deps[n]))
    ELSE IF DepsReady(s.deps[n], s.def[n].trigger)
         THEN IF s.phase[n] = "Ready" THEN s ELSE makeReady(s, n)
    ELSE IF s.phase[n] = "Blocked" THEN s ELSE makeBlocked(s, n)
-----------------------------------------------------------------------------
(***************************************************************************)
(* Edges and nodes                                                         *)
(***************************************************************************)

linkEdge(s, from, to) ==
    LET done == s.phase[from] = "Done"
        t == IF done THEN TallyOf(s.status[from], s.reason[from]) ELSE "Unsatisfied"
        pred == [p \in {from} \cup DOMAIN s.pred[to] |->
                    IF p = from THEN done ELSE s.pred[to][p]]
    IN  [s EXCEPT !.pred[to] = pred,
                  !.succ = put(@, from, Append(s.succ[from], to)),
                  !.deps = put(@, to, put(s.deps[to], t, s.deps[to][t] + 1))]

\* unlinkEdge; no change when there is no such edge.
unlinkEdge(s, from, to) ==
    IF from \notin DOMAIN s.pred[to] THEN s
    ELSE LET t == IF s.pred[to][from] THEN TallyOf(s.status[from], s.reason[from])
                  ELSE "Unsatisfied"
         IN  [s EXCEPT !.pred[to] = Restrict(@, DOMAIN @ \ {from}),
                       !.succ = put(@, from, without(s.succ[from], to)),
                       !.deps = put(@, to, put(s.deps[to], t, Less(s.deps[to][t])))]

\* create: the next rank is handed out, and never taken back.
create(s, spec) ==
    LET n == spec.id
    IN  enterBucket([s EXCEPT
            !.phase = put(@, n, "Blocked"), !.status = put(@, n, "New"),
            !.def = put(@, n, DefOf(spec)), !.epoch = put(@, n, s.epochFloor),
            !.nextOrd = s.nextOrd + 1, !.ord = put(@, n, s.nextOrd + 1),
            !.stats.Total = @ + 1], n)

\* release: the epoch of the node that goes is retired into the floor.
floorAfter(s, n) == Max({s.epochFloor, s.epoch[n]})

release(s, n) ==
    [s EXCEPT
        !.phase = put(@, n, "Absent"), !.status = put(@, n, "New"), !.reason = put(@, n, "None"),
        !.def = put(@, n, NoDef), !.deps = put(@, n, NoDeps), !.pred = put(@, n, <<>>),
        !.succ = put(@, n, <<>>), !.epochFloor = floorAfter(s, n), !.epoch = put(@, n, 0),
        !.attempt = put(@, n, 0), !.deadline = put(@, n, 0), !.readyAt = put(@, n, 0),
        !.age = put(@, n, 0), !.ord = put(@, n, 0)]

\* The three lines that take a node out of the books before it is released.
dropNode(s, n) == release([leaveBucket(s, n) EXCEPT !.stats.Total = @ - 1], n)
=============================================================================
