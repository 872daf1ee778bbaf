--------------------------- MODULE PostgresScope ----------------------------
(***************************************************************************)
(* One scope of the PostgreSQL backend under concurrent callers            *)
(* (storage/postgres: graph.go, lease.go, list_collect.go, scope_admin.go, *)
(* retry.go over engine.go).  Every call is a READ COMMITTED transaction   *)
(* that is taken apart here at the points where it may have to wait.       *)
(*                                                                         *)
(*   db        what is committed: the rows, the scopes row (stats, floor,  *)
(*             sealed, cfg), the last id drawn, and as history what        *)
(*             CollectTerminal has deleted;                                *)
(*   tx[c]     caller c's transaction: where it is (pc), the locks it      *)
(*             holds, the ones it still wants, its own rows and counters;  *)
(*   line      the rows in the order their fifo numbers were drawn;        *)
(*   left[c]   how many more calls c makes;                                *)
(*   granted, accepted   leases handed out, completions recorded.          *)
(*                                                                         *)
(* Locks are the ids of rows, GraphLock (the scope's advisory lock) and    *)
(* ScopeLock (its row of dagw.scopes).  A FOR UPDATE statement takes them  *)
(* one by one, waiting for each; a SKIP LOCKED statement takes at once the *)
(* ones that are free.  Locks are released at the end of the transaction.  *)
(*                                                                         *)
(* Abstractions.  What a transaction does between two waits is one step.   *)
(* Calls that fail before they write (unknown scope, malformed batch,      *)
(* sizes over a cap) change nothing and are left out.                      *)
(***************************************************************************)
EXTENDS PgEngine

CONSTANTS
    Name,       \* node identifiers
    Client,     \* concurrent callers
    Menu,       \* Menu[c]: the calls c may make
    Calls,      \* Calls[c]: how many it makes
    Seeds,      \* committed states to start from
    SweepBatch, \* ScopeConfig.SweepBatchSize
    MaxRetries  \* retry.go maxAttempts

ASSUME PgAssumption ==
    /\ SweepBatch \in Nat \ {0} /\ MaxRetries \in Nat \ {0}
    /\ Calls \in [Client -> Nat]

VARIABLES db, tx, line, left, granted, accepted
vars == <<db, tx, line, left, granted, accepted>>

Idle ==
    [pc |-> "idle", req |-> [op |-> "None"], tries |-> 0, cfg |-> <<>>, locks |-> {},
     want |-> <<>>, rows |-> <<>>, gone |-> {}, stats |-> NoDelta, floor |-> 0, lastId |-> 0,
     todo |-> <<>>, queue |-> <<>>, succs |-> <<>>, then |-> "commit", ret |-> "commit",
     snap |-> <<>>, stale |-> FALSE, eff |-> {}, line |-> <<>>,
     inProgress |-> 0, leases |-> {}, accept |-> {}]

Recount(rows) ==
    [b \in Bucket |-> Cardinality({i \in DOMAIN rows :
                                      b = "Total" \/ bucketColumn(rows[i]) = b})]

\* A seed is a set of committed rows, the fifo order of the ready ones, the
\* configuration and the scope's epoch floor.
Init ==
    \E s \in Seeds :
        /\ db = [rows |-> s.rows, stats |-> Recount(s.rows), floor |-> s.floor,
                 sealed |-> FALSE, cfg |-> s.cfg, lastId |-> Max({0} \cup DOMAIN s.rows),
                 collected |-> <<>>]
        /\ line = s.line
        /\ granted = {<<s.rows[i].name, s.rows[i].epoch>> :
                         i \in {j \in DOMAIN s.rows : s.rows[j].epoch > 0}}
        /\ accepted = {<<s.rows[i].name, s.rows[i].epoch>> :
                         i \in {j \in DOMAIN s.rows : /\ s.rows[j].epoch > 0
                                                      /\ s.rows[j].phase = "Done"}}
        /\ tx = [c \in Client |-> Idle]
        /\ left = Calls
-----------------------------------------------------------------------------
(***************************************************************************)
(* Locks, steps, the end of a transaction                                  *)
(***************************************************************************)
GraphLock == 0
ScopeLock == -1

heldByOthers(c) == UNION {tx[d].locks : d \in Client \ {c}}
need(t, locks) == SelectSeq(locks, LAMBDA l : l \notin t.locks)
ViewOf(c) == View(tx[c], db.rows)

\* The rows whose fifo number still means something.
numbered(txs, rows, l) ==
    SelectSeq(l, LAMBDA i :
        \/ i \in DOMAIN rows /\ rows[i].phase = "Ready"
        \/ \E c \in Client : i \in DOMAIN txs[c].rows /\ txs[c].rows[i].phase = "Ready")

\* c's transaction moves on to t; the fifo numbers it drew are drawn for good.
Go(c, t) ==
    /\ tx' = [tx EXCEPT ![c] = [t EXCEPT !.line = <<>>]]
    /\ line' = numbered(tx', db.rows, SelectSeq(line, LAMBDA i : i \notin ToSet(t.line)) \o t.line)
    /\ UNCHANGED <<db, left, granted, accepted>>

\* An error return that forgets to roll back: the session keeps the locks.
FailKeepsLocks(c) ==
    /\ tx' = [tx EXCEPT ![c] = [Idle EXCEPT !.locks = tx[c].locks]]
    /\ line' = numbered(tx', db.rows, line)
    /\ UNCHANGED <<db, left, granted, accepted>>

\* The call returns an error and its transaction is rolled back.
Fail(c) ==
    /\ tx' = [tx EXCEPT ![c] = Idle]
    /\ line' = numbered(tx', db.rows, line)
    /\ UNCHANGED <<db, left, granted, accepted>>

\* ON DELETE CASCADE: the edges out of a deleted row go with it, whoever holds the rows
\* they lead to, and no tally hears of it.
withoutEdgesFrom(gone, rows) ==
    [i \in DOMAIN rows |-> [rows[i] EXCEPT !.preds = Restrict(@, DOMAIN @ \ gone)]]

\* The transaction commits: its rows, the counters it flushed, what it collected.
CommitWith(c, t, flushed, collected) ==
    LET rows == withoutEdgesFrom(t.gone, View(t, db.rows))
    IN  /\ db' = [db EXCEPT !.rows = rows, !.floor = Max({@, t.floor}),
                            !.lastId = Max({@, t.lastId}),
                            !.stats = [b \in Bucket |-> @[b] + flushed[b]],
                            !.collected = collected @@ @]
        /\ tx' = [d \in Client |->
                    IF d = c THEN Idle
                    ELSE [tx[d] EXCEPT !.rows = withoutEdgesFrom(t.gone, @)]]
        /\ line' = numbered(tx', rows, SelectSeq(line, LAMBDA i : i \notin ToSet(t.line)) \o t.line)
        /\ granted' = granted \cup t.leases
        /\ accepted' = accepted \cup t.accept
        /\ UNCHANGED left

Commit(c, t) == CommitWith(c, t, t.stats, <<>>)

\* c stands at pc with every lock it asked for.
At(c, pc) == tx[c].pc = pc /\ tx[c].want = <<>>

\* A FOR UPDATE, UPDATE or advisory-lock statement gets the next lock it waits for.
\* A row deleted in the meantime is passed over.
Acquire(c) ==
    /\ tx[c].want # <<>>
    /\ LET l == Head(tx[c].want)
           t == [tx[c] EXCEPT !.want = Tail(@)]
       IN  /\ l \notin heldByOthers(c)
           /\ IF l \in {GraphLock, ScopeLock} \/ l \in t.locks
              THEN Go(c, [t EXCEPT !.locks = @ \cup {l}])
              ELSE IF l \notin DOMAIN db.rows THEN Go(c, t)
              ELSE Go(c, [t EXCEPT !.locks = @ \cup {l}, !.rows = (l :> db.rows[l]) @@ @])
-----------------------------------------------------------------------------
(***************************************************************************)
(* A call begins: the configuration is read before the transaction, then   *)
(* beginGraphTx asks for the graph lock, or the named row is asked for     *)
(***************************************************************************)
graphOps == {"AddNodes", "AddEdges", "RemoveEdges", "RemoveNode", "Cancel", "CancelScope"}
retried == (graphOps \ {"CancelScope"}) \cup {"Complete"}

firstStep ==
    [AddNodes |-> "addNodes", AddEdges |-> "link", RemoveEdges |-> "unlink",
     RemoveNode |-> "removeNode", Cancel |-> "cancel", CancelScope |-> "cancelScope",
     Complete |-> "outcome", Extend |-> "extend", Claim |-> "reclaim", Sweep |-> "reclaim",
     CollectTerminal |-> "findTerminal", Seal |-> "administer",
     SetScopeConfig |-> "administer"]

begin(req, tries) ==
    [Idle EXCEPT
        !.req = req, !.tries = tries, !.cfg = db.cfg, !.pc = firstStep[req.op],
        !.lastId = db.lastId,
        !.todo = IF req.op \in {"AddEdges", "RemoveEdges"} THEN req.edges
                 ELSE IF req.op = "Cancel" THEN req.ids ELSE <<>>,
        !.want = IF req.op \in graphOps THEN <<GraphLock>>
                 ELSE IF req.op \in {"Seal", "SetScopeConfig"} THEN <<ScopeLock>>
                 ELSE IF req.op \in {"Complete", "Extend"}
                      THEN Ascending(idOf(db.rows, req.lease[1])) ELSE <<>>]

Call(c) ==
    /\ tx[c].pc = "idle" /\ left[c] > 0
    /\ \E m \in Menu[c] :
        \E req \in IF m.op \in {"Complete", "Extend"}
                   THEN {[m EXCEPT !.lease = l] : l \in granted} ELSE {m} :
            tx' = [tx EXCEPT ![c] = begin(req, 1)]
    /\ left' = [left EXCEPT ![c] = @ - 1]
    /\ UNCHANGED <<db, line, granted, accepted>>

\* Seal and SetScopeConfig are single statements outside the graph lock; they wait for
\* the scopes row only.
Administer(c) ==
    /\ At(c, "administer")
    /\ db' = IF tx[c].req.op = "Seal" THEN [db EXCEPT !.sealed = TRUE]
             ELSE [db EXCEPT !.cfg = tx[c].req.cfg]
    /\ tx' = [tx EXCEPT ![c] = Idle]
    /\ UNCHANGED <<line, left, granted, accepted>>
-----------------------------------------------------------------------------
(***************************************************************************)
(* AddNodes, AddEdges, RemoveEdges                                         *)
(***************************************************************************)

\* addNodesOnce up to the first rows it locks: a sealed scope takes no node.
AddNodes(c) ==
    /\ At(c, "addNodes")
    /\ IF db.sealed THEN Fail(c)
       ELSE LET t == tx[c]
                named == {i \in DOMAIN db.rows :
                            \E k \in DOMAIN t.req.specs : t.req.specs[k].id = db.rows[i].name}
            IN  Go(c, [t EXCEPT !.want = Ascending(named), !.pc = "materialise"])

\* materialiseAddNodesBatch, and the list of edges linkAddNodesBatch goes through.
Materialise(c) ==
    /\ At(c, "materialise")
    /\ LET t == tx[c]
           specs == t.req.specs
           known(s) == idOf(t.rows, s.id)
           create(u, s) == IF known(s) # {} THEN u ELSE createNode(u, db.rows, s, db.floor)
           edges == FlattenSeq([k \in DOMAIN specs |->
                        [d \in DOMAIN specs[k].deps |->
                            [from |-> specs[k].deps[d], to |-> specs[k].id]]])
       IN  IF \E k \in DOMAIN specs : \E i \in known(specs[k]) : ~specMatches(t.rows[i], specs[k])
           THEN Fail(c)
           ELSE LET u == FoldLeft(create, t, specs)
                IN  Go(c, [u EXCEPT !.pc = "link", !.todo = edges,
                              !.succs = [k \in DOMAIN specs |->
                                            CHOOSE i \in idOf(u.rows, specs[k].id) : TRUE]])

touch(t, i) == IF i \in ToSet(t.succs) THEN t ELSE [t EXCEPT !.succs = Append(@, i)]

\* The next edge of AddEdges or linkAddNodesBatch: its ends are looked up and locked.
\* succs gathers the touched nodes.
Link(c) ==
    /\ At(c, "link")
    /\ LET t == tx[c]
           v == ViewOf(c)
       IN  IF t.todo = <<>> THEN Go(c, [t EXCEPT !.pc = "settle"])
           ELSE LET e == Head(t.todo)
                IN  IF e.from = e.to \/ idOf(v, e.from) = {} \/ idOf(v, e.to) = {} THEN Fail(c)
                    ELSE Go(c, [t EXCEPT !.pc = "linkDependency",
                                  !.want = need(t, Ascending(idOf(v, e.from)) \o
                                                   Ascending(idOf(v, e.to)))])

\* linkDependency.  reorder has to lock the region it renumbers, row by row, so the
\* edge may take two turns.
LinkDependency(c) ==
    /\ At(c, "linkDependency")
    /\ LET t == tx[c]
           v == ViewOf(c)
           e == Head(t.todo)
           next(u, i) == [touch(u, i) EXCEPT !.todo = Tail(@), !.pc = "link"]
       IN  IF idOf(t.rows, e.from) = {} \/ idOf(t.rows, e.to) = {} THEN Fail(c)
           ELSE LET x == CHOOSE i \in idOf(t.rows, e.from) : TRUE
                    y == CHOOSE i \in idOf(t.rows, e.to) : TRUE
                    region == need(t, reorderRegion(v, x, y))
                IN  IF x \in DOMAIN t.rows[y].preds THEN Go(c, next(t, y))
                    ELSE IF t.rows[y].phase = "Done" \/ closesCycle(v, x, y) THEN Fail(c)
                    ELSE IF region # <<>> THEN Go(c, [t EXCEPT !.want = region])
                    ELSE Go(c, next(insertEdge(reorderRows(t, v, x, y), x, y), y))

\* The next edge of RemoveEdges.
Unlink(c) ==
    /\ At(c, "unlink")
    /\ LET t == tx[c]
           v == ViewOf(c)
       IN  IF t.todo = <<>> THEN Go(c, [t EXCEPT !.pc = "settle"])
           ELSE LET e == Head(t.todo)
                IN  IF idOf(v, e.from) = {} \/ idOf(v, e.to) = {} THEN Fail(c)
                    ELSE Go(c, [t EXCEPT !.pc = "unlinkDependency",
                                  !.want = need(t, Ascending(idOf(v, e.from)) \o
                                                   Ascending(idOf(v, e.to)))])

UnlinkDependency(c) ==
    /\ At(c, "unlinkDependency")
    /\ LET t == tx[c]
           e == Head(t.todo)
       IN  IF idOf(t.rows, e.from) = {} \/ idOf(t.rows, e.to) = {} THEN Fail(c)
           ELSE LET x == CHOOSE i \in idOf(t.rows, e.from) : TRUE
                    y == CHOOSE i \in idOf(t.rows, e.to) : TRUE
                    u == IF x \in DOMAIN t.rows[y].preds
                         THEN touch(unlinkDependency(t, x, y), y) ELSE t
                IN  Go(c, [u EXCEPT !.todo = Tail(@), !.pc = "unlink"])

\* settleTouched takes its snapshots: the touched rows are all locked by now.
SettleTouched(c) ==
    /\ At(c, "settle")
    /\ LET t == tx[c]
       IN  Go(c, [t EXCEPT !.pc = "settleOne", !.todo = t.succs, !.succs = <<>>, !.stale = FALSE,
                           !.snap = Restrict(t.rows, ToSet(t.succs) \cap DOMAIN t.rows)])

\* settleOne, that reads a node again only after an earlier one was seen to cascade.
SettleOne(c) ==
    /\ At(c, "settleOne")
    /\ LET t == tx[c]
       IN  IF t.todo = <<>> THEN Go(c, [t EXCEPT !.pc = "finalize", !.snap = <<>>])
           ELSE LET i == Head(t.todo)
                    n == IF t.stale THEN t.rows[i] ELSE t.snap[i]
                    u == [t EXCEPT !.todo = Tail(@), !.eff = {}]
                IN  IF i \notin DOMAIN t.snap \/ i \notin DOMAIN t.rows \/ n.phase \notin {"Blocked", "Ready"}
                    THEN Go(c, u)
                    ELSE IF Unsatisfiable(n.deps, n.def.trigger)
                         THEN Go(c, [u EXCEPT !.pc = "terminate", !.ret = "settled",
                                       !.queue = <<[id |-> i, status |-> "Error",
                                                    reason |-> TerminalReason(n.deps)]>>])
                    ELSE IF DepsReady(n.deps, n.def.trigger)
                         THEN Go(c, IF n.phase = "Ready" THEN u ELSE makeReady(u, i, n))
                    ELSE Go(c, IF n.phase = "Blocked" THEN u ELSE makeBlocked(u, i, n))

\* The effects of a settle that ended its node: did it reach another one?
Settled(c) ==
    /\ At(c, "settled")
    /\ Go(c, [tx[c] EXCEPT !.pc = "settleOne", !.stale = @ \/ Cardinality(tx[c].eff) > 1])
-----------------------------------------------------------------------------
(***************************************************************************)
(* terminate: a queue of nodes to end, each with its successors locked     *)
(***************************************************************************)

\* terminate re-reads the row it is about to end: gone, or ended already?
over(t, i) == i \notin DOMAIN t.rows \/ t.rows[i].phase = "Done"

Terminate(c) ==
    /\ At(c, "terminate")
    /\ LET t == tx[c]
       IN  IF t.queue = <<>> THEN Go(c, [t EXCEPT !.pc = t.ret])
           ELSE LET q == Head(t.queue)
                IN  IF q.id \in DOMAIN ViewOf(c) \ t.locks
                    THEN Go(c, [t EXCEPT !.want = <<q.id>>])
                    ELSE IF over(t, q.id)
                    THEN Go(c, [t EXCEPT !.queue = Tail(@)])
                    ELSE LET u == finishRow(t, q.id, q.status, q.reason)
                             succs == successorsOf(View(u, db.rows), q.id)
                         IN  Go(c, [u EXCEPT !.pc = "cascade", !.succs = succs,
                                             !.want = need(t, succs)])

\* cascadeSuccessors, once their rows are locked.
CascadeSuccessors(c) ==
    /\ At(c, "cascade")
    /\ LET t == tx[c]
           q == Head(t.queue)
       IN  Go(c, [cascade([t EXCEPT !.queue = Tail(@), !.pc = "terminate"],
                          t.succs, q.id, q.status, q.reason) EXCEPT !.succs = <<>>])

\* A list of nodes to end one after the other.
Roots(c) ==
    /\ At(c, "roots")
    /\ LET t == tx[c]
       IN  IF t.todo = <<>> THEN Go(c, [t EXCEPT !.pc = t.then])
           ELSE Go(c, [t EXCEPT !.pc = "terminate", !.ret = "roots", !.todo = Tail(@),
                         !.queue = <<[id |-> Head(t.todo), status |-> "Error",
                                      reason |-> IF t.req.op = "RemoveNode" THEN "Removed"
                                                 ELSE "Cancelled"]>>])
-----------------------------------------------------------------------------
(***************************************************************************)
(* RemoveNode, Cancel, CancelScope                                         *)
(***************************************************************************)
RemoveNode(c) ==
    /\ At(c, "removeNode")
    /\ LET i == idOf(db.rows, tx[c].req.id)
       IN  IF i = {} THEN Fail(c)
           ELSE Go(c, [tx[c] EXCEPT !.pc = "removeLoaded", !.want = Ascending(i)])

RemoveLoaded(c) ==
    /\ At(c, "removeLoaded")
    /\ LET t == tx[c]
           i == CHOOSE j \in DOMAIN t.rows : TRUE
       IN  IF t.rows = <<>> THEN Fail(c)
           ELSE IF t.rows[i].phase = "Claimed" THEN Fail(c)
           ELSE Go(c, [t EXCEPT !.pc = "applyCascade", !.want = successorsOf(db.rows, i)])

\* The successors of the node being removed that t has locked.
successorsHeld(t, i) == Ascending({j \in DOMAIN t.rows : i \in DOMAIN t.rows[j].preds})

ApplyCascade(c) ==
    /\ At(c, "applyCascade")
    /\ LET t == tx[c]
           succs == successorsHeld(t, CHOOSE j \in idOf(t.rows, t.req.id) : TRUE)
       IN  IF t.req.policy = "Reject" /\ succs # <<>> THEN Fail(c)
           ELSE IF t.req.policy = "Fail"
                THEN Go(c, [t EXCEPT !.pc = "roots", !.then = "detach", !.todo = succs])
           ELSE Go(c, [t EXCEPT !.pc = "detach"])

\* Every edge of the node goes, then its row; deleteNodeRow writes the scopes row,
\* so from here on the transaction holds that lock too.
Detach(c) ==
    /\ At(c, "detach")
    /\ LET t == tx[c]
           i == CHOOSE j \in idOf(t.rows, t.req.id) : TRUE
           succs == successorsHeld(t, i)
           u == FoldLeft(LAMBDA w, j : unlinkDependency(w, i, j), t, succs)
       IN  Go(c, [deleteNodeRow(u, i, t.rows[i].epoch) EXCEPT
                    !.want = <<ScopeLock>>, !.succs = succs,
                    !.pc = IF t.req.policy = "Detach" THEN "settle" ELSE "finalize"])

\* The next id of Cancel.
Cancel(c) ==
    /\ At(c, "cancel")
    /\ LET t == tx[c]
           i == idOf(ViewOf(c), Head(t.todo))
       IN  IF t.todo = <<>> THEN Go(c, [t EXCEPT !.pc = "finalize"])
           ELSE IF i = {} THEN Fail(c)
           ELSE Go(c, [t EXCEPT !.todo = Tail(@), !.pc = "terminate", !.ret = "cancel",
                         !.queue = [k \in 1..1 |-> [id |-> CHOOSE j \in i : TRUE,
                                                    status |-> "Error", reason |-> "Cancelled"]]])

\* The live rows are listed without a lock, in no particular order.
CancelScope(c) ==
    /\ At(c, "cancelScope")
    /\ \E order \in SetToSeqs({i \in DOMAIN db.rows : db.rows[i].phase # "Done"}) :
        Go(c, [tx[c] EXCEPT !.pc = "roots", !.then = "finalize", !.todo = order])
-----------------------------------------------------------------------------
(***************************************************************************)
(* Complete, Extend, Claim, Sweep                                          *)
(***************************************************************************)
endAs(t, i, status, reason) ==
    [t EXCEPT !.pc = "terminate", !.ret = "finalize", !.accept = {t.req.lease},
              !.queue = <<[id |-> i, status |-> status, reason |-> reason]>>]

\* loadLeasedNode and applyOutcome.
ApplyOutcome(c) ==
    /\ At(c, "outcome")
    /\ LET t == tx[c]
           i == CHOOSE j \in DOMAIN t.rows : TRUE
       IN  IF t.rows = <<>> THEN Fail(c)
           ELSE IF ~fence(t.rows[i], t.req.lease[2]) THEN Fail(c)
           ELSE \/ t.req.outcome = "Success" /\ Go(c, endAs(t, i, "Success", "None"))
                \/ t.req.outcome = "Skip" /\ Go(c, endAs(t, i, "Error", "Skipped"))
                \/ /\ t.req.outcome = "Failure" /\ exhausted(t.rows[i], t.cfg)
                   /\ Go(c, endAs(t, i, "Error", "WorkerError"))
                \/ /\ t.req.outcome = "Failure" /\ ~exhausted(t.rows[i], t.cfg)
                   /\ \E due \in BOOLEAN :
                        Go(c, [schedule(t, i, "WorkerError", due) EXCEPT
                                 !.pc = "finalize", !.accept = {t.req.lease}])

Extend(c) ==
    /\ At(c, "extend")
    /\ LET t == tx[c]
           i == CHOOSE j \in DOMAIN t.rows : TRUE
       IN  IF t.rows = <<>> THEN Fail(c)
           ELSE IF ~fence(t.rows[i], t.req.lease[2]) THEN Fail(c)
           ELSE Commit(c, [t EXCEPT !.rows[i].expired = FALSE])

\* reclaimCandidatesSQL: the oldest deadlines that have passed, locked rows skipped.
ReclaimExpired(c) ==
    /\ At(c, "reclaim")
    /\ LET t == tx[c]
           overdue == {i \in DOMAIN db.rows :
                         /\ db.rows[i].phase = "Claimed" /\ db.rows[i].expired
                         /\ i \notin heldByOthers(c)}
           take == IF Cardinality(overdue) <= SweepBatch THEN {overdue}
                   ELSE kSubset(SweepBatch, overdue)
       IN  \E S \in take : \E order \in SetToSeqs(S) :
             Go(c, [t EXCEPT !.pc = "reclaimNext", !.todo = order, !.locks = @ \cup S,
                             !.rows = Restrict(db.rows, S)])

\* reclaimExpired's loop: failAttempt for one of them.
ReclaimNext(c) ==
    /\ At(c, "reclaimNext")
    /\ LET t == tx[c]
           i == Head(t.todo)
           u == [t EXCEPT !.todo = Tail(@)]
       IN  IF t.todo = <<>> THEN Go(c, [t EXCEPT !.pc = "promote"])
           ELSE IF t.rows[i].phase # "Claimed" THEN Go(c, u)
           ELSE IF exhausted(t.rows[i], t.cfg)
                THEN Go(c, [u EXCEPT !.pc = "terminate", !.ret = "reclaimNext",
                              !.queue = <<[id |-> i, status |-> "Error", reason |-> "Timeout"]>>])
           ELSE \E due \in BOOLEAN : Go(c, schedule(u, i, "Timeout", due))

\* promoteScheduled: every retry that has come due and is not locked.
PromoteScheduled(c) ==
    /\ At(c, "promote")
    /\ LET t == tx[c]
           v == ViewOf(c)
           due == {i \in DOMAIN v : v[i].phase = "Scheduled" /\ v[i].due /\ i \notin heldByOthers(c)}
           u == [t EXCEPT !.locks = @ \cup due, !.rows = Restrict(v, due) @@ @,
                          !.pc = IF t.req.op = "Claim" THEN "claimLoop" ELSE "finalize"]
       IN  \E order \in SetToSeqs(due) :
             Go(c, FoldLeft(LAMBDA w, i : makeReady(w, i, w.rows[i]), u, order))

\* claimLoop reads the in-flight count once, without a lock, and adds what this
\* transaction has done itself.
ClaimLoop(c) ==
    /\ At(c, "claimLoop")
    /\ Go(c, [tx[c] EXCEPT !.pc = "claimOne",
                !.inProgress = db.stats.InProgress + tx[c].stats.InProgress])

ClaimOne(c) ==
    /\ At(c, "claimOne")
    /\ LET t == tx[c]
           v == ViewOf(c)
           best == claimable(v, heldByOthers(c), t.req.kinds, line)
           full == t.cfg.inFlight > 0 /\ t.inProgress >= t.cfg.inFlight
       IN  IF full \/ best = {} \/ Cardinality(t.leases) >= t.req.max
           THEN Go(c, [t EXCEPT !.pc = "finalize", !.inProgress = 0])
           ELSE \E i \in best : Go(c, [grant(t, i, v[i]) EXCEPT !.inProgress = @ + 1])
-----------------------------------------------------------------------------
(***************************************************************************)
(* CollectTerminal, finalize, deadlocks                                    *)
(***************************************************************************)

\* findTerminalCandidates, the snapshot its statement reads: finished, old enough since
\* it was inserted, and without a successor.
FindTerminal(c) ==
    /\ At(c, "findTerminal")
    /\ LET old == {i \in DOMAIN db.rows :
                     /\ db.rows[i].phase = "Done" /\ db.rows[i].aged
                     /\ successorsOf(db.rows, i) = <<>>}
       IN  IF old = {} THEN Fail(c)
           ELSE Go(c, [tx[c] EXCEPT !.pc = "lockTerminal", !.todo = Ascending(old)])

\* FOR UPDATE SKIP LOCKED LIMIT: the row itself is looked at again, its edges are not.
LockTerminal(c) ==
    /\ At(c, "lockTerminal")
    /\ LET t == tx[c]
           free == SelectSeq(t.todo, LAMBDA i : i \in DOMAIN db.rows \ heldByOthers(c))
           ids == SubSeq(free, 1, Min({t.req.limit, Len(free)}))
       IN  IF ids = <<>> THEN Fail(c)
           ELSE Go(c, [t EXCEPT !.pc = "collect", !.todo = ids, !.want = <<ScopeLock>>,
                                !.locks = @ \cup ToSet(ids),
                                !.rows = Restrict(db.rows, ToSet(ids))])

\* The rows go, with the epoch left at zero in the struct deleteNodeRow is given, and
\* the transaction commits without flushing its counters.
CollectTerminal(c) ==
    /\ At(c, "collect")
    /\ LET t == tx[c]
           collected == [i \in DOMAIN t.rows |->
                           [status |-> t.rows[i].status, reason |-> t.rows[i].reason,
                            succs |-> ToSet(successorsOf(db.rows, i))]]
       IN  CommitWith(c, FoldLeft(LAMBDA w, i : deleteNodeRow(w, i, 0), t, t.todo),
                      NoDelta, collected)

\* finalize: flushCounters updates the scopes row if a counter moved, then commit.
Finalize(c) ==
    /\ At(c, "finalize")
    /\ (tx[c].stats # NoDelta) => (ScopeLock \notin heldByOthers(c))
    /\ Commit(c, tx[c])

\* What c waits for: the holder of the next lock, or of the scopes row it must flush to.
waitsFor(c) ==
    LET next == IF tx[c].want # <<>> THEN {Head(tx[c].want)}
                ELSE IF tx[c].pc = "finalize" /\ tx[c].stats # NoDelta THEN {ScopeLock} ELSE {}
    IN  {d \in Client \ {c} : next \cap tx[d].locks # {}}

waitGraph == {<<c, d>> \in Client \X Client : d \in waitsFor(c)}

\* The server breaks a cycle of waits by aborting one of them; retryTransient runs the
\* call again, a bounded number of times.
Deadlock(c) ==
    /\ \E d \in waitsFor(c) : c \in Reach(Client, waitGraph, d)
    /\ IF tx[c].req.op \in retried /\ tx[c].tries < MaxRetries
       THEN /\ tx' = [tx EXCEPT ![c] = begin(tx[c].req, tx[c].tries + 1)]
            /\ line' = numbered(tx', db.rows, line)
            /\ UNCHANGED <<db, left, granted, accepted>>
       ELSE Fail(c)
-----------------------------------------------------------------------------
(***************************************************************************)
(* Time, for the committed row and for the copy a transaction holds        *)
(***************************************************************************)
Pass(i, field) ==
    /\ db' = [db EXCEPT !.rows[i][field] = TRUE]
    /\ tx' = [c \in Client |->
                IF i \in DOMAIN tx[c].rows /\ tx[c].rows[i].phase = db.rows[i].phase
                   /\ tx[c].rows[i].epoch = db.rows[i].epoch
                THEN [tx[c] EXCEPT !.rows[i][field] = TRUE] ELSE tx[c]]
    /\ UNCHANGED <<line, left, granted, accepted>>

Expire == \E i \in DOMAIN db.rows :
    db.rows[i].phase = "Claimed" /\ ~db.rows[i].expired /\ Pass(i, "expired")

Elapse == \E i \in DOMAIN db.rows :
    db.rows[i].phase = "Scheduled" /\ ~db.rows[i].due /\ Pass(i, "due")

Step(c) ==
    \/ Acquire(c)
    \/ AddNodes(c) \/ Materialise(c) \/ Link(c) \/ LinkDependency(c)
    \/ Unlink(c) \/ UnlinkDependency(c)
    \/ SettleTouched(c) \/ SettleOne(c) \/ Settled(c)
    \/ Terminate(c) \/ CascadeSuccessors(c) \/ Roots(c)
    \/ RemoveNode(c) \/ RemoveLoaded(c) \/ ApplyCascade(c) \/ Detach(c)
    \/ Cancel(c) \/ CancelScope(c)
    \/ ApplyOutcome(c) \/ Extend(c)
    \/ ReclaimExpired(c) \/ ReclaimNext(c) \/ PromoteScheduled(c)
    \/ ClaimLoop(c) \/ ClaimOne(c)
    \/ FindTerminal(c) \/ LockTerminal(c) \/ CollectTerminal(c)
    \/ Administer(c) \/ Finalize(c) \/ Deadlock(c)

Next == Expire \/ Elapse \/ \E c \in Client : Call(c) \/ Step(c)

\* c has a statement to run or a deadlock to be taken out of: ENABLED Step(c).
canMove(c) ==
    /\ tx[c].pc # "idle"
    /\ waitsFor(c) = {} \/ \E d \in waitsFor(c) : c \in Reach(Client, waitGraph, d)

\* The server runs every statement it can, and breaks every deadlock: weak fairness of
\* each caller's steps, with the enabling condition spelled out.
Spec ==
    /\ Init /\ [][Next]_vars
    /\ \A c \in Client : []<>(~canMove(c)) \/ []<><<tx'[c] # tx[c]>>_vars
-----------------------------------------------------------------------------
(***************************************************************************)
(* Properties of what is committed                                         *)
(***************************************************************************)

\* The tally of every committed row is a recount of its predecessors, with those that
\* CollectTerminal deleted in spite of the edge: an edge counts as satisfied exactly when
\* its source is Done.  Completions take no graph lock, so an edge may be drawn while its
\* source finishes (engine.go linkDependency, cascadeSuccessors, unlinkDependency).
TallyIsARecount ==
    \A i \in DOMAIN db.rows :
        LET r == db.rows[i]
            done(p) == db.rows[p].phase = "Done"
            counts(p, k) == TallyOf(p.status, p.reason) = k
            linked(k) == {p \in DOMAIN r.preds : done(p) /\ counts(db.rows[p], k)}
            cut(k) == {p \in DOMAIN db.collected : i \in db.collected[p].succs
                                                    /\ counts(db.collected[p], k)}
        IN  /\ DOMAIN r.preds \subseteq DOMAIN db.rows
            /\ \A p \in DOMAIN r.preds : r.preds[p] <=> done(p)
            /\ r.deps.Unsatisfied = Cardinality({p \in DOMAIN r.preds : ~done(p)})
            /\ \A k \in Tally : r.deps[k] = Cardinality(linked(k) \cup cut(k))

\* The counters of the scopes row are a recount of its rows and of the collected ones,
\* which they were never told about: the deltas of transactions that run side by side
\* all arrive, whatever order they commit in (engine.go flushCounters).
CountersAddUp ==
    LET collected == [i \in DOMAIN db.collected |-> [phase |-> "Done"] @@ db.collected[i]]
    IN  db.stats = Recount(db.rows @@ collected)

\* Every committed edge goes up in rank, although the ranks are read without a lock
\* and rewritten row by row (topo.go).
RanksAreTopological ==
    \A e \in EdgesOf(db.rows) : db.rows[e[1]].rank < db.rows[e[2]].rank

\* What the tables say twice they say alike, whichever transactions ran side by side.
WellFormed == TallyIsARecount /\ CountersAddUp /\ RanksAreTopological

\* A node nobody has tried yet is claimable only if its trigger rule holds of its
\* predecessors, whoever finished or removed them concurrently (engine.go settle).
FirstAttemptHonoursRule ==
    \A i \in DOMAIN db.rows :
        LET r == db.rows[i]
        IN  r.phase = "Ready" /\ r.attempt = 0 => DepsReady(r.deps, r.def.trigger)

rowOf(n) == LET ids == idOf(db.rows, n)
            IN  IF ids = {} THEN [phase |-> "Absent", epoch |-> 0, expired |-> FALSE]
                ELSE db.rows[CHOOSE i \in ids : TRUE]
coarse(n) == LET p == rowOf(n).phase
             IN  IF p \in {"Blocked", "Ready", "Scheduled"} THEN "Open" ELSE p
overdue == {n \in Name : rowOf(n).phase = "Claimed" /\ rowOf(n).expired}

Protocol == INSTANCE LeaseProtocol WITH
    Node <- Name, MaxEpoch <- 100,
    state <- [n \in Name |-> coarse(n)], epoch <- [n \in Name |-> rowOf(n).epoch],
    floor <- db.floor, expired <- overdue

\* A step of LeaseProtocol!Next, with the sets of nodes it quantifies over, or none.
ProtocolStep ==
    LET created == {n \in Name : coarse(n) = "Absent" /\ coarse(n)' # "Absent"}
        removed == {n \in Name : coarse(n) # "Absent" /\ coarse(n)' = "Absent"}
        ended == {n \in Name : coarse(n) \in {"Open", "Claimed"} /\ coarse(n)' = "Done"}
        regranted == {n \in Name : rowOf(n)'.epoch > rowOf(n).epoch}
        lapsed == {n \in overdue : coarse(n)' # "Claimed" \/ n \in regranted}
    IN  \/ UNCHANGED <<db, granted, accepted>>
        \/ created # {} /\ Protocol!Create(created)
        \/ removed # {} /\ Protocol!Retire(removed, ended)
        \/ granted' # granted /\ Protocol!Claim(regranted, lapsed)
        \/ \E l \in accepted' \ accepted : Protocol!Complete(l[1], l[2])
        \/ \E l \in granted : l[1] \in overdue \ overdue' /\ Protocol!Extend(l[1], l[2])
        \/ Protocol!Tick(overdue' \ overdue) \/ Protocol!Edit
        \/ Protocol!Cancel(ended) \/ Protocol!Sweep(lapsed)

\* Every commit is one step of the lease protocol, and nothing else is visible: a
\* transaction that waited, was skipped past or was run again never shows half of
\* what it does (lease.go loadLeasedNode, claimSQL; retry.go).
CommitsFollowLeaseProtocol == [][ProtocolStep]_<<db, granted, accepted>>

\* Every call returns: whoever waits for a lock gets it, is told the row is gone, or
\* is the victim of a deadlock and runs again or fails (retry.go retryTransient).
EveryCallReturns == \A c \in Client : []<>(tx[c].pc = "idle")

-----------------------------------------------------------------------------
(***************************************************************************)
(* What the documentation says and the code does not do                    *)
(***************************************************************************)

\* graph.go deleteNodeRow is shared "so the two cannot disagree about what deleting a
\* node does to the statistics", and engine.go moveBucket: "The counters stay exact".
CountersAreExact == db.stats = Recount(db.rows)

\* list_collect.go CollectTerminal: "deleting a node that something still depends on
\* would corrupt that dependent's tally, exactly the hazard memory's len(s.succ[h])>0
\* guard exists to avoid".
NothingDependedOnIsCollected ==
    \A p \in DOMAIN db.collected : db.collected[p].succs = {}

\* A lease is used at most once, also when its node's identifier is used again
\* (migrations/0003: "a recycled identifier never re-issues an epoch the previous
\* generation already used").
AtMostOneEffectPerEpoch ==
    \A i \in DOMAIN db.rows :
        db.rows[i].phase = "Claimed" => <<db.rows[i].name, db.rows[i].epoch>> \notin accepted

\* A blocked node waits for someone: some predecessor is not finished (graph.go
\* settleTouched).
BlockedWaitsOnSomeone ==
    \A i \in DOMAIN db.rows :
        db.rows[i].phase = "Blocked" => db.rows[i].deps.Unsatisfied > 0

\* The scope's limit on concurrently claimed nodes (config.go MaxInFlight).
InFlightIsBounded ==
    db.cfg.inFlight > 0 =>
        Cardinality({i \in DOMAIN db.rows : db.rows[i].phase = "Claimed"}) <= db.cfg.inFlight

\* A sealed scope gets no new node (manager.go Seal).
SealedScopeGrowsNoMore ==
    [][db.sealed => DOMAIN db'.rows \subseteq DOMAIN db.rows]_vars
=============================================================================
