----------------------------- MODULE RedisScope -----------------------------
(***************************************************************************)
(* One scope in the Redis backend (storage/redis): the scripts of          *)
(* lua_scripts.go, which the server runs one at a time, and the Go methods *)
(* of ops_graph.go, ops_lease.go, reads.go and redis.go that call them.    *)
(*                                                                         *)
(* A call is made (Call), which is when the Go method reads the scope's    *)
(* configuration or lists the index, and its script runs later (Run), when *)
(* others may have run theirs.  The client library sends a command again   *)
(* when its reply is lost, so a script may run twice.  Each client makes a *)
(* bounded number of calls from its menu.                                  *)
(***************************************************************************)
EXTENDS RedisOps

CONSTANTS
    Client,
    Menu,       \* Menu[c]: the requests c chooses from
    Calls,      \* Calls[c]: how many calls c makes
    Resends,    \* how many replies are lost, each of which makes its client send a script again
    Seeds,      \* the key spaces a behaviour starts from
    Orders,     \* listings of Id
    SweepBatch  \* ScopeConfig.SweepBatchSize

VARIABLES
    k,          \* the keys of the scope
    call,       \* call[c]: the request c is waiting for, or NoCall
    left,       \* left[c]: the calls c has left
    resends,    \* the replies that may still be lost
    granted,    \* history: every lease the claim script returned
    accepted    \* history: every lease whose completion the script took

vars == <<k, call, left, resends, granted, accepted>>

NoCall == [op |-> "none"]

Recount(s) ==
    [b \in Bucket |-> Cardinality({i \in DOMAIN s.node : b \in {"Total", bucketField(s.node[i])}})]

Init ==
    /\ k \in {[s EXCEPT !.stats = Recount(s)] : s \in Seeds}
    /\ call = [c \in Client |-> NoCall]
    /\ left = Calls
    /\ resends = Resends
    /\ granted = {<<i, k.node[i].epoch>> : i \in {j \in DOMAIN k.node : k.node[j].epoch > 0}}
    /\ accepted = {l \in granted : k.node[l[1]].phase = "Done"}
-----------------------------------------------------------------------------
(***************************************************************************)
(* Batches.  verdict is "ok" until the batch is refused, or stopped by a   *)
(* Lua error.                                                              *)
(***************************************************************************)
startBatch(s) == [k |-> s, verdict |-> "ok", created |-> <<>>, edges |-> <<>>, touched |-> <<>>]
touch(b, i) == IF Contains(b.touched, i) THEN b ELSE [b EXCEPT !.touched = Append(@, i)]
refuse(b) == [b EXCEPT !.verdict = "refused"]

\* Both scripts' way to a new edge between nodes that exist.
linkNew(b, p, i, o) ==
    IF b.k.node[i].phase = "Done" THEN refuse(b)
    ELSE LET r == orderEdge(b.k, p, i, o)
         IN  CASE r.verdict = "cycle" -> refuse(b)
               [] r.verdict = "error" -> [b EXCEPT !.verdict = "error"]
               [] OTHER -> [b EXCEPT !.k = linkEdge(r.k, p, i), !.edges = Append(@, <<p, i>>)]

materialise(b, spec) ==
    IF b.verdict # "ok" THEN b
    ELSE IF spec.id \in DOMAIN b.k.node THEN IF specMatches(b.k, spec) THEN b ELSE refuse(b)
    ELSE [b EXCEPT !.k = createNode(@, spec), !.created = Append(@, spec.id)]

linkSpec(b, spec, o) ==
    LET link(c, p) ==
            IF c.verdict # "ok" THEN c
            ELSE IF p \notin DOMAIN c.k.node THEN refuse(c)
            ELSE IF hasEdge(c.k, p, spec.id) THEN c
            ELSE linkNew(c, p, spec.id, o)
    IN  IF b.verdict = "ok" THEN FoldLeft(link, touch(b, spec.id), spec.deps) ELSE b

addEdge(b, e, o) ==
    IF b.verdict # "ok" THEN b
    ELSE IF e[1] \notin DOMAIN b.k.node \/ e[2] \notin DOMAIN b.k.node \/ e[1] = e[2] THEN refuse(b)
    ELSE IF hasEdge(b.k, e[1], e[2]) THEN b
    ELSE LET c == linkNew(b, e[1], e[2], o) IN IF c.verdict = "ok" THEN touch(c, e[2]) ELSE c

finishBatch(b, o) ==
    CASE b.verdict = "ok" -> FoldLeft(LAMBDA s, i : settle(s, i, o), b.k, b.touched)
      [] b.verdict = "refused" -> rollbackBatch(b.k, b.created, b.edges)
      [] b.verdict = "error" -> b.k
-----------------------------------------------------------------------------
(***************************************************************************)
(* The scripts                                                             *)
(***************************************************************************)
scriptAddNodes(s, specs, o) ==
    IF s.cfg.sealed THEN s
    ELSE finishBatch(FoldLeft(LAMBDA b, spec : linkSpec(b, spec, o),
                              FoldLeft(materialise, startBatch(s), specs), specs), o)

scriptAddEdges(s, es, o) ==
    finishBatch(FoldLeft(LAMBDA b, e : addEdge(b, e, o), startBatch(s), es), o)

\* An unknown node ends the script: what was cut before stays cut, and unsettled.
scriptRemoveEdges(s, es, o) ==
    LET cut(b, e) ==
            IF b.verdict # "ok" THEN b
            ELSE IF e[1] \notin DOMAIN s.node \/ e[2] \notin DOMAIN s.node THEN refuse(b)
            ELSE IF hasEdge(b.k, e[1], e[2])
                 THEN touch([b EXCEPT !.k = unlinkEdge(@, e[1], e[2])], e[2])
            ELSE b
        b == FoldLeft(cut, startBatch(s), es)
    IN  IF b.verdict = "ok" THEN finishBatch(b, o) ELSE b.k

scriptRemoveNode(s, i, policy, o) ==
    LET succs == listed(s.succ[i], o)
        failed == IF policy = "Fail"
                  THEN FoldLeft(LAMBDA r, w : terminate(r, w, "Error", "Removed", o), s, succs)
                  ELSE s
        cut == FoldLeft(LAMBDA r, w : unlinkEdge(r, i, w), failed, succs)
        bare == FoldLeft(LAMBDA r, p : unlinkEdge(r, p, i), cut, listed(DOMAIN cut.pred[i], o))
        idle == [unlist(bare, i) EXCEPT !.sched = @ \ {i}, !.leases = @ \ {i}]
        gone == deleteNodeKeys([adjustBucket(idle, s.node[i], -1) EXCEPT !.stats.Total = @ - 1], i)
    IN  IF \/ i \notin DOMAIN s.node \/ s.node[i].phase = "Claimed"
           \/ policy = "Reject" /\ succs # <<>>
        THEN s
        ELSE IF policy = "Detach" THEN FoldLeft(LAMBDA r, w : settle(r, w, o), gone, succs)
        ELSE gone

cancelEach(s, ids, o) ==
    FoldLeft(LAMBDA r, i : terminate(r, i, "Error", "Cancelled", o), s, ids)

scriptCancelNodes(s, ids, o) ==
    IF ToSet(ids) \subseteq DOMAIN s.node THEN cancelEach(s, ids, o) ELSE s

\* In the order of the index, which is the order of the identifiers.
scriptCancelScope(s, o) ==
    cancelEach(s, listed(DOMAIN s.node, CHOOSE lex \in Orders : TRUE), o)

\* One turn of the claim script's loop: the lowest score of the kinds asked for.
grantOne(g, kinds, cap) ==
    LET fits == {i \in DOMAIN g.k.ready : kinds = {} \/ g.k.node[i].def.kind \in kinds}
    IN  IF fits = {} \/ (cap > 0 /\ g.k.stats.InProgress >= cap) THEN g
        ELSE LET i == CHOOSE i \in fits : \A j \in fits : g.k.ready[i] <= g.k.ready[j]
                 n == [g.k.node[i] EXCEPT !.phase = "Claimed", !.status = "InProgress",
                          !.epoch = @ + 1, !.attempt = @ + 1, !.expired = FALSE]
             IN  [k |-> [rewrite(unlist(g.k, i), i, n) EXCEPT !.leases = @ \cup {i}],
                  leases |-> g.leases \cup {<<i, n.epoch>>}]

\* cap is the in-flight limit the caller read before.
scriptClaim(s, kinds, max, cap, nodelay, o) ==
    FoldLeft(LAMBDA g, j : grantOne(g, kinds, cap),
             [k |-> promoteScheduled(reclaimExpired(s, SweepBatch, nodelay, o), o), leases |-> {}],
             [j \in 1..max |-> j])

\* The fence without the epoch.
fenceIgnoresEpoch(s, l) == l[1] \in DOMAIN s.node /\ s.node[l[1]].phase = "Claimed"

\* The test of the complete and extend scripts.
fence(s, l) ==
    l[1] \in DOMAIN s.node /\ s.node[l[1]].phase = "Claimed" /\ s.node[l[1]].epoch = l[2]

\* For a lease that passed the fence.
scriptComplete(s, l, outcome, due, o) ==
    CASE outcome = "Success" -> terminate(s, l[1], "Success", "None", o)
      [] outcome = "Skip" -> terminate(s, l[1], "Error", "Skipped", o)
      [] outcome = "Fail" -> failAttempt(s, l[1], "WorkerError", due, o)

scriptExtend(s, l) == [s EXCEPT !.node[l[1]].expired = FALSE]

scriptSweep(s, limit, nodelay, o) == promoteScheduled(reclaimExpired(s, limit, nodelay, o), o)

\* CollectIfEligible deletes the keys itself: the epoch is not retired, and the
\* node stays in the successor sets of its predecessors.
scriptCollectIfEligible(s, i) ==
    IF \/ i \notin DOMAIN s.node \/ s.node[i].phase # "Done" \/ ~ s.node[i].aged
       \/ s.succ[i] # {}
    THEN s
    ELSE dropKeys([adjustBucket(s, s.node[i], -1) EXCEPT !.stats.Total = @ - 1], i)
-----------------------------------------------------------------------------
(***************************************************************************)
(* The Go methods                                                          *)
(***************************************************************************)

\* What the method reads before it runs its script: Claim the in-flight limit
\* (resolvedConfig), CollectTerminal the index.  A worker presents any lease it was
\* ever granted.
prepared(req, l) ==
    CASE req.op = "Claim" -> [req EXCEPT !.cap = k.cfg.inFlight]
      [] req.op = "CollectTerminal" ->
            [req EXCEPT !.ids = listed(DOMAIN k.node, CHOOSE lex \in Orders : TRUE)]
      [] req.op \in {"Complete", "Extend"} -> [req EXCEPT !.lease = l]
      [] OTHER -> req

Call(c) ==
    /\ call[c] = NoCall /\ left[c] > 0
    /\ \E req \in Menu[c], l \in granted \cup {<<"", 0>>} :
          /\ req.op \in {"Complete", "Extend"} <=> l \in granted
          /\ call' = [call EXCEPT ![c] = prepared(req, l) @@ [again |-> 0]]
    /\ left' = [left EXCEPT ![c] = @ - 1]
    /\ UNCHANGED <<k, resends, granted, accepted>>

\* The reply arrives, or it is lost and the client sends the script again.
Return(c) ==
    \/ call' = [call EXCEPT ![c] = NoCall] /\ UNCHANGED resends
    \/ resends > 0 /\ resends' = resends - 1 /\ call' = [call EXCEPT ![c].again = @ + 1]

\* A script that grants and accepts nothing.
Run(c, op, s) ==
    /\ call[c].op = op
    /\ k' = s
    /\ Return(c)
    /\ UNCHANGED <<left, granted, accepted>>

AddNodes(c) ==
    \E o \in Orders : call[c].op = "AddNodes" /\ Run(c, "AddNodes", scriptAddNodes(k, call[c].specs, o))

AddEdges(c) ==
    \E o \in Orders : call[c].op = "AddEdges" /\ Run(c, "AddEdges", scriptAddEdges(k, call[c].edges, o))

RemoveEdges(c) ==
    \E o \in Orders :
        call[c].op = "RemoveEdges" /\ Run(c, "RemoveEdges", scriptRemoveEdges(k, call[c].edges, o))

RemoveNode(c) ==
    \E o \in Orders :
        /\ call[c].op = "RemoveNode"
        /\ Run(c, "RemoveNode", scriptRemoveNode(k, call[c].id, call[c].policy, o))

Cancel(c) ==
    \E o \in Orders : call[c].op = "Cancel" /\ Run(c, "Cancel", scriptCancelNodes(k, call[c].ids, o))

CancelScope(c) ==
    \E o \in Orders : call[c].op = "CancelScope" /\ Run(c, "CancelScope", scriptCancelScope(k, o))

\* HSET of the one field; SetScopeConfig's HSET leaves that field alone.
Seal(c) == Run(c, "Seal", [k EXCEPT !.cfg.sealed = TRUE])

SetScopeConfig(c) ==
    /\ call[c].op = "SetScopeConfig"
    /\ Run(c, "SetScopeConfig", [k EXCEPT !.cfg = call[c].cfg @@ @])

Claim(c) ==
    /\ call[c].op = "Claim"
    /\ \E o \in Orders, nodelay \in SUBSET Expired(k) :
          LET g == scriptClaim(k, call[c].kinds, call[c].max, call[c].cap, nodelay, o)
          IN  k' = g.k /\ granted' = granted \cup g.leases
    /\ Return(c)
    /\ UNCHANGED <<left, accepted>>

Complete(c) ==
    /\ call[c].op = "Complete"
    /\ IF fence(k, call[c].lease)
       THEN /\ \E o \in Orders, due \in BOOLEAN :
                  k' = scriptComplete(k, call[c].lease, call[c].outcome, due, o)
            /\ accepted' = accepted \cup {call[c].lease}
       ELSE UNCHANGED <<k, accepted>>
    /\ Return(c)
    /\ UNCHANGED <<left, granted>>

Extend(c) ==
    /\ call[c].op = "Extend"
    /\ Run(c, "Extend", IF fence(k, call[c].lease) THEN scriptExtend(k, call[c].lease) ELSE k)

Sweep(c) ==
    \E o \in Orders, nodelay \in SUBSET Expired(k) :
        Run(c, "Sweep", scriptSweep(k, SweepBatch, nodelay, o))

\* CollectTerminal runs a script for each identifier it listed, until it has
\* deleted as many as it may.
CollectTerminal(c) ==
    /\ call[c].op = "CollectTerminal"
    /\ IF call[c].ids = <<>> \/ call[c].limit = 0
       THEN call' = [call EXCEPT ![c] = NoCall] /\ UNCHANGED k
       ELSE LET i == Head(call[c].ids)
                s == scriptCollectIfEligible(k, i)
            IN  /\ k' = s
                /\ call' = [call EXCEPT ![c].ids = Tail(@),
                                        ![c].limit = IF s = k THEN @ ELSE @ - 1]
    /\ UNCHANGED <<left, resends, granted, accepted>>

\* The server's clock passes a lease's deadline or a retry's ready time.  The
\* retention is longer than a behaviour: only nodes that had finished long before it
\* are aged.
Expire ==
    /\ \E i \in {j \in k.leases : ~ k.node[j].expired} : k' = [k EXCEPT !.node[i].expired = TRUE]
    /\ UNCHANGED <<call, left, resends, granted, accepted>>

Elapse ==
    /\ \E i \in {j \in k.sched : ~ k.node[j].due} : k' = [k EXCEPT !.node[i].due = TRUE]
    /\ UNCHANGED <<call, left, resends, granted, accepted>>

Step(c) ==
    \/ Call(c)
    \/ AddNodes(c) \/ AddEdges(c) \/ RemoveEdges(c) \/ RemoveNode(c)
    \/ Cancel(c) \/ CancelScope(c) \/ Seal(c) \/ SetScopeConfig(c)
    \/ Claim(c) \/ Complete(c) \/ Extend(c) \/ Sweep(c) \/ CollectTerminal(c)

Next == Expire \/ Elapse \/ \E c \in Client : Step(c)

Spec == Init /\ [][Next]_vars
-----------------------------------------------------------------------------
(***************************************************************************)
(* Properties                                                              *)
(***************************************************************************)

\* ScopeStats reads counters that every script keeps by increments, through
\* rollbacks, cascades and collections; they equal a recount (adjustBucket).
StatsAreARecount == k.stats = Recount(k)

\* Every node is in the sorted set of its phase and in no other, so that nothing is
\* claimed twice and nothing is forgotten by claim, sweep and promotion.
IndexesMatchPhases ==
    LET In(phase) == {i \in DOMAIN k.node : k.node[i].phase = phase}
    IN  DOMAIN k.ready = In("Ready") /\ k.sched = In("Scheduled") /\ k.leases = In("Claimed")

\* The four counters of a node are a recount of its predecessors, although each is
\* moved by increments of its own in linkEdge, markSatisfied and unlinkEdge.
DepsAreARecount ==
    \A i \in DOMAIN k.node :
        LET preds == DOMAIN k.pred[i]
            done == {p \in preds : k.node[p].phase = "Done"}
            tally(t) == {p \in done : TallyOf(k.node[p].status, k.node[p].reason) = t}
        IN  /\ \A p \in preds : k.pred[i][p] <=> p \in done
            /\ k.node[i].deps.Unsatisfied = Cardinality(preds \ done)
            /\ \A t \in Tally : k.node[i].deps[t] = Cardinality(tally(t))

\* Every edge goes up in rank, also after a refused batch whose ranks stay and after
\* a search that met a node collected meanwhile (addEdgeOrder, rollbackBatch).
RanksAreTopological ==
    \A e \in EdgesOf(k) : k.node[e[1]].ord < k.node[e[2]].ord

\* Every counter, of a node or of the scope, is a recount.
CountersAreRecounts == StatsAreARecount /\ DepsAreARecount

\* The sorted sets and the ranks agree with the phases and the edges.
WellFormed == IndexesMatchPhases /\ RanksAreTopological

\* What a caller can see: not the ranks.
Visible(s) ==
    [s EXCEPT !.nextOrd = 0, !.node = [i \in DOMAIN @ |-> [@[i] EXCEPT !.ord = 0]]]

\* The graph scripts, as one operator of the request.
edited(s, req, o) ==
    CASE req.op = "AddNodes" -> scriptAddNodes(s, req.specs, o)
      [] req.op = "AddEdges" -> scriptAddEdges(s, req.edges, o)
      [] req.op = "RemoveEdges" -> scriptRemoveEdges(s, req.edges, o)
      [] req.op = "RemoveNode" -> scriptRemoveNode(s, req.id, req.policy, o)
      [] req.op = "Cancel" -> scriptCancelNodes(s, req.ids, o)
      [] req.op = "CancelScope" -> scriptCancelScope(s, o)
      [] OTHER -> s


\* One number per ready node decides who is next, and it means what the contract
\* says: a granted node has a higher priority than every node of the kinds asked for
\* that was passed over, or the same one and an earlier arrival (packScore, and every
\* script that re-lists a node: a retry or a new edge sends it to the back).
ClaimTakesTheBest ==
    [][\A l \in granted' \ granted, j \in DOMAIN k'.ready, c \in Client :
         LET i == l[1]
             wanted == call[c].op = "Claim" /\ (call[c].kinds = {} \/ k'.node[j].def.kind \in call[c].kinds)
         IN  call'[c] # call[c] /\ wanted
             => \/ k'.node[j].def.priority < k'.node[i].def.priority
                \/ /\ k'.node[j].def.priority = k'.node[i].def.priority
                   /\ k'.node[i].fifo < k'.node[j].fifo]_vars

phaseOf(i) == IF i \in DOMAIN k.node THEN k.node[i].phase ELSE "Absent"
epochOf(i) == IF i \in DOMAIN k.node THEN k.node[i].epoch ELSE 0
coarse(i) == IF phaseOf(i) \in {"Blocked", "Ready", "Scheduled"} THEN "Open" ELSE phaseOf(i)

Protocol == INSTANCE LeaseProtocol WITH
    Node <- Id, MaxEpoch <- 100,
    state <- [i \in Id |-> coarse(i)], epoch <- [i \in Id |-> epochOf(i)],
    floor <- k.floor, expired <- Expired(k)

\* A step of LeaseProtocol!Next, with the sets of nodes it quantifies over, or none.
ProtocolStep ==
    LET created == {i \in Id : coarse(i) = "Absent" /\ coarse(i)' # "Absent"}
        removed == {i \in Id : coarse(i) # "Absent" /\ coarse(i)' = "Absent"}
        ended == {i \in Id : coarse(i) \in {"Open", "Claimed"} /\ coarse(i)' = "Done"}
        regranted == {i \in Id : epochOf(i)' > epochOf(i)}
        lapsed == {i \in Expired(k) : coarse(i)' # "Claimed" \/ i \in regranted}
    IN  \/ UNCHANGED <<k, granted, accepted>>
        \/ created # {} /\ Protocol!Create(created)
        \/ removed # {} /\ Protocol!Retire(removed, ended)
        \/ granted' # granted /\ Protocol!Claim(regranted, lapsed)
        \/ \E l \in accepted' \ accepted : Protocol!Complete(l[1], l[2])
        \/ \E l \in granted : l[1] \in Expired(k) \ Expired(k)' /\ Protocol!Extend(l[1], l[2])
        \/ Protocol!Tick(Expired(k)' \ Expired(k)) \/ Protocol!Edit
        \/ Protocol!Cancel(ended) \/ Protocol!Sweep(lapsed)

\* Every script is one step of the lease protocol, delivered once or twice
\* (lua_scripts.go; store.go: "Each mutating method is one atomic operation").
ScriptsFollowLeaseProtocol == [][ProtocolStep]_<<k, granted, accepted>>

\* CascadeFail "transitions every successor" of the node it removes (node.go): whoever
\* is failed for a removal depended on the node that went.
RemovalFailsOnlyDependents ==
    [][\A i \in DOMAIN k.node \cap DOMAIN k'.node :
         k'.node[i].reason = "Removed" /\ k.node[i].reason # "Removed"
         => \E p \in DOMAIN k.pred[i] : p \notin DOMAIN k'.node]_vars
=============================================================================
