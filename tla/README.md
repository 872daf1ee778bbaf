# A TLA+ model of dagworker

dagworker schedules the nodes of dependency graphs. Workers claim nodes under
leases; the outcome of a node decides, by a trigger rule, which of its successors
may run. This directory models that scheduler, its backends and the processes around
it: TLA+ modules translated from the Go source (and the Lua and SQL in it), TLC
configurations that check them on small instances, and proofs that TLAPS checks for
every instance.

```
tlc -config MemoryGraph.cfg MCMemoryScope      # one run; PROJECT.json lists them all
tlapm CoreProofs.tla                           # the proofs of one module, section 5
```

## 1. The system and its parts

| Part | Source | State | Operations that change it | Hard behaviour |
|---|---|---|---|---|
| Storage port | `store.go` | leases, epochs | the `Store` interface | fencing of late workers, recycled identifiers |
| Trigger rules | `node.go` | four counters per node | link, unlink, resolve an edge | a counter off by one starts a node early or never |
| Topological order | `storage/memory/topo.go` | a rank per node | add an edge | bounded searches; ranks left behind by aborted batches |
| In-memory backend | `storage/memory/{scope,graph,lease,memory}.go` | graph, phases, three kinds of heap, counters, policy | twelve port operations and CollectTerminal | cascades, batches that fail half-way, expiry against answers, retries |
| Event log | `storage/memory/watch.go` | a window of events, pumps, a bell | record, Watch, pump | compaction under a slow reader, lost wake-ups |
| Subscriptions, Close | `subscribe.go`, `manager.go` | channels, registry, goroutines | Subscribe, publish, offer, Close | sends against closes, overflow, shutdown with readers gone |
| File backend | `storage/file`, `storage/memory/snapshot.go` | memory, log, snapshot | mutate, Compact, Open | crash between any two steps, torn frames, replay |
| Claim loop, maintenance | `claim.go`, `manager.go` | timers, doorbell | Claim, maintain | lost doorbells, clock-driven work, Close |
| PostgreSQL backend | `storage/postgres` | rows, counters, row and advisory locks | the port, by transactions | lock order, unlocked reads, retries |
| Redis backend | `storage/redis` | keys, sorted sets | the port, by Lua scripts | scripts sent twice, one score for two orders |
| Durable watches | `storage/{postgres,redis}/watch.go` | event rows, streams | Watch, pump | cursors visible at commit, trimmed streams |
| Doorbells | `notifier.go`, `bells.go` | one LISTEN connection; shared subscriptions | join, ring, leave | lost notifications, reference counts |
| Adapters, clients | `adapters/grpc`, `adapters/http`, `typed.go` | leases in workers' hands, heartbeats | RPC handlers, renew loops | calls lost before or after the server acts |
| Daemon | `cmd/dagworkerd` | listeners, requests in flight | Run, shutdown | order of draining, handlers that wait |

A Manager calls one Store; the Store decides everything about nodes, atomically per
scope and by its own clock. The Manager publishes what a call returned as *effects*
to live subscribers and runs maintenance. Adapters call the Manager, clients call
adapters, the daemon starts and stops all of it.

The properties wanted of each part, most important first: *fencing* (a lease is
granted once, answered once, and only by its newest holder) for every backend;
*honest scheduling* (a node is claimable exactly when its rule says so, ends once,
and never waits for nothing); *bookkeeping* (counters, indexes and ranks agree with
the graph on every path, failing ones included); *durability* (a restart brings back
what was promised); *observation* (losses have a reason and are announced); *progress*
(a sealed scope drains, work is found, calls return, shutdown ends).

## 2. Modules

| Module | Models | State and actions |
|---|---|---|
| `LeaseProtocol` | the port's promise, without the graph | a node is Absent, Open, Claimed or Done; one action per group of port operations; histories of granted and accepted leases |
| `TriggerRules` | `node.go` `DepCounts` | pure operators |
| `DependencyTally` | one node's counters and phase | CreateNode, Link, Unlink, Resolve |
| `Topo`, `TopoOrder` | `topo.go`; the ranks over a scope's life | AddEdge, AddEdgeAborted, RemoveEdge, AddVertex, RemoveVertex |
| `ScopeOps` | `scope.go`: one operator per helper, from a scope record to a scope record | |
| `ScopeCommands` | `graph.go`, `lease.go`, `memory.go`: what one port operation does to a scope; the *set* of results where map order, heap ties or jitter decide | |
| `MemoryScope` | one scope of the in-memory backend | one action per port operation, `Tick` for the clock |
| `EventLog` | `storage/memory/watch.go` | Record, Watch and the pump's steps |
| `Subscriptions` | `subscribe.go`, `Manager.Close` over `EventLog` | Subscribe in its steps, both goroutines, publish, offer in two steps, the owner, Close in its steps |
| `FileStore` | the file backend over `ScopeCommands` | Mutate, Logged, LogFails, Compact, CompactResets, Crash, Open |
| `PgEngine` | `storage/postgres/engine.go`, `topo.go`, helpers: what a transaction does to the rows it has locked | |
| `PostgresScope` | one scope of the PostgreSQL backend under concurrent callers | Call, then the steps of the operation's transaction, commit, failure and retry; the clock |
| `ReadyScore`, `RedisOps` | `lua_prelude.go`: `packScore`; one operator per Lua function, on the scope's keys | |
| `RedisScope` | `lua_scripts.go` and the Go methods that call the scripts | Call, one action per script, a second send, the clock |
| `ClaimLoop` | `claim.go`, `manager.go` maintain, `WaitForWork` of each backend, `notifier.go`, `bells.go` | the steps of Claim per doorbell, the maintenance loop, connections, Close of Manager and store |
| `DurableWatch` | `Watch` and the pump of PostgreSQL and Redis | insert, commit, roll back, trim; read, deliver, wait; cancel and resume |
| `RemoteWorker` | `client/worker.go`, `client/handle.go`, `worker_service.go`, `http/{claim,leases,nodes}.go`, `typed.go` | claim, heartbeat, report and their losses, for three kinds of worker |
| `Daemon` | `daemon.go`, `admin.go`, and the waiting handlers of both adapters | start, serve, requests, the watch session, shutdown in order |

`*Proofs` modules and `FoldRule` hold the theorems (section 5); `MC*` modules hold the
constants of the runs. `MCCore`, `MCStreams` and `MCAdapters` extend specifications that
share no state, side by side: a behaviour is one of one of them, chosen at the start. (This
is why those specifications are called `TallySpec`, `TopoSpec`, `WatchSpec` and
`DaemonSpec`.) `EventLog`'s `Record` appends the events of one operation in closed form;
`MCStreams` compares it with `appendLog` once per event (`RecordIsRepeatedAppend`).
Operators with a name such as `rollbackEdgesOnly` next to `rollback` are deliberately wrong
variants: replacing the one by the other must break the property PROJECT.json pairs them
with.

How the models correspond to the code:

* Every operation of the in-memory backend holds the scope's mutex from its first
  read to its last write, so it is one action. An operation refused without effect is
  a stuttering step; one that fails after changing something (RemoveEdges, Cancel) is
  modelled with that change.
* A PostgreSQL call is a READ COMMITTED transaction, taken apart at every point where
  it may have to wait: each `FOR UPDATE` takes its locks one by one and re-reads the
  row when it gets it, `SKIP LOCKED` takes what is free, unlocked reads see what was
  committed at that moment. A waiter in a cycle of waiters is chosen as a deadlock
  victim and `retryTransient` runs it again. A worker may present any lease it was
  ever granted, at any time, more than once.
* A Redis script is one step. The Go method around it is not: what it read before
  (the configuration, the index) may be stale when the script runs, and go-redis may
  send the script a second time when the reply is lost. The order in which `SMEMBERS`
  lists its members is arbitrary.
* Times are kept as time to go in `MemoryScope`, and elsewhere as whether the clock
  has reached them; comparisons with the clock are all the code does with them. Fifo
  numbers matter only by their order. Ranks are kept as the numbers they are, as Inspect
  shows them and a refused batch uses some up (`nextOrd`). Payloads, labels, messages and worker
  names are left out.
* `Subscriptions` splits an operation wherever the code releases a mutex or another
  goroutine can be seen to act in between: between the store's commit and publish,
  between choosing the subscribers and offering, between the two selects of offer
  (the consumer is not subject to the mutex), between the parts of Subscribe and of
  Close, both the Manager's and the subscription's own (`dropSub`, then `finish`).
  The unbuffered channel between pump and loop is a joint step.
* `ClaimLoop` counts nodes and leaves durations out: a timer may fire at any time. Its
  steps are those of the four ways to wait: under the in-memory lock, on PostgreSQL's
  notifier, on a Redis subscription, and on a plain timer.
* `PostgresScope` deletes rows as the schema does: edges go with the node they start at
  (`ON DELETE CASCADE`). CollectTerminal chooses its candidates by what was committed when
  its statement began and then locks them one by one, so an edge may arrive in between;
  the history `collected` remembers what was deleted and what depended on it.
* `Daemon` lets a handler's store call hang (`call`), once per request and only when the
  shutdown timeout is short. A call on Redis gives up by itself; one on PostgreSQL comes
  back when its context ends, which is the request's, or for gRPC's ClaimNode one of its
  own. ClaimNode leaves its goroutine behind when it answers a shutdown. Closing a
  PostgreSQL pool waits for the connections in use.
* `RemoteWorker` has one renew loop per worker, which has ended before the worker claims
  again. The gRPC worker does wait for it; a caller of the HTTP client that does not is two
  workers here.
* `FileStore` keeps a clock reading as what it decides: the leases found expired, the
  backoffs found elapsed, the number of grants. A replay that would grant more than
  was recorded has run out of readings and is refused, as `gate.drifted` does.
* Modelled from their use and marked external in PROJECT.json: PostgreSQL's locks and
  deadlock detection, Redis' scripts and pub/sub, the gRPC and HTTP servers'
  graceful stop.

## 3. What the runs check

| Run | Instance | Distinct states | Shows |
|---|---|---|---|
| `Core` | 2 nodes, 3 epochs; 4 predecessors, all 5 rules; 5 symmetric vertices, 7 ranks handed out | 53,660 | the specifications the backends are measured against: an epoch is granted once and answered at most once, with deletion and recycling (`AtMostOneEffectPerEpoch`, `LeaseNeverReissued`); counters are a recount, Ready and Blocked are justified, `Unsatisfiable` is exact against every completion of a node that has predecessors (`DepsAreARecount`, `PhaseIsRight`, `DoomIsExact`); ranks stay topological, exactly the cycles are refused (`OrderIsSound`) |
| `MemoryGraph` | 3 nodes, one attempt, 6 ranks | 186,298 | bookkeeping and scheduling through edits, cascades, removals and rollbacks (`WellFormed`, `CountersAreRecounts`, `RulesAreHonoured`); a refused batch leaves nothing behind but ranks (`RefusedBatchLeavesOnlyRanks`) |
| `MemoryLease` | 2 nodes of different kind, priority and retry limit; 2 epochs, 4 ranks | 54,702 | limits, attempts and priority; **every operation is a step of `LeaseProtocol`** (`ImplementsLeaseProtocol`) |
| `MemoryDrain` | a diamond under three rules, fair | 2,372 | a sealed scope completes though workers fail, skip or vanish |
| `FileStore` | one node at a time, a batch that is always refused, 3 records, 2 epochs, 4 ranks | 1,111,643 | what was acknowledged comes back, ranks apart (`RecoveryLosesOnlyRanks`, `ReadsAreDurable`); fencing across restarts and compaction |
| `Postgres` | 2 callers, one of any of 14 edits and two of 5 worker calls, over two graphs of 3 and 4 nodes | 98,767 | committed rows agree with each other whichever transactions ran side by side (`WellFormed`); rules are honoured; **every commit is a step of `LeaseProtocol`**; every call returns |
| `Redis` | the same calls over scripts, 3 worker calls, one lost reply | 134,329 | keys agree; a script sent twice changes nothing; the score picks the best; **every script is a step of `LeaseProtocol`** |
| `ClaimLoop` | 2 workers, 1 node that lapses once, each of 5 doorbells, one lost connection, one stop | 98,133 | no wake-up lost in memory; Redis' shared bell outlives its waiters and does not leak; claimable work is claimed; Close releases everybody |
| `Streams` | one subscription of any options and a log that compacts; one durable watch, 2 transactions, a window of 1, a failing read, 2 resumptions | 223,633 | no silent loss, no send on a closed channel, Close ends; every hole in a durable stream has one of four reasons; what is wanted comes, in order |
| `Adapters` | 2 workers of different kinds on one node, 2 attempts, one lost call; the daemon over Redis or PostgreSQL with 2 requests, a store call of each that may hang, and a watch | 303,886 | leases end on both sides; shutdown is orderly; Run returns, unless an HTTP request's call on PostgreSQL hangs and its client waits (`heldUp`) |
| `PgRecycle` | one finished node, collected, added, claimed | violated | see section 4 |
| `CompactCrash` | `FileStore` with a crash between rename and reset | violated | see section 4 |

Why the bounds are enough. Each hazard in PROJECT.json needs at most: two nodes and three
epochs for fencing (old holder, new holder, recycled identifier); three nodes for a cascade
that both wakes and dooms, for a batch that fails after it has linked, and for a reorder
with a non-trivial region (five in `Core`); two transactions for a lock order, an unlocked
read or a deadlock, started from graphs in which every edit has something to touch; two
workers for a doorbell one of them leaves; two cursors for a commit out of order; a log two
events over its capacity for a reader left behind. The bounds are named in the modules
(`MaxEpoch`, `MaxOrd`, `MaxCursor`, `MaxRecords`, `MaxEffects`, `Calls`, `Resends`,
`Lapses`, `Faults`, `MaxStops`, `Losses`, `Resumes`, `MaxWatches`) and are guards on the
environment, never on a handler's own decisions. Larger instances were checked by hand with
the same result: `MemoryLease` with three epochs (102,578 states), `Streams` with two
writers (1,016,059 states, safety), `Redis` with a lost reply for each call (327,720
states). The inductive invariants of section 5 were checked first on such instances, among
them `SubInv` on 1,016,059 states, `BellInv` on 696,033 (three workers on Redis) and
`WatchInv` on 163,310 (four events).

Fairness.
* `MemoryDrain`: some worker keeps calling Claim for any kind, the Manager's
  maintenance loop keeps calling Sweep (`manager.go` maintain), and the clock advances.
  Nothing is assumed of a worker that holds a lease, and nothing makes Complete happen;
  Extend is not called, as a worker that renews for ever is entitled to keep its node.
* `Postgres`: the server runs every statement it can and breaks every deadlock. The
  condition is written out (`canMove`), as `Step` is enabled exactly then.
* `ClaimLoop`: a goroutine that can go on does, and the poll timer and the maintenance
  ticker fire. Nothing is assumed of the network: a connection may never come up and a
  notification never arrive.
* `Streams`: a goroutine that can run does, and the pump's timer fires. Nothing is assumed
  of consumers, owners, contexts or producers of events.
* `Adapters`: handlers return and goroutines run; a hanging store call comes back once
  what bounds it has happened, its own deadline, the end of its context, or Redis' client
  timeout, and not otherwise; a lease runs out and is reclaimed
  unless it is extended; the shutdown timeout passes when it is short. A `select` that
  finds its `done` channel closed again and again takes it at last (strong fairness of
  `BeatStops`: Go chooses among ready cases at random). No heartbeat need fire, no
  request need end by itself.

Deadlock checking is off where the system may stop: a finished node or ranks used up
(`Core`), a failed or shut store (`FileStore`), callers that have made their calls
(`Postgres`, `Redis`), a closed Manager (`ClaimLoop`, `Streams`), a daemon that has
returned (`Adapters`).

Limits of the instances. `MemoryGraph` cuts one edge at a time, because a longer RemoveEdges
is not atomic. `FileStore` does not issue CancelScope, whose result depends on Go's map
order, which the log does not record, nor a Cancel of several nodes, which can fail
half-way: `CancelOrder` and `HalfCancel` in section 4 do. It does not crash between the
rename and the reset of Compact, and does not follow a store whose append failed. In
`Postgres` and `Redis` only nodes that were never claimed are old enough for
CollectTerminal, because it does not retire epochs. `WorkIsClaimed` is stated of scopes
below MaxInFlight. `ClaimLoop` lets the maintenance loop sweep over the in-memory backend
only, to keep the instance small: the other backends' workers find lapsed work by their own
Claim.

## 4. Where code and documentation disagree

Two runs state what a document says and are violated by what the code does; PROJECT.json
quotes the lines.

* `PgRecycle`: PostgreSQL's CollectTerminal passes deleteNodeRow a row without its epoch,
  so the floor is not raised and an identifier that is used again is granted epochs its
  earlier generation already used.
* `CompactCrash`: after a crash between snapshot rename and log reset, the log is
  replayed over a snapshot that already contains it: a Claim then finds work it did not
  find before and runs out of readings, or a Complete is refused by the fence, and the
  store does not open.

Further instances show smaller disagreements. Each ends with the violation named. Where a
`.cfg` of its own is named, run it as `tlc -config X.cfg M`; the others use the constants of
a run, with the property in place of the run's own.

| Constants | Module | Violated | What happens |
|---|---|---|---|
| run `Core` | `MCCore` | `RootIsReady` | a node without predecessors is Skipped at birth under NoneFailedMinOneSuccess: `Unsatisfiable` takes no predecessors for predecessors that all resolved without a success. `docs/spec/01-contract.md:269-270` says "A node with zero predecessors is ready under every rule" |
| run `MemoryGraph` | `MCMemoryScope` | `RefusedBatchLeavesRanksAlone` | a batch refused after it has linked leaves permuted ranks, which Inspect shows; `graph.go:21-24` says no caller can observe it |
| `PartialCut` | `MCMemoryScope` | `RefusedCutLeavesNoTrace` | RemoveEdges that meets an unknown node keeps the cuts already made and does not settle their targets; `store.go:241` calls it atomic |
| `LateEdge` | `MCMemoryScope` | `ReadyHonoursRule` | a dependency added to a claimed node is ignored when the attempt is retried; `docs/spec/01-contract.md:149` says claimable only when the rule is satisfied. First attempts do honour it |
| run `FileStore` | `MCFileStore` | `RejectedChangesNothing` | a refused AddNodes has used up ranks; `storage/file/store.go:48` says a rejected command changed nothing |
| run `FileStore` | `MCFileStore` | `ReplayIsTheOriginal` | so a replay hands out other ranks; `nondeterminism.go:21-23` says it gives exactly the original state |
| `HalfCancel` | `MCFileStore` | `FencingSurvivesRestart` | a Cancel that fails at its second node has finished the first, which readies a successor, and is not logged. The successor's Claim is; a replay gives it to the first node, and the successor is granted the same epoch a second time. `storage/file/store.go:48` as above |
| `CancelOrder` | `MCFileStore` | `ReplayFollowsTheSameOrder` | CancelScope walks a map, and a replay in another order gives a node another reason; `nondeterminism.go:17-19` says no iteration order varies between runs |
| `FallBehind` | `MCStreams` | `FallingBehindIsTold` | a durable subscription that fell out of the log's window ends with a nil error, because `defer s.finish(ctx.Err())` (`subscribe.go:219`) evaluates its argument at once; `storage/memory/watch.go:137-139` promises ErrCursorExpired |
| run `Streams` | `MCStreams` | `NothingIsWrittenAfterClose` | a subscription whose owner is between `dropSub` and `finish` is no longer found by Manager.Close, and an offer already under way writes to its channel after Close returned; `manager.go` says none is written |
| `PgOverClaim` | `MCPostgresScope` | `InFlightIsBounded` | two Claims read the in-flight counter before either commits; `config.go:91` says MaxInFlight caps concurrently claimed nodes |
| `PgSealRace` | `MCPostgresScope` | `SealedScopeGrowsNoMore` | AddNodes reads `sealed` without a lock and commits after Seal |
| `PgStaleSettle` | `MCPostgresScope` | `BlockedWaitsOnSomeone` | settleTouched reads a later node again only if an earlier settle cascaded, which it judges by the effects (`graph.go:28-30`); a cascade that only moves a Ready node's counters has none. The node is blocked by its stale snapshot, with nothing to wait for |
| run `Postgres` | `MCPostgresScope` | `CountersAreExact` | CollectTerminal adjusts the counters and commits without flushing them, so statistics stay too high for good; `graph.go:662-667` warns of just this, `engine.go:114` says they stay exact |
| run `Postgres` | `MCPostgresScope` | `NothingDependedOnIsCollected` | an edge committed while CollectTerminal waits for its locks goes with the node it starts at, and its target's tally keeps it; `list_collect.go:113-116` says this is guarded against |
| `PgSkip` | `DurableWatch` | `NoSilentHole` | a cursor that commits after a higher one was read is never delivered; `store.go:383-390` says at least once |
| `RedisRecycle` | `MCRedisScope` | `RemovalFailsOnlyDependents` | a collected node stays in its predecessors' successor sets; made anew without dependencies, it is failed when a former predecessor is removed (`node.go:190`) |
| `CapSpin` | `ClaimLoop` | `EmptyClaimWaits` | at MaxInFlight with work Ready, WaitForWork returns at once and Claim polls without a pause |
| run `Adapters`, with `MaxWatches = 2`, `ReuseIds = TRUE` | `MCAdapters` | `CloseAllReachesEveryWatch` | the pump of a replaced gRPC watch deletes its successor's entry, so closeAll misses it (`adapters/grpc/watch.go:105-107`) |
| run `Adapters` | `MCAdapters` | `IfMatchStillHolds` | DELETE compares the ETag and removes in two steps; the node may have changed in between (`nodes.go:71`) |
| run `Adapters` | `MCAdapters` | `ErrIsNilAfterComplete` | a renewal in flight while Complete succeeds leaves an error in Err, which `handle.go:95-96` says is nil |
| run `Adapters` | `MCAdapters` | `StuckHandlerCannotHangRun` | an HTTP request's call on PostgreSQL hangs and its client waits: past the deadline the store is closed, which waits for the connection; `cmd/dagworkerd/config.go:89-91` says a stuck handler cannot hang a restart |

Met while modelling, not made into instances: Redis' CollectTerminal does not retire epochs
either; Redis' failAttempt does not see WithScopeDefaults, and sealing an unconfigured scope
hides its defaults; a failed first migration is remembered for the store's life
(`postgres.go:189`); a gRPC server stopped before its Serve is scheduled makes a clean stop
return an error; CascadeFail terminates the direct successors and lets their rules decide
further down; adding a node again with new dependencies links them (`store.go` calls it a
no-op); an epoch differs from the attempt number once an identifier is recycled (`node.go`);
live events of two writers may arrive out of cursor order (`event.go`); a Subscribe that
races Close can register after Close has emptied the registry; closing a durable
subscription leaves the store's pump running until the caller's context ends; the Gap flag
is set on the event that replaced the dropped one, which with a buffer of two or more is not
the next one delivered; Dropped counts an event when the consumer made room between the two
selects.

## 5. What is proved

Each of these holds for every value of the constants, under the assumption named, if any.
TLC has checked every inductive invariant on an instance before it was proved.

### The in-memory backend implements the lease protocol

`FoldRule`, `ScopeProofs`, `BatchProofs` and `MemoryScopeProofs` prove
`MemoryKeepsTheProtocol` (`Spec => ImplementsLeaseProtocol`): whatever the finite set of
nodes, the graph, the policy and the calls, every operation of `MemoryScope`, with all it
cascades into, is a step of `LeaseProtocol` or leaves what the protocol sees as it is. The
theorems about `LeaseProtocol` below therefore hold of the in-memory backend.
Assumptions: `NodeFinite`, `LeaseBounds` (the code validates them, `config.go`) and
`CallsAreTyped` (the calls issued are calls of the port's types).

The inductive invariant is `Books` (`BooksAreKept`): fields have their types, the lease heap
holds exactly the claimed nodes, the ready heap only ready ones, the retry heap exactly the
scheduled ones, edges are between nodes, and a node that is gone keeps no epoch. Claim takes
what the ready heap yields and reclaimExpired what the lease heap yields, so without this
they might grant or reclaim a node the protocol forbids; and a recycled identifier starts
from the floor only because its old epoch was retired.

The argument, from the inside out:
1. A loop of the code is a fold. `FoldKeeps` is induction over a fold, stated once for any
   loop body and any fact (as constants of `FoldRule`); the other modules instantiate it.
2. `ScopeProofs`: each helper keeps the books and moves nodes only as far as its caller may
   rely on. `Follows(s, t, F, R)` says it of two scopes: nodes outside F do not finish, none
   outside R lose a lease otherwise, no epoch moves. terminate's walk keeps it turn by turn.
   From this follow what Cancel and CancelScope, and the three answers of a worker, do.
3. `BatchProofs`: a batch grows by linking and creating, and rollback takes back what it
   made. The nodes of a failed batch leave as they came, without a lease and without an
   epoch of their own, so that nothing of them has to be retired. A node that RemoveNode or
   CollectTerminal takes away does have an epoch, and leaves it to the floor.
4. `MemoryScopeProofs`: one lemma per operation (`CreateStep`, `EditStep`, `RetireStep`,
   `CancelStep`, `CompleteStep`, `SweepStep`, `ClaimStep`, `ExtendStep`, `TickStep`,
   `PolicyStep`) maps it to the protocol's action; `StepMaps` puts them together.

### The components that stand alone: `CoreProofs`

**`LeaseProtocol`** (no assumption): `TypeCorrect`,
`AtMostOneEffect` (`Spec => []AtMostOneEffectPerEpoch`), `HolderIsNewest`,
`LeasesAreFresh` (`Spec => LeaseNeverReissued`), `DoneStaysDone`. The inductive invariant
is `Fencing`. That no epoch is answered twice is not inductive: for a Claim to issue a
fresh epoch one must know that every epoch ever granted on a node is at most its current
one (`GrantsBelowEpoch`), and for a node created again, that they are all below the floor
its epoch starts from. This is the argument for `scope.epochFloor`: without it
(`RetireForgetsFloor`) the invariant fails at Retire, and `PgRecycle` is that failure.
`Fencing` adds that accepted leases were granted, that the holder's lease was granted and
that only held leases are waiting to expire. The steps that move no epoch share the lemma
`QuietStep`.

**`DependencyTally`** (assumption `PredFinite`): `CountersAreExact`
(`TallySpec => []DepsAreARecount`), `ReadyIsJustified`, `NobodyWaitsForNothing` and their
conjunction `PhaseIsJustified` (`TallySpec => []PhaseIsRight`). The inductive invariant is
`TallyInv`. The recount needs to know that an edge's flag agrees with its predecessor's
outcome (`FlagsAgree`): unlinkEdge chooses the counter to lower from the outcome. That a
Ready node's rule holds needs the recount: terminate never re-blocks a node, which is sound
only because a Ready node under a rule other than Always has no waiting edge left
(`ReadyIsResolved`). That a Blocked node has someone to wait for rests on `Decided`: with
nothing unresolved, every rule is either satisfied or unsatisfiable.
`DoomIsNeverEarlyOrLate` (`TallySpec => []DoomIsExact`): `Unsatisfiable` gives a node up
exactly when no completion of its open predecessors satisfies its rule. It is of a node that
has an edge; what happens to one without is `RootIsReady` in section 4.

**`TopoOrder`** (no assumption): `OrderStaysSound` (`TopoSpec => []OrderIsSound`),
the correctness of Pearce and Kelly's incremental order as `topo.go` has it. The inductive
invariant `TopoInv` says that the ranks are distinct, topological and not above the last one
handed out. The work is in one step, `AcceptedEdgeKeepsOrder`. Its lemmas: what a search
finds is the least set closed under its edges (`ReachIsLeast`), so `forwardSearch` stays
below the bound and `backwardSearch` above it, and neither stops short (`ForwardRegion`,
`BackwardRegion`); the two regions share a node only if the edge closes a cycle
(`RegionsShareNothing`), which is what the verdict reports (`VerdictIsExact`); the k-th
smallest of a finite set of numbers exists and grows with k (`KthSmallestIsKth`,
`KthSmallestGrows`), so that handing the pooled ranks out again, first to the backward
region and then to the forward one, is a permutation (`ReorderPermutes`) that moves no node
of the one up and no node of the other down.

**`Daemon`** (no assumption): `ShutdownStaysOrderly` (`DaemonSpec => []ShutdownIsOrderly`),
for any set of requests of any kinds, whichever of their store calls hang. `DrainInv` says
of each stage of Run what has been done by then: before the Manager closes, no request is in
flight or the timeout ran out.

**`ReadyScore`** (assumption `ScaleAssumption`): `ScoreIsLexicographic` and
`ScoreIsExact`: Redis' packed score orders by priority, then by arrival, and fits a 64-bit
float, as long as a scope's arrival counter stays below 2^32.

### Doorbells: `ClaimLoopProofs`

`NoMemoryWakeupIsLost` (`Spec => []NoWakeupIsLost`; assumption `NodesAssumption`), for any
number of workers and nodes. The property is not inductive: `WakeInv` adds where a worker of
the in-memory backend can be (never at the unlocked steps of the other doorbells) and that a
parked one holds the channel makeReady closes.

`SharedBellIsNeverTornOut` (`Spec => []BellOutlivesItsWaiters`; assumption `WorkerFinite`),
for any number of workers. `leave` finds its bell by name and compares nothing else, so what
keeps it from dropping somebody else's subscription is a count. `BellInv` says what is
counted: until closeAll the entry's waiters are exactly the workers that joined and have not
left, and each holds the entry's connection; every open subscription has one owner, the map,
closeAll, or the one worker that is tearing it down.

### Events: `DurableWatchProofs`, `SubscriptionsProofs`

`EveryHoleHasAReason` (`WatchSpec => []HolesHaveAReason`) and `NothingIsSentTwice`
(`WatchSpec => DeliversInOrder`; assumptions `WindowIsNat`, `BatchSizePositive`). `WatchInv`
says that a transaction's cursors are its own until it commits, that a Redis stream is a
window ending with its newest event, that a batch holds every cursor up to its last but for
those with a reason, and that an open stream goes on where the subscriber's account ends. A
read that returns the next rows in order and no more than a batch is what makes a batch so
(`RowsAreTheFirst`).

`ClosingIsClean` (`Spec => []CloseIsClean`) and `NoLossIsSilent` (`Spec =>
[]NothingIsLostSilently`; assumptions `MaxEffectsIsNat`, `WatcherFinite`, `GoroutinesApart`,
`SizePositive`, `LogCapPositive`), for any number of writers and subscriptions of any
options. `SubInv` has four parts: who may be in the middle of an offer to whom (`OfferInv`);
that a subscription nobody has finished is in the registry, in the list Close took from it,
or in the hands of somebody who took it out to finish it (`CloseInv`); that the last event a
live subscriber lost comes before one it was sent with the gap flag (`StreamInv`); and that
what a durable one is sent, what its goroutine holds and what the pump will read next are
one run of cursors (`ChainInv`).

### Only model-checked

* Every liveness property (`SealedScopeCompletes`, `EveryCallReturns`, `WorkIsClaimed`,
  `CloseReleases`, `CloseReturnsAtLast`, `DurableCatchesUp`, `WantedIsDelivered`,
  `EveryLeaseEnds`, `RunReturns`): fairness is out of the prover's reach.
* The in-memory backend's counters, ranks, rules and attempts through a whole operation
  (`WellFormed`, `CountersAreRecounts`, `RulesAreHonoured`, `RefusedBatchLeavesOnlyRanks`,
  `AttemptsAreAccounted`, `InFlightIsBounded`, `ClaimHonoursPriority`). Their kernel is proved
  of one node (`DependencyTally`) and of one edge (`TopoOrder`). Carrying it through
  terminate's walk needs what a successor list, a bucket and a rank are in the middle of each
  loop, and that the walk ends within the turns it is given.
* `FileStore`: recovery compares the store with what a fold over its log computes; what
  that computes for every log is induction over data, out of the prover's reach.
* `PostgresScope` and `RedisScope`: that their steps are steps of `LeaseProtocol` is checked
  by TLC only. The argument made for the in-memory backend applies to Redis' scripts, which
  are atomic too; it has not been carried out for them.

## 6. Not modelled

* Reads (GetNode, Inspect, ListNodes, ScopeStats and their wire forms): they change nothing,
  and what they could disagree about is stated of the state itself.
* The sift operations of `internal/pq`: an algorithm on an array that its unit
  tests compare with a sorted list (`TestAgreesWithSortedModel`); the models use the heap's
  contract.
* Subscription filters, and the parts of the gRPC and HTTP adapters that convert a request,
  call the Manager once and convert the answer or the error. They keep no state.
* Generated code, authentication and middleware, configuration and secrets, metrics and
  logging, migrations, the command line, the conformance suite: no scheduler state, or
  pure I/O.
* A file store after a failed append: the code documents no promise for it.
* Failures inside a Lua script, but for one: the search that meets a successor without a rank
  ends its script with the writes made so far in place (`searchVerdict`). The other errors are
  those of a server out of memory or of keys of the wrong type.
