--------------------------- MODULE ClaimLoopProofs ---------------------------
(***************************************************************************)
(* The doorbells of two backends, whatever the number of workers, nodes,   *)
(* lapses and stops.                                                       *)
(*                                                                         *)
(* In memory no wakeup is lost (NoWakeupIsLost).  This rests on where a    *)
(* memory worker can be (never at the steps of the other doorbells, which  *)
(* park without a lock) and on what it holds there: a parked worker has    *)
(* the channel that makeReady closes.                                      *)
(*                                                                         *)
(* On Redis a shared bell outlives its waiters (BellOutlivesItsWaiters).   *)
(* This rests on what the reference count of a bell counts: the workers    *)
(* that have joined it and have not left, through closeAll and rejoining.  *)
(***************************************************************************)
EXTENDS ClaimLoop, FiniteSetTheorems, TLAPS

\* The steps a worker of the in-memory store can be at
MemoryStep == {"out", "try", "wait", "timed", "parked"}

Counts == [new : Nat, due : Nat, ready : Nat, held : Nat]

WakeInv ==
    /\ nodes \in Counts
    /\ DOMAIN pc = Worker /\ DOMAIN chan = Worker
    /\ backend = "memory" =>
          \A w \in Worker :
              /\ pc[w] \in MemoryStep
              /\ pc[w] = "parked" => chan[w] # NoConn /\ (w \in rung \/ nodes.ready = 0)

-----------------------------------------------------------------------------
\* At the start nobody is in Claim.
LEMMA WakeInitially == Init => WakeInv
<1> SUFFICES ASSUME Init PROVE WakeInv
    OBVIOUS
<1>1. nodes \in Counts
    BY NodesAssumption DEF Init, Counts
<1>2. DOMAIN pc = Worker /\ DOMAIN chan = Worker /\ \A w \in Worker : pc[w] = "out"
    BY DEF Init
<1> QED
    BY <1>1, <1>2 DEF WakeInv, MemoryStep

\* Steps that leave the workers, their channels and the ready nodes alone.
LEMMA WakeUntouched ==
    ASSUME WakeInv, backend' = backend, UNCHANGED <<pc, chan>>, rung \subseteq rung',
           nodes' \in Counts,
           nodes'.ready = nodes.ready
    PROVE  WakeInv'
BY DEF WakeInv

\* Steps that make nodes ready and ring.
LEMMA WakeRings ==
    ASSUME WakeInv, backend' = backend, UNCHANGED <<pc, chan>>, Notify,
           nodes' \in Counts
    PROVE  WakeInv'
BY DEF WakeInv, Notify, listeners

\* Steps of one worker that ends up anywhere but in the doorbell's select.
LEMMA WakeMoves ==
    ASSUME WakeInv, backend' = backend, UNCHANGED nodes, NEW w \in Worker, NEW to, Goto(w, to),
           backend = "memory" => to \in MemoryStep \ {"parked"},
           DOMAIN chan' = Worker,
           \A v \in Worker \ {w} : chan'[v] = chan[v] /\ (v \in rung => v \in rung')
    PROVE  WakeInv'
BY DEF WakeInv, Goto

\* Promotion makes ready what is due, and a grant takes one ready node.
LEMMA PromotedCounts ==
    ASSUME NEW c \in Counts
    PROVE  LET n == [c EXCEPT !.ready = @ + c.due, !.due = 0]
               g == [n EXCEPT !.ready = @ - 1, !.held = @ + 1]
           IN  /\ n \in Counts /\ n.ready = c.ready + c.due
               /\ n.ready > 0 => g \in Counts /\ g.ready = n.ready - 1
<1> DEFINE m == [c EXCEPT !.ready = c.ready + c.due]
           n == [c EXCEPT !.ready = @ + c.due, !.due = 0]
           h == [n EXCEPT !.ready = n.ready - 1]
           g == [n EXCEPT !.ready = @ - 1, !.held = @ + 1]
<1>1. m \in Counts
    BY DEF Counts
<1>2. n = [m EXCEPT !.due = 0] /\ n.ready = c.ready + c.due
    BY DEF Counts
<1>3. n \in Counts
    <2> HIDE DEF m, n
    <2> QED
        BY <1>1, <1>2 DEF Counts
<1> HIDE DEF n
<1>4. g = [h EXCEPT !.held = n.held + 1] /\ g.ready = n.ready - 1
    BY <1>3 DEF Counts
<1>5. n.ready > 0 => h \in Counts
    BY <1>3 DEF Counts
<1>6. n.ready > 0 => g \in Counts
    <2>1. n.held + 1 \in Nat
        BY <1>3 DEF Counts
    <2> HIDE DEF g, h
    <2> QED
        BY <1>4, <1>5, <2>1 DEF Counts
<1> QED
    BY <1>2, <1>3, <1>4, <1>6 DEF n

\* Claim promotes what is due, rings if there is any, and takes what it grants.
LEMMA WakeClaims ==
    ASSUME WakeInv, NEW w \in Worker, StoreClaim(w)
    PROVE  WakeInv'
<1> DEFINE n == [nodes EXCEPT !.ready = @ + nodes.due, !.due = 0]
           g == [n EXCEPT !.ready = @ - 1, !.held = @ + 1]
<1>0. nodes \in Counts
    BY DEF WakeInv
<1>1. /\ n \in Counts /\ n.ready = nodes.ready + nodes.due
      /\ n.ready > 0 => g \in Counts /\ g.ready = n.ready - 1
    BY <1>0, PromotedCounts, Zenon
<1>2. /\ nodes' \in Counts
      /\ nodes'.ready = n.ready \/ (n.ready > 0 /\ nodes'.ready = n.ready - 1)
    <2>1. nodes' = n \/ (n.ready > 0 /\ nodes' = g)
        BY DEF StoreClaim
    <2> HIDE DEF n, g
    <2> QED
        BY <1>1, <2>1
<1>3. PICK to \in {"out", "wait"} : Goto(w, to)
    BY DEF StoreClaim
<1>4. backend' = backend /\ chan' = chan
    BY DEF StoreClaim, ctlVars
<1>5. IF nodes.due > 0 THEN Notify ELSE rung' = rung
    BY DEF StoreClaim
<1>6. pc' = [pc EXCEPT ![w] = to] /\ DOMAIN pc = Worker /\ DOMAIN chan = Worker
    BY <1>3 DEF Goto, WakeInv
<1>7. ASSUME backend = "memory", NEW v \in Worker
      PROVE  /\ pc'[v] \in MemoryStep
             /\ pc'[v] = "parked" => chan[v] # NoConn /\ (v \in rung' \/ nodes'.ready = 0)
    <2>1. CASE v = w
        BY <1>6, <2>1 DEF MemoryStep
    <2>2. CASE v # w
        <3>1. /\ pc'[v] = pc[v] /\ pc[v] \in MemoryStep
              /\ pc[v] = "parked" => chan[v] # NoConn /\ (v \in rung \/ nodes.ready = 0)
            BY <1>6, <1>7, <2>2 DEF WakeInv
        <3>2. CASE nodes.due > 0
            <4>1. rung' = rung \cup {u \in Worker : chan[u] # NoConn}
                BY <1>5, <1>7, <3>2 DEF Notify, listeners
            <4> QED
                BY <3>1, <4>1
        <3>3. CASE ~ (nodes.due > 0)
            <4>1. rung' = rung
                BY <1>5, <3>3
            <4>2. nodes.due \in Nat /\ nodes.ready \in Nat
                BY <1>0 DEF Counts
            <4>3. nodes.ready = 0 => nodes'.ready = 0
                <5> HIDE DEF n
                <5> QED
                    BY <1>1, <1>2, <3>3, <4>2
            <4> QED
                BY <3>1, <4>1, <4>3
        <3> QED
            BY <3>2, <3>3
    <2> QED
        BY <2>1, <2>2
<1> QED
    BY <1>2, <1>4, <1>6, <1>7 DEF WakeInv

\* The in-memory WaitForWork looks and parks under one lock.
LEMMA WakeWaits ==
    ASSUME WakeInv, NEW w \in Worker, Wait(w)
    PROVE  WakeInv'
<1>1. backend' = backend /\ nodes' = nodes
    BY DEF Wait, ctlVars
<1>2. CASE backend = "memory" /\ ~closed.store /\ waitMemory(w)
    <2>1. CASE anyReady
        <3>1. Goto(w, "try") /\ chan' = chan /\ rung' = rung
            BY <1>2, <2>1 DEF waitMemory
        <3> QED
            BY <1>1, <3>1 DEF WakeInv, Goto, MemoryStep
    <2>2. CASE ~anyReady
        <3>1. Goto(w, "parked") /\ chan' = [chan EXCEPT ![w] = Listener] /\ rung' = rung
            BY <1>2, <2>2 DEF waitMemory
        <3>2. nodes.ready = 0
            BY <2>2 DEF anyReady, WakeInv, Counts
        <3> QED
            BY <1>1, <3>1, <3>2 DEF WakeInv, Goto, MemoryStep, Listener, NoConn
    <2> QED
        BY <2>1, <2>2
<1>3. CASE UNCHANGED bellVars /\ \E to : Goto(w, to) /\ (backend = "memory" => to = "out")
    <2>1. PICK to : Goto(w, to) /\ (backend = "memory" => to = "out")
        BY <1>3
    <2>2. chan' = chan /\ rung' = rung
        BY <1>3 DEF bellVars
    <2> QED
        BY <1>1, <2>1, <2>2, WakeMoves DEF MemoryStep, WakeInv
<1>4. \/ backend = "memory" /\ ~closed.store /\ waitMemory(w)
      \/ UNCHANGED bellVars /\ \E to : Goto(w, to) /\ (backend = "memory" => to = "out")
    BY DEF Wait
<1> QED
    BY <1>2, <1>3, <1>4

\* Whoever leaves the select gives its channel back; nobody else's is touched.
LEMMA WakeUnparks ==
    ASSUME WakeInv, NEW w \in Worker, NEW to \in {"try", "out"}, Unpark(w, to),
           UNCHANGED nodes, UNCHANGED ctlVars
    PROVE  WakeInv'
<1>1. backend' = backend
    BY DEF ctlVars
<1>2. CASE backend = "redis"
    <2>1. Goto(w, "leave") /\ chan' = chan /\ rung' = rung
        BY <1>2 DEF Unpark, bellVars
    <2> QED
        BY <1>1, <1>2, <2>1 DEF WakeInv, Goto
<1>3. CASE backend # "redis"
    <2>1. Goto(w, to) /\ chan' = [chan EXCEPT ![w] = NoConn] /\ rung' = rung \ {w}
        BY <1>3 DEF Unpark
    <2> QED
        BY <1>1, <2>1 DEF WakeInv, Goto, MemoryStep
<1> QED
    BY <1>2, <1>3

\* Sweep promotes what is due too.
LEMMA WakeSweeps ==
    ASSUME WakeInv, MaintSweeps
    PROVE  WakeInv'
<1> DEFINE n == [nodes EXCEPT !.ready = @ + nodes.due, !.due = 0]
<1>0. backend' = backend /\ pc' = pc /\ chan' = chan /\ nodes \in Counts
    BY DEF MaintSweeps, MaintStep, WakeInv
<1>1. n \in Counts /\ n.ready = nodes.ready + nodes.due
    BY <1>0, PromotedCounts, Zenon
<1>2. CASE closed.store
    BY <1>0, <1>2, WakeUntouched DEF MaintSweeps
<1>3. CASE ~closed.store /\ nodes.due > 0
    BY <1>0, <1>1, <1>3, WakeRings DEF MaintSweeps
<1>4. CASE ~closed.store /\ ~ (nodes.due > 0)
    <2>1. nodes' = n /\ rung' = rung
        BY <1>4 DEF MaintSweeps
    <2>2. nodes.ready \in Nat /\ nodes.due \in Nat
        BY <1>0 DEF Counts
    <2> HIDE DEF n
    <2> QED
        BY <1>0, <1>1, <1>4, <2>1, <2>2, WakeUntouched
<1> QED
    BY <1>2, <1>3, <1>4

\* Every step keeps the invariant.
LEMMA WakeStep == WakeInv /\ [Next]_vars => WakeInv'
<1> SUFFICES ASSUME WakeInv, [Next]_vars PROVE WakeInv'
    OBVIOUS
<1>0. nodes \in Counts
    BY DEF WakeInv
<1>1. CASE Submit
    <2>1. nodes' \in Counts
        <3> DEFINE m == [nodes EXCEPT !.new = nodes.new - 1]
        <3>1. nodes.new > 0 /\ nodes' = [m EXCEPT !.ready = nodes.ready + 1]
            BY <1>0, <1>1 DEF Submit, Counts
        <3>2. m \in Counts /\ nodes.ready + 1 \in Nat
            BY <1>0, <3>1 DEF Counts
        <3> HIDE DEF m
        <3> QED
            BY <3>1, <3>2 DEF Counts
    <2> QED
        BY <1>1, <2>1, WakeRings DEF Submit, ctlVars
<1>2. CASE Lapse
    <2>1. nodes' \in Counts /\ nodes'.ready = nodes.ready
        <3> DEFINE m == [nodes EXCEPT !.held = nodes.held - 1]
        <3>1. nodes.held > 0 /\ nodes' = [m EXCEPT !.due = nodes.due + 1]
            BY <1>0, <1>2 DEF Lapse, Counts
        <3>2. m \in Counts /\ nodes.due + 1 \in Nat /\ m.ready = nodes.ready
            BY <1>0, <3>1 DEF Counts
        <3> HIDE DEF m
        <3> QED
            BY <3>1, <3>2 DEF Counts
    <2> QED
        BY <1>2, <2>1, WakeUntouched DEF Lapse, bellVars
<1>3. CASE Finish
    <2>1. nodes' \in Counts /\ nodes'.ready = nodes.ready
        BY <1>0, <1>3 DEF Finish, Counts
    <2> QED
        BY <1>3, <2>1, WakeUntouched DEF Finish, bellVars, ctlVars
<1>4. ASSUME NEW w \in Worker, Enter(w) \/ InClaim(w) \/ DoorbellFails(w) \/ CancelContext(w)
      PROVE  WakeInv'
    <2>1. CASE Enter(w)
        BY <2>1 DEF Enter, WakeInv, Goto, MemoryStep, bellVars, ctlVars
    <2>2. CASE Stop(w)
        BY <2>2 DEF Stop, WakeInv, Goto, MemoryStep, bellVars, ctlVars
    <2>3. CASE StoreClaim(w)
        BY <2>3, WakeClaims
    <2>4. CASE Wait(w)
        BY <2>4, WakeWaits
    <2>5. CASE WaitChan(w) \/ Join(w) \/ Recheck(w) \/ Ticker(w) \/ Leave(w) \/ Teardown(w)
        <3>1. backend # "memory"
            BY <2>5 DEF WakeInv, MemoryStep, WaitChan, Join, Recheck, Ticker, Leave, Teardown
        <3>2. /\ backend' = backend /\ nodes' = nodes
              /\ DOMAIN pc' = DOMAIN pc /\ DOMAIN chan' = DOMAIN chan
            <4>1. CASE WaitChan(w)
                BY <4>1 DEF WaitChan, Goto, ctlVars
            <4>2. CASE Join(w)
                BY <4>2 DEF Join, Goto, ctlVars
            <4>3. CASE Recheck(w)
                BY <4>3 DEF Recheck, Goto, bellVars, ctlVars
            <4>4. CASE Ticker(w)
                BY <4>4 DEF Ticker, Goto, bellVars, ctlVars
            <4>5. CASE Leave(w)
                BY <4>5 DEF Leave, Goto, ctlVars
            <4>6. CASE Teardown(w)
                BY <4>6 DEF Teardown, Goto, ctlVars
            <4> QED
                BY <2>5, <4>1, <4>2, <4>3, <4>4, <4>5, <4>6
        <3> QED
            BY <3>1, <3>2 DEF WakeInv
    <2>6. CASE Woken(w)
        BY <2>6, WakeUnparks DEF Woken
    <2>7. CASE PollElapses(w)
        BY <2>7, WakeUnparks DEF PollElapses
    <2>8. CASE TimedWaitEnds(w)
        BY <2>8 DEF TimedWaitEnds, WakeInv, Goto, MemoryStep, bellVars, ctlVars
    <2>9. CASE DoorbellFails(w)
        BY <2>9 DEF DoorbellFails, WakeInv, Goto, MemoryStep, bellVars
    <2>10. CASE CancelContext(w)
        BY <1>0, <2>10, WakeUntouched DEF CancelContext, bellVars
    <2> QED
        BY <1>4, <2>1, <2>2, <2>3, <2>4, <2>5, <2>6, <2>7, <2>8, <2>9, <2>10 DEF InClaim
<1>5. CASE Listen \/ Drop \/ Ring \/ CloseAll \/ Dismantle
    <2>1. UNCHANGED <<backend, nodes, pc, chan>> /\ rung \subseteq rung'
        BY <1>5 DEF Listen, Drop, Ring, CloseAll, Dismantle, ctlVars
    <2> QED
        BY <1>0, <2>1, WakeUntouched
<1>6. CASE MaintWakes \/ MaintLists \/ IntervalPasses \/ CloseManager \/ CloseStore
    <2>1. UNCHANGED <<backend, nodes, pc, chan, rung>>
        BY <1>6 DEF MaintWakes, MaintLists, MaintStep, IntervalPasses, CloseManager, CloseStore,
                    bellVars
    <2> QED
        BY <1>0, <2>1, WakeUntouched
<1>7. CASE MaintSweeps
    BY <1>7, WakeSweeps
<1>8. CASE UNCHANGED vars
    BY <1>0, <1>8, WakeUntouched DEF vars
<1> QED
    BY <1>1, <1>2, <1>3, <1>4, <1>5, <1>6, <1>7, <1>8 DEF Next, Maintain

\* Whatever the workers, nodes and stops: no worker of the in-memory store sits in the
\* doorbell's select with its bell still to ring while a node is ready
\* (storage/memory/watch.go WaitForWork, scope.go makeReady).
THEOREM NoMemoryWakeupIsLost == Spec => []NoWakeupIsLost
<1>1. Init => WakeInv
    BY WakeInitially
<1>2. WakeInv /\ [Next]_vars => WakeInv'
    BY WakeStep
<1>3. WakeInv => NoWakeupIsLost
    BY DEF WakeInv, NoWakeupIsLost, anyReady
<1> QED
    BY <1>1, <1>2, <1>3, PTL DEF Spec
-----------------------------------------------------------------------------
(***************************************************************************)
(* Redis' shared subscription                                              *)
(***************************************************************************)
Outside == {"out", "try", "wait", "timed", "join"}      \* steps without a reference
Between == {"recheck", "parked", "leave"}               \* from join to leave

Tearing == {w \in Worker : pc[w] = "teardown"}
TornDown == {chan[w] : w \in Tearing}

\* The count in the map never exceeds the waiters there are, so the last reference leaves
\* with the last waiter; until closeAll the two agree.  Every subscription has exactly one
\* owner: the map, closeAll, or the one worker that is tearing it down.
BellInv ==
    backend = "redis" =>
        /\ pc \in [Worker -> Outside \cup Between \cup {"teardown"}]
        /\ DOMAIN chan = Worker
        /\ \A w \in Worker : pc[w] \in Outside => chan[w] = NoConn
        /\ closed \in [manager : BOOLEAN, store : BOOLEAN, bells : BOOLEAN]
        /\ closed.bells => closed.store
        /\ entry \in [conn : Nat, waiters : Nat]
        /\ entry = NoEntry \/ (entry.conn \in open /\ entry.waiters > 0)
        /\ NoConn \notin open
        /\ entry.waiters <= Cardinality(joined)
        /\ ~closed.bells => /\ doomed = {}
                            /\ entry.waiters = Cardinality(joined)
                            /\ \A w \in joined : chan[w] = entry.conn
        /\ \A a, b \in doomed : a = b
        /\ open \ {entry.conn} = doomed \cup TornDown
        /\ \A v \in Tearing : /\ chan[v] \notin doomed
                              /\ \A u \in Tearing : chan[u] = chan[v] => u = v

\* A set of workers has a size, which one more or one less of them changes by one.
LEMMA WorkersCount ==
    ASSUME NEW S \in SUBSET Worker, NEW w \in Worker
    PROVE  /\ Cardinality(S) \in Nat /\ (Cardinality(S) = 0 <=> S = {})
           /\ w \notin S => Cardinality(S \cup {w}) = Cardinality(S) + 1
           /\ w \in S => Cardinality(S \ {w}) = Cardinality(S) - 1
<1>1. IsFiniteSet(S)
    BY WorkerFinite, FS_Subset
<1> QED
    BY <1>1, FS_CardinalityType, FS_EmptySet, FS_AddElement, FS_RemoveElement, Zenon

\* The number of a new subscription is one that nobody knows: there are more numbers than
\* channels and subscriptions in use.
LEMMA FreeConnIsFree ==
    ASSUME BellInv, backend = "redis", entry = NoEntry, NEW w \in Worker
    PROVE  freeConn \in Nat /\ freeConn \notin open /\ \A v \in Worker : chan[v] # freeConn
<1> DEFINE held == {chan[v] : v \in Worker}
           used == held \cup doomed
           numbers == 1..(2 * Cardinality(Worker) + 1)
<1>1. /\ IsFiniteSet(held) /\ Cardinality(held) <= Cardinality(Worker)
      /\ Cardinality(held) \in Nat
    <2> DEFINE f == [v \in Worker |-> chan[v]]
    <2>1. f \in Surjection(Worker, held)
        BY DEF Surjection
    <2> HIDE DEF f, held
    <2> QED
        BY <2>1, WorkerFinite, FS_Surjection, FS_CardinalityType
<1>2. IsFiniteSet(doomed) /\ Cardinality(doomed) <= 1 /\ Cardinality(doomed) \in Nat
    <2>1. CASE doomed = {}
        BY <2>1, FS_EmptySet
    <2>2. CASE doomed # {}
        <3>1. PICK c : doomed = {c}
            BY <2>2 DEF BellInv
        <3>2. IsFiniteSet({c}) /\ Cardinality({c}) = 1
            BY FS_Singleton, Zenon
        <3> QED
            BY <3>1, <3>2
    <2> QED
        BY <2>1, <2>2
<1>3. IsFiniteSet(used) /\ Cardinality(used) <= Cardinality(Worker) + 1 /\ Cardinality(used) \in Nat
    <2>1. /\ IsFiniteSet(used)
          /\ Cardinality(used) = Cardinality(held) + Cardinality(doomed) - Cardinality(held \cap doomed)
        BY <1>1, <1>2, FS_Union
    <2>2. Cardinality(held \cap doomed) \in Nat
        BY <1>1, FS_Intersection, FS_CardinalityType, Zenon
    <2>3. Cardinality(Worker) \in Nat
        BY WorkerFinite, FS_CardinalityType
    <2> HIDE DEF held, used
    <2>4. Cardinality(used) \in Nat
        BY <2>1, FS_CardinalityType
    <2> QED
        BY <1>1, <1>2, <2>1, <2>2, <2>3, <2>4
<1>4. Cardinality(Worker) \in Nat /\ Cardinality(Worker) > 0
    BY WorkersCount, WorkerFinite, FS_CardinalityType, FS_EmptySet
<1>5. IsFiniteSet(numbers) /\ Cardinality(numbers) = 2 * Cardinality(Worker) + 1
    <2> DEFINE n == 2 * Cardinality(Worker) + 1
    <2>1. n \in Nat /\ n > 0
        BY <1>4
    <2> HIDE DEF n
    <2>2. IsFiniteSet(1..n) /\ Cardinality(1..n) = n
        BY <2>1, FS_Interval
    <2> QED
        BY <2>2 DEF n
<1> HIDE DEF numbers, used
<1>6. ~ (numbers \subseteq used)
    BY <1>3, <1>4, <1>5, FS_Subset
<1>7. PICK c \in numbers : c \notin used
    BY <1>6
<1> USE DEF numbers, used
<1>8. open \subseteq used
    BY DEF BellInv, TornDown, Tearing, NoEntry
<1>9. \E d \in numbers : d \notin open /\ \A v \in Worker : chan[v] # d
    BY <1>7, <1>8
<1>10. freeConn \in numbers /\ freeConn \notin open /\ \A v \in Worker : chan[v] # freeConn
    BY <1>9 DEF freeConn
<1> QED
    BY <1>4, <1>10

\* At the start there is no subscription and nobody to wait on one.
LEMMA BellInitially == Init => BellInv
<1> SUFFICES ASSUME Init PROVE BellInv
    OBVIOUS
<1>1. joined = {} /\ Tearing = {} /\ TornDown = {}
    BY DEF Init, joined, Tearing, TornDown
<1>2. Cardinality(joined) = 0
    BY <1>1, FS_EmptySet
<1> QED
    BY <1>1, <1>2 DEF Init, BellInv, Outside, NoEntry, NoConn

\* Steps that leave the workers and the subscriptions alone.
LEMMA BellUntouched ==
    ASSUME BellInv, UNCHANGED <<backend, pc, chan, entry, open, doomed>>,
           closed' \in [manager : BOOLEAN, store : BOOLEAN, bells : BOOLEAN],
           closed'.bells = closed.bells, closed.store => closed'.store
    PROVE  BellInv'
BY DEF BellInv, joined, Tearing, TornDown

\* Steps of one worker that takes no reference and gives none up.
LEMMA BellMoves ==
    ASSUME BellInv, UNCHANGED <<backend, entry, open, doomed, closed>>,
           NEW w \in Worker, NEW to, Goto(w, to),
           backend = "redis" =>
               /\ chan' = chan
               /\ \/ pc[w] \in Outside /\ to \in Outside
                  \/ pc[w] \in Between /\ to \in Between
    PROVE  BellInv'
<1> SUFFICES ASSUME backend = "redis" PROVE BellInv'
    BY DEF BellInv
<1>1. pc' = [pc EXCEPT ![w] = to] /\ pc' \in [Worker -> Outside \cup Between \cup {"teardown"}]
    BY DEF BellInv, Goto
<1>2. joined' = joined /\ Tearing' = Tearing
    BY <1>1 DEF BellInv, joined, Tearing, Outside, Between
<1>3. TornDown' = TornDown
    BY <1>2 DEF TornDown
<1>4. \A v \in Worker : pc'[v] \in Outside => chan'[v] = NoConn
    BY <1>1 DEF BellInv, Outside, Between
<1> QED
    BY <1>1, <1>2, <1>3, <1>4 DEF BellInv

\* join: one more waiter, on the subscription in the map or on a new one.
LEMMA BellJoins ==
    ASSUME BellInv, NEW w \in Worker, Join(w)
    PROVE  BellInv'
<1> DEFINE e == IF entry = NoEntry THEN [conn |-> freeConn, waiters |-> 0] ELSE entry
<1>0. backend = "redis" /\ backend' = backend /\ closed' = closed /\ doomed' = doomed
    BY DEF Join, ctlVars
<1>1. /\ pc[w] = "join" /\ pc' = [pc EXCEPT ![w] = "recheck"]
      /\ entry' = [e EXCEPT !.waiters = @ + 1]
      /\ open' = open \cup {e.conn}
      /\ chan' = [chan EXCEPT ![w] = e.conn]
    BY DEF Join, Goto
<1>2. e \in [conn : Nat, waiters : Nat] /\ e.conn # NoConn /\ e.waiters = entry.waiters
    <2>1. CASE entry = NoEntry
        <3>1. freeConn \in Nat /\ freeConn # NoConn
            BY <1>0, <1>1, <2>1, FreeConnIsFree DEF BellInv, Outside
        <3> QED
            BY <2>1, <3>1 DEF NoEntry
    <2>2. CASE entry # NoEntry
        BY <1>0, <2>2 DEF BellInv
    <2> QED
        BY <2>1, <2>2
<1>3. \A v \in Tearing : chan[v] # e.conn
    <2>1. CASE entry = NoEntry
        BY <1>0, <2>1, FreeConnIsFree DEF Tearing
    <2>2. CASE entry # NoEntry
        BY <1>0, <2>2 DEF BellInv, TornDown
    <2> QED
        BY <2>1, <2>2
<1>4. (open \cup {e.conn}) \ {e.conn} = doomed \cup TornDown
    <2>1. CASE entry = NoEntry
        <3>1. e.conn \notin open /\ open \ {NoConn} = doomed \cup TornDown /\ NoConn \notin open
            BY <1>0, <2>1, FreeConnIsFree DEF BellInv, NoEntry
        <3> HIDE DEF e
        <3> QED
            BY <3>1
    <2>2. CASE entry # NoEntry
        BY <1>0, <2>2 DEF BellInv
    <2> QED
        BY <2>1, <2>2
<1>5. ~closed.bells => \A v \in joined : chan[v] = e.conn
    <2>1. ASSUME ~closed.bells, entry = NoEntry PROVE joined = {}
        <3>1. Cardinality(joined) = 0
            BY <1>0, <2>1 DEF BellInv, NoEntry
        <3> QED
            BY <3>1, WorkersCount, Zenon DEF joined
    <2> QED
        BY <1>0, <2>1 DEF BellInv
<1> HIDE DEF e
<1>6. entry' \in [conn : Nat, waiters : Nat] /\ entry'.conn = e.conn /\ entry'.waiters = entry.waiters + 1
    BY <1>1, <1>2
<1>7. pc' \in [Worker -> Outside \cup Between \cup {"teardown"}] /\ DOMAIN chan' = Worker
    BY <1>0, <1>1 DEF BellInv, Outside, Between
<1>8. joined' = joined \cup {w} /\ w \notin joined /\ Tearing' = Tearing /\ w \notin Tearing
    BY <1>0, <1>1 DEF BellInv, joined, Tearing
<1>9. Cardinality(joined') = Cardinality(joined) + 1 /\ Cardinality(joined) \in Nat
    BY <1>8, WorkersCount, Zenon DEF joined
<1>10. \A v \in Worker : v # w => chan'[v] = chan[v] /\ pc'[v] = pc[v]
    BY <1>0, <1>1 DEF BellInv
<1>11. chan'[w] = e.conn /\ pc'[w] = "recheck"
    BY <1>0, <1>1 DEF BellInv
<1>12. TornDown' = TornDown
    BY <1>8, <1>10 DEF TornDown, Tearing
<1>13. \A v \in Worker : pc'[v] \in Outside => chan'[v] = NoConn
    BY <1>0, <1>10, <1>11 DEF BellInv, Outside
<1>14. entry.waiters \in Nat /\ entry.waiters <= Cardinality(joined)
    BY <1>0 DEF BellInv
<1>15. entry'.conn \in open' /\ entry'.waiters > 0 /\ NoConn \notin open' /\ entry'.waiters <= Cardinality(joined')
    BY <1>0, <1>1, <1>2, <1>6, <1>9, <1>14 DEF BellInv
<1>16. ~closed'.bells => /\ doomed' = {}
                         /\ entry'.waiters = Cardinality(joined')
                         /\ \A v \in joined' : chan'[v] = entry'.conn
    <2>1. \A v \in joined : chan'[v] = chan[v]
        BY <1>8, <1>10 DEF joined
    <2> QED
        BY <1>0, <1>5, <1>6, <1>8, <1>9, <1>11, <2>1 DEF BellInv
<1>17. open' \ {entry'.conn} = doomed' \cup TornDown'
    BY <1>0, <1>1, <1>4, <1>6, <1>12
<1>18. \A v \in Tearing' : /\ chan'[v] \notin doomed'
                           /\ \A u \in Tearing' : chan'[u] = chan'[v] => u = v
    BY <1>0, <1>8, <1>10 DEF BellInv, Tearing
<1> QED
    BY <1>0, <1>6, <1>7, <1>13, <1>15, <1>16, <1>17, <1>18 DEF BellInv

\* leave: one waiter less; the last reference takes the subscription out of the map.
LEMMA BellLeaves ==
    ASSUME BellInv, backend = "redis", NEW w \in Worker, Leave(w)
    PROVE  BellInv'
<1>0. /\ backend' = "redis" /\ closed' = closed /\ open' = open /\ doomed' = doomed
      /\ pc[w] = "leave"
    BY DEF Leave, ctlVars
<1>1. joined \ {w} \subseteq Worker /\ w \in joined /\ w \notin Tearing
    BY <1>0 DEF joined, Tearing
<1>2. /\ Cardinality(joined \ {w}) = Cardinality(joined) - 1
      /\ Cardinality(joined) \in Nat /\ Cardinality(joined \ {w}) \in Nat
    BY <1>1, WorkersCount, Zenon DEF joined
<1>3. entry.waiters \in Nat /\ entry.waiters <= Cardinality(joined)
    BY DEF BellInv
<1>4. CASE leavesLast(w)
    <2>1. /\ entry # NoEntry /\ entry.waiters = 1 /\ entry' = NoEntry
          /\ chan' = [chan EXCEPT ![w] = entry.conn] /\ pc' = [pc EXCEPT ![w] = "teardown"]
        BY <1>4 DEF Leave, leavesLast, Goto
    <2>2. /\ pc' \in [Worker -> Outside \cup Between \cup {"teardown"}] /\ DOMAIN chan' = Worker
          /\ pc'[w] = "teardown" /\ chan'[w] = entry.conn
          /\ \A v \in Worker : v # w => chan'[v] = chan[v] /\ pc'[v] = pc[v]
        BY <2>1 DEF BellInv
    <2>3. joined' = joined \ {w} /\ Tearing' = Tearing \cup {w}
        BY <2>2 DEF joined, Tearing
    <2>4. TornDown' = TornDown \cup {entry.conn}
        BY <1>1, <2>2, <2>3 DEF TornDown, Tearing
    <2>5. entry.conn \in open /\ entry.conn # NoConn /\ entry.conn \notin doomed \cup TornDown
        BY <2>1 DEF BellInv
    <2>6. open' \ {entry'.conn} = doomed' \cup TornDown'
        <3>1. open \ {NoConn} = open
            BY DEF BellInv
        <3>2. open = (open \ {entry.conn}) \cup {entry.conn}
            BY <2>5
        <3>3. open = doomed \cup TornDown \cup {entry.conn}
            BY <3>2 DEF BellInv
        <3> QED
            BY <1>0, <2>1, <2>4, <3>1, <3>3 DEF NoEntry
    <2>7. \A v \in Tearing' : /\ chan'[v] \notin doomed'
                              /\ \A u \in Tearing' : chan'[u] = chan'[v] => u = v
        BY <1>0, <1>1, <2>2, <2>3, <2>5 DEF BellInv, Tearing, TornDown
    <2>8. ~closed.bells => joined \ {w} = {}
        <3>1. ASSUME ~closed.bells PROVE Cardinality(joined \ {w}) = 0
            BY <1>2, <2>1, <3>1 DEF BellInv
        <3> QED
            BY <1>1, <3>1, WorkersCount, Zenon
    <2>9. Cardinality(joined') \in Nat /\ (~closed.bells => Cardinality(joined') = 0)
        BY <1>1, <2>3, <2>8, WorkersCount
    <2>10. \A v \in Worker : pc'[v] \in Outside => chan'[v] = NoConn
        BY <2>2 DEF BellInv, Outside
    <2>11. /\ entry' \in [conn : Nat, waiters : Nat] /\ entry'.waiters = 0
           /\ entry'.waiters <= Cardinality(joined')
        BY <2>1, <2>9 DEF NoEntry, NoConn
    <2> QED
        BY <1>0, <2>1, <2>2, <2>3, <2>6, <2>7, <2>8, <2>9, <2>10, <2>11 DEF BellInv
<1>5. CASE ~leavesLast(w)
    <2>1. /\ entry' = IF entry = NoEntry THEN NoEntry ELSE [entry EXCEPT !.waiters = @ - 1]
          /\ chan' = [chan EXCEPT ![w] = NoConn] /\ pc' = [pc EXCEPT ![w] = "try"]
        BY <1>5 DEF Leave, Goto
    <2>2. /\ pc' \in [Worker -> Outside \cup Between \cup {"teardown"}] /\ DOMAIN chan' = Worker
          /\ pc'[w] = "try" /\ chan'[w] = NoConn
          /\ \A v \in Worker : v # w => chan'[v] = chan[v] /\ pc'[v] = pc[v]
        BY <2>1 DEF BellInv, Outside
    <2>3. joined' = joined \ {w} /\ Tearing' = Tearing
        BY <1>1, <2>2 DEF joined, Tearing
    <2>4. TornDown' = TornDown
        BY <1>1, <2>2, <2>3 DEF TornDown, Tearing
    <2>5. /\ entry' \in [conn : Nat, waiters : Nat] /\ entry'.conn = entry.conn
          /\ entry' = NoEntry \/ (entry'.conn \in open' /\ entry'.waiters > 0)
          /\ entry = NoEntry => entry' = NoEntry
          /\ entry # NoEntry => entry'.waiters = entry.waiters - 1
        BY <1>0, <1>3, <1>5, <2>1 DEF BellInv, leavesLast, NoEntry
    <2>6. entry'.waiters <= Cardinality(joined')
        BY <1>2, <1>3, <2>3, <2>5 DEF NoEntry
    <2>7. \A v \in Worker : pc'[v] \in Outside => chan'[v] = NoConn
        BY <2>2 DEF BellInv
    <2>8. ~closed'.bells => /\ doomed' = {}
                            /\ entry'.waiters = Cardinality(joined')
                            /\ \A v \in joined' : chan'[v] = entry'.conn
        <3>1. ASSUME ~closed.bells PROVE entry # NoEntry
            BY <1>1, <1>2, <3>1, WorkersCount DEF BellInv, NoEntry, joined
        <3>2. \A v \in joined' : v \in joined /\ chan'[v] = chan[v]
            BY <2>2, <2>3 DEF joined
        <3> QED
            BY <1>0, <1>2, <2>3, <2>5, <3>1, <3>2 DEF BellInv
    <2>9. \A v \in Tearing' : /\ chan'[v] \notin doomed'
                              /\ \A u \in Tearing' : chan'[u] = chan'[v] => u = v
        BY <1>0, <1>1, <2>2, <2>3 DEF BellInv, Tearing
    <2>10. open' \ {entry'.conn} = doomed' \cup TornDown' /\ NoConn \notin open'
        BY <1>0, <2>4, <2>5 DEF BellInv
    <2>11. /\ closed' \in [manager : BOOLEAN, store : BOOLEAN, bells : BOOLEAN]
           /\ closed'.bells => closed'.store
           /\ \A a, b \in doomed' : a = b
        BY <1>0 DEF BellInv
    <2> QED
        BY <1>0, <2>2, <2>5, <2>6, <2>7, <2>8, <2>9, <2>10, <2>11 DEF BellInv
<1> QED
    BY <1>4, <1>5

\* The worker that took the subscription out of the map closes it, and nobody else does.
LEMMA BellTears ==
    ASSUME BellInv, backend = "redis", NEW w \in Worker, Teardown(w)
    PROVE  BellInv'
<1>0. /\ backend' = "redis" /\ closed' = closed /\ doomed' = doomed /\ entry' = entry
      /\ open' = open \ {chan[w]} /\ pc[w] = "teardown" /\ w \in Tearing
      /\ chan' = [chan EXCEPT ![w] = NoConn] /\ pc' = [pc EXCEPT ![w] = "try"]
    BY DEF Teardown, ctlVars, Goto, Tearing
<1>1. /\ pc' \in [Worker -> Outside \cup Between \cup {"teardown"}] /\ DOMAIN chan' = Worker
      /\ pc'[w] = "try" /\ chan'[w] = NoConn
      /\ \A v \in Worker : v # w => chan'[v] = chan[v] /\ pc'[v] = pc[v]
    BY <1>0 DEF BellInv, Outside
<1>2. joined' = joined /\ Tearing' = Tearing \ {w} /\ \A v \in joined : chan'[v] = chan[v]
    BY <1>0, <1>1 DEF joined, Tearing
<1>3. TornDown' = TornDown \ {chan[w]} /\ chan[w] \in TornDown /\ chan[w] \notin doomed
    <2>1. \A v \in Tearing \ {w} : chan'[v] = chan[v] /\ chan[v] # chan[w]
        BY <1>0, <1>1 DEF BellInv, Tearing
    <2> QED
        BY <1>0, <1>2, <2>1 DEF BellInv, TornDown
<1>4. entry.conn # chan[w]
    BY <1>3 DEF BellInv
<1>5. open' \ {entry'.conn} = doomed' \cup TornDown'
    <2>1. open' \ {entry.conn} = (open \ {entry.conn}) \ {chan[w]}
        BY <1>0
    <2>2. (doomed \cup TornDown) \ {chan[w]} = doomed \cup TornDown'
        BY <1>3
    <2> QED
        BY <1>0, <2>1, <2>2 DEF BellInv
<1>6. \A v \in Worker : pc'[v] \in Outside => chan'[v] = NoConn
    BY <1>1 DEF BellInv
<1>7. \A v \in Tearing' : /\ chan'[v] \notin doomed'
                          /\ \A u \in Tearing' : chan'[u] = chan'[v] => u = v
    BY <1>0, <1>1, <1>2 DEF BellInv, Tearing
<1> QED
    BY <1>0, <1>1, <1>2, <1>4, <1>5, <1>6, <1>7 DEF BellInv

\* closeAll empties the map and keeps what was in it, to close.
LEMMA BellCloses ==
    ASSUME BellInv, backend = "redis", CloseAll
    PROVE  BellInv'
<1>0. /\ UNCHANGED <<backend, pc, chan, open>> /\ closed.store /\ ~closed.bells
      /\ closed' = [closed EXCEPT !.bells = TRUE] /\ entry' = NoEntry
      /\ doomed' = doomed \cup (IF entry = NoEntry THEN {} ELSE {entry.conn})
    BY DEF CloseAll
<1>1. joined' = joined /\ Tearing' = Tearing /\ TornDown' = TornDown
    BY <1>0 DEF joined, Tearing, TornDown
<1>2. /\ closed' \in [manager : BOOLEAN, store : BOOLEAN, bells : BOOLEAN]
      /\ closed'.bells /\ closed'.store
    BY <1>0, Zenon DEF BellInv
<1>3. /\ doomed' = (IF entry = NoEntry THEN {} ELSE {entry.conn})
      /\ \A a, b \in doomed' : a = b
    BY <1>0 DEF BellInv
<1>4. open' \ {entry'.conn} = doomed' \cup TornDown'
    BY <1>0, <1>1, <1>3 DEF BellInv, NoEntry
<1>5. \A v \in Tearing' : chan'[v] \notin doomed'
    BY <1>0, <1>1, <1>3 DEF BellInv, TornDown
<1>6. /\ entry' \in [conn : Nat, waiters : Nat]
      /\ entry'.waiters <= Cardinality(joined')
    <2>1. Cardinality(joined) \in Nat
        BY WorkerFinite, FS_Subset, FS_CardinalityType DEF joined
    <2> QED
        BY <1>0, <1>1, <2>1 DEF NoEntry, NoConn
<1> QED
    BY <1>0, <1>1, <1>2, <1>3, <1>4, <1>5, <1>6 DEF BellInv

\* closeAll closes a subscription that was in the map.
LEMMA BellDismantles ==
    ASSUME BellInv, backend = "redis", Dismantle
    PROVE  BellInv'
<1>0. UNCHANGED <<backend, pc, chan, entry, closed>>
    BY DEF Dismantle, ctlVars
<1>1. PICK c \in doomed : doomed' = doomed \ {c} /\ open' = open \ {c}
    BY DEF Dismantle
<1>2. joined' = joined /\ Tearing' = Tearing /\ TornDown' = TornDown
    BY <1>0 DEF joined, Tearing, TornDown
<1>3. c \notin TornDown /\ entry.conn # c
    BY <1>1 DEF BellInv, TornDown
<1>4. open' \ {entry'.conn} = doomed' \cup TornDown'
    BY <1>0, <1>1, <1>2, <1>3 DEF BellInv
<1>5. entry' = NoEntry \/ (entry'.conn \in open' /\ entry'.waiters > 0)
    BY <1>0, <1>1, <1>3 DEF BellInv
<1> QED
    BY <1>0, <1>1, <1>2, <1>4, <1>5 DEF BellInv

\* Every step keeps the invariant.
LEMMA BellStep == BellInv /\ [Next]_vars => BellInv'
<1> SUFFICES ASSUME BellInv, [Next]_vars PROVE BellInv'
    OBVIOUS
<1>0. backend' = backend
    BY Zenon DEF Next, vars, Submit, Lapse, Finish, Enter, InClaim, DoorbellFails, CancelContext, Listen,
           Drop, Ring, Maintain, MaintStep, MaintWakes, MaintLists, MaintSweeps, IntervalPasses,
           CloseManager, CloseStore, CloseAll, Dismantle, Stop, StoreClaim, Wait, WaitChan, Join,
           Recheck, Woken, PollElapses, Ticker, TimedWaitEnds, Leave, Teardown, ctlVars
<1> SUFFICES ASSUME backend = "redis" PROVE BellInv'
    BY <1>0 DEF BellInv
<1>1. closed \in [manager : BOOLEAN, store : BOOLEAN, bells : BOOLEAN]
    BY DEF BellInv
<1>2. CASE Submit \/ Lapse \/ Finish \/ Listen \/ Drop \/ Ring \/ Maintain \/ IntervalPasses
    <2>1. UNCHANGED <<backend, pc, chan, entry, open, doomed, closed>>
        BY <1>2 DEF Submit, Lapse, Finish, Listen, Drop, Ring, Maintain, MaintStep, MaintWakes,
                    MaintLists, MaintSweeps, IntervalPasses, bellVars, ctlVars
    <2> QED
        BY <1>1, <2>1, BellUntouched
<1>3. CASE CloseManager \/ CloseStore
    <2>1. /\ UNCHANGED <<backend, pc, chan, entry, open, doomed>>
          /\ \/ closed' = [closed EXCEPT !.manager = TRUE]
             \/ closed' = [closed EXCEPT !.store = TRUE]
        BY <1>3 DEF CloseManager, CloseStore, bellVars
    <2>2. /\ closed' \in [manager : BOOLEAN, store : BOOLEAN, bells : BOOLEAN]
          /\ closed'.bells = closed.bells /\ (closed.store => closed'.store)
        BY <1>1, <2>1, Zenon
    <2> QED
        BY <2>1, <2>2, BellUntouched
<1>4. ASSUME NEW w \in Worker, Enter(w) \/ InClaim(w) \/ DoorbellFails(w) \/ CancelContext(w)
      PROVE  BellInv'
    <2>1. CASE Enter(w) \/ Stop(w) \/ TimedWaitEnds(w)
        <3>1. /\ UNCHANGED <<backend, chan, entry, open, doomed, closed>>
              /\ pc[w] \in Outside /\ \E to \in Outside : Goto(w, to)
            BY <2>1 DEF Enter, Stop, TimedWaitEnds, bellVars, ctlVars, Outside
        <3> QED
            BY <3>1, BellMoves
    <2>2. CASE StoreClaim(w)
        <3>1. /\ UNCHANGED <<backend, chan, entry, open, doomed, closed>>
              /\ pc[w] \in Outside /\ \E to \in Outside : Goto(w, to)
            BY <2>2 DEF StoreClaim, ctlVars, Outside
        <3> QED
            BY <3>1, BellMoves
    <2>3. CASE Wait(w)
        <3>1. /\ UNCHANGED <<backend, chan, entry, open, doomed, closed>>
              /\ pc[w] \in Outside /\ \E to \in Outside : Goto(w, to)
            BY <2>3 DEF Wait, bellVars, ctlVars, Outside
        <3> QED
            BY <3>1, BellMoves
    <2>4. CASE WaitChan(w)
        BY <2>4 DEF WaitChan, isPg
    <2>5. CASE Join(w)
        BY <2>5, BellJoins
    <2>6. CASE Recheck(w) \/ Woken(w) \/ PollElapses(w) \/ Ticker(w)
        <3>1. /\ UNCHANGED <<backend, chan, entry, open, doomed, closed>>
              /\ pc[w] \in Between /\ \E to \in Between : Goto(w, to)
            BY <2>6 DEF Recheck, Woken, PollElapses, Ticker, Unpark, bellVars, ctlVars, Between
        <3> QED
            BY <3>1, BellMoves
    <2>7. CASE Leave(w)
        BY <2>7, BellLeaves
    <2>8. CASE Teardown(w)
        BY <2>8, BellTears
    <2>9. CASE CancelContext(w)
        BY <1>1, <2>9, BellUntouched DEF CancelContext, bellVars
    <2>10. CASE DoorbellFails(w)
        <3>1. UNCHANGED <<backend, chan, entry, open, doomed, closed>>
            BY <2>10 DEF DoorbellFails, bellVars
        <3>2. CASE pc[w] = "wait" /\ Goto(w, "timed")
            BY <3>1, <3>2, BellMoves DEF Outside
        <3>3. CASE pc[w] = "recheck" /\ Goto(w, "parked")
            BY <3>1, <3>3, BellMoves DEF Between
        <3> QED
            BY <2>10, <3>2, <3>3 DEF DoorbellFails
    <2> QED
        BY <1>4, <2>1, <2>2, <2>3, <2>4, <2>5, <2>6, <2>7, <2>8, <2>9, <2>10 DEF InClaim
<1>5. CASE CloseAll
    BY <1>5, BellCloses
<1>6. CASE Dismantle
    BY <1>6, BellDismantles
<1>7. CASE UNCHANGED vars
    BY <1>1, <1>7, BellUntouched DEF vars
<1> QED
    BY <1>2, <1>3, <1>4, <1>5, <1>6, <1>7 DEF Next

\* Whatever the number of workers, and however joins, leaves and Close overlap: a shared
\* Redis subscription lives exactly as long as somebody waits on it, and none is leaked
\* (storage/redis/bells.go join, leave, closeAll).
THEOREM SharedBellIsNeverTornOut == Spec => []BellOutlivesItsWaiters
<1>1. ASSUME BellInv, backend = "redis" PROVE BellOutlivesItsWaiters
    <2>1. \A S \in SUBSET Worker : Cardinality(S) \in Nat /\ (Cardinality(S) = 0 <=> S = {})
        BY WorkerFinite, FS_Subset, FS_CardinalityType, FS_EmptySet
    <2>2. Cardinality(joined) \in Nat /\ (Cardinality(joined) = 0 <=> joined = {})
        BY <2>1 DEF joined
    <2>3. entry # NoEntry => joined # {}
        BY <1>1, <2>2 DEF BellInv
    <2>4. ASSUME ~closed.store
          PROVE  /\ entry.waiters = Cardinality(joined)
                 /\ \A w \in joined : chan[w] = entry.conn /\ chan[w] \in open
        <3>1. ~closed.bells
            BY <1>1, <2>4 DEF BellInv
        <3>2. joined # {} => entry # NoEntry
            BY <1>1, <2>2, <3>1 DEF BellInv, NoEntry
        <3> QED
            BY <1>1, <3>1, <3>2 DEF BellInv
    <2> QED
        BY <1>1, <2>3, <2>4 DEF BellInv, BellOutlivesItsWaiters, TornDown, Tearing
<1>2. BellInv => BellOutlivesItsWaiters
    BY <1>1 DEF BellOutlivesItsWaiters
<1> QED
    BY <1>2, BellInitially, BellStep, PTL DEF Spec
=============================================================================
