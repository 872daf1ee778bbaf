------------------------------ MODULE ClaimLoop ------------------------------
(***************************************************************************)
(* How an idle worker learns of work: Manager.Claim and waitForWork        *)
(* (claim.go), the maintenance loop (manager.go maintain), and the         *)
(* doorbells of the three backends: the in-memory one, which rings under   *)
(* the scope's lock (storage/memory/watch.go), PostgreSQL's notifier on    *)
(* one LISTEN connection (storage/postgres/notifier.go, watch.go), and     *)
(* Redis' shared Pub/Sub subscriptions (storage/redis/bells.go, watch.go). *)
(* A backend may also have no doorbell at all.                             *)
(*                                                                         *)
(* One scope.  Its nodes are only counted: new ones are still to be added; *)
(* due ones have become claimable by the clock, a backoff that elapsed or  *)
(* a lease that expired, which nobody notices until a Claim or a Sweep     *)
(* looks; ready ones are in the ready index; held ones are leased.  Every  *)
(* duration is left out: a timer may fire at any time.  Kinds are left out *)
(* (a worker asks for any).  A connection is 0, PostgreSQL's listener, or  *)
(* the number of a Redis subscription.                                     *)
(***************************************************************************)
EXTENDS Naturals, FiniteSets

CONSTANTS
    Worker,         \* goroutines that call Manager.Claim
    Backends,       \* which of "memory", "postgres" (Open), "pgpool" (New, on a pool of
                    \* the host's), "redis", "bare" to start with
    Nodes,          \* how many nodes are added
    Lapses,         \* how often a held node comes back (expiry, or a failed attempt)
    MaxInFlight,    \* ScopeConfig.MaxInFlight, 0 for none
    Faults,         \* how often a connection drops or a doorbell query fails
    Sweeping,       \* on which backends is the maintenance loop on (not sweepDisabled)?
    Stops,          \* which of "manager", "store" may be closed, "context" cancelled
    MaxStops        \* and how often that happens

ASSUME NodesAssumption == Nodes \in Nat
ASSUME WorkerFinite == IsFiniteSet(Worker)

VARIABLES
    backend,
    nodes,      \* nodes.new, .due, .ready, .held: how many there are of each
    pc,         \* pc[w]: where worker w is in Claim; "out" is not in Claim
    chan,       \* chan[w]: the connection whose bell channel w selects on, or NoConn
    rung,       \* the workers whose channel has been closed
    entry,      \* bells.state[scope]: connection and reference count; or NoEntry
    open,       \* Redis subscriptions that have not been torn down
    doomed,     \* those of them that closeAll is tearing down
    live,       \* connections that receive what is published
    mail,       \* connections with an undelivered notification
    maint,      \* the maintenance goroutine
    overdue,    \* has the scope's SweepInterval passed since lastSwept?
    closed,     \* closed.manager, .store, and .bells once closeAll or stop has run
    cancelled,  \* workers whose context is done
    budget      \* faults, lapses and stops still to come

vars == <<backend, nodes, pc, chan, rung, entry, open, doomed, live, mail, maint, overdue, closed,
          cancelled, budget>>
bellVars == <<chan, rung, entry, open, doomed, live, mail>>
ctlVars == <<backend, maint, overdue, closed, cancelled, budget>>

NoConn == 99
NoEntry == [conn |-> NoConn, waiters |-> 0]
Listener == 0

Init ==
    /\ backend \in Backends
    /\ nodes = [new |-> Nodes, due |-> 0, ready |-> 0, held |-> 0]
    /\ pc = [w \in Worker |-> "out"]
    /\ chan = [w \in Worker |-> NoConn] /\ rung = {}
    /\ entry = NoEntry /\ open = {} /\ doomed = {} /\ mail = {}
    /\ live = {}
    /\ maint = IF backend \in Sweeping THEN "sleep" ELSE "exited"
    /\ overdue = TRUE
    /\ closed = [manager |-> FALSE, store |-> FALSE, bells |-> FALSE]
    /\ cancelled = {}
    /\ budget = [faults |-> Faults, lapses |-> Lapses, stops |-> MaxStops]
-----------------------------------------------------------------------------
(***************************************************************************)
(* Nodes become claimable                                                  *)
(***************************************************************************)
isPg == backend \in {"postgres", "pgpool"}
anyReady == nodes.ready > 0
atCap == MaxInFlight > 0 /\ nodes.held >= MaxInFlight

\* The workers that hold the channel a ring closes: in memory and PostgreSQL the
\* scope has one channel; in Redis it is that of the current entry.
listeners ==
    {w \in Worker : chan[w] # NoConn /\ (backend = "redis" => chan[w] = entry.conn)}

\* makeReady rings: in memory at once, elsewhere by a message to the connections that
\* are listening.
Notify ==
    \/ backend = "memory" /\ rung' = rung \cup listeners /\ UNCHANGED mail
    \/ backend \in {"postgres", "redis"} /\ mail' = mail \cup live /\ UNCHANGED rung
    \/ backend \in {"pgpool", "bare"} /\ UNCHANGED <<rung, mail>>

\* A producer adds a node, possibly from another process.
Submit ==
    /\ nodes.new > 0
    /\ nodes' = [nodes EXCEPT !.new = @ - 1, !.ready = @ + 1]
    /\ Notify
    /\ UNCHANGED <<pc, chan, entry, open, doomed, live>> /\ UNCHANGED ctlVars

\* A lease expires, or an attempt failed and its backoff is over: nobody is told.
Lapse ==
    /\ nodes.held > 0 /\ budget.lapses > 0
    /\ nodes' = [nodes EXCEPT !.held = @ - 1, !.due = @ + 1]
    /\ budget' = [budget EXCEPT !.lapses = @ - 1]
    /\ UNCHANGED <<pc, backend, maint, overdue, closed, cancelled>> /\ UNCHANGED bellVars

Finish ==
    /\ nodes.held > 0
    /\ nodes' = [nodes EXCEPT !.held = @ - 1]
    /\ UNCHANGED pc /\ UNCHANGED bellVars /\ UNCHANGED ctlVars
-----------------------------------------------------------------------------
(***************************************************************************)
(* Manager.Claim                                                           *)
(***************************************************************************)
Goto(w, to) == pc' = [pc EXCEPT ![w] = to]

\* check: a closed Manager refuses.
Enter(w) ==
    /\ pc[w] = "out" /\ w \notin cancelled /\ ~closed.manager
    /\ Goto(w, "try")
    /\ UNCHANGED nodes /\ UNCHANGED bellVars /\ UNCHANGED ctlVars

\* A closed store answers with an error; one on the host's own pool goes on working.
storeGone == closed.store /\ backend # "pgpool"

\* The top of the loop without its look at the closed channel.
leavesLoopUnclosed(w) == w \in cancelled \/ storeGone

\* What ends the loop before a claim is made: the context, Close, or the store's error.
leavesLoop(w) == w \in cancelled \/ closed.manager \/ storeGone

Stop(w) ==
    /\ pc[w] = "try" /\ leavesLoop(w)
    /\ Goto(w, "out")
    /\ UNCHANGED nodes /\ UNCHANGED bellVars /\ UNCHANGED ctlVars

\* store.Claim promotes what is due, then grants, unless the scope is at its limit.
StoreClaim(w) ==
    /\ pc[w] = "try" /\ ~ leavesLoop(w)
    /\ LET n == [nodes EXCEPT !.ready = @ + nodes.due, !.due = 0]
       IN  IF n.ready > 0 /\ ~atCap
           THEN nodes' = [n EXCEPT !.ready = @ - 1, !.held = @ + 1] /\ Goto(w, "out")
           ELSE nodes' = n /\ Goto(w, "wait")
    /\ IF nodes.due > 0 THEN Notify ELSE UNCHANGED <<rung, mail>>
    /\ UNCHANGED <<chan, entry, open, doomed, live>> /\ UNCHANGED ctlVars
-----------------------------------------------------------------------------
(***************************************************************************)
(* waitForWork and the backends' WaitForWork                               *)
(***************************************************************************)

\* In memory WaitForWork parks without looking at the ready heaps.
waitMemoryBlind(w) ==
    /\ Goto(w, "parked") /\ chan' = [chan EXCEPT ![w] = Listener]
    /\ UNCHANGED <<rung, entry, open, doomed, live, mail>>

\* The look and the capture of the channel are under the scope's lock.
waitMemory(w) ==
    /\ IF anyReady THEN Goto(w, "try") /\ UNCHANGED chan
       ELSE Goto(w, "parked") /\ chan' = [chan EXCEPT ![w] = Listener]
    /\ UNCHANGED <<rung, entry, open, doomed, live, mail>>

\* Elsewhere the first look is a query of its own, which may fail; the channel comes
\* after it.  Without a doorbell the timed wait is all there is.
Wait(w) ==
    /\ pc[w] = "wait"
    /\ \/ backend = "memory" /\ ~closed.store /\ waitMemory(w)
       \/ /\ backend # "memory" /\ ~storeGone /\ UNCHANGED bellVars
          /\ Goto(w, IF backend = "bare" THEN "timed" ELSE IF anyReady THEN "try" ELSE "join")
       \/ /\ storeGone /\ UNCHANGED bellVars
          /\ Goto(w, IF backend \in {"memory", "redis"} THEN "out" ELSE "timed")
    /\ UNCHANGED nodes /\ UNCHANGED ctlVars

\* A doorbell that fails: fall back to the timed wait.  The second look of Redis may fail
\* as well, and counts as one that found nothing.
DoorbellFails(w) ==
    /\ (isPg \/ backend = "redis") /\ budget.faults > 0
    /\ budget' = [budget EXCEPT !.faults = @ - 1]
    /\ \/ pc[w] = "wait" /\ Goto(w, "timed")
       \/ pc[w] = "recheck" /\ Goto(w, "parked")
    /\ UNCHANGED <<nodes, backend, maint, overdue, closed, cancelled>> /\ UNCHANGED bellVars

\* notifier.waitChan
WaitChan(w) ==
    /\ pc[w] = "join" /\ isPg
    /\ chan' = [chan EXCEPT ![w] = Listener] /\ Goto(w, "parked")
    /\ UNCHANGED <<nodes, rung, entry, open, doomed, live, mail>> /\ UNCHANGED ctlVars

freeConn == CHOOSE c \in 1..(2 * Cardinality(Worker) + 1) :
                c \notin open /\ \A w \in Worker : chan[w] # c

\* bells.join: the first waiter opens the subscription, which takes effect later.
Join(w) ==
    /\ pc[w] = "join" /\ backend = "redis"
    /\ LET e == IF entry = NoEntry THEN [conn |-> freeConn, waiters |-> 0] ELSE entry
       IN  /\ entry' = [e EXCEPT !.waiters = @ + 1]
           /\ open' = open \cup {e.conn}
           /\ chan' = [chan EXCEPT ![w] = e.conn]
    /\ Goto(w, "recheck")
    /\ UNCHANGED <<nodes, rung, doomed, live, mail>> /\ UNCHANGED ctlVars

\* The second look, after joining.
Recheck(w) ==
    /\ pc[w] = "recheck"
    /\ \/ anyReady /\ Goto(w, "leave")
       \/ ~anyReady /\ Goto(w, "parked")
    /\ UNCHANGED nodes /\ UNCHANGED bellVars /\ UNCHANGED ctlVars

\* Out of the select, back into the loop or out of Claim; in Redis the deferred leave
\* comes first.
Unpark(w, to) ==
    IF backend = "redis" THEN Goto(w, "leave") /\ UNCHANGED bellVars
    ELSE /\ Goto(w, to)
         /\ chan' = [chan EXCEPT ![w] = NoConn] /\ rung' = rung \ {w}
         /\ UNCHANGED <<entry, open, doomed, live, mail>>

\* The bell rings, the store closes, or the context ends.
Woken(w) ==
    /\ pc[w] = "parked" /\ (w \in rung \/ closed.store \/ w \in cancelled)
    /\ Unpark(w, IF w \in rung THEN "try" ELSE "out")
    /\ UNCHANGED nodes /\ UNCHANGED ctlVars

\* waitForWork without a bound of its own on the doorbell.
PollElapsesUnbounded(w) ==
    /\ isPg /\ pc[w] = "parked" /\ ~closed.store
    /\ Unpark(w, "try")
    /\ UNCHANGED nodes /\ UNCHANGED ctlVars

\* waitForWork's own bound on the doorbell, one jittered poll interval; PostgreSQL's
\* pollInterval ends its wait the same way.  A closed store is noticed at once, so before
\* any timer.
PollElapses(w) ==
    /\ pc[w] = "parked" /\ ~closed.store
    /\ Unpark(w, "try")
    /\ UNCHANGED nodes /\ UNCHANGED ctlVars

\* The Redis ticker only looks at the ready counter.
Ticker(w) ==
    /\ pc[w] = "parked" /\ backend = "redis" /\ anyReady
    /\ Goto(w, "leave")
    /\ UNCHANGED nodes /\ UNCHANGED bellVars /\ UNCHANGED ctlVars

\* The fallback: the timer, the context or Close.
TimedWaitEnds(w) ==
    /\ pc[w] = "timed"
    /\ Goto(w, "try")
    /\ UNCHANGED nodes /\ UNCHANGED bellVars /\ UNCHANGED ctlVars

\* bells.leave drops the entry whoever else still waits on it.
leaveAlways(w) == entry # NoEntry

\* bells.leave finds whichever entry the scope has now, and is its last reference.
leavesLast(w) == entry # NoEntry /\ entry.waiters = 1

\* The entry goes from the map under the lock.
Leave(w) ==
    /\ pc[w] = "leave"
    /\ rung' = rung \ {w}
    /\ IF leavesLast(w)
       THEN entry' = NoEntry /\ chan' = [chan EXCEPT ![w] = entry.conn] /\ Goto(w, "teardown")
       ELSE /\ entry' = IF entry = NoEntry THEN NoEntry ELSE [entry EXCEPT !.waiters = @ - 1]
            /\ chan' = [chan EXCEPT ![w] = NoConn] /\ Goto(w, "try")
    /\ UNCHANGED <<nodes, open, doomed, live, mail>> /\ UNCHANGED ctlVars

\* Outside it the subscription is closed, and its pump awaited.
Teardown(w) ==
    /\ pc[w] = "teardown" /\ Goto(w, "try")
    /\ chan' = [chan EXCEPT ![w] = NoConn]
    /\ open' = open \ {chan[w]} /\ live' = live \ {chan[w]} /\ mail' = mail \ {chan[w]}
    /\ UNCHANGED <<nodes, rung, entry, doomed>> /\ UNCHANGED ctlVars
-----------------------------------------------------------------------------
(***************************************************************************)
(* Connections                                                             *)
(***************************************************************************)

\* listenOnce's LISTEN, or the server's answer to SUBSCRIBE; also after a drop.
Listen ==
    /\ \E c \in (IF backend = "postgres" /\ ~closed.store THEN {Listener} ELSE open) \ live :
          live' = live \cup {c}
    /\ UNCHANGED <<nodes, pc, chan, rung, entry, open, doomed, mail>> /\ UNCHANGED ctlVars

\* A connection breaks; what was on its way is lost.
Drop ==
    /\ budget.faults > 0
    /\ budget' = [budget EXCEPT !.faults = @ - 1]
    /\ \E c \in live : live' = live \ {c} /\ mail' = mail \ {c}
    /\ UNCHANGED <<nodes, pc, chan, rung, entry, open, doomed, backend, maint, overdue, closed, cancelled>>

\* WaitForNotification or the Pub/Sub channel yields: ring.
Ring ==
    /\ \E c \in mail : mail' = mail \ {c}
    /\ rung' = rung \cup listeners
    /\ UNCHANGED <<nodes, pc, chan, entry, open, doomed, live>> /\ UNCHANGED ctlVars
-----------------------------------------------------------------------------
(***************************************************************************)
(* The maintenance loop                                                    *)
(***************************************************************************)
MaintStep(from, to) ==
    /\ maint = from /\ maint' = to
    /\ UNCHANGED <<pc, chan, entry, open, doomed, live, backend, closed, cancelled, budget>>

\* The tick, or Close.
MaintWakes ==
    /\ MaintStep("sleep", IF closed.manager THEN "exited" ELSE "list")
    /\ UNCHANGED <<nodes, rung, mail, overdue>>

\* Scopes fails (nothing is done until the next tick), or lists the scope; Close is
\* looked at before the scope is.
MaintLists ==
    /\ \/ closed.manager /\ MaintStep("list", "exited")
       \/ closed.store /\ MaintStep("list", "sleep")
       \/ ~closed.manager /\ ~closed.store /\ MaintStep("list", IF overdue THEN "sweep" ELSE "sleep")
    /\ UNCHANGED <<nodes, rung, mail, overdue>>

\* maintainScope: lastSwept is set whether or not Sweep works.
MaintSweeps ==
    /\ MaintStep("sweep", "sleep")
    /\ overdue' = FALSE
    /\ IF closed.store THEN UNCHANGED <<nodes, rung, mail>>
       ELSE /\ nodes' = [nodes EXCEPT !.ready = @ + nodes.due, !.due = 0]
            /\ IF nodes.due > 0 THEN Notify ELSE UNCHANGED <<rung, mail>>

IntervalPasses ==
    /\ ~overdue /\ overdue' = TRUE
    /\ UNCHANGED <<nodes, pc, backend, maint, closed, cancelled, budget>> /\ UNCHANGED bellVars
-----------------------------------------------------------------------------
(***************************************************************************)
(* Shutdown                                                                *)
(***************************************************************************)
spendStop == budget.stops > 0 /\ budget' = [budget EXCEPT !.stops = @ - 1]

CloseManager ==
    /\ "manager" \in Stops /\ ~closed.manager /\ spendStop
    /\ closed' = [closed EXCEPT !.manager = TRUE]
    /\ UNCHANGED <<nodes, pc, backend, maint, overdue, cancelled>> /\ UNCHANGED bellVars

\* Store.Close closes the channel everybody selects on first.
CloseStore ==
    /\ "store" \in Stops /\ ~closed.store /\ spendStop
    /\ closed' = [closed EXCEPT !.store = TRUE]
    /\ UNCHANGED <<nodes, pc, backend, maint, overdue, cancelled>> /\ UNCHANGED bellVars

\* Then notifier.stop, or bells.closeAll, which empties the map ...
CloseAll ==
    /\ closed.store /\ ~closed.bells
    /\ closed' = [closed EXCEPT !.bells = TRUE]
    /\ entry' = NoEntry
    /\ doomed' = doomed \cup (IF entry = NoEntry THEN {} ELSE {entry.conn})
    /\ live' = live \ {Listener} /\ mail' = mail \ {Listener}
    /\ UNCHANGED <<nodes, pc, chan, rung, open, backend, maint, overdue, cancelled, budget>>

\* ... and closes what was in it.
Dismantle ==
    /\ \E c \in doomed :
          /\ doomed' = doomed \ {c} /\ open' = open \ {c}
          /\ live' = live \ {c} /\ mail' = mail \ {c}
    /\ UNCHANGED <<nodes, pc, chan, rung, entry>> /\ UNCHANGED ctlVars

CancelContext(w) ==
    /\ "context" \in Stops /\ w \notin cancelled /\ pc[w] # "out" /\ spendStop
    /\ cancelled' = cancelled \cup {w}
    /\ UNCHANGED <<nodes, pc, backend, maint, overdue, closed>> /\ UNCHANGED bellVars
-----------------------------------------------------------------------------
InClaim(w) ==
    \/ Stop(w) \/ StoreClaim(w) \/ Wait(w) \/ WaitChan(w) \/ Join(w) \/ Recheck(w)
    \/ Woken(w) \/ PollElapses(w) \/ Ticker(w) \/ TimedWaitEnds(w) \/ Leave(w) \/ Teardown(w)

Maintain == MaintWakes \/ MaintLists \/ MaintSweeps

Next ==
    \/ Submit \/ Lapse \/ Finish
    \/ \E w \in Worker : Enter(w) \/ InClaim(w) \/ DoorbellFails(w) \/ CancelContext(w)
    \/ Listen \/ Drop \/ Ring
    \/ Maintain \/ IntervalPasses
    \/ CloseManager \/ CloseStore \/ CloseAll \/ Dismantle

\* Goroutines that can go on do, timers fire, and the clock runs.  Nothing is assumed
\* of the network: a connection may never come up and a message never arrive.
Fairness ==
    /\ \A w \in Worker : WF_vars(InClaim(w))
    /\ WF_vars(Maintain) /\ WF_vars(IntervalPasses)

Spec == Init /\ [][Next]_vars /\ Fairness
-----------------------------------------------------------------------------
(***************************************************************************)
(* Properties                                                              *)
(***************************************************************************)

\* In memory no wakeup is lost: a worker that sits in the doorbell's select, its channel
\* not yet closed, has nothing to claim (storage/memory/watch.go WaitForWork captures
\* the channel under the lock under which makeReady replaces it).
NoWakeupIsLost ==
    backend = "memory" =>
        \A w \in Worker : pc[w] = "parked" /\ w \notin rung => ~anyReady

\* Workers between join and leave
joined == {w \in Worker : pc[w] \in {"recheck", "parked", "leave"}}

\* Redis: while the store is open the shared subscription lives exactly as long as
\* somebody waits, and everybody waits on the one that will be rung: the first worker
\* to give up does not tear the bell out from under the others (bells.go join, leave).
\* Also after a Close that overlaps with late joins, every subscription is either in the
\* map, with somebody still to leave, or being torn down: none leaks.
BellOutlivesItsWaiters ==
    backend = "redis" =>
        /\ ~closed.store => /\ entry.waiters = Cardinality(joined)
                            /\ \A w \in joined : chan[w] = entry.conn /\ chan[w] \in open
        /\ entry # NoEntry => joined # {}
        /\ open \ {entry.conn} = doomed \cup {chan[w] : w \in {v \in Worker : pc[v] = "teardown"}}

claimable == nodes.ready + nodes.due > 0 /\ ~atCap /\ closed = [closed EXCEPT !.manager = FALSE, !.store = FALSE]

\* A worker inside Claim does not sit there while something could be claimed: it gets a
\* lease, or the work goes to somebody else, whatever notifications were lost, and also
\* when the work became claimable by the clock, of which no doorbell tells (claim.go
\* waitForWork bounds every wait).
WorkIsClaimed ==
    \A w \in Worker : []<>(pc[w] = "out" \/ ~claimable)

\* Close of the Manager, or of the store below it, ends every Claim, wherever it is, and
\* Close of the Manager ends the maintenance loop, for which Close waits.
CloseReleases ==
    /\ \A w \in Worker : closed.manager \/ closed.store ~> pc[w] = "out"
    /\ closed.manager ~> maint = "exited"

\* A worker that found nothing to claim waits before it asks again.
EmptyClaimWaits ==
    \A w \in Worker : []<>(pc[w] \notin {"try", "wait"})
=============================================================================
