----------------------------- MODULE RemoteWorker -----------------------------
(***************************************************************************)
(* Workers outside the store's process: the gRPC worker loop               *)
(* (adapters/grpc/client/worker.go) against ClaimNode, ExtendLease and the *)
(* reports of adapters/grpc/worker_service.go; the HTTP Handle, which      *)
(* renews its own lease (adapters/http/client/handle.go), against          *)
(* adapters/http/claim.go and leases.go; and, in process, the typed view,  *)
(* which takes an undecodable node out of circulation (typed.go).          *)
(*                                                                         *)
(* The store is only what they see of it: a node is ready, claimed, done   *)
(* or gone, with the epoch of its last lease and whether that lease has    *)
(* run out.  A scheduled retry counts as ready.  A call that is lost,      *)
(* before or after the server acts on it, looks the same to its caller: an *)
(* error.                                                                  *)
(***************************************************************************)
EXTENDS Naturals, FiniteSets

CONSTANTS
    Worker,
    Protos,         \* the pairings checked, each [Worker -> {"grpc", "http", "typed"}]
    Node,
    MaxAttempts,    \* grants a node gets before a failure is final
    Losses,         \* how many calls are lost
    Removals        \* how many nodes a client deletes

ASSUME MaxAttemptsAssumption == MaxAttempts \in Nat \ {0}

VARIABLES
    proto,      \* proto[w]: how the worker talks to the store
    node,       \* node[n].phase, .epoch, .expired
    pc,         \* pc[w]: where the worker's own goroutine is
    lease,      \* lease[w]: node and epoch of the lease it works on
    beat,       \* beat[w]: its heartbeat or renew goroutine
    beatLease,  \* the lease that goroutine extends
    err,        \* workers whose Handle has recorded why renewing stopped
    reply,      \* reply[w]: what the report's answer says, on its way
    drain,      \* is the server shutting down?
    delete,     \* the DELETE with If-Match: its node, its step, has its ETag changed since?
    budget      \* losses and removals left

vars == <<proto, node, pc, lease, beat, beatLease, err, reply, drain, delete, budget>>
workerVars == <<proto, pc, lease, beat, beatLease, err, reply>>

None == <<0, 0>>
NoDelete == [node |-> 0, step |-> "none", stale |-> FALSE]

Init ==
    /\ node = [n \in Node |-> [phase |-> "ready", epoch |-> 0, expired |-> FALSE]]
    /\ proto \in Protos
    /\ pc = [w \in Worker |-> "idle"] /\ lease = [w \in Worker |-> None]
    /\ beat = [w \in Worker |-> "off"] /\ beatLease = [w \in Worker |-> None]
    /\ err = {} /\ reply = [w \in Worker |-> "ok"]
    /\ drain = FALSE /\ delete = NoDelete
    /\ budget = [losses |-> Losses, removals |-> Removals]
-----------------------------------------------------------------------------
(***************************************************************************)
(* What a call does to the store                                           *)
(***************************************************************************)

\* Every transition of a node changes its Seq, which is its ETag.
touched(n) ==
    delete' = [delete EXCEPT !.stale = @ \/ (delete.step = "matched" /\ delete.node = n)]

write(n, phase) ==
    /\ node' = [node EXCEPT ![n].phase = phase, ![n].expired = FALSE]
    /\ touched(n)

keep == UNCHANGED <<node, delete>>

\* Fenced on the epoch; a lease that ran out but was not reclaimed still counts.
fence(l) == l # None /\ node[l[1]].phase = "claimed" /\ node[l[1]].epoch = l[2]

\* A failed attempt: another one, or the end.
afterFailure(n) == IF node[n].epoch < MaxAttempts THEN "ready" ELSE "done"

grant(n) ==
    /\ node' = [node EXCEPT ![n] = [phase |-> "claimed", epoch |-> @.epoch + 1, expired |-> FALSE]]
    /\ touched(n)

extend(l) ==
    node' = IF fence(l) THEN [node EXCEPT ![l[1]].expired = FALSE] ELSE node

Expire(n) ==
    /\ node[n].phase = "claimed" /\ ~node[n].expired
    /\ node' = [node EXCEPT ![n].expired = TRUE]
    /\ UNCHANGED <<drain, delete, budget>> /\ UNCHANGED workerVars

Reclaim(n) ==
    /\ node[n].phase = "claimed" /\ node[n].expired
    /\ write(n, afterFailure(n))
    /\ UNCHANGED <<drain, budget>> /\ UNCHANGED workerVars
-----------------------------------------------------------------------------
(***************************************************************************)
(* Claiming                                                                *)
(***************************************************************************)
Goto(w, to) == pc' = [pc EXCEPT ![w] = to]
remote(w) == proto[w] # "typed"
lose == budget.losses > 0 /\ budget' = [budget EXCEPT !.losses = @ - 1]

\* Run's next claimOnce; Client.Claim; Typed.Claim.  The gRPC worker has waited for its
\* heartbeat; a caller that does not wait for the last tick of an old Handle is another
\* worker here.
Ask(w) ==
    /\ pc[w] = "idle" /\ beat[w] = "off" /\ (remote(w) => ~drain)
    /\ Goto(w, "asking") /\ err' = err \ {w}
    /\ UNCHANGED <<proto, node, lease, beat, beatLease, reply, drain, delete, budget>>

\* Manager.Claim inside the handler.
Grant(w) ==
    /\ pc[w] = "asking"
    /\ \E n \in Node :
          /\ node[n].phase = "ready" /\ node[n].epoch < MaxAttempts
          /\ grant(n)
          /\ lease' = [lease EXCEPT ![w] = <<n, node[n].epoch + 1>>]
    /\ Goto(w, "granted")
    /\ UNCHANGED <<proto, beat, beatLease, err, reply, drain, budget>>

\* The poll elapsed, or the server drains: an empty answer, and the next poll.
Nothing(w) ==
    /\ pc[w] = "asking" /\ remote(w)
    /\ Goto(w, "idle")
    /\ UNCHANGED <<proto, node, lease, beat, beatLease, err, reply, drain, delete, budget>>

\* ClaimNode's select finds both the result and the shutdown channel ready, and takes
\* the latter: the lease exists and nobody has been told.
Withheld(w) ==
    /\ pc[w] = "granted" /\ proto[w] = "grpc" /\ drain
    /\ Goto(w, "idle") /\ lease' = [lease EXCEPT ![w] = None]
    /\ UNCHANGED <<proto, node, beat, beatLease, err, reply, drain, delete, budget>>

\* The answer does not arrive: Run ends with the error; an HTTP caller asks again.
LeaseLost(w) ==
    /\ pc[w] = "granted" /\ remote(w) /\ lose
    /\ Goto(w, IF proto[w] = "grpc" THEN "quit" ELSE "idle")
    /\ lease' = [lease EXCEPT ![w] = None]
    /\ UNCHANGED <<proto, node, beat, beatLease, err, reply, drain, delete>>

\* runLease and newHandle start the goroutine that keeps the lease alive.
Receive(w) ==
    /\ pc[w] = "granted"
    /\ Goto(w, "working")
    /\ IF remote(w) THEN /\ beat' = [beat EXCEPT ![w] = "waiting"]
                         /\ beatLease' = [beatLease EXCEPT ![w] = lease[w]]
       ELSE UNCHANGED <<beat, beatLease>>
    /\ UNCHANGED <<proto, node, lease, err, reply, drain, delete, budget>>
-----------------------------------------------------------------------------
(***************************************************************************)
(* Keeping the lease alive: heartbeatLoop, renewLoop and tick              *)
(***************************************************************************)
\* Nobody closes the channel the goroutine selects on.
toldNever(w) == FALSE

\* Has the goroutine been told to stop?  close(stop) once the handler has returned;
\* Handle.Close after the report or when the work is given up.
told(w) == IF proto[w] = "grpc" THEN pc[w] = "closing" ELSE pc[w] = "idle"

\* heartbeatLoop makes a new timer before it looks at stop, so a closed stop wins; a
\* Ticker's tick may have been pending when done was closed, and select picks either.
Beat(w) ==
    /\ beat[w] = "waiting" /\ (told(w) => proto[w] = "http")
    /\ beat' = [beat EXCEPT ![w] = "sent"]
    /\ UNCHANGED <<proto, node, pc, lease, beatLease, err, reply, drain, delete, budget>>

\* After an error the gRPC worker goes on beating; a Handle records it, cancels its
\* context and stops.
beatFailed(w) ==
    IF proto[w] = "grpc" THEN beat' = [beat EXCEPT ![w] = "waiting"] /\ UNCHANGED err
    ELSE beat' = [beat EXCEPT ![w] = "off"] /\ err' = err \cup {w}

BeatAnswered(w) ==
    /\ beat[w] = "sent"
    /\ extend(beatLease[w])
    /\ IF fence(beatLease[w]) THEN beat' = [beat EXCEPT ![w] = "waiting"] /\ UNCHANGED err
       ELSE beatFailed(w)
    /\ UNCHANGED <<proto, pc, lease, beatLease, reply, drain, delete, budget>>

BeatLost(w) ==
    /\ beat[w] = "sent" /\ lose
    /\ extend(beatLease[w]) \/ UNCHANGED node
    /\ beatFailed(w)
    /\ UNCHANGED <<proto, pc, lease, beatLease, reply, drain, delete>>

BeatStops(w) ==
    /\ beat[w] = "waiting" /\ told(w)
    /\ beat' = [beat EXCEPT ![w] = "off"]
    /\ UNCHANGED <<proto, node, pc, lease, beatLease, err, reply, drain, delete, budget>>
-----------------------------------------------------------------------------
(***************************************************************************)
(* Reporting                                                               *)
(***************************************************************************)

\* The handler returns; the gRPC worker stops its heartbeat first.
HandlerReturns(w) ==
    /\ pc[w] = "working"
    /\ Goto(w, IF proto[w] = "grpc" THEN "closing" ELSE "reporting")
    /\ UNCHANGED <<proto, node, lease, beat, beatLease, err, reply, drain, delete, budget>>

\* The renew loop found the lease lost, and the handler looks at its context: Close.
Abandon(w) ==
    /\ pc[w] = "working" /\ proto[w] = "http" /\ w \in err
    /\ Goto(w, "idle") /\ lease' = [lease EXCEPT ![w] = None]
    /\ UNCHANGED <<proto, node, beat, beatLease, err, reply, drain, delete, budget>>

\* <-done
Await(w) ==
    /\ pc[w] = "closing" /\ beat[w] = "off"
    /\ Goto(w, "reporting")
    /\ UNCHANGED <<proto, node, lease, beat, beatLease, err, reply, drain, delete, budget>>

\* The server's half of a report.  Complete and Skip end the node, Fail may retry it;
\* the typed view's own Nack of an undecodable payload wants it cancelled when it was.
Report(w) ==
    /\ pc[w] = "reporting"
    /\ IF fence(lease[w])
       THEN \E phase \in {"done", afterFailure(lease[w][1])} :
               /\ write(lease[w][1], phase)
               /\ \/ Goto(w, IF proto[w] = "http" THEN "inspecting" ELSE "replied")
                  \/ proto[w] = "typed" /\ phase = "ready" /\ Goto(w, "poison")
               /\ reply' = [reply EXCEPT ![w] = "ok"]
       ELSE /\ keep
            /\ Goto(w, "replied") /\ reply' = [reply EXCEPT ![w] = "error"]
    /\ UNCHANGED <<proto, lease, beat, beatLease, err, drain, budget>>

\* writeCompletion looks at the node again for its answer; it may be gone by then.
Inspect(w) ==
    /\ pc[w] = "inspecting"
    /\ reply' = [reply EXCEPT ![w] = IF node[lease[w][1]].phase = "gone" THEN "error" ELSE "ok"]
    /\ Goto(w, "replied")
    /\ UNCHANGED <<proto, node, lease, beat, beatLease, err, drain, delete, budget>>

\* Typed.poison's second operation, by node and not by lease.
Poison(w) ==
    /\ pc[w] = "poison"
    /\ IF node[lease[w][1]].phase \in {"ready", "claimed"} THEN write(lease[w][1], "done")
       ELSE keep
    /\ Goto(w, "replied")
    /\ UNCHANGED <<proto, lease, beat, beatLease, err, reply, drain, budget>>

\* The report is lost on its way to the server.  Nobody sends it again.
ReportLost(w) ==
    /\ pc[w] = "reporting" /\ remote(w) /\ lose
    /\ Goto(w, "replied") /\ reply' = [reply EXCEPT ![w] = "error"]
    /\ UNCHANGED <<proto, node, lease, beat, beatLease, err, drain, delete>>

\* The answer arrives, or is lost and shows as an error.  Handle.Complete closes the
\* handle on its way out; the gRPC worker polls again.
Answered(w) ==
    /\ pc[w] = "replied"
    /\ Goto(w, "idle") /\ lease' = [lease EXCEPT ![w] = None]
    /\ reply' = [reply EXCEPT ![w] = "ok"]
    /\ UNCHANGED <<proto, node, beat, beatLease, err, drain, delete, budget>>
-----------------------------------------------------------------------------
(***************************************************************************)
(* DELETE with If-Match, and shutdown                                      *)
(***************************************************************************)

\* handleDeleteNode looks the node up; a client's ETag that does not match ends it here.
LookupNode(n) ==
    /\ delete = NoDelete /\ budget.removals > 0 /\ node[n].phase # "gone"
    /\ budget' = [budget EXCEPT !.removals = @ - 1]
    /\ delete' = [NoDelete EXCEPT !.node = n, !.step = "matched"]
    /\ UNCHANGED <<node, drain>> /\ UNCHANGED workerVars

\* Then it removes the node, whatever it is by then, unless it is in flight.
RemoveNode ==
    /\ delete.step = "matched"
    /\ node' = IF node[delete.node].phase \in {"ready", "done"}
               THEN [node EXCEPT ![delete.node].phase = "gone"] ELSE node
    /\ delete' = [delete EXCEPT !.step = "answered"]
    /\ UNCHANGED <<drain, budget>> /\ UNCHANGED workerVars

Shutdown ==
    /\ ~drain /\ drain' = TRUE
    /\ UNCHANGED <<node, delete, budget>> /\ UNCHANGED workerVars
-----------------------------------------------------------------------------
Work(w) ==
    \/ Receive(w) \/ HandlerReturns(w) \/ Await(w) \/ Report(w) \/ Inspect(w) \/ Poison(w)
    \/ Answered(w)

Next ==
    \/ \E n \in Node : Expire(n) \/ Reclaim(n) \/ LookupNode(n)
    \/ RemoveNode \/ Shutdown
    \/ \E w \in Worker :
          \/ Ask(w) \/ Grant(w) \/ Nothing(w) \/ Withheld(w) \/ LeaseLost(w)
          \/ Work(w) \/ Abandon(w) \/ ReportLost(w)
          \/ Beat(w) \/ BeatAnswered(w) \/ BeatStops(w) \/ BeatLost(w)

\* Handlers return and goroutines run; a lease runs out and is reclaimed unless it is
\* extended.  A select that finds done closed again and again takes it at last.  Nobody
\* need ask for work, and the timer of a heartbeat need not fire.
Fairness ==
    /\ \A w \in Worker :
          WF_vars(BeatAnswered(w)) /\ SF_vars(BeatStops(w)) /\ WF_vars(Work(w))
    /\ \A n \in Node : WF_vars(Expire(n)) /\ WF_vars(Reclaim(n))

Spec == Init /\ [][Next]_vars /\ Fairness
-----------------------------------------------------------------------------
(***************************************************************************)
(* Properties                                                              *)
(***************************************************************************)

\* No lease lasts for ever, also one that its worker never got, gave up or reported in
\* vain: the node is granted to somebody else or ends, since nothing extends a lease
\* whose worker is done with it (worker.go report, handle.go Close, worker_service.go
\* ClaimNode).
NoLeaseIsForever ==
    \A n \in Node, e \in 1..MaxAttempts : []<>~(node[n].phase = "claimed" /\ node[n].epoch = e)

\* Every step of a worker towards the end of a lease is taken: no worker hangs between
\* the grant and the next poll, on its own goroutine or on the server.
EveryLeaseIsReported ==
    \A w \in Worker :
        []<>(pc[w] \notin {"working", "closing", "reporting", "inspecting", "poison", "replied"})

\* Whatever is lost on the way, a lease comes to an end on both sides: its worker goes
\* on to the next, and the node to somebody else unless it is done.
EveryLeaseEnds == NoLeaseIsForever /\ EveryLeaseIsReported

\* Handle.Err (handle.go:95-96): nil if the renew loop was stopped via Complete.
ErrIsNilAfterComplete ==
    \A w \in Worker : pc[w] = "replied" /\ reply[w] = "ok" => w \notin err

\* A DELETE with If-Match removes the node only as the client knows it.
IfMatchStillHolds ==
    [][RemoveNode /\ node' # node => ~delete.stale]_vars
=============================================================================
