-------------------------------- MODULE Daemon --------------------------------
(***************************************************************************)
(* The daemon's life (cmd/dagworkerd/daemon.go): start, serve the gRPC,    *)
(* HTTP and admin listeners, and the ordered shutdown; with the blocking   *)
(* handlers that must unwind for it to get anywhere: ClaimNode and the     *)
(* Watch session of the gRPC adapter, the long poll and the event stream   *)
(* of the HTTP adapter.                                                    *)
(*                                                                         *)
(* What a handler computes is left out; what it waits for is not, and one  *)
(* thing it may wait for is a store call that does not come back.  The     *)
(* servers and the database clients are external: GracefulStop and         *)
(* http.Shutdown return once no request is in flight, Stop cancels every   *)
(* stream; a Redis client gives up on a silent server by itself, a         *)
(* PostgreSQL one when the context of the call ends, and closing its pool  *)
(* waits for the connections in use.                                       *)
(***************************************************************************)
EXTENDS Naturals, Sequences

CONSTANTS
    Request,        \* requests that may arrive
    Kinds,          \* what they may be: "claim" and "watch" over gRPC, "poll" and "sse" over HTTP
    Stores,         \* the stores the daemon may be configured with: "redis", "postgres"
    WatchId,        \* identifiers a client gives its watches
    MaxWatches,     \* how many watches the session creates
    ReuseIds        \* may the client give an identifier a second time?

VARIABLES
    main,       \* where Run and shutdown are
    draining,   \* the readiness flag
    shut,       \* adapters whose shutdown channel is closed
    serving,    \* serving[a]: the Serve goroutine of a server
    failed,     \* has Run an error to return?
    store,      \* which store it is
    grace,      \* "long": requests unwind well within ShutdownTimeout; "short": it expires
    timedOut,   \* has shutdownCtx ended?
    mgrOpen, storeOpen,
    kind,       \* kind[r]: what the request is
    req,        \* req[r]: "none", "waiting", "leaving" or "over"
    call,       \* call[r]: the context of the store call r hangs in: "own", with a timeout and
                \* ended by the shutdown channel, or the "request"'s; "none" before, "back" after
    ctxDone,    \* requests whose own context has ended
    table,      \* the session's watches: id -> the watch its cancel function ends, 0 if none
    pump,       \* pump[i]: the i-th watch: its id, "live", "cancelled" or "ended"
    creating    \* the id createWatch is at, between its two critical sections

daemonVars == <<main, draining, shut, serving, failed, store, grace, timedOut, mgrOpen, storeOpen,
                kind, req, call, ctxDone, table, pump, creating>>
runVars == <<kind, main, draining, shut, serving, failed, store, grace, timedOut, mgrOpen, storeOpen>>
watchVars == <<table, pump, creating>>

Adapter == {"grpc", "http"}
Server == Adapter \cup {"admin"}
adapterOf(r) == IF kind[r] \in {"claim", "watch"} THEN "grpc" ELSE "http"
inFlight(r) == req[r] \in {"waiting", "leaving"}
hangs(r) == call[r] \in {"own", "request"}

DaemonInit ==
    /\ main = "new" /\ draining = FALSE /\ shut = {} /\ serving = [a \in Server |-> "no"]
    /\ failed = FALSE /\ store \in Stores /\ grace \in {"long", "short"} /\ timedOut = FALSE
    /\ mgrOpen = FALSE /\ storeOpen = FALSE
    /\ kind \in Kinds /\ req = [r \in Request |-> "none"]
    /\ call = [r \in Request |-> "none"] /\ ctxDone = {}
    /\ table = [i \in WatchId |-> 0] /\ pump = <<>> /\ creating = 0
-----------------------------------------------------------------------------
(***************************************************************************)
(* Start, and the Serve goroutines                                         *)
(***************************************************************************)

\* newDaemon: the store, the manager, the listeners.
Start ==
    /\ main = "new" /\ main' = "serving"
    /\ mgrOpen' = TRUE /\ storeOpen' = TRUE
    /\ serving' = [a \in Server |-> "bound"]
    /\ UNCHANGED <<kind, store, draining, shut, failed, grace, timedOut, req, call, ctxDone>>
    /\ UNCHANGED watchVars

\* A listener cannot be bound: the manager and the store are closed again, and the
\* listeners bound before it stay open.
StartFails ==
    /\ main = "new" /\ main' = "returned" /\ failed' = TRUE
    /\ \E bound \in {{}, {"grpc"}, {"grpc", "http"}} :
          serving' = [a \in Server |-> IF a \in bound THEN "abandoned" ELSE "no"]
    /\ UNCHANGED <<kind, store, draining, shut, grace, timedOut, mgrOpen, storeOpen, req, call, ctxDone>>
    /\ UNCHANGED watchVars

stopped(a) == IF a = "admin" THEN main \in {"wait", "returned"} ELSE a \in shut

\* A Serve goroutine gets to run.  A gRPC server that was already stopped answers
\* ErrServerStopped, which Run does not tell from a failure; the others are told apart.
Serve(a) ==
    /\ serving[a] = "bound"
    /\ serving' = [serving EXCEPT ![a] = IF stopped(a) THEN "returned" ELSE "accepting"]
    /\ failed' = (failed \/ (stopped(a) /\ a = "grpc"))
    /\ UNCHANGED <<kind, store, main, draining, shut, grace, timedOut, mgrOpen, storeOpen, req, call, ctxDone>>
    /\ UNCHANGED watchVars

\* The listener fails by itself: the error reaches Run's select.
ListenerFails(a) ==
    /\ serving[a] = "accepting" /\ ~stopped(a) /\ main = "serving"
    /\ serving' = [serving EXCEPT ![a] = "returned"]
    /\ failed' = TRUE
    /\ UNCHANGED <<kind, store, main, draining, shut, grace, timedOut, mgrOpen, storeOpen, req, call, ctxDone>>
    /\ UNCHANGED watchVars

\* Has everything that keeps Shutdown of adapter a waiting gone?
drained(a) == \A r \in Request : adapterOf(r) = a => ~inFlight(r)

\* Serve returns once its server has been told to stop; gRPC's waits for the drain.
ServeReturns(a) ==
    /\ serving[a] = "accepting" /\ stopped(a)
    /\ a = "grpc" => drained(a) \/ timedOut
    /\ serving' = [serving EXCEPT ![a] = "returned"]
    /\ UNCHANGED <<kind, store, main, draining, shut, failed, grace, timedOut, mgrOpen, storeOpen, req, call, ctxDone>>
    /\ UNCHANGED watchVars
-----------------------------------------------------------------------------
(***************************************************************************)
(* Requests                                                                *)
(***************************************************************************)
Set(r, to) == req' = [req EXCEPT ![r] = to]

Arrive(r) ==
    /\ req[r] = "none" /\ serving[adapterOf(r)] = "accepting" /\ adapterOf(r) \notin shut
    /\ Set(r, "waiting")
    /\ UNCHANGED <<call, ctxDone>> /\ UNCHANGED runVars /\ UNCHANGED watchVars

\* The contexts of the store calls that the handler of r makes.  A long poll's first
\* claim has the request's, the one it then blocks in has its own.
contexts(r) ==
    CASE kind[r] = "claim" -> {"own"}
      [] kind[r] = "poll" -> {"own", "request"}
      [] OTHER -> {"request"}

\* The handler is inside a store call that does not come back: once for each request.
Stick(r) ==
    /\ req[r] = "waiting" /\ call[r] = "none" /\ grace = "short"
    /\ \E c \in contexts(r) : call' = [call EXCEPT ![r] = c]
    /\ UNCHANGED <<req, ctxDone>> /\ UNCHANGED runVars /\ UNCHANGED watchVars

\* A store call ends after all: its context does, or a Redis client's patience.
CallReturns(r) ==
    /\ hangs(r)
    /\ call[r] = "own" \/ r \in ctxDone \/ store = "redis"
    /\ call' = [call EXCEPT ![r] = "back"]
    /\ UNCHANGED <<req, ctxDone>> /\ UNCHANGED runVars /\ UNCHANGED watchVars

\* A claim is granted, or a poll's own deadline ends it.
Finishes(r) ==
    /\ req[r] = "waiting" /\ ~hangs(r) /\ kind[r] # "watch"
    /\ Set(r, "over")
    /\ UNCHANGED <<call, ctxDone>> /\ UNCHANGED runVars /\ UNCHANGED watchVars

\* The client goes away, or Stop cancels the stream.
ContextEnds(r) ==
    /\ inFlight(r) /\ r \notin ctxDone
    /\ ctxDone' = ctxDone \cup {r}
    /\ UNCHANGED <<req, call>> /\ UNCHANGED runVars /\ UNCHANGED watchVars

\* A handler that waits only for its work and its client.
noticesCtxOnly(r) == r \in ctxDone

\* What every select of a waiting handler has besides its work: the request's context,
\* the adapter's shutdown channel; and Manager.Close ends the claim or the stream.
notices(r) == r \in ctxDone \/ adapterOf(r) \in shut \/ (~mgrOpen /\ kind[r] # "watch")

\* blockForOne cancels its claim and waits for the answer, an event stream just returns.
Unwind(r) ==
    /\ req[r] = "waiting" /\ ~hangs(r) /\ kind[r] # "watch" /\ notices(r)
    /\ Set(r, IF kind[r] = "poll" THEN "leaving" ELSE "over")
    /\ UNCHANGED <<call, ctxDone>> /\ UNCHANGED runVars /\ UNCHANGED watchVars

\* ClaimNode at shutdown: it cancels its claim, which has a goroutine of its own, and
\* returns without waiting for it.
AbandonClaim(r) ==
    /\ req[r] = "waiting" /\ kind[r] = "claim" /\ "grpc" \in shut
    /\ Set(r, "over")
    /\ call' = [call EXCEPT ![r] = "own"]
    /\ UNCHANGED ctxDone /\ UNCHANGED runVars /\ UNCHANGED watchVars
-----------------------------------------------------------------------------
(***************************************************************************)
(* The Watch session: one stream, the watches multiplexed on it            *)
(***************************************************************************)
session == {r \in Request : kind[r] = "watch"}
open(r) == r \in session /\ req[r] = "waiting" /\ ~hangs(r)
cancel(i) == [pump EXCEPT ![i].state = IF @ = "live" THEN "cancelled" ELSE @]

\* createWatch, up to the unlock: a watch with the same id is cancelled.
CreateWatch(r, id) ==
    /\ open(r) /\ creating = 0 /\ Len(pump) < MaxWatches
    /\ ~ReuseIds => \A i \in DOMAIN pump : pump[i].id # id
    /\ pump' = IF table[id] # 0 THEN cancel(table[id]) ELSE pump
    /\ creating' = id
    /\ UNCHANGED <<req, call, ctxDone, table>> /\ UNCHANGED runVars

\* The rest: subscribe, register, start the pump; or say why not.
RegisterWatch(r) ==
    /\ open(r) /\ creating # 0 /\ creating' = 0
    /\ IF mgrOpen
       THEN /\ pump' = Append(pump, [id |-> creating, state |-> "live"])
            /\ table' = [table EXCEPT ![creating] = Len(pump) + 1]
       ELSE UNCHANGED <<pump, table>>
    /\ UNCHANGED <<req, call, ctxDone>> /\ UNCHANGED runVars

CancelWatch(r, id) ==
    /\ open(r) /\ creating = 0 /\ table[id] # 0
    /\ pump' = cancel(table[id])
    /\ table' = [table EXCEPT ![id] = 0]
    /\ UNCHANGED <<req, call, ctxDone, creating>> /\ UNCHANGED runVars

\* A pump's subscription has ended: it takes its id out of the table, whoever's it is.
PumpEnds(i) ==
    /\ pump[i].state # "ended"
    /\ pump[i].state = "cancelled" \/ ~mgrOpen \/ \E r \in session : r \in ctxDone
    /\ pump' = [pump EXCEPT ![i].state = "ended"]
    /\ table' = [table EXCEPT ![pump[i].id] = 0]
    /\ UNCHANGED <<req, call, ctxDone, creating>> /\ UNCHANGED runVars

\* The session's loop returns and the deferred closeAll cancels what the table holds.
LeaveSession(r) ==
    /\ open(r) /\ creating = 0 /\ notices(r)
    /\ Set(r, "leaving")
    /\ pump' = [i \in DOMAIN pump |->
                  IF table[pump[i].id] = i /\ pump[i].state = "live"
                  THEN [pump[i] EXCEPT !.state = "cancelled"] ELSE pump[i]]
    /\ UNCHANGED <<call, ctxDone, table, creating>> /\ UNCHANGED runVars

\* closeAll's wg.Wait; the cancelled claim of a long poll returns.
Left(r) ==
    /\ req[r] = "leaving" /\ (kind[r] = "watch" => \A i \in DOMAIN pump : pump[i].state = "ended")
    /\ Set(r, "over")
    /\ UNCHANGED <<call, ctxDone>> /\ UNCHANGED runVars /\ UNCHANGED watchVars
-----------------------------------------------------------------------------
(***************************************************************************)
(* Run's select and shutdown, a step for each call in its order            *)
(***************************************************************************)
To(stage) == main' = stage

\* A signal ends Run's context, or a Serve goroutine has returned.
Trigger ==
    /\ main = "serving" /\ To("unready")
    /\ UNCHANGED <<kind, store, draining, shut, serving, failed, grace, timedOut, mgrOpen, storeOpen, req, call, ctxDone>>
    /\ UNCHANGED watchVars

FailReadiness ==
    /\ main = "unready" /\ To("adapters")
    /\ draining' = TRUE
    /\ UNCHANGED <<kind, store, shut, serving, failed, grace, timedOut, mgrOpen, storeOpen, req, call, ctxDone>>
    /\ UNCHANGED watchVars

\* Shutdown of an adapter, on a goroutine of its own: close the channel once.
ShutAdapter(a) ==
    /\ main = "adapters" /\ a \notin shut
    /\ shut' = shut \cup {a}
    /\ UNCHANGED <<kind, store, main, draining, serving, failed, grace, timedOut, mgrOpen, storeOpen, req, call, ctxDone>>
    /\ UNCHANGED watchVars

\* shutdownCtx ends: the gRPC adapter falls back to Stop, the HTTP one just returns.
Deadline ==
    /\ main = "adapters" /\ grace = "short" /\ shut = Adapter /\ ~timedOut
    /\ timedOut' = TRUE
    /\ ctxDone' = ctxDone \cup {r \in Request : adapterOf(r) = "grpc" /\ inFlight(r)}
    /\ UNCHANGED <<kind, store, main, draining, shut, serving, failed, grace, mgrOpen, storeOpen, req, call>>
    /\ UNCHANGED watchVars

\* shutdownAdapters that does not wait for its goroutines.
adaptersStarted == shut = Adapter

\* wg.Wait: both Shutdown calls have returned.
adaptersDown == shut = Adapter /\ (timedOut \/ \A a \in Adapter : drained(a))

AdaptersDown ==
    /\ main = "adapters" /\ adaptersDown /\ To("manager")
    /\ UNCHANGED <<kind, store, draining, shut, serving, failed, grace, timedOut, mgrOpen, storeOpen, req, call, ctxDone>>
    /\ UNCHANGED watchVars

CloseManager ==
    /\ main = "manager" /\ To("store")
    /\ mgrOpen' = FALSE
    /\ UNCHANGED <<kind, store, draining, shut, serving, failed, grace, timedOut, storeOpen, req, call, ctxDone>>
    /\ UNCHANGED watchVars

\* PostgreSQL's Close ignores its context, and closing the pool waits for every call.
storeCloses == store = "postgres" => \A r \in Request : ~hangs(r)

CloseStore ==
    /\ main = "store" /\ storeCloses /\ To("admin")
    /\ storeOpen' = FALSE
    /\ UNCHANGED <<kind, store, draining, shut, serving, failed, grace, timedOut, mgrOpen, req, call, ctxDone>>
    /\ UNCHANGED watchVars

CloseAdmin ==
    /\ main = "admin" /\ To("wait")
    /\ UNCHANGED <<kind, store, draining, shut, serving, failed, grace, timedOut, mgrOpen, storeOpen, req, call, ctxDone>>
    /\ UNCHANGED watchVars

\* running.Wait, and Run returns.
Return ==
    /\ main = "wait" /\ \A a \in Server : serving[a] = "returned"
    /\ To("returned")
    /\ UNCHANGED <<kind, store, draining, shut, serving, failed, grace, timedOut, mgrOpen, storeOpen, req, call, ctxDone>>
    /\ UNCHANGED watchVars

ShutdownStep ==
    \/ FailReadiness \/ AdaptersDown \/ CloseManager \/ CloseStore \/ CloseAdmin \/ Return
    \/ \E a \in Adapter : ShutAdapter(a)

Unwinding ==
    \/ \E r \in Request :
          Unwind(r) \/ AbandonClaim(r) \/ RegisterWatch(r) \/ LeaveSession(r) \/ Left(r)
    \/ \E i \in DOMAIN pump : PumpEnds(i)

DaemonNext ==
    \/ Start \/ StartFails \/ Trigger \/ ShutdownStep \/ Deadline \/ Unwinding
    \/ \E a \in Server : Serve(a) \/ ListenerFails(a) \/ ServeReturns(a)
    \/ \E r \in Request : Arrive(r) \/ Stick(r) \/ CallReturns(r) \/ Finishes(r) \/ ContextEnds(r)
    \/ \E r \in Request, id \in WatchId : CreateWatch(r, id) \/ CancelWatch(r, id)

\* Goroutines run and, when it is short, the shutdown timeout passes.  No request need
\* come, end by itself or lose its client, and nobody need send a signal.
DaemonFairness ==
    /\ WF_daemonVars(ShutdownStep) /\ WF_daemonVars(Unwinding) /\ WF_daemonVars(Deadline)
    /\ \A r \in Request : WF_daemonVars(CallReturns(r))
    /\ \A a \in Server : WF_daemonVars(Serve(a)) /\ WF_daemonVars(ServeReturns(a))

DaemonSpec == DaemonInit /\ [][DaemonNext]_daemonVars /\ DaemonFairness
-----------------------------------------------------------------------------
(***************************************************************************)
(* Properties                                                              *)
(***************************************************************************)
\* The store is closed under a request only when the shutdown timeout ran out on it
\* (daemon.go shutdown: adapters are drained before the manager and the store close).
StoreOutlivesRequests ==
    ~storeOpen => timedOut \/ \A r \in Request : ~inFlight(r)

\* The orchestrator hears first and last: an adapter refuses work only once /readyz
\* answers draining, and unless it fails by itself the admin listener answers until the
\* store is closed (daemon.go shutdown's order, admin.go handleReadyz).
OrderedShutdown ==
    /\ shut # {} => draining
    /\ serving["admin"] = "returned" => ~storeOpen \/ failed

\* Shutdown goes in order: clients hear of it first, and nothing is taken from under a
\* request that still runs.
ShutdownIsOrderly == StoreOutlivesRequests /\ OrderedShutdown

\* A PostgreSQL call made for an HTTP request does not come back, and its client waits.
heldUp ==
    /\ store = "postgres"
    /\ \E r \in Request : adapterOf(r) = "http" /\ call[r] = "request" /\ r \notin ctxDone

\* Once the daemon is told to stop, Run returns: within the timeout when no store call
\* hangs, since every waiting handler selects on the shutdown channel, and after it
\* when one does over gRPC, whose Stop ends the call's context, or on Redis; unless the
\* daemon is held up (daemon.go Run, server.go Shutdown of both adapters, watch.go
\* closeAll).
RunReturns == []<>(main \in {"new", "serving", "returned"} \/ heldUp)
-----------------------------------------------------------------------------
(***************************************************************************)
(* What the documentation says and the code does not do                    *)
(***************************************************************************)

\* config.go ShutdownTimeout: "past this deadline dagworkerd stops waiting for in-flight
\* work to drain and exits anyway, so a stuck handler cannot hang a rolling restart
\* forever."
StuckHandlerCannotHangRun == []<>(main \in {"new", "serving", "returned"})

\* closeAll cancels every watch still open on its session (watch.go:105-107).
CloseAllReachesEveryWatch ==
    \A r \in session : req[r] = "leaving" /\ r \notin ctxDone => \A i \in DOMAIN pump : pump[i].state # "live"
=============================================================================
