----------------------------- MODULE DurableWatch -----------------------------
(***************************************************************************)
(* The durable event streams of the PostgreSQL and Redis backends: Watch   *)
(* and the pump behind it (storage/postgres/watch.go,                      *)
(* storage/redis/watch.go), against the writers that append to the log.    *)
(*                                                                         *)
(* PostgreSQL gives an event its cursor when the row is inserted and shows *)
(* the row when the transaction commits; a Redis script does both at once  *)
(* and trims the stream to a window.  One subscriber: it may cancel, lose  *)
(* its stream, and come back with the cursor it saw last.                  *)
(***************************************************************************)
EXTENDS Naturals, Sequences, FiniteSetsExt

CONSTANTS
    Tx,             \* concurrent PostgreSQL transactions
    MaxEvents,      \* events written
    Window,         \* what a Redis stream keeps at least (20000 in the code)
    BatchSize,      \* rows per read (256 in both backends)
    Faults,         \* failing reads
    Resumes         \* times the subscriber opens a stream

ASSUME WindowIsNat == Window \in Nat
ASSUME BatchSizePositive == BatchSize \in Nat \ {0}

VARIABLES
    backend,        \* "postgres" or "redis"
    alloc,          \* the last cursor given out
    tx,             \* tx[t]: cursors of the rows it has inserted
    log,            \* cursors a reader sees
    late,           \* PostgreSQL: shown after a higher cursor was
    slipped,        \* Redis: trimmed under an open stream that had not sent them
    pc,             \* the pump
    next,           \* the first cursor it still wants
    batch,          \* what it read and has not sent
    rung,           \* has the bell it waits on rung?
    from,           \* where the subscriber's account of the stream begins
    received,            \* what it received since then
    last,           \* the cursor it would resume from, 0 if none
    budget

watchVars == <<backend, alloc, tx, log, late, slipped, pc, next, batch, rung, from, received, last,
               budget>>
writerVars == <<backend, alloc, tx, log, late>>
accountVars == <<from, received, last>>

WatchInit ==
    /\ backend \in {"postgres", "redis"}
    /\ alloc = 0 /\ tx = [t \in Tx |-> {}] /\ log = {} /\ late = {} /\ slipped = {}
    /\ pc = "off" /\ next = 1 /\ batch = <<>> /\ rung = FALSE
    /\ from = 1 /\ received = {} /\ last = 0
    /\ budget = [faults |-> Faults, resumes |-> Resumes]

Largest(S) == IF S = {} THEN 0 ELSE Max(S)
-----------------------------------------------------------------------------
(***************************************************************************)
(* Writers                                                                 *)
(***************************************************************************)

\* insertEvent: the sequence of the cursor column moves on, whatever comes of the row.
Insert(t) ==
    /\ backend = "postgres" /\ alloc < MaxEvents
    /\ alloc' = alloc + 1
    /\ tx' = [tx EXCEPT ![t] = @ \cup {alloc + 1}]
    /\ UNCHANGED <<backend, log, late, slipped, pc, next, batch, rung, budget>> /\ UNCHANGED accountVars

\* The transaction's NOTIFY is delivered with its rows, to a listener that is connected.
Commit(t) ==
    /\ tx[t] # {}
    /\ log' = log \cup tx[t]
    /\ late' = late \cup {c \in tx[t] : c < Largest(log)}
    /\ tx' = [tx EXCEPT ![t] = {}]
    /\ rung' \in {rung, TRUE}
    /\ UNCHANGED <<backend, alloc, slipped, pc, next, batch, budget>> /\ UNCHANGED accountVars

Rollback(t) ==
    /\ tx[t] # {}
    /\ tx' = [tx EXCEPT ![t] = {}]
    /\ UNCHANGED <<backend, alloc, log, late, slipped, pc, next, batch, rung, budget>>
    /\ UNCHANGED accountVars

\* recordEvent: INCR the cursor, XADD under it, and trim, approximately.
RecordEvent ==
    /\ backend = "redis" /\ alloc < MaxEvents
    /\ alloc' = alloc + 1
    /\ LET all == log \cup {alloc + 1}
       IN  \E kept \in {all, {c \in all : c > alloc + 1 - Window}} :
              /\ log' = kept
              /\ slipped' = slipped \cup
                     {c \in all \ kept :
                        pc # "off" /\ c >= next /\ \A i \in DOMAIN batch : batch[i] # c}
    /\ UNCHANGED <<backend, tx, late, pc, next, batch, rung, budget>> /\ UNCHANGED accountVars
-----------------------------------------------------------------------------
(***************************************************************************)
(* Watch                                                                   *)
(***************************************************************************)
open(n) ==
    /\ pc = "off" /\ budget.resumes > 0
    /\ budget' = [budget EXCEPT !.resumes = @ - 1]
    /\ pc' = "read" /\ next' = n /\ batch' = <<>> /\ rung' = FALSE
    /\ UNCHANGED slipped

\* A resumption that trusts the cursor it is given.
expiredNever == FALSE

\* watchStartID: has the event after the subscriber's cursor been trimmed?  PostgreSQL
\* keeps everything.
expired ==
    /\ backend = "redis"
    /\ IF log # {} THEN Min(log) > last + 1 ELSE alloc > last

Resume ==
    /\ last > 0 /\ ~expired
    /\ open(last + 1)
    /\ UNCHANGED writerVars /\ UNCHANGED accountVars

\* ErrCursorExpired: the subscriber knows, and starts a new account.
Refused ==
    /\ last > 0 /\ pc = "off" /\ expired
    /\ last' = 0 /\ received' = {} /\ from' = alloc + 1
    /\ UNCHANGED <<slipped, pc, next, batch, rung, budget>> /\ UNCHANGED writerVars

Replay ==
    /\ last = 0
    /\ open(1)
    /\ from' = IF log = {} THEN alloc + 1 ELSE Min(log)
    /\ received' = {} /\ last' = 0
    /\ UNCHANGED writerVars

\* From the newest: PostgreSQL asks for the highest cursor it sees, Redis for the counter.
Newest ==
    /\ last = 0
    /\ LET n == IF backend = "postgres" THEN Largest(log) + 1 ELSE alloc + 1
       IN  open(n) /\ from' = n
    /\ received' = {} /\ last' = 0
    /\ UNCHANGED writerVars
-----------------------------------------------------------------------------
(***************************************************************************)
(* pump and pumpEvents                                                     *)
(***************************************************************************)
wanted == {c \in log : c >= next}

\* The rows of a read, in cursor order.
rows(S) == [i \in 1..(IF Cardinality(S) < BatchSize THEN Cardinality(S) ELSE BatchSize) |->
              CHOOSE c \in S : Cardinality({d \in S : d < c}) = i - 1]

\* XREAD blocks until there is something; the SELECT comes back empty.
Read ==
    /\ pc = "read"
    /\ backend = "redis" => wanted # {}
    /\ batch' = rows(wanted)
    /\ pc' = IF wanted # {} THEN "send" ELSE "empty"
    /\ UNCHANGED <<slipped, next, rung, budget>> /\ UNCHANGED writerVars /\ UNCHANGED accountVars

\* A failing read: PostgreSQL's pump tries again, the Redis stream ends.
ReadFails ==
    /\ pc = "read" /\ budget.faults > 0
    /\ budget' = [budget EXCEPT !.faults = @ - 1]
    /\ pc' = IF backend = "postgres" THEN "backoff" ELSE "off"
    /\ UNCHANGED <<slipped, next, batch, rung>> /\ UNCHANGED writerVars /\ UNCHANGED accountVars

\* out <- ev, for each row in turn.
Deliver ==
    /\ pc = "send"
    /\ IF batch = <<>> THEN pc' = "read" /\ UNCHANGED <<batch, next, received, last>>
       ELSE /\ received' = received \cup {Head(batch)} /\ last' = Head(batch)
            /\ next' = Head(batch) + 1 /\ batch' = Tail(batch)
            /\ UNCHANGED pc
    /\ UNCHANGED <<slipped, rung, budget, from>> /\ UNCHANGED writerVars

\* notifier.waitChan, after the empty read: what committed in between has rung before.
WaitChan ==
    /\ pc = "empty" /\ pc' = "wait" /\ rung' = FALSE
    /\ UNCHANGED <<slipped, next, batch, budget>> /\ UNCHANGED writerVars /\ UNCHANGED accountVars

Woken ==
    /\ pc = "wait" /\ rung /\ pc' = "read"
    /\ UNCHANGED <<slipped, next, batch, rung, budget>> /\ UNCHANGED writerVars /\ UNCHANGED accountVars

\* A pump that trusts the bell.
PollNever == FALSE /\ UNCHANGED watchVars

\* pollInterval passes.
Poll ==
    /\ pc \in {"wait", "backoff"} /\ pc' = "read"
    /\ UNCHANGED <<slipped, next, batch, rung, budget>> /\ UNCHANGED writerVars /\ UNCHANGED accountVars

\* The subscriber's context ends, or the store closes.
Cancel ==
    /\ pc # "off" /\ pc' = "off" /\ batch' = <<>>
    /\ UNCHANGED <<slipped, next, rung, budget>> /\ UNCHANGED writerVars /\ UNCHANGED accountVars

Pump == Read \/ Deliver \/ WaitChan \/ Woken \/ Poll

WatchNext ==
    \/ \E t \in Tx : Insert(t) \/ Commit(t) \/ Rollback(t)
    \/ RecordEvent
    \/ Resume \/ Refused \/ Replay \/ Newest
    \/ Pump \/ ReadFails \/ Cancel

\* The pump runs and its timer fires; nobody need write, subscribe or cancel.
WatchFairness == WF_watchVars(Pump)

WatchSpec == WatchInit /\ [][WatchNext]_watchVars /\ WatchFairness
-----------------------------------------------------------------------------
(***************************************************************************)
(* Properties                                                              *)
(***************************************************************************)

\* What the subscriber has passed over since its account began.
missed == {c \in from..last : c \notin received}

\* A hole in what a subscriber received has one of four reasons and no other: the event
\* never happened (a rolled-back transaction), has not committed, committed after a
\* higher cursor was read, or was trimmed while the stream was open.  Cancelling,
\* resuming and failing reads lose nothing (watch.go pump, watchStartID).
HolesHaveAReason ==
    \A c \in missed :
        IF backend = "postgres" THEN c \notin log \/ c \in late ELSE c \in slipped

\* No stream sends an event a second time or out of order, across resumptions too.
DeliversInOrder ==
    [][pc = "send" /\ batch # <<>> /\ pc' = pc /\ batch' # batch => Head(batch) > last]_watchVars

\* An event in the log does not stay wanted by an open stream: it is sent in the end, or
\* passed over (for which HolesHaveAReason knows the reasons), whether or not the
\* notification arrived: the poll makes up for a bell rung before waitChan.
WantedIsDelivered == \A c \in 1..MaxEvents : []<>(pc = "off" \/ c \notin wanted)

\* What is sent comes in order, and what is wanted comes at last.
DeliversAllInOrder == DeliversInOrder /\ WantedIsDelivered

\* store.go:383-390: at-least-once, never a stream with a silent hole in it.
NoSilentHole == \A c \in missed : c \notin log
=============================================================================
