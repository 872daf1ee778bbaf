------------------------------ MODULE FileStore ------------------------------
(***************************************************************************)
(* The file backend (storage/file): an in-memory store with every mutation *)
(* appended to an fsynced log, replayed over the last snapshot on start.   *)
(* Store.mu serialises mutations and Compact, so one call is in progress   *)
(* at a time; the process may die between any two of its steps.            *)
(*                                                                         *)
(* A log record is the command and the readings it consumed.  A clock      *)
(* reading is kept as what it decides: which leases it finds expired and   *)
(* which backoffs elapsed, in the order the heaps yield them (jitter only  *)
(* moves the latter).  Claim also reads the clock once per lease it grants *)
(* and a replay that runs out of readings is refused, so the number of     *)
(* grants is kept.  Frames are whole or torn; checksums tell which.        *)
(***************************************************************************)
EXTENDS ScopeCommands, SequencesExt

CONSTANTS
    Requests,       \* the commands callers issue, but for Complete and Extend
    LeaseCalls,     \* what workers do with a lease: report an outcome, or "Extend"
    Policy,         \* the policy of a new scope
    CrashPoints,    \* the steps the process can die after
    MaxRecords,     \* bound on the length of the log
    MaxEpoch,       \* bound on the fencing epoch
    MaxOrd          \* bound on the ranks handed out

VARIABLES
    mem,            \* the in-memory store, one scope of it
    log,            \* dagworker.log: records and torn frames
    snapshot,       \* dagworker.snapshot, or NoSnapshot
    pc,             \* what the process is doing
    pending,        \* the record of the command in progress
    reply,          \* the leases the command in progress is about to return
    promised,       \* history: the state as of the last call that returned nil
    granted,        \* history: leases returned to workers
    accepted        \* history: leases whose Complete returned nil

vars == <<mem, log, snapshot, pc, pending, reply, promised, granted, accepted>>

Torn == [op |-> "Torn"]
NoRecord == [op |-> "None"]
NoSnapshot == [op |-> "None"]
-----------------------------------------------------------------------------
(***************************************************************************)
(* The in-memory store run as a function of a command and its readings     *)
(***************************************************************************)
noDelay == [n \in Node |-> 0]

ran(ok, s) == {[ok |-> ok, s |-> s, leases |-> {}]}

\* Reclaims and promotions a clock reading decides.
tidied(s, rd) ==
    LET t == reclaim(s, SelectSeq(rd.expired, LAMBDA n : n \in s.leases), noDelay)
    IN  promote(t, SelectSeq(rd.due, LAMBDA n : n \in t.scheduled))

\* apply, applyGraph and applyLease.  CancelScope walks a Go map, and no reading
\* records in which order.
apply(s, r) ==
    CASE r.op = "AddNodes" ->
            LET b == addNodesBatch(s, r.specs)
            IN  IF s.sealed THEN ran(FALSE, s) ELSE ran(b.ok, finishBatch(b))
      [] r.op = "AddEdges" ->
            LET b == addEdgesBatch(s, r.edges) IN ran(b.ok, finishBatch(b))
      [] r.op = "RemoveEdges" ->
            LET b == cutEdgesBatch(s, r.edges) IN ran(b.ok, finishCut(b))
      [] r.op = "RemoveNode" ->
            IF removable(s, r.node, r.policy) THEN ran(TRUE, removed(s, r.node, r.policy))
            ELSE ran(FALSE, s)
      [] r.op = "Cancel" -> ran(ToSet(r.ids) \subseteq Alive(s), cancelled(s, r.ids))
      [] r.op = "CancelScope" -> UNION {ran(TRUE, t) : t \in scopeCancelled(s)}
      [] r.op = "Seal" -> ran(TRUE, [s EXCEPT !.sealed = TRUE])
      [] r.op = "SetScopeConfig" -> ran(TRUE, [s EXCEPT !.cfg = r.cfg])
      [] r.op = "Claim" ->
            LET c == grantLoop(tidied(s, r.rd), r.kinds, r.max, ClampLease(0))
            IN  {[ok |-> Cardinality(c.leases) <= r.rd.grants, s |-> c.s, leases |-> c.leases]}
      [] r.op = "Sweep" -> ran(TRUE, tidied(s, r.rd))
      [] r.op = "Extend" -> ran(fence(s, r.node, r.epoch), s)
      [] r.op = "Complete" ->
            IF fence(s, r.node, r.epoch)
            THEN UNION {ran(TRUE, t) : t \in completed(s, r.node, r.outcome)}
            ELSE ran(FALSE, s)

\* Store.Snapshot: the lease and retry heaps are not captured.  (ready stands for the
\* fifo numbers of the ready nodes, which are.)
snapshotOf(s) == [s EXCEPT !.leases = {}, !.scheduled = {}]

\* Restore that rebuilds the ready and retry heaps only.
restoreForgetsLeases(s) ==
    [s EXCEPT !.scheduled = {n \in Node : s.phase[n] = "Scheduled"}]

\* Restore: the heaps are rebuilt from the phases.
restore(s) ==
    [s EXCEPT !.leases = {n \in Node : s.phase[n] = "Claimed"},
              !.scheduled = {n \in Node : s.phase[n] = "Scheduled"}]

\* The readings the gate can hand to command c, and record: any leases may have run
\* out, up to the sweep limit, and any backoff may have elapsed.
readings(s, c) ==
    LET picks(S, k) == UNION {orders(V) : V \in {W \in SUBSET S : Cardinality(W) <= k}}
        dues(e) == picks(reclaim(s, e, noDelay).scheduled, Cardinality(Node))
        clock == UNION {{[expired |-> e, due |-> d] : d \in dues(e)} : e \in picks(s.leases, SweepBatch)}
        grants(rd) == Cardinality(grantLoop(tidied(s, rd), c.kinds, c.max, ClampLease(0)).leases)
    IN  CASE c.op = "Claim" -> {rd @@ [grants |-> grants(rd)] : rd \in clock}
          [] c.op = "Sweep" -> clock
          [] OTHER -> {NoRecord}

\* What a caller may ask for: workers present the leases they were given.
commands ==
    Requests
        \cup {[op |-> IF call = "Extend" THEN call ELSE "Complete",
               node |-> l[1], epoch |-> l[2], outcome |-> call] : l \in granted, call \in LeaseCalls}
-----------------------------------------------------------------------------
(***************************************************************************)
(* The process                                                             *)
(***************************************************************************)
Init ==
    /\ mem = EmptyScope(Policy) /\ promised = EmptyScope(Policy)
    /\ log = <<>> /\ snapshot = NoSnapshot
    /\ pc = "Idle" /\ pending = NoRecord /\ reply = {}
    /\ granted = {} /\ accepted = {}

\* mutate up to the append: the command runs in memory.  A refused one is not logged.
Mutate ==
    /\ pc = "Idle" /\ Len(log) < MaxRecords
    /\ \E c \in commands : \E rd \in readings(mem, c) :
          LET r == c @@ [rd |-> rd]
          IN  \E x \in apply(mem, r) :
                /\ \A l \in x.leases : l[2] <= MaxEpoch
                /\ x.s.nextOrd <= MaxOrd
                /\ mem' = x.s
                /\ pc' = IF x.ok THEN "Applied" ELSE pc
                /\ pending' = IF x.ok THEN r ELSE pending
                /\ reply' = x.leases
    /\ UNCHANGED <<log, snapshot, promised, granted, accepted>>

\* log.append that returns before the record is on disk.
LoggedUnsynced ==
    /\ pc = "Applied" /\ pc' = "Idle"
    /\ log' \in {log, Append(log, pending)}
    /\ promised' = mem
    /\ granted' = granted \cup reply
    /\ accepted' = IF pending.op = "Complete"
                   THEN accepted \cup {<<pending.node, pending.epoch>>} ELSE accepted
    /\ pending' = NoRecord /\ reply' = {}
    /\ UNCHANGED <<mem, snapshot>>

\* log.append: written and fsynced; mutate returns nil.
Logged ==
    /\ pc = "Applied" /\ pc' = "Idle"
    /\ log' = Append(log, pending)
    /\ promised' = mem
    /\ granted' = granted \cup reply
    /\ accepted' = IF pending.op = "Complete"
                   THEN accepted \cup {<<pending.node, pending.epoch>>} ELSE accepted
    /\ pending' = NoRecord /\ reply' = {}
    /\ UNCHANGED <<mem, snapshot>>

\* log.append failing: mutate returns the error, and the mutation stays in memory.
\* Memory is now ahead of the log and the next records will build on what the log
\* does not have; nothing is claimed of such a store, and it is not followed further.
LogFails ==
    /\ pc = "Applied" /\ pc' = "Ahead"
    /\ log' \in {log, Append(log, Torn)}
    /\ pending' = NoRecord /\ reply' = {}
    /\ UNCHANGED <<mem, snapshot, promised, granted, accepted>>

\* Compact up to the rename and the fsync of the directory; a crash before that
\* leaves a temporary file nobody reads.
Compact ==
    /\ pc = "Idle" /\ pc' = "Renamed"
    /\ snapshot' = snapshotOf(mem)
    /\ UNCHANGED <<mem, log, pending, reply, promised, granted, accepted>>

\* Compact's log.reset.
CompactResets ==
    /\ pc = "Renamed" /\ pc' = "Idle"
    /\ log' = <<>>
    /\ UNCHANGED <<mem, snapshot, pending, reply, promised, granted, accepted>>

\* The process dies.  The frame being appended is lost, torn or whole.  mem keeps
\* what the dead process held, for RecoveryIsExact only.  A Close is a crash at an
\* idle moment.
Crash ==
    /\ pc \in CrashPoints /\ pc' = "Down"
    /\ log' \in IF pc = "Applied" THEN {log, Append(log, Torn), Append(log, pending)} ELSE {log}
    /\ UNCHANGED <<mem, snapshot, pending, reply, promised, granted, accepted>>

\* readAll: the frames before the first torn one.
readAll(frames) ==
    LET torn == SelectInSeq(frames, LAMBDA f : f = Torn)
    IN  IF torn = 0 THEN frames ELSE SubSeq(frames, 1, torn - 1)

\* replay, over the snapshot if there is one: the first refused command ends it.
replay(base, records) ==
    FoldLeft(LAMBDA X, r : UNION {IF x.ok THEN apply(x.s, r) ELSE {x} : x \in X},
             ran(TRUE, IF base = NoSnapshot THEN EmptyScope(Policy) ELSE restore(base)),
             records)

\* Open: a log that does not replay leaves the store shut.
Open ==
    /\ pc = "Down"
    /\ log' = readAll(log)
    /\ \E x \in replay(snapshot, log') :
          /\ pc' = IF x.ok THEN "Idle" ELSE "Refused"
          /\ mem' = x.s /\ promised' = x.s
    /\ pending' = NoRecord /\ reply' = {}
    /\ UNCHANGED <<snapshot, granted, accepted>>

Next == Mutate \/ Logged \/ LogFails \/ Compact \/ CompactResets \/ Crash \/ Open

Spec == Init /\ [][Next]_vars
-----------------------------------------------------------------------------
(***************************************************************************)
(* Properties                                                              *)
(***************************************************************************)

\* In all three, a Cancel names one node and a RemoveEdges one edge, and nobody calls
\* CancelScope; the last section says what the other calls do.

\* An unclean exit loses nothing and invents nothing but ranks: a store opens again, in
\* the state the last successful call left, or with the command it died in applied as
\* well, whatever ranks refused batches have used up or permuted unlogged (store.go
\* "every mutation is fsynced before its call returns").
RecoveryLosesOnlyRanks ==
    [][pc = "Down" /\ pc' # "Down" =>
          /\ pc' = "Idle"
          /\ \/ BesidesRanks(mem') = BesidesRanks(promised)
             \/ pending # NoRecord /\ BesidesRanks(mem') = BesidesRanks(mem)]_vars

\* The fence outlives the process: no lease a worker holds is ever returned to
\* another, and no lease is completed twice, across any number of restarts and
\* compactions (store.go Store, fencing; memory.go epochFloor).
FencingSurvivesRestart ==
    pc = "Applied" =>
        /\ reply \cap granted = {}
        /\ pending.op = "Complete" => <<pending.node, pending.epoch>> \notin accepted

\* Reads are served from memory without looking at the log: between calls they show what
\* a restart would bring back, ranks apart, also after an AddNodes that was rolled back
\* and never logged (store.go mutate; graph.go rollback).
ReadsAreDurable == pc = "Idle" => BesidesRanks(mem) = BesidesRanks(promised)
-----------------------------------------------------------------------------
(***************************************************************************)
(* What the documentation says and the code does not do                    *)
(***************************************************************************)

\* store.go mutate: "A rejected command changed nothing, so there is nothing to replay."
\* A rejected AddNodes uses up ranks and may permute those that are left; a Cancel or a
\* RemoveEdges that meets an unknown node keeps what it did before that.
RejectedChangesNothing == pc = "Idle" => mem = promised

\* nondeterminism.go: "The result is not approximately the original state, it is exactly
\* the original state", ranks included (durability_test.go compares them).
ReplayIsTheOriginal ==
    [][pc = "Down" /\ pc' = "Idle" => mem' = promised \/ (pending # NoRecord /\ mem' = mem)]_vars

\* nondeterminism.go: "no iteration order varies between runs".  A cancelled scope replays
\* to the reasons it had; CancelScope walks a map.
ReplayFollowsTheSameOrder ==
    [][pc = "Down" /\ pc' = "Idle" => mem'.reason = promised.reason \/ pending # NoRecord]_vars

\* compact.go Compact: "A crash at any point leaves either the old snapshot with the
\* whole log, or the new snapshot with the whole log -- both of which replay to the
\* same state."  So a process that dies outside a mutation, between the steps of
\* Compact included, comes back open and with the state it held, ranks apart.
NewSnapshotReplaysSame ==
    [][pc = "Down" /\ pending = NoRecord /\ pc' # "Down" =>
          pc' = "Idle" /\ BesidesRanks(mem') = BesidesRanks(mem)]_vars
=============================================================================
