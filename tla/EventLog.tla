------------------------------ MODULE EventLog ------------------------------
(***************************************************************************)
(* The in-memory backend's event log and the goroutines that read it       *)
(* (storage/memory/watch.go).  The log of a scope is a window of           *)
(* consecutive cursors, logStart..cursor, so an event is its cursor.  A    *)
(* store operation appends its effects under the scope's lock; each        *)
(* watcher has a pump, which copies what is new under the same lock, sends *)
(* it without the lock, and sleeps on the bell it saw while it held it.    *)
(***************************************************************************)
EXTENDS Integers, Sequences, FiniteSets, Functions

CONSTANTS
    Watcher,    \* who calls Watch
    LogCap,     \* scope.logCap: events kept after a compaction
    MaxCursor   \* bound on the number of events (uint64 in the code)

ASSUME LogCapPositive == LogCap \in Nat \ {0}
ASSUME MaxCursorIsNat == MaxCursor \in Nat

VARIABLES
    cursor,     \* scope.cursor: the last event appended
    logStart,   \* scope.logStart: the oldest event retained
    pump        \* pump[d]: at, next, batch, and the bell it captured, known by
                \* the cursor at which it was the current one

logVars == <<cursor, logStart, pump>>

NoPump == [at |-> "None", next |-> 0, batch |-> <<>>, bell |-> 0]

-----------------------------------------------------------------------------
LogInit ==
    /\ cursor = 0
    /\ logStart = 1
    /\ pump = [d \in Watcher |-> NoPump]

\* record and appendLog: one more event; at twice its capacity the log is cut
\* back to it.
appendLog(l, cap) ==
    LET len == l.cursor + 1 - l.logStart + 1
    IN  [cursor |-> l.cursor + 1,
         logStart |-> IF len >= 2 * cap THEN l.logStart + (len - cap)
                      ELSE l.logStart]

\* What appendLog keeps of a log that grows, one event at a time, to len events
\* (MCStreams compares the two).
kept(len, cap) == IF len < 2 * cap THEN len ELSE cap + (len % cap)

\* A store operation with k effects, under the scope's lock.
Record(k) ==
    /\ cursor + k <= MaxCursor
    /\ cursor' = cursor + k
    /\ logStart' = cursor + k + 1 - kept(cursor + k + 1 - logStart, LogCap)
    /\ UNCHANGED pump

\* Where Watch may start: after a given cursor (refused with ErrCursorExpired if
\* what follows it is gone), at the oldest event, or after the newest.
WatchStart ==
    {from + 1 : from \in {c \in 1..cursor : c + 1 >= logStart}}
        \cup {logStart, cursor + 1}

Watch(d) ==
    /\ pump[d].at = "None"
    /\ \E start \in WatchStart :
          pump' = [pump EXCEPT ![d] =
                    [at |-> "Reading", next |-> start, batch |-> <<>>, bell |-> 0]]
    /\ UNCHANGED <<cursor, logStart>>

PumpEnded(d) == pump[d].at \in {"Expired", "Stopped"}

\* pump that captures the bell after it let go of the lock: by then one more
\* append may have replaced it.
PumpReadLateBell(d) ==
    /\ pump[d].at = "Reading"
    /\ \E late \in {0, 1} :
       pump' = [pump EXCEPT ![d] =
            IF @.next < logStart THEN [@ EXCEPT !.at = "Expired"]
            ELSE IF @.next <= cursor
                 THEN [at |-> "Sending", next |-> cursor + 1, bell |-> cursor + late,
                       batch |-> [i \in 1..(cursor + 1 - @.next) |-> @.next + i - 1]]
            ELSE [@ EXCEPT !.at = "Waiting", !.batch = <<>>, !.bell = cursor + late]]
    /\ UNCHANGED <<cursor, logStart>>

\* The locked part of pump's loop.  The channel is closed when the position has
\* fallen out of the window.
PumpRead(d) ==
    /\ pump[d].at = "Reading"
    /\ pump' = [pump EXCEPT ![d] =
            IF @.next < logStart THEN [@ EXCEPT !.at = "Expired"]
            ELSE IF @.next <= cursor
                 THEN [at |-> "Sending", next |-> cursor + 1, bell |-> cursor,
                       batch |-> [i \in 1..(cursor + 1 - @.next) |-> @.next + i - 1]]
            ELSE [@ EXCEPT !.at = "Waiting", !.batch = <<>>, !.bell = cursor]]
    /\ UNCHANGED <<cursor, logStart>>

\* out <- ev: the channel is unbuffered, so sending is the receiver's step too.
PumpSends(d) ==
    /\ pump[d].at = "Sending"
    /\ pump' = [pump EXCEPT ![d] =
            [@ EXCEPT !.batch = Tail(pump[d].batch),
                      !.at = IF Len(pump[d].batch) = 1 THEN "Reading" ELSE "Sending"]]
    /\ UNCHANGED <<cursor, logStart>>

PumpWakes(d) ==
    /\ pump[d].at = "Waiting"
    /\ cursor > pump[d].bell
    /\ pump' = [pump EXCEPT ![d].at = "Reading"]
    /\ UNCHANGED <<cursor, logStart>>

\* The watcher's context ended (or the store was closed).
PumpStops(d) ==
    /\ pump[d].at \in {"Sending", "Waiting"}
    /\ pump' = [pump EXCEPT ![d].at = "Stopped"]
    /\ UNCHANGED <<cursor, logStart>>
=============================================================================
