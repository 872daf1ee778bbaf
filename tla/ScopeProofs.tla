---------------------------- MODULE ScopeProofs ----------------------------
(***************************************************************************)
(* What the operations on a scope keep (ScopeOps and ScopeCommands), as    *)
(* far as leases are concerned: the lease heap holds exactly the claimed   *)
(* nodes, no operation takes a lease back but those that may, and none     *)
(* but a grant changes an epoch.  BatchProofs adds the operations that     *)
(* change the set of nodes, and MemoryScopeProofs goes on from there.      *)
(***************************************************************************)
EXTENDS ScopeCommands, FiniteSetTheorems, NaturalsInduction, WellFoundedInduction, TLAPS

\* The fields of a scope (EmptyScope).
Fields ==
    {"phase", "status", "reason", "def", "deps", "pred", "succ", "ord", "epoch", "attempt",
     "deadline", "readyAt", "age", "ready", "leases", "scheduled", "stats", "cfg", "sealed",
     "epochFloor", "nextOrd"}

\* The ready heap holds only ready nodes, the retry heap exactly the scheduled ones.
Heaps(phase, ready, scheduled) ==
    /\ ready \in Seq(Node) /\ \A i \in DOMAIN ready : phase[ready[i]] = "Ready"
    /\ scheduled = {n \in Node : phase[n] = "Scheduled"}

\* Edges are between nodes.
Wired(succ, pred) ==
    /\ succ \in [Node -> Seq(Node)]
    /\ DOMAIN pred = Node /\ \A n \in Node : DOMAIN pred[n] \subseteq Node

\* A node that is gone keeps no epoch.
Retired(phase, epoch) == \A n \in Node : phase[n] = "Absent" => epoch[n] = 0

\* What every operation keeps, apart from the set of leases.
Ledger(s) ==
    /\ DOMAIN s = Fields
    /\ s.phase \in [Node -> Phase]
    /\ s.epoch \in [Node -> Nat] /\ s.deadline \in [Node -> Nat] /\ s.epochFloor \in Nat
    /\ Heaps(s.phase, s.ready, s.scheduled)
    /\ Wired(s.succ, s.pred)
    /\ Retired(s.phase, s.epoch)

Held(phase) == {n \in Node : phase[n] = "Claimed"}

\* The inductive invariant: the lease heap holds exactly the claimed nodes.
Books(s) == Ledger(s) /\ s.leases = Held(s.phase)

\* What an operation may do to a node that was in phase p and is now in phase q: leave it
\* as it is for the protocol, or finish it if no worker has it; finish it although one
\* has it, if it may be ended, and take it back, if it may be taken.
Goes(p, q, ended, taken) ==
    LET from == CoarseState(p)
        to == CoarseState(q)
    IN  \/ to = from
        \/ from = "Open" /\ to = "Done"
        \/ ended /\ from = "Claimed" /\ to = "Done"
        \/ taken /\ from = "Claimed" /\ to \in {"Open", "Done"}

\* Where node n may go, when those of F may be ended and those of R taken.
May(phase, n, ph, F, R) == Goes(phase[n], ph, n \in F, n \in R)

\* The same for all nodes.
Moves(phase, new, F, R) == \A n \in Node : Goes(phase[n], new[n], n \in F, n \in R)

\* The deadlines of the leases that are still held are as they were.
Timed(new, deadline, then) == \A n \in Node : new[n] = "Claimed" => then[n] = deadline[n]

\* t comes after s without a grant, a creation or a deletion.
Follows(s, t, F, R) ==
    /\ Ledger(t)
    /\ t.epoch = s.epoch /\ t.epochFloor = s.epochFloor
    /\ Moves(s.phase, t.phase, F, R)
    /\ Timed(t.phase, s.deadline, t.deadline)

\* Moves may be strung together, and the sets may grow.
LEMMA MovesOn ==
    ASSUME NEW p \in [Node -> Phase], NEW q \in [Node -> Phase], NEW r \in [Node -> Phase],
           NEW F, NEW R, NEW F1, NEW R1, F1 \subseteq F, R1 \subseteq R,
           Moves(p, q, F, R), Moves(q, r, F1, R1)
    PROVE  /\ Moves(p, r, F, R)
           /\ \A n \in Node : r[n] = "Claimed" => q[n] = "Claimed"
<1> SUFFICES ASSUME NEW n \in Node
             PROVE  Goes(p[n], r[n], n \in F, n \in R) /\ (r[n] = "Claimed" => q[n] = "Claimed")
    BY DEF Moves
<1>1. Goes(p[n], q[n], n \in F, n \in R) /\ Goes(q[n], r[n], n \in F1, n \in R1)
    BY DEF Moves
<1> QED
    BY <1>1 DEF Goes, CoarseState, Phase

\* Following is reflexive.
LEMMA FollowsItself ==
    ASSUME NEW s, Ledger(s), NEW F, NEW R
    PROVE  Follows(s, s, F, R)
BY DEF Follows, Moves, Goes, Timed

\* Following is transitive, and grows with the sets.
LEMMA FollowsOn ==
    ASSUME NEW s, NEW t, NEW u, NEW F, NEW R, NEW F1, NEW R1, F1 \subseteq F, R1 \subseteq R,
           Ledger(s), Follows(s, t, F, R), Follows(t, u, F1, R1)
    PROVE  Follows(s, u, F, R)
<1>1. /\ s.phase \in [Node -> Phase] /\ t.phase \in [Node -> Phase] /\ u.phase \in [Node -> Phase]
      /\ Moves(s.phase, t.phase, F, R) /\ Moves(t.phase, u.phase, F1, R1)
    BY DEF Follows, Ledger
<1>2. /\ Moves(s.phase, u.phase, F, R)
      /\ \A n \in Node : u.phase[n] = "Claimed" => t.phase[n] = "Claimed"
    BY <1>1, MovesOn
<1>3. Timed(u.phase, s.deadline, u.deadline)
    BY <1>2 DEF Follows, Timed
<1> QED
    BY <1>2, <1>3 DEF Follows

\* With the same sets.
LEMMA FollowsAgain ==
    ASSUME NEW s, NEW t, NEW u, NEW F, NEW R,
           Ledger(s), Follows(s, t, F, R), Follows(t, u, F, R)
    PROVE  Follows(s, u, F, R)
BY FollowsOn

\* What holds of no lease that is held needs no leave to end one.
LEMMA MovesUnheld ==
    ASSUME NEW p \in [Node -> Phase], NEW q \in [Node -> Phase], NEW F, NEW R, Moves(p, q, F, R),
           \A n \in Node : n \in F => p[n] # "Claimed"
    PROVE  Moves(p, q, {}, R)
BY DEF Moves, Goes, CoarseState, Phase

\* Every non-empty set of natural numbers has a least one.
LEMMA LeastOf ==
    ASSUME NEW T \in SUBSET Nat, T # {}
    PROVE  \E m \in T : \A k \in T : m <= k
<1>1. PICK m \in T : \A k \in T : <<k, m>> \notin OpToRel(<, Nat)
    BY WFMin, NatLessThanWellFounded, Zenon
<1>2. \A k \in T : ~ (k < m)
    BY <1>1, Zenon DEF OpToRel
<1> QED
    BY <1>2

\* Induction up to n.
LEMMA Induct ==
    \A n \in Nat : \A T :
        0 \in T /\ (\A i \in 1..n : i - 1 \in T => i \in T) => \A i \in 0..n : i \in T
<1> SUFFICES ASSUME NEW n \in Nat, NEW T, 0 \in T, \A i \in 1..n : i - 1 \in T => i \in T
             PROVE  \A i \in 0..n : i \in T
    OBVIOUS
<1> DEFINE B == {i \in Nat : i <= n /\ i \notin T}
<1> SUFFICES ASSUME B # {} PROVE FALSE
    OBVIOUS
<1>1. PICK m \in B : \A k \in B : m <= k
    BY LeastOf, B \subseteq Nat, Zenon
<1> QED
    BY <1>1

\* The indices 1..n are counted up: seg[i] are those up to i, and pre[i] is the one before
\* (FoldRule!Counted).
Counted(I, seg, pre, zero, last) ==
    /\ zero \notin I /\ last \in I \cup {zero}
    /\ seg[zero] = {} /\ seg[last] = I
    /\ \A i \in I : /\ pre[i] \in I \cup {zero} /\ i \in seg[i]
                    /\ seg[i] \subseteq I /\ seg[i] \ {i} = seg[pre[i]]
    /\ \A i \in I : \A S \in SUBSET seg[i] : i \in S => Max(S) = i
    /\ \A T : zero \in T /\ (\A i \in I : pre[i] \in T => i \in T) => I \subseteq T

\* That is so: what FoldRule asks of the indices of a sequence.
LEMMA Counts ==
    ASSUME NEW n \in Nat
    PROVE  \E seg, pre : /\ Counted(1..n, seg, pre, 0, n)
                          /\ \A i \in 1..n : pre[i] = i - 1
<1> DEFINE seg == [i \in 0..n |-> 1..i]
           pre == [i \in 1..n |-> i - 1]
<1>1. /\ 0 \notin 1..n /\ n \in 1..n \cup {0}
      /\ seg[0] = {} /\ seg[n] = 1..n
      /\ \A i \in 1..n : pre[i] = i - 1
    OBVIOUS
<1>2. ASSUME NEW i \in 1..n
      PROVE  /\ pre[i] \in 1..n \cup {0} /\ i \in seg[i]
             /\ seg[i] \subseteq 1..n /\ seg[i] \ {i} = seg[pre[i]]
    OBVIOUS
<1>3. ASSUME NEW i \in 1..n, NEW S \in SUBSET seg[i], i \in S
      PROVE  Max(S) = i
  <2>1. i \in S /\ \A y \in S : i >= y
    BY <1>3
  <2>2. \A x \in S : (\A y \in S : x >= y) => x = i
    BY <1>3, <2>1
  <2> QED
    BY <2>1, <2>2, Zenon DEF Max
<1>4. ASSUME NEW T, 0 \in T, \A i \in 1..n : pre[i] \in T => i \in T
      PROVE  1..n \subseteq T
    BY <1>4, Induct
<1> HIDE DEF seg, pre
<1>5. Counted(1..n, seg, pre, 0, n)
    BY <1>1, <1>2, <1>3, <1>4, Zenon DEF Counted
<1> QED
    BY <1>1, <1>5
-----------------------------------------------------------------------------
(***************************************************************************)
(* The helpers of scope.go                                                 *)
(***************************************************************************)

\* without, one turn of its loop and what it keeps: every element is one of q other
\* than n.
withoutBody(n, b, r, m) == withoutOne(n, r, m)
Purged(p, i, r) == r \in Seq(Range(p.q) \ {p.n})
Without == INSTANCE FoldRule WITH op <- withoutBody, Good <- Purged, Max <- Max

\* Taking n out of q leaves elements of q other than n.
LEMMA WithoutPurges ==
    ASSUME NEW S, NEW q \in Seq(S), NEW n
    PROVE  without(q, n) \in Seq(Range(q) \ {n})
<1> DEFINE p == [q |-> q, n |-> n]
<1>1. without(q, n) = Without!fold(n, 0, <<>>, q)
    BY DEF without, loop, withoutBody, Without!fold, MapThenFoldSet, Without!MapThenFoldSet
<1>2. Purged(p, 0, <<>>)
    BY DEF Purged
<1>3. ASSUME NEW i \in 1..Len(q), NEW x, Purged(p, i - 1, x)
      PROVE  Purged(p, i, withoutBody(n, 0, x, q[i]))
  <2>1. q[i] \in Range(q)
    BY DEF Range
  <2>2. x \in Seq(Range(q) \ {n})
    BY <1>3 DEF Purged
  <2>3. withoutBody(n, 0, x, q[i]) \in Seq(Range(q) \ {n})
    BY <2>1, <2>2 DEF withoutBody, withoutOne
  <2> QED
    BY <2>3 DEF Purged
<1>4. Purged(p, Len(q), Without!fold(n, 0, <<>>, q))
  <2> HIDE DEF p
  <2>1. PICK seg, pre : /\ Counted(1..Len(q), seg, pre, 0, Len(q))
                        /\ \A i \in 1..Len(q) : pre[i] = i - 1
    BY Counts
  <2>2. Without!Counted(1..Len(q), seg, pre, 0, Len(q))
    BY <2>1 DEF Counted, Without!Counted
  <2> QED
    BY <1>2, <1>3, <2>1, <2>2, Without!FoldKeeps
<1> QED
    BY <1>1, <1>4 DEF Purged

\* In particular it keeps a sequence over the set it was over, and n is not in it.
LEMMA WithoutIsSeq ==
    ASSUME NEW S, NEW q \in Seq(S), NEW n
    PROVE  /\ without(q, n) \in Seq(S)
           /\ \A i \in DOMAIN without(q, n) :
                 /\ without(q, n)[i] # n
                 /\ \E j \in DOMAIN q : without(q, n)[i] = q[j]
<1>1. without(q, n) \in Seq(Range(q) \ {n})
    BY WithoutPurges
<1>2. Range(q) \subseteq S
    BY DEF Range
<1>3. \A i \in DOMAIN without(q, n) : without(q, n)[i] \in Range(q) \ {n}
    BY <1>1
<1>4. \A x \in Range(q) : \E j \in DOMAIN q : x = q[j]
    BY DEF Range
<1>5. without(q, n) \in Seq(S)
    BY <1>1, <1>2
<1> QED
    BY <1>3, <1>4, <1>5

\* The fields the leases depend on are those of s.
SameBooks(s, t) ==
    /\ t.phase = s.phase /\ t.ready = s.ready /\ t.scheduled = s.scheduled
    /\ t.leases = s.leases /\ t.deadline = s.deadline
    /\ t.epoch = s.epoch /\ t.epochFloor = s.epochFloor
    /\ t.succ = s.succ /\ t.pred = s.pred

\* enterBucket and leaveBucket touch the counters only.
LEMMA EnterKeeps ==
    ASSUME NEW s, DOMAIN s = Fields, NEW n
    PROVE  DOMAIN enterBucket(s, n) = Fields /\ SameBooks(s, enterBucket(s, n))
<1>1. PICK t : t = enterBucket(s, n)
    OBVIOUS
<1>2. DOMAIN t = Fields /\ \A f \in Fields : f # "stats" => t[f] = s[f]
    BY <1>1 DEF enterBucket
<1> QED
    BY <1>1, <1>2 DEF Fields, SameBooks

\* The same of leaveBucket.
LEMMA LeaveKeeps ==
    ASSUME NEW s, DOMAIN s = Fields, NEW n
    PROVE  DOMAIN leaveBucket(s, n) = Fields /\ SameBooks(s, leaveBucket(s, n))
<1>1. PICK t : t = leaveBucket(s, n)
    OBVIOUS
<1>2. DOMAIN t = Fields /\ \A f \in Fields : f # "stats" => t[f] = s[f]
    BY <1>1 DEF leaveBucket
<1> QED
    BY <1>1, <1>2 DEF Fields, SameBooks

\* The ready and the retry heap after node n went to phase ph.
Queue(ready, n, ph) == IF ph = "Ready" THEN Append(ready, n) ELSE without(ready, n)
Retry(scheduled, n, ph) == IF ph = "Scheduled" THEN scheduled \cup {n} ELSE scheduled \ {n}

\* t is s with node n gone to phase ph, and the heaps with it.
OneMove(s, t, n, ph) ==
    /\ DOMAIN t = Fields /\ t.phase = [s.phase EXCEPT ![n] = ph]
    /\ t.ready = Queue(s.ready, n, ph) /\ t.scheduled = Retry(s.scheduled, n, ph)
    /\ t.deadline = IF ph = "Done" THEN [s.deadline EXCEPT ![n] = 0] ELSE s.deadline
    /\ t.leases = IF ph = "Done" THEN s.leases \ {n} ELSE s.leases
    /\ t.epoch = s.epoch /\ t.epochFloor = s.epochFloor
    /\ t.succ = s.succ /\ t.pred = s.pred

\* makeReady makes a node ready.
LEMMA ReadyMove ==
    ASSUME NEW s, DOMAIN s = Fields, NEW n
    PROVE  OneMove(s, makeReady(s, n), n, "Ready")
BY SMT DEF Fields, OneMove, Queue, Retry, put, makeReady, enterBucket, leaveBucket

\* makeBlocked takes it back.
LEMMA BlockedMove ==
    ASSUME NEW s, DOMAIN s = Fields, NEW n
    PROVE  OneMove(s, makeBlocked(s, n), n, "Blocked")
BY SMT DEF Fields, OneMove, Queue, Retry, put, makeBlocked, enterBucket, leaveBucket

\* schedule leaves it to the retry heap.
LEMMA ScheduleMove ==
    ASSUME NEW s, DOMAIN s = Fields, NEW n, NEW at
    PROVE  OneMove(s, schedule(s, n, at), n, "Scheduled")
BY SMT DEF Fields, OneMove, Queue, Retry, put, schedule, enterBucket, leaveBucket

\* finishNode takes it out of every heap, the lease heap among them.
LEMMA FinishMove ==
    ASSUME NEW s, DOMAIN s = Fields, NEW n, NEW st, NEW re
    PROVE  OneMove(s, finishNode(s, n, st, re), n, "Done")
<1>1. PICK a : a = leaveBucket(s, n)
    OBVIOUS
<1>2. PICK b : b = [a EXCEPT
                    !.phase = put(@, n, "Done"), !.status = put(@, n, st), !.reason = put(@, n, re),
                    !.deadline = put(@, n, 0), !.readyAt = put(@, n, 0), !.age = put(@, n, 0),
                    !.ready = without(@, n), !.scheduled = @ \ {n}, !.leases = @ \ {n}]
    OBVIOUS
<1>3. finishNode(s, n, st, re) = enterBucket(b, n)
    BY <1>1, <1>2 DEF finishNode
<1>4. DOMAIN a = Fields /\ SameBooks(s, a)
    BY <1>1, LeaveKeeps
<1>5. DOMAIN b = Fields
    BY <1>2, <1>4, Zenon
<1>6. DOMAIN enterBucket(b, n) = Fields /\ SameBooks(b, enterBucket(b, n))
    BY <1>5, EnterKeeps
<1> QED
    BY <1>2, <1>3, <1>4, <1>6 DEF Fields, SameBooks, put, OneMove, Queue, Retry

\* The heaps follow the phases.
LEMMA HeapsMove ==
    ASSUME NEW phase \in [Node -> Phase], NEW ready, NEW scheduled,
           Heaps(phase, ready, scheduled), NEW n \in Node, NEW ph \in Phase
    PROVE  Heaps([phase EXCEPT ![n] = ph], Queue(ready, n, ph), Retry(scheduled, n, ph))
<1> DEFINE new == [phase EXCEPT ![n] = ph]
           r == Queue(ready, n, ph)
<1>1. new[n] = ph /\ \A m \in Node : m # n => new[m] = phase[m]
    OBVIOUS
<1>2. ready \in Seq(Node) /\ \A i \in DOMAIN ready : phase[ready[i]] = "Ready"
    BY DEF Heaps
<1>3. r \in Seq(Node) /\ \A i \in DOMAIN r : new[r[i]] = "Ready"
  <2> HIDE DEF new
  <2>1. CASE ph = "Ready"
    BY <1>1, <1>2, <2>1 DEF Queue
  <2>2. CASE ph # "Ready"
    <3>1. r = without(ready, n)
        BY <2>2 DEF Queue
    <3>2. r \in Seq(Node) /\ \A i \in DOMAIN r : r[i] # n /\ \E j \in DOMAIN ready : r[i] = ready[j]
        BY <1>2, <3>1, WithoutIsSeq
    <3> HIDE DEF r
    <3> QED
        BY <1>1, <1>2, <3>2
  <2> QED
    BY <2>1, <2>2
<1>4. Retry(scheduled, n, ph) = {m \in Node : new[m] = "Scheduled"}
    BY <1>1 DEF Heaps, Retry
<1> QED
    BY <1>3, <1>4 DEF Heaps

\* One node moves: the books are right if they were, n's lease apart, and n's lease is
\* given up with it.
LEMMA OneStep ==
    ASSUME NEW s, Ledger(s), NEW t, NEW n \in Node,
           NEW ph \in {"Blocked", "Scheduled", "Ready", "Done"}, OneMove(s, t, n, ph),
           s.leases \ {n} = Held(s.phase) \ {n}, ph = "Done" \/ n \notin s.leases,
           NEW F, NEW R, May(s.phase, n, ph, F, R)
    PROVE  Books(t) /\ Follows(s, t, F, R) /\ t.phase = [s.phase EXCEPT ![n] = ph]
<1>1. /\ s.phase \in [Node -> Phase] /\ Heaps(s.phase, s.ready, s.scheduled)
      /\ s.deadline \in [Node -> Nat] /\ s.epoch \in [Node -> Nat] /\ s.epochFloor \in Nat
      /\ Wired(s.succ, s.pred) /\ Retired(s.phase, s.epoch)
    BY DEF Ledger
<1>2. ph \in Phase /\ ph # "Absent" /\ ph # "Claimed"
    BY DEF Phase
<1>3. Heaps(t.phase, t.ready, t.scheduled)
    BY <1>1, <1>2, HeapsMove DEF OneMove
<1>4. /\ t.phase = [s.phase EXCEPT ![n] = ph] /\ t.phase \in [Node -> Phase] /\ t.phase[n] = ph
      /\ \A m \in Node : m # n => t.phase[m] = s.phase[m]
    BY <1>1, <1>2 DEF OneMove
<1>5. t.deadline \in [Node -> Nat] /\ \A m \in Node : m # n => t.deadline[m] = s.deadline[m]
    BY <1>1 DEF OneMove
<1>6. t.leases = Held(t.phase)
    BY <1>2, <1>4 DEF OneMove, Held
<1>7. Ledger(t)
  <2>1. Retired(t.phase, t.epoch)
    BY <1>1, <1>2, <1>4 DEF Retired, OneMove
  <2> QED
    BY <1>1, <1>3, <1>4, <1>5, <2>1 DEF Ledger, OneMove
<1>8. Moves(s.phase, t.phase, F, R)
    BY <1>4 DEF Moves, May, Goes
<1>9. Timed(t.phase, s.deadline, t.deadline)
    BY <1>2, <1>4, <1>5 DEF Timed
<1> QED
    BY <1>4, <1>6, <1>7, <1>8, <1>9 DEF Follows, Books, OneMove

\* In particular to be ready,
LEMMA ReadyStep ==
    ASSUME NEW s, Ledger(s), NEW t, NEW n \in Node, OneMove(s, t, n, "Ready"),
           s.leases \ {n} = Held(s.phase) \ {n}, n \notin s.leases,
           NEW F, NEW R, May(s.phase, n, "Ready", F, R)
    PROVE  Books(t) /\ Follows(s, t, F, R) /\ t.phase = [s.phase EXCEPT ![n] = "Ready"]
<1>1. "Ready" \in {"Blocked", "Scheduled", "Ready", "Done"}
    OBVIOUS
<1> QED
    BY <1>1, OneStep, Zenon

\* and to wait for a retry.
LEMMA ScheduledStep ==
    ASSUME NEW s, Ledger(s), NEW t, NEW n \in Node, OneMove(s, t, n, "Scheduled"),
           s.leases \ {n} = Held(s.phase) \ {n}, n \notin s.leases,
           NEW F, NEW R, May(s.phase, n, "Scheduled", F, R)
    PROVE  Books(t) /\ Follows(s, t, F, R) /\ t.phase = [s.phase EXCEPT ![n] = "Scheduled"]
<1>1. "Scheduled" \in {"Blocked", "Scheduled", "Ready", "Done"}
    OBVIOUS
<1> QED
    BY <1>1, OneStep, Zenon

\* t differs from s in edges, ranks, counters and settings only.
Quiet(s, t) ==
    /\ DOMAIN t = Fields /\ t.phase = s.phase /\ t.ready = s.ready /\ t.scheduled = s.scheduled
    /\ t.leases = s.leases /\ t.deadline = s.deadline
    /\ t.epoch = s.epoch /\ t.epochFloor = s.epochFloor
    /\ Wired(t.succ, t.pred)

\* Such a change follows.
LEMMA QuietKeeps ==
    ASSUME NEW s, Ledger(s), NEW t, Quiet(s, t), NEW F, NEW R
    PROVE  Follows(s, t, F, R) /\ (Books(s) => Books(t)) /\ t.phase = s.phase
<1>1. Ledger(t) /\ t.phase = s.phase
    BY DEF Ledger, Quiet
<1> QED
    BY <1>1 DEF Books, Quiet, Follows, Moves, Goes, Timed

\* markSatisfied is such a change.
LEMMA MarkIsQuiet ==
    ASSUME NEW s, Ledger(s), NEW n \in Node, NEW st, NEW re
    PROVE  Quiet(s, markSatisfied(s, n, st, re)) /\ markSatisfied(s, n, st, re).succ = s.succ
<1> DEFINE hit == {w \in Node : n \in DOMAIN s.pred[w] /\ ~ s.pred[w][n]}
           pred == [w \in Node |-> IF w \in hit THEN [s.pred[w] EXCEPT ![n] = TRUE] ELSE s.pred[w]]
           deps == [w \in Node |-> IF w \in hit THEN resolve(s.deps[w], TallyOf(st, re))
                                   ELSE s.deps[w]]
<1>1. markSatisfied(s, n, st, re) = [s EXCEPT !.pred = pred, !.deps = deps]
    BY DEF markSatisfied
<1>2. Wired(s.succ, pred)
    BY DEF Wired, Ledger
<1>3. DOMAIN s = Fields
    BY DEF Ledger
<1> HIDE DEF pred, deps
<1> QED
    BY <1>1, <1>2, <1>3 DEF Fields, Quiet

\* wake: every turn of its loop leaves a node alone or makes a blocked one ready.
wakeBody(s, t, x, w) == wakeOne(s, t, x, w)
Waking(p, i, x) ==
    /\ Books(x) /\ Follows(p.t, x, {}, {})
    /\ \A w \in Node : \/ x.phase[w] = p.t.phase[w]
                       \/ p.t.phase[w] = "Blocked" /\ x.phase[w] = "Ready"
Wake == INSTANCE FoldRule WITH op <- wakeBody, Good <- Waking, Max <- Max

\* A successor that is woken is a blocked one.
LEMMA WokenWasBlocked ==
    ASSUME NEW s, NEW t, NEW w, isWoken(s, t, w)
    PROVE  t.phase[w] = "Blocked"
BY DEF isWoken, undecided

\* wake keeps the books.
LEMMA WakeKeeps ==
    ASSUME NEW s, NEW t, Books(t), NEW ws \in Seq(Node)
    PROVE  LET x == wake(s, t, ws)
           IN  /\ Books(x) /\ Follows(t, x, {}, {})
               /\ \A w \in Node : x.phase[w] \in {t.phase[w], "Ready"}
<1> DEFINE p == [t |-> t]
<1>1. wake(s, t, ws) = Wake!fold(s, t, t, ws)
    BY DEF wake, loop, wakeBody, Wake!fold, MapThenFoldSet, Wake!MapThenFoldSet
<1>2. Waking(p, 0, t)
    BY FollowsItself DEF Waking, Books
<1>3. ASSUME NEW i \in 1..Len(ws), NEW x, Waking(p, i - 1, x)
      PROVE  Waking(p, i, wakeBody(s, t, x, ws[i]))
  <2>1. PICK w \in Node : w = ws[i]
    OBVIOUS
  <2>2. /\ Books(x) /\ Follows(t, x, {}, {})
        /\ \A v \in Node : \/ x.phase[v] = t.phase[v]
                           \/ t.phase[v] = "Blocked" /\ x.phase[v] = "Ready"
    BY <1>3 DEF Waking
  <2>3. CASE ~ isWoken(s, t, w)
    BY <1>3, <2>1, <2>3 DEF wakeBody, wakeOne, Waking
  <2>4. CASE isWoken(s, t, w)
    <3>1. PICK y : y = makeReady(x, w)
        OBVIOUS
    <3>2. t.phase[w] = "Blocked" /\ x.phase[w] \in {"Blocked", "Ready"}
        BY <2>2, <2>4, WokenWasBlocked
    <3>3. OneMove(x, y, w, "Ready") /\ Ledger(x)
        BY <2>2, <3>1, ReadyMove DEF Books, Ledger
    <3>4. x.leases \ {w} = Held(x.phase) \ {w} /\ w \notin x.leases
        BY <2>2, <3>2 DEF Books, Held
    <3>5. May(x.phase, w, "Ready", {}, {})
        BY <3>2 DEF May, Goes, CoarseState
    <3>6. Books(y) /\ Follows(x, y, {}, {}) /\ y.phase = [x.phase EXCEPT ![w] = "Ready"]
        BY <3>3, <3>4, <3>5, ReadyStep, Zenon
    <3>7. Follows(t, y, {}, {})
        BY <2>2, <3>6, FollowsOn DEF Books
    <3>8. \A v \in Node : \/ y.phase[v] = t.phase[v]
                          \/ t.phase[v] = "Blocked" /\ y.phase[v] = "Ready"
        BY <2>2, <3>2, <3>3, <3>6 DEF Ledger
    <3>9. wakeBody(s, t, x, ws[i]) = y
        BY <2>1, <2>4, <3>1 DEF wakeBody, wakeOne
    <3> QED
        BY <3>6, <3>7, <3>8, <3>9, Zenon DEF Waking
  <2> QED
    BY <2>3, <2>4
<1>4. Waking(p, Len(ws), Wake!fold(s, t, t, ws))
  <2> HIDE DEF p
  <2>1. PICK seg, pre : /\ Counted(1..Len(ws), seg, pre, 0, Len(ws))
                        /\ \A i \in 1..Len(ws) : pre[i] = i - 1
    BY Counts
  <2>2. Wake!Counted(1..Len(ws), seg, pre, 0, Len(ws))
    BY <2>1 DEF Counted, Wake!Counted
  <2> QED
    BY <1>2, <1>3, <2>1, <2>2, Wake!FoldKeeps
<1> QED
    BY <1>1, <1>4 DEF Waking

\* The queue of terminate.
Item == [node : Node, status : Status, reason : Reason]

\* Its elements name nodes.
LEMMA ItemsNameNodes ==
    ASSUME NEW q \in Seq(Item)
    PROVE  \A j \in DOMAIN q : q[j].node \in Node
<1>1. \A j \in DOMAIN q : q[j] \in Item
    OBVIOUS
<1>2. \A it \in Item : it.node \in Node
    BY DEF Item
<1> QED
    BY <1>1, <1>2

\* doom queues only nodes nobody holds.
doomBody(s, t, q, w) == doomOne(s, t, q, w)
Dooming(p, i, q) == q \in Seq(Item) /\ \A j \in DOMAIN q : p.t.phase[q[j].node] # "Claimed"
Doom == INSTANCE FoldRule WITH op <- doomBody, Good <- Dooming, Max <- Max

\* The queue doom returns.
LEMMA DoomIsUnheld ==
    ASSUME NEW s, NEW t, NEW ws \in Seq(Node)
    PROVE  LET q == doom(s, t, ws)
           IN  q \in Seq(Item) /\ \A j \in DOMAIN q : t.phase[q[j].node] # "Claimed"
<1> DEFINE p == [t |-> t]
<1>1. doom(s, t, ws) = Doom!fold(s, t, <<>>, ws)
    BY DEF doom, loop, doomBody, Doom!fold, MapThenFoldSet, Doom!MapThenFoldSet
<1>2. Dooming(p, 0, <<>>)
    BY DEF Dooming
<1>3. ASSUME NEW i \in 1..Len(ws), NEW q, Dooming(p, i - 1, q)
      PROVE  Dooming(p, i, doomBody(s, t, q, ws[i]))
  <2>1. PICK w \in Node : w = ws[i]
    OBVIOUS
  <2>2. q \in Seq(Item) /\ \A j \in DOMAIN q : t.phase[q[j].node] # "Claimed"
    BY <1>3 DEF Dooming
  <2>3. CASE ~ isDoomed(s, t, w)
    BY <1>3, <2>1, <2>3 DEF doomBody, doomOne, Dooming
  <2>4. CASE isDoomed(s, t, w)
    <3>1. PICK it : it = [node |-> w, status |-> "Error", reason |-> TerminalReason(t.deps[w])]
        BY Zenon
    <3>2. it \in Item /\ it.node = w
        BY <3>1 DEF Item, Status, Reason, TerminalReason
    <3>3. t.phase[w] # "Claimed"
        BY <2>4 DEF isDoomed, undecided
    <3>4. doomBody(s, t, q, ws[i]) = Append(q, it)
        BY <2>1, <2>4, <3>1 DEF doomBody, doomOne
    <3>5. Append(q, it) \in Seq(Item)
          /\ \A j \in DOMAIN Append(q, it) : t.phase[Append(q, it)[j].node] # "Claimed"
        BY <2>2, <3>2, <3>3
    <3> QED
        BY <3>4, <3>5 DEF Dooming
  <2> QED
    BY <2>3, <2>4
<1>4. Dooming(p, Len(ws), Doom!fold(s, t, <<>>, ws))
  <2> HIDE DEF p
  <2>1. PICK seg, pre : /\ Counted(1..Len(ws), seg, pre, 0, Len(ws))
                        /\ \A i \in 1..Len(ws) : pre[i] = i - 1
    BY Counts
  <2>2. Doom!Counted(1..Len(ws), seg, pre, 0, Len(ws))
    BY <2>1 DEF Counted, Doom!Counted
  <2> QED
    BY <1>2, <1>3, <2>1, <2>2, Doom!FoldKeeps
<1> QED
    BY <1>1, <1>4 DEF Dooming

\* What finishing n makes of s: the scope and the nodes doomed by it.
Finished(s, n, f) ==
    /\ Books(f.s) /\ Follows(s, f.s, {n}, {}) /\ f.s.phase[n] = "Done"
    /\ f.queue \in Seq(Item)
    /\ \A j \in DOMAIN f.queue : f.s.phase[f.queue[j].node] # "Claimed"

\* One node of terminate's queue: it is finished, and what that wakes and dooms was held
\* by nobody.
LEMMA FinishKeeps ==
    ASSUME NEW s, Ledger(s), NEW n \in Node, s.phase[n] \notin {"Absent", "Done"},
           s.leases \ {n} = Held(s.phase) \ {n}, NEW st, NEW re
    PROVE  Finished(s, n, fanOut(finishNode(s, n, st, re), n, st, re))
<1>1. PICK a : a = finishNode(s, n, st, re)
    OBVIOUS
<1>2. PICK t : t = markSatisfied(a, n, st, re)
    OBVIOUS
<1>3. PICK x : x = wake(a, t, a.succ[n])
    OBVIOUS
<1>4. PICK q : q = doom(a, t, a.succ[n])
    OBVIOUS
<1>5. fanOut(a, n, st, re) = [s |-> x, queue |-> q]
    BY <1>2, <1>3, <1>4 DEF fanOut
<1>6. Books(a) /\ Follows(s, a, {n}, {}) /\ a.phase = [s.phase EXCEPT ![n] = "Done"]
  <2>1. OneMove(s, a, n, "Done")
    BY <1>1, FinishMove DEF Ledger
  <2>2. May(s.phase, n, "Done", {n}, {})
    BY DEF Ledger, May, Goes, CoarseState, Phase
  <2> QED
    BY <2>1, <2>2, OneStep, Zenon
<1>7. Books(t) /\ Follows(a, t, {}, {}) /\ t.phase = a.phase
    BY <1>2, <1>6, MarkIsQuiet, QuietKeeps DEF Books
<1>8. a.succ[n] \in Seq(Node)
    BY <1>6 DEF Books, Ledger, Wired
<1>9. /\ Books(x) /\ Follows(t, x, {}, {})
      /\ \A w \in Node : x.phase[w] \in {t.phase[w], "Ready"}
    BY <1>3, <1>7, <1>8, WakeKeeps, Zenon
<1>10. q \in Seq(Item) /\ \A j \in DOMAIN q : t.phase[q[j].node] # "Claimed"
    BY <1>4, <1>8, DoomIsUnheld
<1>11. Follows(s, x, {n}, {})
  <2>1. Follows(s, t, {n}, {})
    BY <1>6, <1>7, FollowsOn
  <2> QED
    BY <1>9, <2>1, FollowsOn
<1>12. x.phase[n] = "Done"
  <2>1. t.phase[n] = "Done"
    BY <1>6, <1>7 DEF Ledger
  <2>2. Goes(t.phase[n], x.phase[n], n \in {}, n \in {})
    BY <1>9 DEF Follows, Moves
  <2> QED
    BY <2>1, <2>2, <1>9 DEF Goes, CoarseState
<1>13. \A j \in DOMAIN q : x.phase[q[j].node] # "Claimed"
  <2>1. \A j \in DOMAIN q : q[j].node \in Node
    BY <1>10, ItemsNameNodes
  <2> QED
    BY <1>9, <1>10, <2>1
<1> QED
    BY <1>1, <1>5, <1>9, <1>10, <1>11, <1>12, <1>13 DEF Finished

\* terminate's loop.  Before its first turn the root may be held, with its lease given up
\* or not; after it nobody holds a node of the queue, and the books are right.
Queued(s, q) ==
    /\ DOMAIN q = {"s", "queue"} /\ Books(q.s) /\ q.queue \in Seq(Item)
    /\ \A j \in DOMAIN q.queue : q.s.phase[q.queue[j].node] # "Claimed"

Turned(s, root, q) ==
    /\ Queued(s, q) /\ Follows(s, q.s, {root}, {})
    /\ s.phase[root] \notin {"Absent", "Done"} => q.s.phase[root] = "Done"

turnBody(a, b, q, k) == turn(q)
Terminating(p, i, q) == IF i = 0 THEN q = p.start ELSE Turned(p.s, p.root, q)
Turns == INSTANCE FoldRule WITH op <- turnBody, Good <- Terminating, Max <- Max

\* A turn is a step.
LEMMA TurnIsStep ==
    ASSUME NEW q
    PROVE  turn(q) = terminateStep(q)
<1>1. {terminateStep(x) : x \in {q}} = {terminateStep(q)}
    OBVIOUS
<1> QED
    BY <1>1 DEF turn

\* The first turn finishes the root, if it is live.
LEMMA FirstTurn ==
    ASSUME NEW s, Ledger(s), NEW n \in Node, NEW st \in Status, NEW re \in Reason,
           s.leases \ {n} = Held(s.phase) \ {n},
           s.phase[n] \in {"Absent", "Done"} => n \notin s.leases
    PROVE  Turned(s, n, turn([s |-> s,
                              queue |-> <<[node |-> n, status |-> st, reason |-> re]>>]))
<1>1. PICK it : it = [node |-> n, status |-> st, reason |-> re]
    BY Zenon
<1>2. PICK q : q = terminateStep([s |-> s, queue |-> <<it>>])
    OBVIOUS
<1>3. it.node = n /\ it.status = st /\ it.reason = re /\ <<it>> # <<>> /\ Head(<<it>>) = it
      /\ Tail(<<it>>) = <<>>
    BY <1>1
<1>4. CASE s.phase[n] \in {"Absent", "Done"}
  <2>1. q = [s |-> s, queue |-> <<>>]
    BY <1>2, <1>3, <1>4 DEF terminateStep
  <2>2. s.leases = Held(s.phase)
    BY <1>4 DEF Held
  <2>3. Queued(s, q)
    BY <2>1, <2>2 DEF Queued, Books
  <2>4. Follows(s, q.s, {n}, {})
    BY <2>1, FollowsItself
  <2> QED
    BY <1>1, <1>2, <1>4, <2>3, <2>4, TurnIsStep DEF Turned
<1>5. CASE s.phase[n] \notin {"Absent", "Done"}
  <2>1. PICK f : f = fanOut(finishNode(s, n, st, re), n, st, re)
    OBVIOUS
  <2>2. q = [s |-> f.s, queue |-> <<>> \o f.queue]
    BY <1>2, <1>3, <1>5, <2>1 DEF terminateStep
  <2>3. /\ Books(f.s) /\ Follows(s, f.s, {n}, {}) /\ f.s.phase[n] = "Done"
        /\ f.queue \in Seq(Item)
        /\ \A j \in DOMAIN f.queue : f.s.phase[f.queue[j].node] # "Claimed"
    <3>1. Finished(s, n, f)
        BY <1>5, <2>1, FinishKeeps
    <3> QED
        BY <3>1 DEF Finished
  <2>4. <<>> \o f.queue = f.queue
    BY <2>3
  <2>5. Queued(s, q) /\ q.s = f.s
    BY <2>2, <2>3, <2>4 DEF Queued
  <2> QED
    BY <1>1, <1>2, <2>3, <2>5, TurnIsStep DEF Turned
<1> QED
    BY <1>4, <1>5

\* Every other turn finishes a node nobody holds.
LEMMA LaterTurn ==
    ASSUME NEW s, NEW q, Queued(s, q)
    PROVE  LET t == turn(q) IN Queued(s, t) /\ Follows(q.s, t.s, {}, {})
<1>0. /\ DOMAIN q = {"s", "queue"} /\ Books(q.s) /\ Ledger(q.s) /\ q.queue \in Seq(Item)
      /\ \A j \in DOMAIN q.queue : q.s.phase[q.queue[j].node] # "Claimed"
    BY DEF Queued, Books
<1>1. PICK t : t = terminateStep(q)
    OBVIOUS
<1>2. CASE q.queue = <<>>
  <2>1. t = q
    BY <1>1, <1>2 DEF terminateStep
  <2> QED
    BY <1>0, <1>1, <2>1, TurnIsStep, FollowsItself, Zenon
<1>3. CASE q.queue # <<>>
  <2>1. PICK it : it = Head(q.queue)
    OBVIOUS
  <2>2. PICK rest : rest = Tail(q.queue)
    BY Zenon
  <2>3. it \in Item /\ rest \in Seq(Item) /\ it = q.queue[1] /\ 1 \in DOMAIN q.queue
        /\ \A j \in DOMAIN rest : j + 1 \in DOMAIN q.queue /\ rest[j] = q.queue[j + 1]
    BY <1>0, <1>3, <2>1, <2>2
  <2>4. it.node \in Node /\ it.status \in Status /\ it.reason \in Reason
        /\ q.s.phase[it.node] # "Claimed"
    BY <1>0, <2>3 DEF Item
  <2>5. \A j \in DOMAIN rest : q.s.phase[rest[j].node] # "Claimed" /\ rest[j].node \in Node
    <3>1. \A j \in DOMAIN q.queue : q.queue[j].node \in Node
        BY <1>0, ItemsNameNodes
    <3> QED
        BY <1>0, <2>3, <3>1
  <2>6. CASE q.s.phase[it.node] \in {"Absent", "Done"}
    <3>1. t = [s |-> q.s, queue |-> rest]
        BY <1>1, <1>3, <2>1, <2>2, <2>6 DEF terminateStep
    <3>2. Queued(s, t)
        BY <1>0, <2>3, <2>5, <3>1 DEF Queued
    <3> QED
      <4>1. t.s = q.s
        BY <3>1
      <4>2. Follows(q.s, q.s, {}, {})
        BY <1>0, FollowsItself
      <4> QED
        BY <1>1, <3>2, <4>1, <4>2, TurnIsStep
  <2>7. CASE q.s.phase[it.node] \notin {"Absent", "Done"}
    <3>1. PICK n \in Node : n = it.node
        BY <2>4
    <3>2. PICK f : f = fanOut(finishNode(q.s, n, it.status, it.reason), n, it.status, it.reason)
        OBVIOUS
    <3>3. t = [s |-> f.s, queue |-> rest \o f.queue]
        BY <1>1, <1>3, <2>1, <2>2, <2>7, <3>1, <3>2, Zenon DEF terminateStep
    <3>4. q.s.leases \ {n} = Held(q.s.phase) \ {n}
        BY <1>0 DEF Books
    <3>5. /\ Books(f.s) /\ Follows(q.s, f.s, {n}, {}) /\ f.queue \in Seq(Item)
          /\ \A j \in DOMAIN f.queue : f.s.phase[f.queue[j].node] # "Claimed"
      <4>1. Finished(q.s, n, f)
        BY <1>0, <2>7, <3>1, <3>2, <3>4, FinishKeeps
      <4> QED
        BY <4>1 DEF Finished
    <3>6. Follows(q.s, f.s, {}, {})
      <4>1. /\ q.s.phase \in [Node -> Phase] /\ f.s.phase \in [Node -> Phase]
            /\ Moves(q.s.phase, f.s.phase, {n}, {})
        BY <1>0, <3>5, Zenon DEF Follows, Ledger
      <4>2. \A m \in Node : m \in {n} => q.s.phase[m] # "Claimed"
        BY <2>4, <3>1
      <4>3. Moves(q.s.phase, f.s.phase, {}, {})
        BY <4>1, <4>2, MovesUnheld
      <4> QED
        BY <3>5, <4>3 DEF Follows
    <3>7. \A m \in Node : q.s.phase[m] # "Claimed" => f.s.phase[m] # "Claimed"
        BY <1>0, <3>6, Zenon DEF Follows, Moves, Goes, CoarseState, Ledger, Phase
    <3>8. rest \o f.queue \in Seq(Item)
        BY <2>3, <3>5
    <3>9. \A j \in DOMAIN (rest \o f.queue) : f.s.phase[(rest \o f.queue)[j].node] # "Claimed"
      <4> SUFFICES ASSUME NEW j \in DOMAIN (rest \o f.queue)
                   PROVE  f.s.phase[(rest \o f.queue)[j].node] # "Claimed"
        OBVIOUS
      <4>1. CASE j \in DOMAIN rest
        <5>1. (rest \o f.queue)[j] = rest[j]
            BY <2>3, <3>5, <4>1
        <5> QED
            BY <2>5, <3>7, <4>1, <5>1
      <4>2. CASE j \notin DOMAIN rest
        <5>1. j - Len(rest) \in DOMAIN f.queue /\ (rest \o f.queue)[j] = f.queue[j - Len(rest)]
            BY <2>3, <3>5, <4>2
        <5> QED
            BY <3>5, <5>1
      <4> QED
        BY <4>1, <4>2, Zenon
    <3>10. Queued(s, t) /\ t.s = f.s
        BY <3>3, <3>5, <3>8, <3>9, Zenon DEF Queued
    <3> QED
        BY <1>1, <3>6, <3>10, TurnIsStep
  <2> QED
    BY <2>6, <2>7
<1> QED
    BY <1>2, <1>3

\* What terminate makes of s: root has ended, if it had not, and nobody else lost a lease.
Ended(s, t, root) ==
    /\ Books(t) /\ Follows(s, t, {root}, {})
    /\ s.phase[root] \notin {"Absent", "Done"} => t.phase[root] = "Done"

\* There are finitely many edges.
LEMMA EdgesAreCounted ==
    ASSUME NEW s
    PROVE  Cardinality(EdgesOf(s)) \in Nat
<1>1. IsFiniteSet(Node \X Node)
    BY NodeFinite, FS_Product
<1>2. EdgesOf(s) \subseteq Node \X Node
    BY DEF EdgesOf
<1> QED
    BY <1>1, <1>2, FS_Subset, FS_CardinalityType

\* 1, ..., n in order.
LEMMA CountingUp ==
    ASSUME NEW n \in Nat
    PROVE  [k \in 1..n |-> k] \in Seq(Nat) /\ Len([k \in 1..n |-> k]) = n
OBVIOUS

\* terminate keeps the books, also when the root's lease was given up before.
LEMMA TerminateKeeps ==
    ASSUME NEW s, Ledger(s), NEW n \in Node, NEW st \in Status, NEW re \in Reason,
           s.leases \ {n} = Held(s.phase) \ {n},
           s.phase[n] \in {"Absent", "Done"} => n \notin s.leases
    PROVE  Ended(s, terminate(s, n, st, re), n)
<1>1. PICK turns \in Nat : turns = 1 + Cardinality(EdgesOf(s)) /\ turns >= 1
    BY EdgesAreCounted
<1>2. PICK start : start = [s |-> s, queue |-> <<[node |-> n, status |-> st, reason |-> re]>>]
    BY Zenon
<1>3. PICK ks \in Seq(Nat) : ks = [k \in 1..turns |-> k] /\ Len(ks) = turns
    BY CountingUp, Zenon
<1> DEFINE p == [s |-> s, start |-> start, root |-> n]
<1>4. terminate(s, n, st, re) = Turns!fold(0, 0, start, ks).s
    BY <1>1, <1>2, <1>3
       DEF terminate, loop, turnBody, Turns!fold, MapThenFoldSet, Turns!MapThenFoldSet
<1>5. Terminating(p, 0, start)
    BY DEF Terminating
<1>6. ASSUME NEW i \in 1..Len(ks), NEW q, Terminating(p, i - 1, q)
      PROVE  Terminating(p, i, turnBody(0, 0, q, ks[i]))
  <2>0. i # 0 /\ turnBody(0, 0, q, ks[i]) = turn(q)
    BY DEF turnBody
  <2>1. CASE i - 1 = 0
    <3>1. q = start
        BY <1>6, <2>1 DEF Terminating
    <3> QED
        BY <1>2, <2>0, <3>1, FirstTurn DEF Terminating
  <2>2. CASE i - 1 # 0
    <3>1. /\ Queued(s, q) /\ Follows(s, q.s, {n}, {})
          /\ s.phase[n] \notin {"Absent", "Done"} => q.s.phase[n] = "Done"
        BY <1>6, <2>2 DEF Terminating, Turned
    <3>2. PICK t : t = turn(q)
        OBVIOUS
    <3>3. Queued(s, t) /\ Follows(q.s, t.s, {}, {})
        BY <3>1, <3>2, LaterTurn
    <3>4. Follows(s, t.s, {n}, {})
        BY <3>1, <3>3, FollowsOn
    <3>5. q.s.phase[n] = "Done" => t.s.phase[n] = "Done"
        BY <3>3, Zenon DEF Follows, Moves, Goes, CoarseState, Ledger, Phase
    <3> QED
        BY <2>0, <3>1, <3>2, <3>3, <3>4, <3>5 DEF Terminating, Turned
  <2> QED
    BY <2>1, <2>2
<1>7. Terminating(p, Len(ks), Turns!fold(0, 0, start, ks))
  <2> HIDE DEF p
  <2>1. PICK seg, pre : /\ Counted(1..Len(ks), seg, pre, 0, Len(ks))
                        /\ \A i \in 1..Len(ks) : pre[i] = i - 1
    BY <1>3, Counts
  <2>2. Turns!Counted(1..Len(ks), seg, pre, 0, Len(ks))
    BY <2>1, Zenon DEF Counted, Turns!Counted
  <2> QED
    BY <1>5, <1>6, <2>1, <2>2, Turns!FoldKeeps
<1>8. Turned(s, n, Turns!fold(0, 0, start, ks))
    BY <1>1, <1>3, <1>7 DEF Terminating
<1> QED
    BY <1>4, <1>8, Zenon DEF Turned, Ended, Queued

\* In particular from a scope whose books are right.
LEMMA TerminateFromBooks ==
    ASSUME NEW s, Books(s), NEW n \in Node, NEW st \in Status, NEW re \in Reason
    PROVE  Ended(s, terminate(s, n, st, re), n)
<1>1. Ledger(s) /\ s.leases \ {n} = Held(s.phase) \ {n}
    BY DEF Books
<1>2. s.phase[n] \in {"Absent", "Done"} => n \notin s.leases
    BY DEF Books, Held
<1> QED
    BY <1>1, <1>2, TerminateKeeps

\* What an operation that ends no lease makes of s.
Settled(s, t) == Books(t) /\ Follows(s, t, {}, {})

\* terminate of a node nobody holds ends no lease.
LEMMA TerminateUnheld ==
    ASSUME NEW s, Books(s), NEW n \in Node, s.phase[n] # "Claimed",
           NEW st \in Status, NEW re \in Reason
    PROVE  Settled(s, terminate(s, n, st, re))
<1>1. PICK t : t = terminate(s, n, st, re)
    OBVIOUS
<1>2. Books(t) /\ Follows(s, t, {n}, {})
    BY <1>1, TerminateFromBooks DEF Ended
<1>3. /\ s.phase \in [Node -> Phase] /\ t.phase \in [Node -> Phase]
      /\ Moves(s.phase, t.phase, {n}, {})
    BY <1>2 DEF Books, Follows, Ledger
<1>4. \A m \in Node : m \in {n} => s.phase[m] # "Claimed"
    OBVIOUS
<1>5. Moves(s.phase, t.phase, {}, {})
    BY <1>3, <1>4, MovesUnheld
<1> QED
    BY <1>1, <1>2, <1>5 DEF Settled, Follows

\* settle ends no lease.
LEMMA SettleKeeps ==
    ASSUME NEW s, Books(s), NEW n \in Node
    PROVE  Settled(s, settle(s, n))
<1>0. Ledger(s) /\ DOMAIN s = Fields
    BY DEF Books, Ledger
<1>1. CASE settle(s, n) = s
    BY <1>0, <1>1, FollowsItself DEF Settled
<1>2. CASE s.phase[n] \in {"Blocked", "Ready"}
           /\ settle(s, n) = terminate(s, n, "Error", TerminalReason(s.deps[n]))
  <2>1. "Error" \in Status /\ TerminalReason(s.deps[n]) \in Reason /\ s.phase[n] # "Claimed"
    BY <1>2 DEF Status, Reason, TerminalReason
  <2> QED
    BY <1>2, <2>1, TerminateUnheld
<1>3. ASSUME s.phase[n] \in {"Blocked", "Ready"}, NEW ph \in {"Blocked", "Ready"}, NEW t,
             OneMove(s, t, n, ph)
      PROVE  Settled(s, t)
  <2>1. s.leases \ {n} = Held(s.phase) \ {n} /\ n \notin s.leases
    BY <1>3 DEF Books, Held
  <2>2. May(s.phase, n, ph, {}, {})
    BY <1>3 DEF May, Goes, CoarseState
  <2>3. CASE ph = "Ready"
    <3>1. OneMove(s, t, n, "Ready") /\ May(s.phase, n, "Ready", {}, {})
        BY <1>3, <2>2, <2>3
    <3>2. Books(t) /\ Follows(s, t, {}, {})
        BY <1>0, <2>1, <3>1, ReadyStep, Zenon
    <3> QED
        BY <3>2 DEF Settled
  <2>4. CASE ph = "Blocked"
    <3>1. OneMove(s, t, n, "Blocked") /\ May(s.phase, n, "Blocked", {}, {})
        BY <1>3, <2>2, <2>4
    <3>2. Books(t) /\ Follows(s, t, {}, {})
        BY <1>0, <2>1, <3>1, OneStep, Zenon
    <3> QED
        BY <3>2 DEF Settled
  <2> QED
    BY <2>3, <2>4
<1>4. CASE s.phase[n] \in {"Blocked", "Ready"} /\ settle(s, n) = makeReady(s, n)
    BY <1>0, <1>3, <1>4, ReadyMove
<1>5. CASE s.phase[n] \in {"Blocked", "Ready"} /\ settle(s, n) = makeBlocked(s, n)
    BY <1>0, <1>3, <1>5, BlockedMove
<1> QED
    BY <1>1, <1>2, <1>4, <1>5, Zenon DEF settle

\* settleAll likewise.
settleBody(a, b, s, n) == settle(s, n)
Settling(p, i, t) == Settled(p.s, t)
Settle == INSTANCE FoldRule WITH op <- settleBody, Good <- Settling, Max <- Max

\* The loop that settles the nodes of ns.
LEMMA SettleAllKeeps ==
    ASSUME NEW s, Books(s), NEW ns \in Seq(Node)
    PROVE  Settled(s, settleAll(s, ns))
<1> DEFINE p == [s |-> s]
<1>1. settleAll(s, ns) = Settle!fold(0, 0, s, ns)
    BY DEF settleAll, loop, settleBody, Settle!fold, MapThenFoldSet, Settle!MapThenFoldSet
<1>2. Settling(p, 0, s)
    BY FollowsItself DEF Settling, Settled, Books
<1>3. ASSUME NEW i \in 1..Len(ns), NEW t, Settling(p, i - 1, t)
      PROVE  Settling(p, i, settleBody(0, 0, t, ns[i]))
  <2>1. Books(t) /\ Follows(s, t, {}, {}) /\ ns[i] \in Node /\ Ledger(s)
    BY <1>3 DEF Settling, Settled, Books
  <2>2. Settled(t, settle(t, ns[i]))
    BY <2>1, SettleKeeps
  <2>3. Settled(s, settle(t, ns[i]))
    BY <2>1, <2>2, FollowsOn DEF Settled
  <2> QED
    BY <2>3 DEF Settling, settleBody
<1>4. Settling(p, Len(ns), Settle!fold(0, 0, s, ns))
  <2> HIDE DEF p
  <2>1. PICK seg, pre : /\ Counted(1..Len(ns), seg, pre, 0, Len(ns))
                        /\ \A i \in 1..Len(ns) : pre[i] = i - 1
    BY Counts
  <2>2. Settle!Counted(1..Len(ns), seg, pre, 0, Len(ns))
    BY <2>1 DEF Counted, Settle!Counted
  <2> QED
    BY <1>2, <1>3, <2>1, <2>2, Settle!FoldKeeps
<1> QED
    BY <1>1, <1>4 DEF Settling
-----------------------------------------------------------------------------
(***************************************************************************)
(* Edges                                                                   *)
(***************************************************************************)

\* linkEdge is quiet.
LEMMA LinkIsQuiet ==
    ASSUME NEW s, Ledger(s), NEW from \in Node, NEW to \in Node
    PROVE  Quiet(s, linkEdge(s, from, to))
<1>1. PICK done : done = (s.phase[from] = "Done")
    OBVIOUS
<1>2. PICK t : t = IF done THEN TallyOf(s.status[from], s.reason[from]) ELSE "Unsatisfied"
    OBVIOUS
<1>3. PICK flags : flags = [p \in {from} \cup DOMAIN s.pred[to] |->
                               IF p = from THEN done ELSE s.pred[to][p]]
    BY Zenon
<1>8. PICK pred : pred = [s.pred EXCEPT ![to] = flags]
    BY Zenon
<1>4. PICK succ : succ = put(s.succ, from, Append(s.succ[from], to))
    OBVIOUS
<1>5. PICK deps : deps = put(s.deps, to, put(s.deps[to], t, s.deps[to][t] + 1))
    OBVIOUS
<1>6. linkEdge(s, from, to) = [s EXCEPT !.pred = pred, !.succ = succ, !.deps = deps]
    BY <1>1, <1>2, <1>3, <1>4, <1>5, <1>8, Zenon DEF linkEdge
<1>7. Wired(s.succ, s.pred) /\ DOMAIN s = Fields
    BY DEF Ledger
<1>9. Wired(succ, pred)
  <2>1. succ \in [Node -> Seq(Node)]
    BY <1>4, <1>7 DEF Wired, put
  <2>2. DOMAIN pred = Node /\ \A n \in Node : DOMAIN pred[n] \subseteq Node
    BY <1>3, <1>7, <1>8 DEF Wired
  <2> QED
    BY <2>1, <2>2 DEF Wired
<1> QED
    BY <1>6, <1>7, <1>9 DEF Fields, Quiet

\* unlinkEdge is quiet.
LEMMA UnlinkIsQuiet ==
    ASSUME NEW s, Ledger(s), NEW from \in Node, NEW to \in Node
    PROVE  Quiet(s, unlinkEdge(s, from, to))
<1>0. Wired(s.succ, s.pred) /\ DOMAIN s = Fields
    BY DEF Ledger
<1>1. CASE from \notin DOMAIN s.pred[to]
    BY <1>0, <1>1 DEF unlinkEdge, Quiet
<1>2. CASE from \in DOMAIN s.pred[to]
  <2>1. PICK t : t = IF s.pred[to][from] THEN TallyOf(s.status[from], s.reason[from])
                     ELSE "Unsatisfied"
    OBVIOUS
  <2>2. PICK pred : pred = [s.pred EXCEPT ![to] = Restrict(s.pred[to], DOMAIN s.pred[to] \ {from})]
    BY Zenon
  <2>3. PICK succ : succ = put(s.succ, from, without(s.succ[from], to))
    OBVIOUS
  <2>4. PICK deps : deps = put(s.deps, to, put(s.deps[to], t, Less(s.deps[to][t])))
    OBVIOUS
  <2>5. unlinkEdge(s, from, to) = [s EXCEPT !.pred = pred, !.succ = succ, !.deps = deps]
    BY <1>2, <2>1, <2>2, <2>3, <2>4, Zenon DEF unlinkEdge
  <2>6. Wired(succ, pred)
    <3>1. without(s.succ[from], to) \in Seq(Node)
        BY <1>0, WithoutIsSeq DEF Wired
    <3>2. succ \in [Node -> Seq(Node)]
        BY <1>0, <2>3, <3>1 DEF Wired, put
    <3>3. DOMAIN pred = Node /\ \A n \in Node : DOMAIN pred[n] \subseteq Node
        BY <1>0, <2>2 DEF Wired, Restrict
    <3> QED
        BY <3>2, <3>3 DEF Wired
  <2> QED
    BY <1>0, <2>5, <2>6 DEF Fields, Quiet
<1> QED
    BY <1>1, <1>2

\* Quiet changes may be strung together.
LEMMA QuietOn ==
    ASSUME NEW s, Ledger(s)
    PROVE  /\ Quiet(s, s)
           /\ \A t, u : Quiet(s, t) /\ Quiet(t, u) => Quiet(s, u)
           /\ \A t : Quiet(s, t) => Ledger(t)
BY QuietKeeps, Zenon DEF Quiet, Ledger

\* unlinkAll, one turn.
unlinkBody(a, b, s, e) == unlinkEdge(s, e[1], e[2])
Unlinking(p, i, t) == Quiet(p.s, t)
Unlink == INSTANCE FoldRule WITH op <- unlinkBody, Good <- Unlinking, Max <- Max

\* unlinkAll is quiet.
LEMMA UnlinkAllIsQuiet ==
    ASSUME NEW s, Ledger(s), NEW es \in Seq(Node \X Node)
    PROVE  Quiet(s, unlinkAll(s, es))
<1> DEFINE p == [s |-> s]
<1>1. unlinkAll(s, es) = Unlink!fold(0, 0, s, es)
    BY DEF unlinkAll, loop, unlinkBody, Unlink!fold, MapThenFoldSet, Unlink!MapThenFoldSet
<1>2. Unlinking(p, 0, s)
    BY QuietOn DEF Unlinking
<1>3. ASSUME NEW i \in 1..Len(es), NEW t, Unlinking(p, i - 1, t)
      PROVE  Unlinking(p, i, unlinkBody(0, 0, t, es[i]))
  <2>1. es[i][1] \in Node /\ es[i][2] \in Node
    OBVIOUS
  <2>2. Quiet(s, t) /\ Ledger(t)
    BY <1>3, QuietOn DEF Unlinking
  <2>3. Quiet(t, unlinkEdge(t, es[i][1], es[i][2]))
    BY <2>1, <2>2, UnlinkIsQuiet
  <2>4. Quiet(s, unlinkEdge(t, es[i][1], es[i][2]))
    BY <2>2, <2>3, QuietOn
  <2> QED
    BY <2>4 DEF Unlinking, unlinkBody
<1>4. Unlinking(p, Len(es), Unlink!fold(0, 0, s, es))
  <2> HIDE DEF p
  <2>1. PICK seg, pre : /\ Counted(1..Len(es), seg, pre, 0, Len(es))
                        /\ \A i \in 1..Len(es) : pre[i] = i - 1
    BY Counts
  <2>2. Unlink!Counted(1..Len(es), seg, pre, 0, Len(es))
    BY <2>1, Zenon DEF Counted, Unlink!Counted
  <2> QED
    BY <1>2, <1>3, <2>1, <2>2, Unlink!FoldKeeps
<1> QED
    BY <1>1, <1>4 DEF Unlinking

\* terminateAll, one turn: it ends leases of the nodes it is called with only.  The
\* nodes it has come to are done, if they were there.
endBody(reason, b, s, n) == terminate(s, n, "Error", reason)
EndingAll(p, i, t) ==
    /\ Books(t) /\ Follows(p.s, t, Range(p.ns), {})
    /\ \A j \in 1..i : p.s.phase[p.ns[j]] # "Absent" => t.phase[p.ns[j]] = "Done"
EndAll == INSTANCE FoldRule WITH op <- endBody, Good <- EndingAll, Max <- Max

\* What terminateAll makes of s.
AllEnded(s, t, ns) ==
    /\ Books(t) /\ Follows(s, t, Range(ns), {})
    /\ \A j \in DOMAIN ns : s.phase[ns[j]] # "Absent" => t.phase[ns[j]] = "Done"

\* A node that is done stays done, and one that is absent stays away.
LEMMA FollowsStays ==
    ASSUME NEW s, NEW t, NEW F, NEW R, Ledger(s), Follows(s, t, F, R), NEW n \in Node
    PROVE  /\ s.phase[n] = "Done" => t.phase[n] = "Done"
           /\ s.phase[n] = "Absent" <=> t.phase[n] = "Absent"
<1>1. Goes(s.phase[n], t.phase[n], n \in F, n \in R) /\ s.phase[n] \in Phase /\ t.phase[n] \in Phase
    BY DEF Follows, Moves, Ledger
<1> QED
    BY <1>1 DEF Goes, CoarseState, Phase

\* terminateAll ends the leases of its nodes, and no other.
LEMMA TerminateAllKeeps ==
    ASSUME NEW s, Books(s), NEW ns \in Seq(Node), NEW reason \in Reason
    PROVE  AllEnded(s, terminateAll(s, ns, reason), ns)
<1> DEFINE p == [s |-> s, ns |-> ns]
<1>1. terminateAll(s, ns, reason) = EndAll!fold(reason, 0, s, ns)
    BY DEF terminateAll, loop, endBody, EndAll!fold, MapThenFoldSet,
           EndAll!MapThenFoldSet
<1>0. Ledger(s)
    BY DEF Books
<1>2. EndingAll(p, 0, s)
    BY <1>0, FollowsItself DEF EndingAll
<1>3. ASSUME NEW i \in 1..Len(ns), NEW t, EndingAll(p, i - 1, t)
      PROVE  EndingAll(p, i, endBody(reason, 0, t, ns[i]))
  <2>1. PICK n \in Node : n = ns[i]
    OBVIOUS
  <2>2. PICK u : u = terminate(t, n, "Error", reason)
    OBVIOUS
  <2>3. /\ Books(t) /\ Follows(s, t, Range(ns), {}) /\ Ledger(t)
        /\ \A j \in 1..(i - 1) : s.phase[ns[j]] # "Absent" => t.phase[ns[j]] = "Done"
    BY <1>3 DEF EndingAll, Books
  <2>4. Ended(t, u, n)
    BY <2>2, <2>3, TerminateFromBooks DEF Status
  <2>5. Books(u) /\ Follows(t, u, {n}, {}) /\ (t.phase[n] \notin {"Absent", "Done"} => u.phase[n] = "Done")
    BY <2>4 DEF Ended
  <2>6. {n} \subseteq Range(ns) /\ {} \subseteq {}
    BY <2>1 DEF Range
  <2>7. Follows(s, u, Range(ns), {})
    BY <1>0, <2>3, <2>5, <2>6, FollowsOn
  <2>8. ASSUME NEW j \in 1..i, s.phase[ns[j]] # "Absent"
        PROVE  u.phase[ns[j]] = "Done"
    <3>1. ns[j] \in Node /\ t.phase[ns[j]] # "Absent"
        BY <1>0, <2>3, <2>8, FollowsStays
    <3>2. t.phase[ns[j]] = "Done" => u.phase[ns[j]] = "Done"
        BY <2>3, <2>5, <3>1, FollowsStays
    <3> QED
        BY <2>1, <2>3, <2>5, <2>8, <3>1, <3>2
  <2> QED
    BY <2>1, <2>2, <2>5, <2>7, <2>8 DEF EndingAll, endBody
<1>4. EndingAll(p, Len(ns), EndAll!fold(reason, 0, s, ns))
  <2> HIDE DEF p
  <2>1. PICK seg, pre : /\ Counted(1..Len(ns), seg, pre, 0, Len(ns))
                        /\ \A i \in 1..Len(ns) : pre[i] = i - 1
    BY Counts
  <2>2. EndAll!Counted(1..Len(ns), seg, pre, 0, Len(ns))
    BY <2>1 DEF Counted, EndAll!Counted
  <2> QED
    BY <1>2, <1>3, <2>1, <2>2, EndAll!FoldKeeps
<1> QED
    BY <1>1, <1>4 DEF EndingAll, AllEnded
-----------------------------------------------------------------------------
(***************************************************************************)
(* Leases                                                                  *)
(***************************************************************************)

\* What taking back the lease of n makes of s.
Taken(s, t, n) ==
    /\ Books(t) /\ Follows(s, t, {}, {n}) /\ t.phase[n] \in {"Scheduled", "Done"}
    /\ \A m \in Node : s.phase[m] = "Claimed" /\ m # n => t.phase[m] = "Claimed"

\* What a move keeps of the leases nobody may end.
LEMMA MovesHold ==
    ASSUME NEW p \in [Node -> Phase], NEW q \in [Node -> Phase], NEW F, NEW R,
           Moves(p, q, F, R), NEW m \in Node, m \notin F, m \notin R, p[m] = "Claimed"
    PROVE  q[m] = "Claimed"
<1>1. Goes(p[m], q[m], m \in F, m \in R) /\ q[m] \in Phase
    BY DEF Moves
<1> QED
    BY <1>1 DEF Goes, CoarseState, Phase

\* failAttempt takes back one lease, and ends no other.
LEMMA FailAttemptKeeps ==
    ASSUME NEW s, Books(s), NEW n \in Node, s.phase[n] = "Claimed",
           NEW reason \in Reason, NEW delay
    PROVE  Taken(s, failAttempt(s, n, reason, delay), n)
<1>0. PICK u : u = failAttempt(s, n, reason, delay)
    OBVIOUS
<1>1. PICK t : t = [s EXCEPT !.leases = s.leases \ {n}, !.deadline = put(s.deadline, n, 0)]
    OBVIOUS
<1>2. Ledger(s) /\ DOMAIN s = Fields /\ s.leases = Held(s.phase)
    BY DEF Books, Ledger
<1>3. /\ DOMAIN t = Fields /\ t.phase = s.phase /\ t.leases = s.leases \ {n}
      /\ t.deadline = [s.deadline EXCEPT ![n] = 0]
      /\ t.epoch = s.epoch /\ t.epochFloor = s.epochFloor
      /\ t.ready = s.ready /\ t.scheduled = s.scheduled
      /\ t.succ = s.succ /\ t.pred = s.pred
    BY <1>1, <1>2 DEF Fields, put
<1>4. Ledger(t)
    BY <1>2, <1>3 DEF Ledger
<1>5. t.leases \ {n} = Held(t.phase) \ {n} /\ n \notin t.leases /\ t.phase[n] = "Claimed"
    BY <1>2, <1>3
<1>6. Books(u) /\ Follows(t, u, {}, {n}) /\ u.phase[n] \in {"Scheduled", "Done"}
  <2>1. CASE exhausted(s, n)
    <3>1. u = terminate(t, n, "Error", reason)
        BY <1>0, <1>1, <2>1 DEF failAttempt
    <3>2. Ended(t, u, n)
        BY <1>4, <1>5, <3>1, TerminateKeeps DEF Status
    <3>3. Books(u) /\ Follows(t, u, {n}, {}) /\ u.phase[n] = "Done"
        BY <1>5, <3>2 DEF Ended
    <3>4. Moves(t.phase, u.phase, {}, {n})
        BY <3>3 DEF Follows, Moves, Goes
    <3> QED
        BY <3>3, <3>4 DEF Follows
  <2>2. CASE ~ exhausted(s, n)
    <3>1. PICK v : v = [t EXCEPT !.reason = put(t.reason, n, reason)]
        BY Zenon
    <3>2. u = schedule(v, n, delay)
        BY <1>0, <1>1, <2>2, <3>1 DEF failAttempt
    <3>3. DOMAIN v = Fields /\ SameBooks(t, v)
        BY <1>3, <3>1 DEF Fields, SameBooks
    <3>4. OneMove(v, u, n, "Scheduled")
        BY <3>2, <3>3, ScheduleMove
    <3>5. OneMove(t, u, n, "Scheduled")
        BY <3>3, <3>4 DEF SameBooks, OneMove
    <3>6. May(t.phase, n, "Scheduled", {}, {n})
        BY <1>5 DEF May, Goes, CoarseState
    <3>7. Books(u) /\ Follows(t, u, {}, {n}) /\ u.phase = [t.phase EXCEPT ![n] = "Scheduled"]
        BY <1>4, <1>5, <3>5, <3>6, ScheduledStep
    <3>8. u.phase[n] = "Scheduled"
        BY <1>4, <3>7 DEF Ledger
    <3> QED
        BY <3>7, <3>8
  <2> QED
    BY <2>1, <2>2
<1>7. Follows(s, u, {}, {n})
  <2>1. Timed(u.phase, s.deadline, u.deadline)
    BY <1>2, <1>3, <1>6, Zenon DEF Follows, Timed, Ledger
  <2> QED
    BY <1>3, <1>6, <2>1 DEF Follows
<1>8. ASSUME NEW m \in Node, s.phase[m] = "Claimed", m # n
      PROVE  u.phase[m] = "Claimed"
  <2>1. s.phase \in [Node -> Phase] /\ u.phase \in [Node -> Phase] /\ Moves(s.phase, u.phase, {}, {n})
    BY <1>2, <1>7, Zenon DEF Ledger, Follows
  <2> QED
    BY <1>8, <2>1, MovesHold
<1> QED
    BY <1>0, <1>6, <1>7, <1>8 DEF Taken

\* An order of a finite set is a sequence of its elements, each once.
LEMMA OrdersAreSequences ==
    ASSUME NEW S, IsFiniteSet(S), NEW q \in orders(S)
    PROVE  /\ q \in Seq(S) /\ Len(q) = Cardinality(S)
           /\ \A i, j \in DOMAIN q : q[i] = q[j] => i = j
<1>1. Cardinality(S) \in Nat
    BY FS_CardinalityType
<1>2. q \in [1..Cardinality(S) -> S]
    BY DEF orders, Injection
<1>3. \A i, j \in DOMAIN q : q[i] = q[j] => i = j
    BY <1>2 DEF orders, Injection, IsInjective
<1> QED
    BY <1>1, <1>2, <1>3

\* reclaim, one turn: the leases it has not come to yet are still held.
reclaimBody(delay, b, s, n) == reclaimOne(delay, s, n)
Reclaiming(p, i, t) ==
    /\ Books(t) /\ Follows(p.s, t, {}, Expired(p.s))
    /\ \A j \in DOMAIN p.order : j > i => t.phase[p.order[j]] = "Claimed"
Reclaim == INSTANCE FoldRule WITH op <- reclaimBody, Good <- Reclaiming, Max <- Max

\* What a reclaim of expired leases makes of s.
Reclaimed(s, t) == Books(t) /\ Follows(s, t, {}, Expired(s))

\* reclaimExpired's loop takes back expired leases and ends no other.
LEMMA ReclaimKeeps ==
    ASSUME NEW s, Books(s), NEW order \in Seq(Expired(s)),
           \A i, j \in DOMAIN order : order[i] = order[j] => i = j, NEW delay
    PROVE  Reclaimed(s, reclaim(s, order, delay))
<1> DEFINE p == [s |-> s, order |-> order]
<1>0. Ledger(s) /\ \A n \in Expired(s) : n \in Node /\ s.phase[n] = "Claimed"
    BY DEF Books, Held, Expired
<1>1. reclaim(s, order, delay) = Reclaim!fold(delay, 0, s, order)
    BY DEF reclaim, loop, reclaimBody, Reclaim!fold, MapThenFoldSet, Reclaim!MapThenFoldSet
<1>2. Reclaiming(p, 0, s)
    BY <1>0, FollowsItself DEF Reclaiming
<1>3. ASSUME NEW i \in 1..Len(order), NEW t, Reclaiming(p, i - 1, t)
      PROVE  Reclaiming(p, i, reclaimBody(delay, 0, t, order[i]))
  <2>1. PICK n : n = order[i] /\ n \in Expired(s) /\ n \in Node
    BY <1>0
  <2>2. PICK u : u = failAttempt(t, n, "Timeout", delay[n])
    OBVIOUS
  <2>3. /\ Books(t) /\ Follows(s, t, {}, Expired(s))
        /\ \A j \in DOMAIN order : j > i - 1 => t.phase[order[j]] = "Claimed"
    BY <1>3, Zenon DEF Reclaiming
  <2>4. t.phase[n] = "Claimed" /\ "Timeout" \in Reason
    BY <2>1, <2>3 DEF Reason
  <2>5. Taken(t, u, n)
    BY <2>1, <2>2, <2>3, <2>4, FailAttemptKeeps
  <2>6. /\ Books(u) /\ Follows(t, u, {}, {n})
        /\ \A m \in Node : t.phase[m] = "Claimed" /\ m # n => u.phase[m] = "Claimed"
    BY <2>5 DEF Taken
  <2>7. {n} \subseteq Expired(s) /\ {} \subseteq {}
    BY <2>1
  <2>8. Follows(s, u, {}, Expired(s))
    BY <1>0, <2>3, <2>6, <2>7, FollowsOn
  <2>9. ASSUME NEW j \in DOMAIN order, j > i
        PROVE  u.phase[order[j]] = "Claimed"
    <3>1. order[j] \in Node /\ order[j] # n /\ t.phase[order[j]] = "Claimed"
        BY <1>0, <2>1, <2>3, <2>9
    <3> QED
        BY <2>6, <3>1
  <2> QED
    BY <2>1, <2>2, <2>6, <2>8, <2>9, Zenon DEF Reclaiming, reclaimBody, reclaimOne
<1>4. Reclaiming(p, Len(order), Reclaim!fold(delay, 0, s, order))
  <2> HIDE DEF p
  <2>1. PICK seg, pre : /\ Counted(1..Len(order), seg, pre, 0, Len(order))
                        /\ \A i \in 1..Len(order) : pre[i] = i - 1
    BY Counts
  <2>2. Reclaim!Counted(1..Len(order), seg, pre, 0, Len(order))
    BY <2>1, Zenon DEF Counted, Reclaim!Counted
  <2> QED
    BY <1>2, <1>3, <2>1, <2>2, Reclaim!FoldKeeps
<1> QED
    BY <1>1, <1>4 DEF Reclaiming, Reclaimed

\* reclaimExpired takes back expired leases and ends no other.
LEMMA ReclaimExpiredKeeps ==
    ASSUME NEW s, Books(s), NEW limit, NEW t \in reclaimExpired(s, limit)
    PROVE  Reclaimed(s, t)
<1>1. PICK V \in SUBSET Expired(s) : \E order \in orders(V) : \E delay : t = reclaim(s, order, delay)
    BY DEF reclaimExpired, kSubset
<1>6. PICK order \in orders(V) : \E delay : t = reclaim(s, order, delay)
    BY <1>1
<1>2. Expired(s) \subseteq Node
    BY DEF Books, Held, Expired
<1>3. IsFiniteSet(V)
    BY <1>2, NodeFinite, FS_Subset
<1>4. order \in Seq(V) /\ \A i, j \in DOMAIN order : order[i] = order[j] => i = j
    BY <1>3, OrdersAreSequences
<1>5. order \in Seq(Expired(s))
    BY <1>4
<1> QED
    BY <1>4, <1>5, <1>6, ReclaimKeeps

\* promote, one turn.
promoteBody(a, b, s, n) == makeReady(s, n)
Promoting(p, i, t) ==
    /\ Settled(p.s, t)
    /\ \A j \in DOMAIN p.order : t.phase[p.order[j]] \in {"Scheduled", "Ready"}
Promote == INSTANCE FoldRule WITH op <- promoteBody, Good <- Promoting, Max <- Max

\* promoteScheduled ends no lease.
LEMMA PromoteKeeps ==
    ASSUME NEW s, Books(s), NEW t \in promoteScheduled(s)
    PROVE  Settled(s, t)
<1>1. PICK order \in orders(Due(s)) : t = promote(s, order)
    BY DEF promoteScheduled
<1>0. Ledger(s) /\ \A n \in Due(s) : n \in Node /\ s.phase[n] = "Scheduled"
    BY DEF Books, Ledger, Heaps, Due
<1>2. order \in Seq(Due(s))
    BY <1>0, NodeFinite, FS_Subset, OrdersAreSequences, Due(s) \subseteq Node
<1>p. \A j \in DOMAIN order : order[j] \in Node /\ s.phase[order[j]] = "Scheduled"
  <2>1. \A j \in DOMAIN order : order[j] \in Due(s)
    BY <1>2
  <2> QED
    BY <1>0, <2>1
<1> DEFINE p == [s |-> s, order |-> order]
<1>3. promote(s, order) = Promote!fold(0, 0, s, order)
    BY DEF promote, loop, promoteBody, Promote!fold, MapThenFoldSet, Promote!MapThenFoldSet
<1>4. Promoting(p, 0, s)
  <2>1. Settled(s, s)
    BY <1>0, FollowsItself DEF Settled
  <2> QED
    BY <1>0, <1>2, <2>1 DEF Promoting
<1>5. ASSUME NEW i \in 1..Len(order), NEW x, Promoting(p, i - 1, x)
      PROVE  Promoting(p, i, promoteBody(0, 0, x, order[i]))
  <2>0. i \in DOMAIN order
    BY <1>2
  <2>1. PICK n \in Node : n = order[i]
    BY <1>p, <2>0
  <2>2. PICK y : y = makeReady(x, n)
    OBVIOUS
  <2>3. /\ Books(x) /\ Follows(s, x, {}, {}) /\ Ledger(x) /\ DOMAIN x = Fields
        /\ \A j \in DOMAIN order : x.phase[order[j]] \in {"Scheduled", "Ready"}
    BY <1>5, Zenon DEF Promoting, Settled, Books, Ledger
  <2>4. x.phase[n] \in {"Scheduled", "Ready"}
    BY <2>0, <2>1, <2>3
  <2>5. OneMove(x, y, n, "Ready")
    BY <2>2, <2>3, ReadyMove
  <2>6. x.leases \ {n} = Held(x.phase) \ {n} /\ n \notin x.leases
    BY <2>3, <2>4 DEF Books, Held
  <2>7. May(x.phase, n, "Ready", {}, {})
    BY <2>4 DEF May, Goes, CoarseState
  <2>8. Books(y) /\ Follows(x, y, {}, {}) /\ y.phase = [x.phase EXCEPT ![n] = "Ready"]
    BY <2>3, <2>5, <2>6, <2>7, ReadyStep, Zenon
  <2>9. Follows(s, y, {}, {})
    <3>1. Ledger(s) /\ Follows(s, x, {}, {}) /\ Follows(x, y, {}, {})
      BY <1>0, <2>3, <2>8, Zenon
    <3> QED
      BY <3>1, FollowsAgain, Zenon
  <2>10. \A j \in DOMAIN order : y.phase[order[j]] \in {"Scheduled", "Ready"}
    BY <1>p, <2>3, <2>8, Zenon DEF Ledger
  <2>11. Settled(s, y)
    BY <2>8, <2>9 DEF Settled
  <2> QED
    BY <2>1, <2>2, <2>10, <2>11 DEF Promoting, promoteBody
<1>6. Promoting(p, Len(order), Promote!fold(0, 0, s, order))
  <2> HIDE DEF p
  <2>1. PICK seg, pre : /\ Counted(1..Len(order), seg, pre, 0, Len(order))
                        /\ \A i \in 1..Len(order) : pre[i] = i - 1
    BY Counts
  <2>2. Promote!Counted(1..Len(order), seg, pre, 0, Len(order))
    BY <2>1 DEF Counted, Promote!Counted
  <2> QED
    BY <1>2, <1>4, <1>5, <2>1, <2>2, Promote!FoldKeeps
<1> QED
    BY <1>1, <1>3, <1>6 DEF Promoting

\* Sweep takes back expired leases and ends no other.
LEMMA SweepKeeps ==
    ASSUME NEW s, Books(s), NEW limit, NEW t \in swept(s, limit)
    PROVE  Reclaimed(s, t)
<1>1. PICK a \in reclaimExpired(s, limit) : t \in promoteScheduled(a)
    BY DEF swept
<1>2. Books(a) /\ Follows(s, a, {}, Expired(s))
    BY ReclaimExpiredKeeps DEF Reclaimed
<1>3. Books(t) /\ Follows(a, t, {}, {})
    BY <1>1, <1>2, PromoteKeeps DEF Settled
<1>4. Ledger(s) /\ {} \subseteq Expired(s) /\ {} \subseteq {}
    BY DEF Books
<1>5. Follows(s, t, {}, Expired(s))
    BY <1>2, <1>3, <1>4, FollowsOn
<1> QED
    BY <1>3, <1>5 DEF Reclaimed

\* The larger and the smaller of two numbers.
LEMMA TwoOf ==
    ASSUME NEW a \in Int, NEW b \in Int
    PROVE  /\ Max({a, b}) = IF a >= b THEN a ELSE b
           /\ Min({a, b}) = IF a <= b THEN a ELSE b
<1>1. PICK x : x = IF a >= b THEN a ELSE b
    OBVIOUS
<1>2. PICK y : y = IF a <= b THEN a ELSE b
    OBVIOUS
<1>3. x \in {a, b} /\ \A z \in {a, b} : x >= z
    BY <1>1
<1>4. y \in {a, b} /\ \A z \in {a, b} : y <= z
    BY <1>2
<1>5. Max({a, b}) \in {a, b} /\ \A z \in {a, b} : Max({a, b}) >= z
    BY <1>3 DEF Max
<1>6. Min({a, b}) \in {a, b} /\ \A z \in {a, b} : Min({a, b}) <= z
    BY <1>4 DEF Min
<1> HIDE DEF Max, Min
<1> QED
    BY <1>1, <1>2, <1>3, <1>4, <1>5, <1>6

\* A lease is never granted for no time at all.
LEMMA LeaseLasts ==
    ASSUME NEW d \in Nat
    PROVE  ClampLease(d) \in Nat \ {0}
<1>1. PICK a \in Nat : a = IF d = 0 THEN DefaultLease ELSE d
    BY LeaseBounds
<1>2. PICK b : b = Max({a, MinLease})
    OBVIOUS
<1>3. b \in Nat \ {0}
    BY <1>2, LeaseBounds, TwoOf
<1>4. ClampLease(d) = Min({b, MaxLease})
    BY <1>1, <1>2 DEF ClampLease
<1>5. b \in Int /\ MaxLease \in Int
    BY <1>3, LeaseBounds
<1>6. Min({b, MaxLease}) = IF b <= MaxLease THEN b ELSE MaxLease
    BY <1>5, TwoOf
<1> QED
    BY <1>3, <1>4, <1>6, LeaseBounds

\* What a grant does to one node: nothing, or it hands a ready one out at the next epoch.
Handed(s, t, n, lease) ==
    /\ s.phase[n] = "Ready" /\ t.phase[n] = "Claimed"
    /\ t.epoch[n] = s.epoch[n] + 1 /\ t.deadline[n] = lease

Same(s, t, n) ==
    t.phase[n] = s.phase[n] /\ t.epoch[n] = s.epoch[n] /\ t.deadline[n] = s.deadline[n]

Handing(s, t, lease) == \A n \in Node : Same(s, t, n) \/ Handed(s, t, n, lease)

\* c.leases tells the leases that were granted, and nothing else.
Receipts(s, t, leases) ==
    leases = {<<n, s.epoch[n] + 1>> : n \in {m \in Node : s.phase[m] = "Ready" /\ t.phase[m] = "Claimed"}}

\* What Claim's loop makes of s.
Given(s, c, lease) ==
    /\ Books(c.s) /\ c.s.epochFloor = s.epochFloor
    /\ Handing(s, c.s, lease) /\ Receipts(s, c.s, c.leases)

\* Claim's loop, one turn.
grantBody(kinds, lease, c, i) == grantOne(c, kinds, lease)
Granting(p, i, c) == Given(p.s, c, p.lease)
Grant == INSTANCE FoldRule WITH op <- grantBody, Good <- Granting, Max <- Max

\* One lease is granted.
OneGrant(s, t, n, lease) ==
    /\ DOMAIN t = Fields /\ t.phase = [s.phase EXCEPT ![n] = "Claimed"]
    /\ t.ready = Queue(s.ready, n, "Claimed") /\ t.scheduled = s.scheduled
    /\ t.deadline = [s.deadline EXCEPT ![n] = lease] /\ t.leases = s.leases \cup {n}
    /\ t.epoch = [s.epoch EXCEPT ![n] = s.epoch[n] + 1] /\ t.epochFloor = s.epochFloor
    /\ t.succ = s.succ /\ t.pred = s.pred

\* Granting a ready node keeps the books.
LEMMA OneGrantKeeps ==
    ASSUME NEW s, Books(s), NEW n \in Node, s.phase[n] = "Ready", NEW lease \in Nat \ {0},
           NEW t, OneGrant(s, t, n, lease)
    PROVE  /\ Books(t) /\ t.epochFloor = s.epochFloor
           /\ Handed(s, t, n, lease) /\ \A m \in Node : m # n => Same(s, t, m)
<1>1. /\ s.phase \in [Node -> Phase] /\ Heaps(s.phase, s.ready, s.scheduled)
      /\ s.deadline \in [Node -> Nat] /\ s.epoch \in [Node -> Nat] /\ s.epochFloor \in Nat
      /\ Wired(s.succ, s.pred) /\ Retired(s.phase, s.epoch) /\ s.leases = Held(s.phase)
    BY DEF Books, Ledger
<1>2. Retry(s.scheduled, n, "Claimed") = s.scheduled
    BY <1>1 DEF Retry, Heaps
<1>3. Heaps(t.phase, t.ready, t.scheduled)
  <2>1. "Claimed" \in Phase
    BY DEF Phase
  <2>2. Heaps([s.phase EXCEPT ![n] = "Claimed"], Queue(s.ready, n, "Claimed"),
              Retry(s.scheduled, n, "Claimed"))
    BY <1>1, <2>1, HeapsMove
  <2> QED
    BY <1>2, <2>2 DEF OneGrant
<1>4. /\ t.phase \in [Node -> Phase] /\ t.phase[n] = "Claimed"
      /\ \A m \in Node : m # n => t.phase[m] = s.phase[m]
    BY <1>1 DEF OneGrant, Phase
<1>5. /\ t.epoch \in [Node -> Nat] /\ t.epoch[n] = s.epoch[n] + 1
      /\ \A m \in Node : m # n => t.epoch[m] = s.epoch[m]
  <2>1. PICK e \in [Node -> Nat] : e = s.epoch
    BY <1>1, Zenon
  <2>2. t.epoch = [e EXCEPT ![n] = e[n] + 1]
    BY <2>1, Zenon DEF OneGrant
  <2>3. e[n] + 1 \in Nat
    OBVIOUS
  <2> QED
    BY <2>1, <2>2, <2>3, Zenon
<1>6. /\ t.deadline \in [Node -> Nat] /\ t.deadline[n] = lease
      /\ \A m \in Node : m # n => t.deadline[m] = s.deadline[m]
  <2>1. t.deadline = [s.deadline EXCEPT ![n] = lease]
    BY Zenon DEF OneGrant
  <2> QED
    BY <1>1, <2>1, Zenon
<1>7. t.leases = Held(t.phase)
    BY <1>1, <1>4 DEF OneGrant, Held
<1>8. Retired(t.phase, t.epoch)
    BY <1>1, <1>4, <1>5 DEF Retired
<1>9. Ledger(t)
    BY <1>1, <1>3, <1>4, <1>5, <1>6, <1>8, Zenon DEF Ledger, OneGrant
<1> QED
    BY <1>4, <1>5, <1>6, <1>7, <1>9, Zenon DEF Books, Handed, Same, OneGrant

\* One turn of Claim's loop grants one lease, or none.
LEMMA GrantOneIsGrant ==
    ASSUME NEW c, Books(c.s), NEW kinds, NEW lease
    PROVE  \/ grantOne(c, kinds, lease) = c
           \/ \E n \in Node : /\ c.s.phase[n] = "Ready"
                              /\ OneGrant(c.s, grantOne(c, kinds, lease).s, n, lease)
                              /\ grantOne(c, kinds, lease).leases
                                    = c.leases \cup {<<n, c.s.epoch[n] + 1>>}
<1>1. PICK best : best = bestReady(c.s, kinds)
    OBVIOUS
<1> SUFFICES ASSUME best # {}, ~ atCap(c.s)
             PROVE  \E n \in Node : /\ c.s.phase[n] = "Ready"
                              /\ OneGrant(c.s, grantOne(c, kinds, lease).s, n, lease)
                              /\ grantOne(c, kinds, lease).leases
                                    = c.leases \cup {<<n, c.s.epoch[n] + 1>>}
    BY <1>1, Zenon DEF grantOne
<1>2. PICK k \in best : k = CHOOSE i \in best : TRUE
    OBVIOUS
<1>3. k \in DOMAIN c.s.ready
    BY <1>1, <1>2, Zenon DEF bestReady
<1>4. PICK n : n = c.s.ready[k]
    OBVIOUS
<1>5. DOMAIN c.s = Fields /\ n \in Node /\ c.s.phase[n] = "Ready"
  <2>1. DOMAIN c.s = Fields /\ Heaps(c.s.phase, c.s.ready, c.s.scheduled)
    BY Zenon DEF Books, Ledger
  <2>2. PICK q : q = c.s.ready
    BY Zenon
  <2>3. q \in Seq(Node) /\ k \in DOMAIN q /\ n = q[k] /\ c.s.phase[q[k]] = "Ready"
    BY <1>3, <1>4, <2>1, <2>2, Zenon DEF Heaps
  <2>4. q[k] \in Node
    BY <2>3
  <2> QED
    BY <2>1, <2>3, <2>4, Zenon
<1>6. PICK a : a = leaveBucket(c.s, n)
    OBVIOUS
<1>7. PICK b : b = [a EXCEPT
                          !.ready = without(@, n), !.epoch = put(@, n, c.s.epoch[n] + 1),
                          !.attempt = put(@, n, c.s.attempt[n] + 1),
                          !.phase = put(@, n, "Claimed"), !.status = put(@, n, "InProgress"),
                          !.deadline = put(@, n, lease), !.leases = @ \cup {n}]
    OBVIOUS
<1>8. grantOne(c, kinds, lease)
        = [s |-> enterBucket(b, n), leases |-> c.leases \cup {<<n, c.s.epoch[n] + 1>>}]
  <2>1. n = c.s.ready[CHOOSE i \in bestReady(c.s, kinds) : TRUE]
    BY <1>1, <1>2, <1>4
  <2>2. ~ (bestReady(c.s, kinds) = {} \/ atCap(c.s))
    BY <1>1
  <2> QED
    BY <1>6, <1>7, <2>1, <2>2, Zenon DEF grantOne
<1>9. DOMAIN a = Fields /\ SameBooks(c.s, a)
    BY <1>5, <1>6, LeaveKeeps
<1>10. DOMAIN b = Fields
    BY <1>7, <1>9
<1>11. PICK t : t = enterBucket(b, n)
    OBVIOUS
<1>12. DOMAIN t = Fields /\ SameBooks(b, t)
    BY <1>10, <1>11, EnterKeeps
<1>13. OneGrant(c.s, t, n, lease)
    BY <1>7, <1>9, <1>12 DEF Fields, SameBooks, put, OneGrant, Queue
<1>14. /\ grantOne(c, kinds, lease).s = t
       /\ grantOne(c, kinds, lease).leases = c.leases \cup {<<n, c.s.epoch[n] + 1>>}
  <2>1. PICK g : g = grantOne(c, kinds, lease)
    BY Zenon
  <2>2. g = [s |-> t, leases |-> c.leases \cup {<<n, c.s.epoch[n] + 1>>}]
    BY <1>8, <1>11, <2>1, Zenon
  <2>3. g.s = t /\ g.leases = c.leases \cup {<<n, c.s.epoch[n] + 1>>}
    BY <2>2
  <2> QED
    BY <2>1, <2>3, Zenon
<1> QED
    BY <1>5, <1>13, <1>14, Zenon

\* One turn more.
LEMMA GrantOneKeeps ==
    ASSUME NEW s, NEW c, NEW lease \in Nat \ {0}, Given(s, c, lease), NEW kinds
    PROVE  Given(s, grantOne(c, kinds, lease), lease)
<1>1. PICK d : d = grantOne(c, kinds, lease)
    OBVIOUS
<1>2. /\ Books(c.s) /\ c.s.epochFloor = s.epochFloor
      /\ Handing(s, c.s, lease) /\ Receipts(s, c.s, c.leases)
    BY DEF Given
<1>3. CASE d = c
    BY <1>1, <1>3
<1>4. ASSUME NEW n \in Node, c.s.phase[n] = "Ready", OneGrant(c.s, d.s, n, lease),
             d.leases = c.leases \cup {<<n, c.s.epoch[n] + 1>>}
      PROVE  Given(s, d, lease)
  <2>1. /\ Books(d.s) /\ d.s.epochFloor = c.s.epochFloor
        /\ Handed(c.s, d.s, n, lease) /\ \A m \in Node : m # n => Same(c.s, d.s, m)
    BY <1>2, <1>4, OneGrantKeeps, Zenon
  <2>2. Same(s, c.s, n)
    BY <1>2, <1>4, Zenon DEF Handing, Handed
  <2>3. Handed(s, d.s, n, lease)
    BY <2>1, <2>2 DEF Handed, Same
  <2>4. \A m \in Node : m # n => Same(s, d.s, m) \/ Handed(s, d.s, m, lease)
    BY <1>2, <2>1, Zenon DEF Handing, Handed, Same
  <2>5. Handing(s, d.s, lease)
    BY <2>3, <2>4 DEF Handing
  <2>6. \A m \in Node : m # n => d.s.phase[m] = c.s.phase[m]
    BY <2>1 DEF Same
  <2>7. /\ s.phase[n] = "Ready" /\ d.s.phase[n] = "Claimed" /\ c.s.phase[n] = "Ready"
        /\ c.s.epoch[n] = s.epoch[n]
    BY <1>4, <2>2, <2>3 DEF Handed, Same
  <2>8. Receipts(s, d.s, d.leases)
    BY <1>2, <1>4, <2>6, <2>7 DEF Receipts
  <2> QED
    BY <1>2, <2>1, <2>5, <2>8, Zenon DEF Given
<1>5. \/ d = c
      \/ \E n \in Node : /\ c.s.phase[n] = "Ready" /\ OneGrant(c.s, d.s, n, lease)
                         /\ d.leases = c.leases \cup {<<n, c.s.epoch[n] + 1>>}
    BY <1>1, <1>2, GrantOneIsGrant
<1>6. Given(s, d, lease)
    BY <1>3, <1>4, <1>5
<1> QED
    BY <1>1, <1>6

\* Claim's loop grants ready nodes, each at its next epoch, and says so.
LEMMA GrantLoopKeeps ==
    ASSUME NEW s, Books(s), NEW kinds, NEW want \in Nat, NEW lease \in Nat \ {0}
    PROVE  Given(s, grantLoop(s, kinds, want, lease), lease)
<1>1. PICK start : start = [s |-> s, leases |-> {}]
    BY Zenon
<1>2. PICK ks \in Seq(Nat) : ks = [k \in 1..want |-> k] /\ Len(ks) = want
    BY CountingUp, Zenon
<1> DEFINE p == [s |-> s, lease |-> lease]
<1>3. grantLoop(s, kinds, want, lease) = Grant!fold(kinds, lease, start, ks)
    BY <1>1, <1>2 DEF grantLoop, loop, grantBody, Grant!fold, MapThenFoldSet,
                      Grant!MapThenFoldSet
<1>4. Granting(p, 0, start)
  <2>1. Handing(s, s, lease)
    BY DEF Handing, Same
  <2>2. Receipts(s, s, {})
    BY DEF Receipts
  <2>3. Given(s, start, lease)
    BY <1>1, <2>1, <2>2 DEF Given
  <2> QED
    BY <2>3 DEF Granting
<1>5. ASSUME NEW i \in 1..Len(ks), NEW c, Granting(p, i - 1, c)
      PROVE  Granting(p, i, grantBody(kinds, lease, c, ks[i]))
  <2>1. Given(s, c, lease)
    BY <1>5 DEF Granting
  <2>2. Given(s, grantOne(c, kinds, lease), lease)
    BY <2>1, GrantOneKeeps
  <2> QED
    BY <2>2 DEF Granting, grantBody
<1>6. Granting(p, Len(ks), Grant!fold(kinds, lease, start, ks))
  <2> HIDE DEF p
  <2>1. PICK seg, pre : /\ Counted(1..Len(ks), seg, pre, 0, Len(ks))
                        /\ \A i \in 1..Len(ks) : pre[i] = i - 1
    BY Counts
  <2>2. Grant!Counted(1..Len(ks), seg, pre, 0, Len(ks))
    BY <2>1, Zenon DEF Counted, Grant!Counted
  <2> QED
    BY <1>4, <1>5, <2>1, <2>2, Grant!FoldKeeps
<1> QED
    BY <1>3, <1>6 DEF Granting

\* Claim takes back expired leases, and then grants.
LEMMA ClaimKeeps ==
    ASSUME NEW s, Books(s), NEW kinds, NEW want \in Nat, NEW req \in Nat,
           NEW c \in claimed(s, kinds, want, req)
    PROVE  \E b : Reclaimed(s, b) /\ Given(b, c, ClampLease(req))
<1>1. PICK b \in swept(s, SweepBatch) : c = grantLoop(b, kinds, want, ClampLease(req))
    BY DEF claimed, swept
<1>3. Reclaimed(s, b)
    BY SweepKeeps
<1>4. Books(b)
    BY <1>3 DEF Reclaimed
<1>5. ClampLease(req) \in Nat \ {0}
    BY LeaseLasts
<1> QED
    BY <1>1, <1>3, <1>4, <1>5, GrantLoopKeeps
-----------------------------------------------------------------------------
(***************************************************************************)
(* Other nodes, and other leases                                           *)
(***************************************************************************)

\* A node the operation was not called for: it stays, or it is finished while no
\* worker has it; or else it is finished in a worker's hands, if ended says so.
Carried(s, t, n, ended) ==
    Goes(s.phase[n], t.phase[n], ended, FALSE) /\ t.epoch[n] = s.epoch[n]

\* Who holds a lease after the step held it before, with the same deadline.
LeasesLast(s, t) ==
    \A n \in Node : t.phase[n] = "Claimed" =>
        s.phase[n] = "Claimed" /\ t.deadline[n] = s.deadline[n]

\* A step that follows the rules prolongs no lease and makes none,
LEMMA FollowsLasts ==
    ASSUME NEW s, NEW t, NEW F, NEW R, Ledger(s), Follows(s, t, F, R)
    PROVE  LeasesLast(s, t)
<1>1. s.phase \in [Node -> Phase] /\ t.phase \in [Node -> Phase]
    BY DEF Follows, Ledger
<1>2. ASSUME NEW n \in Node, t.phase[n] = "Claimed"
      PROVE  s.phase[n] = "Claimed"
    BY <1>1, <1>2 DEF Follows, Moves, Goes, CoarseState, Phase
<1> QED
    BY <1>2 DEF LeasesLast, Follows, Timed

\* and carries every node, those of F to their end;
LEMMA FollowsCarries ==
    ASSUME NEW s, NEW t, NEW F, Follows(s, t, F, {}), NEW n \in Node
    PROVE  Carried(s, t, n, TRUE)
<1>1. Goes(s.phase[n], t.phase[n], n \in F, n \in {}) /\ t.epoch[n] = s.epoch[n]
    BY DEF Follows, Moves
<1> QED
    BY <1>1 DEF Carried, Goes

\* those nobody ends stay in their worker's hands,
LEMMA FollowsSpares ==
    ASSUME NEW s, NEW t, NEW F, Follows(s, t, F, {}), NEW n \in Node, n \notin F
    PROVE  Carried(s, t, n, FALSE)
<1>1. Goes(s.phase[n], t.phase[n], n \in F, n \in {}) /\ t.epoch[n] = s.epoch[n]
    BY DEF Follows, Moves
<1> QED
    BY <1>1 DEF Carried, Goes

\* as do those nobody takes back,
LEMMA TakenSpares ==
    ASSUME NEW s, NEW t, NEW R, Follows(s, t, {}, R), NEW n \in Node, n \notin R
    PROVE  Carried(s, t, n, FALSE)
<1>1. Goes(s.phase[n], t.phase[n], n \in {}, n \in R) /\ t.epoch[n] = s.epoch[n]
    BY DEF Follows, Moves
<1> QED
    BY <1>1 DEF Carried, Goes

\* and all do in a step that only settles.
LEMMA SettledSpares ==
    ASSUME NEW s, NEW t, Settled(s, t), NEW n \in Node
    PROVE  Carried(s, t, n, FALSE)
<1>1. Goes(s.phase[n], t.phase[n], n \in {}, n \in {}) /\ t.epoch[n] = s.epoch[n]
    BY DEF Settled, Follows, Moves
<1> QED
    BY <1>1 DEF Carried, Goes

\* Leases that last, last through two steps.
LEMMA LeasesLastOn ==
    ASSUME NEW s, NEW t, NEW u, LeasesLast(s, t), LeasesLast(t, u)
    PROVE  LeasesLast(s, u)
    BY DEF LeasesLast

\* So does what carries a node.
LEMMA CarriedOn ==
    ASSUME NEW s, NEW t, NEW u, NEW n, NEW e \in BOOLEAN, Carried(s, t, n, e), Carried(t, u, n, e)
    PROVE  Carried(s, u, n, e)
    BY DEF Carried, Goes

-----------------------------------------------------------------------------
(***************************************************************************)
(* Cancellation                                                            *)
(***************************************************************************)

\* Cancel, CancelScope: the nodes in S are finished, held or not.
Cancels(s, t, S) ==
    /\ Books(t) /\ t.epoch = s.epoch /\ t.epochFloor = s.epochFloor /\ LeasesLast(s, t)
    /\ \A n \in S : CoarseState(s.phase[n]) \in {"Open", "Claimed"} /\ t.phase[n] = "Done"
    /\ \A n \in Node \ S : Carried(s, t, n, FALSE)

\* Cancelling a sequence of nodes finishes those that were not done.
LEMMA CancelAllCancels ==
    ASSUME NEW s, Books(s), NEW order \in Seq(Node)
    PROVE  \E S \in SUBSET Node : Cancels(s, cancelAll(s, order), S)
<1>1. PICK t : t = cancelAll(s, order)
    OBVIOUS
<1>2. AllEnded(s, t, order)
  <2>1. "Cancelled" \in Reason
    BY DEF Reason
  <2> QED
    BY <1>1, <2>1, TerminateAllKeeps DEF cancelAll
<1>3. Ledger(s) /\ Books(t) /\ Follows(s, t, Range(order), {})
    BY <1>2 DEF AllEnded, Books
<1>4. PICK S \in SUBSET Node :
          S = {n \in Node : n \in Range(order) /\ s.phase[n] \notin {"Absent", "Done"}}
    BY Zenon
<1>5. s.phase \in [Node -> Phase] /\ t.phase \in [Node -> Phase]
    BY <1>3, Zenon DEF Ledger, Books
<1>6. ASSUME NEW n \in S
      PROVE  CoarseState(s.phase[n]) \in {"Open", "Claimed"} /\ t.phase[n] = "Done"
  <2>1. PICK j \in DOMAIN order : order[j] = n
    BY <1>4 DEF Range
  <2>2. t.phase[n] = "Done"
    BY <1>2, <1>4, <2>1 DEF AllEnded
  <2> QED
    BY <1>4, <1>5, <2>2 DEF CoarseState, Phase
<1>7. ASSUME NEW n \in Node \ S
      PROVE  Carried(s, t, n, FALSE)
  <2>1. CASE n \notin Range(order)
    BY <1>3, <2>1, FollowsSpares, Zenon
  <2>2. CASE s.phase[n] \in {"Absent", "Done"}
    <3>1. t.phase[n] = s.phase[n]
        BY <1>3, <2>2, FollowsStays
    <3>2. t.epoch[n] = s.epoch[n]
        BY <1>3 DEF Follows
    <3> QED
        BY <3>1, <3>2 DEF Carried, Goes
  <2> QED
    BY <1>4, <2>1, <2>2, Zenon
<1>8. LeasesLast(s, t)
    BY <1>3, FollowsLasts
<1>9. t.epoch = s.epoch /\ t.epochFloor = s.epochFloor
    BY <1>3 DEF Follows
<1> QED
    BY <1>1, <1>3, <1>6, <1>7, <1>8, <1>9, Zenon DEF Cancels

\* Cancel: an identifier nobody knows only ends the batch.
LEMMA CancelledCancels ==
    ASSUME NEW s, Books(s), NEW ids \in Seq(Node)
    PROVE  \E S \in SUBSET Node : Cancels(s, cancelled(s, ids), S)
<1>1. PICK unknown : unknown = {i \in DOMAIN ids : ids[i] \notin Alive(s)}
    BY Zenon
<1>2. PICK order : order = IF unknown = {} THEN ids ELSE SubSeq(ids, 1, Min(unknown) - 1)
    BY Zenon
<1>3. cancelled(s, ids) = cancelAll(s, order)
    BY <1>1, <1>2, Zenon DEF cancelled
<1>4. order \in Seq(Node)
  <2>1. CASE unknown = {}
    BY <1>2, <2>1
  <2>2. CASE unknown # {}
    <3>1. unknown \in SUBSET Nat /\ unknown \subseteq 1..Len(ids)
        BY <1>1
    <3>2. \E m \in unknown : \A k \in unknown : m <= k
        BY <2>2, <3>1, LeastOf
    <3>3. Min(unknown) \in unknown
        BY <3>2 DEF Min
    <3>4. PICK m \in 1..Len(ids) : m = Min(unknown)
        BY <3>1, <3>3, Zenon
    <3>5. SubSeq(ids, 1, m - 1) \in Seq(Node)
        OBVIOUS
    <3> QED
        BY <1>2, <2>2, <3>4, <3>5
  <2> QED
    BY <2>1, <2>2
<1> QED
    BY <1>3, <1>4, CancelAllCancels

\* CancelScope, in whatever order the map yields the nodes.
LEMMA ScopeCancelledCancels ==
    ASSUME NEW s, Books(s), NEW t \in scopeCancelled(s)
    PROVE  \E S \in SUBSET Node : Cancels(s, t, S)
<1>1. PICK live \in SUBSET Node : live = {n \in Alive(s) : s.phase[n] # "Done"}
    BY Zenon DEF Alive
<1>2. PICK order \in orders(live) : t = cancelAll(s, order)
    BY <1>1 DEF scopeCancelled
<1>3. order \in Seq(live)
    BY <1>2, NodeFinite, FS_Subset, OrdersAreSequences
<1>4. order \in Seq(Node)
    BY <1>3
<1> QED
    BY <1>2, <1>4, CancelAllCancels

-----------------------------------------------------------------------------
(***************************************************************************)
(* Answers                                                                 *)
(***************************************************************************)

\* Complete: n is no longer held, no other lease is touched.
Answers(s, t, n) ==
    /\ Books(t) /\ t.epoch = s.epoch /\ t.epochFloor = s.epochFloor /\ LeasesLast(s, t)
    /\ CoarseState(t.phase[n]) \in {"Open", "Done"}
    /\ \A m \in Node \ {n} : Carried(s, t, m, FALSE)

\* Whatever a worker reports: success and skip finish the node, a failure may retry it.
LEMMA CompletedAnswers ==
    ASSUME NEW s, Books(s), NEW n \in Node, s.phase[n] = "Claimed",
           NEW outcome \in {"Success", "Fail", "Skip"}, NEW t \in completed(s, n, outcome)
    PROVE  Answers(s, t, n)
<1>1. Ledger(s)
    BY DEF Books
<1>2. ASSUME Ended(s, t, n)
      PROVE  Answers(s, t, n)
  <2>1. Books(t) /\ Follows(s, t, {n}, {}) /\ t.phase[n] = "Done"
    BY <1>2 DEF Ended
  <2>2. LeasesLast(s, t)
    BY <1>1, <2>1, FollowsLasts
  <2>3. \A m \in Node \ {n} : Carried(s, t, m, FALSE)
    BY <2>1, FollowsSpares, Zenon
  <2>4. t.epoch = s.epoch /\ t.epochFloor = s.epochFloor
    BY <2>1 DEF Follows
  <2> QED
    BY <2>1, <2>2, <2>3, <2>4, Zenon DEF Answers, CoarseState
<1>3. CASE outcome = "Success"
  <2>1. t = terminate(s, n, "Success", "None")
    BY <1>3 DEF completed
  <2>2. "Success" \in Status /\ "None" \in Reason
    BY DEF Status, Reason
  <2> QED
    BY <1>2, <2>1, <2>2, TerminateFromBooks
<1>4. CASE outcome = "Skip"
  <2>1. t = terminate(s, n, "Error", "Skipped")
    BY <1>4 DEF completed
  <2>2. "Error" \in Status /\ "Skipped" \in Reason
    BY DEF Status, Reason
  <2> QED
    BY <1>2, <2>1, <2>2, TerminateFromBooks
<1>5. CASE outcome = "Fail"
  <2>1. PICK d : t = failAttempt(s, n, "WorkerError", d)
    BY <1>5 DEF completed
  <2>2. "WorkerError" \in Reason
    BY DEF Reason
  <2>3. Taken(s, t, n)
    BY <2>1, <2>2, FailAttemptKeeps
  <2>4. Books(t) /\ Follows(s, t, {}, {n}) /\ t.phase[n] \in {"Scheduled", "Done"}
    BY <2>3 DEF Taken
  <2>5. LeasesLast(s, t)
    BY <1>1, <2>4, FollowsLasts
  <2>6. \A m \in Node \ {n} : Carried(s, t, m, FALSE)
    BY <2>4, TakenSpares, Zenon
  <2>7. t.epoch = s.epoch /\ t.epochFloor = s.epochFloor
    BY <2>4 DEF Follows
  <2> QED
    BY <2>4, <2>5, <2>6, <2>7, Zenon DEF Answers, CoarseState
<1> QED
    BY <1>3, <1>4, <1>5
=============================================================================
