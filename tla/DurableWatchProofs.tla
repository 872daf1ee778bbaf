-------------------------- MODULE DurableWatchProofs --------------------------
(***************************************************************************)
(* The durable streams of PostgreSQL and Redis, for any number of          *)
(* transactions, events, failing reads and resumptions, any batch size and *)
(* any window: every hole in what a subscriber received has a reason, and  *)
(* nothing is sent twice or out of order.                                  *)
(*                                                                         *)
(* HolesHaveAReason speaks of what was passed over; it is not inductive,   *)
(* because what will be passed over next is decided by the batch that was  *)
(* read some time ago.  The invariant says of that batch what the property *)
(* says of the past, and, for Redis, where the events between the position *)
(* of the pump and the end of the stream are.                              *)
(***************************************************************************)
EXTENDS DurableWatch, FiniteSetTheorems, NaturalsInduction, SequenceTheorems, TLAPS

InBatch(c) == \E i \in DOMAIN batch : batch[i] = c

\* The reasons a cursor may be missing
Excused(c) == IF backend = "postgres" THEN c \notin log \/ c \in late ELSE c \in slipped

WatchTypeOK ==
    /\ backend \in {"postgres", "redis"}
    /\ pc \in {"off", "read", "send", "empty", "wait", "backoff"}
    /\ alloc \in Nat /\ next \in Nat \ {0} /\ from \in Nat \ {0} /\ last \in Nat
    /\ log \in SUBSET (1..alloc)
    /\ batch \in Seq(Nat)
    /\ DOMAIN tx = Tx

\* A transaction's cursors are its own until it commits; a Redis stream is a window that
\* ends with the newest event.
LogInv ==
    /\ \A t \in Tx : tx[t] \subseteq 1..alloc /\ tx[t] \cap log = {}
    /\ \A s, t \in Tx : s # t => tx[s] \cap tx[t] = {}
    /\ backend = "redis" => /\ \A t \in Tx : tx[t] = {}
                            /\ \A c \in log : c..alloc \subseteq log

\* What was read goes out in order, and what it does not contain has its reason.
BatchInv ==
    /\ pc # "send" => batch = <<>>
    /\ \A i \in DOMAIN batch :
          /\ next <= batch[i] /\ batch[i] <= alloc
          /\ backend = "postgres" => batch[i] \in log
          /\ \A c \in next..batch[i] : c >= from => InBatch(c) \/ Excused(c)
          /\ \A j \in DOMAIN batch : i < j => batch[i] < batch[j]

\* An open stream goes on where the account ends.
AccountInv ==
    /\ last = 0 \/ (last <= alloc /\ (backend = "postgres" => last \in log))
    /\ pc # "off" => (last = 0 /\ next <= from) \/ next = last + 1
    /\ pc # "off" /\ backend = "redis" =>
          \A c \in from..alloc : c >= next => c \in log \/ c \in slipped \/ InBatch(c)
    /\ \A c \in from..last : c \in received \/ Excused(c)

WatchInv == WatchTypeOK /\ LogInv /\ BatchInv /\ AccountInv
-----------------------------------------------------------------------------
(***************************************************************************)
(* What a read returns                                                     *)
(***************************************************************************)

\* Every non-empty set of natural numbers has a least one.
LEMMA LeastOf ==
    ASSUME NEW T \in SUBSET Nat, T # {}
    PROVE  \E m \in T : \A k \in T : m <= k
<1>1. PICK m \in T : \A k \in T : <<k, m>> \notin OpToRel(<, Nat)
    BY WFMin, NatLessThanWellFounded, Zenon
<1>2. \A k \in T : ~ (k < m)
    BY <1>1, Zenon DEF OpToRel
<1> QED
    BY <1>2

\* The first cursor of the log.
LEMMA MinIsLeast ==
    ASSUME NEW S \in SUBSET Nat, S # {}
    PROVE  Min(S) \in S /\ \A c \in S : Min(S) <= c
BY LeastOf, Zenon DEF Min

\* The highest cursor of the log, 0 when it is empty.
LEMMA LargestIsLargest ==
    ASSUME NEW n \in Nat, NEW S \in SUBSET (1..n)
    PROVE  /\ Largest(S) \in Nat /\ Largest(S) <= n
           /\ \A c \in S : c <= Largest(S)
<1>0. \A c \in S : c \in Nat /\ 1 <= c /\ c <= n
    OBVIOUS
<1>1. CASE S = {}
    BY <1>1 DEF Largest
<1>2. CASE S # {}
    <2> DEFINE T == {m \in Nat : \A c \in S : c <= m}
    <2>1. n \in T
        OBVIOUS
    <2>2. PICK m \in T : \A k \in T : m <= k
        BY <2>1, LeastOf, Zenon
    <2>3. m \in S
        <3> SUFFICES ASSUME m \notin S PROVE FALSE
            OBVIOUS
        <3>1. m \in Nat /\ \A c \in S : c <= m - 1
            BY <1>0, <2>2
        <3>2. m - 1 \in Nat
            <4>1. PICK c \in S : TRUE
                BY <1>2, Zenon
            <4>2. 1 <= c /\ c <= m - 1 /\ c \in Nat /\ m \in Nat
                BY <1>0, <3>1
            <4> QED
                BY <4>2
        <3>3. m - 1 \in T
            BY <3>1, <3>2
        <3> QED
            BY <2>2, <3>1, <3>3
    <2>4. \E x \in S : \A y \in S : x >= y
        BY <2>2, <2>3
    <2>5. Max(S) \in S /\ \A y \in S : Max(S) >= y
        BY <2>4, Zenon DEF Max
    <2>6. Largest(S) = Max(S)
        BY <1>2, Zenon DEF Largest
    <2> HIDE DEF T
    <2> QED
        BY <1>0, <2>5, <2>6, Zenon
<1> QED
    BY <1>1, <1>2

Rank(S, c) == Cardinality({d \in S : d < c})

\* Ranks are numbers below the size of the set, and they order it.
LEMMA RankOrders ==
    ASSUME NEW S \in SUBSET Nat, IsFiniteSet(S), NEW c \in S
    PROVE  /\ Rank(S, c) \in Nat /\ Rank(S, c) < Cardinality(S)
           /\ \A d \in S : c < d => Rank(S, c) < Rank(S, d)
<1>0. \A d \in S : d \in Nat /\ ~ (d < d)
    OBVIOUS
<1>1. \A e \in S : IsFiniteSet({d \in S : d < e}) /\ Rank(S, e) \in Nat
    BY FS_Subset, FS_CardinalityType DEF Rank
<1>2. ASSUME NEW T \in SUBSET S, c \in T, \A d \in S : d < c => d \in T
      PROVE  Rank(S, c) < Cardinality(T)
    <2> DEFINE U == {d \in S : d < c}
    <2>1. IsFiniteSet(T) /\ U \subseteq T /\ c \notin U
        BY <1>0, <1>2, FS_Subset, Zenon
    <2>2. Cardinality(U) <= Cardinality(T) /\ (Cardinality(T) = Cardinality(U) => T = U)
        BY <2>1, FS_Subset
    <2>3. T # U /\ Cardinality(T) \in Nat /\ Cardinality(U) \in Nat
        BY <1>1, <1>2, <2>1, FS_CardinalityType DEF Rank
    <2> HIDE DEF U
    <2>4. Cardinality(U) < Cardinality(T)
        BY <2>2, <2>3
    <2> QED
        BY <2>4 DEF Rank, U
<1>3. Rank(S, c) < Cardinality(S)
    BY <1>2
<1>4. ASSUME NEW d \in S, c < d PROVE Rank(S, c) < Rank(S, d)
    <2> DEFINE T == {e \in S : e < d}
    <2>1. T \in SUBSET S /\ c \in T /\ \A e \in S : e < c => e \in T
        BY <1>4
    <2>2. Rank(S, c) < Cardinality(T)
        BY <1>2, <2>1
    <2> QED
        BY <2>2 DEF Rank
<1> QED
    BY <1>1, <1>3, <1>4, Zenon

\* Every number below the size of the set is somebody's rank.
LEMMA RankExists ==
    ASSUME NEW S \in SUBSET Nat, IsFiniteSet(S), NEW k \in Nat, k < Cardinality(S)
    PROVE  \E c \in S : Rank(S, c) = k
<1> DEFINE Bad == {n \in Nat : n < Cardinality(S) /\ ~ \E c \in S : Rank(S, c) = n}
<1> SUFFICES ASSUME Bad # {} PROVE FALSE
    OBVIOUS
<1>1. PICK n \in Bad : \A m \in Bad : n <= m
    BY LeastOf, Zenon
<1>0. \A c, d \in S : c \in Nat /\ (c <= d <=> ~ (d < c)) /\ (d < c \/ d = c \/ c < d)
    OBVIOUS
<1>2. Cardinality(S) \in Nat
    BY FS_CardinalityType
<1>3. CASE n = 0
    <2>1. S # {}
        BY <1>1, <1>3, FS_EmptySet
    <2>2. PICK c \in S : \A d \in S : c <= d
        BY <2>1, LeastOf
    <2>3. {d \in S : d < c} = {}
        BY <1>0, <2>2, Zenon
    <2>4. Rank(S, c) = 0
        BY <2>3, FS_EmptySet, Zenon DEF Rank
    <2> QED
        BY <1>1, <1>3, <2>4
<1>4. CASE n > 0
    <2>1. n - 1 \in Nat /\ n - 1 \notin Bad /\ n - 1 < Cardinality(S)
        BY <1>1, <1>2, <1>4
    <2>2. PICK c \in S : Rank(S, c) = n - 1
        BY <2>1
    <2> DEFINE Low == {d \in S : d < c}
               Upto == Low \cup {c}
               High == {d \in S : c < d}
    <2>3. IsFiniteSet(Low) /\ Cardinality(Low) = n - 1 /\ c \notin Low
        BY <2>2, FS_Subset DEF Rank
    <2>4. Cardinality(Upto) = n
        <3> HIDE DEF Low
        <3>1. Cardinality(Upto) = Cardinality(Low) + 1
            BY <2>3, FS_AddElement, Zenon
        <3> QED
            BY <2>3, <3>1
    <2>5. High # {}
        <3> SUFFICES ASSUME High = {} PROVE FALSE
            OBVIOUS
        <3>1. S = Upto
            BY <1>0, Zenon
        <3> QED
            BY <1>1, <1>2, <2>4, <3>1
    <2>6. PICK e \in High : \A d \in High : e <= d
        BY <2>5, LeastOf, Zenon
    <2>7. {d \in S : d < e} = Upto
        <3>1. \A d \in S : d < e <=> d < c \/ d = c
            BY <1>0, <2>6
        <3> QED
            BY <3>1, Zenon
    <2>8. Rank(S, e) = n
        BY <2>4, <2>7, Zenon DEF Rank
    <2> QED
        BY <1>1, <2>6, <2>8
<1> QED
    BY <1>1, <1>3, <1>4

\* A read returns cursors of the log in ascending order and leaves none out on the way.
LEMMA RowsAreTheFirst ==
    ASSUME NEW S \in SUBSET Nat, IsFiniteSet(S)
    PROVE  /\ rows(S) \in Seq(Nat)
           /\ \A i \in DOMAIN rows(S) :
                 /\ rows(S)[i] \in S
                 /\ \A c \in S : c <= rows(S)[i] => \E j \in DOMAIN rows(S) : rows(S)[j] = c
                 /\ \A j \in DOMAIN rows(S) : i < j => rows(S)[i] < rows(S)[j]
<1> DEFINE n == IF Cardinality(S) < BatchSize THEN Cardinality(S) ELSE BatchSize
           r == rows(S)
<1>1. Cardinality(S) \in Nat /\ n \in Nat /\ n <= Cardinality(S)
    BY FS_CardinalityType, BatchSizePositive
<1>2. DOMAIN r = 1..n
    BY DEF rows
<1>3. \A i \in 1..n : r[i] \in S /\ Rank(S, r[i]) = i - 1
    <2> SUFFICES ASSUME NEW i \in 1..n PROVE r[i] \in S /\ Rank(S, r[i]) = i - 1
        OBVIOUS
    <2>1. \E c \in S : Rank(S, c) = i - 1
        BY <1>1, RankExists
    <2>2. r[i] = CHOOSE c \in S : Rank(S, c) = i - 1
        BY Zenon DEF rows, Rank
    <2> HIDE DEF r
    <2> QED
        BY <2>1, <2>2
<1>4. r \in Seq(Nat)
    <2> DEFINE f(i) == CHOOSE c \in S : Cardinality({d \in S : d < c}) = i - 1
    <2>1. r = [i \in 1..n |-> f(i)]
        BY DEF rows
    <2>2. \A i \in 1..n : f(i) \in Nat
        BY <1>3, <2>1, Zenon
    <2> HIDE DEF n, r, f
    <2> QED
        BY <1>1, <2>1, <2>2
<1>5. \A c, d \in S : c \in Nat /\ (c <= d <=> c < d \/ c = d) /\ (d < c \/ d = c \/ c < d)
    OBVIOUS
<1> DEFINE rank == [c \in S |-> Rank(S, c)]
<1>6. rank \in [S -> Nat] /\ \A c, d \in S : c < d => rank[c] < rank[d]
    BY RankOrders
<1>7. \A i \in 1..n : r[i] \in S /\ rank[r[i]] = i - 1
    BY <1>3
<1> HIDE DEF n, r, rank
<1>8. \A c, d \in S : rank[c] <= rank[d] => c <= d
    BY <1>5, <1>6
<1>9. ASSUME NEW i \in 1..n, NEW j \in 1..n, i < j PROVE r[i] < r[j]
    <2>1. rank[r[i]] <= rank[r[j]] /\ rank[r[i]] # rank[r[j]]
        BY <1>1, <1>7, <1>9
    <2> QED
        BY <1>5, <1>7, <1>8, <2>1, Zenon
<1>10. ASSUME NEW i \in 1..n, NEW c \in S, c <= r[i] PROVE \E j \in 1..n : r[j] = c
    <2> DEFINE j == rank[c] + 1
    <2>1. rank[c] \in Nat /\ rank[c] <= i - 1
        <3>1. PICK d \in S : d = r[i] /\ rank[d] = i - 1
            BY <1>7, Zenon
        <3>2. c = d \/ c < d
            BY <1>5, <1>10, <3>1
        <3>3. rank[c] <= rank[d] /\ rank[c] \in Nat
            BY <1>6, <3>2
        <3> QED
            BY <3>1, <3>3
    <2>2. j \in 1..n /\ j - 1 = rank[c]
        BY <1>1, <2>1
    <2> HIDE DEF j
    <2>3. PICK d \in S : d = r[j] /\ rank[d] = rank[c]
        BY <1>7, <2>2, Zenon
    <2>4. rank[d] <= rank[c] /\ rank[c] <= rank[d]
        BY <2>1, <2>3
    <2>5. d <= c /\ c <= d
        BY <1>8, <2>4
    <2>6. d = c
        BY <1>5, <2>5
    <2> QED
        BY <2>2, <2>3, <2>6, Zenon
<1> QED
    BY <1>2, <1>4, <1>7, <1>9, <1>10, Zenon DEF r
-----------------------------------------------------------------------------
(***************************************************************************)
(* The invariant                                                           *)
(***************************************************************************)

\* At the start there are no events and no stream.
LEMMA WatchInitially == WatchInit => WatchInv
<1> SUFFICES ASSUME WatchInit PROVE WatchInv
    OBVIOUS
<1>1. WatchTypeOK
    BY DEF WatchInit, WatchTypeOK
<1>2. LogInv
    BY DEF WatchInit, LogInv
<1>3. BatchInv
    BY DEF WatchInit, BatchInv
<1>4. AccountInv
    BY DEF WatchInit, AccountInv
<1> QED
    BY <1>1, <1>2, <1>3, <1>4 DEF WatchInv

\* Steps of the pump that move nothing but itself, or end the stream.
LEMMA PumpTurns ==
    ASSUME WatchInv, UNCHANGED <<writerVars, slipped, next, accountVars>>,
           pc' \in {"off", "read", "empty", "wait", "backoff"}, batch' = <<>>,
           pc' # "off" => pc # "off" /\ batch = <<>>
    PROVE  WatchInv'
<1>0. UNCHANGED <<backend, alloc, tx, log, late, slipped, next, from, received, last>>
    BY DEF writerVars, accountVars
<1>1. WatchTypeOK'
    BY <1>0 DEF WatchInv, WatchTypeOK
<1>2. LogInv'
    BY <1>0 DEF WatchInv, LogInv
<1>3. BatchInv'
    BY DEF BatchInv
<1>4. AccountInv'
    BY <1>0 DEF WatchInv, AccountInv, Excused, InBatch
<1> QED
    BY <1>1, <1>2, <1>3, <1>4 DEF WatchInv

\* An insert takes the next cursor, which nobody has seen.
LEMMA InsertKeeps ==
    ASSUME WatchInv, NEW t \in Tx, Insert(t)
    PROVE  WatchInv'
<1>0. /\ backend = "postgres" /\ alloc' = alloc + 1 /\ tx' = [tx EXCEPT ![t] = @ \cup {alloc + 1}]
      /\ UNCHANGED <<backend, log, late, slipped, pc, next, batch, from, received, last>>
    BY DEF Insert, accountVars
<1>1. alloc \in Nat /\ log \in SUBSET (1..alloc)
    BY DEF WatchInv, WatchTypeOK
<1>2. alloc + 1 \notin log /\ \A n \in 1..alloc : n \in 1..(alloc + 1) /\ n # alloc + 1
    BY <1>1
<1>3. WatchTypeOK'
    BY <1>0, <1>1, <1>2 DEF WatchInv, WatchTypeOK
<1>4. LogInv'
    <2>1. \A u \in Tx : tx'[u] = IF u = t THEN tx[t] \cup {alloc + 1} ELSE tx[u]
        BY <1>0 DEF WatchInv, WatchTypeOK
    <2>2. \A u \in Tx : tx[u] \subseteq 1..alloc /\ tx[u] \cap log = {} /\ alloc + 1 \notin tx[u]
        BY <1>2 DEF WatchInv, LogInv
    <2>3. \A u \in Tx : tx'[u] \subseteq 1..(alloc + 1) /\ tx'[u] \cap log = {}
        BY <1>1, <1>2, <2>1, <2>2
    <2>4. \A u, v \in Tx : u # v => tx'[u] \cap tx'[v] = {}
        BY <2>1, <2>2 DEF WatchInv, LogInv
    <2> QED
        BY <1>0, <2>3, <2>4 DEF LogInv
<1>5. BatchInv'
    BY <1>0, <1>1 DEF WatchInv, WatchTypeOK, BatchInv, InBatch, Excused
<1>6. AccountInv'
    BY <1>0, <1>1 DEF WatchInv, WatchTypeOK, AccountInv, InBatch, Excused
<1> QED
    BY <1>3, <1>4, <1>5, <1>6 DEF WatchInv

\* A commit shows cursors above everything that was read, or late ones.
LEMMA CommitKeeps ==
    ASSUME WatchInv, NEW t \in Tx, Commit(t)
    PROVE  WatchInv'
<1>0. /\ tx[t] # {} /\ log' = log \cup tx[t]
      /\ late' = late \cup {c \in tx[t] : c < Largest(log)}
      /\ tx' = [tx EXCEPT ![t] = {}]
      /\ UNCHANGED <<backend, alloc, slipped, pc, next, batch, from, received, last>>
    BY DEF Commit, accountVars
<1>1. /\ alloc \in Nat /\ log \in SUBSET (1..alloc) /\ next \in Nat /\ from \in Nat /\ last \in Nat
      /\ \A i \in DOMAIN batch : batch[i] \in Nat
    BY DEF WatchInv, WatchTypeOK
<1>2. backend = "postgres" /\ tx[t] \subseteq 1..alloc /\ tx[t] \cap log = {}
    BY <1>0 DEF WatchInv, WatchTypeOK, LogInv
<1>3. /\ Largest(log) \in Nat /\ \A c \in log : c <= Largest(log)
      /\ \A c \in tx[t] : c \in Nat
    BY <1>1, <1>2, LargestIsLargest
<1>4. WatchTypeOK'
    BY <1>0, <1>2, Zenon DEF WatchInv, WatchTypeOK
<1>5. LogInv'
    <2>1. \A u \in Tx : tx'[u] = IF u = t THEN {} ELSE tx[u]
        BY <1>0 DEF WatchInv, WatchTypeOK
    <2> QED
        BY <1>0, <1>2, <2>1 DEF WatchInv, LogInv
<1>6. \* what had a reason keeps one, unless it is above everything read before
      \A c : Excused(c) => Excused(c)' \/ (c \in tx[t] /\ \A d \in log : d < c)
    <2> SUFFICES ASSUME NEW c, Excused(c), ~ Excused(c)'
                 PROVE  c \in tx[t] /\ \A d \in log : d < c
        OBVIOUS
    <2>1. c \in tx[t] /\ ~ (c < Largest(log)) /\ c \notin log
        BY <1>0, <1>2 DEF Excused
    <2> QED
        BY <1>1, <1>3, <2>1
<1>7. BatchInv'
    <2>1. \A i \in DOMAIN batch : batch[i] \in log
        BY <1>2 DEF WatchInv, BatchInv
    <2>2. ASSUME NEW i \in DOMAIN batch, NEW c \in next..batch[i], c >= from
          PROVE  InBatch(c) \/ Excused(c)'
        <3>1. InBatch(c) \/ Excused(c)
            BY <2>2 DEF WatchInv, BatchInv
        <3>2. ~ (batch[i] < c)
            BY <1>1
        <3> QED
            BY <1>6, <2>1, <3>1, <3>2
    <2> QED
        BY <1>0, <2>1, <2>2 DEF WatchInv, BatchInv, InBatch
<1>8. AccountInv'
    <2>1. ASSUME NEW c \in from..last PROVE c \in received \/ Excused(c)'
        <3>1. c \in received \/ Excused(c)
            BY <2>1 DEF WatchInv, AccountInv
        <3>2. ~ (last < c)
            BY <1>1
        <3>3. last = 0 \/ last \in log
            BY <1>2 DEF WatchInv, AccountInv
        <3>4. last = 0 => FALSE
            BY DEF WatchInv, WatchTypeOK
        <3> QED
            BY <1>6, <3>1, <3>2, <3>3, <3>4
    <2> QED
        BY <1>0, <1>2, <2>1 DEF WatchInv, AccountInv
<1> QED
    BY <1>4, <1>5, <1>7, <1>8 DEF WatchInv

\* A roll-back leaves a number nobody will see.
LEMMA RollbackKeeps ==
    ASSUME WatchInv, NEW t \in Tx, Rollback(t)
    PROVE  WatchInv'
<1>0. /\ tx' = [tx EXCEPT ![t] = {}]
      /\ UNCHANGED <<backend, alloc, log, late, slipped, pc, next, batch, from, received, last>>
    BY DEF Rollback, accountVars
<1>1. WatchTypeOK'
    BY <1>0 DEF WatchInv, WatchTypeOK
<1>2. LogInv'
    <2>1. \A u \in Tx : tx'[u] = IF u = t THEN {} ELSE tx[u]
        BY <1>0 DEF WatchInv, WatchTypeOK
    <2> QED
        BY <1>0, <2>1 DEF WatchInv, LogInv
<1>3. BatchInv' /\ AccountInv'
    BY <1>0 DEF WatchInv, BatchInv, AccountInv, InBatch, Excused
<1> QED
    BY <1>1, <1>2, <1>3 DEF WatchInv

\* A Redis append trims what an open stream may still want, and then it has slipped.
LEMMA RecordKeeps ==
    ASSUME WatchInv, RecordEvent
    PROVE  WatchInv'
<1> DEFINE all == log \cup {alloc + 1}
<1>0. /\ backend = "redis" /\ alloc' = alloc + 1
      /\ UNCHANGED <<backend, tx, late, pc, next, batch, from, received, last>>
    BY DEF RecordEvent, accountVars
<1>1. PICK stays \in {all, {c \in all : c > alloc + 1 - Window}} :
         /\ log' = stays
         /\ slipped' = slipped \cup
                {c \in all \ stays :
                   pc # "off" /\ c >= next /\ \A i \in DOMAIN batch : batch[i] # c}
    BY DEF RecordEvent
<1>2. /\ alloc \in Nat /\ log \in SUBSET (1..alloc) /\ next \in Nat /\ from \in Nat \ {0} /\ last \in Nat
      /\ \A i \in DOMAIN batch : batch[i] \in Nat
    BY DEF WatchInv, WatchTypeOK
<1>3. stays \subseteq all /\ all \subseteq 1..(alloc + 1)
    BY <1>1, <1>2
<1>4. \A c \in stays, d \in all : c <= d => d \in stays
    <2> SUFFICES ASSUME NEW c \in stays, NEW d \in all, c <= d PROVE d \in stays
        OBVIOUS
    <2>1. CASE stays = all
        BY <2>1
    <2>2. CASE stays = {e \in all : e > alloc + 1 - Window}
        <3>1. c > alloc + 1 - Window /\ c \in Nat /\ d \in Nat
            BY <1>3, <2>2
        <3>2. d > alloc + 1 - Window
            BY <1>2, <3>1, WindowIsNat
        <3> QED
            BY <2>2, <3>2
    <2> QED
        BY <1>1, <2>1, <2>2
<1>5. WatchTypeOK'
    BY <1>0, <1>1, <1>3 DEF WatchInv, WatchTypeOK
<1>6. LogInv'
    <2>1. \A c \in all : c..(alloc + 1) \subseteq all
        <3> SUFFICES ASSUME NEW c \in all, NEW d \in c..(alloc + 1) PROVE d \in all
            OBVIOUS
        <3>1. CASE d = alloc + 1
            BY <3>1
        <3>2. CASE d # alloc + 1
            <4>1. c \in log /\ d \in c..alloc
                BY <1>2, <3>2
            <4>2. c..alloc \subseteq log
                BY <1>0, <4>1 DEF WatchInv, LogInv
            <4> QED
                BY <4>1, <4>2
        <3> QED
            BY <3>1, <3>2
    <2>2. \A c \in stays : c..(alloc + 1) \subseteq stays
        <3> SUFFICES ASSUME NEW c \in stays, NEW d \in c..(alloc + 1) PROVE d \in stays
            OBVIOUS
        <3>1. c \in all /\ d \in all
            BY <1>3, <2>1
        <3>2. c <= d
            BY <1>2, <1>3
        <3> QED
            BY <1>4, <3>1, <3>2
    <2>3. \A u \in Tx : tx[u] = {}
        BY <1>0 DEF WatchInv, LogInv
    <2> QED
        BY <1>0, <1>1, <2>2, <2>3 DEF LogInv
<1>7. slipped \subseteq slipped' /\ \A c : (Excused(c) => Excused(c)') /\ InBatch(c)' = InBatch(c)
    BY <1>0, <1>1 DEF Excused, InBatch
<1>8. BatchInv'
    <2>1. \A i \in DOMAIN batch : batch[i] <= alloc' 
        BY <1>0, <1>2 DEF WatchInv, BatchInv
    <2> QED
        BY <1>0, <1>7, <2>1 DEF WatchInv, BatchInv
<1>9. AccountInv'
    <2>1. ASSUME pc # "off", NEW c \in from..(alloc + 1), c >= next
          PROVE  c \in log' \/ c \in slipped' \/ InBatch(c)
        <3>1. c \in all \/ c \in slipped \/ InBatch(c)
            <4>1. CASE c = alloc + 1
                BY <4>1
            <4>2. CASE c # alloc + 1
                <5>1. c \in from..alloc
                    BY <1>2, <4>2
                <5> QED
                    BY <1>0, <2>1, <5>1 DEF WatchInv, AccountInv
            <4> QED
                BY <4>1, <4>2
        <3> QED
            BY <1>1, <2>1, <3>1 DEF InBatch
    <2>2. last = 0 \/ last <= alloc + 1
        BY <1>2 DEF WatchInv, AccountInv
    <2> QED
        BY <1>0, <1>7, <2>1, <2>2 DEF WatchInv, AccountInv
<1> QED
    BY <1>5, <1>6, <1>8, <1>9 DEF WatchInv

\* ErrCursorExpired: a new account, with nothing in it.
LEMMA RefusedKeeps ==
    ASSUME WatchInv, Refused
    PROVE  WatchInv'
<1>0. /\ last' = 0 /\ from' = alloc + 1 /\ pc = "off"
      /\ UNCHANGED <<backend, alloc, tx, log, late, slipped, pc, next, batch>>
    BY DEF Refused, writerVars
<1>1. WatchTypeOK' /\ LogInv'
    BY <1>0 DEF WatchInv, WatchTypeOK, LogInv
<1>2. BatchInv'
    BY <1>0 DEF WatchInv, BatchInv
<1>3. AccountInv'
    <2>1. alloc \in Nat /\ \A c \in from'..last' : FALSE
        BY <1>0 DEF WatchInv, WatchTypeOK
    <2> QED
        BY <1>0, <2>1 DEF AccountInv
<1> QED
    BY <1>1, <1>2, <1>3 DEF WatchInv

\* Opening a stream at position n of an account that begins at f: fine as long as n goes on
\* where the account ends, and Redis still has everything from there.
LEMMA OpenKeeps ==
    ASSUME WatchInv, NEW n \in Nat \ {0}, NEW f \in Nat \ {0}, open(n), UNCHANGED writerVars,
           from' = f, last' = last,
           \/ last = 0 /\ n <= f
           \/ n = last + 1 /\ f = from /\ received' = received,
           backend = "redis" => \A c \in f..alloc : c >= n => c \in log
    PROVE  WatchInv'
<1>0. /\ pc' = "read" /\ next' = n /\ batch' = <<>> /\ slipped' = slipped
      /\ UNCHANGED <<backend, alloc, tx, log, late>>
    BY DEF open, writerVars
<1>1. WatchTypeOK' /\ LogInv'
    BY <1>0 DEF WatchInv, WatchTypeOK, LogInv
<1>2. BatchInv'
    BY <1>0 DEF BatchInv
<1>3. \A c \in from'..last' : c \in received' \/ Excused(c)'
    <2>1. CASE last = 0
        BY <2>1
    <2>2. CASE n = last + 1 /\ f = from /\ received' = received
        BY <1>0, <2>2 DEF WatchInv, AccountInv, Excused
    <2> QED
        BY <2>1, <2>2
<1>4. AccountInv'
    BY <1>0, <1>3 DEF WatchInv, AccountInv
<1> QED
    BY <1>1, <1>2, <1>4 DEF WatchInv

\* In a Redis stream nothing is missing from its first event on.
LEMMA WindowIsWhole ==
    ASSUME WatchInv, backend = "redis"
    PROVE  /\ log # {} => Min(log) \in 1..alloc /\ \A c \in Min(log)..alloc : c \in log
           /\ alloc \in Nat /\ last \in Nat /\ from \in Nat \ {0}
<1>1. log \in SUBSET Nat /\ log \in SUBSET (1..alloc) /\ alloc \in Nat /\ last \in Nat /\ from \in Nat \ {0}
    BY DEF WatchInv, WatchTypeOK
<1>2. log # {} => Min(log) \in log
    BY <1>1, MinIsLeast
<1> QED
    BY <1>1, <1>2 DEF WatchInv, LogInv

\* A resumption that is not refused finds everything after its cursor.
LEMMA ResumeKeeps ==
    ASSUME WatchInv, Resume
    PROVE  WatchInv'
<1>1. last + 1 \in Nat \ {0} /\ from \in Nat \ {0} /\ last \in Nat
    BY DEF WatchInv, WatchTypeOK
<1>2. ASSUME backend = "redis", NEW c \in from..alloc, c >= last + 1 PROVE c \in log
    <2>1. ~ (IF log # {} THEN Min(log) > last + 1 ELSE alloc > last)
        BY <1>2 DEF Resume, expired
    <2>2. c \in Nat /\ c <= alloc /\ alloc \in Nat
        BY <1>2, WindowIsWhole
    <2>3. log # {}
        BY <1>1, <1>2, <2>1, <2>2
    <2>4. Min(log) \in Nat /\ Min(log) <= last + 1 /\ \A d \in Min(log)..alloc : d \in log
        BY <1>1, <1>2, <2>1, <2>3, WindowIsWhole
    <2>5. c \in Min(log)..alloc
        BY <1>1, <1>2, <2>2, <2>4
    <2> QED
        BY <2>4, <2>5
<1> QED
    BY <1>1, <1>2, OpenKeeps DEF Resume, accountVars

\* From the oldest event.
LEMMA ReplayKeeps ==
    ASSUME WatchInv, Replay
    PROVE  WatchInv'
<1> DEFINE f == IF log = {} THEN alloc + 1 ELSE Min(log)
<1>0. last = 0 /\ last' = 0 /\ open(1) /\ from' = f /\ UNCHANGED writerVars
    BY DEF Replay
<1>1. log \in SUBSET (1..alloc) /\ alloc \in Nat /\ log \in SUBSET Nat
    BY DEF WatchInv, WatchTypeOK
<1>2. f \in Nat \ {0}
    <2>1. log # {} => Min(log) \in log
        BY <1>1, MinIsLeast
    <2>2. \A c \in log : c \in Nat \ {0}
        BY <1>1
    <2>3. alloc + 1 \in Nat \ {0}
        BY <1>1
    <2> QED
        BY <2>1, <2>2, <2>3
<1>3. ASSUME backend = "redis", NEW c \in f..alloc PROVE c \in log
    BY <1>1, <1>3, WindowIsWhole
<1> HIDE DEF f
<1>4. 1 <= f
    BY <1>2
<1> QED
    BY <1>0, <1>2, <1>3, <1>4, OpenKeeps

\* From the newest: there is nothing in Redis after the counter.
LEMMA NewestKeeps ==
    ASSUME WatchInv, Newest
    PROVE  WatchInv'
<1> DEFINE n == IF backend = "postgres" THEN Largest(log) + 1 ELSE alloc + 1
<1>0. last = 0 /\ last' = 0 /\ open(n) /\ from' = n /\ UNCHANGED writerVars
    BY DEF Newest
<1>1. log \in SUBSET (1..alloc) /\ alloc \in Nat
    BY DEF WatchInv, WatchTypeOK
<1>2. Largest(log) \in Nat
    BY <1>1, LargestIsLargest
<1>3. n \in Nat \ {0} /\ n <= n
    BY <1>1, <1>2
<1>4. ASSUME backend = "redis", NEW c \in n..alloc PROVE c \in log
    BY <1>1, <1>4
<1> HIDE DEF n
<1> QED
    BY <1>0, <1>3, <1>4, OpenKeeps

\* A read takes the first rows the pump still wants.
LEMMA ReadKeeps ==
    ASSUME WatchInv, Read
    PROVE  WatchInv'
<1>0. /\ pc = "read" /\ batch' = rows(wanted)
      /\ pc' = IF wanted # {} THEN "send" ELSE "empty"
      /\ UNCHANGED <<backend, alloc, tx, log, late, slipped, next, from, received, last>>
    BY DEF Read, writerVars, accountVars
<1>1. /\ alloc \in Nat /\ log \in SUBSET (1..alloc) /\ next \in Nat \ {0} /\ from \in Nat \ {0}
      /\ batch = <<>>
    BY <1>0 DEF WatchInv, WatchTypeOK, BatchInv
<1>2. /\ wanted \in SUBSET Nat /\ IsFiniteSet(wanted)
      /\ \A c \in wanted : c \in log /\ c \in Nat /\ c <= alloc /\ next <= c
    <2>0. \A c \in log : c \in 1..alloc /\ c \in Nat
        BY <1>1
    <2>1. wanted \in SUBSET (1..alloc) /\ wanted \in SUBSET Nat
        BY <2>0, Zenon DEF wanted
    <2>2. IsFiniteSet(1..alloc)
        BY <1>1, FS_Interval
    <2>3. IsFiniteSet(wanted)
        BY <2>1, <2>2, FS_Subset, Zenon
    <2> QED
        BY <1>1, <2>1, <2>3 DEF wanted
<1>3. /\ batch' \in Seq(Nat)
      /\ \A i \in DOMAIN batch' :
            /\ batch'[i] \in wanted
            /\ \A c \in wanted : c <= batch'[i] => \E j \in DOMAIN batch' : batch'[j] = c
            /\ \A j \in DOMAIN batch' : i < j => batch'[i] < batch'[j]
    BY <1>0, <1>2, RowsAreTheFirst
<1>4. wanted = {} => batch' = <<>>
    <2> SUFFICES ASSUME wanted = {} PROVE batch' = <<>>
        OBVIOUS
    <2>1. DOMAIN batch' = {}
        BY <1>3, Zenon
    <2> QED
        BY <1>3, <2>1
<1>5. WatchTypeOK' /\ LogInv'
    BY <1>0, <1>3 DEF WatchInv, WatchTypeOK, LogInv
<1>6. ASSUME NEW i \in DOMAIN batch', NEW c \in next..batch'[i], c >= from
      PROVE  InBatch(c)' \/ Excused(c)'
    <2>0. batch'[i] \in wanted /\ batch'[i] \in Nat /\ batch'[i] <= alloc
        BY <1>2, <1>3
    <2>1. c \in Nat /\ c <= batch'[i] /\ c >= next /\ c <= alloc /\ c \in from..alloc
        BY <1>1, <1>6, <2>0
    <2>2. CASE c \in log
        <3>1. c \in wanted
            BY <2>1, <2>2 DEF wanted
        <3> QED
            BY <1>3, <2>1, <3>1 DEF InBatch
    <2>3. CASE c \notin log
        <3>1. CASE backend = "postgres"
            BY <1>0, <2>3, <3>1 DEF Excused
        <3>2. CASE backend # "postgres"
            <4>1. backend = "redis"
                BY <3>2 DEF WatchInv, WatchTypeOK
            <4>2. c \in slipped
                BY <1>0, <1>1, <2>1, <2>3, <4>1 DEF WatchInv, AccountInv, InBatch
            <4> QED
                BY <1>0, <3>2, <4>2 DEF Excused
        <3> QED
            BY <3>1, <3>2
    <2> QED
        BY <2>2, <2>3
<1>7. BatchInv'
    <2>1. pc' # "send" => batch' = <<>>
        BY <1>0, <1>4
    <2>2. \A i \in DOMAIN batch' : next <= batch'[i] /\ batch'[i] <= alloc /\ batch'[i] \in log
        BY <1>2, <1>3
    <2> QED
        BY <1>0, <1>3, <1>6, <2>1, <2>2 DEF BatchInv
<1>8. AccountInv'
    BY <1>0, <1>1 DEF WatchInv, AccountInv, Excused, InBatch
<1> QED
    BY <1>5, <1>7, <1>8 DEF WatchInv

\* The first row and the rest, row by row.
LEMMA FirstAndRest ==
    ASSUME NEW s \in Seq(Nat), s # <<>>
    PROVE  /\ Head(s) = s[1] /\ 1 \in DOMAIN s /\ Head(s) \in Nat /\ Tail(s) \in Seq(Nat)
           /\ \A i \in DOMAIN Tail(s) : i + 1 \in DOMAIN s /\ Tail(s)[i] = s[i + 1] /\ 1 < i + 1
           /\ \A j \in DOMAIN s : j # 1 => j - 1 \in DOMAIN Tail(s) /\ Tail(s)[j - 1] = s[j]
<1>1. /\ Head(s) \in Nat /\ Tail(s) \in Seq(Nat) /\ Len(Tail(s)) = Len(s) - 1
      /\ \A i \in 1 .. Len(Tail(s)) : Tail(s)[i] = s[i + 1]
    BY HeadTailProperties
<1>2. /\ Len(s) \in Nat /\ DOMAIN s = 1..Len(s) /\ DOMAIN Tail(s) = 1..(Len(s) - 1)
      /\ Len(s) > 0
    BY <1>1, EmptySeq
<1>3. Head(s) = s[1]
    OBVIOUS
<1>4. \A i \in DOMAIN Tail(s) : i + 1 \in DOMAIN s /\ Tail(s)[i] = s[i + 1] /\ 1 < i + 1
    BY <1>1, <1>2
<1>5. ASSUME NEW j \in DOMAIN s, j # 1
      PROVE  j - 1 \in DOMAIN Tail(s) /\ Tail(s)[j - 1] = s[j]
    <2>1. j - 1 \in 1..(Len(s) - 1) /\ (j - 1) + 1 = j
        BY <1>2, <1>5
    <2> QED
        BY <1>2, <1>4, <2>1
<1> QED
    BY <1>1, <1>2, <1>3, <1>4, <1>5

\* Sending the first row moves the position and the account on together.
LEMMA DeliverKeeps ==
    ASSUME WatchInv, Deliver
    PROVE  WatchInv'
<1>0. pc = "send" /\ UNCHANGED <<backend, alloc, tx, log, late, slipped, from>>
    BY DEF Deliver, writerVars
<1>1. CASE batch = <<>>
    <2>1. pc' = "read" /\ UNCHANGED <<batch, next, received, last>>
        BY <1>1 DEF Deliver
    <2> QED
        BY <1>0, <1>1, <2>1, PumpTurns DEF writerVars, accountVars
<1>2. CASE batch # <<>>
    <2> DEFINE h == Head(batch)
    <2>1. /\ received' = received \cup {h} /\ last' = h
          /\ next' = h + 1 /\ batch' = Tail(batch) /\ pc' = pc
        BY <1>2 DEF Deliver
    <2>2. /\ alloc \in Nat /\ next \in Nat \ {0} /\ from \in Nat \ {0} /\ last \in Nat
          /\ batch \in Seq(Nat)
        BY DEF WatchInv, WatchTypeOK
    <2>3. /\ h = batch[1] /\ 1 \in DOMAIN batch /\ h \in Nat /\ batch' \in Seq(Nat)
          /\ \A i \in DOMAIN batch' : i + 1 \in DOMAIN batch /\ batch'[i] = batch[i + 1] /\ 1 < i + 1
          /\ \A j \in DOMAIN batch : j # 1 => j - 1 \in DOMAIN batch' /\ batch'[j - 1] = batch[j]
        BY <1>2, <2>1, <2>2, FirstAndRest
    <2>4. /\ next <= h /\ h <= alloc /\ (backend = "postgres" => h \in log)
          /\ \A c \in next..h : c >= from => InBatch(c) \/ Excused(c)
          /\ \A j \in DOMAIN batch : 1 < j => h < batch[j]
        BY <2>3 DEF WatchInv, BatchInv
    <2>5. \A c : InBatch(c) => c = h \/ (InBatch(c)' /\ h < c)
        <3> SUFFICES ASSUME NEW c, NEW j \in DOMAIN batch, batch[j] = c, c # h
                     PROVE  InBatch(c)' /\ h < c
            BY DEF InBatch
        <3>1. j # 1 /\ j \in Nat /\ j > 0
            BY <2>2, <2>3
        <3> QED
            BY <2>3, <2>4, <3>1 DEF InBatch
    <2>6. \A c : Excused(c)' <=> Excused(c)
        BY <1>0 DEF Excused
    <2> HIDE DEF h
    <2>7. WatchTypeOK' /\ LogInv'
        BY <1>0, <2>1, <2>2, <2>3 DEF WatchInv, WatchTypeOK, LogInv
    <2>8. BatchInv'
        <3>1. ASSUME NEW i \in DOMAIN batch'
              PROVE  /\ next' <= batch'[i] /\ batch'[i] <= alloc
                     /\ backend = "postgres" => batch'[i] \in log
                     /\ \A c \in next'..batch'[i] : c >= from => InBatch(c)' \/ Excused(c)'
                     /\ \A j \in DOMAIN batch' : i < j => batch'[i] < batch'[j]
            <4>1. i + 1 \in DOMAIN batch /\ batch'[i] = batch[i + 1] /\ 1 < i + 1 /\ i \in Nat
                BY <2>3
            <4>2. /\ batch[i + 1] <= alloc /\ (backend = "postgres" => batch[i + 1] \in log)
                  /\ \A c \in next..batch[i + 1] : c >= from => InBatch(c) \/ Excused(c)
                  /\ \A j \in DOMAIN batch : i + 1 < j => batch[i + 1] < batch[j]
                BY <4>1 DEF WatchInv, BatchInv
            <4>3. h < batch[i + 1] /\ batch[i + 1] \in Nat
                BY <2>2, <2>4, <4>1
            <4>4. ASSUME NEW c \in next'..batch'[i], c >= from PROVE InBatch(c)' \/ Excused(c)'
                <5>1. c \in next..batch[i + 1] /\ c # h
                    BY <2>1, <2>2, <2>3, <2>4, <4>1, <4>3
                <5> QED
                    BY <2>5, <2>6, <4>2, <4>4, <5>1
            <4>5. ASSUME NEW j \in DOMAIN batch', i < j PROVE batch'[i] < batch'[j]
                <5>1. j + 1 \in DOMAIN batch /\ batch'[j] = batch[j + 1] /\ i + 1 < j + 1
                    BY <2>3, <4>1, <4>5
                <5> QED
                    BY <4>1, <4>2, <5>1
            <4>6. next' <= batch'[i]
                BY <2>1, <2>3, <4>1, <4>3
            <4> QED
                BY <4>1, <4>2, <4>4, <4>5, <4>6
        <3> QED
            BY <1>0, <2>1, <3>1 DEF BatchInv
    <2>9. AccountInv'
        <3>1. ASSUME NEW c \in from..h PROVE c \in received' \/ Excused(c)'
            <4>1. c \in Nat /\ c <= h /\ c >= from
                BY <2>2, <2>3
            <4>2. CASE c <= last
                <5>1. c \in from..last
                    BY <2>2, <4>1, <4>2
                <5> QED
                    BY <2>1, <2>6, <5>1 DEF WatchInv, AccountInv
            <4>3. CASE ~ (c <= last)
                <5>1. c >= next
                    BY <1>0, <2>2, <4>1, <4>3 DEF WatchInv, AccountInv
                <5>2. InBatch(c) \/ Excused(c)
                    BY <2>2, <2>3, <2>4, <4>1, <5>1
                <5>3. InBatch(c) => c = h
                    BY <2>3, <2>5, <4>1
                <5> QED
                    BY <2>1, <2>6, <5>2, <5>3
            <4> QED
                BY <4>2, <4>3
        <3>2. ASSUME backend = "redis", NEW c \in from..alloc, c >= next'
              PROVE  c \in log \/ c \in slipped \/ InBatch(c)'
            <4>1. c >= next /\ c # h
                BY <2>1, <2>2, <2>3, <2>4, <3>2
            <4>2. c \in log \/ c \in slipped \/ InBatch(c)
                BY <1>0, <3>2, <4>1 DEF WatchInv, AccountInv
            <4> QED
                BY <2>5, <4>1, <4>2
        <3> QED
            BY <1>0, <2>1, <2>4, <3>1, <3>2 DEF AccountInv
    <2> QED
        BY <2>7, <2>8, <2>9 DEF WatchInv
<1> QED
    BY <1>1, <1>2

\* Every step keeps the invariant.
LEMMA WatchStep == WatchInv /\ [WatchNext]_watchVars => WatchInv'
<1> SUFFICES ASSUME WatchInv, [WatchNext]_watchVars PROVE WatchInv'
    OBVIOUS
<1>1. ASSUME NEW t \in Tx, Insert(t) \/ Commit(t) \/ Rollback(t) PROVE WatchInv'
    BY <1>1, InsertKeeps, CommitKeeps, RollbackKeeps
<1>2. CASE RecordEvent
    BY <1>2, RecordKeeps
<1>3. CASE Resume \/ Refused \/ Replay \/ Newest
    BY <1>3, ResumeKeeps, RefusedKeeps, ReplayKeeps, NewestKeeps
<1>4. CASE Read \/ Deliver
    BY <1>4, ReadKeeps, DeliverKeeps
<1>5. CASE WaitChan \/ Woken \/ Poll \/ ReadFails
    <2>1. pc # "off" /\ pc # "send" /\ batch' = batch /\ pc' \in {"off", "read", "wait", "backoff"}
        BY <1>5 DEF WaitChan, Woken, Poll, ReadFails
    <2>2. batch = <<>>
        BY <2>1 DEF WatchInv, BatchInv
    <2>3. UNCHANGED <<writerVars, slipped, next, accountVars>>
        BY <1>5 DEF WaitChan, Woken, Poll, ReadFails
    <2> QED
        BY <2>1, <2>2, <2>3, PumpTurns
<1>6. CASE Cancel
    BY <1>6, PumpTurns DEF Cancel
<1>7. CASE UNCHANGED watchVars
    <2>1. UNCHANGED <<backend, alloc, tx, log, late, slipped, pc, next, batch, from, received, last>>
        BY <1>7 DEF watchVars
    <2>2. WatchTypeOK' /\ LogInv'
        BY <2>1 DEF WatchInv, WatchTypeOK, LogInv
    <2>3. BatchInv' /\ AccountInv'
        BY <2>1 DEF WatchInv, BatchInv, AccountInv, InBatch, Excused
    <2> QED
        BY <2>2, <2>3 DEF WatchInv
<1> QED
    BY <1>1, <1>2, <1>3, <1>4, <1>5, <1>6, <1>7 DEF WatchNext, Pump

\* WatchInv holds in every reachable state.
LEMMA WatchInvariant == WatchSpec => []WatchInv
    BY WatchInitially, WatchStep, PTL DEF WatchSpec

\* However writers commit, roll back and trim, and however often reads fail and the
\* subscriber cancels and resumes: what it missed never happened, has not committed,
\* committed after a higher cursor, or was trimmed under its open stream
\* (storage/postgres/watch.go pump, storage/redis/watch.go watchStartID, pumpEvents).
THEOREM EveryHoleHasAReason == WatchSpec => []HolesHaveAReason
<1>1. WatchInv => HolesHaveAReason
    BY DEF WatchInv, AccountInv, HolesHaveAReason, missed, Excused
<1> QED
    BY <1>1, WatchInvariant, PTL

\* No stream repeats an event or sends one out of order, across resumptions too (the
\* pumps ask for rows after the cursor they sent last).
THEOREM NothingIsSentTwice == WatchSpec => DeliversInOrder
<1>1. ASSUME WatchInv, pc = "send", batch # <<>>
      PROVE  Head(batch) > last
    <2>1. /\ next \in Nat \ {0} /\ last \in Nat /\ from \in Nat \ {0} /\ batch \in Seq(Nat)
          /\ (last = 0 /\ next <= from) \/ next = last + 1
        BY <1>1 DEF WatchInv, WatchTypeOK, AccountInv
    <2>2. 1 \in DOMAIN batch /\ Head(batch) = batch[1] /\ Head(batch) \in Nat
        BY <1>1, <2>1, FirstAndRest
    <2>3. next <= batch[1]
        BY <1>1, <2>2 DEF WatchInv, BatchInv
    <2> QED
        BY <2>1, <2>2, <2>3
<1>2. WatchInv /\ [WatchNext]_watchVars =>
        [pc = "send" /\ batch # <<>> /\ pc' = pc /\ batch' # batch => Head(batch) > last]_watchVars
    BY <1>1
<1> QED
    BY <1>2, WatchInvariant, PTL DEF WatchSpec, DeliversInOrder
=============================================================================
