----------------------------- MODULE CoreProofs -----------------------------
(***************************************************************************)
(* Five components that stand alone: the topological order, the daemon's   *)
(* shutdown, the dependency counters of a node, the lease protocol, and    *)
(* the packed score of the Redis backend.                                  *)
(***************************************************************************)
EXTENDS LeaseProtocol, DependencyTally, TopoOrder, ReadyScore, Daemon, FiniteSetTheorems,
        WellFoundedInduction, TLAPS

-----------------------------------------------------------------------------
(***************************************************************************)
(* Pearce and Kelly's order, as topo.go keeps it, is right for every graph *)
(* and every sequence of insertions, refusals and removals: TopoOrder's    *)
(* OrderIsSound is proved for any set of identifiers and any bound.        *)
(*                                                                         *)
(* The argument has three parts.  What a search finds is the least closed  *)
(* set around its start, so it is bounded by any closed set one can name.  *)
(* The k-th smallest number of a bounded set exists and grows with k.      *)
(* reorder therefore moves no node of deltaB up and no node of deltaF      *)
(* down, and keeps every rank it hands out between those of the new edge's *)
(* ends; what the searches did not visit lies beyond them.                 *)
(***************************************************************************)

-----------------------------------------------------------------------------
(***************************************************************************)
(* Least closed sets                                                       *)
(***************************************************************************)

\* What a search starts from is in its region.
LEMMA ReachHoldsStart ==
    ASSUME NEW N, NEW R, NEW x \in N
    PROVE  x \in Reach(N, R, x)
BY DEF Reach

\* A search follows every edge out of its region.
LEMMA ReachIsClosed ==
    ASSUME NEW N, NEW R, NEW x \in N, NEW e \in R,
           e[2] \in N, e[1] \in Reach(N, R, x)
    PROVE  e[2] \in Reach(N, R, x)
BY DEF Reach

\* A search stays inside every set that holds its start and that no edge leaves.
LEMMA ReachIsLeast ==
    ASSUME NEW N, NEW R, NEW x, NEW S \in SUBSET N, x \in S,
           \A e \in R : e[1] \in S => e[2] \in S
    PROVE  Reach(N, R, x) \subseteq S
BY DEF Reach

-----------------------------------------------------------------------------
(***************************************************************************)
(* The k-th smallest number of a set                                       *)
(***************************************************************************)

\* Every non-empty set of natural numbers has a least one.
LEMMA LeastOfNats ==
    ASSUME NEW T \in SUBSET Nat, T # {}
    PROVE  \E m \in T : \A k \in T : m <= k
<1>1. PICK m \in T : \A k \in T : <<k, m>> \notin OpToRel(<, Nat)
    BY WFMin, NatLessThanWellFounded, Zenon
<1>2. \A k \in T : ~ (k < m)
    BY <1>1, Zenon DEF OpToRel
<1> QED
    BY <1>2

Below(P, v) == {u \in P : u <= v}

\* The numbers of a set of naturals up to a bound are finitely many, and one step of the
\* bound adds at most one.
LEMMA BelowGrowsByOne ==
    ASSUME NEW P \in SUBSET Nat, NEW v \in Nat
    PROVE  /\ IsFiniteSet(Below(P, v))
           /\ Cardinality(Below(P, v)) \in Nat
           /\ v > 0 /\ v \notin P => Below(P, v) = Below(P, v - 1)
           /\ v > 0 /\ v \in P =>
                 Cardinality(Below(P, v)) = Cardinality(Below(P, v - 1)) + 1
<1>1. \A w \in Nat : IsFiniteSet(Below(P, w)) /\ Cardinality(Below(P, w)) \in Nat
    <2> SUFFICES ASSUME NEW w \in Nat
                 PROVE  IsFiniteSet(Below(P, w)) /\ Cardinality(Below(P, w)) \in Nat
        OBVIOUS
    <2>1. Below(P, w) \in SUBSET Nat /\ \A s \in Below(P, w) : s <= w
        BY Zenon DEF Below
    <2>2. IsFiniteSet(Below(P, w))
        BY <2>1, FS_BoundedSetOfNaturals, Zenon
    <2> QED
        BY <2>2, FS_CardinalityType
<1>0. \A u \in P : v > 0 => (u <= v <=> u <= v - 1 \/ u = v) /\ (v <= v - 1 <=> FALSE)
    OBVIOUS
<1>2. v > 0 /\ v \notin P => Below(P, v) = Below(P, v - 1)
    BY <1>0, Zenon DEF Below
<1>3. ASSUME v > 0, v \in P
      PROVE  Cardinality(Below(P, v)) = Cardinality(Below(P, v - 1)) + 1
    <2>1. Below(P, v) = Below(P, v - 1) \cup {v} /\ v \notin Below(P, v - 1)
        BY <1>0, <1>3, Zenon DEF Below
    <2>2. IsFiniteSet(Below(P, v - 1))
        BY <1>1, <1>3
    <2> QED
        BY <2>1, <2>2, FS_AddElement
<1> QED
    BY <1>1, <1>2, <1>3

\* KthSmallest(P, k) is a member of P with k members up to it, for every k there is.
LEMMA KthSmallestIsKth ==
    ASSUME NEW P \in SUBSET Nat, NEW b \in Nat, \A u \in P : u <= b,
           NEW k \in 1..Cardinality(P)
    PROVE  /\ KthSmallest(P, k) \in P
           /\ Cardinality(Below(P, KthSmallest(P, k))) = k
<1> DEFINE count(v) == Cardinality(Below(P, v))
           T == {v \in Nat : count(v) >= k}
<1>0. \A v \in Nat : count(v) \in Nat
    BY BelowGrowsByOne
<1>1. b \in T
    <2>1. Below(P, b) = P
        BY Zenon DEF Below
    <2>2. count(b) = Cardinality(P)
        BY <2>1
    <2> QED
        BY <2>2, <1>0
<1>2. PICK v \in T : \A w \in T : v <= w
    BY <1>1, LeastOfNats, Zenon
<1>3. count(v) >= k /\ v \in Nat /\ count(v) \in Nat
    BY <1>0, <1>2
<1>4. v \in P /\ count(v) = k
    <2>1. CASE v = 0
        <3>0. \A u \in P : u <= 0 <=> u = 0
            OBVIOUS
        <3>1. /\ 0 \in P => Below(P, 0) = {0}
              /\ 0 \notin P => Below(P, 0) = {}
            BY <3>0, Zenon DEF Below
        <3>2. Cardinality({0}) = 1 /\ Cardinality({}) = 0
            BY FS_Singleton, FS_EmptySet, Zenon
        <3>3. /\ 0 \in P => count(0) = 1
              /\ 0 \notin P => count(0) = 0
            BY <3>1, <3>2, Zenon
        <3> HIDE DEF count
        <3> QED
            BY <1>3, <2>1, <3>3
    <2>2. CASE v > 0
        <3>1. v - 1 \in Nat /\ ~ (count(v - 1) >= k)
            BY <1>2, <1>3, <2>2
        <3>2. v \notin P => count(v) = count(v - 1)
            BY <1>3, <2>2, BelowGrowsByOne
        <3>3. v \in P => count(v) = count(v - 1) + 1
            BY <1>3, <2>2, BelowGrowsByOne
        <3>4. count(v - 1) \in Nat
            BY <1>0, <3>1
        <3> HIDE DEF count
        <3> QED
            BY <1>3, <3>1, <3>2, <3>3, <3>4
    <2> QED
        BY <1>3, <2>1, <2>2
<1>5. \E w \in P : Cardinality({u \in P : u <= w}) = k
    BY <1>4, Zenon DEF Below
<1> QED
    BY <1>5, Zenon DEF KthSmallest, Below

\* A larger k stands for a larger number.
LEMMA KthSmallestGrows ==
    ASSUME NEW P \in SUBSET Nat, NEW b \in Nat, \A u \in P : u <= b,
           NEW j \in 1..Cardinality(P), NEW k \in 1..Cardinality(P), j < k
    PROVE  KthSmallest(P, j) < KthSmallest(P, k)
<1> DEFINE v == KthSmallest(P, j)
           w == KthSmallest(P, k)
<1>1. v \in P /\ Cardinality(Below(P, v)) = j /\ v \in Nat
    BY KthSmallestIsKth, Zenon
<1>2. w \in P /\ Cardinality(Below(P, w)) = k /\ w \in Nat
    BY KthSmallestIsKth, Zenon
<1> HIDE DEF v, w
<1>3. ASSUME w <= v PROVE FALSE
    <2>0. \A u \in P : u <= w => u <= v
        BY <1>1, <1>2, <1>3
    <2>1. Below(P, w) \in SUBSET Below(P, v)
        BY <2>0, Zenon DEF Below
    <2>2. IsFiniteSet(Below(P, v))
        BY <1>1, BelowGrowsByOne
    <2>3. Cardinality(Below(P, w)) <= Cardinality(Below(P, v))
        BY <2>1, <2>2, FS_Subset
    <2> QED
        BY <1>1, <1>2, <2>3
<1>4. v < w
    BY <1>1, <1>2, <1>3
<1> QED
    BY <1>4 DEF v, w

-----------------------------------------------------------------------------
(***************************************************************************)
(* Ranked graphs                                                           *)
(***************************************************************************)

\* What addEdgeOrder is given: a finite graph whose edges go up in rank, and whose ranks
\* are distinct.
Ranked(N, E, r) ==
    /\ IsFiniteSet(N)
    /\ E \subseteq N \X N
    /\ r = [n \in DOMAIN r |-> r[n]] /\ N \subseteq DOMAIN r
    /\ \A n \in N : r[n] \in Nat
    /\ \A e \in E : r[e[1]] < r[e[2]]
    /\ \A m, n \in N : r[m] = r[n] => m = n

RanksOf(r, S) == {r[n] : n \in S}

\* The ranks of a set of nodes are as many as the nodes.
LEMMA RanksAreAsMany ==
    ASSUME NEW N, NEW E, NEW r, Ranked(N, E, r), NEW S \in SUBSET N
    PROVE  /\ IsFiniteSet(S)
           /\ IsFiniteSet(RanksOf(r, S))
           /\ Cardinality(S) \in Nat
           /\ Cardinality(RanksOf(r, S)) = Cardinality(S)
<1> DEFINE T == {r[n] : n \in S}
           f == [n \in S |-> r[n]]
<1>1. IsFiniteSet(S) /\ Cardinality(S) \in Nat
    BY FS_Subset, FS_CardinalityType DEF Ranked
<1>2. f \in Surjection(S, T) /\ f \in Injection(S, T)
    BY DEF Ranked, Surjection, Injection, IsInjective
<1> QED
    BY <1>1, <1>2, FS_Surjection DEF RanksOf

-----------------------------------------------------------------------------
(***************************************************************************)
(* The two searches, for an edge x -> y that goes down in rank             *)
(***************************************************************************)

\* deltaF lies between y and x, and an edge out of it ends in it or above x, unless the
\* search meets x.
LEMMA ForwardRegion ==
    ASSUME NEW N, NEW E, NEW r, Ranked(N, E, r), NEW x \in N, NEW y \in N, r[y] < r[x]
    PROVE  LET F == forwardSearch(N, E, r, y, r[x])
           IN  /\ F \subseteq N /\ y \in F
               /\ \A n \in F : r[y] <= r[n] /\ r[n] < r[x]
               /\ \A e \in E : e[1] \in F => e[2] \in F \/ r[e[2]] = r[x] \/ r[e[2]] > r[x]
<1> DEFINE R == {e \in E : r[e[2]] < r[x]}
           F == Reach(N, R, y)
           S == {n \in N : r[y] <= r[n] /\ r[n] < r[x]}
<1>0. \A e \in E : e[1] \in N /\ e[2] \in N /\ r[e[1]] \in Nat /\ r[e[2]] \in Nat
    BY DEF Ranked
<1>1. y \in S /\ S \in SUBSET N
    BY DEF Ranked
<1>2. \A e \in R : e[1] \in S => e[2] \in S
    BY <1>0 DEF Ranked
<1>3. F \subseteq S
    BY <1>1, <1>2, ReachIsLeast, Zenon
<1>4. y \in F
    BY ReachHoldsStart
<1>5. ASSUME NEW e \in E, e[1] \in F
      PROVE  e[2] \in F \/ r[e[2]] = r[x] \/ r[e[2]] > r[x]
    <2>1. r[e[2]] < r[x] => e[2] \in F
        <3> SUFFICES ASSUME r[e[2]] < r[x] PROVE e[2] \in F
            OBVIOUS
        <3>1. e \in R /\ e[2] \in N
            BY <1>0
        <3> HIDE DEF R
        <3> QED
            BY <1>5, <3>1, ReachIsClosed
    <2>2. r[x] \in Nat /\ r[e[2]] \in Nat
        BY <1>0 DEF Ranked
    <2> QED
        BY <2>1, <2>2
<1> QED
    BY <1>3, <1>4, <1>5 DEF forwardSearch

\* deltaB lies between y and x too, and an edge into it starts in it or not above y.
LEMMA BackwardRegion ==
    ASSUME NEW N, NEW E, NEW r, Ranked(N, E, r), NEW x \in N, NEW y \in N, r[y] < r[x]
    PROVE  LET B == backwardSearch(N, E, r, x, r[y])
           IN  /\ B \subseteq N /\ x \in B
               /\ \A n \in B : r[y] < r[n] /\ r[n] <= r[x]
               /\ \A e \in E : e[2] \in B => e[1] \in B \/ r[e[1]] <= r[y]
<1> DEFINE D == {f \in E : r[f[1]] > r[y]}
           R == {<<e[2], e[1]>> : e \in D}
           B == Reach(N, R, x)
           S == {n \in N : r[y] < r[n] /\ r[n] <= r[x]}
<1>0. \A e \in E : /\ e[1] \in N /\ e[2] \in N /\ r[e[1]] \in Nat /\ r[e[2]] \in Nat
                   /\ r[e[1]] < r[e[2]]
    BY DEF Ranked
<1>1. x \in S /\ S \in SUBSET N
    BY DEF Ranked
<1>2. ASSUME NEW d \in R, d[1] \in S PROVE d[2] \in S
    <2>1. PICK e \in D : d = <<e[2], e[1]>>
        OBVIOUS
    <2>2. d[1] = e[2] /\ d[2] = e[1] /\ e \in E /\ r[e[1]] > r[y]
        BY <2>1
    <2>3. r[x] \in Nat /\ r[y] \in Nat
        BY DEF Ranked
    <2> QED
        BY <1>0, <1>2, <2>2, <2>3
<1>3. B \subseteq S
    <2> HIDE DEF R, S
    <2> QED
        BY <1>1, <1>2, ReachIsLeast, Zenon
<1>4. x \in B
    BY ReachHoldsStart
<1>5. ASSUME NEW e \in E, e[2] \in B
      PROVE  e[1] \in B \/ r[e[1]] <= r[y]
    <2>1. r[e[1]] > r[y] => e[1] \in B
        <3> SUFFICES ASSUME r[e[1]] > r[y] PROVE e[1] \in B
            OBVIOUS
        <3>1. PICK d \in R : d = <<e[2], e[1]>>
            BY Zenon
        <3>2. d[1] = e[2] /\ d[2] = e[1] /\ e[1] \in N
            BY <1>0, <3>1
        <3> HIDE DEF R
        <3> QED
            BY <1>5, <3>2, ReachIsClosed
    <2>2. r[y] \in Nat /\ r[e[1]] \in Nat
        BY <1>0 DEF Ranked
    <2> QED
        BY <2>1, <2>2
<1> QED
    BY <1>3, <1>4, <1>5, Zenon DEF backwardSearch

\* If the forward search does not meet x the two regions share no node.
LEMMA RegionsShareNothing ==
    ASSUME NEW N, NEW E, NEW r, Ranked(N, E, r), NEW x \in N, NEW y \in N, r[y] < r[x],
           ~ searchMeets(E, r, forwardSearch(N, E, r, y, r[x]), r[x])
    PROVE  forwardSearch(N, E, r, y, r[x]) \cap backwardSearch(N, E, r, x, r[y]) = {}
<1> DEFINE F == forwardSearch(N, E, r, y, r[x])
           R == {<<e[2], e[1]>> : e \in {f \in E : r[f[1]] > r[y]}}
           S == {n \in N : n \notin F /\ r[n] <= r[x]}
<1>0. \A e \in E : /\ e[1] \in N /\ e[2] \in N /\ r[e[1]] \in Nat /\ r[e[2]] \in Nat
                   /\ r[e[1]] < r[e[2]]
    BY DEF Ranked
<1>1. r[x] \in Nat
    BY DEF Ranked
<1>2. /\ \A n \in F : r[n] < r[x]
      /\ \A e \in E : e[1] \in F => e[2] \in F \/ r[e[2]] = r[x] \/ r[e[2]] > r[x]
    BY ForwardRegion
<1>3. \A e \in E : e[1] \in F => r[e[2]] # r[x]
    BY DEF searchMeets
<1> HIDE DEF F
<1>4. x \in S /\ S \in SUBSET N
    BY <1>1, <1>2
<1>5. ASSUME NEW d \in R, d[1] \in S PROVE d[2] \in S
    <2>1. PICK e \in E : d = <<e[2], e[1]>>
        OBVIOUS
    <2>2. d[1] = e[2] /\ d[2] = e[1]
        BY <2>1
    <2> QED
        BY <1>0, <1>1, <1>2, <1>3, <1>5, <2>2
<1> HIDE DEF R, S
<1>6. Reach(N, R, x) \subseteq S
    BY <1>4, <1>5, ReachIsLeast
<1> QED
    BY <1>6 DEF backwardSearch, F, R, S

\* The verdict is exact: an edge x -> y is called a cycle if and only if y already
\* reaches x.
LEMMA VerdictIsExact ==
    ASSUME NEW N, NEW E, NEW r, Ranked(N, E, r), NEW x \in N, NEW y \in N, x # y
    PROVE  addEdgeOrder(N, E, r, x, y).cycle <=> x \in Reach(N, E, y)
<1> DEFINE F == forwardSearch(N, E, r, y, r[x])
           meets == searchMeets(E, r, F, r[x])
<1>0. \A e \in E : /\ e[1] \in N /\ e[2] \in N /\ r[e[1]] \in Nat /\ r[e[2]] \in Nat
                   /\ r[e[1]] < r[e[2]]
    BY DEF Ranked
<1>1. r[x] \in Nat /\ r[y] \in Nat /\ r[x] # r[y]
    BY DEF Ranked
<1>2. CASE r[x] < r[y]
    <2> DEFINE S == {n \in N : r[n] >= r[y]}
    <2>1. y \in S /\ S \in SUBSET N /\ x \notin S
        BY <1>1, <1>2
    <2>2. \A e \in E : e[1] \in S => e[2] \in S
        BY <1>0, <1>1
    <2> HIDE DEF S
    <2>3. x \notin Reach(N, E, y)
        BY <2>1, <2>2, ReachIsLeast
    <2>4. addEdgeOrder(N, E, r, x, y).cycle = FALSE
        BY <1>2 DEF addEdgeOrder
    <2> QED
        BY <2>3, <2>4
<1>3. CASE r[y] < r[x]
    <2>1. /\ F \subseteq N /\ y \in F
          /\ \A n \in F : r[n] < r[x]
          /\ \A e \in E : e[1] \in F => e[2] \in F \/ r[e[2]] = r[x] \/ r[e[2]] > r[x]
        BY <1>3, ForwardRegion
    <2>2. addEdgeOrder(N, E, r, x, y).cycle <=> meets
        <3>1. ~ (r[x] < r[y])
            BY <1>1, <1>3
        <3>2. CASE meets
            BY <3>1, <3>2, Zenon DEF addEdgeOrder
        <3>3. CASE ~ meets
            BY <3>1, <3>3, Zenon DEF addEdgeOrder
        <3> QED
            BY <3>2, <3>3
    <2>3. F \subseteq Reach(N, E, y)
        <3> DEFINE R == {e \in E : r[e[2]] < r[x]}
                   T == Reach(N, E, y)
        <3>1. y \in T
            BY ReachHoldsStart
        <3>2. T \in SUBSET N
            BY DEF Reach
        <3>3. \A e \in R : e[1] \in T => e[2] \in T
            BY <1>0, ReachIsClosed
        <3> HIDE DEF R, T
        <3>4. Reach(N, R, y) \subseteq T
            BY <3>1, <3>2, <3>3, ReachIsLeast
        <3> QED
            BY <3>4 DEF forwardSearch, R, T
    <2>4. ASSUME meets PROVE x \in Reach(N, E, y)
        <3>1. PICK e \in E : e[1] \in F /\ r[e[2]] = r[x]
            BY <2>4 DEF searchMeets
        <3>2. e[2] = x
            BY <1>0, <3>1 DEF Ranked
        <3> HIDE DEF F
        <3> QED
            BY <2>3, <3>1, <3>2, ReachIsClosed
    <2>5. ASSUME ~meets PROVE x \notin Reach(N, E, y)
        <3> DEFINE S == F \cup {n \in N : r[n] > r[x]}
        <3>1. \A e \in E : e[1] \in F => r[e[2]] # r[x]
            BY <2>5 DEF searchMeets
        <3> HIDE DEF F
        <3>2. y \in S /\ S \in SUBSET N /\ x \notin S
            BY <1>1, <2>1
        <3>3. \A e \in E : e[1] \in S => e[2] \in S
            BY <1>0, <1>1, <2>1, <3>1
        <3> HIDE DEF S
        <3> QED
            BY <3>2, <3>3, ReachIsLeast
    <2> QED
        BY <2>2, <2>4, <2>5
<1> QED
    BY <1>1, <1>2, <1>3

-----------------------------------------------------------------------------
(***************************************************************************)
(* reorder                                                                 *)
(***************************************************************************)

\* A node's place in its region, counted from 1.
UpTo(S, r, n) == Cardinality({m \in S : r[m] <= r[n]})

\* Places lie between 1 and the size of the region and follow the ranks.
LEMMA PlacesFollowRanks ==
    ASSUME NEW N, NEW E, NEW r, Ranked(N, E, r), NEW S \in SUBSET N
    PROVE  /\ \A n \in S : UpTo(S, r, n) \in 1..Cardinality(S)
           /\ \A m, n \in S : r[m] < r[n] => UpTo(S, r, m) < UpTo(S, r, n)
<1> DEFINE U(n) == {m \in S : r[m] <= r[n]}
<1>0. \A n \in S : r[n] \in Nat
    BY DEF Ranked
<1>1. IsFiniteSet(S) /\ Cardinality(S) \in Nat
    BY RanksAreAsMany
<1>2. \A n \in S : /\ U(n) \in SUBSET S /\ n \in U(n) /\ IsFiniteSet(U(n))
                   /\ Cardinality(U(n)) \in Nat /\ Cardinality(U(n)) <= Cardinality(S)
    <2> SUFFICES ASSUME NEW n \in S
                 PROVE  /\ U(n) \in SUBSET S /\ n \in U(n) /\ IsFiniteSet(U(n))
                        /\ Cardinality(U(n)) \in Nat /\ Cardinality(U(n)) <= Cardinality(S)
        OBVIOUS
    <2>1. U(n) \in SUBSET S /\ n \in U(n)
        BY <1>0
    <2> HIDE DEF U
    <2> QED
        BY <1>1, <2>1, FS_Subset, FS_CardinalityType
<1>3. \A n \in S : Cardinality(U(n)) # 0
    <2> HIDE DEF U
    <2> QED
        BY <1>2, FS_EmptySet
<1>4. ASSUME NEW m \in S, NEW n \in S, r[m] < r[n]
      PROVE  Cardinality(U(m)) < Cardinality(U(n))
    <2>1. U(m) \in SUBSET U(n) /\ n \notin U(m)
        BY <1>0, <1>4
    <2> HIDE DEF U
    <2>2. Cardinality(U(m)) <= Cardinality(U(n)) /\ Cardinality(U(n)) # Cardinality(U(m))
        BY <1>2, <2>1, FS_Subset
    <2> QED
        BY <1>2, <2>2
<1>5. \A n \in S : UpTo(S, r, n) = Cardinality(U(n))
    BY DEF UpTo
<1> HIDE DEF U
<1> QED
    BY <1>1, <1>2, <1>3, <1>4, <1>5

\* Ranks q are handed out from those r gives to B and F, all of B before all of F, each in
\* its own order; no node of B moves up and no node of F down.
Permuted(r, B, F, q) ==
    /\ q = [n \in DOMAIN r |-> q[n]]
    /\ \A n \in DOMAIN r : n \notin B \cup F => q[n] = r[n]
    /\ \A n \in B \cup F : \E m \in B \cup F : q[n] = r[m]
    /\ \A m, n \in B : r[m] < r[n] => q[m] < q[n]
    /\ \A m, n \in F : r[m] < r[n] => q[m] < q[n]
    /\ \A m \in B, n \in F : q[m] < q[n]
    /\ \A n \in B : q[n] <= r[n]
    /\ \A n \in F : r[n] <= q[n]

\* That is what reorder does to two regions that share no node.
LEMMA ReorderPermutes ==
    ASSUME NEW N, NEW E, NEW r, Ranked(N, E, r),
           NEW B \in SUBSET N, NEW F \in SUBSET N, F \cap B = {},
           NEW b \in Nat, \A n \in B \cup F : r[n] <= b
    PROVE  Permuted(r, B, F, reorder(r, B, F))
<1> DEFINE q == reorder(r, B, F)
           P == RanksOf(r, B \cup F)
           K(k) == KthSmallest(P, k)
           nB == Cardinality(B)
           nF == Cardinality(F)
<1>1. /\ q = [n \in DOMAIN r |-> q[n]]
      /\ \A n \in DOMAIN r : n \notin B \cup F => q[n] = r[n]
      /\ \A n \in B : q[n] = K(UpTo(B, r, n))
      /\ \A n \in F : q[n] = K(nB + UpTo(F, r, n))
    <2>1. B \subseteq DOMAIN r /\ F \subseteq DOMAIN r
        BY DEF Ranked
    <2> QED
        BY <2>1, Zenon DEF reorder, UpTo, RanksOf
<1>2. nB \in Nat /\ nF \in Nat /\ IsFiniteSet(P) /\ Cardinality(P) = nB + nF
    <2>1. /\ IsFiniteSet(B) /\ IsFiniteSet(F)
          /\ nB \in Nat /\ nF \in Nat
        BY RanksAreAsMany
    <2>2. B \cap F = {}
        OBVIOUS
    <2>3. Cardinality(B \cup F) = nB + nF
        <3>1. Cardinality(B \cup F) = nB + nF - Cardinality(B \cap F)
            BY <2>1, FS_Union
        <3>2. Cardinality(B \cap F) = 0
            BY <2>2, FS_EmptySet
        <3> QED
            BY <2>1, <3>1, <3>2
    <2>4. B \cup F \in SUBSET N
        OBVIOUS
    <2>5. IsFiniteSet(P) /\ Cardinality(P) = Cardinality(B \cup F)
        BY <2>4, RanksAreAsMany
    <2> QED
        BY <2>1, <2>3, <2>5
<1>3. P \in SUBSET Nat /\ \A u \in P : u <= b
    BY DEF Ranked, RanksOf
<1>4. /\ \A n \in B : r[n] \in P /\ r[n] \in Nat
      /\ \A n \in F : r[n] \in P /\ r[n] \in Nat
    BY DEF Ranked, RanksOf
<1>5. /\ \A n \in B : UpTo(B, r, n) \in 1..nB
      /\ \A m, n \in B : r[m] < r[n] => UpTo(B, r, m) < UpTo(B, r, n)
      /\ \A n \in F : UpTo(F, r, n) \in 1..nF
      /\ \A m, n \in F : r[m] < r[n] => UpTo(F, r, m) < UpTo(F, r, n)
    BY PlacesFollowRanks
<1>6. \A k \in 1..(nB + nF) : /\ K(k) \in P /\ K(k) \in Nat
                              /\ Cardinality(Below(P, K(k))) = k
    BY <1>2, <1>3, KthSmallestIsKth, Zenon
<1>7. \A j, k \in 1..(nB + nF) : j < k => K(j) < K(k)
    BY <1>2, <1>3, KthSmallestGrows, Zenon
<1>8. ASSUME NEW n \in B PROVE K(UpTo(B, r, n)) <= r[n]
    \* The ranks of B up to n's would be all of the ranks up to a larger one.
    <2> DEFINE k == UpTo(B, r, n)
               v == K(k)
               U == {m \in B : r[m] <= r[n]}
               I == RanksOf(r, U)
    <2>1. k \in 1..(nB + nF)
        BY <1>2, <1>5
    <2>2. v \in P /\ v \in Nat /\ Cardinality(Below(P, v)) = k
        BY <1>6, <2>1
    <2>3. Cardinality(I) = k
        <3>1. U \in SUBSET N
            OBVIOUS
        <3>2. Cardinality(I) = Cardinality(U)
            BY <3>1, RanksAreAsMany
        <3> QED
            BY <3>2 DEF UpTo
    <2> HIDE DEF v, k, K
    <2>4. ASSUME r[n] < v PROVE FALSE
        <3>1. \A u \in I : u \in P /\ u <= r[n]
            BY DEF RanksOf
        <3>2. I \in SUBSET Below(P, v) /\ v \notin I /\ v \in Below(P, v)
            <4> HIDE DEF I, P
            <4>1. ASSUME NEW u \in I PROVE u \in P /\ u <= v /\ u # v
                <5>1. u \in P /\ u <= r[n] /\ u \in Nat /\ r[n] \in Nat
                    BY <1>3, <1>4, <3>1, Zenon
                <5> QED
                    BY <2>2, <2>4, <5>1
            <4>2. v <= v
                BY <2>2
            <4> QED
                BY <2>2, <4>1, <4>2, Zenon DEF Below
        <3>3. IsFiniteSet(Below(P, v))
            BY <1>3, <2>2, BelowGrowsByOne, Zenon
        <3> HIDE DEF I, P
        <3> QED
            BY <2>2, <2>3, <3>2, <3>3, FS_Subset
    <2>5. v <= r[n]
        BY <1>4, <2>2, <2>4
    <2> QED
        BY <2>5 DEF v, k
<1>9. ASSUME NEW n \in F PROVE r[n] <= K(nB + UpTo(F, r, n))
    \* The ranks of B and of F up to n's would include more than those up to a smaller one.
    <2> DEFINE U == {m \in F : r[m] <= r[n]}
               k == nB + UpTo(F, r, n)
               v == K(k)
               J == RanksOf(r, B \cup U)
    <2>1. k \in 1..(nB + nF)
        BY <1>2, <1>5
    <2>2. v \in P /\ v \in Nat /\ Cardinality(Below(P, v)) = k
        BY <1>6, <2>1
    <2>3. IsFiniteSet(J) /\ Cardinality(J) = k
        <3>1. B \cup U \in SUBSET N /\ U \in SUBSET N /\ B \cap U = {}
            OBVIOUS
        <3>2. IsFiniteSet(J) /\ Cardinality(J) = Cardinality(B \cup U)
            BY <3>1, RanksAreAsMany
        <3>3. IsFiniteSet(B) /\ IsFiniteSet(U) /\ Cardinality(U) \in Nat
            BY <3>1, RanksAreAsMany
        <3>4. Cardinality(B \cup U) = nB + Cardinality(U) - Cardinality(B \cap U)
            BY <3>3, FS_Union
        <3>5. Cardinality(B \cap U) = 0
            BY <3>1, FS_EmptySet
        <3>6. Cardinality(U) = UpTo(F, r, n)
            BY DEF UpTo
        <3> HIDE DEF J, U
        <3> QED
            BY <1>2, <3>2, <3>3, <3>4, <3>5, <3>6
    <2> HIDE DEF v, k, K
    <2>4. ASSUME v < r[n] PROVE FALSE
        <3>1. \A u \in P : u <= v => u \in J
            BY <1>4, <2>2, <2>4 DEF RanksOf
        <3>2. r[n] \in J
            BY <1>4 DEF RanksOf
        <3> HIDE DEF J, P
        <3>3. Below(P, v) \in SUBSET J /\ r[n] \notin Below(P, v)
            <4>1. ~ (r[n] <= v)
                BY <1>4, <2>2, <2>4
            <4> QED
                BY <3>1, <4>1, Zenon DEF Below
        <3> QED
            BY <2>2, <2>3, <3>2, <3>3, FS_Subset
    <2>5. r[n] <= v
        BY <1>4, <2>2, <2>4
    <2> QED
        BY <2>5 DEF v, k
<1>10. \A n \in B \cup F : \E m \in B \cup F : q[n] = r[m]
    <2>1. \A n \in B \cup F : q[n] \in P
        <3> HIDE DEF q, P, K, nB, nF
        <3> QED
            BY <1>1, <1>2, <1>5, <1>6
    <2> HIDE DEF q
    <2> QED
        BY <2>1 DEF RanksOf
<1> HIDE DEF q, P, K, nB, nF
<1>11. /\ \A m, n \in B : r[m] < r[n] => q[m] < q[n]
       /\ \A m, n \in F : r[m] < r[n] => q[m] < q[n]
       /\ \A m \in B, n \in F : q[m] < q[n]
    <2>1. \A m, n \in B : r[m] < r[n] => q[m] < q[n]
        BY <1>1, <1>2, <1>5, <1>7
    <2>2. \A m, n \in F : r[m] < r[n] => q[m] < q[n]
        BY <1>1, <1>2, <1>5, <1>7
    <2>3. \A m \in B, n \in F : q[m] < q[n]
        BY <1>1, <1>2, <1>5, <1>7
    <2> QED
        BY <2>1, <2>2, <2>3, Zenon
<1>12. /\ \A n \in B : q[n] <= r[n]
       /\ \A n \in F : r[n] <= q[n]
    BY <1>1, <1>8, <1>9
<1> QED
    BY <1>1, <1>10, <1>11, <1>12, Zenon DEF q, Permuted

\* Ranks q, all of them ranks of r, are right for a graph E and for the edge x -> y.
Extended(N, E, r, x, y, q) ==
    /\ q = [n \in DOMAIN r |-> q[n]]
    /\ \A n \in DOMAIN r : n \notin N => q[n] = r[n]
    /\ \A n \in N : \E m \in N : q[n] = r[m]
    /\ \A e \in E : q[e[1]] < q[e[2]]
    /\ q[x] < q[y]
    /\ \A m, n \in N : q[m] = q[n] => m = n

\* The edge that addEdgeOrder accepts goes up in the new order, every old edge still
\* does, the ranks stay distinct, and no rank is new.
LEMMA AcceptedEdgeKeepsOrder ==
    ASSUME NEW N, NEW E, NEW r, Ranked(N, E, r), NEW x \in N, NEW y \in N, x # y,
           ~ addEdgeOrder(N, E, r, x, y).cycle
    PROVE  Extended(N, E, r, x, y, addEdgeOrder(N, E, r, x, y).ord)
<1> DEFINE q == addEdgeOrder(N, E, r, x, y).ord
<1>0. \A e \in E : /\ e[1] \in N /\ e[2] \in N /\ r[e[1]] \in Nat /\ r[e[2]] \in Nat
                   /\ r[e[1]] < r[e[2]]
    BY DEF Ranked
<1>1. r[x] \in Nat /\ r[y] \in Nat /\ r[x] # r[y] /\ N \subseteq DOMAIN r
    BY DEF Ranked
<1>2. CASE r[x] < r[y]
    <2>1. q = r
        BY <1>2, Zenon DEF addEdgeOrder
    <2> QED
        BY <1>1, <1>2, <2>1 DEF Ranked, Extended
<1>3. CASE r[y] < r[x]
    <2> DEFINE F == forwardSearch(N, E, r, y, r[x])
               B == backwardSearch(N, E, r, x, r[y])
               Z == B \cup F
    <2>1. ~ searchMeets(E, r, F, r[x]) /\ q = reorder(r, B, F)
        BY <1>1, <1>3 DEF addEdgeOrder
    <2>2. /\ F \subseteq N /\ y \in F
          /\ \A n \in F : r[y] <= r[n] /\ r[n] < r[x]
          /\ \A e \in E : e[1] \in F => e[2] \in F \/ r[e[2]] = r[x] \/ r[e[2]] > r[x]
        BY <1>3, ForwardRegion, Zenon
    <2>3. /\ B \subseteq N /\ x \in B
          /\ \A n \in B : r[y] < r[n] /\ r[n] <= r[x]
          /\ \A e \in E : e[2] \in B => e[1] \in B \/ r[e[1]] <= r[y]
        BY <1>3, BackwardRegion, Zenon
    <2>4. F \cap B = {}
        BY <1>3, <2>1, RegionsShareNothing
    <2>5. \A e \in E : e[1] \in F => r[e[2]] # r[x]
        BY <2>1, Zenon DEF searchMeets
    <2>6. \A n \in N : r[n] \in Nat
        BY DEF Ranked
    <2> HIDE DEF F, B
    <2>7. /\ q = [n \in DOMAIN r |-> q[n]]
          /\ \A n \in DOMAIN r : n \notin Z => q[n] = r[n]
          /\ \A n \in Z : \E m \in Z : q[n] = r[m]
          /\ \A m, n \in B : r[m] < r[n] => q[m] < q[n]
          /\ \A m, n \in F : r[m] < r[n] => q[m] < q[n]
          /\ \A m \in B, n \in F : q[m] < q[n]
          /\ \A n \in B : q[n] <= r[n]
          /\ \A n \in F : r[n] <= q[n]
        <3>1. B \in SUBSET N /\ F \in SUBSET N /\ \A n \in B \cup F : r[n] <= r[x]
            BY <1>1, <2>2, <2>3, <2>6
        <3>2. Permuted(r, B, F, reorder(r, B, F))
            BY <1>1, <2>4, <3>1, ReorderPermutes
        <3> HIDE DEF q
        <3> QED
            BY <2>1, <3>2, Zenon DEF Permuted
    <2> HIDE DEF q
    <2>8. \A n \in Z : n \in N /\ r[y] <= r[n] /\ r[n] <= r[x]
        BY <1>1, <2>2, <2>3, <2>6
    <2>9. \A n \in Z : q[n] \in Nat /\ r[y] <= q[n] /\ q[n] <= r[x]
        <3> HIDE DEF Z
        <3> QED
            BY <2>6, <2>7, <2>8
    <2>10. ASSUME NEW e \in E PROVE q[e[1]] < q[e[2]]
        <3> DEFINE s == e[1]
                   t == e[2]
        <3>1. s \in N /\ t \in N /\ r[s] \in Nat /\ r[t] \in Nat /\ r[s] < r[t]
            BY <1>0
        <3>2. s \in B => s \notin F
            BY <2>4
        <3>3. t \in B => t \notin F
            BY <2>4
        <3>4. s \in F => t \in F \/ r[t] > r[x]
            BY <2>2, <2>5
        <3>5. t \in B => s \in B \/ r[s] <= r[y]
            BY <2>3
        <3> SUFFICES q[s] < q[t]
            OBVIOUS
        <3> HIDE DEF s, t
        <3>6. CASE s \in B /\ t \in B
            BY <2>7, <3>1, <3>6
        <3>7. CASE s \in F /\ t \in F
            BY <2>7, <3>1, <3>7
        <3>8. CASE s \in B /\ t \in F
            BY <2>7, <3>8
        <3>9. CASE s \in F /\ t \in B
            <4>1. r[t] > r[x]
                BY <3>3, <3>4, <3>9
            <4>2. r[t] <= r[x]
                BY <2>8, <3>9
            <4> QED
                BY <1>1, <3>1, <4>1, <4>2
        <3>10. CASE s \in B /\ t \notin Z
            <4>1. q[s] <= r[s] /\ q[t] = r[t] /\ q[s] \in Nat
                BY <1>1, <2>7, <2>9, <3>1, <3>10
            <4> QED
                BY <3>1, <4>1
        <3>11. CASE s \in F /\ t \notin Z
            <4>1. q[s] <= r[x] /\ q[t] = r[t] /\ q[s] \in Nat /\ r[t] > r[x]
                BY <1>1, <2>7, <2>9, <3>1, <3>4, <3>11
            <4> QED
                BY <1>1, <3>1, <4>1
        <3>12. CASE s \notin Z /\ t \in B
            <4>1. s # y
                BY <2>2, <3>12
            <4>2. r[s] # r[y]
                BY <3>1, <4>1 DEF Ranked
            <4>3. r[s] <= r[y] /\ q[s] = r[s] /\ q[t] \in Nat /\ r[y] <= q[t]
                BY <1>1, <2>7, <2>9, <3>1, <3>5, <3>12
            <4> QED
                BY <1>1, <3>1, <4>2, <4>3
        <3>13. CASE s \notin Z /\ t \in F
            <4>1. q[s] = r[s] /\ r[t] <= q[t] /\ q[t] \in Nat
                BY <1>1, <2>7, <2>9, <3>1, <3>13, Zenon
            <4> QED
                BY <3>1, <4>1
        <3>14. CASE s \notin Z /\ t \notin Z
            BY <1>1, <2>7, <3>1, <3>14
        <3> QED
            BY <3>6, <3>7, <3>8, <3>9, <3>10, <3>11, <3>12, <3>13, <3>14
    <2>11. q[x] < q[y]
        BY <2>2, <2>3, <2>7
    <2>12. \A m, n \in N : r[m] = r[n] => m = n
        BY DEF Ranked
    <2>13. ASSUME NEW m \in N, NEW n \in N, q[m] = q[n], m # n PROVE FALSE
        <3>1. r[m] < r[n] \/ r[n] < r[m]
            BY <2>6, <2>12, <2>13
        <3>2. CASE m \in Z /\ n \in Z
            <4>1. q[m] \in Nat /\ q[n] \in Nat
                BY <2>9, <3>2
            <4>2. q[m] < q[n] \/ q[n] < q[m]
                BY <2>7, <3>1, <3>2
            <4> QED
                BY <2>13, <4>1, <4>2
        <3>3. CASE m \in Z /\ n \notin Z
            <4>1. PICK k \in Z : q[m] = r[k]
                BY <2>7, <3>3
            <4>2. q[n] = r[n] /\ k \in N
                BY <1>1, <2>7, <2>8, <3>3
            <4> QED
                BY <2>12, <2>13, <3>3, <4>1, <4>2, Zenon
        <3>4. CASE m \notin Z /\ n \in Z
            <4>1. PICK k \in Z : q[n] = r[k]
                BY <2>7, <3>4
            <4>2. q[m] = r[m] /\ k \in N
                BY <1>1, <2>7, <2>8, <3>4
            <4> QED
                BY <2>12, <2>13, <3>4, <4>1, <4>2
        <3>5. CASE m \notin Z /\ n \notin Z
            BY <1>1, <2>7, <2>12, <2>13, <3>5
        <3> QED
            BY <3>2, <3>3, <3>4, <3>5
    <2>14. \A n \in N : \E m \in N : q[n] = r[m]
        <3> HIDE DEF Z
        <3> QED
            BY <1>1, <2>7, <2>8
    <2>15. \A n \in DOMAIN r : n \notin N => q[n] = r[n]
        BY <2>7, <2>8
    <2> QED
        BY <2>7, <2>10, <2>11, <2>13, <2>14, <2>15, Zenon DEF q, Extended
<1> QED
    BY <1>1, <1>2, <1>3

-----------------------------------------------------------------------------
(***************************************************************************)
(* A scope's ranks over its whole life                                     *)
(***************************************************************************)

\* RanksAreTopological is inductive once it is known that the graph is finite, that edges
\* join nodes that exist, and that no rank is above the counter new ones are taken from.
TopoInv ==
    /\ alive \subseteq Vertex /\ IsFiniteSet(alive)
    /\ edges \subseteq alive \X alive
    /\ ord \in [Vertex -> Nat] /\ nextOrd \in Nat
    /\ \A n \in alive : ord[n] <= nextOrd
    /\ RanksAreTopological

\* The invariant is what addEdgeOrder needs to be given.
LEMMA InvMeansRanked == TopoInv => Ranked(alive, edges, ord)
BY DEF TopoInv, Ranked, RanksAreTopological

\* newScope: nothing to order.
LEMMA TopoInitially == TopoInit => TopoInv
BY FS_EmptySet DEF TopoInit, TopoInv, RanksAreTopological

\* Both uses of addEdgeOrder: whether or not the edge is kept, the new ranks are right for
\* the old graph and for the edge.
LEMMA InsertionKeepsInv ==
    ASSUME TopoInv, NEW x \in alive, NEW y \in alive, x # y,
           ~ addEdgeOrder(alive, edges, ord, x, y).cycle,
           ord' = addEdgeOrder(alive, edges, ord, x, y).ord,
           edges' \subseteq edges \cup {<<x, y>>},
           alive' = alive, nextOrd' = nextOrd
    PROVE  TopoInv'
<1>0. Extended(alive, edges, ord, x, y, ord')
    BY InvMeansRanked, AcceptedEdgeKeepsOrder
<1>1. /\ \A n \in alive : \E m \in alive : ord'[n] = ord[m]
      /\ \A e \in edges : ord'[e[1]] < ord'[e[2]]
      /\ ord'[x] < ord'[y]
      /\ \A m, n \in alive : ord'[m] = ord'[n] => m = n
    BY <1>0 DEF Extended
<1>2. DOMAIN ord = Vertex /\ \A n \in Vertex : ord'[n] \in Nat
    BY <1>0 DEF TopoInv, Extended
<1>3. ord' \in [Vertex -> Nat]
    <2>1. ord' = [n \in Vertex |-> ord'[n]]
        BY <1>0, <1>2 DEF Extended
    <2> QED
        BY <1>2, <2>1
<1>4. \A n \in alive : ord'[n] <= nextOrd
    BY <1>1 DEF TopoInv
<1>5. edges' \subseteq alive \X alive
    BY DEF TopoInv
<1>6. \A e \in edges' : ord'[e[1]] < ord'[e[2]]
    BY <1>1
<1> QED
    BY <1>1, <1>3, <1>4, <1>5, <1>6, Zenon DEF TopoInv, RanksAreTopological

\* Every step keeps the invariant.
LEMMA TopoStep == TopoInv /\ [TopoNext]_topoVars => TopoInv'
<1> SUFFICES ASSUME TopoInv, [TopoNext]_topoVars PROVE TopoInv'
    OBVIOUS
<1>1. ASSUME NEW n \in Vertex, AddVertex(n) PROVE TopoInv'
    <2>1. IsFiniteSet(alive')
        BY <1>1, FS_AddElement DEF AddVertex, TopoInv
    <2>2. ord' \in [Vertex -> Nat] /\ nextOrd' \in Nat /\ nextOrd' = nextOrd + 1
        BY <1>1 DEF AddVertex, TopoInv
    <2>3. ord'[n] = nextOrd + 1 /\ \A m \in alive : ord'[m] = ord[m] /\ ord[m] <= nextOrd
        BY <1>1 DEF AddVertex, TopoInv
    <2>4. alive' = alive \cup {n} /\ edges' = edges /\ n \notin alive
        BY <1>1 DEF AddVertex
    <2>5. \A m \in alive : ord[m] \in Nat
        BY DEF TopoInv
    <2> QED
        BY <2>1, <2>2, <2>3, <2>4, <2>5 DEF TopoInv, RanksAreTopological
<1>2. ASSUME NEW n \in Vertex, RemoveVertex(n) PROVE TopoInv'
    <2>1. IsFiniteSet(alive')
        BY <1>2, FS_RemoveElement DEF RemoveVertex, TopoInv
    <2> QED
        BY <1>2, <2>1 DEF RemoveVertex, TopoInv, RanksAreTopological
<1>3. ASSUME NEW x \in Vertex, NEW y \in Vertex, AddEdge(x, y) PROVE TopoInv'
    BY <1>3, InsertionKeepsInv DEF AddEdge
<1>4. ASSUME NEW x \in Vertex, NEW y \in Vertex, AddEdgeAborted(x, y) PROVE TopoInv'
    BY <1>4, InsertionKeepsInv DEF AddEdgeAborted
<1>5. ASSUME NEW x \in Vertex, NEW y \in Vertex, RemoveEdge(x, y) PROVE TopoInv'
    BY <1>5 DEF RemoveEdge, TopoInv, RanksAreTopological
<1>6. CASE UNCHANGED topoVars
    BY <1>6 DEF topoVars, TopoInv, RanksAreTopological
<1> QED
    BY <1>1, <1>2, <1>3, <1>4, <1>5, <1>6 DEF TopoNext

\* The invariant makes the two searches exact.
LEMMA InvMakesOrderSound == TopoInv => OrderIsSound
<1> SUFFICES ASSUME TopoInv PROVE OrderIsSound
    OBVIOUS
<1>1. Ranked(alive, edges, ord)
    BY InvMeansRanked
<1>2. RanksAreTopological
    BY DEF TopoInv
<1>3. CycleVerdictIsExact
    BY <1>1, VerdictIsExact DEF CycleVerdictIsExact
<1>4. RegionsAreDisjoint
    <2> SUFFICES ASSUME NEW x \in alive, NEW y \in alive, ord[x] > ord[y],
                        ~ addEdgeOrder(alive, edges, ord, x, y).cycle
                 PROVE  forwardSearch(alive, edges, ord, y, ord[x])
                            \cap backwardSearch(alive, edges, ord, x, ord[y]) = {}
        BY Zenon DEF RegionsAreDisjoint
    <2>1. ord[y] < ord[x] /\ ~ (ord[x] < ord[y])
        BY DEF TopoInv
    <2>2. ~ searchMeets(edges, ord, forwardSearch(alive, edges, ord, y, ord[x]), ord[x])
        BY <2>1, Zenon DEF addEdgeOrder
    <2> QED
        BY <1>1, <2>1, <2>2, RegionsShareNothing, Zenon
<1> QED
    BY <1>2, <1>3, <1>4 DEF OrderIsSound

\* For every graph and every history of insertions, aborted batches and removals: every
\* edge goes up in rank, no two nodes share a rank, an edge is refused if and only if it
\* would close a cycle, and reorder never hands one node two ranks (topo.go addEdgeOrder).
THEOREM OrderStaysSound == TopoSpec => []OrderIsSound
<1>1. TopoInit => TopoInv
    BY TopoInitially
<1>2. TopoInv /\ [TopoNext]_topoVars => TopoInv'
    BY TopoStep
<1>3. TopoInv => OrderIsSound
    BY InvMakesOrderSound
<1> QED
    BY <1>1, <1>2, <1>3, PTL DEF TopoSpec

-----------------------------------------------------------------------------
(***************************************************************************)
(* The daemon's shutdown is orderly whatever requests it serves: Daemon's  *)
(* ShutdownIsOrderly, for any set of requests, of any kinds.               *)
(*                                                                         *)
(* The property speaks of the closed store only; the invariant says of     *)
(* each stage of Run what has been done by then.                           *)
(***************************************************************************)

\* Nothing has been let in.
Unused ==
    /\ \A a \in Server : serving[a] \in {"no", "abandoned"}
    /\ \A r \in Request : req[r] = "none"

\* Both adapters refuse work, and what they had let in is over or has had its time.
Drained == shut = Adapter /\ (timedOut \/ \A r \in Request : ~inFlight(r))

DrainInv ==
    /\ DOMAIN serving = Server /\ DOMAIN req = Request
    /\ main \in {"new", "serving", "unready", "adapters", "manager", "store", "admin", "wait", "returned"}
    /\ shut \subseteq Adapter
    /\ shut # {} => draining /\ main \notin {"new", "serving", "unready"}
    /\ main = "adapters" => draining
    /\ main = "new" => Unused
    /\ main \in {"manager", "store", "admin", "wait"} => Drained
    /\ main = "returned" => Drained \/ Unused
    /\ storeOpen <=> main \in {"serving", "unready", "adapters", "manager", "store"}
    /\ serving["admin"] = "returned" => failed \/ main \in {"wait", "returned"}

-----------------------------------------------------------------------------
\* At the start nothing is open and nobody has come.
LEMMA DrainInitially == DaemonInit => DrainInv
BY DEF DaemonInit, DrainInv, Unused, Server, Adapter

\* A request is let in only by an adapter that has not been shut down.
LEMMA DrainRequests ==
    ASSUME DrainInv, UNCHANGED runVars, DOMAIN req' = Request,
           \A r \in Request : req'[r] \in {"waiting", "leaving"} =>
               \/ inFlight(r)
               \/ adapterOf(r) \notin shut /\ serving[adapterOf(r)] \notin {"no", "abandoned"},
           \A r \in Request : req[r] = "none" /\ req'[r] # "none" =>
               serving[adapterOf(r)] \notin {"no", "abandoned"}
    PROVE  DrainInv'
<1>1. \A r \in Request : adapterOf(r) \in Adapter /\ adapterOf(r) \in Server
    BY DEF adapterOf, Adapter, Server
<1>2. /\ main' = main /\ shut' = shut /\ serving' = serving /\ timedOut' = timedOut
      /\ draining' = draining /\ storeOpen' = storeOpen /\ failed' = failed
    BY DEF runVars
<1>3. Drained => Drained'
    BY <1>1, <1>2, Zenon DEF Drained, inFlight
<1>4. Unused => Unused'
    BY <1>1, <1>2, Zenon DEF Unused
<1> QED
    BY <1>2, <1>3, <1>4 DEF DrainInv

\* The steps of a request and of a Watch session.
LEMMA DrainUnwinds ==
    ASSUME DrainInv,
           \/ Unwinding
           \/ \E r \in Request : Arrive(r) \/ Stick(r) \/ CallReturns(r) \/ Finishes(r) \/ ContextEnds(r)
           \/ \E r \in Request, id \in WatchId : CreateWatch(r, id) \/ CancelWatch(r, id)
    PROVE  DrainInv'
<1>0. DOMAIN req = Request
    BY DEF DrainInv
<1>1. UNCHANGED runVars
    BY DEF Unwinding, Unwind, AbandonClaim, CallReturns, RegisterWatch, LeaveSession, Left, PumpEnds, Arrive, Stick,
           Finishes, ContextEnds, CreateWatch, CancelWatch
<1>2. CASE UNCHANGED req
    BY <1>0, <1>1, <1>2, DrainRequests DEF inFlight
<1>3. CASE \E r \in Request, to \in {"waiting", "leaving", "over"} :
              inFlight(r) /\ Set(r, to)
    <2>1. PICK r \in Request, to \in {"waiting", "leaving", "over"} :
              inFlight(r) /\ Set(r, to)
        BY <1>3
    <2>2. req' = [req EXCEPT ![r] = to] /\ req[r] # "none"
        BY <2>1 DEF Set, inFlight
    <2>3. /\ DOMAIN req' = Request
          /\ \A s \in Request : s # r => req'[s] = req[s]
        BY <1>0, <2>2
    <2>4. \A s \in Request : req'[s] \in {"waiting", "leaving"} => inFlight(s)
        BY <2>1, <2>3, Zenon DEF inFlight
    <2> QED
        BY <1>1, <2>2, <2>3, <2>4, DrainRequests
<1>4. CASE \E r \in Request : Arrive(r)
    <2>1. PICK r \in Request : Arrive(r)
        BY <1>4
    <2>2. /\ req' = [req EXCEPT ![r] = "waiting"]
          /\ serving[adapterOf(r)] = "accepting" /\ adapterOf(r) \notin shut
        BY <2>1 DEF Arrive, Set
    <2>3. DOMAIN req' = Request /\ \A s \in Request : s # r => req'[s] = req[s]
        BY <1>0, <2>2
    <2> QED
        BY <1>1, <2>2, <2>3, DrainRequests DEF inFlight
<1>5. \/ UNCHANGED req
      \/ \E r \in Request, to \in {"waiting", "leaving", "over"} : inFlight(r) /\ Set(r, to)
      \/ \E r \in Request : Arrive(r)
    BY DEF Unwinding, Unwind, AbandonClaim, CallReturns, RegisterWatch, LeaveSession, Left, PumpEnds, Stick,
           Finishes, ContextEnds, CreateWatch, CancelWatch, open, inFlight
<1> QED
    BY <1>2, <1>3, <1>4, <1>5

\* The Serve goroutines.
LEMMA DrainServes ==
    ASSUME DrainInv, NEW a \in Server, Serve(a) \/ ListenerFails(a) \/ ServeReturns(a)
    PROVE  DrainInv'
<1>0. failed => failed'
    BY Zenon DEF Serve, ListenerFails, ServeReturns
<1>1. UNCHANGED <<main, shut, draining, timedOut, storeOpen, req>>
    BY DEF Serve, ListenerFails, ServeReturns
<1>2. PICK to \in {"accepting", "returned"} : serving' = [serving EXCEPT ![a] = to]
    BY DEF Serve, ListenerFails, ServeReturns
<1>3. serving[a] \notin {"no", "abandoned"}
    BY DEF Serve, ListenerFails, ServeReturns
<1>4. a = "admin" /\ to = "returned" => failed' \/ main \in {"wait", "returned"}
    BY <1>2 DEF Serve, ListenerFails, ServeReturns, stopped, DrainInv
<1>5. Unused => Unused'
    BY <1>3 DEF Unused
<1>6. Drained => Drained'
    BY <1>1 DEF Drained, inFlight
<1>7. DOMAIN serving' = Server
    BY <1>2 DEF DrainInv
<1>8. serving'["admin"] = "returned" => failed' \/ main \in {"wait", "returned"}
    BY <1>0, <1>1, <1>2, <1>4 DEF DrainInv, Server
<1> QED
    BY <1>1, <1>5, <1>6, <1>7, <1>8 DEF DrainInv

\* Run and shutdown.
LEMMA DrainRuns ==
    ASSUME DrainInv, Start \/ StartFails \/ Trigger \/ ShutdownStep \/ Deadline
    PROVE  DrainInv'
<1>1. CASE Start
    BY <1>1 DEF Start, DrainInv, Server
<1>2. CASE StartFails
    <2>1. Unused => Unused'
        BY <1>2 DEF StartFails, Unused
    <2> QED
        BY <1>2, <2>1 DEF StartFails, DrainInv
<1>3. CASE Trigger
    BY <1>3 DEF Trigger, To, DrainInv
<1>4. CASE FailReadiness
    BY <1>4 DEF FailReadiness, To, DrainInv
<1>5. CASE \E a \in Adapter : ShutAdapter(a)
    <2>1. PICK a \in Adapter : ShutAdapter(a)
        BY <1>5
    <2>2. draining
        BY <2>1 DEF ShutAdapter, DrainInv
    <2> QED
        BY <2>1, <2>2 DEF ShutAdapter, DrainInv
<1>6. CASE Deadline
    BY <1>6 DEF Deadline, DrainInv
<1>7. CASE AdaptersDown
    <2>1. Drained'
        BY <1>7 DEF AdaptersDown, adaptersDown, Drained, drained, inFlight, adapterOf, Adapter
    <2> QED
        BY <1>7, <2>1 DEF AdaptersDown, To, DrainInv
<1>8. CASE CloseManager \/ CloseStore \/ CloseAdmin \/ Return
    <2>1. Drained => Drained'
        BY <1>8 DEF CloseManager, CloseStore, CloseAdmin, Return, Drained, inFlight
    <2> QED
        <3>1. CASE CloseManager
            BY <2>1, <3>1 DEF CloseManager, To, DrainInv
        <3>2. CASE CloseStore
            BY <2>1, <3>2 DEF CloseStore, To, DrainInv
        <3>3. CASE CloseAdmin
            BY <2>1, <3>3 DEF CloseAdmin, To, DrainInv
        <3>4. CASE Return
            BY <2>1, <3>4 DEF Return, To, DrainInv
        <3> QED
            BY <1>8, <3>1, <3>2, <3>3, <3>4, Zenon
<1> QED
    BY <1>1, <1>2, <1>3, <1>4, <1>5, <1>6, <1>7, <1>8 DEF ShutdownStep

\* Every step keeps the invariant.
LEMMA DrainStep == DrainInv /\ [DaemonNext]_daemonVars => DrainInv'
<1> SUFFICES ASSUME DrainInv, [DaemonNext]_daemonVars PROVE DrainInv'
    OBVIOUS
<1>1. CASE UNCHANGED daemonVars
    BY <1>1 DEF daemonVars, DrainInv, Drained, Unused, inFlight
<1> QED
    BY <1>1, DrainRuns, DrainServes, DrainUnwinds DEF DaemonNext

\* Whatever the daemon serves: the store is closed under a request only when the shutdown
\* timeout ran out, /readyz says draining before an adapter refuses work, and the admin
\* listener answers until the store is closed unless something failed (daemon.go shutdown).
THEOREM ShutdownStaysOrderly == DaemonSpec => []ShutdownIsOrderly
<1>1. DaemonInit => DrainInv
    BY DrainInitially
<1>2. DrainInv /\ [DaemonNext]_daemonVars => DrainInv'
    BY DrainStep
<1>3. DrainInv => ShutdownIsOrderly
    BY DEF DrainInv, ShutdownIsOrderly, StoreOutlivesRequests, OrderedShutdown, Drained, Unused, inFlight
<1> QED
    BY <1>1, <1>2, <1>3, PTL DEF DaemonSpec

-----------------------------------------------------------------------------
(***************************************************************************)
(* The dependency counters of a node, for every finite set of              *)
(* predecessors.                                                           *)
(***************************************************************************)

\* Pure arithmetic of node.go: once nothing is unresolved, a rule either holds or
\* is out of reach; there is no third case in which a node could wait for nothing.
LEMMA Decided ==
  ASSUME NEW d \in DepCounts, NEW rule \in TriggerRule, d.Unsatisfied = 0
  PROVE  DepsReady(d, rule) \/ Unsatisfiable(d, rule)
  BY DEF DepCounts, TriggerRule, DepsReady, Unsatisfiable

\* A rule that holds cannot be out of reach, and only "Always" holds with
\* a predecessor unresolved.
LEMMA ReadyIsResolved ==
  ASSUME NEW d \in DepCounts, NEW rule \in TriggerRule, DepsReady(d, rule)
  PROVE  (rule = "Always" \/ d.Unsatisfied = 0) /\ ~ Unsatisfiable(d, rule)
  BY DEF DepCounts, TriggerRule, DepsReady, Unsatisfiable

\* Every set of predecessors has a size, and only the empty one has size 0.
LEMMA CountOf ==
  ASSUME NEW S \in SUBSET Pred
  PROVE  Cardinality(S) \in Nat /\ (Cardinality(S) = 0 <=> S = {})
  BY PredFinite, FS_Subset, FS_CardinalityType, FS_EmptySet

\* Counting a set one predecessor has joined.
LEMMA CountJoin ==
  ASSUME NEW S \in SUBSET Pred, NEW p \in Pred, p \notin S
  PROVE  Cardinality(S \cup {p}) = Cardinality(S) + 1
  BY PredFinite, FS_Subset, FS_AddElement

\* Counting a set one predecessor has left: it was not empty, so the guard of Less
\* never swallows a decrement.
LEMMA CountLeave ==
  ASSUME NEW S \in SUBSET Pred, NEW p \in S
  PROVE  Cardinality(S \ {p}) = Cardinality(S) - 1 /\ Cardinality(S) > 0
<1>1. IsFiniteSet(S)
  BY PredFinite, FS_Subset
<1>2. Cardinality(S \ {p}) = Cardinality(S) - 1
  BY <1>1, FS_RemoveElement
<1>3. Cardinality(S) \in Nat /\ Cardinality(S) # 0
  BY CountOf
<1> QED
  BY <1>2, <1>3
-----------------------------------------------------------------------------
\* The flag of an edge agrees with the predecessor's outcome.
FlagsAgree ==
    \A p \in Pred : /\ edge[p] = "Waiting" => outcome[p] = "Pending"
                    /\ edge[p] = "Satisfied" => outcome[p] \in Tally

\* A node that exists is in the phase its counters decide.
PhaseIsDecided ==
    /\ phase = "Absent" => \A p \in Pred : edge[p] = "None"
    /\ phase = "Blocked" => ~ DepsReady(deps, trigger) /\ ~ Unsatisfiable(deps, trigger)
    /\ phase = "Ready" => DepsReady(deps, trigger)

TallyInv == TallyTypeOK /\ FlagsAgree /\ DepsAreARecount /\ PhaseIsDecided

\* A node that has not been created has no edges and counts nothing.
LEMMA TallyInitially == TallyInit => TallyInv
<1> SUFFICES ASSUME TallyInit PROVE TallyInv
  OBVIOUS
<1>1. TallyTypeOK /\ FlagsAgree /\ PhaseIsDecided
  BY DEF TallyInit, TallyTypeOK, FlagsAgree, PhaseIsDecided, NoDeps, DepCounts, Edge, Tally
<1>2. Waiting = {} /\ \A t \in Tally : Counted(t) = {}
  BY DEF TallyInit, Waiting, Counted
<1>3. DepsAreARecount
  BY <1>2, FS_EmptySet DEF TallyInit, DepsAreARecount, NoDeps, Tally
<1> QED
  BY <1>1, <1>3 DEF TallyInv

\* settle leaves the node in the phase its counters decide.
LEMMA SettledIsDecided ==
  ASSUME NEW d \in DepCounts, NEW ph \in {"Blocked", "Ready", "Done"},
         trigger \in TriggerRule
  PROVE  /\ settled(ph, d) \in {"Blocked", "Ready", "Done"}
         /\ settled(ph, d) = "Blocked" =>
                ~ DepsReady(d, trigger) /\ ~ Unsatisfiable(d, trigger)
         /\ settled(ph, d) = "Ready" => DepsReady(d, trigger)
  BY DEF settled

\* AddNodes counts each declared predecessor once, by the state it is in.
LEMMA CreateStep ==
  ASSUME TallyInv, NEW declared \in SUBSET Pred, CreateNode(declared)
  PROVE  TallyInv'
<1> DEFINE Of(o) == {p \in declared : outcome[p] = o}
<1>1. \A o : Cardinality(Of(o)) \in Nat
  BY CountOf
<1> DEFINE linked == [Unsatisfied |-> Cardinality(Of("Pending")),
                      Succeeded   |-> Cardinality(Of("Succeeded")),
                      Skipped     |-> Cardinality(Of("Skipped")),
                      Failed      |-> Cardinality(Of("Failed"))]
<1>2. linked \in DepCounts
  BY <1>1, Zenon DEF DepCounts
<1>3. deps' = linked /\ phase' = settled("Blocked", linked) /\ trigger' = trigger /\ outcome' = outcome
  BY Zenon DEF CreateNode
<1>4. edge' = [p \in Pred |-> IF p \notin declared THEN "None"
                              ELSE IF outcome[p] = "Pending" THEN "Waiting"
                              ELSE "Satisfied"]
  BY DEF CreateNode
<1> HIDE DEF linked
<1>5. phase' \in {"Blocked", "Ready", "Done"} /\ PhaseIsDecided'
  BY <1>2, <1>3, SettledIsDecided DEF TallyInv, TallyTypeOK, PhaseIsDecided
<1>6. TallyTypeOK'
  BY <1>2, <1>3, <1>4, <1>5 DEF TallyInv, TallyTypeOK, Edge
<1>7. FlagsAgree'
  BY <1>3, <1>4 DEF TallyInv, TallyTypeOK, FlagsAgree
<1>8. Waiting' = Of("Pending") /\ \A t \in Tally : Counted(t)' = Of(t)
  BY <1>3, <1>4 DEF Waiting, Counted, Tally
<1>9. DepsAreARecount'
  BY <1>3, <1>8 DEF DepsAreARecount, Tally, linked
<1> QED
  BY <1>5, <1>6, <1>7, <1>9 DEF TallyInv

\* linkEdge raises the one counter the new edge belongs to.
LEMMA LinkStep ==
  ASSUME TallyInv, NEW p \in Pred, Link(p)
  PROVE  TallyInv'
<1>1. /\ edge[p] = "None" /\ phase \in {"Blocked", "Ready"}
      /\ edge' = [edge EXCEPT ![p] =
                    IF outcome[p] = "Pending" THEN "Waiting" ELSE "Satisfied"]
      /\ deps' = linkCount(p) /\ phase' = settled(phase, linkCount(p))
      /\ trigger' = trigger /\ outcome' = outcome
  BY DEF Link
<1>2. TallyTypeOK /\ FlagsAgree /\ DepsAreARecount
  BY DEF TallyInv
<1>3. linkCount(p) \in DepCounts
  BY <1>2 DEF TallyTypeOK, linkCount, DepCounts, Tally
<1>4. phase' \in {"Blocked", "Ready", "Done"} /\ PhaseIsDecided'
  BY <1>1, <1>2, <1>3, SettledIsDecided DEF TallyTypeOK, PhaseIsDecided
<1>5. TallyTypeOK' /\ FlagsAgree'
  BY <1>1, <1>2, <1>3, <1>4 DEF TallyTypeOK, FlagsAgree, Edge
<1>6. p \notin Waiting /\ \A t \in Tally : p \notin Counted(t)
  BY <1>1 DEF Waiting, Counted
<1>7. ASSUME outcome[p] = "Pending"
      PROVE  DepsAreARecount'
  <2>1. Waiting' = Waiting \cup {p} /\ \A t \in Tally : Counted(t)' = Counted(t)
    BY <1>1, <1>2, <1>7 DEF TallyTypeOK, Waiting, Counted, Tally
  <2>2. Cardinality(Waiting') = Cardinality(Waiting) + 1
    BY <1>6, <2>1, CountJoin, Zenon DEF Waiting
  <2> QED
    BY <1>1, <1>2, <1>7, <2>1, <2>2 DEF DepsAreARecount, linkCount, TallyTypeOK, DepCounts, Tally
<1>8. ASSUME NEW u \in Tally, outcome[p] = u
      PROVE  DepsAreARecount'
  <2>1. Waiting' = Waiting /\ Counted(u)' = Counted(u) \cup {p}
    BY <1>1, <1>2, <1>8 DEF TallyTypeOK, Waiting, Counted, Tally
  <2>2. \A t \in Tally \ {u} : Counted(t)' = Counted(t)
    BY <1>1, <1>2, <1>8 DEF TallyTypeOK, Waiting, Counted, Tally
  <2>3. Cardinality(Counted(u)') = Cardinality(Counted(u)) + 1
    BY <1>6, <2>1, CountJoin, Zenon DEF Counted
  <2>4. deps' = [deps EXCEPT ![u] = @ + 1]
    BY <1>1, <1>8 DEF linkCount, Tally
  <2> QED
    BY <1>2, <2>1, <2>2, <2>3, <2>4, Zenon DEF DepsAreARecount, TallyTypeOK, DepCounts, Tally
<1> QED
  BY <1>2, <1>4, <1>5, <1>7, <1>8 DEF TallyInv, TallyTypeOK

\* unlinkEdge lowers the counter the edge was counted in.
LEMMA UnlinkStep ==
  ASSUME TallyInv, NEW p \in Pred, Unlink(p)
  PROVE  TallyInv'
<1>1. /\ edge[p] # "None" /\ edge' = [edge EXCEPT ![p] = "None"]
      /\ deps' = unlinkCount(p) /\ phase' = settled(phase, unlinkCount(p))
      /\ trigger' = trigger /\ outcome' = outcome
  BY DEF Unlink
<1>2. TallyTypeOK /\ FlagsAgree /\ DepsAreARecount /\ phase \in {"Blocked", "Ready", "Done"}
  BY <1>1 DEF TallyInv, TallyTypeOK, PhaseIsDecided
<1>3. edge[p] = "Waiting" \/ (edge[p] = "Satisfied" /\ outcome[p] \in Tally)
  BY <1>1, <1>2 DEF TallyTypeOK, Edge, FlagsAgree
<1>4. unlinkCount(p) \in DepCounts
  BY <1>2, <1>3 DEF TallyTypeOK, unlinkCount, DepCounts, Tally, Less
<1>5. phase' \in {"Blocked", "Ready", "Done"} /\ PhaseIsDecided'
  BY <1>1, <1>2, <1>4, SettledIsDecided DEF TallyTypeOK, PhaseIsDecided
<1>6. TallyTypeOK' /\ FlagsAgree'
  BY <1>1, <1>2, <1>4, <1>5 DEF TallyTypeOK, FlagsAgree, Edge
<1>7. ASSUME edge[p] = "Waiting"
      PROVE  DepsAreARecount'
  <2>1. Waiting' = Waiting \ {p} /\ \A t \in Tally : Counted(t)' = Counted(t)
    BY <1>1, <1>2, <1>7 DEF TallyTypeOK, Waiting, Counted
  <2>2. Cardinality(Waiting') = Cardinality(Waiting) - 1 /\ Cardinality(Waiting) > 0
    BY <1>7, <2>1, CountLeave, Zenon DEF Waiting
  <2> QED
    BY <1>1, <1>2, <1>7, <2>1, <2>2
       DEF DepsAreARecount, unlinkCount, Less, TallyTypeOK, DepCounts, Tally
<1>8. ASSUME edge[p] = "Satisfied", NEW u \in Tally, outcome[p] = u
      PROVE  DepsAreARecount'
  <2>1. Waiting' = Waiting /\ Counted(u)' = Counted(u) \ {p}
    BY <1>1, <1>2, <1>8 DEF TallyTypeOK, Waiting, Counted
  <2>2. \A t \in Tally \ {u} : Counted(t)' = Counted(t)
    BY <1>1, <1>2, <1>8 DEF TallyTypeOK, Waiting, Counted
  <2>3. Cardinality(Counted(u)') = Cardinality(Counted(u)) - 1 /\ Cardinality(Counted(u)) > 0
    BY <1>8, <2>1, CountLeave, Zenon DEF Counted
  <2>4. deps' = [deps EXCEPT ![u] = Less(@)]
    BY <1>1, <1>8 DEF unlinkCount
  <2> QED
    BY <1>2, <2>1, <2>2, <2>3, <2>4, Zenon DEF DepsAreARecount, Less, TallyTypeOK, DepCounts, Tally
<1> QED
  BY <1>3, <1>5, <1>6, <1>7, <1>8 DEF TallyInv

\* A predecessor resolves.  That the visit of terminate never re-blocks a Ready
\* node is safe because a rule that holds is either "Always" or has nothing left
\* to wait for, so the edge just resolved cannot have been one of its own.
LEMMA ResolveStep ==
  ASSUME TallyInv, NEW p \in Pred, NEW u \in Tally, Resolve(p, u)
  PROVE  TallyInv'
<1>1. /\ outcome[p] = "Pending" /\ outcome' = [outcome EXCEPT ![p] = u]
      /\ trigger' = trigger
  BY DEF Resolve
<1>2. TallyTypeOK /\ FlagsAgree /\ DepsAreARecount /\ PhaseIsDecided
  BY DEF TallyInv
<1>3. CASE edge[p] # "Waiting"
  <2>1. edge' = edge /\ deps' = deps /\ phase' = phase
    BY <1>3 DEF Resolve
  <2>2. edge[p] = "None"
    BY <1>1, <1>2, <1>3 DEF TallyTypeOK, Edge, FlagsAgree, Tally
  <2>3. TallyTypeOK' /\ FlagsAgree'
    BY <1>1, <1>2, <2>1, <2>2 DEF TallyTypeOK, FlagsAgree
  <2>4. PhaseIsDecided'
    BY <1>1, <1>2, <2>1 DEF PhaseIsDecided
  <2>5. Waiting' = Waiting /\ \A t \in Tally : Counted(t)' = Counted(t)
    BY <1>1, <1>2, <2>1, <2>2 DEF TallyTypeOK, Waiting, Counted
  <2> QED
    BY <1>2, <2>1, <2>3, <2>4, <2>5, Zenon DEF TallyInv, DepsAreARecount
<1>4. CASE edge[p] = "Waiting"
  <2> DEFINE d == markCount(u)
  <2>1. /\ edge' = [edge EXCEPT ![p] = "Satisfied"] /\ deps' = d
        /\ phase' = IF phase \notin {"Blocked", "Ready"} THEN phase
                    ELSE IF Unsatisfiable(d, trigger) THEN "Done"
                    ELSE IF DepsReady(d, trigger) THEN "Ready" ELSE phase
    BY <1>4 DEF Resolve
  <2>2. d \in DepCounts
    <3> DEFINE e == [deps EXCEPT !.Unsatisfied = Less(deps.Unsatisfied)]
    <3>1. deps \in DepCounts /\ Less(deps.Unsatisfied) \in Nat
      BY <1>2 DEF TallyTypeOK, DepCounts, Less
    <3>2. e \in DepCounts /\ deps[u] \in Nat
      BY <3>1 DEF DepCounts, Tally
    <3>3. d = [e EXCEPT ![u] = deps[u] + 1]
      BY <3>1 DEF markCount, DepCounts, Tally
    <3> HIDE DEF e, d
    <3>4. [e EXCEPT ![u] = deps[u] + 1] \in DepCounts
      BY <3>2 DEF DepCounts, Tally
    <3> QED
      BY <3>3, <3>4
  <2>3. phase # "Absent"
    BY <1>2, <1>4 DEF PhaseIsDecided
  <2>4. deps.Unsatisfied # 0
    <3>1. p \in Waiting /\ Waiting \in SUBSET Pred
      BY <1>4 DEF Waiting
    <3> QED
      BY <3>1, <1>2, CountOf DEF DepsAreARecount
  <2>5. phase = "Ready" => trigger = "Always"
    BY <1>2, <2>4, ReadyIsResolved DEF TallyTypeOK, PhaseIsDecided
  <2>6. PhaseIsDecided' /\ phase' \in {"Blocked", "Ready", "Done"}
    <3> HIDE DEF d
    <3>1. trigger = "Always" => DepsReady(d, trigger)
      BY DEF DepsReady
    <3> QED
      BY <1>1, <1>2, <2>1, <2>3, <2>5, <3>1 DEF PhaseIsDecided, TallyTypeOK
  <2>7. TallyTypeOK' /\ FlagsAgree'
    <3> HIDE DEF d
    <3> QED
      BY <1>1, <1>2, <2>1, <2>2, <2>6 DEF TallyTypeOK, FlagsAgree, Edge
  <2>8. Waiting' = Waiting \ {p} /\ Counted(u)' = Counted(u) \cup {p}
    BY <1>1, <1>2, <1>4, <2>1 DEF TallyTypeOK, Waiting, Counted
  <2>9. p \in Waiting /\ p \notin Counted(u)
    BY <1>4 DEF Waiting, Counted
  <2>10. \A t \in Tally \ {u} : Counted(t)' = Counted(t)
    BY <1>1, <1>2, <1>4, <2>1 DEF TallyTypeOK, Counted, Tally
  <2>11. Cardinality(Waiting') = Cardinality(Waiting) - 1 /\ Cardinality(Waiting) > 0
    BY <2>8, <2>9, CountLeave, Zenon DEF Waiting
  <2>12. Cardinality(Counted(u)') = Cardinality(Counted(u)) + 1
    BY <2>8, <2>9, CountJoin, Zenon DEF Counted
  <2>13. DepsAreARecount'
    BY <1>2, <2>1, <2>10, <2>11, <2>12
       DEF DepsAreARecount, markCount, Less, TallyTypeOK, DepCounts, Tally
  <2> QED
    BY <2>6, <2>7, <2>13 DEF TallyInv
<1> QED
  BY <1>3, <1>4

\* Every operation keeps the counters, the flags and the phase in agreement.
LEMMA TallyStep == TallyInv /\ [TallyNext]_tallyVars => TallyInv'
<1> SUFFICES ASSUME TallyInv, [TallyNext]_tallyVars PROVE TallyInv'
  OBVIOUS
<1>1. CASE UNCHANGED tallyVars
  BY <1>1, Zenon DEF TallyInv, TallyTypeOK, FlagsAgree, DepsAreARecount, PhaseIsDecided,
              Waiting, Counted, tallyVars
<1>2. ASSUME NEW declared \in SUBSET Pred, CreateNode(declared) PROVE TallyInv'
  BY <1>2, CreateStep
<1>3. ASSUME NEW p \in Pred, Link(p) PROVE TallyInv'
  BY <1>3, LinkStep
<1>4. ASSUME NEW p \in Pred, Unlink(p) PROVE TallyInv'
  BY <1>4, UnlinkStep
<1>5. ASSUME NEW p \in Pred, NEW t \in Tally, Resolve(p, t) PROVE TallyInv'
  BY <1>5, ResolveStep
<1> QED
  BY <1>1, <1>2, <1>3, <1>4, <1>5 DEF TallyNext

\* The counters, the flags and the phase of a node agree in every reachable state.
LEMMA TallyInvariant == TallySpec => []TallyInv
  BY TallyInitially, TallyStep, PTL DEF TallySpec
-----------------------------------------------------------------------------
\* scope.go linkEdge, markSatisfied and unlinkEdge: for any number of
\* predecessors, and any order of edges coming, going and resolving, the counters
\* of a node are a recount of its edges.
THEOREM CountersAreExact == TallySpec => []DepsAreARecount
<1>1. TallyInv => DepsAreARecount
  BY DEF TallyInv
<1> QED
  BY <1>1, TallyInvariant, PTL

\* G3: a node is claimable only while its trigger rule holds.
THEOREM ReadyIsJustified == TallySpec => []ReadyMeansRuleHolds
<1>1. TallyInv => ReadyMeansRuleHolds
  BY DEF TallyInv, PhaseIsDecided, ReadyMeansRuleHolds
<1> QED
  BY <1>1, TallyInvariant, PTL

\* scope.go settle: a Blocked node always has an unresolved predecessor whose
\* outcome will visit it, so no node waits for nothing.
THEOREM NobodyWaitsForNothing == TallySpec => []BlockedWaitsOnSomeone
<1>1. ASSUME TallyInv, phase = "Blocked"
      PROVE  \E p \in Pred : edge[p] = "Waiting" /\ outcome[p] = "Pending"
  <2>1. deps.Unsatisfied # 0
    BY <1>1, Decided DEF TallyInv, TallyTypeOK, PhaseIsDecided
  <2>2. Waiting # {}
    BY <1>1, <2>1, CountOf DEF TallyInv, DepsAreARecount, Waiting
  <2> QED
    BY <1>1, <2>2 DEF TallyInv, FlagsAgree, Waiting
<1>2. TallyInv => BlockedWaitsOnSomeone
  BY <1>1 DEF BlockedWaitsOnSomeone
<1> QED
  BY <1>2, TallyInvariant, PTL

\* Both halves together: for every rule and any number of predecessors, the phase a
\* node is in is the one scope.go settle should have put it in.
THEOREM PhaseIsJustified == TallySpec => []PhaseIsRight
<1>1. BlockedWaitsOnSomeone /\ ReadyMeansRuleHolds => PhaseIsRight
  BY DEF PhaseIsRight
<1> QED
  BY <1>1, ReadyIsJustified, NobodyWaitsForNothing, PTL

\* A completion adds to the three tallies and leaves nothing unresolved.
LEMMA CompletionAdds ==
  ASSUME NEW d \in DepCounts, NEW c \in Completions(d)
  PROVE  /\ c \in DepCounts /\ c.Unsatisfied = 0
         /\ c.Failed >= d.Failed /\ c.Skipped >= d.Skipped
         /\ d.Unsatisfied = 0 => c.Succeeded = d.Succeeded
<1>1. PICK x \in [Tally -> 0..d.Unsatisfied] :
        c = [Unsatisfied |-> 0,
             Succeeded   |-> d.Succeeded + x["Succeeded"],
             Skipped     |-> d.Skipped + x["Skipped"],
             Failed      |-> d.Failed + x["Failed"]]
  BY Zenon DEF Completions
<1>2. /\ d.Unsatisfied \in Nat /\ d.Succeeded \in Nat /\ d.Skipped \in Nat /\ d.Failed \in Nat
      /\ \A t \in Tally : x[t] \in 0..d.Unsatisfied
  BY DEF DepCounts
<1>3. /\ x["Succeeded"] \in 0..d.Unsatisfied
      /\ x["Skipped"] \in 0..d.Unsatisfied /\ x["Failed"] \in 0..d.Unsatisfied
  BY <1>2 DEF Tally
<1> QED
  BY <1>1, <1>2, <1>3 DEF DepCounts

\* The completion in which every unresolved predecessor succeeds is the best there is.
LEMMA AllMaySucceed ==
  ASSUME NEW d \in DepCounts
  PROVE  [Unsatisfied |-> 0, Succeeded |-> d.Succeeded + d.Unsatisfied,
          Skipped |-> d.Skipped, Failed |-> d.Failed] \in Completions(d)
<1> DEFINE x == [t \in Tally |-> IF t = "Succeeded" THEN d.Unsatisfied ELSE 0]
<1>1. d.Unsatisfied \in Nat /\ d.Succeeded \in Nat /\ d.Skipped \in Nat /\ d.Failed \in Nat
  BY DEF DepCounts
<1>2. x \in [Tally -> 0..d.Unsatisfied]
  BY <1>1
<1>3. x["Succeeded"] = d.Unsatisfied /\ x["Skipped"] = 0 /\ x["Failed"] = 0
  BY DEF Tally
<1> HIDE DEF x
<1>4. /\ x["Succeeded"] + x["Skipped"] + x["Failed"] = d.Unsatisfied
      /\ d.Skipped + x["Skipped"] = d.Skipped /\ d.Failed + x["Failed"] = d.Failed
  BY <1>1, <1>3
<1> QED
  BY <1>2, <1>3, <1>4, Zenon DEF Completions

\* DepCounts.Unsatisfiable gives up on a rule exactly when no completion satisfies it.
LEMMA UnsatisfiableIsExact ==
  ASSUME NEW d \in DepCounts, NEW rule \in TriggerRule
  PROVE  Unsatisfiable(d, rule) <=>
            rule # "Always" /\ \A c \in Completions(d) : ~ DepsReady(c, rule)
<1>0. d.Unsatisfied \in Nat /\ d.Succeeded \in Nat /\ d.Skipped \in Nat /\ d.Failed \in Nat
  BY DEF DepCounts
<1>1. ASSUME Unsatisfiable(d, rule), NEW c \in Completions(d), DepsReady(c, rule)
      PROVE  FALSE
  <2>1. /\ c.Failed \in Nat /\ c.Skipped \in Nat /\ c.Succeeded \in Nat
        /\ c.Failed >= d.Failed /\ c.Skipped >= d.Skipped
        /\ d.Unsatisfied = 0 => c.Succeeded = d.Succeeded
    BY CompletionAdds DEF DepCounts
  <2> QED
    BY <1>0, <1>1, <2>1 DEF Unsatisfiable, DepsReady
<1>2. Unsatisfiable(d, rule) => rule # "Always"
  BY DEF Unsatisfiable
<1>3. ASSUME rule # "Always", ~ Unsatisfiable(d, rule)
      PROVE  \E c \in Completions(d) : DepsReady(c, rule)
  <2> DEFINE c == [Unsatisfied |-> 0, Succeeded |-> d.Succeeded + d.Unsatisfied,
                   Skipped |-> d.Skipped, Failed |-> d.Failed]
  <2>1. DepsReady(c, rule)
    <3>1. /\ c.Unsatisfied = 0 /\ c.Succeeded = d.Succeeded + d.Unsatisfied
          /\ c.Skipped = d.Skipped /\ c.Failed = d.Failed
      OBVIOUS
    <3> HIDE DEF c
    <3>2. CASE rule = "AllSuccess"
      BY <1>0, <1>3, <3>1, <3>2 DEF Unsatisfiable, DepsReady
    <3>3. CASE rule = "AllDone"
      BY <3>1, <3>3 DEF DepsReady
    <3>4. CASE rule \in {"NoneFailed", "NoneFailedMinOneSuccess"}
      BY <1>0, <1>3, <3>1, <3>4 DEF Unsatisfiable, DepsReady
    <3> QED
      BY <1>3, <3>2, <3>3, <3>4 DEF TriggerRule
  <2> QED
    BY <2>1, AllMaySucceed
<1> QED
  BY <1>1, <1>2, <1>3

\* Whatever the predecessors do and in whatever order: a node that has some is given up
\* exactly when no way in which the unresolved ones can still end would let it run, and
\* never while some way would (node.go DepCounts.Unsatisfiable).
THEOREM DoomIsNeverEarlyOrLate == TallySpec => []DoomIsExact
<1>1. TallyInv => DoomIsExact
  BY UnsatisfiableIsExact DEF TallyInv, TallyTypeOK, DoomIsExact
<1> QED
  BY <1>1, TallyInvariant, PTL

-----------------------------------------------------------------------------
(***************************************************************************)
(* The fencing guarantees of LeaseProtocol, for every set of nodes and     *)
(* every bound on the epoch.                                               *)
(***************************************************************************)

\* Type correctness is inductive on its own.
LEMMA TypeInit == Init => TypeOK
  BY DEF Init, TypeOK, State, Lease

\* Every operation keeps the state of its type.
LEMMA TypeStep == TypeOK /\ [Next]_vars => TypeOK'
<1> SUFFICES ASSUME TypeOK, [Next]_vars PROVE TypeOK'
  OBVIOUS
<1> USE DEF TypeOK, Lease
<1>1. ASSUME NEW S \in SUBSET Node, Create(S) PROVE TypeOK'
  BY <1>1 DEF Create, ForgetExpired
<1>2. CASE Edit
  BY <1>2 DEF Edit, ForgetExpired
<1>3. ASSUME NEW S \in SUBSET Node, Cancel(S) PROVE TypeOK'
  BY <1>3 DEF Cancel, ForgetExpired
<1>4. ASSUME NEW S \in SUBSET Node, NEW F \in SUBSET Node, Retire(S, F) PROVE TypeOK'
  BY <1>4 DEF Retire, ForgetExpired
<1>5. ASSUME NEW S \in SUBSET Node, NEW R \in SUBSET Node, Claim(S, R) PROVE TypeOK'
  BY <1>5 DEF Claim
<1>6. ASSUME NEW R \in SUBSET Node, Sweep(R) PROVE TypeOK'
  BY <1>6 DEF Sweep, ForgetExpired
<1>7. ASSUME NEW l \in granted, Complete(l[1], l[2]) PROVE TypeOK'
  BY <1>7 DEF Complete, ForgetExpired
<1>8. ASSUME NEW l \in granted, Extend(l[1], l[2]) PROVE TypeOK'
  BY <1>8 DEF Extend
<1>9. ASSUME NEW S \in SUBSET Node, Tick(S) PROVE TypeOK'
  BY <1>9 DEF Tick
<1>10. CASE UNCHANGED vars
  BY <1>10 DEF vars
<1> QED
  BY <1>1, <1>2, <1>3, <1>4, <1>5, <1>6, <1>7, <1>8, <1>9, <1>10, Zenon DEF Next

\* Every state of the protocol is well typed.
THEOREM TypeCorrect == Spec => []TypeOK
  BY TypeInit, TypeStep, PTL DEF Spec
-----------------------------------------------------------------------------
(***************************************************************************)
(* Fencing.  AtMostOneEffectPerEpoch is not inductive: to know that a Claim *)
(* issues an epoch nobody answered for, one must know that every epoch ever *)
(* granted on the node lies at or below its present one (GrantsBelowEpoch), *)
(* and that it lies below the floor once the node is gone, since that is    *)
(* where a recycled identifier starts.                                      *)
(***************************************************************************)
HeldWasGranted ==
    \A n \in Node : state[n] = "Claimed" => <<n, epoch[n]>> \in granted

ExpiredIsHeld == \A n \in expired : state[n] = "Claimed"

Fencing ==
    /\ GrantsBelowEpoch
    /\ AcceptedWasGranted
    /\ AtMostOneEffectPerEpoch
    /\ HeldWasGranted
    /\ ExpiredIsHeld

\* The fencing invariant holds of an empty scope.
LEMMA FencingInit == Init => Fencing
  BY DEF Init, Fencing, GrantsBelowEpoch, AcceptedWasGranted, AtMostOneEffectPerEpoch,
         HeldWasGranted, ExpiredIsHeld

\* The steps that neither grant, accept, create nor delete: a node is Claimed
\* afterwards only if it was, and no epoch moves.
LEMMA QuietStep ==
  ASSUME TypeOK, Fencing,
         UNCHANGED <<epoch, floor, granted, accepted>>,
         \A n \in Node : state'[n] = "Claimed" => state[n] = "Claimed",
         \A n \in Node : state'[n] = "Absent" <=> state[n] = "Absent",
         ExpiredIsHeld'
  PROVE  Fencing'
<1> USE DEF TypeOK, Lease, Fencing
<1>1. GrantsBelowEpoch'
  BY DEF GrantsBelowEpoch
<1>2. AcceptedWasGranted'
  BY DEF AcceptedWasGranted
<1>3. AtMostOneEffectPerEpoch'
  BY DEF AtMostOneEffectPerEpoch
<1>4. HeldWasGranted'
  BY DEF HeldWasGranted
<1> QED
  BY <1>1, <1>2, <1>3, <1>4

\* Every operation keeps the fencing invariant.
LEMMA FencingStep == TypeOK /\ Fencing /\ [Next]_vars => Fencing'
<1> SUFFICES ASSUME TypeOK, Fencing, [Next]_vars PROVE Fencing'
  OBVIOUS
<1>1. ASSUME NEW S \in SUBSET Node, Create(S) PROVE Fencing'
  <2> USE <1>1 DEF TypeOK, Lease, Fencing, Create, In, Bystander
  <2>1. GrantsBelowEpoch'
    BY DEF GrantsBelowEpoch
  <2>2. AcceptedWasGranted'
    BY DEF AcceptedWasGranted
  <2>3. \A n \in Node : state'[n] = "Claimed" => n \notin S /\ state[n] = "Claimed"
    OBVIOUS
  <2>4. AtMostOneEffectPerEpoch'
    BY <2>3 DEF AtMostOneEffectPerEpoch
  <2>5. HeldWasGranted'
    BY <2>3 DEF HeldWasGranted
  <2>6. ExpiredIsHeld'
    BY DEF ExpiredIsHeld, ForgetExpired
  <2> QED
    BY <2>1, <2>2, <2>4, <2>5, <2>6
<1>2. CASE Edit
  BY <1>2, QuietStep, Zenon DEF Edit, Bystander, ForgetExpired, ExpiredIsHeld, TypeOK, Fencing
<1>3. ASSUME NEW S \in SUBSET Node, Cancel(S) PROVE Fencing'
  BY <1>3, QuietStep, Zenon DEF Cancel, Bystander, ForgetExpired, ExpiredIsHeld, TypeOK, Fencing, In
<1>4. ASSUME NEW S \in SUBSET Node, NEW F \in SUBSET Node, Retire(S, F) PROVE Fencing'
  <2> USE <1>4 DEF TypeOK, Lease, Fencing, Retire, In, Bystander
  <2>1. GrantsBelowEpoch'
    <3> SUFFICES ASSUME NEW l \in granted
                 PROVE  l[2] <= IF state'[l[1]] = "Absent" THEN floor' ELSE epoch'[l[1]]
      BY Zenon DEF GrantsBelowEpoch
    <3>0. l[1] \in Node /\ l[2] \in Nat /\ floor' \in Nat
      OBVIOUS
    <3>1. l[2] <= IF state[l[1]] = "Absent" THEN floor ELSE epoch[l[1]]
      BY Zenon DEF GrantsBelowEpoch
    <3>2. floor \in Nat /\ floor' >= floor /\ epoch[l[1]] \in Nat
      BY <3>0, Zenon
    <3>3. CASE l[1] \in S
      <4>1. state[l[1]] # "Absent" /\ state'[l[1]] = "Absent" /\ floor' >= epoch[l[1]]
        BY <3>3, Zenon
      <4> HIDE DEF TypeOK, Lease, Fencing, Retire, In, Bystander
      <4> QED
        BY <3>0, <3>1, <3>2, <4>1
    <3>4. CASE l[1] \notin S
      <4>1. epoch'[l[1]] = epoch[l[1]]
        BY <3>0, <3>4, Zenon
      <4>2. state'[l[1]] = "Absent" <=> state[l[1]] = "Absent"
        BY <3>0, <3>4, Zenon
      <4> HIDE DEF TypeOK, Lease, Fencing, Retire, In, Bystander
      <4> QED
        BY <3>0, <3>1, <3>2, <4>1, <4>2
    <3> QED
      BY <3>3, <3>4, Zenon
  <2>2. AcceptedWasGranted'
    BY Zenon DEF AcceptedWasGranted
  <2>3. \A n \in Node : state'[n] = "Claimed" => n \notin S /\ state[n] = "Claimed"
    BY Zenon
  <2>4. AtMostOneEffectPerEpoch'
    BY <2>3, Zenon DEF AtMostOneEffectPerEpoch
  <2>5. HeldWasGranted'
    BY <2>3, Zenon DEF HeldWasGranted
  <2>6. ExpiredIsHeld'
    BY DEF ExpiredIsHeld, ForgetExpired
  <2> QED
    BY <2>1, <2>2, <2>4, <2>5, <2>6, Zenon
<1>5. ASSUME NEW S \in SUBSET Node, NEW R \in SUBSET Node, Claim(S, R) PROVE Fencing'
  <2> USE <1>5 DEF TypeOK, Lease, Fencing, Claim, In, Bystander
  <2>0. \A n \in S : state[n] # "Absent"
    BY Zenon DEF ExpiredIsHeld
  <2>1. \A n \in Node : state'[n] = "Absent" => n \notin S /\ state[n] = "Absent"
    BY Zenon DEF ExpiredIsHeld
  <2>2. GrantsBelowEpoch'
    <3> SUFFICES ASSUME NEW l \in granted'
                 PROVE  l[2] <= IF state'[l[1]] = "Absent" THEN floor' ELSE epoch'[l[1]]
      BY Zenon DEF GrantsBelowEpoch
    <3>1. CASE l \in granted
      <4>1. l[1] \in Node /\ l[2] \in Nat
        BY <3>1, Zenon
      <4>2. l[2] <= IF state[l[1]] = "Absent" THEN floor ELSE epoch[l[1]]
        BY <3>1, Zenon DEF GrantsBelowEpoch
      <4>3. state[l[1]] = "Absent" => state'[l[1]] = "Absent" /\ l[1] \notin S
        BY <4>1, <2>0, Zenon DEF ExpiredIsHeld
      <4>4. /\ epoch'[l[1]] = IF l[1] \in S THEN epoch[l[1]] + 1 ELSE epoch[l[1]]
            /\ floor' = floor /\ epoch[l[1]] \in Nat
        BY <4>1, Zenon
      <4> HIDE DEF TypeOK, Lease, Fencing, Claim, In, Bystander
      <4> QED
        BY <4>1, <4>2, <4>3, <4>4, <2>1
    <3>2. CASE l \in {<<n, epoch[n] + 1>> : n \in S}
      <4>1. PICK n \in S : l = <<n, epoch[n] + 1>>
        BY <3>2, Zenon
      <4>2. l[1] = n /\ l[2] = epoch[n] + 1
        BY <4>1, Zenon
      <4>3. state'[n] = "Claimed" /\ epoch'[n] = epoch[n] + 1 /\ epoch[n] \in Nat
        BY Zenon
      <4> HIDE DEF TypeOK, Lease, Fencing, Claim, In, Bystander
      <4> QED
        BY <4>2, <4>3
    <3> QED
      BY <3>1, <3>2, Zenon
  <2>3. AcceptedWasGranted'
    BY Zenon DEF AcceptedWasGranted
  <2>4. AtMostOneEffectPerEpoch'
    <3> SUFFICES ASSUME NEW n \in Node, state'[n] = "Claimed"
                 PROVE  <<n, epoch'[n]>> \notin accepted
      BY Zenon DEF AtMostOneEffectPerEpoch
    <3>1. CASE n \in S
      <4>1. <<n, epoch[n] + 1>> \notin granted
        <5>1. SUFFICES ASSUME <<n, epoch[n] + 1>> \in granted PROVE FALSE
          BY Zenon
        <5>2. epoch[n] + 1 <= epoch[n] /\ epoch[n] \in Nat
          BY <3>1, <2>0, <5>1, Zenon DEF GrantsBelowEpoch
        <5> HIDE DEF TypeOK, Lease, Fencing, Claim, In, Bystander
        <5> QED
          BY <5>2
      <4> QED
        BY <3>1, <4>1, Zenon DEF AcceptedWasGranted
    <3>2. CASE n \notin S
      BY <3>2, Zenon DEF AtMostOneEffectPerEpoch
    <3> QED
      BY <3>1, <3>2, Zenon
  <2>5. HeldWasGranted'
    BY Zenon DEF HeldWasGranted
  <2>6. ExpiredIsHeld'
    BY Zenon DEF ExpiredIsHeld
  <2> QED
    BY <2>2, <2>3, <2>4, <2>5, <2>6, Zenon
<1>6. ASSUME NEW R \in SUBSET Node, Sweep(R) PROVE Fencing'
  BY <1>6, QuietStep, Zenon DEF Sweep, Bystander, ForgetExpired, ExpiredIsHeld, TypeOK, Fencing
<1>7. ASSUME NEW l \in granted, Complete(l[1], l[2]) PROVE Fencing'
  <2> USE <1>7 DEF TypeOK, Lease, Fencing, Complete, Bystander
  <2>1. l[1] \in Node /\ l[2] \in Nat /\ l = <<l[1], l[2]>>
    OBVIOUS
  <2>2. \A n \in Node : state'[n] = "Claimed" => n # l[1] /\ state[n] = "Claimed"
    BY <2>1
  <2>3. GrantsBelowEpoch'
    BY <2>1 DEF GrantsBelowEpoch
  <2>4. AcceptedWasGranted'
    BY DEF AcceptedWasGranted
  <2>5. AtMostOneEffectPerEpoch'
    BY <2>1, <2>2 DEF AtMostOneEffectPerEpoch
  <2>6. HeldWasGranted'
    BY <2>2 DEF HeldWasGranted
  <2>7. ExpiredIsHeld'
    BY DEF ExpiredIsHeld, ForgetExpired
  <2> QED
    BY <2>3, <2>4, <2>5, <2>6, <2>7
<1>8. ASSUME NEW l \in granted, Extend(l[1], l[2]) PROVE Fencing'
  BY <1>8, QuietStep DEF Extend, ExpiredIsHeld, TypeOK, Fencing
<1>9. ASSUME NEW S \in SUBSET Node, Tick(S) PROVE Fencing'
  BY <1>9, QuietStep DEF Tick, In, ExpiredIsHeld, TypeOK, Fencing
<1>10. CASE UNCHANGED vars
  BY <1>10, QuietStep DEF vars, ExpiredIsHeld, Fencing
<1> QED
  BY <1>1, <1>2, <1>3, <1>4, <1>5, <1>6, <1>7, <1>8, <1>9, <1>10 DEF Next

\* The fencing invariant holds throughout.
LEMMA FencingInvariant == Spec => [](TypeOK /\ Fencing)
  BY TypeInit, TypeStep, FencingInit, FencingStep, PTL DEF Spec

\* At most one effect is accepted per node and epoch: the lease the store would
\* accept now has never been accepted (lease.go Complete's fence, with the epoch
\* bump in Claim and the floor in create and release behind it).
THEOREM AtMostOneEffect == Spec => []AtMostOneEffectPerEpoch
  BY FencingInvariant, PTL DEF Fencing

\* The only lease a node's fence lets through is the youngest one granted on it,
\* so a paused worker whose lease was reclaimed and reissued is refused.
THEOREM HolderIsNewest == Spec => []HolderHasNewestLease
<1>1. TypeOK /\ Fencing => HolderHasNewestLease
  BY DEF TypeOK, Lease, Fencing, HeldWasGranted, GrantsBelowEpoch, HolderHasNewestLease
<1> QED
  BY <1>1, FencingInvariant, PTL

\* Claim never hands out a lease that was handed out before, whether or not the
\* node was deleted and its identifier recycled in between.
THEOREM LeasesAreFresh == Spec => LeaseNeverReissued
<1>1. TypeOK /\ Fencing /\ [Next]_vars =>
        [\A n \in Node : epoch'[n] > epoch[n] /\ state'[n] = "Claimed"
            => <<n, epoch'[n]>> \notin granted]_vars
  <2> SUFFICES ASSUME TypeOK, Fencing, Next,
                      NEW n \in Node, epoch'[n] > epoch[n], state'[n] = "Claimed"
               PROVE  <<n, epoch'[n]>> \notin granted
    OBVIOUS
  <2> USE DEF TypeOK
  <2>0. PICK S \in SUBSET Node, R \in SUBSET Node : Claim(S, R)
    <3>1. ASSUME NEW S \in SUBSET Node, Create(S) PROVE FALSE
      BY <3>1 DEF Create, Bystander
    <3>2. ASSUME NEW S \in SUBSET Node, NEW F \in SUBSET Node, Retire(S, F) PROVE FALSE
      <4>1. n \notin S
        BY <3>2, Zenon DEF Retire
      <4>2. epoch'[n] = epoch[n]
        BY <3>2, <4>1, Zenon DEF Retire
      <4> QED
        BY <4>2
    <3>3. epoch' # epoch
      OBVIOUS
    <3> QED
      BY <3>1, <3>2, <3>3, Zenon DEF Next, Edit, Cancel, Sweep, Complete, Extend, Tick
  <2>1. Claim(S, R) /\ n \in S
    <3>1. n \notin S => epoch'[n] = epoch[n]
      BY <2>0, Zenon DEF Claim
    <3>2. epoch[n] \in Nat
      BY Zenon
    <3> HIDE DEF TypeOK
    <3> QED
      BY <2>0, <3>1, <3>2
  <2>2. state[n] # "Absent" /\ epoch'[n] = epoch[n] + 1
    BY <2>1, Zenon DEF Claim, In, Fencing, ExpiredIsHeld
  <2> QED
    BY <2>2 DEF Fencing, GrantsBelowEpoch
<1> QED
  BY <1>1, FencingInvariant, PTL DEF Spec, LeaseNeverReissued

\* A finished node stays finished until it is deleted.
THEOREM DoneStaysDone == Spec => DoneIsFinal
<1>1. TypeOK /\ Fencing /\ [Next]_vars =>
        [\A n \in Node : state[n] = "Done" => state'[n] \in {"Done", "Absent"}]_vars
  <2> SUFFICES ASSUME TypeOK, Fencing, Next, NEW n \in Node, state[n] = "Done"
               PROVE  state'[n] \in {"Done", "Absent"}
    OBVIOUS
  <2> QED
    BY Zenon DEF TypeOK, Lease, Fencing, ExpiredIsHeld, Next, Create, Edit, Cancel, Retire, Claim,
           Sweep, Complete, Extend, Tick, In, Bystander
<1> QED
  BY <1>1, FencingInvariant, PTL DEF Spec, DoneIsFinal

-----------------------------------------------------------------------------
(***************************************************************************)
(* The packed score orders ready nodes as the contract says, for every     *)
(* width of priority and arrival number.                                   *)
(***************************************************************************)

Priority == -PriorityBias..(PriorityBias - 1)
Arrival == 0..(FifoScale - 1)

\* One rank more outweighs every arrival number (the FIFO_SCALE factor of packScore).
LEMMA RankOutweighsArrival ==
  ASSUME NEW a \in Nat, NEW b \in Nat, a < b, NEW f \in Arrival, NEW g \in Arrival
  PROVE  a * FifoScale + f < b * FifoScale + g
<1> DEFINE d == b - a - 1
<1>1. d \in Nat /\ b = a + 1 + d /\ FifoScale \in Nat /\ f < FifoScale /\ f \in Nat /\ g \in Nat
  BY ScaleAssumption DEF Arrival
<1>2. b * FifoScale = a * FifoScale + FifoScale + d * FifoScale
  BY <1>1
<1>3. d * FifoScale \in Nat /\ a * FifoScale \in Nat
  BY <1>1
<1> QED
  BY <1>1, <1>2, <1>3

\* lua_prelude.go packScore: a lower score means a higher priority, or the same
\* priority and an earlier arrival, and nothing else.  Priorities are int16; the
\* hypothesis on arrivals is that a scope's FIFO counter stays below FIFO_SCALE.
THEOREM ScoreIsLexicographic ==
  ASSUME NEW p \in Priority, NEW q \in Priority, NEW f \in Arrival, NEW g \in Arrival
  PROVE  packScore(p, f) < packScore(q, g) <=> p > q \/ (p = q /\ f < g)
<1> DEFINE rank(x) == 2 * PriorityBias - 1 - (x + PriorityBias)
<1>1. rank(p) \in Nat /\ rank(q) \in Nat /\ p \in Int /\ q \in Int /\ f \in Int /\ g \in Int
  BY ScaleAssumption DEF Priority, Arrival
<1>2. packScore(p, f) = rank(p) * FifoScale + f /\ packScore(q, g) = rank(q) * FifoScale + g
  BY DEF packScore
<1>3. CASE p > q
  <2>1. rank(p) < rank(q)
    BY <1>1, <1>3, ScaleAssumption
  <2>2. rank(p) * FifoScale + f < rank(q) * FifoScale + g
    BY <1>1, <2>1, RankOutweighsArrival
  <2> QED
    BY <1>2, <1>3, <2>2
<1>4. CASE p < q
  <2>1. rank(q) < rank(p)
    BY <1>1, <1>4, ScaleAssumption
  <2>2. rank(q) * FifoScale + g < rank(p) * FifoScale + f
    BY <1>1, <2>1, RankOutweighsArrival
  <2>3. rank(q) * FifoScale \in Int /\ rank(p) * FifoScale \in Int
    BY <1>1, ScaleAssumption
  <2> HIDE DEF rank
  <2> QED
    BY <1>1, <1>2, <1>4, <2>2, <2>3
<1>5. CASE p = q
  <2>1. rank(q) * FifoScale \in Int
    BY <1>1, ScaleAssumption
  <2> HIDE DEF rank
  <2> QED
    BY <1>1, <1>2, <1>5, <2>1
<1> QED
  BY <1>1, <1>3, <1>4, <1>5

\* Every score is a natural number below 2 * PRIORITY_BIAS * FIFO_SCALE: 2^48 with the
\* code's constants, so that Redis' 64-bit floating-point scores hold it exactly
\* (below 2^53).
THEOREM ScoreIsExact ==
  ASSUME NEW p \in Priority, NEW f \in Arrival
  PROVE  packScore(p, f) \in 0..(2 * PriorityBias * FifoScale - 1)
<1> DEFINE rank == 2 * PriorityBias - 1 - (p + PriorityBias)
<1>1. rank \in Nat /\ rank < 2 * PriorityBias /\ 0 \in Arrival
  BY ScaleAssumption DEF Priority, Arrival
<1>2. packScore(p, f) = rank * FifoScale + f
  BY DEF packScore
<1>3. 2 * PriorityBias \in Nat /\ f \in Nat /\ FifoScale \in Nat
  BY ScaleAssumption DEF Arrival
<1> DEFINE all == 2 * PriorityBias
<1> HIDE DEF rank
<1>4. rank * FifoScale + f < all * FifoScale + 0
  BY <1>1, <1>3, RankOutweighsArrival, Zenon
<1>5. rank * FifoScale \in Nat /\ all * FifoScale \in Nat
  BY <1>1, <1>3
<1> QED
  BY <1>2, <1>3, <1>4, <1>5

=============================================================================
