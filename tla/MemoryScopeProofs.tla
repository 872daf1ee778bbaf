-------------------------- MODULE MemoryScopeProofs --------------------------
(***************************************************************************)
(* The in-memory backend implements the lease protocol, whatever the       *)
(* graph, the batches, the policies and the outcomes.                      *)
(***************************************************************************)
EXTENDS MemoryScope, BatchProofs

(***************************************************************************)
(* Operations are steps of the protocol                                    *)
(***************************************************************************)

\* Where every node is, for the protocol.
View(s) == [n \in Node |-> CoarseState(s.phase[n])]

\* The refinement mapping shows states of the protocol.
LEMMA ViewIsTyped ==
    ASSUME NEW s, Books(s)
    PROVE  View(s) \in [Node -> Protocol!State]
<1>1. s.phase \in [Node -> Phase]
    BY DEF Books, Ledger
<1> QED
    BY <1>1 DEF View, CoarseState, Phase, Protocol!State

\* Leases that stopped being held are forgotten.
LEMMA LastingIsForgetting ==
    ASSUME NEW s, Books(s), NEW t, Books(t), LeasesLast(s, t)
    PROVE  Expired(t) = {n \in Expired(s) : View(t)[n] = "Claimed"}
<1>1. s.leases = Held(s.phase) /\ t.leases = Held(t.phase) /\ t.phase \in [Node -> Phase]
    BY DEF Books, Ledger
<1>2. \A n \in Node : View(t)[n] = "Claimed" <=> t.phase[n] = "Claimed"
    BY <1>1 DEF View, CoarseState, Phase
<1> QED
    BY <1>1, <1>2 DEF Expired, Held, LeasesLast

\* What the mapping shows of a step that only lets leases last.
LEMMA Mapped ==
    ASSUME Books(scope), Books(scope'), LeasesLast(scope, scope')
    PROVE  /\ View(scope)' = View(scope')
           /\ View(scope') \in [Node -> Protocol!State]
           /\ Protocol!ForgetExpired
<1>1. View(scope)' = View(scope') /\ Expired(scope)' = Expired(scope')
    BY DEF View, Expired
<1>2. View(scope') \in [Node -> Protocol!State]
    BY ViewIsTyped
<1>3. Expired(scope') = {n \in Expired(scope) : View(scope')[n] = "Claimed"}
    BY LastingIsForgetting
<1>4. Protocol!ForgetExpired
    BY <1>1, <1>3 DEF Protocol!ForgetExpired, View
<1> QED
    BY <1>1, <1>2, <1>4

\* A node that is carried is a bystander.
LEMMA CarriedStandsBy ==
    ASSUME NEW n \in Node, Carried(scope, scope', n, FALSE)
    PROVE  Protocol!Bystander(n)
    BY DEF Carried, Goes, Protocol!Bystander

\* AddEdges, RemoveEdges.
LEMMA EditStep ==
    ASSUME Books(scope), Settled(scope, scope'), UNCHANGED <<granted, accepted>>
    PROVE  Protocol!Edit
<1>1. Ledger(scope) /\ Books(scope') /\ Follows(scope, scope', {}, {})
    BY DEF Books, Settled
<1>2. LeasesLast(scope, scope')
    BY <1>1, FollowsLasts
<1>3. \A n \in Node : Protocol!Bystander(n)
    BY SettledSpares, CarriedStandsBy, Zenon
<1>4. scope'.epoch = scope.epoch /\ scope'.epochFloor = scope.epochFloor
    BY <1>1 DEF Follows
<1> QED
    BY <1>1, <1>2, <1>3, <1>4, Mapped DEF Protocol!Edit, View

\* AddNodes.
LEMMA CreateStep ==
    ASSUME Books(scope), NEW S \in SUBSET Node, Joins(scope, scope', S),
           UNCHANGED <<granted, accepted>>
    PROVE  Protocol!Create(S)
<1>1. /\ Books(scope') /\ LeasesLast(scope, scope') /\ scope'.epochFloor = scope.epochFloor
      /\ \A n \in S : /\ scope.phase[n] = "Absent" /\ scope'.epoch[n] = scope.epochFloor
                      /\ CoarseState(scope'.phase[n]) \in {"Open", "Done"}
      /\ \A n \in Node \ S : Carried(scope, scope', n, FALSE)
    BY Zenon DEF Joins
<1>2. \A n \in Node \ S : Protocol!Bystander(n)
    BY <1>1, CarriedStandsBy, Zenon
<1>3. S \subseteq Protocol!In("Absent")
    BY <1>1 DEF Protocol!In, CoarseState
<1>4. scope'.epoch = [n \in Node |-> IF n \in S THEN scope.epochFloor ELSE scope.epoch[n]]
  <2>1. scope'.epoch \in [Node -> Nat]
    BY <1>1 DEF Books, Ledger
  <2>2. \A n \in Node \ S : scope'.epoch[n] = scope.epoch[n]
    BY <1>1, Zenon DEF Carried
  <2> QED
    BY <1>1, <2>1, <2>2
<1>5. \A n \in S : View(scope')[n] \in {"Open", "Done"}
    BY <1>1 DEF View
<1> QED
    BY <1>1, <1>2, <1>3, <1>4, <1>5, Mapped DEF Protocol!Create, View

\* RemoveNode, CollectTerminal.
LEMMA RetireStep ==
    ASSUME Books(scope), NEW S \in SUBSET Node, Leaves(scope, scope', S),
           UNCHANGED <<granted, accepted>>
    PROVE  \E F \in SUBSET Node : Protocol!Retire(S, F)
<1>1. /\ Books(scope') /\ LeasesLast(scope, scope') /\ Raised(scope, scope', S)
      /\ \A n \in S : /\ CoarseState(scope.phase[n]) \in {"Open", "Done"}
                      /\ scope'.phase[n] = "Absent" /\ scope'.epoch[n] = 0
      /\ \A n \in Node \ S : Carried(scope, scope', n, TRUE)
    BY Zenon DEF Leaves
<1>2. PICK F \in SUBSET Node :
          F = {n \in Node \ S : CoarseState(scope.phase[n]) = "Claimed"
                                /\ CoarseState(scope'.phase[n]) = "Done"}
    BY Zenon
<1>3. \A n \in Node \ (S \cup F) : Protocol!Bystander(n)
  <2>1. TAKE n \in Node \ (S \cup F)
  <2>2. Carried(scope, scope', n, FALSE)
    BY <1>1, <1>2 DEF Carried, Goes
  <2> QED
    BY <2>2, CarriedStandsBy, Zenon
<1>4. S \subseteq Protocol!In("Open") \cup Protocol!In("Done")
    BY <1>1 DEF Protocol!In
<1>5. F \subseteq Protocol!In("Open") \cup Protocol!In("Claimed")
    BY <1>2 DEF Protocol!In
<1>6. scope'.epoch = [n \in Node |-> IF n \in S THEN 0 ELSE scope.epoch[n]]
  <2>1. scope'.epoch \in [Node -> Nat]
    BY <1>1 DEF Books, Ledger
  <2>2. \A n \in Node \ S : scope'.epoch[n] = scope.epoch[n]
    BY <1>1, Zenon DEF Carried
  <2> QED
    BY <1>1, <2>1, <2>2
<1>7. \A n \in S : View(scope')[n] = "Absent"
    BY <1>1 DEF View, CoarseState
<1>8. \A n \in F \ S : View(scope')[n] = "Done"
    BY <1>2 DEF View
<1>9. /\ scope'.epochFloor \in {scope.epochFloor} \cup {scope.epoch[n] : n \in S}
      /\ scope'.epochFloor >= scope.epochFloor
      /\ \A n \in S : scope'.epochFloor >= scope.epoch[n]
    BY <1>1 DEF Raised
<1>10. Protocol!Retire(S, F)
    BY <1>1, <1>3, <1>4, <1>5, <1>6, <1>7, <1>8, <1>9, Mapped DEF Protocol!Retire, View
<1> QED
    BY <1>10

\* Cancel, CancelScope.
LEMMA CancelStep ==
    ASSUME Books(scope), NEW S \in SUBSET Node, Cancels(scope, scope', S),
           UNCHANGED <<granted, accepted>>
    PROVE  Protocol!Cancel(S)
<1>1. /\ Books(scope') /\ LeasesLast(scope, scope')
      /\ scope'.epoch = scope.epoch /\ scope'.epochFloor = scope.epochFloor
      /\ \A n \in S : /\ CoarseState(scope.phase[n]) \in {"Open", "Claimed"}
                      /\ scope'.phase[n] = "Done"
      /\ \A n \in Node \ S : Carried(scope, scope', n, FALSE)
    BY Zenon DEF Cancels
<1>2. \A n \in Node \ S : Protocol!Bystander(n)
    BY <1>1, CarriedStandsBy, Zenon
<1>3. S \subseteq Protocol!In("Open") \cup Protocol!In("Claimed")
    BY <1>1 DEF Protocol!In
<1>4. \A n \in S : View(scope')[n] = "Done"
    BY <1>1 DEF View, CoarseState
<1> QED
    BY <1>1, <1>2, <1>3, <1>4, Mapped DEF Protocol!Cancel, View

\* Complete.
LEMMA CompleteStep ==
    ASSUME Books(scope), NEW n \in Node, NEW e, <<n, e>> \in granted, fence(scope, n, e),
           Answers(scope, scope', n), accepted' = accepted \cup {<<n, e>>}, UNCHANGED granted
    PROVE  Protocol!Complete(n, e)
<1>1. /\ Books(scope') /\ LeasesLast(scope, scope')
      /\ scope'.epoch = scope.epoch /\ scope'.epochFloor = scope.epochFloor
      /\ CoarseState(scope'.phase[n]) \in {"Open", "Done"}
      /\ \A m \in Node \ {n} : Carried(scope, scope', m, FALSE)
    BY Zenon DEF Answers
<1>2. \A m \in Node \ {n} : Protocol!Bystander(m)
    BY <1>1, CarriedStandsBy, Zenon
<1>3. CoarseState(scope.phase[n]) = "Claimed" /\ scope.epoch[n] = e
    BY DEF fence, CoarseState
<1>4. View(scope')[n] \in {"Open", "Done"}
    BY <1>1 DEF View
<1> QED
    BY <1>1, <1>2, <1>3, <1>4, Mapped DEF Protocol!Complete, View

\* A reclaim at most takes expired leases back.
Reclaims(s, t, R) ==
    /\ Books(t) /\ t.epoch = s.epoch /\ t.epochFloor = s.epochFloor /\ LeasesLast(s, t)
    /\ R = {n \in Expired(s) : t.phase[n] # "Claimed"}
    /\ \A n \in R : CoarseState(t.phase[n]) \in {"Open", "Done"}
    /\ \A n \in Node \ R : Carried(s, t, n, FALSE)

\* What is left of the leases after reclaimExpired and promoteScheduled.
LEMMA ReclaimedReclaims ==
    ASSUME NEW s, Books(s), NEW t, Reclaimed(s, t)
    PROVE  \E R \in SUBSET Node : Reclaims(s, t, R)
<1>1. Books(t) /\ Follows(s, t, {}, Expired(s)) /\ Ledger(s) /\ s.leases = Held(s.phase)
    BY DEF Reclaimed, Books
<1>2. Expired(s) \subseteq Node /\ \A n \in Expired(s) : s.phase[n] = "Claimed"
    BY <1>1 DEF Expired, Held
<1>3. PICK R \in SUBSET Node : R = {n \in Expired(s) : t.phase[n] # "Claimed"}
    BY <1>2, Zenon
<1>4. t.phase \in [Node -> Phase] /\ t.epoch = s.epoch /\ t.epochFloor = s.epochFloor
    BY <1>1 DEF Follows, Ledger
<1>5. ASSUME NEW n \in R
      PROVE  CoarseState(t.phase[n]) \in {"Open", "Done"}
  <2>1. s.phase[n] = "Claimed" /\ t.phase[n] # "Claimed" /\ n \in Node
    BY <1>2, <1>3
  <2>2. Goes(s.phase[n], t.phase[n], n \in {}, n \in Expired(s))
    BY <1>1, <2>1 DEF Follows, Moves
  <2> QED
    BY <1>4, <2>1, <2>2 DEF Goes, CoarseState, Phase
<1>6. ASSUME NEW n \in Node \ R
      PROVE  Carried(s, t, n, FALSE)
  <2>1. CASE n \notin Expired(s)
    BY <1>1, <2>1, TakenSpares, Zenon
  <2>2. CASE n \in Expired(s)
    BY <1>2, <1>3, <1>4, <2>2 DEF Carried, Goes
  <2> QED
    BY <2>1, <2>2, Zenon
<1>7. LeasesLast(s, t)
    BY <1>1, FollowsLasts
<1> QED
    BY <1>1, <1>3, <1>4, <1>5, <1>6, <1>7, Zenon DEF Reclaims

\* Sweep.
LEMMA SweepStep ==
    ASSUME Books(scope), NEW R \in SUBSET Node, Reclaims(scope, scope', R),
           UNCHANGED <<granted, accepted>>
    PROVE  Protocol!Sweep(R)
<1>1. /\ Books(scope') /\ LeasesLast(scope, scope') /\ R \subseteq Expired(scope)
      /\ scope'.epoch = scope.epoch /\ scope'.epochFloor = scope.epochFloor
      /\ \A n \in R : CoarseState(scope'.phase[n]) \in {"Open", "Done"}
      /\ \A n \in Node \ R : Carried(scope, scope', n, FALSE)
    BY Zenon DEF Reclaims
<1>2. \A n \in Node \ R : Protocol!Bystander(n)
    BY <1>1, CarriedStandsBy, Zenon
<1>3. \A n \in R : View(scope')[n] \in {"Open", "Done"}
    BY <1>1 DEF View
<1> QED
    BY <1>1, <1>2, <1>3, Mapped DEF Protocol!Sweep, View

\* Claim: the nodes in R were taken back, then those in S granted at a new epoch.
Grants(s, t, leases, S, R) ==
    /\ Books(t) /\ t.epochFloor = s.epochFloor
    /\ R \subseteq Expired(s)
    /\ \A n \in S : /\ CoarseState(s.phase[n]) = "Open" \/ n \in R
                    /\ t.phase[n] = "Claimed" /\ t.epoch[n] = s.epoch[n] + 1
    /\ \A n \in R \ S : CoarseState(t.phase[n]) \in {"Open", "Done"}
    /\ \A n \in Node \ (S \cup R) : Carried(s, t, n, FALSE)
    /\ \A n \in Node \ S : t.epoch[n] = s.epoch[n]
    /\ Expired(t) = {n \in Expired(s) \ S : t.phase[n] = "Claimed"}
    /\ leases = {<<n, s.epoch[n] + 1>> : n \in S}

\* A reclaim, then grants, is such a Claim.
LEMMA GivenGrants ==
    ASSUME NEW s, Books(s), NEW b, NEW R \in SUBSET Node, Reclaims(s, b, R),
           NEW c, NEW lease \in Nat \ {0}, Given(b, c, lease)
    PROVE  \E S \in SUBSET Node : Grants(s, c.s, c.leases, S, R)
<1>1. PICK t : t = c.s
    OBVIOUS
<1>2. /\ Books(b) /\ b.epoch = s.epoch /\ b.epochFloor = s.epochFloor /\ LeasesLast(s, b)
      /\ R = {n \in Expired(s) : b.phase[n] # "Claimed"}
      /\ \A n \in R : CoarseState(b.phase[n]) \in {"Open", "Done"}
      /\ \A n \in Node \ R : Carried(s, b, n, FALSE)
    BY Zenon DEF Reclaims
<1>3. Books(t) /\ t.epochFloor = b.epochFloor /\ Handing(b, t, lease) /\ Receipts(b, t, c.leases)
    BY <1>1 DEF Given
<1>4. PICK S \in SUBSET Node : S = {m \in Node : b.phase[m] = "Ready" /\ t.phase[m] = "Claimed"}
    BY Zenon
<1>5. \A n \in S : Handed(b, t, n, lease)
    BY <1>3, <1>4 DEF Handing, Same
<1>6. \A n \in Node \ S : Same(b, t, n)
    BY <1>3, <1>4 DEF Handing, Handed
<1>7. ASSUME NEW n \in S
      PROVE  /\ CoarseState(s.phase[n]) = "Open" \/ n \in R
             /\ t.phase[n] = "Claimed" /\ t.epoch[n] = s.epoch[n] + 1
  <2>1. n \notin R => CoarseState(s.phase[n]) = "Open"
    BY <1>2, <1>4 DEF Carried, Goes, CoarseState
  <2> QED
    BY <1>2, <1>4, <1>5, <2>1 DEF Handed
<1>8. \A n \in R \ S : CoarseState(t.phase[n]) \in {"Open", "Done"}
    BY <1>2, <1>6 DEF Same
<1>9. \A n \in Node \ (S \cup R) : Carried(s, t, n, FALSE)
    BY <1>2, <1>6, Zenon DEF Same, Carried
<1>10. \A n \in Node \ S : t.epoch[n] = s.epoch[n]
    BY <1>2, <1>6 DEF Same
<1>11. Expired(t) = {n \in Expired(s) \ S : t.phase[n] = "Claimed"}
  <2>1. s.leases = Held(s.phase) /\ t.leases = Held(t.phase)
    BY <1>3 DEF Books
  <2>2. ASSUME NEW n \in Expired(t)
        PROVE  n \in Expired(s) /\ n \notin S /\ t.phase[n] = "Claimed"
    <3>1. n \in Node /\ t.phase[n] = "Claimed" /\ t.deadline[n] = 0
        BY <2>1 DEF Expired, Held
    <3>2. n \notin S
        BY <1>5, <3>1 DEF Handed
    <3>3. b.phase[n] = "Claimed" /\ b.deadline[n] = 0
        BY <1>6, <3>1, <3>2 DEF Same
    <3>4. s.phase[n] = "Claimed" /\ s.deadline[n] = 0
        BY <1>2, <3>1, <3>3 DEF LeasesLast
    <3> QED
        BY <2>1, <3>1, <3>2, <3>4 DEF Expired, Held
  <2>3. ASSUME NEW n \in Expired(s) \ S, t.phase[n] = "Claimed"
        PROVE  n \in Expired(t)
    <3>1. n \in Node /\ s.deadline[n] = 0
        BY <2>1 DEF Expired, Held
    <3>2. b.phase[n] = "Claimed" /\ t.deadline[n] = b.deadline[n]
        BY <1>6, <2>3, <3>1 DEF Same
    <3>3. b.deadline[n] = s.deadline[n]
        BY <1>2, <3>1, <3>2 DEF LeasesLast
    <3> QED
        BY <2>1, <2>3, <3>1, <3>2, <3>3 DEF Expired, Held
  <2> QED
    BY <2>2, <2>3
<1>12. c.leases = {<<n, s.epoch[n] + 1>> : n \in S}
    BY <1>2, <1>3, <1>4 DEF Receipts
<1>13. R \subseteq Expired(s)
    BY <1>2
<1> QED
    BY <1>1, <1>2, <1>3, <1>7, <1>8, <1>9, <1>10, <1>11, <1>12, <1>13, Zenon DEF Grants

\* Claim.
LEMMA ClaimStep ==
    ASSUME Books(scope), NEW S \in SUBSET Node, NEW R \in SUBSET Node, NEW leases,
           Grants(scope, scope', leases, S, R), \A l \in leases : l[2] <= MaxEpoch,
           granted' = granted \cup leases, UNCHANGED accepted
    PROVE  Protocol!Claim(S, R)
<1>1. /\ Books(scope') /\ R \subseteq Expired(scope) /\ scope'.epochFloor = scope.epochFloor
      /\ \A n \in S : /\ CoarseState(scope.phase[n]) = "Open" \/ n \in R
                      /\ scope'.phase[n] = "Claimed" /\ scope'.epoch[n] = scope.epoch[n] + 1
      /\ \A n \in R \ S : CoarseState(scope'.phase[n]) \in {"Open", "Done"}
      /\ \A n \in Node \ (S \cup R) : Carried(scope, scope', n, FALSE)
      /\ \A n \in Node \ S : scope'.epoch[n] = scope.epoch[n]
      /\ Expired(scope') = {n \in Expired(scope) \ S : scope'.phase[n] = "Claimed"}
      /\ leases = {<<n, scope.epoch[n] + 1>> : n \in S}
    BY Zenon DEF Grants
<1>2. \A n \in Node \ (S \cup R) : Protocol!Bystander(n)
    BY <1>1, CarriedStandsBy, Zenon
<1>3. S \subseteq Protocol!In("Open") \cup R
    BY <1>1 DEF Protocol!In
<1>4. scope.epoch \in [Node -> Nat] /\ scope'.epoch \in [Node -> Nat]
      /\ scope.phase \in [Node -> Phase] /\ scope'.phase \in [Node -> Phase]
      /\ scope.leases = Held(scope.phase)
    BY <1>1 DEF Books, Ledger
<1>5. \A n \in S : scope.epoch[n] < MaxEpoch
  <2>1. TAKE n \in S
  <2>2. <<n, scope.epoch[n] + 1>> \in leases
    BY <1>1
  <2>3. scope.epoch[n] + 1 <= MaxEpoch
    BY <2>2
  <2> QED
    BY <1>4, <2>3, CallsAreTyped
<1>6. scope'.epoch = [n \in Node |-> IF n \in S THEN scope.epoch[n] + 1 ELSE scope.epoch[n]]
    BY <1>1, <1>4
<1>7. View(scope)' = View(scope') /\ Expired(scope)' = Expired(scope')
    BY DEF View, Expired
<1>8. View(scope') \in [Node -> Protocol!State]
    BY <1>1, ViewIsTyped
<1>9. \A n \in S : View(scope')[n] = "Claimed"
    BY <1>1 DEF View, CoarseState
<1>10. \A n \in R \ S : View(scope')[n] \in {"Open", "Done"}
    BY <1>1 DEF View
<1>11. Expired(scope') = {n \in Expired(scope) \ S : View(scope')[n] = "Claimed"}
  <2>1. Expired(scope) \subseteq Node
    BY <1>4 DEF Expired, Held
  <2>2. \A n \in Node : View(scope')[n] = "Claimed" <=> scope'.phase[n] = "Claimed"
    BY <1>4 DEF View, CoarseState, Phase
  <2> QED
    BY <1>1, <2>1, <2>2
<1> QED
    BY <1>1, <1>2, <1>3, <1>5, <1>6, <1>7, <1>8, <1>9, <1>10, <1>11 DEF Protocol!Claim, View

\* Extend.
LEMMA ExtendStep ==
    ASSUME Books(scope), NEW n \in Node, NEW e, NEW req \in Nat, Extend(n, e, req)
    PROVE  Books(scope') /\ Protocol!Extend(n, e)
<1>1. PICK lease \in Nat \ {0} : lease = ClampLease(req)
    BY LeaseLasts
<1>2. /\ Ledger(scope) /\ scope.leases = Held(scope.phase) /\ DOMAIN scope = Fields
      /\ scope.deadline \in [Node -> Nat] /\ scope.phase[n] = "Claimed" /\ scope.epoch[n] = e
    BY DEF Books, Ledger, Extend, fence
<1>3. scope' = [scope EXCEPT !.deadline[n] = lease]
    BY <1>1 DEF Extend
<1>4. /\ DOMAIN scope' = Fields /\ scope'.phase = scope.phase /\ scope'.epoch = scope.epoch
      /\ scope'.epochFloor = scope.epochFloor /\ scope'.succ = scope.succ
      /\ scope'.pred = scope.pred /\ scope'.ready = scope.ready
      /\ scope'.scheduled = scope.scheduled /\ scope'.leases = scope.leases
      /\ scope'.deadline = [scope.deadline EXCEPT ![n] = lease]
    BY <1>2, <1>3 DEF Fields
<1>5. Books(scope')
    BY <1>2, <1>4 DEF Books, Ledger
<1>6. Expired(scope') = Expired(scope) \ {n}
    BY <1>2, <1>4 DEF Expired, Held
<1>7. View(scope)' = View(scope) /\ Expired(scope)' = Expired(scope')
    BY <1>4 DEF View, Expired
<1>8. View(scope)[n] = "Claimed"
    BY <1>2 DEF View, CoarseState
<1>9. Protocol!Extend(n, e)
    BY <1>2, <1>4, <1>6, <1>7, <1>8 DEF Protocol!Extend, View, Extend
<1> QED
    BY <1>5, <1>9

\* Tick: deadlines come nearer, and leases whose deadline has come have expired.
LEMMA TickStep ==
    ASSUME Books(scope), Tick
    PROVE  Books(scope') /\ \E S \in SUBSET Node : Protocol!Tick(S)
<1>1. /\ Ledger(scope) /\ scope.leases = Held(scope.phase) /\ DOMAIN scope = Fields
      /\ scope.deadline \in [Node -> Nat]
    BY DEF Books, Ledger
<1>2. /\ DOMAIN scope' = Fields /\ scope'.phase = scope.phase /\ scope'.epoch = scope.epoch
      /\ scope'.epochFloor = scope.epochFloor /\ scope'.succ = scope.succ
      /\ scope'.pred = scope.pred /\ scope'.ready = scope.ready
      /\ scope'.scheduled = scope.scheduled /\ scope'.leases = scope.leases
      /\ scope'.deadline = [n \in Node |-> Less(scope.deadline[n])]
    BY <1>1 DEF Tick, Fields
<1>3. scope'.deadline \in [Node -> Nat]
    BY <1>1, <1>2 DEF Less
<1>4. Books(scope')
    BY <1>1, <1>2, <1>3 DEF Books, Ledger
<1>5. \A n \in Node : scope.deadline[n] = 0 => scope'.deadline[n] = 0
    BY <1>1, <1>2 DEF Less
<1>6. Expired(scope) \subseteq Expired(scope') /\ Expired(scope') \subseteq Node
    BY <1>1, <1>2, <1>5 DEF Expired, Held
<1>7. Expired(scope') \subseteq Protocol!In("Claimed")
    BY <1>1, <1>2 DEF Expired, Held, Protocol!In, CoarseState
<1>8. View(scope)' = View(scope) /\ Expired(scope)' = Expired(scope')
    BY <1>2 DEF View, Expired
<1>9. Protocol!Tick(Expired(scope'))
    BY <1>2, <1>6, <1>7, <1>8, Zenon DEF Protocol!Tick, View, Tick
<1> QED
    BY <1>4, <1>6, <1>9

\* Seal, SetScopeConfig: the protocol does not see them.
LEMMA PolicyStep ==
    ASSUME Books(scope), Seal \/ \E cfg \in NewPolicies : SetScopeConfig(cfg)
    PROVE  Books(scope') /\ UNCHANGED Protocol!vars
<1>1. Ledger(scope) /\ scope.leases = Held(scope.phase) /\ DOMAIN scope = Fields
    BY DEF Books, Ledger
<1>2. /\ DOMAIN scope' = Fields /\ scope'.phase = scope.phase /\ scope'.epoch = scope.epoch
      /\ scope'.epochFloor = scope.epochFloor /\ scope'.succ = scope.succ
      /\ scope'.pred = scope.pred /\ scope'.ready = scope.ready
      /\ scope'.scheduled = scope.scheduled /\ scope'.leases = scope.leases
      /\ scope'.deadline = scope.deadline
    BY <1>1 DEF Seal, SetScopeConfig, Fields
<1>3. Books(scope')
    BY <1>1, <1>2 DEF Books, Ledger
<1>4. Expired(scope)' = Expired(scope)
    BY <1>2 DEF Expired
<1>5. UNCHANGED <<granted, accepted>>
    BY DEF Seal, SetScopeConfig
<1> QED
    BY <1>2, <1>3, <1>4, <1>5 DEF Protocol!vars
-----------------------------------------------------------------------------
(***************************************************************************)
(* The refinement                                                          *)
(***************************************************************************)

\* The inductive invariant: the books are kept, and leases are leases on nodes.
Inv == Books(scope) /\ granted \subseteq Node \X Nat

\* newScope starts the protocol, with its books in order.
LEMMA InitMaps ==
    ASSUME Init
    PROVE  Inv /\ Protocol!Init
<1>1. /\ DOMAIN scope = Fields /\ scope.phase = [n \in Node |-> "Absent"]
      /\ scope.epoch = [n \in Node |-> 0] /\ scope.deadline = [n \in Node |-> 0]
      /\ scope.epochFloor = 0 /\ scope.ready = <<>> /\ scope.scheduled = {}
      /\ scope.leases = {} /\ scope.succ = [n \in Node |-> <<>>]
      /\ scope.pred = [n \in Node |-> <<>>]
    BY DEF Init, EmptyScope, Fields
<1>2. scope.phase \in [Node -> Phase]
    BY <1>1 DEF Phase
<1>3. Heaps(scope.phase, scope.ready, scope.scheduled)
    BY <1>1 DEF Heaps
<1>4. Wired(scope.succ, scope.pred)
  <2>1. scope.succ \in [Node -> Seq(Node)]
    BY <1>1
  <2>2. \A n \in Node : DOMAIN scope.pred[n] \subseteq Node
    BY <1>1
  <2> QED
    BY <1>1, <2>1, <2>2 DEF Wired
<1>5. Retired(scope.phase, scope.epoch)
    BY <1>1 DEF Retired
<1>6. Books(scope)
    BY <1>1, <1>2, <1>3, <1>4, <1>5 DEF Books, Ledger, Held
<1>7. Expired(scope) = {}
    BY <1>1 DEF Expired
<1>8. [n \in Node |-> CoarseState(scope.phase[n])] = [n \in Node |-> "Absent"]
    BY <1>1 DEF CoarseState
<1>9. Protocol!Init
    BY <1>1, <1>7, <1>8 DEF Protocol!Init, Init
<1> QED
    BY <1>6, <1>9 DEF Inv, Init

\* Every operation keeps the books and is one step of the protocol.
LEMMA StepMaps ==
    ASSUME Inv, Next
    PROVE  Inv' /\ (Protocol!Next \/ UNCHANGED Protocol!vars)
<1> DEFINE Maps == Books(scope') /\ (Protocol!Next \/ UNCHANGED Protocol!vars)
<1>1. Books(scope) /\ granted \subseteq Node \X Nat
    BY DEF Inv
<1>2. ASSUME Maps, granted' = granted
      PROVE  Inv' /\ (Protocol!Next \/ UNCHANGED Protocol!vars)
  <2>1. Books(scope)'
    BY <1>2
  <2> QED
    BY <1>1, <1>2, <2>1 DEF Inv
<1>3. ASSUME NEW specs \in NodeBatches, AddNodes(specs)
      PROVE  Maps /\ granted' = granted
  <2>1. specs \in Seq(NodeSpec)
    BY CallsAreTyped
  <2>2. Batch(scope, addNodesBatch(scope, specs))
    BY <1>1, <2>1, AddNodesBatchKeeps
  <2>3. PICK S \in SUBSET Node : Joins(scope, scope', S)
    BY <1>1, <1>3, <2>2, FinishBatchJoins DEF AddNodes
  <2>4. Protocol!Create(S)
    BY <1>1, <1>3, <2>3, CreateStep DEF AddNodes
  <2>5. Books(scope')
    BY <2>3 DEF Joins
  <2> QED
    BY <1>3, <2>4, <2>5 DEF Protocol!Next, AddNodes
<1>4. ASSUME NEW es, \/ es \in EdgeBatches /\ AddEdges(es)
                     \/ es \in CutBatches /\ RemoveEdges(es)
      PROVE  Maps /\ granted' = granted
  <2>1. es \in Seq(Node \X Node)
    BY <1>4, CallsAreTyped
  <2>2. Settled(scope, finishBatch(addEdgesBatch(scope, es)))
    BY <1>1, <2>1, AddEdgesBatchKeeps, EdgeBatchSettles
  <2>3. Settled(scope, finishCut(cutEdgesBatch(scope, es)))
    BY <1>1, <2>1, CutEdgesBatchKeeps, EdgeBatchSettles
  <2>4. Settled(scope, scope')
    BY <1>4, <2>2, <2>3 DEF AddEdges, RemoveEdges
  <2>5. UNCHANGED <<granted, accepted>>
    BY <1>4 DEF AddEdges, RemoveEdges
  <2>6. Protocol!Edit
    BY <1>1, <2>4, <2>5, EditStep
  <2>7. Books(scope')
    BY <2>4 DEF Settled
  <2> QED
    BY <2>5, <2>6, <2>7 DEF Protocol!Next
<1>5. ASSUME NEW S \in SUBSET Node, Leaves(scope, scope', S), UNCHANGED <<granted, accepted>>
      PROVE  Maps
  <2>1. PICK F \in SUBSET Node : Protocol!Retire(S, F)
    BY <1>1, <1>5, RetireStep
  <2>2. Books(scope')
    BY <1>5 DEF Leaves
  <2> QED
    BY <2>1, <2>2 DEF Protocol!Next
<1>6. ASSUME NEW n \in Node, NEW policy, RemoveNode(n, policy)
      PROVE  Maps /\ granted' = granted
  <2>1. Leaves(scope, scope', {n})
    BY <1>1, <1>6, RemovedLeaves DEF RemoveNode
  <2>2. UNCHANGED <<granted, accepted>>
    BY <1>6 DEF RemoveNode
  <2> QED
    BY <1>5, <2>1, <2>2
<1>7. ASSUME NEW limit, CollectTerminal(limit)
      PROVE  Maps /\ granted' = granted
  <2>1. PICK S \in SUBSET Node : Leaves(scope, scope', S)
    BY <1>1, <1>7, CollectedLeaves DEF CollectTerminal
  <2>2. UNCHANGED <<granted, accepted>>
    BY <1>7 DEF CollectTerminal
  <2> QED
    BY <1>5, <2>1, <2>2
<1>8. ASSUME CancelScope \/ \E ids \in CancelBatches : Cancel(ids)
      PROVE  Maps /\ granted' = granted
  <2>1. UNCHANGED <<granted, accepted>>
    BY <1>8 DEF CancelScope, Cancel
  <2>2. \E S \in SUBSET Node : Cancels(scope, scope', S)
    <3>1. CASE CancelScope
        BY <1>1, <3>1, ScopeCancelledCancels DEF CancelScope
    <3>2. ASSUME NEW ids \in CancelBatches, Cancel(ids)
          PROVE  \E S \in SUBSET Node : Cancels(scope, scope', S)
      <4>1. ids \in Seq(Node)
        BY CallsAreTyped
      <4> QED
        BY <1>1, <3>2, <4>1, CancelledCancels DEF Cancel
    <3> QED
        BY <1>8, <3>1, <3>2
  <2>3. PICK S \in SUBSET Node : Cancels(scope, scope', S)
    BY <2>2
  <2>4. Protocol!Cancel(S)
    BY <1>1, <2>1, <2>3, CancelStep
  <2>5. Books(scope')
    BY <2>3 DEF Cancels
  <2> QED
    BY <2>1, <2>4, <2>5 DEF Protocol!Next
<1>9. ASSUME NEW l \in granted, NEW outcome \in Outcomes, Complete(l[1], l[2], outcome)
      PROVE  Maps /\ granted' = granted
  <2>1. PICK n \in Node : n = l[1]
    BY <1>1
  <2>2. PICK e : e = l[2]
    OBVIOUS
  <2>3. l = <<n, e>>
    BY <1>1, <2>1, <2>2
  <2>4. /\ <<n, e>> \in granted /\ fence(scope, n, e) /\ scope' \in completed(scope, n, outcome)
        /\ accepted' = accepted \cup {<<n, e>>} /\ granted' = granted
    BY <1>9, <2>1, <2>2 DEF Complete
  <2>5. outcome \in {"Success", "Fail", "Skip"} /\ scope.phase[n] = "Claimed"
    BY <2>4, CallsAreTyped DEF fence
  <2>6. Answers(scope, scope', n)
    BY <1>1, <2>4, <2>5, CompletedAnswers
  <2>7. Protocol!Complete(n, e)
    BY <1>1, <2>4, <2>6, CompleteStep
  <2>8. Books(scope')
    BY <2>6 DEF Answers
  <2>9. \E k \in granted : Protocol!Complete(k[1], k[2])
    BY <2>1, <2>2, <2>7
  <2> QED
    BY <2>4, <2>8, <2>9 DEF Protocol!Next
<1>10. ASSUME NEW l \in granted, NEW req \in ExtendRequests, Extend(l[1], l[2], req)
       PROVE  Maps /\ granted' = granted
  <2>1. l[1] \in Node /\ req \in Nat
    BY <1>1, CallsAreTyped
  <2>2. Books(scope') /\ Protocol!Extend(l[1], l[2])
    BY <1>1, <1>10, <2>1, ExtendStep
  <2> QED
    BY <1>10, <2>2 DEF Protocol!Next, Extend
<1>11. ASSUME Sweep(SweepBatch)
       PROVE  Maps /\ granted' = granted
  <2>1. Reclaimed(scope, scope')
    BY <1>1, <1>11, SweepKeeps DEF Sweep
  <2>2. PICK R \in SUBSET Node : Reclaims(scope, scope', R)
    BY <1>1, <2>1, ReclaimedReclaims
  <2>3. UNCHANGED <<granted, accepted>>
    BY <1>11 DEF Sweep
  <2>4. Protocol!Sweep(R)
    BY <1>1, <2>2, <2>3, SweepStep
  <2>5. Books(scope')
    BY <2>2 DEF Reclaims
  <2> QED
    BY <2>3, <2>4, <2>5 DEF Protocol!Next
<1>12. ASSUME Tick
       PROVE  Maps /\ granted' = granted
  <2>1. Books(scope') /\ \E S \in SUBSET Node : Protocol!Tick(S)
    BY <1>1, <1>12, TickStep
  <2> QED
    BY <1>12, <2>1 DEF Protocol!Next, Tick
<1>13. ASSUME Seal \/ \E cfg \in NewPolicies : SetScopeConfig(cfg)
       PROVE  Maps /\ granted' = granted
    BY <1>1, <1>13, PolicyStep DEF Seal, SetScopeConfig
<1>14. ASSUME NEW kinds \in KindSets, NEW want \in ClaimSizes, NEW req \in LeaseRequests,
              Claim(kinds, want, req)
       PROVE  Maps /\ granted' \subseteq Node \X Nat
  <2>1. want \in Nat /\ req \in Nat
    BY CallsAreTyped
  <2>2. PICK c \in claimed(scope, kinds, want, req) :
            /\ \A l \in c.leases : l[2] <= MaxEpoch
            /\ scope' = c.s /\ granted' = granted \cup c.leases /\ accepted' = accepted
    BY <1>14 DEF Claim
  <2>3. PICK b : Reclaimed(scope, b) /\ Given(b, c, ClampLease(req))
    BY <1>1, <2>1, <2>2, ClaimKeeps
  <2>4. PICK lease \in Nat \ {0} : lease = ClampLease(req)
    BY <2>1, LeaseLasts
  <2>5. PICK R \in SUBSET Node : Reclaims(scope, b, R)
    BY <1>1, <2>3, ReclaimedReclaims
  <2>6. PICK S \in SUBSET Node : Grants(scope, c.s, c.leases, S, R)
    BY <1>1, <2>3, <2>4, <2>5, GivenGrants
  <2>7. Grants(scope, scope', c.leases, S, R)
    BY <2>2, <2>6
  <2>8. Protocol!Claim(S, R)
    BY <1>1, <2>2, <2>7, ClaimStep
  <2>9. Books(scope') /\ c.leases = {<<n, scope.epoch[n] + 1>> : n \in S}
    BY <2>7 DEF Grants
  <2>10. scope.epoch \in [Node -> Nat]
    BY <1>1 DEF Books, Ledger
  <2>11. granted' \subseteq Node \X Nat
    BY <1>1, <2>2, <2>9, <2>10
  <2> QED
    BY <2>8, <2>9, <2>11 DEF Protocol!Next
<1>15. ASSUME Maps, granted' \subseteq Node \X Nat
       PROVE  Inv' /\ (Protocol!Next \/ UNCHANGED Protocol!vars)
  <2>1. Books(scope)'
    BY <1>15
  <2> QED
    BY <1>15, <2>1 DEF Inv
<1> HIDE DEF Maps
<1>16. Maps /\ (granted' = granted \/ granted' \subseteq Node \X Nat)
  <2>1. CASE \E specs \in NodeBatches : AddNodes(specs)
    BY <1>3, <2>1
  <2>2. CASE \/ \E es \in EdgeBatches : AddEdges(es)
             \/ \E es \in CutBatches : RemoveEdges(es)
    BY <1>4, <2>2
  <2>3. CASE \E n \in Node, policy \in Policies : RemoveNode(n, policy)
    BY <1>6, <2>3
  <2>4. CASE \E limit \in CollectLimits : CollectTerminal(limit)
    BY <1>7, <2>4
  <2>5. CASE CancelScope \/ \E ids \in CancelBatches : Cancel(ids)
    BY <1>8, <2>5
  <2>6. CASE \E l \in granted, outcome \in Outcomes : Complete(l[1], l[2], outcome)
    BY <1>9, <2>6
  <2>7. CASE \E l \in granted, req \in ExtendRequests : Extend(l[1], l[2], req)
    BY <1>10, <2>7
  <2>8. CASE \E kinds \in KindSets, want \in ClaimSizes, req \in LeaseRequests :
                 Claim(kinds, want, req)
    BY <1>14, <2>8
  <2> QED
    BY <1>11, <1>12, <1>13, <2>1, <2>2, <2>3, <2>4, <2>5, <2>6, <2>7, <2>8 DEF Next
<1> QED
    BY <1>2, <1>15, <1>16

\* Nothing that happens outside the operations is a step.
LEMMA StutterMaps ==
    ASSUME Inv, UNCHANGED vars
    PROVE  Inv' /\ UNCHANGED Protocol!vars
<1>1. scope' = scope /\ granted' = granted /\ accepted' = accepted
    BY DEF vars
<1>2. Inv'
    BY <1>1 DEF Inv
<1>3. Expired(scope)' = Expired(scope)
    BY <1>1
<1> QED
    BY <1>1, <1>2, <1>3 DEF Protocol!vars

\* The lease heap is exactly the claimed nodes, the retry heap the scheduled ones, the
\* ready heap holds ready nodes only, and a deleted node has no epoch of its own, after
\* every operation, cascade and rollback (scope.go, lease.go, graph.go).
THEOREM BooksAreKept == Spec => []Books(scope)
<1>1. Init => Inv
    BY InitMaps
<1>2. Inv /\ [Next]_vars => Inv'
    BY StepMaps, StutterMaps
<1>3. Inv => Books(scope)
    BY DEF Inv
<1> QED
    BY <1>1, <1>2, <1>3, PTL DEF Spec

\* The in-memory backend implements the lease protocol: every operation of the storage
\* port, with the cascades, reclaims and rollbacks inside it, is one step of LeaseProtocol
\* or none, whatever the graph, the batches, the policies and the workers.
THEOREM MemoryKeepsTheProtocol == Spec => ImplementsLeaseProtocol
<1>1. Init => Inv /\ Protocol!Init
    BY InitMaps
<1>2. Inv /\ [Next]_vars => Inv' /\ [Protocol!Next]_(Protocol!vars)
    BY StepMaps, StutterMaps
<1> QED
    BY <1>1, <1>2, PTL DEF Spec, ImplementsLeaseProtocol, Protocol!Spec
=============================================================================
