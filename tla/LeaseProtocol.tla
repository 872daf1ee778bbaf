--------------------------- MODULE LeaseProtocol ---------------------------
(***************************************************************************)
(* What every backend promises about leases, with the graph abstracted     *)
(* away (the storage port, store.go).  A node is Absent, Open (Blocked,    *)
(* Ready or Scheduled), Claimed, or Done.  A lease is a pair of a node and *)
(* the fencing epoch it was granted at.  Each action below is one atomic   *)
(* store operation: besides what it is called for, it may finish any Open  *)
(* node, because a node's end can doom its successors (the cascade in      *)
(* storage/memory/scope.go terminate).                                     *)
(*                                                                         *)
(* The detailed stores are shown to implement this specification; the      *)
(* theorems about it are in LeaseProtocolProofs.                           *)
(***************************************************************************)
EXTENDS Naturals

CONSTANTS
    Node,       \* node identifiers of one scope
    MaxEpoch    \* bound on the fencing epoch (uint64 in the code)

VARIABLES
    state,      \* state[n]: where node n is
    epoch,      \* epoch[n]: nodeRec.epoch, 0 while n is Absent
    floor,      \* scope.epochFloor: the highest epoch of a deleted node
    expired,    \* the Claimed nodes whose deadline has passed
    granted,    \* history: every lease ever returned by Claim
    accepted    \* history: every lease whose Complete was accepted

vars == <<state, epoch, floor, expired, granted, accepted>>

State == {"Absent", "Open", "Claimed", "Done"}
Lease == Node \X Nat

TypeOK ==
    /\ state \in [Node -> State]
    /\ epoch \in [Node -> Nat]
    /\ floor \in Nat
    /\ expired \subseteq Node
    /\ granted \subseteq Lease
    /\ accepted \subseteq Lease
-----------------------------------------------------------------------------
In(st) == {n \in Node : state[n] = st}

\* What an operation may do to a node it was not called for: leave it, or
\* finish it if no worker has it.
Bystander(n) ==
    \/ state'[n] = state[n]
    \/ state[n] = "Open" /\ state'[n] = "Done"

\* Leases that stopped being held are no longer waiting to expire.
ForgetExpired == expired' = {n \in expired : state'[n] = "Claimed"}

Init ==
    /\ state = [n \in Node |-> "Absent"]
    /\ epoch = [n \in Node |-> 0]
    /\ floor = 0
    /\ expired = {}
    /\ granted = {}
    /\ accepted = {}

\* AddNodes.  A recycled identifier starts from the floor, not from zero.
Create(S) ==
    /\ S \subseteq In("Absent")
    /\ state' \in [Node -> State]
    /\ \A n \in S : state'[n] \in {"Open", "Done"}
    /\ \A n \in Node \ S : Bystander(n)
    /\ epoch' = [n \in Node |-> IF n \in S THEN floor ELSE epoch[n]]
    /\ ForgetExpired
    /\ UNCHANGED <<floor, granted, accepted>>

\* AddEdges, RemoveEdges: the graph changed; some Open nodes may be doomed.
Edit ==
    /\ state' \in [Node -> State]
    /\ \A n \in Node : Bystander(n)
    /\ ForgetExpired
    /\ UNCHANGED <<epoch, floor, granted, accepted>>

\* Cancel, CancelScope: nodes are finished by the caller, held or not.
Cancel(S) ==
    /\ S \subseteq In("Open") \cup In("Claimed")
    /\ state' \in [Node -> State]
    /\ \A n \in S : state'[n] = "Done"
    /\ \A n \in Node \ S : Bystander(n)
    /\ ForgetExpired
    /\ UNCHANGED <<epoch, floor, granted, accepted>>

\* Deletion that does not retire the epochs of what it deletes.
RetireForgetsFloor(S, F) ==
    /\ S \subseteq In("Open") \cup In("Done")
    /\ F \subseteq In("Open") \cup In("Claimed")
    /\ state' \in [Node -> State]
    /\ \A n \in S : state'[n] = "Absent"
    /\ \A n \in F \ S : state'[n] = "Done"
    /\ \A n \in Node \ (S \cup F) : Bystander(n)
    /\ epoch' = [n \in Node |-> IF n \in S THEN 0 ELSE epoch[n]]
    /\ ForgetExpired
    /\ UNCHANGED <<floor, granted, accepted>>

\* RemoveNode, CollectTerminal: nodes nobody holds are deleted, and their epochs
\* are retired into the floor.  CascadeFail also finishes the nodes in F.
Retire(S, F) ==
    /\ S \subseteq In("Open") \cup In("Done")
    /\ F \subseteq In("Open") \cup In("Claimed")
    /\ state' \in [Node -> State]
    /\ \A n \in S : state'[n] = "Absent"
    /\ \A n \in F \ S : state'[n] = "Done"
    /\ \A n \in Node \ (S \cup F) : Bystander(n)
    /\ epoch' = [n \in Node |-> IF n \in S THEN 0 ELSE epoch[n]]
    /\ floor' \in {floor} \cup {epoch[n] : n \in S}
    /\ floor' >= floor
    /\ \A n \in S : floor' >= epoch[n]
    /\ ForgetExpired
    /\ UNCHANGED <<granted, accepted>>

\* Claim: expired leases in R are taken back (to be retried, or finished when
\* the attempts are used up), then the nodes in S are granted at a new epoch.
Claim(S, R) ==
    /\ R \subseteq expired
    /\ S \subseteq In("Open") \cup R
    /\ \A n \in S : epoch[n] < MaxEpoch
    /\ state' \in [Node -> State]
    /\ \A n \in S : state'[n] = "Claimed"
    /\ \A n \in R \ S : state'[n] \in {"Open", "Done"}
    /\ \A n \in Node \ (S \cup R) : Bystander(n)
    /\ epoch' = [n \in Node |-> IF n \in S THEN epoch[n] + 1 ELSE epoch[n]]
    /\ expired' = {n \in expired \ S : state'[n] = "Claimed"}
    /\ granted' = granted \cup {<<n, epoch[n] + 1>> : n \in S}
    /\ UNCHANGED <<floor, accepted>>

\* Sweep: the same reclaim without the grant.
Sweep(R) ==
    /\ R \subseteq expired
    /\ state' \in [Node -> State]
    /\ \A n \in R : state'[n] \in {"Open", "Done"}
    /\ \A n \in Node \ R : Bystander(n)
    /\ ForgetExpired
    /\ UNCHANGED <<epoch, floor, granted, accepted>>

\* Complete: accepted only from the holder of the current epoch.  The deadline
\* is not consulted: a late answer to a lease nobody reclaimed still counts.
Complete(n, e) ==
    /\ <<n, e>> \in granted
    /\ state[n] = "Claimed"
    /\ epoch[n] = e
    /\ state' \in [Node -> State]
    /\ state'[n] \in {"Open", "Done"}
    /\ \A m \in Node \ {n} : Bystander(m)
    /\ accepted' = accepted \cup {<<n, e>>}
    /\ ForgetExpired
    /\ UNCHANGED <<epoch, floor, granted>>

\* Extend: same fence; the deadline moves, even if it had already passed.
Extend(n, e) ==
    /\ <<n, e>> \in granted
    /\ state[n] = "Claimed"
    /\ epoch[n] = e
    /\ expired' = expired \ {n}
    /\ UNCHANGED <<state, epoch, floor, granted, accepted>>

\* The store's clock passes the deadlines of the leases in S.
Tick(S) ==
    /\ S \subseteq In("Claimed")
    /\ expired' = expired \cup S
    /\ UNCHANGED <<state, epoch, floor, granted, accepted>>

Next ==
    \/ \E S \in SUBSET Node : Create(S)
    \/ Edit
    \/ \E S \in SUBSET Node : Cancel(S)
    \/ \E S \in SUBSET Node, F \in SUBSET Node : Retire(S, F)
    \/ \E S \in SUBSET Node, R \in SUBSET Node : Claim(S, R)
    \/ \E R \in SUBSET Node : Sweep(R)
    \/ \E l \in granted : Complete(l[1], l[2])
    \/ \E l \in granted : Extend(l[1], l[2])
    \/ \E S \in SUBSET Node : Tick(S)

Spec == Init /\ [][Next]_vars
-----------------------------------------------------------------------------
(***************************************************************************)
(* What the protocol guarantees                                            *)
(***************************************************************************)

\* A lease is never handed out twice, not even after its node was deleted and
\* an identifier recycled: a Claim's epoch is new for that node for ever (the
\* fencing promise of store.go, and why scope.epochFloor exists).
LeaseNeverReissued ==
    [][\A n \in Node : epoch'[n] > epoch[n] /\ state'[n] = "Claimed"
          => <<n, epoch'[n]>> \notin granted]_vars

\* G5, at most one accepted effect per epoch: the lease a Complete could be
\* accepted for has never been accepted before.
AtMostOneEffectPerEpoch ==
    \A n \in Node : state[n] = "Claimed" => <<n, epoch[n]>> \notin accepted

\* G1 and G2: of all the leases ever granted on a node, the one a Complete or
\* Extend would accept is the youngest, and it is one that was granted.
HolderHasNewestLease ==
    \A n \in Node : state[n] = "Claimed" =>
        /\ <<n, epoch[n]>> \in granted
        /\ \A l \in granted : l[1] = n => l[2] <= epoch[n]

\* Every accepted effect was answered for by a lease that was granted.
AcceptedWasGranted == accepted \subseteq granted

\* Nothing leaves Done but deletion (contract I1).
DoneIsFinal ==
    [][\A n \in Node : state[n] = "Done" => state'[n] \in {"Done", "Absent"}]_vars

\* The inductive strengthening: whatever epoch was ever granted on a node lies
\* at or below the epoch the node now has, or below the floor if it is gone.
GrantsBelowEpoch ==
    \A l \in granted :
        l[2] <= IF state[l[1]] = "Absent" THEN floor ELSE epoch[l[1]]
=============================================================================
