----------------------------- MODULE BatchProofs -----------------------------
(***************************************************************************)
(* What a batch of AddNodes, AddEdges or RemoveEdges keeps, while it grows *)
(* and when it is rolled back, and what RemoveNode and CollectTerminal     *)
(* leave behind (graph.go), as far as leases are concerned.                *)
(***************************************************************************)
EXTENDS ScopeProofs

(***************************************************************************)
(* Nodes come and go                                                       *)
(***************************************************************************)

\* A node that is in no heap may change to a phase that has none.
LEMMA HeapsApart ==
    ASSUME NEW phase \in [Node -> Phase], NEW ready, NEW scheduled,
           Heaps(phase, ready, scheduled), NEW n \in Node, NEW ph,
           phase[n] \notin {"Ready", "Scheduled"}, ph \notin {"Ready", "Scheduled"}
    PROVE  Heaps([phase EXCEPT ![n] = ph], ready, scheduled)
<1>1. PICK new : new = [phase EXCEPT ![n] = ph]
    BY Zenon
<1>2. new[n] = ph /\ \A m \in Node : m # n => new[m] = phase[m]
    BY <1>1
<1>3. /\ ready \in Seq(Node) /\ \A i \in DOMAIN ready : phase[ready[i]] = "Ready"
      /\ scheduled = {m \in Node : phase[m] = "Scheduled"}
    BY DEF Heaps
<1>4. \A i \in DOMAIN ready : new[ready[i]] = "Ready"
    BY <1>2, <1>3
<1>5. scheduled = {m \in Node : new[m] = "Scheduled"}
    BY <1>2, <1>3
<1> QED
    BY <1>1, <1>3, <1>4, <1>5 DEF Heaps

\* What create and dropNode change.
Created(s, t, n) ==
    /\ DOMAIN t = Fields /\ t.phase = [s.phase EXCEPT ![n] = "Blocked"]
    /\ t.epoch = [s.epoch EXCEPT ![n] = s.epochFloor] /\ t.epochFloor = s.epochFloor
    /\ t.ready = s.ready /\ t.scheduled = s.scheduled /\ t.leases = s.leases
    /\ t.deadline = s.deadline /\ t.succ = s.succ /\ t.pred = s.pred

Dropped(s, t, n) ==
    /\ DOMAIN t = Fields /\ t.phase = [s.phase EXCEPT ![n] = "Absent"]
    /\ t.epoch = [s.epoch EXCEPT ![n] = 0] /\ t.epochFloor = floorAfter(s, n)
    /\ t.ready = s.ready /\ t.scheduled = s.scheduled /\ t.leases = s.leases
    /\ t.deadline = [s.deadline EXCEPT ![n] = 0]
    /\ t.succ = [s.succ EXCEPT ![n] = <<>>] /\ t.pred = [s.pred EXCEPT ![n] = <<>>]

\* create does that.
LEMMA CreateCreates ==
    ASSUME NEW s, DOMAIN s = Fields, NEW spec
    PROVE  Created(s, create(s, spec), spec.id)
<1>1. PICK n : n = spec.id
    OBVIOUS
<1>2. PICK b : b = [s EXCEPT
            !.phase = put(@, n, "Blocked"), !.status = put(@, n, "New"),
            !.def = put(@, n, DefOf(spec)), !.epoch = put(@, n, s.epochFloor),
            !.nextOrd = s.nextOrd + 1, !.ord = put(@, n, s.nextOrd + 1),
            !.stats.Total = @ + 1]
    OBVIOUS
<1>3. create(s, spec) = enterBucket(b, n)
    BY <1>1, <1>2, Zenon DEF create
<1>4. DOMAIN b = Fields
    BY <1>2
<1>5. PICK t : t = enterBucket(b, n)
    OBVIOUS
<1>6. DOMAIN t = Fields /\ SameBooks(b, t)
    BY <1>4, <1>5, EnterKeeps
<1>7. Created(s, t, n)
    BY <1>2, <1>6 DEF Fields, SameBooks, put, Created
<1> QED
    BY <1>1, <1>3, <1>5, <1>7

\* dropNode does that.
LEMMA DropDrops ==
    ASSUME NEW s, DOMAIN s = Fields, NEW n
    PROVE  Dropped(s, dropNode(s, n), n)
<1>1. PICK a : a = leaveBucket(s, n)
    OBVIOUS
<1>2. DOMAIN a = Fields /\ SameBooks(s, a)
    BY <1>1, LeaveKeeps
<1>3. PICK b : b = [a EXCEPT !.stats.Total = @ - 1]
    BY Zenon
<1>4. DOMAIN b = Fields /\ SameBooks(a, b)
    BY <1>2, <1>3 DEF Fields, SameBooks
<1>5. PICK ord : ord = put(b.ord, n, 0)
    BY Zenon
<1>6. PICK floor : floor = floorAfter(b, n)
    OBVIOUS
<1>7. PICK c : c = [b EXCEPT
        !.phase = put(@, n, "Absent"), !.status = put(@, n, "New"), !.reason = put(@, n, "None"),
        !.def = put(@, n, NoDef), !.deps = put(@, n, NoDeps), !.pred = put(@, n, <<>>),
        !.succ = put(@, n, <<>>)]
    OBVIOUS
<1>13. release(b, n) = [c EXCEPT
        !.epochFloor = floor, !.epoch = put(b.epoch, n, 0),
        !.attempt = put(b.attempt, n, 0), !.deadline = put(b.deadline, n, 0),
        !.readyAt = put(b.readyAt, n, 0), !.age = put(b.age, n, 0), !.ord = ord]
    BY <1>5, <1>6, <1>7, Zenon DEF release
<1>8. floorAfter(b, n) = floorAfter(s, n)
    BY <1>2, <1>4 DEF SameBooks, floorAfter
<1>9. PICK t : t = release(b, n)
    OBVIOUS
<1>10. dropNode(s, n) = t
    BY <1>1, <1>3, <1>9, Zenon DEF dropNode
<1>11. Dropped(b, t, n)
  <2>1. /\ DOMAIN c = Fields /\ c.phase = put(b.phase, n, "Absent")
        /\ c.ready = b.ready /\ c.scheduled = b.scheduled /\ c.leases = b.leases
        /\ c.succ = put(b.succ, n, <<>>) /\ c.pred = put(b.pred, n, <<>>)
    BY <1>4, <1>7 DEF Fields
  <2>2. /\ DOMAIN t = Fields /\ t.phase = put(b.phase, n, "Absent")
        /\ t.epoch = put(b.epoch, n, 0) /\ t.epochFloor = floor
        /\ t.ready = b.ready /\ t.scheduled = b.scheduled /\ t.leases = b.leases
        /\ t.deadline = put(b.deadline, n, 0)
        /\ t.succ = put(b.succ, n, <<>>) /\ t.pred = put(b.pred, n, <<>>)
    BY <1>9, <1>13, <2>1 DEF Fields
  <2> QED
    BY <1>6, <2>2 DEF put, Dropped
<1>12. Dropped(s, t, n)
    BY <1>2, <1>4, <1>8, <1>11 DEF SameBooks, Dropped
<1> QED
    BY <1>10, <1>12

\* What a change leaves alone of a node: its lease, and everything the lease rests on.
Kept(s, t, n) ==
    /\ t.phase[n] = s.phase[n] /\ t.epoch[n] = s.epoch[n]
    /\ s.phase[n] = "Claimed" => t.deadline[n] = s.deadline[n]

\* A node that was not there and is now, at the floor's epoch.
Born(s, t, n) ==
    s.phase[n] = "Absent" /\ t.phase[n] = "Blocked" /\ t.epoch[n] = s.epochFloor

\* Creating a node that is not there keeps the books.
LEMMA CreatedKeeps ==
    ASSUME NEW s, Books(s), NEW n \in Node, s.phase[n] = "Absent", NEW t, Created(s, t, n)
    PROVE  /\ Books(t) /\ t.epochFloor = s.epochFloor
           /\ Born(s, t, n) /\ \A m \in Node : m # n => Kept(s, t, m)
<1>1. /\ s.phase \in [Node -> Phase] /\ Heaps(s.phase, s.ready, s.scheduled)
      /\ s.deadline \in [Node -> Nat] /\ s.epoch \in [Node -> Nat] /\ s.epochFloor \in Nat
      /\ Wired(s.succ, s.pred) /\ Retired(s.phase, s.epoch) /\ s.leases = Held(s.phase)
    BY DEF Books, Ledger
<1>2. Heaps([s.phase EXCEPT ![n] = "Blocked"], s.ready, s.scheduled)
    BY <1>1, HeapsApart
<1>3. /\ t.phase \in [Node -> Phase] /\ t.phase[n] = "Blocked"
      /\ \A m \in Node : m # n => t.phase[m] = s.phase[m]
    BY <1>1 DEF Created, Phase
<1>4. /\ t.epoch \in [Node -> Nat] /\ t.epoch[n] = s.epochFloor
      /\ \A m \in Node : m # n => t.epoch[m] = s.epoch[m]
    BY <1>1 DEF Created
<1>5. t.leases = Held(t.phase)
    BY <1>1, <1>3 DEF Created, Held
<1>6. Retired(t.phase, t.epoch)
    BY <1>1, <1>3, <1>4 DEF Retired
<1>7. Ledger(t)
    BY <1>1, <1>2, <1>3, <1>4, <1>6 DEF Ledger, Created
<1> QED
    BY <1>3, <1>4, <1>5, <1>7 DEF Books, Born, Kept, Created

\* The ledger without the heaps.
Records(s) ==
    /\ DOMAIN s = Fields
    /\ s.phase \in [Node -> Phase]
    /\ s.epoch \in [Node -> Nat] /\ s.deadline \in [Node -> Nat] /\ s.epochFloor \in Nat
    /\ Wired(s.succ, s.pred)
    /\ Retired(s.phase, s.epoch)

\* What is left when n goes: the heaps apart.
LEMMA DroppedLedger ==
    ASSUME NEW s, Records(s), NEW n \in Node, NEW t, Dropped(s, t, n),
           Heaps(t.phase, t.ready, t.scheduled)
    PROVE  /\ Ledger(t) /\ t.phase[n] = "Absent" /\ t.epoch[n] = 0
           /\ \A m \in Node : m # n => Kept(s, t, m)
           /\ t.epochFloor = IF s.epochFloor >= s.epoch[n] THEN s.epochFloor ELSE s.epoch[n]
<1>1. /\ s.phase \in [Node -> Phase]
      /\ s.deadline \in [Node -> Nat] /\ s.epoch \in [Node -> Nat] /\ s.epochFloor \in Nat
      /\ Wired(s.succ, s.pred) /\ Retired(s.phase, s.epoch)
    BY DEF Records
<1>2. /\ t.phase \in [Node -> Phase] /\ t.phase[n] = "Absent"
      /\ \A m \in Node : m # n => t.phase[m] = s.phase[m]
    BY <1>1 DEF Dropped, Phase
<1>3. /\ t.epoch \in [Node -> Nat] /\ t.epoch[n] = 0
      /\ \A m \in Node : m # n => t.epoch[m] = s.epoch[m]
    BY <1>1 DEF Dropped
<1>4. /\ t.deadline \in [Node -> Nat]
      /\ \A m \in Node : m # n => t.deadline[m] = s.deadline[m]
    BY <1>1 DEF Dropped
<1>5. Wired(t.succ, t.pred)
  <2>1. t.succ \in [Node -> Seq(Node)]
    BY <1>1 DEF Dropped, Wired
  <2>2. DOMAIN t.pred = Node /\ t.pred[n] = <<>> /\ \A m \in Node : m # n => t.pred[m] = s.pred[m]
    BY <1>1 DEF Dropped, Wired
  <2>3. DOMAIN t.pred[n] \subseteq Node
    BY <2>2
  <2> QED
    BY <1>1, <2>1, <2>2, <2>3, Zenon DEF Wired
<1>6. Retired(t.phase, t.epoch)
    BY <1>1, <1>2, <1>3 DEF Retired
<1>7. s.epochFloor \in Int /\ s.epoch[n] \in Int
    BY <1>1
<1>8. t.epochFloor = IF s.epochFloor >= s.epoch[n] THEN s.epochFloor ELSE s.epoch[n]
    BY <1>7, TwoOf DEF Dropped, floorAfter
<1>9. Ledger(t)
    BY <1>1, <1>2, <1>3, <1>4, <1>5, <1>6, <1>8 DEF Ledger, Dropped
<1> QED
    BY <1>2, <1>3, <1>4, <1>8, <1>9 DEF Kept

\* Dropping a node that is in no heap keeps the books.
LEMMA DroppedKeeps ==
    ASSUME NEW s, Books(s), NEW n \in Node, s.phase[n] \notin {"Ready", "Scheduled", "Claimed"},
           NEW t, Dropped(s, t, n)
    PROVE  /\ Books(t) /\ t.phase[n] = "Absent" /\ t.epoch[n] = 0
           /\ \A m \in Node : m # n => Kept(s, t, m)
           /\ t.epochFloor = IF s.epochFloor >= s.epoch[n] THEN s.epochFloor ELSE s.epoch[n]
<1>1. /\ s.phase \in [Node -> Phase] /\ Heaps(s.phase, s.ready, s.scheduled)
      /\ Records(s) /\ s.leases = Held(s.phase)
    BY DEF Books, Ledger, Records
<1>2. Heaps([s.phase EXCEPT ![n] = "Absent"], s.ready, s.scheduled)
    BY <1>1, HeapsApart
<1>3. Heaps(t.phase, t.ready, t.scheduled)
    BY <1>2 DEF Dropped
<1>4. /\ Ledger(t) /\ t.phase[n] = "Absent" /\ t.epoch[n] = 0
      /\ \A m \in Node : m # n => Kept(s, t, m)
      /\ t.epochFloor = IF s.epochFloor >= s.epoch[n] THEN s.epochFloor ELSE s.epoch[n]
    BY <1>1, <1>3, DroppedLedger
<1>5. t.phase = [s.phase EXCEPT ![n] = "Absent"] /\ t.leases = s.leases
    BY DEF Dropped
<1>6. t.leases = Held(t.phase)
    BY <1>1, <1>5 DEF Held
<1> QED
    BY <1>4, <1>6 DEF Books
-----------------------------------------------------------------------------
(***************************************************************************)
(* Batches                                                                 *)
(***************************************************************************)
BatchFields == {"s", "ok", "created", "edges", "touched"}

\* Since the scope was s, nothing happened to it but that the nodes of the journal came.
Grown(s, t, created) ==
    /\ t.epochFloor = s.epochFloor
    /\ \A n \in Node : Kept(s, t, n) \/ (Born(s, t, n) /\ n \in Range(created))
    /\ \A i \in DOMAIN created : s.phase[created[i]] = "Absent"

\* What a batch keeps, begun in scope s.
Batch(s, b) ==
    /\ DOMAIN b = BatchFields /\ Books(b.s) /\ Grown(s, b.s, b.created)
    /\ b.created \in Seq(Node) /\ b.edges \in Seq(Node \X Node) /\ b.touched \in Seq(Node)

\* A batch begins so.
LEMMA BatchStarts ==
    ASSUME NEW s, Books(s)
    PROVE  Batch(s, startBatch(s)) /\ startBatch(s).created = <<>>
<1>1. PICK b : b = startBatch(s)
    OBVIOUS
<1>2. /\ DOMAIN b = BatchFields /\ b.s = s /\ b.created = <<>> /\ b.edges = <<>>
      /\ b.touched = <<>>
    BY <1>1 DEF startBatch, BatchFields
<1>3. Grown(s, s, <<>>)
    BY DEF Grown, Kept
<1>4. Batch(s, b)
    BY <1>2, <1>3 DEF Batch
<1> QED
    BY <1>1, <1>2, <1>4

\* Edits of edges and of the journal of edges keep it.
LEMMA BatchGoesOn ==
    ASSUME NEW s, NEW b, Batch(s, b), NEW c, DOMAIN c = BatchFields, Quiet(b.s, c.s),
           c.created = b.created, c.edges \in Seq(Node \X Node), c.touched \in Seq(Node)
    PROVE  Batch(s, c)
<1>1. Books(b.s) /\ Ledger(b.s) /\ Grown(s, b.s, b.created) /\ b.created \in Seq(Node)
    BY DEF Batch, Books
<1>2. Books(c.s)
    BY <1>1, QuietKeeps, Zenon
<1>3. Grown(s, c.s, c.created)
    BY <1>1 DEF Quiet, Grown, Kept, Born
<1> QED
    BY <1>1, <1>2, <1>3 DEF Batch

\* fail and touch.
LEMMA FailKeeps ==
    ASSUME NEW s, NEW b, Batch(s, b)
    PROVE  Batch(s, fail(b)) /\ fail(b).created = b.created
<1>1. PICK c : c = fail(b)
    OBVIOUS
<1>2. /\ DOMAIN b = BatchFields /\ Ledger(b.s) /\ b.edges \in Seq(Node \X Node)
      /\ b.touched \in Seq(Node)
    BY DEF Batch, Books
<1>3. /\ DOMAIN c = BatchFields /\ c.s = b.s /\ c.created = b.created
      /\ c.edges = b.edges /\ c.touched = b.touched
    BY <1>1, <1>2 DEF fail, BatchFields
<1>4. Quiet(b.s, c.s)
    BY <1>2, <1>3, QuietOn
<1>5. Batch(s, c)
    BY <1>2, <1>3, <1>4, BatchGoesOn, Zenon
<1> QED
    BY <1>1, <1>3, <1>5

\* The same of touch.
LEMMA TouchKeeps ==
    ASSUME NEW s, NEW b, Batch(s, b), NEW n \in Node
    PROVE  Batch(s, touch(b, n)) /\ touch(b, n).created = b.created
<1>1. PICK c : c = [b EXCEPT !.touched = Append(@, n)]
    BY Zenon
<1>2. /\ DOMAIN b = BatchFields /\ Ledger(b.s) /\ b.edges \in Seq(Node \X Node)
      /\ b.touched \in Seq(Node)
    BY DEF Batch, Books
<1>3. /\ DOMAIN c = BatchFields /\ c.s = b.s /\ c.created = b.created
      /\ c.edges = b.edges /\ c.touched \in Seq(Node)
    BY <1>1, <1>2 DEF BatchFields
<1>4. Quiet(b.s, c.s)
    BY <1>2, <1>3, QuietOn
<1>5. Batch(s, c)
    BY <1>2, <1>3, <1>4, BatchGoesOn
<1> QED
    BY <1>1, <1>3, <1>5 DEF touch

\* linkNew fails, or links one edge.
LEMMA LinkNewKeeps ==
    ASSUME NEW s, NEW b, Batch(s, b), NEW from \in Node, NEW to \in Node
    PROVE  Batch(s, linkNew(b, from, to)) /\ linkNew(b, from, to).created = b.created
<1>1. PICK r : r = addEdgeOrder(Alive(b.s), EdgesOf(b.s), b.s.ord, from, to)
    OBVIOUS
<1>2. PICK t : t = [b.s EXCEPT !.ord = r.ord]
    BY Zenon
<1>3. PICK u : u = linkEdge(t, from, to)
    OBVIOUS
<1>4. PICK c : c = [b EXCEPT !.s = u, !.edges = Append(b.edges, <<from, to>>)]
    OBVIOUS
<1>5. /\ DOMAIN b = BatchFields /\ Ledger(b.s) /\ b.edges \in Seq(Node \X Node)
      /\ b.touched \in Seq(Node)
    BY DEF Batch, Books
<1>6. Quiet(b.s, t)
    BY <1>2, <1>5 DEF Ledger, Fields, Quiet
<1>7. Ledger(t)
    BY <1>5, <1>6, QuietOn
<1>8. Quiet(t, u)
    BY <1>3, <1>7, LinkIsQuiet
<1>9. Quiet(b.s, u)
    BY <1>5, <1>6, <1>8, QuietOn
<1>10. <<from, to>> \in Node \X Node
    OBVIOUS
<1>11. /\ DOMAIN c = BatchFields /\ c.s = u /\ c.created = b.created
       /\ c.edges \in Seq(Node \X Node) /\ c.touched = b.touched
    BY <1>4, <1>5, <1>10 DEF BatchFields
<1>12. Batch(s, c) /\ c.created = b.created
    BY <1>5, <1>9, <1>11, BatchGoesOn
<1>13. linkNew(b, from, to) \in {fail(b), c}
    BY <1>1, <1>2, <1>3, <1>4, Zenon DEF linkNew
<1> QED
    BY <1>12, <1>13, FailKeeps

\* What a sequence has after one more element.
LEMMA AppendRange ==
    ASSUME NEW S, NEW q \in Seq(S), NEW e \in S
    PROVE  Append(q, e) \in Seq(S) /\ Range(Append(q, e)) = Range(q) \cup {e}
<1>1. PICK r : r = Append(q, e)
    BY Zenon
<1>2. /\ r \in Seq(S) /\ DOMAIN r = 1..(Len(q) + 1) /\ DOMAIN q = 1..Len(q) /\ Len(q) \in Nat
      /\ r[Len(q) + 1] = e /\ \A i \in 1..Len(q) : r[i] = q[i]
    BY <1>1
<1>3. \A x : (\E i \in DOMAIN r : x = r[i]) <=> (\E i \in DOMAIN q : x = q[i]) \/ x = e
    BY <1>2
<1> QED
    BY <1>1, <1>2, <1>3 DEF Range

\* materialise, one spec.
materialiseBody(x, y, b, spec) == materialiseOne(b, spec)
Materialising(p, i, b) == Batch(p.s, b)
Materialise == INSTANCE FoldRule WITH op <- materialiseBody, Good <- Materialising, Max <- Max

\* materialiseOne finds the node, fails, or creates it.
LEMMA MaterialiseOneKeeps ==
    ASSUME NEW s, NEW b, Batch(s, b), NEW spec \in NodeSpec
    PROVE  Batch(s, materialiseOne(b, spec))
<1>0. PICK n \in Node : n = spec.id
    BY DEF NodeSpec
<1>1. PICK u : u = create(b.s, spec)
    OBVIOUS
<1>2. PICK c : c = [b EXCEPT !.s = u, !.created = Append(b.created, n)]
    OBVIOUS
<1>3. ASSUME n \notin Alive(b.s)
      PROVE  Batch(s, c)
  <2>1. /\ DOMAIN b = BatchFields /\ Books(b.s) /\ DOMAIN b.s = Fields
        /\ b.edges \in Seq(Node \X Node) /\ b.touched \in Seq(Node)
        /\ b.created \in Seq(Node) /\ Grown(s, b.s, b.created)
    BY DEF Batch, Books, Ledger
  <2>2. b.s.phase[n] = "Absent"
    BY <1>3 DEF Alive
  <2>3. Created(b.s, u, n)
    BY <1>0, <1>1, <2>1, CreateCreates
  <2>4. /\ Books(u) /\ u.epochFloor = b.s.epochFloor
        /\ Born(b.s, u, n) /\ \A m \in Node : m # n => Kept(b.s, u, m)
    BY <2>1, <2>2, <2>3, CreatedKeeps
  <2>5. /\ DOMAIN c = BatchFields /\ c.s = u /\ c.created = Append(b.created, n)
        /\ c.edges = b.edges /\ c.touched = b.touched
    BY <1>2, <2>1 DEF BatchFields
  <2>6. /\ Range(Append(b.created, n)) = Range(b.created) \cup {n}
        /\ Append(b.created, n) \in Seq(Node)
    BY <2>1, AppendRange
  <2>7. s.phase[n] = "Absent"
    BY <2>1, <2>2 DEF Grown, Kept, Born
  <2>8. \A i \in DOMAIN Append(b.created, n) : s.phase[Append(b.created, n)[i]] = "Absent"
    BY <2>1, <2>7 DEF Grown
  <2>9. ASSUME NEW m \in Node
        PROVE  Kept(s, u, m) \/ (Born(s, u, m) /\ m \in Range(b.created) \cup {n})
    <3>1. CASE m = n
        BY <2>1, <2>4, <2>7, <3>1 DEF Grown, Born
    <3>2. CASE m # n
        BY <2>1, <2>4, <3>2 DEF Grown, Born, Kept
    <3> QED
        BY <3>1, <3>2
  <2>10. u.epochFloor = s.epochFloor
    BY <2>1, <2>4 DEF Grown
  <2>11. Grown(s, c.s, c.created)
    BY <2>5, <2>6, <2>8, <2>9, <2>10 DEF Grown
  <2> QED
    BY <2>1, <2>4, <2>5, <2>6, <2>11 DEF Batch
<1>4. \/ materialiseOne(b, spec) \in {b, fail(b)}
      \/ n \notin Alive(b.s) /\ materialiseOne(b, spec) = c
    BY <1>0, <1>1, <1>2, Zenon DEF materialiseOne
<1> QED
    BY <1>3, <1>4, FailKeeps

\* linkBatch, one dependency of one spec.
linkDepBody(id, y, b, dep) == linkDep(id, b, dep)
LinkingDeps(p, i, b) == Batch(p.s, b)
LinkDeps == INSTANCE FoldRule WITH op <- linkDepBody, Good <- LinkingDeps, Max <- Max

\* linkDep finds the edge, fails, or links it.
LEMMA LinkDepKeeps ==
    ASSUME NEW s, NEW b, Batch(s, b), NEW id \in Node, NEW dep \in Node
    PROVE  Batch(s, linkDep(id, b, dep))
<1>1. linkDep(id, b, dep) \in {b, fail(b), linkNew(b, dep, id)}
    BY Zenon DEF linkDep
<1> QED
    BY <1>1, FailKeeps, LinkNewKeeps

\* linkBatch, one spec.
linkSpecBody(x, y, b, spec) == linkSpec(b, spec)
Linking(p, i, b) == Batch(p.s, b)
Link == INSTANCE FoldRule WITH op <- linkSpecBody, Good <- Linking, Max <- Max

\* linkSpec links what the spec depends on.
LEMMA LinkSpecKeeps ==
    ASSUME NEW s, NEW b, Batch(s, b), NEW spec \in NodeSpec
    PROVE  Batch(s, linkSpec(b, spec))
<1>1. PICK id \in Node, deps \in Seq(Node) : id = spec.id /\ deps = spec.deps
    BY DEF NodeSpec
<1>2. PICK start : start = touch(b, id)
    OBVIOUS
<1> DEFINE p == [s |-> s]
<1>3. linkSpec(b, spec) \in {b, LinkDeps!fold(id, 0, start, deps)}
    BY <1>1, <1>2
       DEF linkSpec, loop, linkDepBody, LinkDeps!fold, MapThenFoldSet, LinkDeps!MapThenFoldSet
<1>4. LinkingDeps(p, 0, start)
    BY <1>2, TouchKeeps DEF LinkingDeps
<1>5. ASSUME NEW i \in 1..Len(deps), NEW c, LinkingDeps(p, i - 1, c)
      PROVE  LinkingDeps(p, i, linkDepBody(id, 0, c, deps[i]))
  <2>1. Batch(s, c) /\ deps[i] \in Node
    BY <1>5 DEF LinkingDeps
  <2>2. Batch(s, linkDep(id, c, deps[i]))
    BY <2>1, LinkDepKeeps
  <2> QED
    BY <2>2 DEF LinkingDeps, linkDepBody
<1>6. LinkingDeps(p, Len(deps), LinkDeps!fold(id, 0, start, deps))
  <2> HIDE DEF p
  <2>1. PICK seg, pre : /\ Counted(1..Len(deps), seg, pre, 0, Len(deps))
                        /\ \A i \in 1..Len(deps) : pre[i] = i - 1
    BY Counts
  <2>2. LinkDeps!Counted(1..Len(deps), seg, pre, 0, Len(deps))
    BY <2>1 DEF Counted, LinkDeps!Counted
  <2> QED
    BY <1>4, <1>5, <2>1, <2>2, LinkDeps!FoldKeeps
<1>7. Batch(s, LinkDeps!fold(id, 0, start, deps))
    BY <1>6 DEF LinkingDeps
<1> QED
    BY <1>3, <1>7

\* The batch of AddNodes.
LEMMA AddNodesBatchKeeps ==
    ASSUME NEW s, Books(s), NEW specs \in Seq(NodeSpec)
    PROVE  Batch(s, addNodesBatch(s, specs))
<1> DEFINE p == [s |-> s]
<1>1. PICK start : start = startBatch(s)
    OBVIOUS
<1>2. PICK made : made = Materialise!fold(0, 0, start, specs)
    OBVIOUS
<1>3. addNodesBatch(s, specs) = Link!fold(0, 0, made, specs)
    BY <1>1, <1>2
       DEF addNodesBatch, loop, MapThenFoldSet, Max,
           materialiseBody, Materialise!fold, Materialise!MapThenFoldSet,
           linkSpecBody, Link!fold, Link!MapThenFoldSet
<1>4. Materialising(p, 0, start)
    BY <1>1, BatchStarts DEF Materialising
<1>5. ASSUME NEW i \in 1..Len(specs), NEW b, Materialising(p, i - 1, b)
      PROVE  Materialising(p, i, materialiseBody(0, 0, b, specs[i]))
  <2>1. Batch(s, b) /\ specs[i] \in NodeSpec
    BY <1>5 DEF Materialising
  <2>2. Batch(s, materialiseOne(b, specs[i]))
    BY <2>1, MaterialiseOneKeeps
  <2> QED
    BY <2>2 DEF Materialising, materialiseBody
<1>6. Materialising(p, Len(specs), Materialise!fold(0, 0, start, specs))
  <2> HIDE DEF p
  <2>1. PICK seg, pre : /\ Counted(1..Len(specs), seg, pre, 0, Len(specs))
                        /\ \A i \in 1..Len(specs) : pre[i] = i - 1
    BY Counts
  <2>2. Materialise!Counted(1..Len(specs), seg, pre, 0, Len(specs))
    BY <2>1 DEF Counted, Materialise!Counted
  <2> QED
    BY <1>4, <1>5, <2>1, <2>2, Materialise!FoldKeeps
<1>7. Linking(p, 0, made)
    BY <1>2, <1>6 DEF Materialising, Linking
<1>8. ASSUME NEW i \in 1..Len(specs), NEW b, Linking(p, i - 1, b)
      PROVE  Linking(p, i, linkSpecBody(0, 0, b, specs[i]))
  <2>1. Batch(s, b) /\ specs[i] \in NodeSpec
    BY <1>8 DEF Linking
  <2>2. Batch(s, linkSpec(b, specs[i]))
    BY <2>1, LinkSpecKeeps
  <2> QED
    BY <2>2 DEF Linking, linkSpecBody
<1>9. Linking(p, Len(specs), Link!fold(0, 0, made, specs))
  <2> HIDE DEF p
  <2>1. PICK seg, pre : /\ Counted(1..Len(specs), seg, pre, 0, Len(specs))
                        /\ \A i \in 1..Len(specs) : pre[i] = i - 1
    BY Counts
  <2>2. Link!Counted(1..Len(specs), seg, pre, 0, Len(specs))
    BY <2>1 DEF Counted, Link!Counted
  <2> QED
    BY <1>7, <1>8, <2>1, <2>2, Link!FoldKeeps
<1> QED
    BY <1>3, <1>9 DEF Linking

\* AddEdges and RemoveEdges, one edge.
addEdgeBody(x, y, b, e) == addOneEdge(b, e)
Adding(p, i, b) == Batch(p.s, b) /\ b.created = <<>>
Add == INSTANCE FoldRule WITH op <- addEdgeBody, Good <- Adding, Max <- Max

cutEdgeBody(x, y, b, e) == cutOneEdge(b, e)
Cutting(p, i, b) == Batch(p.s, b) /\ b.created = <<>>
Cut == INSTANCE FoldRule WITH op <- cutEdgeBody, Good <- Cutting, Max <- Max

\* The batch of AddEdges creates no node.
LEMMA AddEdgesBatchKeeps ==
    ASSUME NEW s, Books(s), NEW es \in Seq(Node \X Node)
    PROVE  Batch(s, addEdgesBatch(s, es)) /\ addEdgesBatch(s, es).created = <<>>
<1> DEFINE p == [s |-> s]
<1>1. PICK start : start = startBatch(s)
    OBVIOUS
<1>2. addEdgesBatch(s, es) = Add!fold(0, 0, start, es)
    BY <1>1 DEF addEdgesBatch, loop, addEdgeBody, Add!fold, MapThenFoldSet, Add!MapThenFoldSet
<1>3. Adding(p, 0, start)
    BY <1>1, BatchStarts DEF Adding
<1>4. ASSUME NEW i \in 1..Len(es), NEW b, Adding(p, i - 1, b)
      PROVE  Adding(p, i, addEdgeBody(0, 0, b, es[i]))
  <2>1. PICK from \in Node, to \in Node : from = es[i][1] /\ to = es[i][2]
    OBVIOUS
  <2>2. Batch(s, b) /\ b.created = <<>>
    BY <1>4 DEF Adding
  <2>3. PICK c : c = linkNew(b, from, to)
    OBVIOUS
  <2>4. Batch(s, c) /\ c.created = <<>>
    BY <2>2, <2>3, LinkNewKeeps, Zenon
  <2>5. addOneEdge(b, es[i]) \in {b, fail(b), c, touch(c, to)}
    BY <2>1, <2>3, Zenon DEF addOneEdge
  <2>6. Batch(s, touch(c, to)) /\ touch(c, to).created = <<>>
    BY <2>4, TouchKeeps, Zenon
  <2>7. Batch(s, fail(b)) /\ fail(b).created = <<>>
    BY <2>2, FailKeeps
  <2> QED
    BY <2>2, <2>4, <2>5, <2>6, <2>7 DEF Adding, addEdgeBody
<1>5. Adding(p, Len(es), Add!fold(0, 0, start, es))
  <2> HIDE DEF p
  <2>1. PICK seg, pre : /\ Counted(1..Len(es), seg, pre, 0, Len(es))
                        /\ \A i \in 1..Len(es) : pre[i] = i - 1
    BY Counts
  <2>2. Add!Counted(1..Len(es), seg, pre, 0, Len(es))
    BY <2>1, Zenon DEF Counted, Add!Counted
  <2> QED
    BY <1>3, <1>4, <2>1, <2>2, Add!FoldKeeps
<1> QED
    BY <1>2, <1>5 DEF Adding

\* Nor does the batch of RemoveEdges.
LEMMA CutEdgesBatchKeeps ==
    ASSUME NEW s, Books(s), NEW es \in Seq(Node \X Node)
    PROVE  Batch(s, cutEdgesBatch(s, es)) /\ cutEdgesBatch(s, es).created = <<>>
<1> DEFINE p == [s |-> s]
<1>1. PICK start : start = startBatch(s)
    OBVIOUS
<1>2. cutEdgesBatch(s, es) = Cut!fold(0, 0, start, es)
    BY <1>1 DEF cutEdgesBatch, loop, cutEdgeBody, Cut!fold, MapThenFoldSet, Cut!MapThenFoldSet
<1>3. Cutting(p, 0, start)
    BY <1>1, BatchStarts DEF Cutting
<1>4. ASSUME NEW i \in 1..Len(es), NEW b, Cutting(p, i - 1, b)
      PROVE  Cutting(p, i, cutEdgeBody(0, 0, b, es[i]))
  <2>1. PICK from \in Node, to \in Node : from = es[i][1] /\ to = es[i][2]
    OBVIOUS
  <2>2. Batch(s, b) /\ b.created = <<>>
    BY <1>4 DEF Cutting
  <2>3. PICK u : u = unlinkEdge(b.s, from, to)
    OBVIOUS
  <2>4. PICK c : c = [b EXCEPT !.s = u]
    BY Zenon
  <2>5. /\ DOMAIN b = BatchFields /\ Ledger(b.s) /\ b.edges \in Seq(Node \X Node)
        /\ b.touched \in Seq(Node)
    BY <2>2 DEF Batch, Books
  <2>6. Quiet(b.s, u)
    BY <2>3, <2>5, UnlinkIsQuiet
  <2>7. /\ DOMAIN c = BatchFields /\ c.s = u /\ c.created = b.created
        /\ c.edges = b.edges /\ c.touched = b.touched
    BY <2>4, <2>5 DEF BatchFields
  <2>8. Batch(s, c) /\ c.created = <<>>
    BY <2>2, <2>5, <2>6, <2>7, BatchGoesOn, Zenon
  <2>9. cutOneEdge(b, es[i]) \in {b, fail(b), touch(c, to)}
    BY <2>1, <2>3, <2>4, Zenon DEF cutOneEdge
  <2>10. Batch(s, touch(c, to)) /\ touch(c, to).created = <<>>
    BY <2>8, TouchKeeps, Zenon
  <2>11. Batch(s, fail(b)) /\ fail(b).created = <<>>
    BY <2>2, FailKeeps
  <2> QED
    BY <2>2, <2>9, <2>10, <2>11 DEF Cutting, cutEdgeBody
<1>5. Cutting(p, Len(es), Cut!fold(0, 0, start, es))
  <2> HIDE DEF p
  <2>1. PICK seg, pre : /\ Counted(1..Len(es), seg, pre, 0, Len(es))
                        /\ \A i \in 1..Len(es) : pre[i] = i - 1
    BY Counts
  <2>2. Cut!Counted(1..Len(es), seg, pre, 0, Len(es))
    BY <2>1, Zenon DEF Counted, Cut!Counted
  <2> QED
    BY <1>3, <1>4, <2>1, <2>2, Cut!FoldKeeps
<1> QED
    BY <1>2, <1>5 DEF Cutting

\* newestFirst turns a sequence round.
LEMMA NewestFirstTurns ==
    ASSUME NEW S, NEW q \in Seq(S)
    PROVE  newestFirst(q) \in Seq(S) /\ Range(newestFirst(q)) = Range(q)
<1>1. PICK r : r = newestFirst(q)
    OBVIOUS
<1>2. Len(q) \in Nat /\ DOMAIN q = 1..Len(q)
    OBVIOUS
<1>3. DOMAIN r = 1..Len(q) /\ \A i \in 1..Len(q) : r[i] = q[Len(q) + 1 - i] /\ Len(q) + 1 - i \in 1..Len(q)
    BY <1>1, <1>2 DEF newestFirst
<1>4. r \in [1..Len(q) -> S]
    BY <1>1, <1>2, <1>3 DEF newestFirst
<1>5. r \in Seq(S)
    BY <1>2, <1>4
<1>6. \A i \in 1..Len(q) : q[i] = r[Len(q) + 1 - i] /\ Len(q) + 1 - i \in 1..Len(q)
    BY <1>2, <1>3
<1>7. Range(r) = Range(q)
    BY <1>2, <1>3, <1>6 DEF Range
<1> QED
    BY <1>1, <1>5, <1>7

\* Where every node is kept, no lease ends.
LEMMA KeptIsSettled ==
    ASSUME NEW s, Books(s), NEW t, Books(t), t.epochFloor = s.epochFloor,
           \A n \in Node : Kept(s, t, n)
    PROVE  Settled(s, t)
<1>1. /\ s.phase \in [Node -> Phase] /\ t.phase \in [Node -> Phase]
      /\ s.epoch \in [Node -> Nat] /\ t.epoch \in [Node -> Nat] /\ Ledger(t)
    BY DEF Books, Ledger
<1>2. \A n \in Node : t.phase[n] = s.phase[n] /\ t.epoch[n] = s.epoch[n]
    BY DEF Kept
<1>3. t.phase = s.phase /\ t.epoch = s.epoch
    BY <1>1, <1>2
<1>4. Moves(s.phase, t.phase, {}, {})
    BY <1>3 DEF Moves, Goes
<1>5. Timed(t.phase, s.deadline, t.deadline)
    BY <1>3 DEF Timed, Kept
<1>6. Follows(s, t, {}, {})
    BY <1>1, <1>3, <1>4, <1>5 DEF Follows
<1> QED
    BY <1>6 DEF Settled

\* rollback, one node of the journal: those it has not come to yet are still there.
dropBody(x, y, s, n) == dropNode(s, n)
Dropping(p, i, t) ==
    /\ Books(t) /\ t.epochFloor = p.s.epochFloor
    /\ \A n \in Node : \/ Kept(p.s, t, n)
                       \/ Born(p.s, t, n) /\ \E j \in DOMAIN p.order : j > i /\ p.order[j] = n
Drop == INSTANCE FoldRule WITH op <- dropBody, Good <- Dropping, Max <- Max

\* One turn of it.
LEMMA DropOneKeeps ==
    ASSUME NEW s, Books(s), NEW order \in Seq(Node), NEW i \in 1..Len(order),
           s.phase[order[i]] = "Absent", NEW t, Dropping([s |-> s, order |-> order], i - 1, t)
    PROVE  Dropping([s |-> s, order |-> order], i, dropNode(t, order[i]))
<1>1. PICK n \in Node : n = order[i]
    OBVIOUS
<1>2. PICK u : u = dropNode(t, n)
    OBVIOUS
<1>3. /\ Books(t) /\ t.epochFloor = s.epochFloor
      /\ \A m \in Node : \/ Kept(s, t, m)
                         \/ Born(s, t, m) /\ \E j \in DOMAIN order : j > i - 1 /\ order[j] = m
    BY DEF Dropping
<1>4. Ledger(s) /\ Ledger(t) /\ DOMAIN t = Fields
    BY <1>3, Zenon DEF Books, Ledger
<1>5. s.phase[n] = "Absent" /\ s.epoch[n] = 0 /\ s.epochFloor \in Nat
    BY <1>1, <1>4 DEF Ledger, Retired
<1>6. t.phase[n] \in {"Absent", "Blocked"} /\ t.epoch[n] \in {0, t.epochFloor}
    BY <1>3, <1>5 DEF Kept, Born
<1>7. Dropped(t, u, n)
    BY <1>2, <1>4, DropDrops
<1>8. t.phase[n] \notin {"Ready", "Scheduled", "Claimed"}
    BY <1>6
<1>9. /\ Books(u) /\ u.phase[n] = "Absent" /\ u.epoch[n] = 0
      /\ \A m \in Node : m # n => Kept(t, u, m)
      /\ u.epochFloor = IF t.epochFloor >= t.epoch[n] THEN t.epochFloor ELSE t.epoch[n]
    BY <1>3, <1>7, <1>8, DroppedKeeps
<1>10. u.epochFloor = s.epochFloor
    BY <1>3, <1>5, <1>6, <1>9
<1>11. Kept(s, u, n)
    BY <1>5, <1>9 DEF Kept
<1>12. ASSUME NEW m \in Node, m # n
       PROVE  \/ Kept(s, u, m)
              \/ Born(s, u, m) /\ \E j \in DOMAIN order : j > i /\ order[j] = m
  <2>1. Kept(t, u, m)
    BY <1>9, <1>12
  <2>2. CASE Kept(s, t, m)
    BY <2>1, <2>2 DEF Kept
  <2>3. CASE Born(s, t, m) /\ \E j \in DOMAIN order : j > i - 1 /\ order[j] = m
    <3>1. PICK j \in DOMAIN order : j > i - 1 /\ order[j] = m
        BY <2>3
    <3>2. j > i
        BY <1>1, <1>12, <3>1
    <3>3. Born(s, u, m)
        BY <2>1, <2>3 DEF Kept, Born
    <3> QED
        BY <3>1, <3>2, <3>3
  <2> QED
    BY <1>3, <2>2, <2>3
<1> QED
    BY <1>1, <1>2, <1>9, <1>10, <1>11, <1>12 DEF Dropping

\* rollback leaves no trace on any lease, and no node of the batch.
LEMMA RollbackKeeps ==
    ASSUME NEW s, Books(s), NEW b, Batch(s, b)
    PROVE  Settled(s, rollback(b))
<1>1. PICK es : es = newestFirst(b.edges)
    OBVIOUS
<1>2. PICK order : order = newestFirst(b.created)
    OBVIOUS
<1>3. PICK start : start = unlinkAll(b.s, es)
    OBVIOUS
<1> DEFINE p == [s |-> s, order |-> order]
<1>4. rollback(b) = Drop!fold(0, 0, start, order)
    BY <1>1, <1>2, <1>3 DEF rollback, loop, dropBody, Drop!fold, MapThenFoldSet,
                            Drop!MapThenFoldSet
<1>5. /\ Books(b.s) /\ Ledger(b.s) /\ Grown(s, b.s, b.created)
      /\ b.created \in Seq(Node) /\ b.edges \in Seq(Node \X Node)
    BY DEF Batch, Books
<1>6. es \in Seq(Node \X Node) /\ order \in Seq(Node) /\ Range(order) = Range(b.created)
    BY <1>1, <1>2, <1>5, NewestFirstTurns
<1>7. Quiet(b.s, start)
    BY <1>3, <1>5, <1>6, UnlinkAllIsQuiet
<1>8. Books(start)
    BY <1>5, <1>7, QuietKeeps
<1>9. ASSUME NEW i \in DOMAIN order
      PROVE  s.phase[order[i]] = "Absent"
  <2>1. order[i] \in Range(b.created)
    <3>1. order[i] \in Range(order)
        BY DEF Range
    <3> QED
        BY <1>6, <3>1
  <2>2. PICK k \in DOMAIN b.created : b.created[k] = order[i]
    BY <2>1 DEF Range
  <2> QED
    BY <1>5, <2>2 DEF Grown
<1>10. ASSUME NEW n \in Node, n \in Range(b.created)
       PROVE  \E j \in DOMAIN order : j > 0 /\ order[j] = n
  <2>1. n \in Range(order)
    BY <1>6, <1>10
  <2>2. PICK j \in DOMAIN order : order[j] = n
    BY <2>1 DEF Range
  <2> QED
    BY <1>6, <2>2
<1>11. Dropping(p, 0, start)
  <2>1. \A n \in Node : Kept(s, start, n) \/ (Born(s, start, n) /\ n \in Range(b.created))
    BY <1>5, <1>7 DEF Grown, Quiet, Kept, Born
  <2>2. start.epochFloor = s.epochFloor
    BY <1>5, <1>7 DEF Grown, Quiet
  <2> QED
    BY <1>8, <1>10, <2>1, <2>2 DEF Dropping
<1>12. ASSUME NEW i \in 1..Len(order), NEW t, Dropping(p, i - 1, t)
       PROVE  Dropping(p, i, dropBody(0, 0, t, order[i]))
  <2>1. s.phase[order[i]] = "Absent"
    BY <1>6, <1>9
  <2> QED
    BY <1>6, <1>12, <2>1, DropOneKeeps DEF dropBody
<1>13. Dropping(p, Len(order), Drop!fold(0, 0, start, order))
  <2> HIDE DEF p
  <2>1. PICK seg, pre : /\ Counted(1..Len(order), seg, pre, 0, Len(order))
                        /\ \A i \in 1..Len(order) : pre[i] = i - 1
    BY <1>6, Counts
  <2>2. Drop!Counted(1..Len(order), seg, pre, 0, Len(order))
    BY <2>1 DEF Counted, Drop!Counted
  <2> QED
    BY <1>11, <1>12, <2>1, <2>2, Drop!FoldKeeps
<1>14. PICK t : t = Drop!fold(0, 0, start, order) /\ Dropping(p, Len(order), t)
    BY <1>13
<1>15. /\ Books(t) /\ t.epochFloor = s.epochFloor
       /\ \A n \in Node : \/ Kept(s, t, n)
                          \/ Born(s, t, n) /\ \E j \in DOMAIN order : j > Len(order) /\ order[j] = n
    BY <1>14 DEF Dropping
<1>16. \A n \in Node : Kept(s, t, n)
    BY <1>6, <1>15
<1>17. Settled(s, t)
    BY <1>15, <1>16, KeptIsSettled
<1> QED
    BY <1>4, <1>14, <1>17
-----------------------------------------------------------------------------
(***************************************************************************)
(* AddNodes, AddEdges and RemoveEdges                                      *)
(***************************************************************************)

\* AddNodes: the nodes in S are new, and start from the floor.
Joins(s, t, S) ==
    /\ Books(t) /\ t.epochFloor = s.epochFloor /\ LeasesLast(s, t)
    /\ \A n \in S : /\ s.phase[n] = "Absent" /\ t.epoch[n] = s.epochFloor
                    /\ CoarseState(t.phase[n]) \in {"Open", "Done"}
    /\ \A n \in Node \ S : Carried(s, t, n, FALSE)

\* A step that only settles adds nothing.
LEMMA SettledJoins ==
    ASSUME NEW s, Books(s), NEW t, Settled(s, t)
    PROVE  Joins(s, t, {})
<1>1. Ledger(s) /\ Books(t) /\ Follows(s, t, {}, {})
    BY DEF Books, Settled
<1>2. LeasesLast(s, t)
    BY <1>1, FollowsLasts
<1>3. \A n \in Node \ {} : Carried(s, t, n, FALSE)
    BY SettledSpares, Zenon
<1>4. t.epochFloor = s.epochFloor
    BY <1>1 DEF Follows
<1> QED
    BY <1>1, <1>2, <1>3, <1>4, Zenon DEF Joins

\* AddNodes: a batch that lands adds its nodes, one that is refused adds none.
LEMMA FinishBatchJoins ==
    ASSUME NEW s, Books(s), NEW b, Batch(s, b)
    PROVE  \E S \in SUBSET Node : Joins(s, finishBatch(b), S)
<1>1. CASE ~ b.ok
  <2>1. Settled(s, finishBatch(b))
    BY <1>1, RollbackKeeps DEF finishBatch
  <2> QED
    BY <2>1, SettledJoins
<1>2. CASE b.ok
  <2>1. PICK t : t = finishBatch(b)
    OBVIOUS
  <2>2. Books(b.s) /\ Grown(s, b.s, b.created) /\ b.touched \in Seq(Node)
    BY DEF Batch
  <2>3. Settled(b.s, t)
    <3>1. t = settleAll(b.s, b.touched)
        BY <1>2, <2>1 DEF finishBatch
    <3> QED
        BY <2>2, <3>1, SettleAllKeeps
  <2>4. PICK S \in SUBSET Node : S = {n \in Node : Born(s, b.s, n)}
    BY Zenon
  <2>5. /\ Ledger(b.s) /\ Books(t) /\ Follows(b.s, t, {}, {})
        /\ t.epochFloor = b.s.epochFloor /\ b.s.epochFloor = s.epochFloor
    BY <2>2, <2>3 DEF Settled, Books, Follows, Grown
  <2>6. \A n \in Node : Kept(s, b.s, n) \/ Born(s, b.s, n)
    BY <2>2 DEF Grown
  <2>7. LeasesLast(s, b.s)
    BY <2>6 DEF LeasesLast, Kept, Born
  <2>8. LeasesLast(s, t)
    BY <2>5, <2>7, FollowsLasts, LeasesLastOn
  <2>9. ASSUME NEW n \in S
        PROVE  /\ s.phase[n] = "Absent" /\ t.epoch[n] = s.epochFloor
               /\ CoarseState(t.phase[n]) \in {"Open", "Done"}
    <3>1. Born(s, b.s, n) /\ n \in Node
        BY <2>4
    <3>2. Carried(b.s, t, n, FALSE)
        BY <2>3, <3>1, SettledSpares, Zenon
    <3> QED
        BY <3>1, <3>2 DEF Carried, Goes, Born, CoarseState
  <2>10. ASSUME NEW n \in Node \ S
         PROVE  Carried(s, t, n, FALSE)
    <3>1. Kept(s, b.s, n)
        BY <2>4, <2>6
    <3>2. Carried(b.s, t, n, FALSE)
        BY <2>3, SettledSpares, Zenon
    <3> QED
        BY <3>1, <3>2, Zenon DEF Carried, Kept
  <2> QED
    BY <2>1, <2>5, <2>8, <2>9, <2>10, Zenon DEF Joins
<1> QED
    BY <1>1, <1>2

\* AddEdges and RemoveEdges create nothing: at worst they finish nodes nobody holds.
LEMMA EdgeBatchSettles ==
    ASSUME NEW s, Books(s), NEW b, Batch(s, b), b.created = <<>>
    PROVE  Settled(s, finishBatch(b)) /\ Settled(s, finishCut(b))
<1>1. Books(b.s) /\ Grown(s, b.s, b.created) /\ b.touched \in Seq(Node)
    BY DEF Batch
<1>2. \A n \in Node : Kept(s, b.s, n)
    BY <1>1 DEF Grown, Range
<1>3. Settled(s, b.s)
    BY <1>1, <1>2, KeptIsSettled DEF Grown
<1>4. Settled(s, settleAll(b.s, b.touched))
  <2>1. Settled(b.s, settleAll(b.s, b.touched))
    BY <1>1, SettleAllKeeps
  <2> QED
    BY <1>3, <2>1, FollowsOn DEF Settled, Books
<1>5. Settled(s, rollback(b))
    BY RollbackKeeps
<1> QED
    BY <1>3, <1>4, <1>5 DEF finishBatch, finishCut

-----------------------------------------------------------------------------
(***************************************************************************)
(* Removal                                                                 *)
(***************************************************************************)

\* The floor after the epochs of the nodes in S were retired into it.
Raised(s, t, S) ==
    /\ t.epochFloor \in {s.epochFloor} \cup {s.epoch[n] : n \in S}
    /\ t.epochFloor >= s.epochFloor
    /\ \A n \in S : t.epochFloor >= s.epoch[n]

\* RemoveNode, CollectTerminal: the nodes in S, which nobody held, are gone.
Leaves(s, t, S) ==
    /\ Books(t) /\ Raised(s, t, S) /\ LeasesLast(s, t)
    /\ \A n \in S : /\ CoarseState(s.phase[n]) \in {"Open", "Done"}
                    /\ t.phase[n] = "Absent" /\ t.epoch[n] = 0
    /\ \A n \in Node \ S : Carried(s, t, n, TRUE)

\* Every finite set has an order.
LEMMA OrdersExist ==
    ASSUME NEW S, IsFiniteSet(S)
    PROVE  \E q : q \in orders(S)
    BY FS_CardinalityType DEF orders, ExistsBijection, Bijection

\* n is gone, and nothing else happened.
Gone(s, t, n) ==
    /\ Books(t) /\ t.phase[n] = "Absent" /\ t.epoch[n] = 0
    /\ \A m \in Node : m # n => Kept(s, t, m)
    /\ t.epochFloor = IF s.epochFloor >= s.epoch[n] THEN s.epochFloor ELSE s.epoch[n]

\* RemoveNode's last lines: n is taken out of the heaps, and released.
\* RemoveNode's last lines: n is taken out of the heaps, and released.
LEMMA WithdrawnGoes ==
    ASSUME NEW s, Books(s), NEW n \in Node
    PROVE  Gone(s, dropNode(withdrawn(s, n), n), n)
<1>1. PICK u : u = withdrawn(s, n)
    OBVIOUS
<1>2. PICK t : t = dropNode(u, n)
    OBVIOUS
<1>3. /\ s.phase \in [Node -> Phase] /\ Heaps(s.phase, s.ready, s.scheduled)
      /\ Records(s) /\ s.leases = Held(s.phase)
    BY DEF Books, Ledger, Records
<1>4. DOMAIN s = Fields
    BY <1>3 DEF Records
<1>5. /\ DOMAIN u = Fields /\ u.phase = s.phase /\ u.epoch = s.epoch /\ u.deadline = s.deadline
      /\ u.epochFloor = s.epochFloor /\ u.succ = s.succ /\ u.pred = s.pred
      /\ u.ready = without(s.ready, n) /\ u.scheduled = s.scheduled \ {n}
      /\ u.leases = s.leases \ {n}
    BY <1>1, <1>4 DEF withdrawn, Fields
<1>6. Records(u)
    BY <1>3, <1>5 DEF Records
<1>7. Dropped(u, t, n)
    BY <1>2, <1>5, DropDrops
<1>8. /\ t.phase = [s.phase EXCEPT ![n] = "Absent"] /\ t.ready = without(s.ready, n)
      /\ t.scheduled = s.scheduled \ {n} /\ t.leases = s.leases \ {n}
    BY <1>5, <1>7 DEF Dropped
<1>9. Heaps(t.phase, t.ready, t.scheduled)
  <2>1. "Absent" \in Phase
    BY DEF Phase
  <2>2. Heaps([s.phase EXCEPT ![n] = "Absent"], Queue(s.ready, n, "Absent"),
              Retry(s.scheduled, n, "Absent"))
    BY <1>3, <2>1, HeapsMove
  <2> QED
    BY <1>8, <2>2 DEF Queue, Retry
<1>10. /\ Ledger(t) /\ t.phase[n] = "Absent" /\ t.epoch[n] = 0
       /\ \A m \in Node : m # n => Kept(u, t, m)
       /\ t.epochFloor = IF u.epochFloor >= u.epoch[n] THEN u.epochFloor ELSE u.epoch[n]
    BY <1>6, <1>7, <1>9, DroppedLedger
<1>11. \A m \in Node : m # n => Kept(s, t, m)
    BY <1>5, <1>10 DEF Kept
<1>12. t.leases = Held(t.phase)
    BY <1>3, <1>8 DEF Held
<1> QED
    BY <1>1, <1>2, <1>5, <1>10, <1>11, <1>12 DEF Gone, Books

\* A quiet step carries every node and every lease.
LEMMA QuietCarries ==
    ASSUME NEW s, NEW t, Quiet(s, t)
    PROVE  LeasesLast(s, t) /\ \A n \in Node : Carried(s, t, n, TRUE)
    BY DEF Quiet, LeasesLast, Carried, Goes

\* RemoveNode up to the release: successors may be finished, edges are cut.
Cleared(s, t) ==
    /\ Books(t) /\ t.epoch = s.epoch /\ t.epochFloor = s.epochFloor /\ LeasesLast(s, t)
    /\ \A n \in Node : Carried(s, t, n, TRUE)

\* An edge more or less does not matter to it.
LEMMA QuietClears ==
    ASSUME NEW s, NEW t, Cleared(s, t), NEW u, Quiet(t, u)
    PROVE  Cleared(s, u)
<1>1. Books(t) /\ Ledger(t) /\ LeasesLast(s, t) /\ \A n \in Node : Carried(s, t, n, TRUE)
    BY Zenon DEF Cleared, Books
<1>2. Books(u)
    BY <1>1, QuietKeeps
<1>3. LeasesLast(t, u) /\ \A n \in Node : Carried(t, u, n, TRUE)
    BY QuietCarries, Zenon
<1>4. LeasesLast(s, u)
    BY <1>1, <1>3, LeasesLastOn
<1>5. \A n \in Node : Carried(s, u, n, TRUE)
    BY <1>1, <1>3, CarriedOn, Zenon
<1> QED
    BY <1>2, <1>4, <1>5, Zenon DEF Cleared, Quiet

\* The edges between n and the nodes of q, as unlinkAll takes them.
LEMMA EdgesOfOne ==
    ASSUME NEW n \in Node, NEW q \in Seq(Node)
    PROVE  /\ [i \in DOMAIN q |-> <<n, q[i]>>] \in Seq(Node \X Node)
           /\ [i \in DOMAIN q |-> <<q[i], n>>] \in Seq(Node \X Node)
    OBVIOUS

\* CascadeFail finishes the successors; the other policies finish nobody.
LEMMA CascadeClears ==
    ASSUME NEW s, Books(s), NEW n \in Node, NEW policy
    PROVE  Cleared(s, IF policy = "Fail" THEN terminateAll(s, s.succ[n], "Removed") ELSE s)
<1>1. Ledger(s) /\ s.succ[n] \in Seq(Node)
    BY DEF Books, Ledger, Wired
<1>2. "Removed" \in Reason
    BY DEF Reason
<1>3. AllEnded(s, terminateAll(s, s.succ[n], "Removed"), s.succ[n])
    BY <1>1, <1>2, TerminateAllKeeps
<1>4. ASSUME NEW t, NEW F, Books(t), Follows(s, t, F, {})
      PROVE  Cleared(s, t)
  <2>1. LeasesLast(s, t)
    BY <1>1, <1>4, FollowsLasts
  <2>2. \A m \in Node : Carried(s, t, m, TRUE)
    BY <1>4, FollowsCarries, Zenon
  <2> QED
    BY <1>4, <2>1, <2>2, Zenon DEF Cleared, Follows
<1>5. Cleared(s, terminateAll(s, s.succ[n], "Removed"))
    BY <1>3, <1>4 DEF AllEnded
<1>6. Cleared(s, s)
  <2>1. Follows(s, s, {}, {})
    BY <1>1, FollowsItself
  <2> QED
    BY <1>4, <2>1
<1> QED
    BY <1>5, <1>6

\* RemoveNode deletes n, whatever its policy: it never takes a lease from a node, but
\* under CascadeFail it finishes the successors, held or not.
LEMMA RemovedLeaves ==
    ASSUME NEW s, Books(s), NEW n \in Node, NEW policy, removable(s, n, policy)
    PROVE  Leaves(s, removed(s, n, policy), {n})
<1>1. PICK outs : outs = s.succ[n]
    OBVIOUS
<1>2. PICK failed : failed = IF policy = "Fail" THEN terminateAll(s, outs, "Removed") ELSE s
    OBVIOUS
<1>3. PICK cut : cut = cutFrom(failed, n, outs)
    OBVIOUS
<1>4. PICK bare : bare = cutInto(cut, n)
    OBVIOUS
<1>5. PICK gone : gone = dropNode(withdrawn(bare, n), n)
    OBVIOUS
<1>6. PICK t : t = IF policy = "Detach" THEN settleAll(gone, outs) ELSE gone
    OBVIOUS
<1>7. removed(s, n, policy) = t
    BY <1>1, <1>2, <1>3, <1>4, <1>5, <1>6, Zenon DEF removed
<1>9. outs \in Seq(Node) /\ s.phase \in [Node -> Phase]
    BY <1>1 DEF Books, Ledger, Wired
<1>10. Cleared(s, failed)
    BY <1>1, <1>2, CascadeClears
<1>11. Cleared(s, cut)
  <2>1. Ledger(failed)
    BY <1>10 DEF Cleared, Books
  <2>2. Quiet(failed, cut)
    BY <1>3, <1>9, <2>1, EdgesOfOne, UnlinkAllIsQuiet DEF cutFrom
  <2> QED
    BY <1>10, <2>2, QuietClears
<1>12. Cleared(s, bare)
  <2>1. Ledger(cut) /\ DOMAIN cut.pred[n] \subseteq Node
    BY <1>11 DEF Cleared, Books, Ledger, Wired
  <2>2. IsFiniteSet(DOMAIN cut.pred[n])
    BY <2>1, NodeFinite, FS_Subset
  <2>3. PICK ins : ins = (CHOOSE order \in orders(DOMAIN cut.pred[n]) : TRUE)
    OBVIOUS
  <2>4. ins \in Seq(Node)
    <3>1. ins \in orders(DOMAIN cut.pred[n])
        BY <2>2, <2>3, OrdersExist
    <3>2. ins \in Seq(DOMAIN cut.pred[n])
        BY <2>2, <3>1, OrdersAreSequences
    <3> QED
        BY <2>1, <3>2
  <2>5. Quiet(cut, bare)
    <3>1. bare = unlinkAll(cut, [i \in DOMAIN ins |-> <<ins[i], n>>])
        BY <1>4, <2>3 DEF cutInto
    <3> QED
        BY <2>1, <2>4, <3>1, EdgesOfOne, UnlinkAllIsQuiet
  <2> QED
    BY <1>11, <2>5, QuietClears
<1>13. Gone(bare, gone, n)
    BY <1>5, <1>12, WithdrawnGoes DEF Cleared
<1>14. Settled(gone, t)
  <2>1. Books(gone) /\ Ledger(gone)
    BY <1>13 DEF Gone, Books
  <2>2. Settled(gone, settleAll(gone, outs))
    BY <1>9, <2>1, SettleAllKeeps
  <2>3. Settled(gone, gone)
    BY <2>1, FollowsItself DEF Settled
  <2> QED
    BY <1>6, <2>2, <2>3
<1>15. Books(t) /\ t.epochFloor = gone.epochFloor /\ t.epoch = gone.epoch /\ t.phase[n] = "Absent"
  <2>1. Books(t) /\ Follows(gone, t, {}, {}) /\ Ledger(gone) /\ gone.phase[n] = "Absent"
    BY <1>13, <1>14 DEF Settled, Gone, Books
  <2>2. t.phase[n] = "Absent"
    BY <2>1, FollowsStays
  <2> QED
    BY <2>1, <2>2 DEF Follows
<1>16. LeasesLast(s, t)
  <2>1. LeasesLast(s, bare)
    BY <1>12 DEF Cleared
  <2>2. LeasesLast(bare, gone)
    BY <1>13 DEF LeasesLast, Gone, Kept
  <2>3. LeasesLast(gone, t)
    <3>1. Ledger(gone) /\ Follows(gone, t, {}, {})
        BY <1>13, <1>14 DEF Settled, Gone, Books
    <3> QED
        BY <3>1, FollowsLasts
  <2> QED
    BY <2>1, <2>2, <2>3, LeasesLastOn
<1>17. ASSUME NEW m \in Node \ {n}
       PROVE  Carried(s, t, m, TRUE)
  <2>1. Carried(s, bare, m, TRUE)
    BY <1>12, Zenon DEF Cleared
  <2>2. Kept(bare, gone, m)
    BY <1>13 DEF Gone
  <2>3. Carried(gone, t, m, FALSE)
    BY <1>14, SettledSpares, Zenon
  <2>4. Carried(bare, t, m, TRUE)
    BY <2>2, <2>3 DEF Carried, Goes, Kept
  <2> QED
    BY <2>1, <2>4, CarriedOn, Zenon
<1>18. Raised(s, t, {n})
  <2>1. bare.epoch = s.epoch /\ bare.epochFloor = s.epochFloor
    BY <1>12 DEF Cleared
  <2>2. t.epochFloor = IF s.epochFloor >= s.epoch[n] THEN s.epochFloor ELSE s.epoch[n]
    BY <1>13, <1>15, <2>1 DEF Gone
  <2>3. s.epochFloor \in Nat /\ s.epoch[n] \in Nat
    BY DEF Books, Ledger
  <2> QED
    BY <2>2, <2>3 DEF Raised
<1>19. CoarseState(s.phase[n]) \in {"Open", "Done"}
    BY <1>9 DEF removable, CoarseState, Phase
<1>20. t.epoch[n] = 0
    BY <1>13, <1>15 DEF Gone
<1> QED
    BY <1>7, <1>15, <1>16, <1>17, <1>18, <1>19, <1>20, Zenon DEF Leaves

-----------------------------------------------------------------------------
(***************************************************************************)
(* Collection                                                              *)
(***************************************************************************)

\* The finished nodes in S are gone, and nothing else happened.
Collected(s, t, S) ==
    /\ Books(t) /\ Raised(s, t, S)
    /\ \A n \in S : s.phase[n] = "Done" /\ t.phase[n] = "Absent" /\ t.epoch[n] = 0
    /\ \A n \in Node \ S : Kept(s, t, n)

\* detachSucc only touches edges.
LEMMA DetachedIsQuiet ==
    ASSUME NEW s, Ledger(s), NEW n \in Node
    PROVE  Quiet(s, detached(s, n))
<1>1. PICK succ : succ = [p \in Node |-> IF p \in DOMAIN s.pred[n] THEN without(s.succ[p], n)
                                         ELSE s.succ[p]]
    BY Zenon
<1>2. DOMAIN s = Fields /\ Wired(s.succ, s.pred) /\ \A p \in Node : s.succ[p] \in Seq(Node)
    BY DEF Ledger, Wired
<1>3. \A p \in Node : without(s.succ[p], n) \in Seq(Node)
    BY <1>2, WithoutIsSeq
<1>4. succ \in [Node -> Seq(Node)]
    BY <1>1, <1>2, <1>3
<1>5. detached(s, n) = [s EXCEPT !.succ = succ]
    BY <1>1, Zenon DEF detached
<1>6. Wired(succ, s.pred)
    BY <1>2, <1>4 DEF Wired
<1> QED
    BY <1>2, <1>5, <1>6 DEF Quiet, Fields

\* CollectTerminal's visit to one node.
LEMMA CollectOneKeeps ==
    ASSUME NEW s, Books(s), NEW c, NEW S \in SUBSET Node, Collected(s, c.s, S), NEW n \in Node
    PROVE  \E T \in SUBSET Node : Collected(s, collectOne(c, n).s, T)
<1>1. CASE c.left = 0 \/ ~ collectable(c.s, n)
    BY <1>1 DEF collectOne
<1>2. CASE ~ (c.left = 0 \/ ~ collectable(c.s, n))
  <2>1. PICK x : x = detached(c.s, n)
    OBVIOUS
  <2>2. PICK t : t = dropNode(x, n)
    OBVIOUS
  <2>3. collectOne(c, n).s = t
    BY <1>2, <2>1, <2>2 DEF collectOne
  <2>4. Books(c.s) /\ Ledger(c.s) /\ c.s.phase[n] = "Done"
    BY <1>2 DEF Collected, Books, collectable
  <2>5. Quiet(c.s, x)
    BY <2>1, <2>4, DetachedIsQuiet
  <2>6. Books(x) /\ DOMAIN x = Fields
    BY <2>4, <2>5, QuietKeeps DEF Quiet
  <2>7. Dropped(x, t, n)
    BY <2>2, <2>6, DropDrops
  <2>8. /\ x.phase = c.s.phase /\ x.epoch = c.s.epoch /\ x.epochFloor = c.s.epochFloor
        /\ x.deadline = c.s.deadline
    BY <2>5 DEF Quiet
  <2>9. /\ Books(t) /\ t.phase[n] = "Absent" /\ t.epoch[n] = 0
        /\ \A m \in Node : m # n => Kept(x, t, m)
        /\ t.epochFloor = IF x.epochFloor >= x.epoch[n] THEN x.epochFloor ELSE x.epoch[n]
    <3>1. x.phase[n] \notin {"Ready", "Scheduled", "Claimed"}
        BY <2>4, <2>8
    <3> QED
        BY <2>6, <2>7, <3>1, DroppedKeeps
  <2>10. n \notin S /\ s.phase[n] = "Done" /\ c.s.epoch[n] = s.epoch[n]
    BY <2>4 DEF Collected, Kept
  <2>11. ASSUME NEW m \in S \cup {n}
         PROVE  s.phase[m] = "Done" /\ t.phase[m] = "Absent" /\ t.epoch[m] = 0
    BY <2>8, <2>9, <2>10 DEF Collected, Kept
  <2>12. ASSUME NEW m \in Node \ (S \cup {n})
         PROVE  Kept(s, t, m)
    BY <2>8, <2>9 DEF Collected, Kept
  <2>13. Raised(s, t, S \cup {n})
    <3>1. /\ s.epochFloor \in Nat /\ c.s.epochFloor \in Nat
          /\ \A m \in Node : s.epoch[m] \in Nat
        BY <2>4, Zenon DEF Books, Ledger
    <3>2. t.epochFloor = IF c.s.epochFloor >= s.epoch[n] THEN c.s.epochFloor ELSE s.epoch[n]
        BY <2>8, <2>9, <2>10
    <3> QED
        BY <3>1, <3>2 DEF Collected, Raised
  <2>14. Collected(s, t, S \cup {n})
    BY <2>9, <2>11, <2>12, <2>13 DEF Collected
  <2> QED
    BY <2>3, <2>14
<1> QED
    BY <1>1, <1>2

collectBody(x, y, c, n) == collectOne(c, n)
Collecting(p, i, c) == \E S \in SUBSET Node : Collected(p.s, c.s, S)
Collect == INSTANCE FoldRule WITH op <- collectBody, Good <- Collecting, Max <- Max

\* CollectTerminal deletes finished nodes, and retires their epochs.
LEMMA CollectAllKeeps ==
    ASSUME NEW s, Books(s), NEW limit, NEW order \in Seq(Node)
    PROVE  \E S \in SUBSET Node : Collected(s, collectAll(s, limit, order), S)
<1> DEFINE p == [s |-> s]
<1>1. PICK start : start = [s |-> s, left |-> IF limit = 0 THEN Cardinality(Node) ELSE limit]
    BY Zenon
<1>2. collectAll(s, limit, order) = Collect!fold(0, 0, start, order).s
    BY <1>1 DEF collectAll, loop, collectBody, Collect!fold, MapThenFoldSet,
                Collect!MapThenFoldSet
<1>3. Collecting(p, 0, start)
  <2>1. start.s = s
    BY <1>1
  <2>2. s.epochFloor \in Nat
    BY DEF Books, Ledger
  <2>3. Collected(s, s, {})
    BY <2>2 DEF Collected, Raised, Kept
  <2> QED
    BY <2>1, <2>3 DEF Collecting
<1>4. ASSUME NEW i \in 1..Len(order), NEW c, Collecting(p, i - 1, c)
      PROVE  Collecting(p, i, collectBody(0, 0, c, order[i]))
  <2>1. PICK S \in SUBSET Node : Collected(s, c.s, S)
    BY <1>4 DEF Collecting
  <2>2. order[i] \in Node
    OBVIOUS
  <2>3. \E T \in SUBSET Node : Collected(s, collectOne(c, order[i]).s, T)
    BY <2>1, <2>2, CollectOneKeeps, Zenon
  <2> QED
    BY <2>3 DEF Collecting, collectBody
<1>5. Collecting(p, Len(order), Collect!fold(0, 0, start, order))
  <2> HIDE DEF p
  <2>1. PICK seg, pre : /\ Counted(1..Len(order), seg, pre, 0, Len(order))
                        /\ \A i \in 1..Len(order) : pre[i] = i - 1
    BY Counts
  <2>2. Collect!Counted(1..Len(order), seg, pre, 0, Len(order))
    BY <2>1, Zenon DEF Counted, Collect!Counted
  <2> QED
    BY <1>3, <1>4, <2>1, <2>2, Collect!FoldKeeps
<1> QED
    BY <1>2, <1>5 DEF Collecting

\* CollectTerminal, in whatever order the map yields the nodes.
LEMMA CollectedLeaves ==
    ASSUME NEW s, Books(s), NEW limit, NEW t \in collected(s, limit)
    PROVE  \E S \in SUBSET Node : Leaves(s, t, S)
<1>1. PICK order \in orders(Alive(s)) : t = collectAll(s, limit, order)
    BY DEF collected
<1>2. order \in Seq(Node)
  <2>1. Alive(s) \subseteq Node
    BY DEF Alive
  <2>2. order \in Seq(Alive(s))
    BY <1>1, <2>1, NodeFinite, FS_Subset, OrdersAreSequences
  <2> QED
    BY <2>1, <2>2
<1>3. PICK S \in SUBSET Node : Collected(s, t, S)
    BY <1>1, <1>2, CollectAllKeeps
<1>4. Books(t) /\ Raised(s, t, S)
    BY <1>3 DEF Collected
<1>5. LeasesLast(s, t)
    BY <1>3 DEF Collected, Kept, LeasesLast
<1>6. \A n \in S : /\ CoarseState(s.phase[n]) \in {"Open", "Done"}
                   /\ t.phase[n] = "Absent" /\ t.epoch[n] = 0
    BY <1>3 DEF Collected, CoarseState
<1>7. \A n \in Node \ S : Carried(s, t, n, TRUE)
    BY <1>3 DEF Collected, Kept, Carried, Goes
<1> QED
    BY <1>4, <1>5, <1>6, <1>7, Zenon DEF Leaves
=============================================================================
