------------------------- MODULE SubscriptionsProofs -------------------------
(***************************************************************************)
(* Proofs about a Manager's subscriptions, for every number of             *)
(* subscriptions and writers, every channel depth and every log capacity:  *)
(* closing them races with offers and does no harm, and no event is lost   *)
(* without notice, by either tier.                                         *)
(*                                                                         *)
(* SubInv is the inductive invariant.  Its parts build on each other:      *)
(* SubType types the state; OfferInv says who offers to whom, and that the *)
(* subscription an offer holds open is open; CloseInv follows a            *)
(* subscription from the registry through Close; StreamInv bounds the      *)
(* channel and says that a loss is announced; ChainInv links what a        *)
(* durable subscription was sent to what its goroutine holds, to what its  *)
(* pump has copied, and to where the pump will read next.                  *)
(***************************************************************************)
EXTENDS Subscriptions, FiniteSetTheorems, TLAPS

Event == [c : Int, gap : BOOLEAN]
Offer == [s : Sub, c : Int]
Errs == {"nil", "Canceled", "Lagged", "Closed"}
OfferPc == {"Offer", "Drop", "Deregister"}

Job ==
    {Idle} \cup [at : {"Publish"}, todo : Seq(Int)]
           \cup [at : OfferPc, todo : Seq(Offer) \ {<<>>}]

Subscription == [ch : Seq(Event), done : BOOLEAN, err : Errs, gap : BOOLEAN, dropped : Int]

PumpState ==
    [at : {"None", "Reading", "Sending", "Waiting", "Expired", "Stopped"},
     next : Int, batch : Seq(Int), bell : Int]

SubType ==
    /\ cursor \in Int /\ logStart \in Int
    /\ pump \in [Sub -> PumpState]
    /\ opts \in [Sub -> Options]
    /\ life \in [Sub -> {"None", "Checked", "Filed", "Open"}]
    /\ sub \in [Sub -> Subscription]
    /\ loop \in [Sub -> {"None", "Spawned", "Run", "Offering", "Leaving", "Exited"}]
    /\ startErr \in [Sub -> Errs]
    /\ subs \subseteq Live /\ fin \subseteq Live /\ early \subseteq Sub
    /\ closing \subseteq Sub
    /\ job \in [Actor -> Job]
    /\ mgr \in {"Open", "Draining", "GaveUp", "Finishing", "Closed"}
    /\ got \in [Sub -> Seq(Event)]
    /\ sent \in [Sub -> Seq(Int)]

\* The subscription that actor a is offering to, and the event.
target(a) == Head(job[a].todo).s
offered(a) == Head(job[a].todo).c

\* A writer offers to live subscriptions only, the goroutine of a durable one to it
\* alone, one event at a time.
OfferInv ==
    /\ \A w \in Writer : job[w].at \in OfferPc =>
          \A i \in DOMAIN job[w].todo : job[w].todo[i].s \in Live
    /\ \A d \in Sub : job[d] # Idle =>
          /\ d \in Durable /\ loop[d] = "Offering"
          /\ job[d].at \in OfferPc /\ Len(job[d].todo) = 1 /\ job[d].todo[1].s = d
    /\ \A a \in Actor :
          /\ job[a].at = "Drop" => ~ sub[target(a)].done /\ ~ opts[target(a)].slow
          /\ job[a].at = "Deregister" => sub[target(a)].done

\* A live subscription that has not ended is in the registry, or in the hands of Close,
\* of its owner or of its goroutine;
\* Close is past its wait only when the goroutines it waits for have exited.
CloseInv ==
    /\ \A s \in Sub : loop[s] = "None" <=> life[s] # "Open"
    /\ \A s \in Live : life[s] \in {"Filed", "Open"} /\ ~ sub[s].done =>
          s \in subs \cup fin \cup closing \/ loop[s] = "Leaving"
    /\ \A s \in Live : life[s] \notin {"Filed", "Open"} => s \notin subs
    /\ \A s \in Durable : loop[s] = "Exited" => sub[s].done
    /\ \A s \in early : life[s] = "Open"
    /\ mgr # "Finishing" => fin = {}
    /\ mgr \in {"Finishing", "Closed"} => \A s \in early : loop[s] = "Exited" /\ s \notin subs

\* The channel is bounded.  What is missing from stream st, of the events sent as sn,
\* came before some event of it that has Gap set.
Missing(st, sn) == Range(sn) \ Cursors(st)

Announced(st, sn) ==
    \E i \in DOMAIN sn, j \in DOMAIN st :
        /\ st[j].gap /\ st[j].c = sn[i]
        /\ \A c \in Missing(st, sn), k \in DOMAIN sn : sn[k] = c => k < i

StreamInv ==
    \A s \in Sub :
        /\ Len(sub[s].ch) <= Size
        /\ \/ Missing(Stream(s), sent[s]) = {}
           \/ ~ opts[s].slow /\ Announced(Stream(s), sent[s])

\* The next event the pump will hand over, unless it has ended.
upcoming(d) == pump[d].next - Len(pump[d].batch)
pumping(d) == pump[d].at \in {"Reading", "Sending", "Waiting"}
offering(d) == job[d].at \in {"Offer", "Drop"}
follows(d, c) == sent[d] # <<>> => c = sent[d][1] + Len(sent[d])

Chain(d) ==
    /\ pump[d].at \in {"None", "Reading", "Waiting"} => pump[d].batch = <<>>
    /\ pump[d].at = "Sending" =>
          /\ pump[d].batch # <<>>
          /\ \A i \in DOMAIN pump[d].batch : pump[d].batch[i] = upcoming(d) + i - 1
    /\ \A i \in DOMAIN sent[d] : sent[d][i] = sent[d][1] + i - 1
    /\ ~ sub[d].done /\ offering(d) => follows(d, offered(d))
    /\ ~ sub[d].done /\ offering(d) /\ pumping(d) => upcoming(d) = offered(d) + 1
    /\ ~ sub[d].done /\ ~ offering(d) /\ pumping(d) => follows(d, upcoming(d))
    /\ pump[d].at = "None" => sent[d] = <<>> /\ ~ offering(d)

ChainInv == \A d \in Durable : Chain(d)

SubInv == SubType /\ OfferInv /\ CloseInv /\ StreamInv /\ ChainInv
-----------------------------------------------------------------------------
(***************************************************************************)
(* Sequences                                                               *)
(***************************************************************************)

\* The empty sequence, and the others.
LEMMA EmptySeq ==
    ASSUME NEW S
    PROVE  /\ <<>> \in Seq(S) /\ Len(<<>>) = 0
           /\ \A q \in Seq(S) : q # <<>> => Len(q) \in Nat /\ Len(q) # 0
OBVIOUS

\* The head and the rest of a sequence that is not empty.
LEMMA HeadAndTail ==
    ASSUME NEW S, NEW q \in Seq(S), q # <<>>
    PROVE  /\ Len(q) \in Nat /\ Len(q) >= 1 /\ 1 \in DOMAIN q
           /\ Head(q) = q[1] /\ Head(q) \in S
           /\ Tail(q) \in Seq(S) /\ Len(Tail(q)) = Len(q) - 1
           /\ DOMAIN q = 1..Len(q) /\ DOMAIN Tail(q) = 1..(Len(q) - 1)
           /\ \A i \in 1..(Len(q) - 1) : Tail(q)[i] = q[i + 1]
BY EmptySeq

\* What the actor has left after an offer.
LEMMA RestOfOffers ==
    ASSUME NEW j \in Job, j.at \in OfferPc
    PROVE  /\ j.todo \in Seq(Offer) /\ j.todo # <<>>
           /\ Head(j.todo).s \in Sub /\ Head(j.todo).c \in Int
           /\ nextOffer(j) \in Job
           /\ Len(j.todo) = 1 => nextOffer(j) = Idle
           /\ Len(j.todo) # 1 => nextOffer(j) = [at |-> "Offer", todo |-> Tail(j.todo)]
           /\ \A step \in OfferPc : [j EXCEPT !.at = step] = [at |-> step, todo |-> j.todo]
           /\ \A step \in OfferPc : [j EXCEPT !.at = step] \in Job
           /\ \A step \in OfferPc : [at |-> step, todo |-> j.todo] \in Job
<1>1. j \in [at : OfferPc, todo : Seq(Offer) \ {<<>>}]
    BY DEF Job, Idle, OfferPc
<1>2. j.todo \in Seq(Offer) /\ j.todo # <<>>
    BY <1>1
<1>3. /\ Len(j.todo) \in Nat /\ Len(j.todo) >= 1 /\ Head(j.todo) \in Offer
      /\ Tail(j.todo) \in Seq(Offer) /\ Len(Tail(j.todo)) = Len(j.todo) - 1
    BY <1>2, HeadAndTail
<1>4. Len(j.todo) # 1 => Tail(j.todo) # <<>>
  <2>1. SUFFICES ASSUME Tail(j.todo) = <<>> PROVE Len(j.todo) = 1
    OBVIOUS
  <2>2. Len(Tail(j.todo)) = 0
    <3>1. Len(<<>>) = 0
      BY EmptySeq
    <3> QED
      BY <2>1, <3>1, Zenon
  <2> QED
    BY <2>2, <1>3
<1>5. "Offer" \in OfferPc
    BY DEF OfferPc
<1>6. \A step \in OfferPc : [j EXCEPT !.at = step] = [at |-> step, todo |-> j.todo]
    BY <1>1
<1>7. \A step \in OfferPc : [at |-> step, todo |-> j.todo] \in Job
    BY <1>2 DEF Job
<1>8. /\ Len(j.todo) = 1 => nextOffer(j) = Idle
      /\ Len(j.todo) # 1 => nextOffer(j) = [at |-> "Offer", todo |-> Tail(j.todo)]
    BY DEF nextOffer
<1>9. Len(j.todo) # 1 => [at |-> "Offer", todo |-> Tail(j.todo)] \in Job
    BY <1>3, <1>4, <1>5 DEF Job
<1>10. nextOffer(j) \in Job
    BY <1>8, <1>9, Zenon DEF Job
<1> QED
    BY <1>2, <1>3, <1>6, <1>7, <1>8, <1>10, Zenon DEF Offer

\* finish ends the subscription and leaves the rest of it as it is.
LEMMA FinishEnds ==
    ASSUME NEW r \in Subscription, NEW err \in Errs
    PROVE  /\ closeLocked(r, err) \in Subscription
           /\ closeLocked(r, err).done
           /\ closeLocked(r, err).ch = r.ch
BY Zenon DEF closeLocked, Subscription, Errs
-----------------------------------------------------------------------------
(***************************************************************************)
(* The types                                                               *)
(***************************************************************************)

\* Division with remainder.
LEMMA Division ==
    ASSUME NEW x \in Nat, NEW m \in Nat, m > 0
    PROVE  /\ x \div m \in Nat /\ x % m \in 0..(m - 1)
           /\ x = m * (x \div m) + (x % m)
OBVIOUS

\* If m times k is below n times m, then k is below n.
LEMMA Quotient ==
    ASSUME NEW n \in Nat, NEW m \in Nat, NEW k \in Nat, m * k < n * m
    PROVE  k < n
<1>1. ASSUME k >= n PROVE m * k >= m * n
    BY <1>1
<1>2. m * n = n * m
    OBVIOUS
<1> QED
    BY <1>1, <1>2

\* What publish lists: every effect, for each of the targets.
LEMMA OffersTyped ==
    ASSUME NEW T, NEW m \in Nat, NEW q \in Seq(Int), NEW order \in [1..m -> T]
    PROVE  /\ Len(order) = m
           /\ \A i \in 1..(Len(q) * m) :
                 /\ order[((i - 1) % m) + 1] \in T
                 /\ q[((i - 1) \div m) + 1] \in Int
<1>1. Len(order) = m
    OBVIOUS
<1>2. SUFFICES ASSUME NEW i \in 1..(Len(q) * m)
               PROVE  /\ ((i - 1) % m) + 1 \in 1..m
                      /\ ((i - 1) \div m) + 1 \in 1..Len(q)
    BY <1>1
<1> DEFINE n == Len(q)
           x == i - 1
<1>3. n \in Nat /\ n * m \in Nat /\ x \in Nat /\ x < n * m
    BY <1>2
<1>4. m > 0
    BY <1>3
<1> HIDE DEF n, x
<1>5. x \div m \in Nat /\ x % m \in 0..(m - 1) /\ x = m * (x \div m) + (x % m)
    BY <1>3, <1>4, Division
<1> DEFINE k == x \div m
<1>6. k \in Nat /\ m * k <= x
  <2> DEFINE l == x % m
             y == m * k
  <2>1. k \in Nat /\ l \in Nat /\ x = y + l /\ y \in Int
    BY <1>5
  <2> HIDE DEF k, l, y
  <2> QED
    BY <2>1 DEF y
<1> HIDE DEF k
<1>7. k < n
  <2>1. m * k < n * m
    BY <1>3, <1>6
  <2> QED
    BY <1>3, <1>6, <2>1, Quotient
<1> QED
    BY <1>3, <1>4, <1>5, <1>6, <1>7 DEF n, x, k

\* The initial state is of its type.
LEMMA TypeInitially == Init => SubType
<1> SUFFICES ASSUME Init PROVE SubType
    OBVIOUS
<1>1. NewSub \in Subscription /\ Idle \in Job /\ NoPump \in PumpState
    BY DEF NewSub, Subscription, Errs, Idle, Job, NoPump, PumpState
<1>2. <<>> \in Seq(Event) /\ <<>> \in Seq(Int)
    BY EmptySeq
<1>3. cursor \in Int /\ logStart \in Int
    BY DEF Init, LogInit
<1>4. pump \in [Sub -> PumpState]
    BY <1>1, Zenon DEF Init, LogInit, Sub
<1>5. "nil" \in Errs
    BY DEF Errs
<1> QED
    BY <1>1, <1>2, <1>3, <1>4, <1>5, Zenon DEF Init, SubType

\* Subscribe, and the steps of the goroutines and of Close that are not an offer.
LEMMA TypeQuiet ==
    ASSUME SubType, NEW s,
           \/ s \in Sub /\ \/ SubscribeCheck(s) \/ SubscribeLive(s) \/ SubscribeGo(s)
                           \/ LoopReleased(s) \/ LoopStarts(s) \/ LoopChecks(s)
                           \/ LoopLeaves(s) \/ CancelCtx(s)
                           \/ LoopCancelled(s) \/ CloseSub(s)
           \/ CloseStarts \/ CloseGivesUp \/ CloseDrained \/ CloseReturns
    PROVE  SubType'
<1>1. CASE s \in Sub /\ SubscribeCheck(s)
    BY <1>1 DEF SubType, SubscribeCheck, logVars, Live, Durable
<1>2. CASE s \in Sub /\ SubscribeLive(s)
    BY <1>2 DEF SubType, SubscribeLive, logVars, Live, Durable
<1>3. CASE s \in Sub /\ SubscribeGo(s)
    BY <1>3 DEF SubType, SubscribeGo, logVars, Live, Durable
<1>4. CASE s \in Sub /\ LoopReleased(s)
    BY <1>4 DEF SubType, LoopReleased, logVars, Live, Durable
<1>5. CASE s \in Sub /\ LoopStarts(s)
    BY <1>5 DEF SubType, LoopStarts, logVars, Live, Durable, ctxErr, Errs
<1>6. CASE s \in Sub /\ LoopChecks(s)
    BY <1>6 DEF SubType, LoopChecks, logVars, Live, Durable
<1>7. CASE s \in Sub /\ LoopLeaves(s)
    BY <1>7 DEF SubType, LoopLeaves, logVars, Live, Durable
<1>8. CASE s \in Sub /\ CancelCtx(s)
    BY <1>8 DEF SubType, CancelCtx, logVars, Live, Durable
<1>9. CASE CloseStarts
    BY <1>9 DEF SubType, CloseStarts, logVars, Live, Durable
<1>10. CASE CloseGivesUp
    BY <1>10 DEF SubType, CloseGivesUp, logVars, Live, Durable
<1>11. CASE CloseDrained
    BY <1>11 DEF SubType, CloseDrained, logVars, Live, Durable
<1>12. CASE CloseReturns
    BY <1>12 DEF SubType, CloseReturns, logVars, Live, Durable
<1>13. CASE s \in Sub /\ LoopCancelled(s)
    BY <1>13 DEF SubType, LoopCancelled, logVars, Live, Durable, ctxErr, Errs
<1>14. CASE s \in Sub /\ CloseSub(s)
    BY <1>14 DEF SubType, CloseSub, logVars, Live, Durable
<1> QED
    BY <1>1, <1>2, <1>3, <1>4, <1>5, <1>6, <1>7, <1>8, <1>9, <1>10, <1>11, <1>12, <1>13, <1>14

\* Every way to end a subscription.
Ends(s, err) ==
    /\ muFree(s) /\ err \in Errs
    /\ sub' = finish(s, err)
    /\ subs' \subseteq subs /\ fin' \subseteq fin /\ closing' \subseteq closing
    /\ loop' \in {loop, [loop EXCEPT ![s] = "Exited"]}
    /\ job' = job
    /\ UNCHANGED <<logVars, opts, life, startErr, mgr, early, got, sent>>

\* Ending a stream (subscription.end) closes that stream only, and leaves what its channel holds.
LEMMA TypeEnds ==
    ASSUME SubType, NEW s \in Sub, NEW err, Ends(s, err)
    PROVE  /\ SubType'
           /\ DOMAIN sub = Sub /\ sub'[s].done /\ sub'[s].ch = sub[s].ch
           /\ \A u \in Sub : u # s => sub'[u] = sub[u]
           /\ \A u \in Sub : sub[u].done => sub'[u].done
           /\ \A u \in Sub : sub'[u].ch = sub[u].ch
<1>1. sub[s] \in Subscription /\ err \in Errs
    BY DEF SubType, Ends
<1>2. /\ closeLocked(sub[s], err) \in Subscription
      /\ closeLocked(sub[s], err).done /\ closeLocked(sub[s], err).ch = sub[s].ch
    BY <1>1, FinishEnds
<1>3. sub' = [sub EXCEPT ![s] = closeLocked(sub[s], err)]
    BY DEF Ends, finish
<1>4. sub' \in [Sub -> Subscription] /\ sub'[s] = closeLocked(sub[s], err)
      /\ \A u \in Sub : u # s => sub'[u] = sub[u]
    BY <1>2, <1>3 DEF SubType
<1>5. SubType'
    BY <1>4 DEF SubType, Ends, logVars, Live
<1> QED
    BY <1>2, <1>4, <1>5, Zenon DEF SubType

\* A store operation with its effects.
LEMMA TypeOperates ==
    ASSUME SubType, NEW w \in Writer, NEW k \in 1..MaxEffects, Operate(w, k)
    PROVE  /\ SubType'
           /\ job' = [job EXCEPT ![w] = [at |-> "Publish", todo |-> [i \in 1..k |-> cursor + i]]]
<1>1. k \in Nat /\ cursor \in Int /\ logStart \in Int /\ LogCap \in Nat /\ LogCap > 0
    BY MaxEffectsIsNat, LogCapPositive DEF SubType
<1>2. cursor' \in Int /\ logStart' \in Int
  <2>1. cursor' = cursor + k /\ logStart' = cursor + k + 1 - kept(cursor + k + 1 - logStart, LogCap)
    BY DEF Operate, Record
  <2>2. \A n \in Int : kept(n, LogCap) \in Int
    BY <1>1 DEF kept
  <2> QED
    BY <1>1, <2>1, <2>2
<1>3. [i \in 1..k |-> cursor + i] \in Seq(Int)
    BY <1>1
<1>4. [at |-> "Publish", todo |-> [i \in 1..k |-> cursor + i]] \in Job
    BY <1>3 DEF Job
<1>5. job' = [job EXCEPT ![w] = [at |-> "Publish", todo |-> [i \in 1..k |-> cursor + i]]]
    BY DEF Operate
<1>6. job' \in [Actor -> Job]
    BY <1>4, <1>5, Zenon DEF SubType
<1> QED
    BY <1>2, <1>5, <1>6 DEF SubType, Operate, Record, Live

\* publish: what it lists is for live subscriptions.
LEMMA TypePublishes ==
    ASSUME SubType, NEW w \in Writer, Publish(w)
    PROVE  /\ SubType'
           /\ \E j \in Job :
                 /\ job' = [job EXCEPT ![w] = j]
                 /\ j = Idle \/ (j.at = "Offer" /\ \A i \in DOMAIN j.todo : j.todo[i].s \in Live)
<1> DEFINE q == job[w].todo
<1>1. w \in Actor /\ job[w] \in Job /\ job[w].at = "Publish"
    BY DEF Actor, SubType, Publish
<1>2. q \in Seq(Int)
    BY <1>1 DEF Job, Idle, OfferPc
<1>3. IsFiniteSet(subs) /\ subs \subseteq Sub /\ subs \subseteq Live
  <2>1. subs \subseteq Watcher /\ subs \subseteq Live
    BY DEF SubType, Live, Sub
  <2> QED
    BY <2>1, WatcherFinite, FS_Subset DEF Sub
<1> DEFINE m == Cardinality(subs)
<1>4. m \in Nat
    BY <1>3, FS_CardinalityType
<1> DEFINE todo(order) == [i \in 1..(Len(q) * Len(order)) |->
                            [s |-> order[((i - 1) % Len(order)) + 1],
                             c |-> q[((i - 1) \div Len(order)) + 1]]]
<1>5. PICK order \in Injection(1..Cardinality(subs), subs) :
         job' = [job EXCEPT ![w] = IF todo(order) = <<>> THEN Idle
                                   ELSE [at |-> "Offer", todo |-> todo(order)]]
    BY Zenon DEF Publish
<1>6. order \in [1..m -> subs]
    BY <1>5 DEF Injection
<1>7. /\ Len(order) = m
      /\ \A i \in 1..(Len(q) * m) : /\ order[((i - 1) % m) + 1] \in subs
                                    /\ q[((i - 1) \div m) + 1] \in Int
    BY <1>2, <1>4, <1>6, OffersTyped, Zenon
<1>8. Len(q) * m \in Nat
    BY <1>2, <1>4
<1>9. /\ DOMAIN todo(order) = 1..(Len(q) * m)
      /\ \A i \in 1..(Len(q) * m) : todo(order)[i] \in Offer /\ todo(order)[i].s \in subs
    BY <1>3, <1>7 DEF Offer
<1>10. todo(order) \in Seq(Offer)
  <2> DEFINE N == Len(q) * m
             f == todo(order)
  <2>1. f = [i \in 1..N |-> f[i]]
    BY <1>7
  <2>2. N \in Nat /\ \A i \in 1..N : f[i] \in Offer
    BY <1>8, <1>9, Zenon
  <2> HIDE DEF f, N
  <2>3. f \in Seq(Offer)
    BY <2>1, <2>2
  <2> QED
    BY <2>3 DEF f
<1> DEFINE t == todo(order)
<1> HIDE DEF t
<1>11. t \in Seq(Offer) /\ \A i \in DOMAIN t : t[i].s \in Live
    BY <1>3, <1>9, <1>10, Zenon DEF t
<1>12. CASE t = <<>>
  <2>1. job' = [job EXCEPT ![w] = Idle]
    BY <1>5, <1>12 DEF t
  <2>2. Idle \in Job
    BY DEF Job
  <2>3. SubType'
    BY <2>1, <2>2, <1>1, Zenon DEF SubType, Publish, logVars, Live
  <2> QED
    BY <2>1, <2>2, <2>3, Zenon
<1>13. CASE t # <<>>
  <2> DEFINE j == [at |-> "Offer", todo |-> t]
  <2>1. job' = [job EXCEPT ![w] = j]
    BY <1>5, <1>13, Zenon DEF t
  <2>2. j \in Job /\ j.at = "Offer" /\ j.todo = t
    BY <1>11, <1>13 DEF Job, OfferPc
  <2> HIDE DEF j
  <2>3. SubType'
    BY <2>1, <2>2, <1>1, Zenon DEF SubType, Publish, logVars, Live
  <2> QED
    BY <2>1, <2>2, <2>3, <1>11, Zenon
<1> QED
    BY <1>12, <1>13

\* Steps that only change where a pump is.
LEMMA TypePumpMoves ==
    ASSUME SubType, pump' \in [Sub -> PumpState], UNCHANGED <<cursor, logStart, subVars>>
    PROVE  SubType'
BY DEF SubType, subVars, Live

\* The log's pump.
LEMMA TypePumps ==
    ASSUME SubType, NEW d \in Sub, SubscribeDurable(d) \/ PumpSteps(d)
    PROVE  SubType'
<1>0. cursor \in Int /\ logStart \in Int /\ pump[d] \in PumpState
    BY DEF SubType
<1>1. CASE SubscribeDurable(d)
  <2>1. PICK start \in WatchStart :
           pump' = [pump EXCEPT ![d] = [at |-> "Reading", next |-> start, batch |-> <<>>, bell |-> 0]]
    BY <1>1, Zenon DEF SubscribeDurable, Watch
  <2>2. start \in Int
    BY <1>0 DEF WatchStart
  <2>3. \A e \in Seq(Int) : [at |-> "Reading", next |-> start, batch |-> e, bell |-> 0] \in PumpState
    BY <2>2 DEF PumpState
  <2>4. <<>> \in Seq(Int)
    BY EmptySeq
  <2>5. pump' \in [Sub -> PumpState]
    BY <2>1, <2>3, <2>4, Zenon DEF SubType
  <2> QED
    BY <1>1, <2>5 DEF SubType, SubscribeDurable, Watch, Live
<1>2. CASE PumpSteps(d)
  <2>1. CASE PumpRead(d)
    <3> DEFINE p == pump[d]
               b == [i \in 1..(cursor + 1 - p.next) |-> p.next + i - 1]
    <3>1. p.next \in Int
      BY <1>0 DEF PumpState
    <3>2. p.next <= cursor => b \in Seq(Int)
      BY <1>0, <3>1
    <3>3. [p EXCEPT !.at = "Expired"] \in PumpState
      BY <1>0 DEF PumpState
    <3>4. [p EXCEPT !.at = "Waiting", !.batch = <<>>, !.bell = cursor] \in PumpState
      BY <1>0, EmptySeq, Zenon DEF PumpState
    <3>5. p.next <= cursor =>
            [at |-> "Sending", next |-> cursor + 1, bell |-> cursor, batch |-> b] \in PumpState
      BY <1>0, <3>2 DEF PumpState
    <3>6. PICK r \in PumpState : pump' = [pump EXCEPT ![d] = r]
      BY <2>1, <3>3, <3>4, <3>5, Zenon DEF PumpRead
    <3>7. pump' \in [Sub -> PumpState]
      BY <3>6 DEF SubType
    <3>8. UNCHANGED <<cursor, logStart, subVars>>
      BY <1>2, <2>1 DEF PumpSteps, PumpRead
    <3> QED
      BY <3>7, <3>8, TypePumpMoves
  <2>2. CASE PumpWakes(d)
    <3>1. [pump[d] EXCEPT !.at = "Reading"] \in PumpState
      BY <1>0 DEF PumpState
    <3> QED
      BY <1>2, <2>2, <3>1 DEF SubType, PumpSteps, PumpWakes, subVars, Live
  <2>3. CASE PumpStops(d)
    <3>1. [pump[d] EXCEPT !.at = "Stopped"] \in PumpState
      BY <1>0 DEF PumpState
    <3> QED
      BY <1>2, <2>3, <3>1 DEF SubType, PumpSteps, PumpStops, subVars, Live
  <2> QED
    BY <1>2, <2>1, <2>2, <2>3 DEF PumpSteps
<1> QED
    BY <1>1, <1>2

\* An event is handed over: it was the first of the batch.
LEMMA TypeReceives ==
    ASSUME SubType, ChainInv, NEW d \in Sub, LoopReceives(d)
    PROVE  /\ SubType'
           /\ d \in Durable /\ loop[d] = "Run" /\ loop'[d] = "Offering"
           /\ \A u \in Sub : u # d => loop'[u] = loop[u] /\ pump'[u] = pump[u]
           /\ job' = [job EXCEPT ![d] = [at |-> "Offer", todo |-> <<[s |-> d, c |-> upcoming(d)]>>]]
           /\ pump[d].at = "Sending" /\ pump[d].batch # <<>> /\ pump[d].batch \in Seq(Int)
           /\ pump'[d].next = pump[d].next /\ pump'[d].batch = Tail(pump[d].batch)
           /\ pump'[d].at = IF Len(pump[d].batch) = 1 THEN "Reading" ELSE "Sending"
<1>1. d \in Durable /\ loop[d] = "Run" /\ pump[d] \in PumpState /\ pump[d].at = "Sending"
    BY DEF LoopReceives, PumpSends, SubType
<1>2. /\ pump[d].batch # <<>> /\ pump[d].batch \in Seq(Int)
      /\ \A i \in DOMAIN pump[d].batch : pump[d].batch[i] = upcoming(d) + i - 1
    BY <1>1 DEF ChainInv, Chain, PumpState
<1>3. /\ 1 \in DOMAIN pump[d].batch /\ Head(pump[d].batch) = pump[d].batch[1]
      /\ Head(pump[d].batch) \in Int /\ Tail(pump[d].batch) \in Seq(Int)
      /\ Len(pump[d].batch) \in Nat
    BY <1>2, HeadAndTail
<1>4. upcoming(d) \in Int
    BY <1>1, <1>3 DEF upcoming, PumpState
<1>5. Head(pump[d].batch) = upcoming(d)
    BY <1>2, <1>3, <1>4
<1> DEFINE r == [pump[d] EXCEPT !.batch = Tail(pump[d].batch),
                                !.at = IF Len(pump[d].batch) = 1 THEN "Reading" ELSE "Sending"]
           j == [at |-> "Offer", todo |-> <<[s |-> d, c |-> upcoming(d)]>>]
<1>6. /\ r \in PumpState /\ r.next = pump[d].next /\ r.batch = Tail(pump[d].batch)
      /\ r.at = IF Len(pump[d].batch) = 1 THEN "Reading" ELSE "Sending"
    BY <1>1, <1>3, Zenon DEF PumpState
<1>7. j \in Job
  <2>1. [s |-> d, c |-> upcoming(d)] \in Offer
    BY <1>4 DEF Offer
  <2>2. <<[s |-> d, c |-> upcoming(d)]>> \in Seq(Offer) \ {<<>>}
    BY <2>1
  <2> QED
    BY <2>2 DEF Job, OfferPc
<1>8. pump' = [pump EXCEPT ![d] = r]
    BY DEF LoopReceives, PumpSends
<1>9. job' = [job EXCEPT ![d] = j]
    BY <1>5, Zenon DEF LoopReceives
<1>10. loop' = [loop EXCEPT ![d] = "Offering"]
    BY DEF LoopReceives
<1> HIDE DEF r, j
<1>11. SubType'
  <2>1. pump' \in [Sub -> PumpState]
    BY <1>6, <1>8 DEF SubType
  <2>2. job' \in [Actor -> Job]
    BY <1>7, <1>9, Zenon DEF SubType
  <2>3. loop' \in [Sub -> {"None", "Spawned", "Run", "Offering", "Leaving", "Exited"}]
    BY <1>10 DEF SubType
  <2>4. UNCHANGED <<cursor, logStart, opts, life, sub, startErr, ctx, subs, mgr, fin, early, got, sent, closing>>
    BY DEF LoopReceives, PumpSends
  <2> QED
    BY <2>1, <2>2, <2>3, <2>4 DEF SubType, Live
<1>12. pump'[d] = r /\ loop'[d] = "Offering" /\
       \A u \in Sub : u # d => loop'[u] = loop[u] /\ pump'[u] = pump[u]
    BY <1>8, <1>10 DEF SubType
<1> QED
    BY <1>1, <1>2, <1>6, <1>9, <1>11, <1>12, Zenon DEF j

\* What an event does that is put into the channel of s, which then holds q.
Puts(s, c, q) ==
    /\ sub' \in [Sub -> Subscription] /\ sent' \in [Sub -> Seq(Int)]
    /\ sub'[s].ch = q /\ sub'[s].done = sub[s].done
    /\ sent'[s] = Append(sent[s], c)
    /\ \A u \in Sub : u # s => sub'[u] = sub[u] /\ sent'[u] = sent[u]

\* A successful send (push) appends the event, with the gap flag pending, to the channel.
LEMMA PushPuts ==
    ASSUME SubType, NEW s \in Sub, NEW c \in Int, push(s, c, sub[s].gap)
    PROVE  /\ Puts(s, c, Append(sub[s].ch, [c |-> c, gap |-> sub[s].gap]))
           /\ sub[s].gap \in BOOLEAN /\ sub[s].ch \in Seq(Event)
<1> DEFINE e == [c |-> c, gap |-> sub[s].gap]
           q == Append(sub[s].ch, e)
           r == [sub[s] EXCEPT !.ch = q, !.gap = FALSE]
<1>1. /\ sub[s] \in Subscription /\ sub[s].gap \in BOOLEAN /\ sub[s].ch \in Seq(Event)
      /\ sent[s] \in Seq(Int)
    BY DEF SubType, Subscription
<1>2. e \in Event
    BY <1>1 DEF Event
<1>3. q \in Seq(Event)
    BY <1>1, <1>2
<1>4. sub' = [sub EXCEPT ![s] = r]
    BY Zenon DEF push, SubType
<1>5. sent' = [sent EXCEPT ![s] = Append(sent[s], c)]
    BY DEF push
<1> HIDE DEF q
<1>6. r \in Subscription /\ r.ch = q /\ r.done = sub[s].done
    BY <1>1, <1>3, Zenon DEF Subscription
<1> HIDE DEF r
<1>7. Append(sent[s], c) \in Seq(Int)
    BY <1>1
<1>8. Puts(s, c, q)
    BY <1>4, <1>5, <1>6, <1>7 DEF Puts, SubType
<1> QED
    BY <1>1, <1>8 DEF q

\* An offer drops the oldest event and takes its place, with Gap set.
LEMMA DropPuts ==
    ASSUME SubType, NEW a \in Actor, OfferDrops(a), Len(sub[target(a)].ch) <= Size
    PROVE  /\ target(a) \in Sub /\ offered(a) \in Int
           /\ \E rest \in Seq(Event) :
                 /\ rest = <<>> \/ (sub[target(a)].ch # <<>> /\ rest = Tail(sub[target(a)].ch))
                 /\ Len(rest) < Size
                 /\ Puts(target(a), offered(a), Append(rest, [c |-> offered(a), gap |-> TRUE]))
<1> DEFINE s == target(a)
           c == offered(a)
           rest == IF sub[s].ch = <<>> THEN <<>> ELSE Tail(sub[s].ch)
           e == [c |-> c, gap |-> TRUE]
           q == Append(rest, e)
<1>1. job[a] \in Job /\ job[a].at \in OfferPc
    BY Zenon DEF SubType, OfferDrops, OfferPc
<1>2. s \in Sub /\ c \in Int
    BY <1>1, RestOfOffers DEF target, offered
<1>3. sub[s] \in Subscription /\ sub[s].ch \in Seq(Event) /\ sent[s] \in Seq(Int)
    BY <1>2 DEF SubType, Subscription
<1>4. rest \in Seq(Event) /\ Len(rest) \in Nat /\ Len(rest) < Size
  <2>1. CASE sub[s].ch = <<>>
    BY <2>1, EmptySeq, SizePositive
  <2>2. CASE sub[s].ch # <<>>
    <3>1. /\ Len(sub[s].ch) \in Nat /\ Len(sub[s].ch) >= 1
          /\ Tail(sub[s].ch) \in Seq(Event) /\ Len(Tail(sub[s].ch)) = Len(sub[s].ch) - 1
      BY <1>3, <2>2, HeadAndTail
    <3> QED
      BY <2>2, <3>1, SizePositive
  <2> QED
    BY <2>1, <2>2
<1>5. e \in Event
    BY <1>2 DEF Event
<1> DEFINE r == [sub[s] EXCEPT !.ch = q, !.dropped = sub[s].dropped + 1, !.gap = FALSE]
<1>6. sub' = [sub EXCEPT ![s] = r]
  <2> DEFINE room == Len(rest) < Size
  <2>1. sub' = [sub EXCEPT ![s] = [sub[s] EXCEPT !.ch = IF room THEN q ELSE rest,
                                   !.dropped = sub[s].dropped + 1, !.gap = ~ room]]
    BY Zenon DEF OfferDrops, target, offered
  <2>2. room = TRUE
    BY <1>4
  <2>3. (IF room THEN q ELSE rest) = q /\ (~ room) = FALSE
    BY <2>2
  <2> HIDE DEF room, q, rest
  <2> QED
    BY <2>1, <2>3, Zenon
<1>7. sent' = [sent EXCEPT ![s] = Append(sent[s], c)]
    BY Zenon DEF OfferDrops, target, offered
<1> HIDE DEF rest
<1>8. q \in Seq(Event)
    BY <1>4, <1>5
<1> HIDE DEF q
<1>9. r \in Subscription /\ r.ch = q /\ r.done = sub[s].done
  <2>1. sub[s].dropped + 1 \in Int
    BY <1>3 DEF Subscription
  <2>2. \A x \in Subscription, n \in Int :
           LET y == [x EXCEPT !.ch = q, !.dropped = n, !.gap = FALSE]
           IN  y \in Subscription /\ y.ch = q /\ y.done = x.done
    BY <1>8, Zenon DEF Subscription
  <2> QED
    BY <1>3, <2>1, <2>2, Zenon
<1> HIDE DEF r
<1>10. Append(sent[s], c) \in Seq(Int)
    BY <1>2, <1>3
<1> HIDE DEF s, c
<1>11. Puts(s, c, q)
    BY <1>2, <1>6, <1>7, <1>9, <1>10 DEF Puts, SubType
<1>12. rest = <<>> \/ (sub[s].ch # <<>> /\ rest = Tail(sub[s].ch))
    BY DEF rest
<1>13. Puts(s, c, Append(rest, e))
    BY <1>11 DEF q
<1> QED
    BY <1>2, <1>4, <1>12, <1>13 DEF s, c

\* What an offer does.
LEMMA OfferDoes ==
    ASSUME SubType, StreamInv, NEW a \in Actor, OfferSteps(a)
    PROVE  LET s == target(a)
               c == offered(a)
           IN  /\ s \in Sub /\ c \in Int /\ SubType'
               /\ job[a] \in Job /\ job[a].at \in OfferPc
               /\ UNCHANGED <<logVars, opts, life, loop, startErr, mgr, fin, early, got, closing>>
               /\ \/ /\ job[a].at = "Offer" /\ sub[s].done
                     /\ job' = [job EXCEPT ![a] = nextOffer(job[a])]
                     /\ UNCHANGED <<sub, sent, subs>>
                  \/ /\ job[a].at = "Deregister"
                     /\ job' = [job EXCEPT ![a] = nextOffer(job[a])]
                     /\ subs' = subs \ {s}
                     /\ UNCHANGED <<sub, sent>>
                  \/ /\ job[a].at = "Offer" /\ muFree(s) /\ ~ sub[s].done
                     /\ Len(sub[s].ch) < Size
                     /\ Puts(s, c, Append(sub[s].ch, [c |-> c, gap |-> sub[s].gap]))
                     /\ job' = [job EXCEPT ![a] = nextOffer(job[a])]
                     /\ UNCHANGED subs
                  \/ /\ job[a].at = "Drop"
                     /\ \E rest \in Seq(Event) :
                           /\ rest = <<>> \/ (sub[s].ch # <<>> /\ rest = Tail(sub[s].ch))
                           /\ Len(rest) < Size
                           /\ Puts(s, c, Append(rest, [c |-> c, gap |-> TRUE]))
                     /\ job' = [job EXCEPT ![a] = nextOffer(job[a])]
                     /\ UNCHANGED subs
                  \/ /\ job[a].at = "Offer" /\ muFree(s) /\ ~ sub[s].done
                     /\ sub' = finish(s, "Lagged")
                     /\ job' = [job EXCEPT ![a] = [at |-> "Deregister", todo |-> job[a].todo]]
                     /\ UNCHANGED <<sent, subs>>
                  \/ /\ job[a].at = "Offer" /\ ~ sub[s].done /\ ~ opts[s].slow
                     /\ job' = [job EXCEPT ![a] = [at |-> "Drop", todo |-> job[a].todo]]
                     /\ UNCHANGED <<sub, sent, subs>>
<1> DEFINE s == target(a)
           c == offered(a)
<1>1. job[a] \in Job /\ job[a].at \in OfferPc
    BY Zenon DEF SubType, OfferSteps, OfferSends, OfferDeregisters, OfferDrops, OfferPc
<1>2. /\ s \in Sub /\ c \in Int /\ nextOffer(job[a]) \in Job
      /\ \A step \in OfferPc : [job[a] EXCEPT !.at = step] = [at |-> step, todo |-> job[a].todo]
      /\ \A step \in OfferPc : [at |-> step, todo |-> job[a].todo] \in Job
  <2>1. PICK j : j = job[a]
    OBVIOUS
  <2>2. j \in Job /\ j.at \in OfferPc
    BY <1>1, <2>1
  <2>3. /\ Head(j.todo).s \in Sub /\ Head(j.todo).c \in Int /\ nextOffer(j) \in Job
        /\ \A step \in OfferPc : [j EXCEPT !.at = step] = [at |-> step, todo |-> j.todo]
        /\ \A step \in OfferPc : [j EXCEPT !.at = step] \in Job
    BY <2>2, RestOfOffers, Zenon
  <2>4. s = Head(j.todo).s /\ c = Head(j.todo).c
    BY <2>1 DEF target, offered
  <2>5. \A step \in OfferPc : [at |-> step, todo |-> j.todo] \in Job
    BY <2>3, Zenon
  <2> HIDE DEF s, c
  <2> QED
    BY <2>1, <2>3, <2>4, <2>5, Zenon
<1>3. /\ \A j \in Job : [job EXCEPT ![a] = j] \in [Actor -> Job]
      /\ "Drop" \in OfferPc /\ "Deregister" \in OfferPc
      /\ Len(sub[s].ch) <= Size
    BY <1>2 DEF SubType, OfferPc, StreamInv
<1>4. CASE OfferDeregisters(a)
  <2>1. /\ job' = [job EXCEPT ![a] = nextOffer(job[a])] /\ subs' = subs \ {s}
        /\ UNCHANGED <<logVars, opts, life, sub, loop, startErr, mgr, fin, early, got, sent, closing>>
        /\ job[a].at = "Deregister"
    BY <1>4 DEF OfferDeregisters, target
  <2>2. job' \in [Actor -> Job] /\ subs' \subseteq Live
    BY <1>2, <1>3, <2>1 DEF SubType
  <2>3. SubType'
    BY <2>1, <2>2 DEF SubType, logVars, Live
  <2> QED
    BY <1>1, <1>2, <2>1, <2>3
<1>5. CASE OfferDrops(a)
  <2>1. /\ job' = [job EXCEPT ![a] = nextOffer(job[a])]
        /\ UNCHANGED <<logVars, opts, life, loop, startErr, subs, mgr, fin, early, got, closing>>
        /\ job[a].at = "Drop"
    BY <1>5, Zenon DEF OfferDrops
  <2>2. \E rest \in Seq(Event) :
           /\ rest = <<>> \/ (sub[s].ch # <<>> /\ rest = Tail(sub[s].ch))
           /\ Len(rest) < Size
           /\ Puts(s, c, Append(rest, [c |-> c, gap |-> TRUE]))
    BY <1>3, <1>5, DropPuts, Zenon
  <2>3. sub' \in [Sub -> Subscription] /\ sent' \in [Sub -> Seq(Int)]
    BY <2>2, Zenon DEF Puts
  <2>4. job' \in [Actor -> Job]
    BY <1>2, <1>3, <2>1
  <2>5. SubType'
    BY <2>1, <2>3, <2>4 DEF SubType, logVars, Live
  <2> QED
    BY <1>1, <1>2, <2>1, <2>2, <2>5
<1>6. CASE OfferSends(a)
  <2>1. /\ UNCHANGED <<logVars, opts, life, loop, startErr, subs, mgr, fin, early, got, closing>>
        /\ job[a].at = "Offer" /\ muFree(s)
    BY <1>6, Zenon DEF OfferSends, target
  <2>2. \A j \in Job : sub' \in [Sub -> Subscription] /\ sent' \in [Sub -> Seq(Int)]
                       /\ job' = [job EXCEPT ![a] = j] => SubType'
    BY <1>3, <2>1 DEF SubType, logVars, Live
  <2>3. CASE /\ sub[s].done
             /\ job' = [job EXCEPT ![a] = nextOffer(job[a])] /\ UNCHANGED <<sub, sent>>
    BY <1>1, <1>2, <2>1, <2>2, <2>3, Zenon DEF SubType
  <2>4. CASE /\ ~ sub[s].done /\ Len(sub[s].ch) < Size /\ push(s, c, sub[s].gap)
             /\ job' = [job EXCEPT ![a] = nextOffer(job[a])]
    <3>1. Puts(s, c, Append(sub[s].ch, [c |-> c, gap |-> sub[s].gap]))
      BY <1>2, <2>4, PushPuts
    <3>2. sub' \in [Sub -> Subscription] /\ sent' \in [Sub -> Seq(Int)]
      BY <3>1 DEF Puts
    <3> QED
      BY <1>1, <1>2, <2>1, <2>2, <2>4, <3>1, <3>2, Zenon
  <2>5. CASE /\ ~ sub[s].done /\ sub' = finish(s, "Lagged") /\ UNCHANGED sent
             /\ job' = [job EXCEPT ![a].at = "Deregister"]
    <3>1. closeLocked(sub[s], "Lagged") \in Subscription
      BY <1>2, FinishEnds DEF SubType, Errs
    <3>2. sub' \in [Sub -> Subscription]
      BY <2>5, <3>1, Zenon DEF finish, SubType
    <3>3. job' = [job EXCEPT ![a] = [at |-> "Deregister", todo |-> job[a].todo]]
      BY <1>2, <1>3, <2>5, Zenon
    <3> QED
      BY <1>1, <1>2, <1>3, <2>1, <2>2, <2>5, <3>2, <3>3, Zenon DEF SubType
  <2>6. CASE /\ ~ sub[s].done /\ ~ opts[s].slow /\ UNCHANGED <<sub, sent>>
             /\ job' = [job EXCEPT ![a].at = "Drop"]
    <3>1. job' = [job EXCEPT ![a] = [at |-> "Drop", todo |-> job[a].todo]]
      BY <1>2, <1>3, <2>6, Zenon
    <3> QED
      BY <1>1, <1>2, <1>3, <2>1, <2>2, <2>6, <3>1, Zenon DEF SubType
  <2> QED
    BY <1>6, <2>3, <2>4, <2>5, <2>6, Zenon DEF OfferSends, target, offered
<1> QED
    BY <1>4, <1>5, <1>6, Zenon DEF OfferSteps
-----------------------------------------------------------------------------
(***************************************************************************)
(* No loss without notice                                                  *)
(***************************************************************************)

\* An event joins the channel: what was missing, and announced, stays so.
LEMMA JoiningLosesNothing ==
    ASSUME NEW st \in Seq(Event), NEW sn \in Seq(Int), NEW e \in Event
    PROVE  LET st2 == Append(st, e)
               sn2 == Append(sn, e.c)
           IN  /\ Missing(st, sn) = {} => Missing(st2, sn2) = {}
               /\ Announced(st, sn) => Announced(st2, sn2)
<1> DEFINE st2 == Append(st, e)
           sn2 == Append(sn, e.c)
<1>1. /\ DOMAIN st = 1..Len(st) /\ DOMAIN st2 = 1..(Len(st) + 1)
      /\ \A i \in 1..Len(st) : st2[i] = st[i]
      /\ st2[Len(st) + 1] = e /\ Len(st) \in Nat
    OBVIOUS
<1>2. /\ DOMAIN sn = 1..Len(sn) /\ DOMAIN sn2 = 1..(Len(sn) + 1)
      /\ \A i \in 1..Len(sn) : sn2[i] = sn[i]
      /\ sn2[Len(sn) + 1] = e.c /\ Len(sn) \in Nat
    BY DEF Event
<1> HIDE DEF st2, sn2
<1>3. /\ \A i \in DOMAIN st : i \in DOMAIN st2 /\ st2[i] = st[i]
      /\ Len(st) + 1 \in DOMAIN st2
      /\ \A k \in DOMAIN sn : k \in DOMAIN sn2 /\ sn2[k] = sn[k]
      /\ \A k \in DOMAIN sn2 : k \in DOMAIN sn \/ k = Len(sn) + 1
    BY <1>1, <1>2
<1>4. Cursors(st) \subseteq Cursors(st2) /\ e.c \in Cursors(st2)
    BY <1>1, <1>3, Zenon DEF Cursors
<1>5. Range(sn2) \subseteq Range(sn) \cup {e.c}
    BY <1>2, <1>3, Zenon DEF Range
<1>6. Missing(st2, sn2) \subseteq Missing(st, sn) /\ e.c \notin Missing(st2, sn2)
    BY <1>4, <1>5, Zenon DEF Missing
<1>7. ASSUME Announced(st, sn)
      PROVE  Announced(st2, sn2)
  <2>1. PICK i \in DOMAIN sn, j \in DOMAIN st :
           /\ st[j].gap /\ st[j].c = sn[i]
           /\ \A c \in Missing(st, sn), k \in DOMAIN sn : sn[k] = c => k < i
    BY <1>7, Zenon DEF Announced
  <2>2. i \in DOMAIN sn2 /\ j \in DOMAIN st2 /\ st2[j].gap /\ st2[j].c = sn2[i]
    BY <1>3, <2>1, Zenon
  <2>3. ASSUME NEW c \in Missing(st2, sn2), NEW k \in DOMAIN sn2, sn2[k] = c
        PROVE  k < i
    <3>1. k # Len(sn) + 1
      BY <1>2, <1>6, <2>3, Zenon
    <3> QED
      BY <1>3, <1>6, <2>1, <2>3, <3>1, Zenon
  <2> QED
    BY <2>2, <2>3, Zenon DEF Announced
<1> QED
    BY <1>6, <1>7 DEF st2, sn2

\* An event with Gap set at the end of the channel announces every loss so far.
LEMMA GapAnnouncesAll ==
    ASSUME NEW st \in Seq(Event), st # <<>>, NEW sn \in Seq(Int), NEW e \in Event,
           st[Len(st)] = e, e.gap
    PROVE  Announced(st, Append(sn, e.c))
<1> DEFINE sn2 == Append(sn, e.c)
           i == Len(sn) + 1
           j == Len(st)
<1>1. j \in DOMAIN st /\ st[j] = e
    OBVIOUS
<1>2. /\ \A k \in DOMAIN sn2 : k \in Int /\ k <= i
      /\ i \in DOMAIN sn2 /\ sn2[i] = e.c /\ i \in Int
    BY DEF Event
<1>3. \A k \in DOMAIN sn2 : k # i => k < i
    BY <1>2
<1> HIDE DEF sn2, i, j
<1>4. e.c \in Cursors(st)
    BY <1>1, Zenon DEF Cursors
<1>5. e.c \notin Missing(st, sn2)
    BY <1>4, Zenon DEF Missing
<1>6. \A c \in Missing(st, sn2), k \in DOMAIN sn2 : sn2[k] = c => k < i
    BY <1>2, <1>3, <1>5, Zenon
<1>7. st[j].gap /\ st[j].c = sn2[i]
    BY <1>1, <1>2, Zenon
<1>8. Announced(st, sn2)
    BY <1>1, <1>2, <1>6, <1>7, Zenon DEF Announced
<1> QED
    BY <1>8 DEF sn2

\* An event at the end of a channel is at the end of the stream.
LEMMA StreamGrows ==
    ASSUME NEW g \in Seq(Event), NEW q \in Seq(Event), NEW e \in Event
    PROVE  /\ g \o Append(q, e) = Append(g \o q, e)
           /\ g \o Append(q, e) \in Seq(Event) /\ g \o q \in Seq(Event)
           /\ g \o Append(q, e) # <<>>
           /\ (g \o Append(q, e))[Len(g \o Append(q, e))] = e
OBVIOUS

\* A receive moves an event from the channel to the consumer.
LEMMA StreamMoves ==
    ASSUME NEW g \in Seq(Event), NEW q \in Seq(Event), q # <<>>
    PROVE  Append(g, Head(q)) \o Tail(q) = g \o q
OBVIOUS
\* Steps that leave the channels, the consumers and what was sent alone.
LEMMA StreamUntouched ==
    ASSUME StreamInv, UNCHANGED <<opts, got, sent>>,
           \A u \in Sub : sub'[u].ch = sub[u].ch
    PROVE  StreamInv'
BY DEF StreamInv, Stream

\* The consumer taking an event moves it from the channel to what it has got.
LEMMA StreamReceives ==
    ASSUME SubType, StreamInv, NEW s \in Sub, Receive(s)
    PROVE  /\ SubType' /\ StreamInv'
           /\ \A u \in Sub : sub'[u].done = sub[u].done
           /\ UNCHANGED <<logVars, opts, life, loop, startErr, subs, job, mgr, fin, early, sent, closing>>
<1> DEFINE q == sub[s].ch
<1>1. /\ sub[s] \in Subscription /\ q \in Seq(Event) /\ got[s] \in Seq(Event) /\ q # <<>>
    BY DEF SubType, Subscription, Receive
<1>2. /\ Head(q) \in Event /\ Tail(q) \in Seq(Event) /\ Len(Tail(q)) = Len(q) - 1
      /\ Len(q) \in Nat
    BY <1>1, HeadAndTail
<1>3. /\ got' = [got EXCEPT ![s] = Append(got[s], Head(q))]
      /\ sub' = [sub EXCEPT ![s] = [sub[s] EXCEPT !.ch = Tail(q)]]
    BY DEF Receive, SubType
<1>4. \A x \in Subscription, t \in Seq(Event) :
         LET y == [x EXCEPT !.ch = t] IN y \in Subscription /\ y.ch = t /\ y.done = x.done
    BY DEF Subscription
<1>5. Append(got[s], Head(q)) \in Seq(Event)
    BY <1>1, <1>2
<1>6. Append(got[s], Head(q)) \o Tail(q) = got[s] \o q
    BY <1>1, StreamMoves, Zenon
<1> DEFINE r == [sub[s] EXCEPT !.ch = Tail(q)]
           g == Append(got[s], Head(q))
<1>7. r \in Subscription /\ r.ch = Tail(q) /\ r.done = sub[s].done
    BY <1>1, <1>2, <1>4, Zenon
<1> HIDE DEF r, g, q
<1>8. /\ sub' \in [Sub -> Subscription] /\ got' \in [Sub -> Seq(Event)]
      /\ sub'[s] = r /\ got'[s] = g
      /\ \A u \in Sub : u # s => sub'[u] = sub[u] /\ got'[u] = got[u]
    BY <1>3, <1>5, <1>7 DEF SubType, r, g
<1>9. UNCHANGED <<logVars, opts, life, loop, startErr, subs, job, mgr, fin, early, sent, closing>>
    BY DEF Receive
<1>10. SubType'
    BY <1>8, <1>9 DEF SubType, logVars, Live
<1>11. \A u \in Sub : Stream(u)' = Stream(u)
    BY <1>6, <1>7, <1>8, Zenon DEF Stream, g, q
<1>12. \A u \in Sub : Len(sub'[u].ch) <= Size
  <2>1. Len(q) <= Size
    BY DEF StreamInv, q
  <2>2. Len(Tail(q)) <= Size
    BY <1>2, <2>1, SizePositive
  <2> QED
    BY <1>7, <1>8, <2>2, Zenon DEF StreamInv
<1>13. StreamInv'
    BY <1>9, <1>11, <1>12, Zenon DEF StreamInv
<1> QED
    BY <1>7, <1>8, <1>9, <1>10, <1>13, Zenon

\* An event was put into a channel that had room, or into the place of the oldest.
LEMMA StreamPuts ==
    ASSUME SubType, StreamInv, SubType', NEW s \in Sub, NEW c \in Int,
           NEW q \in Seq(Event), NEW gap \in BOOLEAN, Len(q) < Size,
           Puts(s, c, Append(q, [c |-> c, gap |-> gap])),
           q = sub[s].ch \/ (gap /\ ~ opts[s].slow),
           UNCHANGED <<opts, got>>
    PROVE  StreamInv'
<1> DEFINE e == [c |-> c, gap |-> gap]
           st == got[s] \o q
           st2 == got[s] \o Append(q, e)
<1>1. e \in Event /\ e.c = c /\ e.gap = gap /\ got[s] \in Seq(Event) /\ sent[s] \in Seq(Int)
    BY DEF Event, SubType
<1>2. Len(Append(q, e)) <= Size
    BY SizePositive
<1> HIDE DEF e
<1>3. /\ st2 = Append(st, e) /\ st2 \in Seq(Event) /\ st \in Seq(Event)
      /\ st2 # <<>> /\ st2[Len(st2)] = e
    BY <1>1, StreamGrows, Zenon
<1>4. /\ sub'[s].ch = Append(q, e) /\ sent'[s] = Append(sent[s], c)
      /\ \A u \in Sub : u # s => sub'[u] = sub[u] /\ sent'[u] = sent[u]
    BY DEF Puts, e
<1>5. Stream(s)' = st2
    BY <1>4 DEF Stream
<1> HIDE DEF st, st2
<1>6. CASE q = sub[s].ch
  <2>1. st = Stream(s)
    BY <1>6 DEF st, Stream
  <2>2. /\ Missing(st, sent[s]) = {} => Missing(st2, sent'[s]) = {}
        /\ Announced(st, sent[s]) => Announced(st2, sent'[s])
    BY <1>1, <1>3, <1>4, JoiningLosesNothing, Zenon
  <2>3. \/ Missing(st2, sent'[s]) = {}
        \/ ~ opts'[s].slow /\ Announced(st2, sent'[s])
    BY <2>1, <2>2, Zenon DEF StreamInv
  <2> QED
    BY <1>2, <1>4, <1>5, <2>3, Zenon DEF StreamInv, Stream
<1>7. CASE gap /\ ~ opts[s].slow
  <2>1. Announced(st2, sent'[s])
    BY <1>1, <1>3, <1>4, <1>7, GapAnnouncesAll, Zenon
  <2> QED
    BY <1>2, <1>4, <1>5, <1>7, <2>1, Zenon DEF StreamInv, Stream
<1> QED
    BY <1>6, <1>7

\* A step of offer keeps what was sent, received and buffered in one line.
LEMMA StreamOffers ==
    ASSUME SubType, OfferInv, StreamInv, NEW a \in Actor, OfferSteps(a)
    PROVE  StreamInv'
<1> DEFINE s == target(a)
           c == offered(a)
<1>1. /\ s \in Sub /\ c \in Int /\ SubType' /\ UNCHANGED <<opts, got>>
      /\ sub[s] \in Subscription /\ sub[s].ch \in Seq(Event) /\ sub[s].gap \in BOOLEAN
    BY OfferDoes, Zenon DEF SubType, Subscription
<1>2. CASE UNCHANGED <<sub, sent>>
    BY <1>1, <1>2, StreamUntouched
<1>3. CASE /\ Len(sub[s].ch) < Size
           /\ Puts(s, c, Append(sub[s].ch, [c |-> c, gap |-> sub[s].gap]))
    BY <1>1, <1>3, StreamPuts
<1>4. CASE /\ job[a].at = "Drop"
           /\ \E rest \in Seq(Event) :
                 Len(rest) < Size /\ Puts(s, c, Append(rest, [c |-> c, gap |-> TRUE]))
  <2>1. ~ opts[s].slow
    BY <1>4 DEF OfferInv
  <2> QED
    BY <1>1, <1>4, <2>1, StreamPuts, Zenon
<1>5. CASE sub' = finish(s, "Lagged") /\ UNCHANGED sent
  <2>1. closeLocked(sub[s], "Lagged").ch = sub[s].ch
    BY <1>1, FinishEnds DEF Errs
  <2>2. \A u \in Sub : sub'[u].ch = sub[u].ch
    BY <1>5, <2>1 DEF finish, SubType
  <2> QED
    BY <1>1, <1>5, <2>2, StreamUntouched
<1> QED
    BY <1>2, <1>3, <1>4, <1>5, OfferDoes
-----------------------------------------------------------------------------
(***************************************************************************)
(* Who offers to whom                                                      *)
(***************************************************************************)

\* Steps that offer nothing and end nothing.
LEMMA OfferUntouched ==
    ASSUME OfferInv, UNCHANGED <<opts, job>>,
           \A u \in Sub : sub'[u].done = sub[u].done,
           \A d \in Sub : loop'[d] = loop[d] \/ job[d] = Idle \/ loop[d] # "Offering",
           SubType
    PROVE  OfferInv'
<1>1. \A a \in Actor : job[a].at \in OfferPc => target(a) \in Sub
    BY RestOfOffers DEF SubType, target
<1>2. \A a \in Actor : target(a)' = target(a)
    BY DEF target
<1>3. \A a \in Actor :
          /\ job[a].at = "Drop" => ~ sub'[target(a)].done /\ ~ opts[target(a)].slow
          /\ job[a].at = "Deregister" => sub'[target(a)].done
    BY <1>1, Zenon DEF OfferInv, OfferPc
<1>4. \A d \in Sub : job[d] # Idle => loop'[d] = "Offering"
    BY Zenon DEF OfferInv
<1> QED
    BY <1>2, <1>3, <1>4, Zenon DEF OfferInv, Live, Durable

\* An actor's own step.
LEMMA OfferMoves ==
    ASSUME SubType, OfferInv, NEW a \in Actor, NEW j \in Job, job' = [job EXCEPT ![a] = j],
           opts' = opts,
           a \in Writer /\ j.at \in OfferPc => \A i \in DOMAIN j.todo : j.todo[i].s \in Live,
           a \in Sub /\ j # Idle => /\ a \in Durable /\ loop'[a] = "Offering" /\ j.at \in OfferPc
                                    /\ Len(j.todo) = 1 /\ j.todo[1].s = a,
           j.at = "Drop" => ~ sub'[Head(j.todo).s].done /\ ~ opts[Head(j.todo).s].slow,
           j.at = "Deregister" => sub'[Head(j.todo).s].done,
           \A b \in Actor : b # a /\ job[b].at = "Drop" => ~ sub'[target(b)].done,
           \A u \in Sub : sub[u].done => sub'[u].done,
           \A d \in Sub : d # a => loop'[d] = loop[d]
    PROVE  OfferInv'
<1>1. \A b \in Actor : job[b].at \in OfferPc => target(b) \in Sub
    BY RestOfOffers DEF SubType, target
<1>2. job'[a] = j /\ \A b \in Actor : b # a => job'[b] = job[b]
    BY Zenon DEF SubType
<1>3. target(a)' = Head(j.todo).s /\ \A b \in Actor : b # a => target(b)' = target(b)
    BY <1>2, Zenon DEF target
<1>4. ASSUME NEW b \in Actor
      PROVE  /\ job'[b].at = "Drop" => ~ sub'[target(b)'].done /\ ~ opts'[target(b)'].slow
             /\ job'[b].at = "Deregister" => sub'[target(b)'].done
  <2>1. CASE b = a
    BY <1>2, <1>3, <2>1, Zenon
  <2>2. CASE b # a
    <3>1. job'[b] = job[b] /\ target(b)' = target(b)
      BY <1>2, <1>3, <2>2, Zenon
    <3>2. /\ job[b].at = "Drop" => ~ opts[target(b)].slow
          /\ job[b].at = "Deregister" => sub[target(b)].done
      BY Zenon DEF OfferInv
    <3>3. job[b].at = "Deregister" => target(b) \in Sub
      BY <1>1, Zenon DEF OfferPc
    <3> QED
      BY <2>2, <3>1, <3>2, <3>3, Zenon
  <2> QED
    BY <2>1, <2>2, Zenon
<1>5. Live' = Live /\ Durable' = Durable
    BY Zenon DEF Live, Durable
<1>6. ASSUME NEW w \in Writer, job'[w].at \in OfferPc, NEW i \in DOMAIN job'[w].todo
      PROVE  job'[w].todo[i].s \in Live
  <2>1. CASE w = a
    <3>1. a \in Writer /\ j.at \in OfferPc /\ i \in DOMAIN j.todo
      BY <1>2, <1>6, <2>1, Zenon
    <3>2. j.todo[i].s \in Live
      BY <3>1, Zenon
    <3>3. job'[w].todo[i].s = j.todo[i].s
      BY <1>2, <2>1, Zenon
    <3> QED
      BY <3>2, <3>3, Zenon
  <2>2. CASE w # a
    <3>1. job'[w] = job[w]
      BY <1>2, <2>2, Zenon DEF Actor
    <3>2. job[w].at \in OfferPc /\ i \in DOMAIN job[w].todo
      BY <1>6, <3>1
    <3>3. job[w].todo[i].s \in Live
      BY <3>2, Zenon DEF OfferInv
    <3>4. job'[w].todo[i].s = job[w].todo[i].s
      BY <3>1, Zenon
    <3> QED
      BY <3>3, <3>4, Zenon
  <2> QED
    BY <2>1, <2>2, Zenon
<1>7. ASSUME NEW d \in Sub, job'[d] # Idle
      PROVE  /\ d \in Durable' /\ loop'[d] = "Offering"
             /\ job'[d].at \in OfferPc /\ Len(job'[d].todo) = 1 /\ job'[d].todo[1].s = d
  <2>1. CASE d = a
    BY <1>2, <1>5, <1>7, <2>1, Zenon
  <2>2. CASE d # a
    <3>1. job'[d] = job[d] /\ loop'[d] = loop[d]
      BY <1>2, <2>2, Zenon DEF Actor
    <3>2. job[d] # Idle
      BY <1>7, <3>1, Zenon
    <3>3. /\ d \in Durable /\ loop[d] = "Offering"
          /\ job[d].at \in OfferPc /\ Len(job[d].todo) = 1 /\ job[d].todo[1].s = d
      BY <3>2, Zenon DEF OfferInv
    <3> QED
      BY <1>5, <3>1, <3>3, Zenon
  <2> QED
    BY <2>1, <2>2, Zenon
<1>8. \A w \in Writer : job'[w].at \in OfferPc =>
          \A i \in DOMAIN job'[w].todo : job'[w].todo[i].s \in Live'
    BY <1>5, <1>6, Zenon
<1> QED
    BY <1>4, <1>7, <1>8, Zenon DEF OfferInv

\* A subscription ends: no offer is holding it.
LEMMA OfferEnds ==
    ASSUME SubType, OfferInv, NEW s \in Sub, NEW err, Ends(s, err),
           loop' = loop \/ loop[s] # "Offering"
    PROVE  OfferInv'
<1>1. /\ \A u \in Sub : u # s => sub'[u] = sub[u]
      /\ \A u \in Sub : sub[u].done => sub'[u].done
    BY TypeEnds
<1>2. job' = job /\ opts' = opts
    BY DEF Ends
<1>3. \A a \in Actor : job[a].at \in OfferPc => target(a) \in Sub
    BY RestOfOffers DEF SubType, target
<1>4. \A a \in Actor : target(a)' = target(a)
    BY <1>2 DEF target
<1>5. \A a \in Actor : job[a].at = "Drop" => target(a) # s
    BY DEF Ends, muFree, target
<1>6. \A a \in Actor :
          /\ job[a].at = "Drop" => ~ sub'[target(a)].done /\ ~ opts[target(a)].slow
          /\ job[a].at = "Deregister" => sub'[target(a)].done
    BY <1>1, <1>3, <1>5 DEF OfferInv, OfferPc
<1>7. ASSUME NEW d \in Sub, job[d] # Idle
      PROVE  loop'[d] = "Offering"
  <2>1. loop[d] = "Offering"
    BY <1>7, Zenon DEF OfferInv
  <2>2. loop' = loop \/ (loop' = [loop EXCEPT ![s] = "Exited"] /\ loop[s] # "Offering")
    BY DEF Ends
  <2>3. DOMAIN loop = Sub
    BY DEF SubType
  <2> QED
    BY <2>1, <2>2, <2>3
<1> QED
    BY <1>2, <1>4, <1>6, <1>7, Zenon DEF OfferInv, Live, Durable

\* A durable loop that receives from the pump starts to offer that event.
LEMMA OfferReceives ==
    ASSUME SubType, OfferInv, ChainInv, NEW d \in Sub, LoopReceives(d)
    PROVE  OfferInv'
<1> DEFINE j == [at |-> "Offer", todo |-> <<[s |-> d, c |-> upcoming(d)]>>]
<1>1. /\ d \in Durable /\ loop'[d] = "Offering" /\ SubType'
      /\ \A u \in Sub : u # d => loop'[u] = loop[u]
      /\ job' = [job EXCEPT ![d] = j]
    BY TypeReceives, Zenon
<1>2. /\ j.at = "Offer" /\ j.at \in OfferPc /\ Len(j.todo) = 1 /\ j.todo[1].s = d /\ d \notin Writer
      /\ d \in Actor
    BY GoroutinesApart DEF OfferPc, Sub, Actor
<1>3. j \in Job
    BY <1>1, <1>2 DEF SubType
<1>4. UNCHANGED <<opts, sub>>
    BY DEF LoopReceives
<1>5. \A b \in Actor : b # d /\ job[b].at = "Drop" => ~ sub'[target(b)].done
    BY <1>4, Zenon DEF OfferInv
<1> HIDE DEF j
<1> QED
    BY <1>1, <1>2, <1>3, <1>4, <1>5, OfferMoves, Zenon

\* An operation and its publish give the writer a list of offers to live subscriptions.
LEMMA OfferWrites ==
    ASSUME SubType, OfferInv, NEW w \in Writer,
           Publish(w) \/ \E k \in 1..MaxEffects : Operate(w, k)
    PROVE  OfferInv'
<1>1. PICK j \in Job :
         /\ job' = [job EXCEPT ![w] = j]
         /\ \/ j.at = "Publish"
            \/ j = Idle \/ (j.at = "Offer" /\ \A i \in DOMAIN j.todo : j.todo[i].s \in Live)
  <2>1. CASE Publish(w)
    BY <2>1, TypePublishes
  <2>2. ASSUME NEW k \in 1..MaxEffects, Operate(w, k)
        PROVE  \E j \in Job : job' = [job EXCEPT ![w] = j] /\ j.at = "Publish"
    <3> DEFINE j == [at |-> "Publish", todo |-> [i \in 1..k |-> cursor + i]]
    <3>1. job' = [job EXCEPT ![w] = j] /\ SubType'
      BY <2>2, TypeOperates
    <3>2. j \in Job
      BY <3>1, Zenon DEF SubType, Actor
    <3> QED
      BY <3>1, <3>2, Zenon
  <2> QED
    BY <2>1, <2>2
<1>2. w \notin Sub /\ w \in Actor
    BY GoroutinesApart DEF Sub, Actor
<1>3. UNCHANGED <<opts, sub, loop>>
    BY Zenon DEF Publish, Operate
<1>4. j.at # "Drop" /\ j.at # "Deregister"
    BY <1>1 DEF Idle
<1>5. j.at \in OfferPc => \A i \in DOMAIN j.todo : j.todo[i].s \in Live
    BY <1>1 DEF Idle, OfferPc
<1>6. \A b \in Actor : b # w /\ job[b].at = "Drop" => ~ sub'[target(b)].done
    BY <1>3 DEF OfferInv
<1> QED
    BY <1>1, <1>2, <1>3, <1>4, <1>5, <1>6, OfferMoves, Zenon

\* A step of offer keeps every job a list of offers still to make, and reopens no stream.
LEMMA OfferOffers ==
    ASSUME SubType, OfferInv, StreamInv, NEW a \in Actor, OfferSteps(a)
    PROVE  /\ OfferInv'
           /\ \A u \in Sub : sub[u].done => sub'[u].done
<1> DEFINE s == target(a)
           c == offered(a)
           n == nextOffer(job[a])
<1>1. /\ s \in Sub /\ c \in Int /\ SubType'
      /\ job[a] \in Job /\ job[a].at \in OfferPc
      /\ UNCHANGED <<opts, loop>>
    BY OfferDoes, Zenon
<1>2. /\ job[a].todo \in Seq(Offer) /\ job[a].todo # <<>> /\ n \in Job
      /\ Len(job[a].todo) = 1 => n = Idle
      /\ Len(job[a].todo) # 1 => n = [at |-> "Offer", todo |-> Tail(job[a].todo)]
      /\ \A step \in OfferPc : [at |-> step, todo |-> job[a].todo] \in Job
    BY <1>1, RestOfOffers, Zenon
<1>3. /\ DOMAIN job[a].todo = 1..Len(job[a].todo) /\ Len(job[a].todo) \in Nat
      /\ DOMAIN Tail(job[a].todo) = 1..(Len(job[a].todo) - 1)
      /\ \A i \in 1..(Len(job[a].todo) - 1) : Tail(job[a].todo)[i] = job[a].todo[i + 1]
    BY <1>2, HeadAndTail, Zenon
<1>4. /\ a \in Writer => \A i \in DOMAIN job[a].todo : job[a].todo[i].s \in Live
      /\ a \in Sub => /\ a \in Durable /\ loop'[a] = "Offering"
                      /\ Len(job[a].todo) = 1 /\ job[a].todo[1].s = a
  <2>1. Idle.at \notin OfferPc
    BY DEF OfferPc, Idle
  <2> QED
    BY <1>1, <2>1, Zenon DEF OfferInv
<1>5. ASSUME job' = [job EXCEPT ![a] = n], \A u \in Sub : sub'[u].done = sub[u].done
      PROVE  OfferInv'
  <2>1. n.at # "Drop" /\ n.at # "Deregister"
    BY <1>2 DEF Idle
  <2>2. a \in Writer /\ n.at \in OfferPc => \A i \in DOMAIN n.todo : n.todo[i].s \in Live
    <3> SUFFICES ASSUME a \in Writer, n.at \in OfferPc, NEW i \in DOMAIN n.todo
                 PROVE  n.todo[i].s \in Live
      OBVIOUS
    <3>1. n.todo = Tail(job[a].todo)
      <4>1. n # Idle
        BY DEF Idle, OfferPc
      <4>2. n = [at |-> "Offer", todo |-> Tail(job[a].todo)]
        BY <1>2, <4>1, Zenon
      <4> HIDE DEF n
      <4> QED
        BY <4>2
    <3>2. i \in 1..(Len(job[a].todo) - 1) /\ i + 1 \in 1..Len(job[a].todo)
      BY <1>3, <3>1
    <3>3. n.todo[i] = job[a].todo[i + 1]
      BY <1>3, <3>1, <3>2
    <3> QED
      BY <1>3, <1>4, <3>2, <3>3
  <2>3. a \in Sub => n = Idle
    BY <1>2, <1>4
  <2>4. \A b \in Actor : job[b].at \in OfferPc => target(b) \in Sub
    BY RestOfOffers DEF SubType, target
  <2>5. \A b \in Actor : job[b].at = "Drop" => ~ sub'[target(b)].done
    BY <1>5, <2>4, Zenon DEF OfferInv, OfferPc
  <2> HIDE DEF n
  <2> QED
    BY <1>1, <1>2, <1>5, <2>1, <2>2, <2>3, <2>5, OfferMoves, Zenon
<1>6. ASSUME NEW step \in {"Drop", "Deregister"},
             job' = [job EXCEPT ![a] = [at |-> step, todo |-> job[a].todo]],
             step = "Drop" => ~ sub'[s].done /\ ~ opts[s].slow,
             step = "Deregister" => sub'[s].done,
             \A b \in Actor : job[b].at = "Drop" => ~ sub'[target(b)].done,
             \A u \in Sub : sub[u].done => sub'[u].done
      PROVE  OfferInv'
  <2> DEFINE j == [at |-> step, todo |-> job[a].todo]
  <2>1. j \in Job /\ j.at = step /\ j.todo = job[a].todo
    BY <1>2, Zenon DEF OfferPc
  <2>2. step \in OfferPc
    BY DEF OfferPc
  <2>3. s = Head(j.todo).s
    BY <2>1 DEF target
  <2> HIDE DEF j, s
  <2> QED
    BY <1>1, <1>4, <1>6, <2>1, <2>2, <2>3, OfferMoves, Zenon DEF j
<1>7. CASE job' = [job EXCEPT ![a] = n] /\ UNCHANGED sub
    BY <1>5, <1>7
<1>8. ASSUME job' = [job EXCEPT ![a] = n], NEW q, Puts(s, c, q)
      PROVE  OfferInv' /\ \A u \in Sub : sub'[u].done = sub[u].done
  <2>1. \A u \in Sub : sub'[u].done = sub[u].done
    BY <1>8 DEF Puts
  <2> QED
    BY <1>5, <1>8, <2>1
<1>9. CASE /\ muFree(s) /\ sub' = finish(s, "Lagged")
           /\ job' = [job EXCEPT ![a] = [at |-> "Deregister", todo |-> job[a].todo]]
  <2>1. closeLocked(sub[s], "Lagged").done
    BY <1>1, FinishEnds DEF SubType, Errs
  <2>2. sub'[s].done /\ \A u \in Sub : u # s => sub'[u] = sub[u]
    BY <1>1, <1>9, <2>1, Zenon DEF finish, SubType
  <2>3. \A b \in Actor : job[b].at \in OfferPc => target(b) \in Sub
    BY RestOfOffers DEF SubType, target
  <2>4. \A b \in Actor : job[b].at = "Drop" => target(b) # s
    BY <1>9 DEF muFree, target
  <2>5. \A b \in Actor : job[b].at = "Drop" => ~ sub'[target(b)].done
    BY <2>2, <2>3, <2>4 DEF OfferInv, OfferPc
  <2>6. \A u \in Sub : sub[u].done => sub'[u].done
    BY <2>2
  <2>7. OfferInv'
    BY <1>6, <1>9, <2>2, <2>5, <2>6
  <2> QED
    BY <2>6, <2>7
<1>10. CASE /\ ~ sub[s].done /\ ~ opts[s].slow /\ UNCHANGED sub
            /\ job' = [job EXCEPT ![a] = [at |-> "Drop", todo |-> job[a].todo]]
  <2>1. \A b \in Actor : job[b].at = "Drop" => ~ sub'[target(b)].done
    BY <1>10 DEF OfferInv
  <2> QED
    BY <1>6, <1>10, <2>1
<1> QED
    BY <1>7, <1>8, <1>9, <1>10, OfferDoes, Zenon
-----------------------------------------------------------------------------
(***************************************************************************)
(* From the registry through Close                                         *)
(***************************************************************************)

\* Steps that the registry and Close do not see.
LEMMA CloseUntouched ==
    ASSUME CloseInv, UNCHANGED <<opts, life, loop, subs, mgr, fin, early, closing>>,
           \A u \in Sub : sub[u].done => sub'[u].done, early \subseteq Sub
    PROVE  CloseInv'
BY DEF CloseInv, Live, Durable

\* A goroutine that moves on, or exits beside a live stream, keeps the closing invariant.
LEMMA CloseAlong ==
    ASSUME CloseInv, NEW s \in Sub, early \subseteq Sub,
           UNCHANGED <<opts, life, sub, subs, mgr, fin, early, closing>>,
           loop[s] \notin {"None", "Leaving", "Exited"}, loop'[s] # "None",
           loop'[s] = "Exited" => s \in Live,
           \A u \in Sub : u # s => loop'[u] = loop[u]
    PROVE  CloseInv'
<1>1. Live' = Live /\ Durable' = Durable /\ Live \subseteq Sub /\ Durable \subseteq Sub
    BY Zenon DEF Live, Durable
<1>2. Live \cap Durable = {}
    BY Zenon DEF Durable
<1>3. \A u \in Sub : /\ loop'[u] = "None" <=> loop[u] = "None"
                     /\ loop[u] = "Leaving" => loop'[u] = "Leaving"
                     /\ loop[u] = "Exited" => loop'[u] = "Exited"
    BY Zenon
<1>4. \A u \in Durable : loop'[u] = "Exited" => loop[u] = "Exited"
    BY <1>1, <1>2, Zenon
<1>5. \A u \in Sub : loop'[u] = "None" <=> life'[u] # "Open"
    BY <1>3, Zenon DEF CloseInv
<1>6. \A u \in Live' : life'[u] \in {"Filed", "Open"} /\ ~ sub'[u].done =>
          u \in subs' \cup fin' \cup closing' \/ loop'[u] = "Leaving"
    BY <1>1, <1>3, Zenon DEF CloseInv
<1>7. \A u \in Durable' : loop'[u] = "Exited" => sub'[u].done
    BY <1>1, <1>4, Zenon DEF CloseInv
<1>8. mgr' \in {"Finishing", "Closed"} => \A u \in early' : loop'[u] = "Exited" /\ u \notin subs'
    BY <1>3, Zenon DEF CloseInv
<1>9. /\ \A u \in Live' : life'[u] \notin {"Filed", "Open"} => u \notin subs'
      /\ \A u \in early' : life'[u] = "Open"
      /\ mgr' # "Finishing" => fin' = {}
    BY <1>1, Zenon DEF CloseInv
<1> QED
    BY <1>5, <1>6, <1>7, <1>8, <1>9, Zenon DEF CloseInv

\* The goroutine of a subscription is started.
LEMMA CloseGoes ==
    ASSUME SubType, CloseInv, NEW s \in Sub, SubscribeGo(s)
    PROVE  CloseInv'
<1>1. /\ UNCHANGED <<opts, sub, subs, mgr, fin, early, closing>>
      /\ life[s] = "Filed" /\ life'[s] = "Open" /\ loop'[s] \in {"Run", "Spawned"}
      /\ \A u \in Sub : u # s => life'[u] = life[u] /\ loop'[u] = loop[u]
    BY Zenon DEF SubscribeGo, SubType
<1>2. Live' = Live /\ Durable' = Durable /\ Live \subseteq Sub /\ Durable \subseteq Sub
    BY <1>1, Zenon DEF Live, Durable
<1>3. loop[s] = "None" /\ s \notin early
    BY <1>1, Zenon DEF CloseInv
<1>4. early \subseteq Sub
    BY Zenon DEF SubType
<1>5. \A u \in Sub : loop'[u] = "None" <=> life'[u] # "Open"
    BY <1>1, Zenon DEF CloseInv
<1>6. \A u \in Live' : life'[u] \in {"Filed", "Open"} /\ ~ sub'[u].done =>
          u \in subs' \cup fin' \cup closing' \/ loop'[u] = "Leaving"
    BY <1>1, <1>2, <1>3, Zenon DEF CloseInv
<1>7. \A u \in Durable' : loop'[u] = "Exited" => sub'[u].done
    BY <1>1, <1>2, Zenon DEF CloseInv
<1>8. mgr' \in {"Finishing", "Closed"} => \A u \in early' : loop'[u] = "Exited" /\ u \notin subs'
    BY <1>1, <1>3, <1>4, Zenon DEF CloseInv
<1>9. /\ \A u \in Live' : life'[u] \notin {"Filed", "Open"} => u \notin subs'
      /\ \A u \in early' : life'[u] = "Open"
      /\ mgr' # "Finishing" => fin' = {}
    BY <1>1, <1>2, <1>3, <1>4, Zenon DEF CloseInv
<1> QED
    BY <1>5, <1>6, <1>7, <1>8, <1>9, Zenon DEF CloseInv

\* The steps of Subscribe, of the loops and of Close that end no stream keep the closing invariant.
LEMMA CloseQuiet ==
    ASSUME SubType, OfferInv, CloseInv, NEW s,
           \/ s \in Sub /\ \/ SubscribeCheck(s) \/ SubscribeLive(s) \/ SubscribeDurable(s)
                           \/ SubscribeGo(s) \/ LoopReleased(s) \/ LoopStarts(s)
                           \/ LoopReceives(s) \/ LoopChecks(s) \/ LoopLeaves(s)
                           \/ LoopCancelled(s) \/ CloseSub(s)
           \/ CloseStarts \/ CloseGivesUp \/ CloseDrained \/ CloseReturns
    PROVE  CloseInv'
<1>1. CASE s \in Sub /\ SubscribeCheck(s)
    BY <1>1, Zenon DEF SubscribeCheck, SubType, CloseInv, Live, Durable
<1>2. CASE s \in Sub /\ SubscribeLive(s)
    BY <1>2, Zenon DEF SubscribeLive, SubType, CloseInv, Live, Durable
<1>3. CASE s \in Sub /\ SubscribeGo(s)
    BY <1>3, CloseGoes, Zenon
<1>4. CASE s \in Sub /\ (\/ LoopReleased(s) \/ LoopStarts(s) \/ LoopReceives(s)
                         \/ LoopChecks(s) \/ LoopLeaves(s))
  <2>1. UNCHANGED <<opts, life, sub, subs, mgr, fin, early, closing>>
    BY <1>4, Zenon DEF LoopReleased, LoopStarts, LoopReceives, LoopChecks, LoopLeaves
  <2>2. /\ loop[s] \in {"Spawned", "Run", "Offering"}
        /\ \E to \in {"Run", "Offering", "Leaving", "Exited"} :
              loop' = [loop EXCEPT ![s] = to] /\ (to = "Exited" => s \in Live)
    BY <1>4 DEF LoopReleased, LoopStarts, LoopReceives, LoopChecks, LoopLeaves
  <2>3. /\ loop'[s] # "None" /\ (loop'[s] = "Exited" => s \in Live)
        /\ \A u \in Sub : u # s => loop'[u] = loop[u]
    BY <1>4, <2>2, Zenon DEF SubType
  <2>4. loop[s] \notin {"None", "Leaving", "Exited"} /\ early \subseteq Sub
    BY <2>2, Zenon DEF SubType
  <2> QED
    BY <1>4, <2>1, <2>3, <2>4, CloseAlong, Zenon
<1>5. CASE s \in Sub /\ SubscribeDurable(s)
    BY <1>5, Zenon DEF SubscribeDurable, SubType, CloseInv, Live, Durable
<1>6. CASE CloseStarts
    BY <1>6, Zenon DEF CloseStarts, closed, SubType, CloseInv, Live, Durable
<1>7. CASE CloseGivesUp
    BY <1>7, Zenon DEF CloseGivesUp, SubType, CloseInv, Live, Durable
<1>8. CASE CloseDrained
    BY <1>8, Zenon DEF CloseDrained, SubType, CloseInv, Live, Durable
<1>9. CASE CloseReturns
    BY <1>9, Zenon DEF CloseReturns, SubType, CloseInv, Live, Durable
<1>10. CASE s \in Sub /\ LoopCancelled(s)
    BY <1>10, Zenon DEF LoopCancelled, SubType, CloseInv, Live, Durable
<1>11. CASE s \in Sub /\ CloseSub(s)
    BY <1>11, Zenon DEF CloseSub, SubType, CloseInv, Live, Durable
<1> QED
    BY <1>1, <1>2, <1>3, <1>4, <1>5, <1>6, <1>7, <1>8, <1>9, <1>10, <1>11, Zenon

\* Ending a stream and taking it off the registry keeps the closing invariant.
LEMMA CloseEnds ==
    ASSUME SubType, CloseInv, NEW s \in Sub, NEW err, Ends(s, err),
           subs \ {s} \subseteq subs', fin \ {s} \subseteq fin', closing \ {s} \subseteq closing',
           loop' = loop \/ loop[s] # "None"
    PROVE  CloseInv'
<1>1. /\ sub'[s].done
      /\ \A u \in Sub : u # s => sub'[u] = sub[u]
    BY TypeEnds, Zenon
<1>2. /\ subs' \subseteq subs /\ fin' \subseteq fin
      /\ loop' \in {loop, [loop EXCEPT ![s] = "Exited"]}
      /\ UNCHANGED <<opts, life, mgr, early>>
    BY DEF Ends
<1>3. \A u \in Sub : loop'[u] = loop[u] \/ (u = s /\ loop'[u] = "Exited" /\ loop[s] # "None")
    BY <1>2 DEF SubType
<1>4. Live' = Live /\ Durable' = Durable /\ Live \subseteq Sub /\ Durable \subseteq Sub
    BY <1>2, Zenon DEF Live, Durable
<1>5. ASSUME NEW u \in Live, life[u] \in {"Filed", "Open"}, ~ sub'[u].done
      PROVE  u \in subs' \cup fin' \cup closing' \/ loop'[u] = "Leaving"
  <2>1. u \in Sub /\ u # s
    BY <1>1, <1>4, <1>5, Zenon
  <2>2. ~ sub[u].done /\ loop'[u] = loop[u]
    BY <1>1, <1>3, <1>5, <2>1, Zenon
  <2>3. u \in subs \cup fin \cup closing \/ loop[u] = "Leaving"
    BY <1>5, <2>2, Zenon DEF CloseInv
  <2> QED
    BY <2>1, <2>2, <2>3, Zenon
<1>6. \A u \in Durable : loop'[u] = "Exited" => sub'[u].done
    BY <1>1, <1>3, <1>4, Zenon DEF CloseInv
<1>7. \A u \in Sub : loop'[u] = "None" <=> life'[u] # "Open"
    BY <1>2, <1>3, Zenon DEF CloseInv
<1>8. /\ \A u \in Live : life'[u] \notin {"Filed", "Open"} => u \notin subs'
      /\ \A u \in early' : life'[u] = "Open"
      /\ mgr' # "Finishing" => fin' = {}
    BY <1>2, Zenon DEF CloseInv
<1>9. mgr' \in {"Finishing", "Closed"} => \A u \in early' : loop'[u] = "Exited" /\ u \notin subs'
    BY <1>2, <1>3, Zenon DEF CloseInv, SubType
<1> QED
    BY <1>2, <1>4, <1>5, <1>6, <1>7, <1>8, <1>9, Zenon DEF CloseInv

\* dropSub, after an offer that ended the subscription.
LEMMA CloseOffers ==
    ASSUME SubType, OfferInv, CloseInv, StreamInv, NEW a \in Actor, OfferSteps(a)
    PROVE  CloseInv'
<1> DEFINE s == target(a)
<1>1. /\ s \in Sub /\ UNCHANGED <<opts, life, loop, mgr, fin, early, closing>>
      /\ \/ UNCHANGED subs
         \/ job[a].at = "Deregister" /\ subs' = subs \ {s}
    BY OfferDoes, Zenon
<1>2. \A u \in Sub : sub[u].done => sub'[u].done
    BY OfferOffers
<1>3. CASE UNCHANGED subs
    BY <1>1, <1>2, <1>3, CloseUntouched, Zenon DEF SubType
<1>4. CASE job[a].at = "Deregister" /\ subs' = subs \ {s}
  <2>1. sub[s].done
    BY <1>4, Zenon DEF OfferInv
  <2> HIDE DEF s
  <2> QED
    BY <1>1, <1>2, <1>4, <2>1, Zenon DEF CloseInv, SubType, Live, Durable
<1> QED
    BY <1>1, <1>3, <1>4, Zenon
-----------------------------------------------------------------------------
(***************************************************************************)
(* What a durable subscription is sent                                     *)
(***************************************************************************)

\* Steps that leave a durable subscription, its goroutine and its pump where they are;
\* it may have ended.
LEMMA ChainUntouched ==
    ASSUME NEW d \in Sub, Chain(d), sub[d].done => sub'[d].done,
           sub[d].done \in BOOLEAN, sub'[d].done \in BOOLEAN,
           pump'[d] = pump[d], job'[d] = job[d], sent'[d] = sent[d]
    PROVE  Chain(d)'
BY Zenon DEF Chain, upcoming, pumping, offering, offered, follows

\* The pump starts, copies what is new, waits, wakes or ends.
LEMMA ChainPumps ==
    ASSUME SubType, OfferInv, CloseInv, ChainInv, NEW d \in Sub,
           SubscribeDurable(d) \/ PumpSteps(d)
    PROVE  ChainInv'
<1>0. /\ UNCHANGED <<opts, sub, job, sent>> /\ Durable' = Durable
      /\ \A u \in Sub : u # d => pump'[u] = pump[u]
      /\ pump[d] \in PumpState /\ cursor \in Int
      /\ \A u \in Sub : sub[u].done \in BOOLEAN
    BY DEF SubscribeDurable, Watch, PumpSteps, PumpRead, PumpWakes, PumpStops, subVars,
           SubType, Subscription, Durable, Live
<1>1. \A u \in Durable : u # d => Chain(u)'
    BY <1>0, ChainUntouched, Zenon DEF ChainInv, Durable
<1>2. SUFFICES ASSUME d \in Durable PROVE Chain(d)'
    BY <1>0, <1>1, Zenon DEF ChainInv
<1>3. Chain(d)
    BY <1>2 DEF ChainInv
<1>4. CASE SubscribeDurable(d)
  <2>1. PICK start \in WatchStart :
           pump' = [pump EXCEPT ![d] = [at |-> "Reading", next |-> start, batch |-> <<>>, bell |-> 0]]
    BY <1>4, Zenon DEF SubscribeDurable, Watch
  <2>2. pump'[d].at = "Reading" /\ pump'[d].batch = <<>>
    BY <2>1 DEF SubType
  <2>3. pump[d].at = "None"
    BY <1>4 DEF SubscribeDurable, Watch
  <2>4. sent[d] = <<>> /\ ~ offering(d)
    BY <1>3, <2>3, Zenon DEF Chain
  <2>5. sent'[d] = <<>> /\ ~ offering(d)'
    BY <1>0, <2>4, Zenon DEF offering
  <2>6. (follows(d, upcoming(d)))' /\ \A i \in DOMAIN sent'[d] : FALSE
    BY <2>5 DEF follows
  <2>7. pump'[d].at # "None" /\ pump'[d].at # "Sending"
    BY <2>2
  <2> QED
    BY <2>2, <2>5, <2>6, <2>7, Zenon DEF Chain
<1>5. CASE PumpRead(d)
  <2> DEFINE p == pump[d]
             b == [i \in 1..(cursor + 1 - p.next) |-> p.next + i - 1]
  <2>1. p.next \in Int /\ p.at = "Reading" /\ p.batch = <<>>
    BY <1>0, <1>3, <1>5 DEF PumpState, PumpRead, Chain
  <2>2. Len(p.batch) = 0
    BY <2>1, EmptySeq
  <2>3. upcoming(d) = p.next
    BY <2>1, <2>2 DEF upcoming
  <2>4. pump'[d] = IF p.next < logStart THEN [p EXCEPT !.at = "Expired"]
                   ELSE IF p.next <= cursor
                        THEN [at |-> "Sending", next |-> cursor + 1, bell |-> cursor, batch |-> b]
                   ELSE [p EXCEPT !.at = "Waiting", !.batch = <<>>, !.bell = cursor]
    BY <1>5 DEF PumpRead, SubType
  <2>5. CASE pump'[d] = [p EXCEPT !.at = "Expired"]
    <3>1. pump'[d].at = "Expired"
      BY <1>0, <2>5 DEF PumpState
    <3> QED
      BY <1>0, <1>3, <3>1, Zenon DEF Chain, offering, offered, follows, pumping
  <2>6. CASE pump'[d] = [p EXCEPT !.at = "Waiting", !.batch = <<>>, !.bell = cursor]
    <3>1. pump'[d].at = "Waiting" /\ pump'[d].next = p.next /\ pump'[d].batch = <<>>
      BY <1>0, <2>6 DEF PumpState
    <3>2. upcoming(d)' = upcoming(d)
      BY <2>1, <3>1 DEF upcoming
    <3> QED
      BY <1>0, <1>3, <2>1, <3>1, <3>2, Zenon DEF Chain, offering, offered, follows, pumping
  <2>7. CASE /\ p.next <= cursor
             /\ pump'[d] = [at |-> "Sending", next |-> cursor + 1, bell |-> cursor, batch |-> b]
    <3>1. /\ b \in Seq(Int) /\ Len(b) = cursor + 1 - p.next
          /\ DOMAIN b = 1..(cursor + 1 - p.next)
          /\ \A i \in DOMAIN b : b[i] = p.next + i - 1
      <4> DEFINE n == cursor + 1 - p.next
      <4>1. n \in Nat
        <5>1. cursor \in Int /\ p.next \in Int /\ p.next <= cursor
          BY <1>0, <2>1, <2>7, Zenon
        <5> HIDE DEF b
        <5> QED
          BY <5>1
      <4>2. b = [i \in 1..n |-> p.next + i - 1] /\ \A i \in 1..n : p.next + i - 1 \in Int
        BY <2>1
      <4> HIDE DEF n, b
      <4>3. b \in Seq(Int) /\ Len(b) = n /\ DOMAIN b = 1..n
        BY <4>1, <4>2
      <4>4. \A i \in 1..n : b[i] = p.next + i - 1
        BY <4>2, Zenon
      <4> QED
        BY <4>3, <4>4 DEF n
    <3> HIDE DEF b
    <3>2. b # <<>>
      <4>1. Len(b) # 0
        <5>1. /\ cursor \in Int /\ p.next \in Int /\ p.next <= cursor
              /\ Len(b) = cursor + 1 - p.next
          BY <1>0, <2>1, <2>7, <3>1, Zenon
        <5> QED
          BY <5>1
      <4>2. Len(<<>>) = 0
        BY EmptySeq
      <4> QED
        BY <4>1, <4>2, Zenon
    <3>3. pump'[d].at = "Sending" /\ pump'[d].next = cursor + 1 /\ pump'[d].batch = b
      BY <2>7
    <3>4. upcoming(d)' = p.next
      <4>1. upcoming(d)' = pump'[d].next - Len(pump'[d].batch)
        BY Zenon DEF upcoming
      <4>2. cursor \in Int /\ p.next \in Int /\ Len(b) = cursor + 1 - p.next
        BY <1>0, <2>1, <3>1, Zenon
      <4> QED
        BY <3>3, <4>1, <4>2
    <3> QED
      BY <1>0, <1>3, <2>1, <2>3, <3>1, <3>2, <3>3, <3>4, Zenon DEF Chain, offering, offered, follows, pumping
  <2> QED
    BY <2>4, <2>5, <2>6, <2>7
<1>6. CASE PumpWakes(d)
  <2>1. /\ pump[d].at = "Waiting" /\ pump'[d].at = "Reading"
        /\ pump'[d].next = pump[d].next /\ pump'[d].batch = pump[d].batch
    BY <1>0, <1>6 DEF PumpWakes, PumpState, SubType
  <2> QED
    BY <1>0, <1>3, <2>1, Zenon DEF Chain, offering, offered, follows, pumping, upcoming
<1>7. CASE PumpStops(d)
  <2>1. pump'[d].at = "Stopped"
    BY <1>0, <1>7 DEF PumpStops, PumpState, SubType
  <2> QED
    BY <1>0, <1>3, <2>1, Zenon DEF Chain, offering, offered, follows, pumping, upcoming
<1> QED
    BY <1>4, <1>5, <1>6, <1>7 DEF PumpSteps

\* The goroutine takes the next event from the pump.
LEMMA ChainReceives ==
    ASSUME SubType, OfferInv, ChainInv, NEW d \in Sub, LoopReceives(d)
    PROVE  ChainInv'
<1> DEFINE j == [at |-> "Offer", todo |-> <<[s |-> d, c |-> upcoming(d)]>>]
           b == pump[d].batch
<1>1. /\ SubType' /\ d \in Durable /\ loop[d] = "Run"
      /\ \A u \in Sub : u # d => pump'[u] = pump[u]
      /\ job' = [job EXCEPT ![d] = j]
      /\ pump[d].at = "Sending" /\ b # <<>> /\ b \in Seq(Int)
      /\ pump'[d].next = pump[d].next /\ pump'[d].batch = Tail(b)
      /\ pump'[d].at = IF Len(b) = 1 THEN "Reading" ELSE "Sending"
    BY TypeReceives, Zenon
<1>2. /\ UNCHANGED <<opts, sub, sent>> /\ Durable' = Durable
      /\ \A u \in Sub : sub[u].done \in BOOLEAN /\ u \in Actor
      /\ pump[d].next \in Int
    BY DEF LoopReceives, SubType, Subscription, Durable, Live, PumpState, Actor
<1>3. \A u \in Sub : u # d => job'[u] = job[u]
    BY <1>1, <1>2, Zenon DEF SubType
<1>4. \A u \in Durable : u # d => Chain(u)'
    BY <1>1, <1>2, <1>3, ChainUntouched, Zenon DEF ChainInv, Durable
<1>5. SUFFICES Chain(d)'
    BY <1>2, <1>4, Zenon DEF ChainInv
<1>6. Chain(d) /\ job[d] = Idle
    BY <1>1, Zenon DEF ChainInv, OfferInv
<1>7. ~ offering(d) /\ pumping(d)
  <2>1. Idle.at # "Offer" /\ Idle.at # "Drop"
    BY DEF Idle
  <2> QED
    BY <1>1, <1>6, <2>1, Zenon DEF offering, pumping
<1>8. job'[d] = j
    BY <1>1, <1>2, Zenon DEF SubType
<1>9. j.at = "Offer" /\ Head(j.todo).c = upcoming(d)
    OBVIOUS
<1>10. offering(d)' /\ offered(d)' = upcoming(d)
    BY <1>8, <1>9, Zenon DEF offering, offered
<1>11. /\ Len(b) \in Nat /\ Len(b) >= 1 /\ Len(Tail(b)) = Len(b) - 1 /\ Tail(b) \in Seq(Int)
       /\ DOMAIN b = 1..Len(b) /\ DOMAIN Tail(b) = 1..(Len(b) - 1)
       /\ \A i \in 1..(Len(b) - 1) : Tail(b)[i] = b[i + 1]
    BY <1>1, HeadAndTail, Zenon
<1> HIDE DEF j, b
<1>12. upcoming(d) \in Int /\ upcoming(d)' = upcoming(d) + 1
  <2>1. upcoming(d) = pump[d].next - Len(b) /\ upcoming(d)' = pump'[d].next - Len(pump'[d].batch)
    BY Zenon DEF upcoming, b
  <2>2. pump'[d].next = pump[d].next /\ pump'[d].batch = Tail(b)
    BY <1>1, Zenon DEF b
  <2>3. pump[d].next \in Int /\ Len(b) \in Nat
    BY <1>2, <1>11, Zenon
  <2>4. /\ pump[d].next - Len(b) \in Int
        /\ pump[d].next - (Len(b) - 1) = pump[d].next - Len(b) + 1
    BY <2>3
  <2> QED
    BY <1>11, <2>1, <2>2, <2>4, Zenon
<1>13. \A i \in DOMAIN Tail(b) : Tail(b)[i] = upcoming(d)' + i - 1
  <2> SUFFICES ASSUME NEW i \in 1..(Len(b) - 1) PROVE Tail(b)[i] = upcoming(d)' + i - 1
    BY <1>11
  <2>1. i \in Int /\ i + 1 \in 1..Len(b) /\ Tail(b)[i] = b[i + 1]
    BY <1>11
  <2>2. b[i + 1] = upcoming(d) + (i + 1) - 1
    BY <1>1, <1>6, <1>11, <2>1, Zenon DEF Chain, b
  <2> QED
    BY <1>12, <2>1, <2>2
<1>14. Len(b) = 1 => Tail(b) = <<>>
    BY <1>11
<1>15. Len(b) # 1 => Tail(b) # <<>>
  <2>1. SUFFICES ASSUME Tail(b) = <<>> PROVE Len(b) = 1
    OBVIOUS
  <2>2. Len(<<>>) = 0
    BY EmptySeq
  <2>3. Len(Tail(b)) = 0
    BY <2>1, <2>2, Zenon
  <2> QED
    BY <2>3, <1>11
<1>16. ~ sub'[d].done => (follows(d, offered(d)))'
    BY <1>2, <1>6, <1>7, <1>10, Zenon DEF Chain, follows
<1> QED
    BY <1>1, <1>2, <1>6, <1>10, <1>12, <1>13, <1>14, <1>15, <1>16, Zenon DEF Chain

\* Of a subscription that has ended only the past matters.
LEMMA ChainEnded ==
    ASSUME NEW d \in Sub, Chain(d), pump'[d] = pump[d], sent'[d] = sent[d],
           sub'[d].done, ~ offering(d)'
    PROVE  Chain(d)'
BY Zenon DEF Chain, upcoming

\* The event that was offered is the next in the run, and what the pump hands over
\* follows it.
LEMMA ChainGrows ==
    ASSUME SubType, NEW d \in Sub, Chain(d), pump'[d] = pump[d], ~ sub[d].done,
           offering(d), ~ offering(d)', offered(d) \in Int,
           sent'[d] = Append(sent[d], offered(d))
    PROVE  Chain(d)'
<1> DEFINE q == sent[d]
           c == offered(d)
           r == Append(q, c)
<1>1. q \in Seq(Int) /\ Len(q) \in Nat /\ DOMAIN q = 1..Len(q)
  <2>1. q \in Seq(Int)
    BY Zenon DEF SubType
  <2> HIDE DEF q
  <2> QED
    BY <2>1
<1>2. /\ DOMAIN r = 1..(Len(q) + 1) /\ Len(r) = Len(q) + 1 /\ r[Len(q) + 1] = c
      /\ \A i \in 1..Len(q) : r[i] = q[i]
  <2> HIDE DEF q, c
  <2> QED
    BY <1>1
<1>3. (q = <<>> => Len(q) = 0) /\ (q # <<>> => Len(q) >= 1)
    BY <1>1, EmptySeq
<1>4. \A i \in DOMAIN q : q[i] = q[1] + i - 1
    BY Zenon DEF Chain
<1>5. q # <<>> => c = q[1] + Len(q)
    BY Zenon DEF Chain, follows
<1>6. pumping(d) => upcoming(d) = c + 1
    BY Zenon DEF Chain
<1>7. pump[d].at # "None"
    BY Zenon DEF Chain
<1>8. \A i \in DOMAIN q : q[i] \in Int
    BY <1>1
<1> HIDE DEF q, c, r
<1>9. r[1] \in Int /\ c = r[1] + Len(q) /\ \A i \in DOMAIN r : r[i] = r[1] + i - 1
  <2>1. CASE q = <<>>
    <3>1. Len(q) = 0 /\ DOMAIN r = 1..1 /\ r[1] = c
      BY <1>2, <1>3, <2>1
    <3>2. c \in Int
      BY Zenon DEF c
    <3> QED
      BY <3>1, <3>2
  <2>2. CASE q # <<>>
    <3>1. Len(q) >= 1 /\ c = q[1] + Len(q) /\ r[1] = q[1] /\ q[1] \in Int
      BY <1>1, <1>2, <1>3, <1>5, <1>8, <2>2
    <3>2. \A i \in 1..Len(q) : r[i] = r[1] + i - 1
      BY <1>1, <1>2, <1>4, <3>1, Zenon
    <3>3. r[Len(q) + 1] = r[1] + (Len(q) + 1) - 1
      BY <1>1, <1>2, <3>1
    <3>4. \A i \in DOMAIN r : i \in 1..Len(q) \/ i = Len(q) + 1
      BY <1>1, <1>2
    <3> QED
      BY <3>1, <3>2, <3>3, <3>4, Zenon
  <2> QED
    BY <2>1, <2>2
<1>10. c + 1 = r[1] + Len(r)
    BY <1>1, <1>2, <1>9
<1>11. sent'[d] = r
    BY DEF r, q, c
<1>12. upcoming(d)' = upcoming(d) /\ pumping(d)' = pumping(d)
    BY DEF upcoming, pumping
<1>13. pumping(d)' => (follows(d, upcoming(d)))'
    BY <1>6, <1>10, <1>11, <1>12 DEF follows
<1> QED
    BY <1>7, <1>9, <1>11, <1>12, <1>13, Zenon DEF Chain

\* An offer to a durable subscription puts the next event into its channel.
LEMMA ChainOffers ==
    ASSUME SubType, OfferInv, StreamInv, ChainInv, NEW a \in Actor, OfferSteps(a)
    PROVE  ChainInv'
<1> DEFINE s == target(a)
           c == offered(a)
           n == nextOffer(job[a])
<1>1. /\ s \in Sub /\ c \in Int /\ SubType' /\ job[a] \in Job /\ job[a].at \in OfferPc
      /\ UNCHANGED <<pump, opts>> /\ Durable' = Durable
    BY OfferDoes, Zenon DEF logVars, Durable, Live
<1>2. /\ \A u \in Sub : sub[u].done => sub'[u].done
      /\ \A u \in Sub : sub[u].done \in BOOLEAN /\ sub'[u].done \in BOOLEAN
    BY <1>1, OfferOffers, Zenon DEF SubType, Subscription
<1>3. \A b \in Actor : b # a => job'[b] = job[b]
  <2>1. \E j : job' = [job EXCEPT ![a] = j]
    BY OfferDoes, Zenon
  <2>2. DOMAIN job = Actor
    BY Zenon DEF SubType
  <2> QED
    BY <2>1, <2>2, Zenon
<1>4. \A u \in Sub : u # s => sent'[u] = sent[u]
    BY OfferDoes, Zenon DEF Puts
<1>5. job[a].todo \in Seq(Offer) /\ job[a].todo # <<>> /\ Head(job[a].todo) = job[a].todo[1]
      /\ 1 \in DOMAIN job[a].todo
    BY <1>1, RestOfOffers, HeadAndTail
<1>6. CASE a \in Writer
  <2>1. s \in Live /\ a \notin Sub
    BY <1>1, <1>5, <1>6, GoroutinesApart, Zenon DEF OfferInv, target, Sub
  <2>2. \A d \in Durable : d \in Sub /\ d # s /\ d # a /\ d \in Actor
    BY <2>1 DEF Durable, Actor
  <2>3. \A d \in Durable : Chain(d)'
    BY <1>1, <1>2, <1>3, <1>4, <2>2, ChainUntouched, Zenon DEF ChainInv
  <2> QED
    BY <1>1, <2>3 DEF ChainInv
<1>7. CASE a \in Sub
  <2>1. a \in Durable /\ s = a /\ Len(job[a].todo) = 1
    <3>1. job[a] # Idle
      BY <1>1 DEF OfferPc, Idle
    <3>2. a \in Durable /\ Len(job[a].todo) = 1 /\ job[a].todo[1].s = a
      BY <1>7, <3>1, Zenon DEF OfferInv
    <3> QED
      BY <1>5, <3>2 DEF target
  <2>2. \A d \in Durable : d # a => Chain(d)'
    <3>1. \A d \in Durable : d \in Sub /\ d \in Actor
      BY DEF Durable, Actor
    <3> QED
      BY <1>1, <1>2, <1>3, <1>4, <2>1, <3>1, ChainUntouched, Zenon DEF ChainInv
  <2>3. SUFFICES Chain(a)'
    BY <1>1, <2>2 DEF ChainInv
  <2>4. Chain(a) /\ pump'[a] = pump[a] /\ n = Idle /\ pump[a] \in PumpState
    BY <1>1, <2>1, RestOfOffers DEF ChainInv, SubType
  <2>5. job' = [job EXCEPT ![a] = n] => ~ offering(a)'
    BY <2>4 DEF SubType, offering, Idle
  <2>6. CASE /\ job' = [job EXCEPT ![a] = n] /\ sub[a].done /\ UNCHANGED <<sub, sent>>
    BY <1>7, <2>4, <2>5, <2>6, ChainEnded, Zenon
  <2>7. ASSUME job' = [job EXCEPT ![a] = n], ~ sub[a].done, job[a].at \in {"Offer", "Drop"},
               NEW q, Puts(s, c, q)
        PROVE  Chain(a)'
    <3>1. sent'[a] = Append(sent[a], offered(a))
      BY <2>1, <2>7 DEF Puts
    <3>2. offering(a) /\ offered(a) \in Int
      BY <1>1, <2>7 DEF offering
    <3> QED
      BY <1>7, <2>4, <2>5, <2>7, <3>1, <3>2, ChainGrows, Zenon
  <2>8. CASE /\ job[a].at = "Offer" /\ UNCHANGED <<sub, sent>>
             /\ job' = [job EXCEPT ![a] = [at |-> "Drop", todo |-> job[a].todo]]
    <3>1. job'[a].at = "Drop" /\ job'[a].todo = job[a].todo
      BY <2>8 DEF SubType
    <3> QED
      BY <2>4, <2>8, <3>1, Zenon DEF Chain, offering, offered, follows, pumping, upcoming
  <2>9. CASE /\ sub' = finish(s, "Lagged") /\ UNCHANGED sent
             /\ job' = [job EXCEPT ![a] = [at |-> "Deregister", todo |-> job[a].todo]]
    <3>1. closeLocked(sub[s], "Lagged").done
      BY <1>1, FinishEnds DEF SubType, Errs
    <3>2. sub'[a].done
      BY <1>1, <2>1, <2>9, <3>1, Zenon DEF finish, SubType
    <3>3. ~ offering(a)'
      BY <2>9 DEF SubType, offering
    <3> QED
      BY <1>7, <2>4, <2>9, <3>2, <3>3, ChainEnded
  <2>10. /\ job[a].at = "Deregister" => sub[a].done
         /\ job[a].at = "Drop" => ~ sub[a].done
    BY <2>1, Zenon DEF OfferInv
  <2> QED
    BY <2>1, <2>6, <2>7, <2>8, <2>9, <2>10, OfferDoes, Zenon
<1> QED
    BY <1>6, <1>7 DEF Actor-----------------------------------------------------------------------------
(***************************************************************************)
(* The invariant                                                           *)
(***************************************************************************)
\* SubInv holds when the Manager has just been made.
LEMMA SubInitially == Init => SubInv
<1> SUFFICES ASSUME Init PROVE SubInv
    OBVIOUS
<1>1. SubType
    BY TypeInitially
<1>2. /\ \A a \in Actor : job[a] = Idle
      /\ \A s \in Sub : /\ life[s] = "None" /\ sub[s] = NewSub /\ loop[s] = "None"
                        /\ got[s] = <<>> /\ sent[s] = <<>> /\ pump[s] = NoPump
      /\ subs = {} /\ fin = {} /\ early = {} /\ closing = {} /\ mgr = "Open"
    BY Zenon DEF Init, LogInit, Sub
<1>3. /\ Idle.at = "Idle" /\ NewSub.ch = <<>> /\ NewSub.done = FALSE
      /\ NoPump.at = "None" /\ NoPump.batch = <<>>
    BY DEF Idle, NewSub, NoPump
<1>4. OfferInv
    BY <1>2, <1>3 DEF OfferInv, OfferPc, Actor
<1>5. CloseInv
    BY <1>2 DEF CloseInv, Live, Durable
<1>6. StreamInv
  <2>1. Len(<<>>) = 0 /\ Range(<<>>) = {}
    BY EmptySeq DEF Range
  <2>2. \A s \in Sub : Missing(Stream(s), sent[s]) = {}
    BY <1>2, <2>1, Zenon DEF Missing
  <2>3. \A s \in Sub : Len(sub[s].ch) = 0
    BY <1>2, <1>3, <2>1, Zenon
  <2> QED
    BY <2>2, <2>3, SizePositive DEF StreamInv
<1>7. ChainInv
  <2> SUFFICES ASSUME NEW d \in Durable PROVE Chain(d)
    BY DEF ChainInv
  <2>1. d \in Sub /\ d \in Actor
    BY DEF Durable, Actor
  <2>2. /\ pump[d].at = "None" /\ pump[d].batch = <<>> /\ sent[d] = <<>>
        /\ job[d].at = "Idle"
    BY <1>2, <1>3, <2>1, Zenon
  <2>3. DOMAIN sent[d] = {}
    BY <2>2
  <2> QED
    BY <2>2, <2>3, Zenon DEF Chain, offering, pumping
<1> QED
    BY <1>1, <1>4, <1>5, <1>6, <1>7 DEF SubInv

\* A subscription is ended by its goroutine, its owner or Close.
LEMMA EndingKeeps ==
    ASSUME SubInv, NEW s \in Sub,
           LoopFinishes(s) \/ CloseSubFinishes(s) \/ CloseFinishes(s)
    PROVE  SubInv'
<1>0. SubType /\ OfferInv /\ CloseInv /\ StreamInv /\ ChainInv
    BY DEF SubInv
<1>1. \E err : Ends(s, err)
  <2>1. CASE LoopFinishes(s)
    BY <1>0, <2>1 DEF LoopFinishes, Ends, SubType
  <2>2. CASE CloseSubFinishes(s)
    BY <2>2 DEF CloseSubFinishes, Ends, Errs
  <2>3. CASE CloseFinishes(s)
    BY <2>3 DEF CloseFinishes, Ends, Errs
  <2> QED
    BY <2>1, <2>2, <2>3
<1>2. PICK err : Ends(s, err)
    BY <1>1
<1>3. /\ subs \ {s} \subseteq subs' /\ fin \ {s} \subseteq fin' /\ closing \ {s} \subseteq closing'
      /\ loop' = loop \/ (loop[s] # "None" /\ loop[s] # "Offering")
    BY Zenon DEF LoopFinishes, CloseSubFinishes, CloseFinishes
<1>4. /\ SubType'
      /\ \A u \in Sub : sub[u].done => sub'[u].done
      /\ \A u \in Sub : sub'[u].ch = sub[u].ch
    BY <1>0, <1>2, TypeEnds, Zenon
<1>5. OfferInv'
    BY <1>0, <1>2, <1>3, OfferEnds
<1>6. CloseInv'
    BY <1>0, <1>2, <1>3, CloseEnds
<1>7. UNCHANGED <<pump, job, sent, opts, got>>
    BY <1>2 DEF Ends, logVars
<1>8. StreamInv'
    BY <1>0, <1>4, <1>7, StreamUntouched
<1>9. ChainInv'
  <2>1. \A u \in Sub : sub[u].done \in BOOLEAN /\ sub'[u].done \in BOOLEAN
    BY <1>0, <1>4 DEF SubType, Subscription
  <2>2. Durable' = Durable /\ Durable \subseteq Sub
    BY <1>7 DEF Durable, Live
  <2> QED
    BY <1>0, <1>4, <1>7, <2>1, <2>2, ChainUntouched DEF ChainInv
<1> QED
    BY <1>4, <1>5, <1>6, <1>8, <1>9 DEF SubInv

\* Subscribe and Close, and what goroutines do between offers.
LEMMA QuietKeeps ==
    ASSUME SubInv, NEW s,
           \/ s \in Sub /\ \/ SubscribeCheck(s) \/ SubscribeLive(s) \/ SubscribeGo(s)
                           \/ LoopReleased(s) \/ LoopStarts(s) \/ LoopChecks(s)
                           \/ LoopLeaves(s) \/ LoopCancelled(s) \/ CloseSub(s)
           \/ CloseStarts \/ CloseGivesUp \/ CloseDrained \/ CloseReturns
    PROVE  SubInv'
<1>0. SubType /\ OfferInv /\ CloseInv /\ StreamInv /\ ChainInv
    BY DEF SubInv
<1>1. UNCHANGED <<pump, opts, sub, job, got, sent>>
    BY Zenon DEF SubscribeCheck, SubscribeLive, SubscribeGo, LoopReleased, LoopStarts, LoopChecks,
           LoopLeaves, LoopCancelled, CloseSub, CloseStarts, CloseGivesUp, CloseDrained,
           CloseReturns, logVars
<1>2. \A d \in Sub : loop'[d] = loop[d] \/ job[d] = Idle \/ loop[d] # "Offering"
    BY <1>0, Zenon DEF SubscribeCheck, SubscribeLive, SubscribeGo, LoopReleased, LoopStarts, LoopChecks,
           LoopLeaves, LoopCancelled, CloseSub, CloseStarts, CloseGivesUp, CloseDrained,
           CloseReturns, SubType, CloseInv
<1>3. SubType'
    BY <1>0, TypeQuiet
<1>4. OfferInv'
    BY <1>0, <1>1, <1>2, OfferUntouched, Zenon
<1>5. CloseInv'
    BY <1>0, CloseQuiet
<1>6. StreamInv'
    BY <1>0, <1>1, StreamUntouched
<1>7. ChainInv'
    BY <1>0, <1>1, Zenon DEF ChainInv, Chain, upcoming, pumping, offering, offered, follows, Durable, Live
<1> QED
    BY <1>3, <1>4, <1>5, <1>6, <1>7 DEF SubInv

\* Every step of the Manager, its subscriptions and the log keeps SubInv.
LEMMA SubStep == SubInv /\ [Next]_vars => SubInv'
<1> SUFFICES ASSUME SubInv, [Next]_vars PROVE SubInv'
    OBVIOUS
<1>0. SubType /\ OfferInv /\ CloseInv /\ StreamInv /\ ChainInv
    BY DEF SubInv
<1>1. /\ \A u \in Sub : sub[u].done \in BOOLEAN /\ u \in Actor
      /\ Durable \subseteq Sub /\ early \subseteq Sub
    BY <1>0 DEF SubType, Subscription, Durable, Actor
\* Steps that change neither pumps, nor jobs, nor what was sent, nor whether anything ended.
<1>2. ASSUME UNCHANGED <<pump, opts, job, sent>>, \A u \in Sub : sub'[u].done = sub[u].done
      PROVE  ChainInv'
  <2>1. Durable' = Durable
    BY <1>2 DEF Durable, Live
  <2> QED
    BY <1>0, <1>1, <1>2, <2>1, ChainUntouched, Zenon DEF ChainInv
<1>3. CASE UNCHANGED vars
  <2>1. SubType'
    BY <1>0, <1>3, Zenon DEF SubType, vars, logVars, subVars, Live
  <2>2. OfferInv' /\ CloseInv' /\ StreamInv' /\ ChainInv'
    BY Zenon, <1>0, <1>1, <1>2, <1>3, OfferUntouched, CloseUntouched, StreamUntouched
       DEF vars, logVars, subVars
  <2> QED
    BY <2>1, <2>2 DEF SubInv
<1>4. ASSUME NEW s \in Sub, Receive(s)
      PROVE  SubInv'
  <2>1. /\ SubType' /\ StreamInv'
        /\ \A u \in Sub : sub'[u].done = sub[u].done
        /\ UNCHANGED <<logVars, opts, life, loop, subs, job, mgr, fin, early, sent, closing>>
    BY <1>0, <1>4, StreamReceives, Zenon
  <2>2. OfferInv' /\ CloseInv' /\ ChainInv'
    BY <1>0, <1>1, <1>2, <2>1, OfferUntouched, CloseUntouched, Zenon DEF logVars
  <2> QED
    BY <2>1, <2>2, Zenon DEF SubInv
<1>5. ASSUME NEW s \in Sub, CancelCtx(s)
      PROVE  SubInv'
  <2>1. SubType'
    BY <1>0, <1>5, TypeQuiet
  <2>2. UNCHANGED <<logVars, opts, life, sub, loop, subs, job, mgr, fin, early, got, sent, closing>>
    BY <1>5, Zenon DEF CancelCtx
  <2>3. OfferInv' /\ CloseInv' /\ StreamInv' /\ ChainInv'
    BY <1>0, <1>1, <1>2, <2>2, OfferUntouched, CloseUntouched, StreamUntouched, Zenon DEF logVars
  <2> QED
    BY <2>1, <2>3 DEF SubInv
<1>6. ASSUME NEW d \in Sub, SubscribeDurable(d) \/ PumpSteps(d)
      PROVE  SubInv'
  <2>1. UNCHANGED <<opts, sub, loop, subs, job, mgr, fin, early, got, sent, closing>>
    BY <1>6 DEF SubscribeDurable, PumpSteps, subVars
  <2>2. SubType' /\ ChainInv'
    BY <1>0, <1>6, TypePumps, ChainPumps
  <2>3. OfferInv' /\ StreamInv'
    BY <1>0, <2>1, OfferUntouched, StreamUntouched, Zenon
  <2>4. CloseInv'
    <3>1. CASE SubscribeDurable(d)
      BY <1>0, <3>1, CloseQuiet
    <3>2. CASE PumpSteps(d)
      BY <1>0, <1>1, <2>1, <3>2, CloseUntouched, Zenon DEF PumpSteps, subVars
    <3> QED
      BY <1>6, <3>1, <3>2
  <2> QED
    BY <2>2, <2>3, <2>4 DEF SubInv
<1>7. ASSUME NEW d \in Sub, LoopReceives(d)
      PROVE  SubInv'
  <2>1. UNCHANGED <<opts, sub, got, sent>>
    BY <1>7 DEF LoopReceives
  <2> QED
    BY Zenon, <1>0, <1>7, <2>1, TypeReceives, OfferReceives, CloseQuiet, StreamUntouched, ChainReceives
       DEF SubInv
<1>8. ASSUME NEW w \in Writer, Publish(w) \/ \E k \in 1..MaxEffects : Operate(w, k)
      PROVE  SubInv'
  <2>1. UNCHANGED <<pump, opts, life, sub, loop, subs, mgr, fin, early, got, sent, closing>>
    BY <1>8, Zenon DEF Publish, Operate, Record, logVars
  <2>2. SubType'
    BY <1>0, <1>8, TypePublishes, TypeOperates, Zenon
  <2>3. OfferInv' /\ CloseInv' /\ StreamInv'
    BY <1>0, <1>1, <1>8, <2>1, OfferWrites, CloseUntouched, StreamUntouched, Zenon
  <2>4. \A u \in Sub : job'[u] = job[u]
    <3>1. \A u \in Sub : u # w
      BY GoroutinesApart DEF Sub
    <3>2. \E j : job' = [job EXCEPT ![w] = j]
      BY <1>8, Zenon DEF Publish, Operate
    <3> QED
      BY <1>0, <1>1, <3>1, <3>2 DEF SubType
  <2>5. ChainInv'
    <3>1. Durable' = Durable
      BY <2>1 DEF Durable, Live
    <3> QED
      BY <1>0, <1>1, <2>1, <2>4, <3>1, ChainUntouched, Zenon DEF ChainInv
  <2> QED
    BY <2>2, <2>3, <2>5 DEF SubInv
<1>9. ASSUME NEW a \in Actor, OfferSteps(a)
      PROVE  SubInv'
    BY <1>0, <1>9, OfferDoes, OfferOffers, CloseOffers, StreamOffers, ChainOffers, Zenon DEF SubInv
<1>10. CASE Next
  <2>1. ASSUME NEW s \in Sub,
               \/ SubscribeCheck(s) \/ SubscribeLive(s) \/ SubscribeDurable(s) \/ SubscribeGo(s)
               \/ LoopSteps(s)
               \/ Receive(s) \/ CloseSub(s) \/ CloseSubFinishes(s) \/ CancelCtx(s)
        PROVE  SubInv'
    BY <1>4, <1>5, <1>6, <1>7, <2>1, QuietKeeps, EndingKeeps DEF LoopSteps
  <2>2. CASE CloseStarts \/ CloseGivesUp \/ CloseDrained \/ CloseReturns
    BY <2>2, QuietKeeps
  <2> QED
    BY <1>6, <1>8, <1>9, <1>10, <2>1, <2>2, EndingKeeps DEF Next, CloseSteps
<1> QED
    BY <1>3, <1>10
\* The invariant holds throughout.
LEMMA SubInvariant == Spec => []SubInv
<1> QED
    BY SubInitially, SubStep, PTL DEF Spec

(***************************************************************************)
(* The theorems                                                            *)
(***************************************************************************)

\* However owners, contexts, the overflow policy and Manager.Close end subscriptions
\* while writers and pumps offer to them, no offer sends on a closed channel, and when
\* Close has returned every subscription that was open has left the registry, its goroutine
\* has exited, and it has ended unless its owner's own Close is between dropSub and finish
\* (subscribe.go Close and finish, manager.go Close).
THEOREM ClosingIsClean == Spec => []CloseIsClean
<1>1. SubInv => CloseIsClean
  <2> SUFFICES ASSUME SubInv PROVE CloseIsClean
    OBVIOUS
  <2>1. NeverSendsOnClosed
    BY Zenon DEF SubInv, OfferInv, NeverSendsOnClosed, target
  <2>2. CloseEndsSubscriptions
    <3> SUFFICES ASSUME mgr = "Closed", NEW s \in early
                 PROVE  /\ loop[s] = "Exited" /\ s \notin subs
                        /\ sub[s].done \/ s \in closing
      BY DEF CloseEndsSubscriptions
    <3>1. /\ s \in Sub /\ life[s] = "Open" /\ loop[s] = "Exited" /\ s \notin subs /\ fin = {}
      BY DEF SubInv, SubType, CloseInv
    <3>2. CASE s \in Live
      BY <3>1, <3>2, Zenon DEF SubInv, CloseInv
    <3>3. CASE s \in Durable
      BY <3>1, <3>3 DEF SubInv, CloseInv
    <3> QED
      BY <3>1, <3>2, <3>3 DEF Durable
  <2> QED
    BY <2>1, <2>2 DEF CloseIsClean
<1> QED
    BY <1>1, SubInvariant, PTL

\* Neither tier loses an event without saying so, for any channel depth, any number of
\* writers and any interleaving of offers, receives and compactions of the log: a live
\* subscription's loss is followed by an event with Gap set (or nothing is lost, with
\* OverflowCloseSlow), and a durable one is sent a run of consecutive cursors.
THEOREM NoLossIsSilent == Spec => []NothingIsLostSilently
<1>1. SubInv => NothingIsLostSilently
  <2> SUFFICES ASSUME SubInv PROVE NothingIsLostSilently
    OBVIOUS
  <2>1. \A s \in Sub : Lost(s) = Missing(Stream(s), sent[s])
    BY DEF Lost, Missing
  <2>2. LossIsAnnounced
    <3> SUFFICES ASSUME NEW s \in Sub
                 PROVE  IF opts[s].slow THEN Lost(s) = {}
                        ELSE \A c \in Lost(s) :
                                \E i \in DOMAIN sent[s], j \in DOMAIN Stream(s) :
                                    /\ Stream(s)[j].gap /\ Stream(s)[j].c = sent[s][i]
                                    /\ \A k \in DOMAIN sent[s] : sent[s][k] = c => k < i
      BY Zenon DEF LossIsAnnounced
    <3>1. Lost(s) = {} \/ (~ opts[s].slow /\ Announced(Stream(s), sent[s]))
      BY <2>1, Zenon DEF SubInv, StreamInv
    <3>2. CASE Lost(s) = {}
      BY <3>2, Zenon
    <3>3. CASE ~ opts[s].slow /\ Announced(Stream(s), sent[s])
      BY <2>1, <3>3, Zenon DEF Announced
    <3> QED
      BY <3>1, <3>2, <3>3, Zenon
  <2>3. DurableIsGapless
    BY Zenon DEF SubInv, ChainInv, Chain, DurableIsGapless
  <2> QED
    BY <2>2, <2>3 DEF NothingIsLostSilently
<1> QED
    BY <1>1, SubInvariant, PTL
=============================================================================
