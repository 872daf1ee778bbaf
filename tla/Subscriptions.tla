---------------------------- MODULE Subscriptions ----------------------------
(***************************************************************************)
(* A Manager's subscriptions (subscribe.go, manager.go Close) over the     *)
(* store's event log.  A live subscription is offered the effects of the   *)
(* operations this Manager performs, by the goroutines that perform them,  *)
(* after the store has let go of its lock; a durable one is fed by its own *)
(* goroutine from the log's pump.  Consumers, contexts and Close run at    *)
(* any time.                                                               *)
(*                                                                         *)
(* An event is its cursor, with its Gap flag once it was offered.  The     *)
(* filters of SubscribeOptions are left out: every subscription wants      *)
(* every event of the one scope.                                           *)
(***************************************************************************)
EXTENDS EventLog

CONSTANTS
    Options,        \* SubscribeOptions: [durable, slow], slow for OverflowCloseSlow
    Writer,         \* goroutines that perform store operations and publish
    Size,           \* the depth of a subscription's channel
    Closers,        \* the subscriptions whose owner may call Close
    Cancellers,     \* the subscriptions whose owner may cancel the context
    MaxEffects      \* bound on the effects of one store operation

ASSUME SizePositive == Size \in Nat \ {0}
ASSUME MaxEffectsIsNat == MaxEffects \in Nat
ASSUME WatcherFinite == IsFiniteSet(Watcher)
ASSUME GoroutinesApart == Writer \cap Watcher = {}
ASSUME OptionsTyped == Options \subseteq [durable : BOOLEAN, slow : BOOLEAN]

Sub == Watcher              \* subscriptions; a live one has no pump
Actor == Writer \cup Sub    \* who offers: writers, and durable goroutines

VARIABLES
    opts,       \* opts[s]: what Subscribe was called with
    life,       \* life[s]: how far Subscribe has come
    sub,        \* sub[s]: the Subscription: ch, done, err, gap, dropped
    loop,       \* loop[s]: the goroutine Subscribe starts, counted in Manager.wg
    startErr,   \* startErr[s]: what the goroutine's own finish will say
    ctx,        \* the subscriptions whose context has ended
    subs,       \* Manager.subs (byScope and anyScope hold the same)
    closing,    \* the subscriptions whose owner is between dropSub and finish
    job,        \* job[a]: where actor a is in publish or offer
    mgr,        \* how far Manager.Close has come
    fin,        \* the subscriptions Close has still to finish
    early,      \* history: the subscriptions that were open when Close was called
    got,        \* history: got[s], the events the consumer received
    sent        \* history: sent[s], the events put into the channel, in order

subVars == <<opts, life, sub, loop, startErr, ctx, subs, closing, job, mgr, fin, early, got, sent>>
vars == <<logVars, subVars>>

NewSub == [ch |-> <<>>, done |-> FALSE, err |-> "nil", gap |-> FALSE, dropped |-> 0]
Idle == [at |-> "Idle", todo |-> <<>>]
closed == mgr # "Open"          \* Manager.closed is closed for good
Live == {s \in Sub : ~ opts[s].durable}
Durable == Sub \ Live

Init ==
    /\ LogInit
    /\ opts \in [Sub -> Options]
    /\ life = [s \in Sub |-> "None"]
    /\ sub = [s \in Sub |-> NewSub]
    /\ loop = [s \in Sub |-> "None"]
    /\ startErr = [s \in Sub |-> "nil"]
    /\ ctx = {}
    /\ subs = {}
    /\ closing = {}
    /\ job = [a \in Actor |-> Idle]
    /\ mgr = "Open"
    /\ fin = {}
    /\ early = {}
    /\ got = [s \in Sub |-> <<>>]
    /\ sent = [s \in Sub |-> <<>>]
-----------------------------------------------------------------------------
(***************************************************************************)
(* Ending a subscription                                                   *)
(***************************************************************************)

\* A channel closed without the mutex every send holds.
muFreeIgnored(s) == TRUE

\* Subscription.mu is held across a step only by an offer that found the channel
\* full and is about to drop the oldest event.
muFree(s) == \A a \in Actor : job[a].at = "Drop" => Head(job[a].todo).s # s

\* closeLocked: the first to end a subscription says why.
closeLocked(r, err) ==
    IF r.done THEN r
    ELSE [r EXCEPT !.done = TRUE, !.err = IF @ = "nil" THEN err ELSE @]

\* finish, in the function sub.
finish(s, err) == [sub EXCEPT ![s] = closeLocked(@, err)]

ctxErr(s) == IF s \in ctx THEN "Canceled" ELSE "nil"
-----------------------------------------------------------------------------
(***************************************************************************)
(* Subscribe                                                               *)
(***************************************************************************)
SubscribeCheck(s) ==
    /\ life[s] = "None"
    /\ ~ closed
    /\ life' = [life EXCEPT ![s] = "Checked"]
    /\ UNCHANGED <<logVars, opts, sub, loop, startErr, ctx, subs, job, mgr, fin, early, got, sent, closing>>

\* A live subscription is filed in the registry under Manager.mu.
SubscribeLive(s) ==
    /\ s \in Live
    /\ life[s] = "Checked"
    /\ subs' = subs \cup {s}
    /\ life' = [life EXCEPT ![s] = "Filed"]
    /\ UNCHANGED <<logVars, opts, sub, loop, startErr, ctx, job, mgr, fin, early, got, sent, closing>>

\* startDurable asks the store for a stream instead.
SubscribeDurable(s) ==
    /\ s \in Durable
    /\ life[s] = "Checked"
    /\ Watch(s)
    /\ life' = [life EXCEPT ![s] = "Filed"]
    /\ UNCHANGED <<opts, sub, loop, startErr, ctx, subs, job, mgr, fin, early, got, sent, closing>>

\* Manager.wg.Add(1), and the goroutine.
SubscribeGo(s) ==
    /\ life[s] = "Filed"
    /\ life' = [life EXCEPT ![s] = "Open"]
    /\ loop' = [loop EXCEPT ![s] = IF s \in Live THEN "Run" ELSE "Spawned"]
    /\ UNCHANGED <<logVars, opts, sub, startErr, ctx, subs, job, mgr, fin, early, got, sent, closing>>
-----------------------------------------------------------------------------
(***************************************************************************)
(* The goroutine of a live subscription                                    *)
(***************************************************************************)

\* The context ended: dropSub; finish is left to do.
LoopCancelled(s) ==
    /\ s \in Live
    /\ loop[s] = "Run" /\ s \in ctx
    /\ subs' = subs \ {s}
    /\ startErr' = [startErr EXCEPT ![s] = ctxErr(s)]
    /\ loop' = [loop EXCEPT ![s] = "Leaving"]
    /\ UNCHANGED <<logVars, opts, life, sub, ctx, job, mgr, fin, early, got, sent, closing>>

\* A goroutine that does not watch Manager.closed.
LoopReleasedByOwner(s) ==
    /\ s \in Live
    /\ loop[s] = "Run" /\ sub[s].done
    /\ loop' = [loop EXCEPT ![s] = "Exited"]
    /\ UNCHANGED <<logVars, opts, life, sub, startErr, ctx, subs, job, mgr, fin, early, got, sent, closing>>

\* closeCh or Manager.closed: exit, and leave the rest to whoever closed it.
LoopReleased(s) ==
    /\ s \in Live
    /\ loop[s] = "Run" /\ (sub[s].done \/ closed)
    /\ loop' = [loop EXCEPT ![s] = "Exited"]
    /\ UNCHANGED <<logVars, opts, life, sub, startErr, ctx, subs, job, mgr, fin, early, got, sent, closing>>
-----------------------------------------------------------------------------
(***************************************************************************)
(* The goroutine of a durable subscription                                 *)
(***************************************************************************)

\* "defer s.finish(ctx.Err())" evaluates its argument here, as the goroutine starts.
LoopStarts(s) ==
    /\ loop[s] = "Spawned"
    /\ loop' = [loop EXCEPT ![s] = "Run"]
    /\ startErr' = [startErr EXCEPT ![s] = ctxErr(s)]
    /\ UNCHANGED <<logVars, opts, life, sub, ctx, subs, job, mgr, fin, early, got, sent, closing>>

\* An event arrives from the pump and is to be offered.
LoopReceives(s) ==
    /\ s \in Durable
    /\ loop[s] = "Run"
    /\ PumpSends(s)
    /\ job' = [job EXCEPT ![s] =
                [at |-> "Offer", todo |-> <<[s |-> s, c |-> Head(pump[s].batch)]>>]]
    /\ loop' = [loop EXCEPT ![s] = "Offering"]
    /\ UNCHANGED <<opts, life, sub, startErr, ctx, subs, mgr, fin, early, got, sent, closing>>

\* isDone, after the offer.
LoopChecks(s) ==
    /\ loop[s] = "Offering"
    /\ job[s] = Idle /\ muFree(s)
    /\ loop' = [loop EXCEPT ![s] = IF sub[s].done THEN "Leaving" ELSE "Run"]
    /\ UNCHANGED <<logVars, opts, life, sub, startErr, ctx, subs, job, mgr, fin, early, got, sent, closing>>

\* The stream ended, or closeCh, Manager.closed or the context did.
LoopLeaves(s) ==
    /\ s \in Durable
    /\ loop[s] = "Run"
    /\ PumpEnded(s) \/ sub[s].done \/ closed \/ s \in ctx
    /\ loop' = [loop EXCEPT ![s] = "Leaving"]
    /\ UNCHANGED <<logVars, opts, life, sub, startErr, ctx, subs, job, mgr, fin, early, got, sent, closing>>

\* The goroutine's finish, deferred in a durable one; then the deferred wg.Done.
LoopFinishes(s) ==
    /\ loop[s] = "Leaving" /\ muFree(s)
    /\ sub' = finish(s, startErr[s])
    /\ loop' = [loop EXCEPT ![s] = "Exited"]
    /\ UNCHANGED <<logVars, opts, life, startErr, ctx, subs, job, mgr, fin, early, got, sent, closing>>
-----------------------------------------------------------------------------
(***************************************************************************)
(* publish and offer                                                       *)
(***************************************************************************)

\* A facade operation: the Manager is open, the store commits k effects.  They
\* are published when this goroutine gets to it.
Operate(w, k) ==
    /\ job[w] = Idle
    /\ ~ closed
    /\ Record(k)
    /\ job' = [job EXCEPT ![w] = [at |-> "Publish", todo |-> [i \in 1..k |-> cursor + i]]]
    /\ UNCHANGED <<opts, life, sub, loop, startErr, ctx, subs, mgr, fin, early, got, sent, closing>>

\* publish: the targets are read under Manager.mu; then every effect, in order, is
\* offered to each of them, in the order a Go map yields.
Publish(w) ==
    /\ job[w].at = "Publish"
    /\ \E order \in Injection(1..Cardinality(subs), subs) :
          LET n == Len(order)
              todo == [i \in 1..(Len(job[w].todo) * n) |->
                        [s |-> order[((i - 1) % n) + 1],
                         c |-> job[w].todo[((i - 1) \div n) + 1]]]
          IN  job' = [job EXCEPT ![w] = IF todo = <<>> THEN Idle
                                        ELSE [at |-> "Offer", todo |-> todo]]
    /\ UNCHANGED <<logVars, opts, life, sub, loop, startErr, ctx, subs, mgr, fin, early, got, sent, closing>>

\* The actor is done with the offer at the head of its list.
nextOffer(j) ==
    IF Len(j.todo) = 1 THEN Idle ELSE [at |-> "Offer", todo |-> Tail(j.todo)]

push(s, c, gap) ==
    /\ sub' = [sub EXCEPT ![s].ch = Append(@, [c |-> c, gap |-> gap]), ![s].gap = FALSE]
    /\ sent' = [sent EXCEPT ![s] = Append(@, c)]

\* offer, to the end of its first select or, with OverflowCloseSlow, of the close.
OfferSends(a) ==
    /\ job[a].at = "Offer"
    /\ LET s == Head(job[a].todo).s
           c == Head(job[a].todo).c
       IN  /\ muFree(s)
           /\ \/ /\ sub[s].done
                 /\ job' = [job EXCEPT ![a] = nextOffer(@)]
                 /\ UNCHANGED <<sub, sent>>
              \/ /\ ~ sub[s].done /\ Len(sub[s].ch) < Size
                 /\ push(s, c, sub[s].gap)
                 /\ job' = [job EXCEPT ![a] = nextOffer(@)]
              \/ /\ ~ sub[s].done /\ Len(sub[s].ch) = Size /\ opts[s].slow
                 /\ sub' = finish(s, "Lagged")
                 /\ job' = [job EXCEPT ![a].at = "Deregister"]
                 /\ UNCHANGED sent
              \/ /\ ~ sub[s].done /\ Len(sub[s].ch) = Size /\ ~ opts[s].slow
                 /\ job' = [job EXCEPT ![a].at = "Drop"]
                 /\ UNCHANGED <<sub, sent>>
    /\ UNCHANGED <<logVars, opts, life, loop, startErr, ctx, subs, mgr, fin, early, got, closing>>

\* dropSub after the lock was released; a durable subscription is not in the registry.
OfferDeregisters(a) ==
    /\ job[a].at = "Deregister"
    /\ subs' = subs \ {Head(job[a].todo).s}
    /\ job' = [job EXCEPT ![a] = nextOffer(@)]
    /\ UNCHANGED <<logVars, opts, life, sub, loop, startErr, ctx, mgr, fin, early, got, sent, closing>>

\* The replacement event without its Gap flag.
OfferDropsSilently(a) ==
    /\ job[a].at = "Drop"
    /\ LET s == Head(job[a].todo).s
           rest == IF sub[s].ch = <<>> THEN <<>> ELSE Tail(sub[s].ch)
       IN  /\ sub' = [sub EXCEPT ![s] = [@ EXCEPT
                        !.ch = Append(rest, [c |-> Head(job[a].todo).c, gap |-> FALSE]),
                        !.dropped = sub[s].dropped + 1, !.gap = FALSE]]
           /\ sent' = [sent EXCEPT ![s] = Append(@, Head(job[a].todo).c)]
    /\ job' = [job EXCEPT ![a] = nextOffer(@)]
    /\ UNCHANGED <<logVars, opts, life, loop, startErr, ctx, subs, mgr, fin, early, got, closing>>

\* The rest of offer under OverflowDropOldest: drop the oldest event, if the
\* consumer has not taken it meanwhile, and take its place.
OfferDrops(a) ==
    /\ job[a].at = "Drop"
    /\ LET s == Head(job[a].todo).s
           rest == IF sub[s].ch = <<>> THEN <<>> ELSE Tail(sub[s].ch)
           room == Len(rest) < Size
       IN  /\ sub' = [sub EXCEPT ![s] = [@ EXCEPT
                        !.ch = IF room
                               THEN Append(rest, [c |-> Head(job[a].todo).c, gap |-> TRUE])
                               ELSE rest,
                        !.dropped = sub[s].dropped + 1, !.gap = ~ room]]
           /\ sent' = [sent EXCEPT ![s] = Append(@, Head(job[a].todo).c)]
    /\ job' = [job EXCEPT ![a] = nextOffer(@)]
    /\ UNCHANGED <<logVars, opts, life, loop, startErr, ctx, subs, mgr, fin, early, got, closing>>
-----------------------------------------------------------------------------
(***************************************************************************)
(* The owner of a subscription                                             *)
(***************************************************************************)

\* The consumer takes an event; what was buffered survives the close.
Receive(s) ==
    /\ sub[s].ch # <<>>
    /\ got' = [got EXCEPT ![s] = Append(@, Head(sub[s].ch))]
    /\ sub' = [sub EXCEPT ![s].ch = Tail(@)]
    /\ UNCHANGED <<logVars, opts, life, loop, startErr, ctx, subs, job, mgr, fin, early, sent, closing>>

\* Subscription.Close as far as dropSub, under Manager.mu.  Called again, or on a
\* subscription that has ended and left the registry, it does nothing.
CloseSub(s) ==
    /\ s \in Closers \ closing
    /\ life[s] = "Open" /\ (~ sub[s].done \/ s \in subs)
    /\ subs' = subs \ {s}
    /\ closing' = closing \cup {s}
    /\ UNCHANGED <<logVars, opts, life, sub, loop, startErr, ctx, job, mgr, fin, early, got, sent>>

\* The rest of it: finish, under the subscription's own mutex.
CloseSubFinishes(s) ==
    /\ s \in closing /\ muFree(s)
    /\ sub' = finish(s, "nil")
    /\ closing' = closing \ {s}
    /\ UNCHANGED <<logVars, opts, life, loop, startErr, ctx, subs, job, mgr, fin, early, got, sent>>

CancelCtx(s) ==
    /\ s \in Cancellers \ ctx
    /\ life[s] # "None"
    /\ ctx' = ctx \cup {s}
    /\ UNCHANGED <<logVars, opts, life, sub, loop, startErr, subs, job, mgr, fin, early, got, sent, closing>>
-----------------------------------------------------------------------------
(***************************************************************************)
(* Manager.Close                                                           *)
(***************************************************************************)
CloseStarts ==
    /\ mgr \in {"Open", "GaveUp"}
    /\ mgr' = "Draining"
    /\ early' = IF closed THEN early ELSE {s \in Sub : life[s] = "Open"}
    /\ UNCHANGED <<logVars, opts, life, sub, loop, startErr, ctx, subs, job, fin, got, sent, closing>>

\* Close's own context ends first: it returns, and the subscriptions stay.
CloseGivesUp ==
    /\ mgr = "Draining"
    /\ mgr' = "GaveUp"
    /\ UNCHANGED <<logVars, opts, life, sub, loop, startErr, ctx, subs, job, fin, early, got, sent, closing>>

\* Manager.wg has come down to zero; the registry is emptied.
CloseDrained ==
    /\ mgr = "Draining"
    /\ \A s \in Sub : loop[s] \in {"None", "Exited"}
    /\ mgr' = "Finishing"
    /\ fin' = subs
    /\ subs' = {}
    /\ UNCHANGED <<logVars, opts, life, sub, loop, startErr, ctx, job, early, got, sent, closing>>

CloseFinishes(s) ==
    /\ mgr = "Finishing"
    /\ s \in fin /\ muFree(s)
    /\ sub' = finish(s, "Closed")
    /\ fin' = fin \ {s}
    /\ UNCHANGED <<logVars, opts, life, loop, startErr, ctx, subs, job, mgr, early, got, sent, closing>>

CloseReturns ==
    /\ mgr = "Finishing" /\ fin = {}
    /\ mgr' = "Closed"
    /\ UNCHANGED <<logVars, opts, life, sub, loop, startErr, ctx, subs, job, fin, early, got, sent, closing>>
-----------------------------------------------------------------------------
(***************************************************************************)
(* The specification                                                       *)
(***************************************************************************)
PumpSteps(d) ==
    /\ PumpRead(d) \/ PumpWakes(d) \/ (d \in ctx /\ PumpStops(d))
    /\ UNCHANGED subVars

LoopSteps(s) ==
    \/ LoopCancelled(s) \/ LoopReleased(s)
    \/ LoopStarts(s) \/ LoopReceives(s) \/ LoopChecks(s) \/ LoopLeaves(s) \/ LoopFinishes(s)

OfferSteps(a) == OfferSends(a) \/ OfferDeregisters(a) \/ OfferDrops(a)

CloseSteps == CloseDrained \/ CloseReturns \/ \E s \in Sub : CloseFinishes(s)

Next ==
    \/ \E s \in Sub :
          \/ SubscribeCheck(s) \/ SubscribeLive(s) \/ SubscribeDurable(s) \/ SubscribeGo(s)
          \/ LoopSteps(s)
          \/ Receive(s) \/ CloseSub(s) \/ CloseSubFinishes(s) \/ CancelCtx(s)
    \/ \E d \in Sub : PumpSteps(d)
    \/ \E w \in Writer : Publish(w) \/ \E k \in 1..MaxEffects : Operate(w, k)
    \/ \E a \in Actor : OfferSteps(a)
    \/ CloseStarts \/ CloseGivesUp \/ CloseSteps

Spec == Init /\ [][Next]_vars

\* Goroutines that can run do.  Nothing is assumed of consumers, contexts, callers
\* of Close or of the operations that produce events.
Fairness ==
    /\ \A d \in Sub : WF_vars(PumpSteps(d))
    /\ \A s \in Sub : WF_vars(LoopSteps(s))
    /\ \A a \in Actor : WF_vars(OfferSteps(a))
    /\ WF_vars(CloseSteps)

FairSpec == Spec /\ Fairness
-----------------------------------------------------------------------------
(***************************************************************************)
(* Properties                                                              *)
(***************************************************************************)

\* Everything that went into the channel and was not dropped again.
Stream(s) == got[s] \o sub[s].ch
Cursors(q) == {q[i].c : i \in DOMAIN q}
Lost(s) == Range(sent[s]) \ Cursors(Stream(s))

\* A loss is never silent: an event that was dropped is followed, in the channel or
\* in what the consumer already has, by one with Gap set; with OverflowCloseSlow
\* nothing is dropped at all, the subscription ends as lagged (event.go
\* OverflowPolicy), however receives and offers interleave.
LossIsAnnounced ==
    \A s \in Sub :
        IF opts[s].slow THEN Lost(s) = {}
        ELSE \A c \in Lost(s) :
                \E i \in DOMAIN sent[s], j \in DOMAIN Stream(s) :
                    /\ Stream(s)[j].gap /\ Stream(s)[j].c = sent[s][i]
                    /\ \A k \in DOMAIN sent[s] : sent[s][k] = c => k < i

\* What a durable subscription is sent is a run of consecutive cursors: nothing the
\* log appended after the start is skipped or repeated, however reads of the log,
\* appends and compactions interleave (store.go DurableEventStream, "rather than a
\* stream with a silent hole in it").
DurableIsGapless ==
    \A d \in Durable : \A i \in DOMAIN sent[d] : sent[d][i] = sent[d][1] + i - 1

\* Neither tier loses an event without saying so.
NothingIsLostSilently == LossIsAnnounced /\ DurableIsGapless

\* A send never meets a closed channel, which would panic: an offer that is between
\* its two selects finds the subscription still open (subscribe.go finish).
NeverSendsOnClosed ==
    \A a \in Actor : job[a].at = "Drop" => ~ sub[Head(job[a].todo).s].done

\* When Manager.Close has returned, every subscription that was open when it was called
\* is out of the registry, its goroutine has exited, and it has ended; but for one that
\* its owner has taken out of the registry and not finished yet (subscribe.go Close),
\* which Manager.Close no longer finds (G10).
CloseEndsSubscriptions ==
    mgr = "Closed" =>
        \A s \in early :
            /\ loop[s] = "Exited" /\ s \notin subs
            /\ sub[s].done \/ s \in closing

\* Ending a subscription, by its owner or by Close, races with offers and does no harm.
CloseIsClean == NeverSendsOnClosed /\ CloseEndsSubscriptions

\* Close returns whatever the consumers do: no goroutine it waits for is ever stuck
\* behind a channel nobody reads.
CloseReturnsAtLast == []<>(mgr \notin {"Draining", "Finishing"})

\* A durable subscription is never left behind: what is in the log when its goroutine
\* runs is offered to it, or the subscription ends.
DurableCatchesUp ==
    \A d \in Sub, c \in 1..MaxCursor :
        d \in Durable /\ loop[d] = "Run" /\ pump[d].next <= c /\ c <= cursor
            ~> sub[d].done \/ c \in Range(sent[d])
-----------------------------------------------------------------------------
(***************************************************************************)
(* What the documentation says and the code does not do                    *)
(***************************************************************************)

\* manager.go Close: "It returns only once they have all exited, so a caller can rely
\* on no callback firing and no channel being written after it returns", said of the
\* subscriptions that were open when it was called.
NothingIsWrittenAfterClose ==
    [][mgr = "Closed" => \A s \in early : sent'[s] = sent[s]]_vars

\* storage/memory/watch.go Watch: "a subscriber that falls behind the window is told
\* so with ErrCursorExpired".  (Nobody closes or cancels in this run.)
FallingBehindIsTold ==
    \A d \in Durable :
        pump[d].at = "Expired" /\ loop[d] = "Exited" /\ ~ closed =>
            sub[d].err \in {"CursorExpired", "Lagged"}
=============================================================================
