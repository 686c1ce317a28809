------------------------------ MODULE EventBus ------------------------------
(***************************************************************************)
(* core.EventBus (bus.go): publishers send to every subscriber's buffered  *)
(* channel under the read lock and never block; subscribing, cancelling    *)
(* and closing take the write lock.  Channel operations and atomic loads,  *)
(* adds and compare-and-swaps are steps of their own.                      *)
(***************************************************************************)
EXTENDS Integers, Sequences, FiniteSets

CONSTANTS
    Publishers,      \* goroutines that publish
    Subs,            \* subscriptions ever made, each under its own id
    Cap,             \* the channels' capacity (1024)
    MaxPublish,      \* bound: events per publisher
    DropThreshold    \* 0 disables the warning

ASSUME EventBusAssumption ==
    /\ Cap \in Nat \ {0} /\ MaxPublish \in Nat /\ DropThreshold \in Nat

VARIABLES
    subs,        \* b.subs
    closed,      \* b.closed
    chan,        \* chan[s]: the contents of s's channel
    chClosed,    \* the channels that are closed
    published,   \* b.published
    dropped,     \* b.dropped
    lastWarned,  \* b.lastWarnedAtDrop
    pc,          \* pc[p]: where publisher p is
    sent,        \* sent[p]: the number of the event p publishes
    todo,        \* todo[p]: the subscribers p has still to visit
    total, last, \* p's copies of dropped and lastWarnedAtDrop
    waiting,     \* writers waiting for b.mu, which keep new readers out
    done,        \* writers that have returned
    warned,      \* the totals OnDropThreshold was called with
    got          \* got[s]: what subscriber s has received

vars == <<subs, closed, chan, chClosed, published, dropped, lastWarned, pc,
          sent, todo, total, last, waiting, done, warned, got>>

busVars == <<subs, closed, chClosed>>
locals == <<total, last>>
counters == <<published, dropped, lastWarned, warned>>

Writers == {<<op, s>> : op \in {"subscribe", "cancel"}, s \in Subs} \cup {<<"close", 0>>}

\* An event is told apart by its publisher and its number.
Events == Publishers \X Nat

Holding == {"loop", "total", "last", "cas"}     \* between RLock and RUnlock

Readers == {p \in Publishers : pc[p] \in Holding}

Init ==
    /\ subs = {} /\ closed = FALSE
    /\ chan = [s \in Subs |-> << >>] /\ chClosed = {}
    /\ published = 0 /\ dropped = 0 /\ lastWarned = 0
    /\ pc = [p \in Publishers |-> "idle"]
    /\ sent = [p \in Publishers |-> 0]
    /\ todo = [p \in Publishers |-> {}]
    /\ total = [p \in Publishers |-> 0] /\ last = [p \in Publishers |-> 0]
    /\ waiting = {} /\ done = {}
    /\ warned = << >>
    /\ got = [s \in Subs |-> << >>]

-----------------------------------------------------------------------------
(* Publish.                                                                *)

\* published.Add(1), before the lock.
PublishCount(p) ==
    /\ pc[p] = "idle" /\ sent[p] < MaxPublish
    /\ published' = published + 1
    /\ pc' = [pc EXCEPT ![p] = "lock"]
    /\ sent' = [sent EXCEPT ![p] = @ + 1]
    /\ UNCHANGED <<busVars, chan, dropped, lastWarned, todo, locals, waiting, done, warned, got>>

PublishLock(p) ==
    /\ pc[p] = "lock" /\ waiting = {}
    /\ pc' = [pc EXCEPT ![p] = IF closed THEN "idle" ELSE "loop"]
    /\ todo' = [todo EXCEPT ![p] = IF closed THEN {} ELSE subs]
    /\ UNCHANGED <<busVars, chan, counters, sent, locals, waiting, done, got>>

\* Mutants: one event more than the channel holds; the subscriber is visited twice.
SendBeyondCap(p, s) ==
    /\ pc[p] = "loop" /\ s \in todo[p]
    /\ Len(chan[s]) <= Cap
    /\ chan' = [chan EXCEPT ![s] = Append(@, <<p, sent[p]>>)]
    /\ todo' = [todo EXCEPT ![p] = @ \ {s}]
    /\ UNCHANGED <<busVars, counters, pc, sent, locals, waiting, done, got>>
SendAgain(p, s) ==
    /\ pc[p] = "loop" /\ s \in todo[p]
    /\ Len(chan[s]) < Cap
    /\ chan' = [chan EXCEPT ![s] = Append(@, <<p, sent[p]>>)]
    /\ UNCHANGED <<busVars, counters, pc, sent, todo, locals, waiting, done, got>>

\* The select statement, one subscriber after the other in map order.
PublishSend(p, s) ==
    /\ pc[p] = "loop" /\ s \in todo[p]
    /\ Len(chan[s]) < Cap
    /\ chan' = [chan EXCEPT ![s] = Append(@, <<p, sent[p]>>)]
    /\ todo' = [todo EXCEPT ![p] = @ \ {s}]
    /\ UNCHANGED <<busVars, counters, pc, sent, locals, waiting, done, got>>

\* Mutant: the send blocks until there is room.
NeverDrop(p, s) ==
    /\ pc[p] = "loop" /\ s \in todo[p]
    /\ Len(chan[s]) >= Cap
    /\ UNCHANGED vars

PublishDrop(p, s) ==
    /\ pc[p] = "loop" /\ s \in todo[p]
    /\ Len(chan[s]) >= Cap
    /\ dropped' = dropped + 1
    /\ todo' = [todo EXCEPT ![p] = @ \ {s}]
    /\ pc' = [pc EXCEPT ![p] = IF DropThreshold > 0 THEN "total" ELSE @]
    /\ UNCHANGED <<busVars, chan, published, lastWarned, sent, locals, waiting, done, warned, got>>

\* total := b.dropped.Load()
LoadTotal(p) ==
    /\ pc[p] = "total"
    /\ total' = [total EXCEPT ![p] = dropped]
    /\ pc' = [pc EXCEPT ![p] = "last"]
    /\ UNCHANGED <<busVars, chan, counters, sent, todo, last, waiting, done, got>>

NewBoundary(tot, lst) == tot \div DropThreshold > lst \div DropThreshold

\* last := b.lastWarnedAtDrop.Load(), and the test for a new boundary.
LoadLast(p) ==
    /\ pc[p] = "last"
    /\ last' = [last EXCEPT ![p] = lastWarned]
    /\ pc' = [pc EXCEPT ![p] = IF NewBoundary(total[p], lastWarned) THEN "cas" ELSE "loop"]
    /\ UNCHANGED <<busVars, chan, counters, sent, todo, total, waiting, done, got>>

\* Mutant: a plain store.
WarnAnyway(p) ==
    /\ pc[p] = "cas"
    /\ lastWarned' = total[p]
    /\ warned' = Append(warned, total[p])
    /\ pc' = [pc EXCEPT ![p] = "loop"]
    /\ UNCHANGED <<busVars, chan, published, dropped, sent, todo, locals, waiting, done, got>>

\* CompareAndSwap, and the callback if it succeeded.
Warn(p) ==
    /\ pc[p] = "cas"
    /\ IF lastWarned = last[p]
       THEN /\ lastWarned' = total[p]
            /\ warned' = Append(warned, total[p])
       ELSE UNCHANGED <<lastWarned, warned>>
    /\ pc' = [pc EXCEPT ![p] = "loop"]
    /\ UNCHANGED <<busVars, chan, published, dropped, sent, todo, locals, waiting, done, got>>

PublishUnlock(p) ==
    /\ pc[p] = "loop" /\ todo[p] = {}
    /\ pc' = [pc EXCEPT ![p] = "idle"]
    /\ UNCHANGED <<busVars, chan, counters, sent, todo, locals, waiting, done, got>>

PublishStep(p) ==
    \/ PublishLock(p)
    \/ \E s \in Subs : PublishSend(p, s) \/ PublishDrop(p, s)
    \/ LoadTotal(p) \/ LoadLast(p) \/ Warn(p)
    \/ PublishUnlock(p)

-----------------------------------------------------------------------------
(* The writers.                                                            *)

\* A call to b.mu.Lock().  A subscription is cancelled after it was made.
Call(w) ==
    /\ w \notin waiting \cup done
    /\ w[1] = "cancel" => <<"subscribe", w[2]>> \in done
    /\ waiting' = waiting \cup {w}
    /\ UNCHANGED <<busVars, chan, counters, pc, sent, todo, locals, done, got>>

\* Mutant: the lock does not wait for the readers.
GrantedAtOnce(w) ==
    /\ w \in waiting
    /\ waiting' = waiting \ {w}
    /\ done' = done \cup {w}
    /\ UNCHANGED <<chan, counters, pc, sent, todo, locals, got>>

\* The lock is granted: no reader is left.
Granted(w) ==
    /\ w \in waiting /\ Readers = {}
    /\ waiting' = waiting \ {w}
    /\ done' = done \cup {w}
    /\ UNCHANGED <<chan, counters, pc, sent, todo, locals, got>>

\* On a closed bus the subscriber gets a closed channel.
SubscribeWithCancel(s) ==
    /\ Granted(<<"subscribe", s>>)
    /\ subs' = IF closed THEN subs ELSE subs \cup {s}
    /\ chClosed' = IF closed THEN chClosed \cup {s} ELSE chClosed
    /\ UNCHANGED closed

\* The channel stays open: its reader has gone.
Cancel(s) ==
    /\ Granted(<<"cancel", s>>)
    /\ subs' = subs \ {s}
    /\ UNCHANGED <<closed, chClosed>>

Close ==
    /\ Granted(<<"close", 0>>)
    /\ closed' = TRUE
    /\ chClosed' = chClosed \cup subs
    /\ subs' = {}

Write == Close \/ \E s \in Subs : SubscribeWithCancel(s) \/ Cancel(s)

Receive(s) ==
    /\ chan[s] # << >>
    /\ got' = [got EXCEPT ![s] = Append(@, Head(chan[s]))]
    /\ chan' = [chan EXCEPT ![s] = Tail(@)]
    /\ UNCHANGED <<busVars, counters, pc, sent, todo, locals, waiting, done>>

Next ==
    \/ \E p \in Publishers : PublishCount(p) \/ PublishStep(p)
    \/ \E w \in Writers : Call(w)
    \/ Write
    \/ \E s \in Subs : Receive(s)

Spec == Init /\ [][Next]_vars

\* Goroutines inside Publish keep running and the mutex is handed over.
\* Nothing is assumed of the subscribers: they may never receive.
Fairness ==
    /\ \A p \in Publishers : WF_vars(PublishStep(p))
    /\ WF_vars(Write)

FairSpec == Spec /\ Fairness

-----------------------------------------------------------------------------
(* Properties.                                                             *)

\* The state of the bus is well formed and no channel exceeds its capacity.
TypeOK ==
    /\ subs \subseteq Subs /\ chClosed \subseteq Subs /\ closed \in BOOLEAN
    /\ chan \in [Subs -> Seq(Events)] /\ got \in [Subs -> Seq(Events)]
    /\ \A s \in Subs : Len(chan[s]) <= Cap
    /\ published \in Nat /\ dropped \in Nat /\ lastWarned \in Nat
    /\ pc \in [Publishers -> {"idle", "lock"} \cup Holding]
    /\ sent \in [Publishers -> 0 .. MaxPublish]
    /\ todo \in [Publishers -> SUBSET Subs]
    /\ total \in [Publishers -> Nat] /\ last \in [Publishers -> Nat]
    /\ waiting \subseteq Writers /\ done \subseteq Writers
    /\ warned \in Seq(Nat)

\* Publish never sends on a closed channel, which would panic: every channel a
\* publisher has still to visit is subscribed and open, however subscriptions
\* are cancelled and the bus is closed around it.
NoSendOnClosed ==
    \A p \in Readers : \A s \in todo[p] : s \in subs /\ s \notin chClosed

\* A subscriber sees the events of one publisher in the order they were
\* published (with gaps where its channel was full).
PublisherOrder ==
    \A s \in Subs :
        LET seen == got[s] \o chan[s]
        IN  \A i, j \in DOMAIN seen :
                (i < j /\ seen[i][1] = seen[j][1]) => seen[i][2] < seen[j][2]

\* Concurrent droppers warn at most once per threshold boundary: the boundary
\* of every warning is beyond that of the one before.
OneWarningPerBoundary ==
    \A i, j \in DOMAIN warned :
        i < j => warned[i] \div DropThreshold < warned[j] \div DropThreshold

\* Publish returns even if no subscriber ever receives: the engine loop may
\* publish to the bus it alone drains.
PublishReturns ==
    \A p \in Publishers : (pc[p] # "idle") ~> (pc[p] = "idle")

\* A writer gets the lock although publishers keep coming.
WritersReturn == \A w \in Writers : (w \in waiting) ~> (w \in done)
=============================================================================
