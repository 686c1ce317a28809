------------------------------ MODULE OrderFlow ------------------------------
(***************************************************************************)
(* The life of an order through the whole program:                         *)
(*                                                                         *)
(*   strategy -> submitIntents -> ledger (provisional) -> executor queue   *)
(*     -> worker -> HTTP post -> exchange -> WebSocket -> executor         *)
(*     -> event bus -> engine loop -> ledger (reservation, fill, release)  *)
(*                                                                         *)
(* Goroutines: the engine loop, the executor's worker, the WebSocket       *)
(* consumer, the cleanup ticker and the reconcile loop.  A step is one     *)
(* critical section (or one channel operation) of one of them.  The        *)
(* process may die at any step; it restarts from what the exchange tells.  *)
(***************************************************************************)
EXTENDS OrderTerms, ReconcileOps, ExecutorOps, SequencesExt

CONSTANTS
    Malformed,      \* intents validatePlacement refuses after the reservation
    Plans,          \* the plans a behaviour may follow, see Plan
    Legs,           \* Legs[p]: the two orders a SPLIT or MERGE p is booked as
    TradePrices,
    QueueCap,       \* ExecutionQueueSize
    BusCap,         \* the subscriber channel's capacity
    InOrder,        \* TRUE: the messages about one order arrive as sent
    MaxDups,        \* how many trade messages are delivered twice
    FaultyPost,     \* TRUE: a post may fail after the exchange took the order
    MayFail,        \* TRUE: a matched trade may fail to settle
    MayCancel,      \* TRUE: the exchange may cancel open orders
    MayForget,      \* TRUE: the 30 s and 10 min lifetimes may elapse
    Reconciling     \* TRUE: the reconcile loop runs

LegIds == UNION {{Legs[p][1], Legs[p][2]} : p \in DOMAIN Legs}

Actions == {"PLACE", "CANCEL", "SPLIT", "MERGE"}

Intents == [Action : {"PLACE", "CANCEL"}, OrderID : Ids \ LegIds]
           \cup [Action : {"SPLIT", "MERGE"}, OrderID : DOMAIN Legs]

\* batches: what the strategy submits, each batch at most once, in any order;
\* byHand: orders the user places on the exchange; dryRun: Executor.DryRun;
\* crashes: how often the process dies at most; overmatch: how far a match may
\* exceed what is left of its order.
Plan == [batches : SUBSET Seq(Intents), byHand : SUBSET External, dryRun : BOOLEAN,
         crashes : Nat, overmatch : Nat]

ASSUME OrderFlowAssumption ==
    /\ IsFiniteSet(Ids) /\ Malformed \subseteq Ids
    /\ NoIntent \notin Ids /\ NoOrder \notin Ids
    /\ Legs \in [DOMAIN Legs -> Ids \X Ids]
    /\ External \cap LegIds = {}
    /\ \A p \in Plans :
        /\ p \in Plan
        /\ \A batch \in p.batches : \A in \in Range(batch) :
             /\ in.Action = "PLACE" => in.OrderID \notin External
             /\ p.dryRun => in.Action \in {"PLACE", "CANCEL"}
    /\ TradePrices \subseteq Prices
    /\ QueueCap \in Nat \ {0} /\ BusCap \in Nat \ {0}
    /\ MaxDups \in Nat
    /\ {InOrder, FaultyPost, MayFail, MayCancel, MayForget, Reconciling} \subseteq BOOLEAN

VARIABLES
    ledger,      \* state.State
    accepted,    \* runtime.Engine.acceptedOrders
    finalized,   \* runtime.Engine.finalized
    pending,     \* runtime.Engine.pendingByOrder (no entry: the empty sequence)
    loop,        \* the engine loop: events being replayed, order being closed
    tracked,     \* Executor.tracked
    queue,       \* Executor.queue, of batches of intents
    worker,      \* the executor's worker: rest of the batch, events to publish
    wsOut,       \* events the WebSocket consumer is about to publish
    bus,         \* the engine's subscription channel
    exch,        \* exch[o]: the exchange's view of o
    trades,      \* trades[o]: its matches, in order
    ws,          \* WebSocket messages under way
    recon,       \* the reconcile loop: what it fetched, if anything
    boot,        \* Engine.Start up to the loops: how far, and what it fetched
    crashes,     \* how often the process died
    plan,        \* the plan this behaviour follows
    asked,       \* the batches submitted so far
    dups,        \* messages delivered twice so far
    harmed       \* orders that met one of the program's known limits: an event
                 \* dropped by the bus or expired in the buffer, an Accepted
                 \* without funds or after the order was filled, a trade heard
                 \* after its order had ended (cancelled or complete), a fill of
                 \* more than the order holds, a trade that failed, a cancel the
                 \* queue had no room for, a crash while it was alive

engineVars == <<accepted, finalized, pending, loop>>
executorVars == <<tracked, queue, worker, wsOut>>
exchangeVars == <<exch, trades, ws, dups>>
bootVars == <<boot, crashes, plan>>
vars == <<ledger, engineVars, executorVars, bus, exchangeVars, recon, bootVars, asked, harmed>>

\* batch: intents still to do; todo: events to publish, tracked: whether the
\* first one's order is tracked already; legs: orders the relayer is asked about.
Idle == [batch |-> << >>, todo |-> << >>, tracked |-> FALSE, legs |-> << >>]
NoFetch == [at |-> "idle", orders |-> << >>, positions |-> << >>]
\* cash: the balance read from the chain; balance: the ledger's, read before
\* Restore; missed: "funds" when a start took the balance for 0 or did not see a
\* trade between its two requests, else "exchange" when a request failed.
Booted == [at |-> "up", cash |-> 0, orders |-> << >>, positions |-> << >>,
           balance |-> <<0, 0>>, missed |-> "nothing"]

\* The engine loop, the executor and its WebSocket run.
Up == boot.at = "up"

\* The first start is over: an account without open orders was restored.
Init ==
    /\ ledger = OpeningLedger
    /\ accepted = {} /\ finalized = {}
    /\ pending = [o \in Ids |-> << >>]
    /\ loop = [replay |-> << >>, closing |-> NoOrder]
    /\ tracked = << >> /\ queue = << >> /\ worker = Idle /\ wsOut = << >>
    /\ bus = << >>
    /\ exch = [o \in Ids |-> "none"]
    /\ trades = [o \in Ids |-> << >>]
    /\ ws = << >>
    /\ recon = NoFetch
    /\ boot = Booted /\ crashes = 0 /\ plan \in Plans
    /\ asked = {} /\ dups = 0 /\ harmed = {}

-----------------------------------------------------------------------------
(* The event bus: a publication that finds the channel full is dropped.    *)

\* Mutant: the channel grows without bound.
PublishUnbounded(out, refused) ==
    /\ bus' = bus \o out
    /\ harmed' = harmed \cup refused

Publish(out, refused) ==
    LET room    == BusCap - Len(bus)
        sent    == SubSeq(out, 1, IF Len(out) <= room THEN Len(out) ELSE room)
        dropped == {out[n] : n \in (Len(sent) + 1) .. Len(out)}
    IN  /\ bus' = bus \o sent
        /\ harmed' = harmed \cup refused
                            \cup {o \in Ids : \E e \in dropped :
                                        o \in {e.OrderID, e.ParentOrderID}}

\* The elements of s that are in S, in their order.
Among(s, S) ==
    LET kept[n \in 0 .. Len(s)] == IF n = 0 THEN << >>
                                   ELSE IF s[n] \in S THEN Append(kept[n - 1], s[n])
                                   ELSE kept[n - 1]
    IN  kept[Len(s)]

\* The intents of a batch for one action, and the orders they name.
Doing(batch, actions) == Among(batch, {in \in Range(batch) : in.Action \in actions})

OrdersOf(batch, action) ==
    LET group == Doing(batch, {action})
    IN  [n \in DOMAIN group |-> group[n].OrderID]

\* A full queue rejects the whole batch on the spot: a CANCEL's rejection
\* names its order, the others' their intent.
rejectBatch(batch) ==
    [n \in DOMAIN batch |->
        CASE batch[n].Action = "PLACE"  -> RejectedIntent(batch[n].OrderID)
          [] batch[n].Action = "CANCEL" -> Event("Rejected", batch[n].OrderID, NoIntent, 0, 0)
          [] OTHER                      -> RejectedIntent(NoIntent)]

\* Ids made up from the clock are new, and differ from each other.
Fresh(orders) ==
    \A m, n \in DOMAIN orders : exch[orders[n]] = "none" /\ (orders[m] = orders[n] => m = n)

\* A dry run accepts and fills every placement on the spot, at its own price;
\* the model books these paper trades in exch and trades.
ExecuteDryRun(batch) ==
    LET placed   == OrdersOf(batch, "PLACE")
        paper    == [k \in 1 .. (2 * Len(placed)) |->
            LET o == placed[(k + 1) \div 2]
            IN  IF k % 2 = 1 THEN Event("Accepted", o, o, 0, Order[o].Price)
                ELSE Event("Filled", o, o, Order[o].RequestedSize, Order[o].Price)]
    IN  /\ Fresh(placed)
        /\ Publish(paper, {})
        /\ exch' = [o \in Ids |-> IF o \in Range(placed) THEN "closed" ELSE exch[o]]
        /\ trades' = [o \in Ids |-> IF o \notin Range(placed) THEN trades[o]
                        ELSE <<[size |-> Order[o].RequestedSize, price |-> Order[o].Price,
                                st |-> "MINED"]>>]
        /\ UNCHANGED queue

\* Malformed placements are rejected one by one, the rest is queued.
ExecuteLive(batch) ==
    LET malformed   == {in \in Range(batch) : in.Action = "PLACE" /\ in.OrderID \in Malformed}
        validated   == Among(batch, Range(batch) \ malformed)
        invalid     == Among(batch, malformed)
        full        == validated # << >> /\ Len(queue) >= QueueCap
        refused     == IF full THEN Range(OrdersOf(validated, "CANCEL")) ELSE {}
    IN  /\ queue' = IF full \/ validated = << >> THEN queue ELSE Append(queue, validated)
        /\ Publish(rejectBatch(invalid) \o (IF full THEN rejectBatch(validated) ELSE << >>),
                   refused)
        /\ UNCHANGED <<exch, trades>>

Execute(batch) == IF plan.dryRun THEN ExecuteDryRun(batch) ELSE ExecuteLive(batch)

-----------------------------------------------------------------------------
(* The engine loop.  It submits intents between two events.                *)

LoopFree == loop.replay = << >> /\ loop.closing = NoOrder

\* One intent of submitIntents: a PLACE must find its funds first.
reserveIntent(acc, in) ==
    LET q == Order[in.OrderID]
        r == TryReserveProvisional(acc.st, in.OrderID, q.TokenID, q.Side, q.Price,
                                   q.RequestedSize)
    IN  IF in.Action # "PLACE" THEN [acc EXCEPT !.submit = Append(@, in)]
        ELSE IF r.err # "nil" THEN acc
        ELSE [st |-> r.st, submit |-> Append(acc.submit, in)]

\* A batch that passed Risk.Check; the strategy cancels orders it sees open.
submitIntents(batch) ==
    /\ Up /\ LoopFree
    /\ batch \in plan.batches \ asked
    /\ \A in \in Range(batch) : in.Action = "CANCEL" => in.OrderID \in DOMAIN ledger.Orders
    /\ LET r == FoldLeft(reserveIntent, [st |-> ledger, submit |-> << >>], batch)
       IN  /\ ledger' = r.st
           /\ Execute(r.submit)
    /\ asked' = asked \cup {batch}
    /\ UNCHANGED <<engineVars, tracked, worker, wsOut, ws, dups, recon, bootVars>>

\* Mutant: the order stays among the accepted ones.
FinalizeKeepsAccepted(o) ==
    /\ accepted' = accepted
    /\ finalized' = finalized \cup {o}
    /\ pending' = [pending EXCEPT ![o] = << >>]

finalizeOrder(o) ==
    /\ accepted' = accepted \ {o}
    /\ finalized' = finalized \cup {o}
    /\ pending' = [pending EXCEPT ![o] = << >>]

\* The second confirmation of an order whose reservation is gone already: filled
\* in full by a trade message heard before the size was known, or reconciled away.
Revives(o) == o \in accepted /\ o \notin DOMAIN ledger.Orders

\* Accepted: mark, attach, then replay what was buffered for the order.
HandleAccepted(e, rest) ==
    LET o == e.OrderID
        q == Order[o]
        r == AttachOrder(ledger, e.ParentOrderID, o, q.TokenID, q.Side, q.Price,
                         q.RequestedSize)
    IN  /\ accepted' = accepted \cup {o}
        /\ ledger' = r.st
        /\ pending' = [pending EXCEPT ![o] = << >>]
        /\ loop' = [replay |-> pending[o] \o rest, closing |-> NoOrder]
        /\ harmed' = IF r.err = "insufficient" \/ Revives(o) THEN harmed \cup {o} ELSE harmed
        /\ UNCHANGED finalized

\* Mutant: an event that is early is ignored.
DropEarly(e, rest) ==
    /\ loop' = [replay |-> rest, closing |-> NoOrder]
    /\ UNCHANGED <<ledger, accepted, finalized, pending, harmed>>

bufferExecution(e, rest) ==
    /\ pending' = [pending EXCEPT ![e.OrderID] = Append(@, e)]
    /\ loop' = [replay |-> rest, closing |-> NoOrder]
    /\ UNCHANGED <<ledger, accepted, finalized, harmed>>

\* A match beyond the order's size may cost more than the order holds; when it
\* is heard after the order's reservation is gone, it is not booked at all.
CostsMore(e) ==
    LET r     == ledger.Orders[e.OrderID]
        price == IF e.Price <= 0 THEN r.Price ELSE e.Price
    IN  RequiredCollateral(r.Side, price, e.FilledSize) > r.Reserved

\* A fill of an accepted order; a Filled event then closes the order.
HandleFill(e, rest) ==
    LET o   == e.OrderID
        q   == Order[o]
        err == FillError(ledger, o, q.TokenID, q.Side, e.FilledSize)
    IN  /\ harmed' = IF err # "nil" \/ CostsMore(e) THEN harmed \cup {o} ELSE harmed
        /\ ledger' = ApplyFill(ledger, o, q.TokenID, q.Side, e.FilledSize, e.Price, 1)
        /\ loop' = [replay |-> rest,
                    closing |-> IF err = "nil" /\ e.Status = "Filled" THEN o ELSE NoOrder]
        /\ UNCHANGED <<accepted, finalized, pending>>

\* Mutant: the order's reservation is not released.
EndKeepsReservation(e, rest) ==
    /\ ledger' = IF e.Status = "Rejected" THEN ReleaseProvisional(ledger, e.ParentOrderID)
                                          ELSE ledger
    /\ finalizeOrder(e.OrderID)
    /\ loop' = [replay |-> rest, closing |-> NoOrder]
    /\ UNCHANGED harmed

\* Cancelled (of an accepted order) and Rejected with an order id.
HandleEnd(e, rest) ==
    LET o     == e.OrderID
        freed == IF e.Status = "Rejected" THEN ReleaseProvisional(ledger, e.ParentOrderID)
                                          ELSE ledger
    IN  /\ ledger' = IF o \in accepted THEN ReleaseOrder(freed, o) ELSE freed
        /\ finalizeOrder(o)
        /\ loop' = [replay |-> rest, closing |-> NoOrder]
        /\ UNCHANGED harmed

\* Rejected without an order id: the intent never became an order.
HandleRejectedIntent(e, rest) ==
    /\ ledger' = ReleaseProvisional(ledger, e.ParentOrderID)
    /\ loop' = [replay |-> rest, closing |-> NoOrder]
    /\ UNCHANGED <<accepted, finalized, pending, harmed>>

Ignore(rest) ==
    /\ loop' = [replay |-> rest, closing |-> NoOrder]
    /\ UNCHANGED <<ledger, accepted, finalized, pending, harmed>>

handleExecutionEvent(e, rest) ==
    IF e.OrderID = NoOrder THEN HandleRejectedIntent(e, rest)
    ELSE IF e.OrderID \in finalized THEN Ignore(rest)
    ELSE IF e.Status = "Accepted" THEN HandleAccepted(e, rest)
    ELSE IF e.Status # "Rejected" /\ e.OrderID \notin accepted
         THEN bufferExecution(e, rest)
    ELSE IF e.Status \in {"PartiallyFilled", "Filled"} THEN HandleFill(e, rest)
    ELSE HandleEnd(e, rest)

Receive ==
    /\ LoopFree /\ bus # << >>
    /\ handleExecutionEvent(Head(bus), << >>)
    /\ bus' = Tail(bus)
    /\ UNCHANGED <<executorVars, exchangeVars, recon, bootVars, asked>>

Replay ==
    /\ loop.closing = NoOrder /\ loop.replay # << >>
    /\ handleExecutionEvent(Head(loop.replay), Tail(loop.replay))
    /\ UNCHANGED <<bus, executorVars, exchangeVars, recon, bootVars, asked>>

\* The tail of a Filled event: ReleaseOrder, then finalizeOrder.
CloseFilled ==
    /\ loop.closing # NoOrder
    /\ ledger' = ReleaseOrder(ledger, loop.closing)
    /\ finalizeOrder(loop.closing)
    /\ loop' = [loop EXCEPT !.closing = NoOrder]
    /\ UNCHANGED <<executorVars, bus, exchangeVars, recon, bootVars, asked, harmed>>

-----------------------------------------------------------------------------
(* The cleanup ticker.                                                     *)

cleanupExpiredPending(S) ==
    /\ MayForget /\ S # {} /\ \A o \in S : pending[o] # << >>
    /\ pending' = [o \in Ids |-> IF o \in S THEN << >> ELSE pending[o]]
    /\ harmed' = harmed \cup S
    /\ UNCHANGED <<ledger, accepted, finalized, loop, executorVars, bus,
                   exchangeVars, recon, bootVars, asked>>

cleanupExpiredFinalized(S) ==
    /\ MayForget /\ S # {} /\ S \subseteq finalized
    /\ finalized' = finalized \ S
    /\ harmed' = harmed \cup S
    /\ UNCHANGED <<ledger, accepted, pending, loop, executorVars, bus,
                   exchangeVars, recon, bootVars, asked>>

cleanupExpiredProvisional ==
    /\ Expired(ledger) # {}
    /\ ledger' = CleanupExpiredProvisional(ledger)
    /\ UNCHANGED <<engineVars, executorVars, bus, exchangeVars, recon, bootVars, asked, harmed>>

Tick ==
    /\ \E i \in DOMAIN ledger.Provisionals : ledger.Provisionals[i].Life > 0
    /\ ledger' = Elapse(ledger)
    /\ UNCHANGED <<engineVars, executorVars, bus, exchangeVars, recon, bootVars, asked, harmed>>

-----------------------------------------------------------------------------
(* The exchange (external): it keeps the orders, matches and settles them  *)
(* and sends messages.                                                     *)

Matched(o) == SumOver([n \in DOMAIN trades[o] |-> trades[o][n].size], DOMAIN trades[o])
Left(o) == Max0(Order[o].RequestedSize - Matched(o))

Mined(o) ==
    SumOver([n \in DOMAIN trades[o] |->
                IF trades[o][n].st = "MINED" THEN trades[o][n].size ELSE 0],
            DOMAIN trades[o])

MinedOn(t, side) ==
    SumOver([o \in Ids |-> Mined(o)],
            {o \in Ids : Order[o].TokenID = t /\ Order[o].Side = side})

PositionOf(t) == Holdings[t] + MinedOn(t, "BUY") - MinedOn(t, "SELL")

OrderMsg(o, status) == [kind |-> "order", order |-> o, status |-> status, id |-> 0]
TradeMsg(o, status, n) == [kind |-> "trade", order |-> o, status |-> status, id |-> n]

\* Nobody hears a message sent while the WebSocket is down.
Send(msgs) == ws' = IF Up THEN ws \o msgs ELSE ws

\* The orders enter the book (LIVE) or trade at once (MATCHED).
Open(orders) ==
    /\ \A o \in Range(orders) : exch[o] = "none"
    /\ exch' = [o \in Ids |-> IF o \in Range(orders) THEN "open" ELSE exch[o]]
    /\ \E st \in [DOMAIN orders -> {"LIVE", "MATCHED"}] :
            Send([n \in DOMAIN orders |-> OrderMsg(orders[n], st[n])])

OpenByHand(o) ==
    /\ o \in plan.byHand
    /\ Open(<<o>>)
    /\ UNCHANGED <<ledger, engineVars, executorVars, bus, trades, dups, recon, bootVars, asked, harmed>>

\* The exchange may match somewhat more than what is left of the order.
Match(o, size, price) ==
    /\ exch[o] = "open" /\ size <= Left(o) + plan.overmatch
    /\ WithinLimit(o, price)
    /\ trades' = [trades EXCEPT ![o] =
                    Append(@, [size |-> size, price |-> price, st |-> "matched"])]
    /\ exch' = [exch EXCEPT ![o] = IF size >= Left(o) THEN "closed" ELSE @]
    /\ UNCHANGED <<ledger, engineVars, executorVars, bus, ws, dups, recon, bootVars, asked, harmed>>

Settle(o, n, outcome) ==
    /\ n \in DOMAIN trades[o] /\ trades[o][n].st = "matched"
    /\ outcome = "FAILED" => MayFail
    /\ trades' = [trades EXCEPT ![o][n].st = outcome]
    /\ Send(<<TradeMsg(o, outcome, n)>>)
    /\ harmed' = IF outcome = "FAILED" THEN harmed \cup {o} ELSE harmed
    /\ UNCHANGED <<ledger, engineVars, executorVars, bus, exch, dups, recon, bootVars, asked>>

Settling(o) == \E n \in DOMAIN trades[o] : trades[o][n].st = "matched"

\* The open ones among orders leave the book; a match made before may still
\* be settling.
CancelOnExchange(orders) ==
    LET gone == Among(orders, {o \in Ids : exch[o] = "open"})
    IN  /\ exch' = [o \in Ids |-> IF o \in Range(gone) THEN "closed" ELSE exch[o]]
        /\ Send([n \in DOMAIN gone |-> OrderMsg(gone[n], "CANCELED")])

\* By the exchange itself, or by hand on its web site.
CancelByExchange(o) ==
    /\ MayCancel /\ exch[o] = "open"
    /\ CancelOnExchange(<<o>>)
    /\ UNCHANGED <<ledger, engineVars, executorVars, bus, trades, dups, recon, bootVars, asked, harmed>>

\* Orders that never enter the exchange's book: their one trade is booked by the
\* relayer, or on paper.
OffBook(o) == o \in LegIds \/ (plan.dryRun /\ o \notin External)

Redeliver(o, n) ==
    /\ Up /\ dups < MaxDups /\ ~ OffBook(o)
    /\ n \in DOMAIN trades[o] /\ trades[o][n].st = "MINED"
    /\ Send(<<TradeMsg(o, "MINED", n)>>)
    /\ dups' = dups + 1
    /\ UNCHANGED <<ledger, engineVars, executorVars, bus, exch, trades, recon, bootVars, asked, harmed>>

-----------------------------------------------------------------------------
(* The executor.                                                           *)

\* consumeExecuteQueue: placements, then cancels, splits and merges.
WorkerTake ==
    LET pick(action) == Doing(Head(queue), {action})
    IN  /\ worker = Idle /\ queue # << >>
        /\ queue' = Tail(queue)
        /\ worker' = [Idle EXCEPT !.batch = pick("PLACE") \o pick("CANCEL")
                                            \o pick("SPLIT") \o pick("MERGE")]
        /\ UNCHANGED <<ledger, engineVars, tracked, wsOut, bus, exchangeVars, recon,
                       bootVars, asked, harmed>>

WorkerAt(action) ==
    /\ worker.todo = << >> /\ worker.legs = << >>
    /\ worker.batch # << >> /\ Head(worker.batch).Action = action

Rest(action) == Doing(worker.batch, Actions \ {action})

\* submitPlacements: the exchange takes the orders in reached and answers with
\* the ids of those in told; the others come back as rejected.
WorkerPost ==
    LET placed == OrdersOf(worker.batch, "PLACE")
    IN  /\ WorkerAt("PLACE")
        /\ \E reached \in SUBSET Range(placed) : \E told \in SUBSET reached :
                /\ FaultyPost \/ told = reached
                /\ Open(Among(placed, reached))
                /\ worker' = [worker EXCEPT
                        !.batch = Rest("PLACE"),
                        !.todo  = [n \in DOMAIN placed |->
                                      IF placed[n] \in told
                                      THEN publishAcceptedFromPost(placed[n], placed[n])
                                      ELSE RejectedIntent(placed[n])]]
        /\ UNCHANGED <<ledger, engineVars, tracked, queue, wsOut, bus, trades, dups,
                       recon, bootVars, asked, harmed>>

\* submitCancels: the answer is ignored, an error names no order.
WorkerCancel ==
    LET orders == OrdersOf(worker.batch, "CANCEL")
    IN  /\ WorkerAt("CANCEL")
        /\ \/ /\ CancelOnExchange(orders)
              /\ worker' = [worker EXCEPT !.batch = Rest("CANCEL")]
           \/ /\ worker' = [worker EXCEPT
                      !.batch = Rest("CANCEL"),
                      !.todo  = [n \in DOMAIN orders |-> RejectedIntent(NoIntent)]]
              /\ UNCHANGED <<exch, ws>>
        /\ UNCHANGED <<ledger, engineVars, tracked, queue, wsOut, bus, trades, dups,
                       recon, bootVars, asked, harmed>>

\* submitSplits and submitMerges, one intent: two orders are booked as accepted ...
WorkerLegs ==
    LET legs == Legs[Head(worker.batch).OrderID]
    IN  /\ WorkerAt("SPLIT") \/ WorkerAt("MERGE")
        /\ Fresh(legs)
        /\ worker' = [worker EXCEPT
                !.batch = Tail(@),
                !.todo  = [n \in 1 .. 2 |-> publishAcceptedFromPost(NoIntent, legs[n])],
                !.legs  = legs]
        /\ UNCHANGED <<ledger, engineVars, tracked, queue, wsOut, bus, exchangeVars,
                       recon, bootVars, asked, harmed>>

\* ... then filled or rejected, as the relayer answers.
WorkerRelay(ok) ==
    LET legs    == worker.legs
        fill(o) == [size |-> Order[o].RequestedSize, price |-> Order[o].Price, st |-> "MINED"]
    IN  /\ legs # << >> /\ worker.todo = << >>
        /\ ok => \A o \in Range(legs) :    \* tokens that are not there cannot be merged
                    Order[o].Side = "SELL" => PositionOf(Order[o].TokenID) >= Order[o].RequestedSize
        /\ exch' = [o \in Ids |-> IF o \in Range(legs) THEN "closed" ELSE exch[o]]
        /\ trades' = [o \in Ids |-> IF ok /\ o \in Range(legs) THEN <<fill(o)>> ELSE trades[o]]
        /\ worker' = [worker EXCEPT
                !.legs = << >>,
                !.todo = [n \in 1 .. 2 |->
                    IF ok THEN Event("Filled", legs[n], NoIntent,
                                     fill(legs[n]).size, fill(legs[n]).price)
                    ELSE Event("Rejected", legs[n], NoIntent, 0, 0)]]
        /\ UNCHANGED <<ledger, engineVars, tracked, queue, wsOut, bus, ws, dups, recon,
                       bootVars, asked, harmed>>

\* Every Accepted is preceded by trackPostedOrder, under the executor's lock.
WorkerTrack ==
    /\ worker.todo # << >> /\ ~ worker.tracked
    /\ LET e == Head(worker.todo)
           o == e.OrderID
       IN  /\ e.Status = "Accepted"
           /\ tracked' = Put(tracked, o,
                             trackPostedOrder(getOrCreateTracked(tracked, o), Order[o]))
    /\ worker' = [worker EXCEPT !.tracked = TRUE]
    /\ UNCHANGED <<ledger, engineVars, queue, wsOut, bus, exchangeVars, recon, bootVars, asked, harmed>>

WorkerPublish ==
    /\ worker.todo # << >>
    /\ worker.tracked \/ Head(worker.todo).Status # "Accepted"
    /\ Publish(<<Head(worker.todo)>>, {})
    /\ worker' = [worker EXCEPT !.todo = Tail(@), !.tracked = FALSE]
    /\ UNCHANGED <<ledger, engineVars, tracked, queue, wsOut, exchangeVars, recon, bootVars, asked>>

\* A settled trade is ignored when the executor holds its order for ended: its
\* cancellation, or a match that completes it, was heard first.
HeardTooLate(t, m) ==
    m.kind = "trade" /\ m.status = "MINED" /\ t.Finalized /\ m.id \notin t.SeenTradeIDs

\* The WebSocket consumer handles one message.
Deliver(n) ==
    /\ n \in DOMAIN ws /\ wsOut = << >>
    /\ InOrder => \A k \in 1 .. (n - 1) : ws[k].order # ws[n].order
    /\ LET m == ws[n]
           o == m.order
           t == getOrCreateTracked(tracked, o)
           r == IF m.kind = "order" THEN onOrderEvent(t, o, m.status, Order[o])
                ELSE onTradeEvent(t, o, m.status, m.id,
                                  trades[o][m.id].size, trades[o][m.id].price)
       IN  /\ tracked' = Put(tracked, o, r.t)
           /\ wsOut' = r.out
           /\ harmed' = IF HeardTooLate(t, m) THEN harmed \cup {o} ELSE harmed
    /\ ws' = RemoveAt(ws, n)
    /\ UNCHANGED <<ledger, engineVars, queue, worker, bus, exch, trades, dups, recon,
                   bootVars, asked>>

\* It publishes after it has released the executor's lock.
WSPublish ==
    /\ wsOut # << >>
    /\ Publish(wsOut, {})
    /\ wsOut' = << >>
    /\ UNCHANGED <<ledger, engineVars, tracked, queue, worker, exchangeVars, recon, bootVars, asked>>

-----------------------------------------------------------------------------
(* The reconcile loop: two requests outside the lock, then two critical    *)
(* sections.                                                               *)

OpenOrders ==
    [o \in {x \in Ids : exch[x] = "open"} |->
        [TokenID |-> Order[o].TokenID, Side |-> Order[o].Side,
         Price |-> Order[o].Price, Remaining |-> Left(o)]]

Positions == [t \in {u \in Tokens : PositionOf(u) > 0} |-> PositionOf(t)]

GetOpenOrders ==
    /\ Reconciling /\ boot.at # "down" /\ recon.at = "idle"
    /\ recon' = [NoFetch EXCEPT !.at = "orders", !.orders = OpenOrders]
    /\ UNCHANGED <<ledger, engineVars, executorVars, bus, exchangeVars, bootVars, asked, harmed>>

GetPositions ==
    /\ recon.at = "orders"
    /\ recon' = [recon EXCEPT !.at = "fetched", !.positions = Positions]
    /\ UNCHANGED <<ledger, engineVars, executorVars, bus, exchangeVars, bootVars, asked, harmed>>

\* The request failed; the pass is given up and tried again later.
GetPositionsFails ==
    /\ recon.at = "orders"
    /\ recon' = NoFetch
    /\ UNCHANGED <<ledger, engineVars, executorVars, bus, exchangeVars, bootVars, asked, harmed>>

ReconcileOrders ==
    /\ recon.at = "fetched"
    /\ ledger' = reconcileOrders(ledger, recon.orders)
    /\ recon' = [recon EXCEPT !.at = "half", !.orders = << >>]
    /\ UNCHANGED <<engineVars, executorVars, bus, exchangeVars, bootVars, asked, harmed>>

ReconcilePositions ==
    /\ recon.at = "half"
    /\ ledger' = reconcilePositions(ledger, recon.positions)
    /\ recon' = NoFetch
    /\ UNCHANGED <<engineVars, executorVars, bus, exchangeVars, bootVars, asked, harmed>>

-----------------------------------------------------------------------------
(* The process dies, or is stopped: what it had in memory is gone, the     *)
(* exchange goes on.  Engine.Start then rebuilds the ledger.  The          *)
(* reconcile loop runs from the start of the process (main.go).            *)

Crash ==
    /\ Up /\ crashes < plan.crashes
    /\ crashes' = crashes + 1
    /\ boot' = [Booted EXCEPT !.at = "down"]
    /\ ledger' = NewState
    /\ accepted' = {} /\ finalized' = {}
    /\ pending' = [o \in Ids |-> << >>]
    /\ loop' = [replay |-> << >>, closing |-> NoOrder]
    /\ tracked' = << >> /\ queue' = << >> /\ worker' = Idle /\ wsOut' = << >>
    /\ bus' = << >> /\ ws' = << >> /\ recon' = NoFetch
    /\ harmed' = harmed \cup {o \in Ids : exch[o] = "open" \/ Settling(o)}
    /\ UNCHANGED <<exch, trades, dups, plan, asked>>

\* The cash the settled trades of o moved.
Flow(o) ==
    LET sign == IF Order[o].Side = "BUY" THEN -1 ELSE 1
        mined == {n \in DOMAIN trades[o] : trades[o][n].st = "MINED"}
    IN  sign * SumOver([n \in mined |-> trades[o][n].size * trades[o][n].price], mined)

Wallet == Cash + SumOver([o \in Ids |-> Flow(o)], Ids)

\* A step of Engine.Start that leaves the ledger alone.
BootStep(from, b) ==
    /\ boot.at = from
    /\ boot' = b
    /\ UNCHANGED <<ledger, engineVars, executorVars, bus, exchangeVars, recon, crashes,
                   plan, asked, harmed>>

\* What a start has missed, remembered only where no reconcile pass repairs it.
Missing(what) == IF Reconciling \/ boot.missed = "funds" THEN boot.missed ELSE what

\* SyncBalanceOnce: the read of the chain, which may fail, and the write.
ReadOnchainBalance(ok) ==
    BootStep("down", IF ok THEN [boot EXCEPT !.at = "balance", !.cash = Wallet]
                           ELSE [boot EXCEPT !.at = "synced", !.missed = Missing("funds")])

SyncBalance ==
    /\ boot.at = "balance"
    /\ ledger' = ReconcileOnchainBalance(ledger, boot.cash)
    /\ boot' = [boot EXCEPT !.at = "synced", !.cash = 0]
    /\ UNCHANGED <<engineVars, executorVars, bus, exchangeVars, recon, crashes, plan,
                   asked, harmed>>

\* RestoreFromExchange asks for orders and positions; when a request fails,
\* the engine starts with what it has.
Unfetched ==
    [Booted EXCEPT !.at = "restored", !.missed = Missing("exchange")]

BootOpenOrders(ok) ==
    BootStep("synced", IF ok THEN [boot EXCEPT !.at = "orders", !.orders = OpenOrders]
                             ELSE Unfetched)

BootPositions(ok) ==
    BootStep("orders", IF ok THEN [boot EXCEPT !.at = "fetched", !.positions = Positions,
                                     !.missed = IF boot.orders = OpenOrders THEN @
                                                ELSE Missing("funds")]
                             ELSE Unfetched)

\* The balance is read under the lock that is released before Restore.
BootBalance ==
    BootStep("fetched", [boot EXCEPT !.at = "ready",
                                     !.balance = <<ledger.Available, ledger.Reserved>>])

\* Restore, then restoreOpenOrdersTrackingByIDs (markAccepted).
BootRestore ==
    /\ boot.at = "ready"
    /\ ledger' = Restore(ledger, boot.balance, boot.orders, boot.positions)
    /\ accepted' = accepted \cup DOMAIN boot.orders
    /\ boot' = [Booted EXCEPT !.at = "restored", !.missed = boot.missed]
    /\ UNCHANGED <<finalized, pending, loop, executorVars, bus, exchangeVars, recon,
                   crashes, plan, asked, harmed>>

\* The executor's WebSocket is connected and the loops start.
BootLoops == BootStep("restored", [boot EXCEPT !.at = "up"])

-----------------------------------------------------------------------------
Next ==
    \/ \E batch \in plan.batches : submitIntents(batch)
    \/ Receive \/ Replay \/ CloseFilled
    \/ \E S \in SUBSET Ids : cleanupExpiredPending(S) \/ cleanupExpiredFinalized(S)
    \/ cleanupExpiredProvisional
    \/ Tick
    \/ WorkerTake \/ WorkerPost \/ WorkerCancel \/ WorkerLegs
    \/ \E ok \in BOOLEAN : WorkerRelay(ok)
    \/ WorkerTrack \/ WorkerPublish
    \/ \E n \in DOMAIN ws : Deliver(n)
    \/ WSPublish
    \/ \E o \in Ids : OpenByHand(o) \/ CancelByExchange(o)
    \/ \E o \in Ids : \E size \in 1 .. (Order[o].RequestedSize + plan.overmatch) :
            \E price \in TradePrices : Match(o, size, price)
    \/ \E o \in Ids : \E n \in DOMAIN trades[o] :
            \/ \E outcome \in {"MINED", "FAILED"} : Settle(o, n, outcome)
            \/ Redeliver(o, n)
    \/ GetOpenOrders \/ GetPositions \/ GetPositionsFails
    \/ ReconcileOrders \/ ReconcilePositions
    \/ Crash
    \/ \E ok \in BOOLEAN : \/ ReadOnchainBalance(ok)
                           \/ BootOpenOrders(ok)
                           \/ BootPositions(ok)
    \/ SyncBalance \/ BootBalance \/ BootRestore \/ BootLoops

Spec == Init /\ [][Next]_vars

\* The goroutines run for the life of the process, the HTTP client's calls
\* return, the reconcile loop's do not fail for ever, and a process that died
\* is started again.  Nothing is assumed of the exchange's orders and trades.
Fairness ==
    /\ WF_vars(Receive) /\ WF_vars(Replay) /\ WF_vars(CloseFilled)
    /\ WF_vars(Tick) /\ WF_vars(cleanupExpiredProvisional)
    /\ WF_vars(WorkerTake) /\ WF_vars(WorkerPost) /\ WF_vars(WorkerCancel)
    /\ WF_vars(WorkerLegs) /\ WF_vars(\E ok \in BOOLEAN : WorkerRelay(ok))
    /\ WF_vars(WorkerTrack) /\ WF_vars(WorkerPublish)
    /\ WF_vars(\E n \in DOMAIN ws : Deliver(n)) /\ WF_vars(WSPublish)
    /\ WF_vars(GetOpenOrders) /\ SF_vars(GetPositions)
    /\ WF_vars(ReconcileOrders) /\ WF_vars(ReconcilePositions)
    /\ WF_vars(\E ok \in BOOLEAN : \/ ReadOnchainBalance(ok)
                                   \/ BootOpenOrders(ok)
                                   \/ BootPositions(ok))
    /\ WF_vars(SyncBalance) /\ WF_vars(BootBalance)
    /\ WF_vars(BootRestore) /\ WF_vars(BootLoops)

FairSpec == Spec /\ Fairness

-----------------------------------------------------------------------------
(* Properties.                                                             *)

Messages == [kind : {"order"}, order : Ids, status : {"LIVE", "MATCHED", "CANCELED"}, id : {0}]
            \cup [kind : {"trade"}, order : Ids, status : {"MINED", "FAILED"}, id : Nat \ {0}]

\* An event names its order, and never a price beyond the order's limit, or it is
\* the rejection of an intent.
Events == {e \in [Status : Statuses, OrderID : Ids, ParentOrderID : Ids \cup {NoIntent},
                  FilledSize : Nat, Price : Nat] :
                /\ e.ParentOrderID \in {e.OrderID, NoIntent}
                /\ WithinLimit(e.OrderID, e.Price)}
          \cup [Status : {"Rejected"}, OrderID : {NoOrder}, ParentOrderID : Ids \cup {NoIntent},
                FilledSize : {0}, Price : {0}]

Trades == [size : Nat \ {0}, price : Prices, st : {"matched", "MINED", "FAILED"}]
TrackedOrders == [Price : Nat, RequestedSize : Nat, FilledSize : Nat, Accepted : BOOLEAN,
                  Finalized : BOOLEAN, SeenTradeIDs : SUBSET Nat]
Workers == [batch : Seq(Intents), todo : Seq(Events), tracked : BOOLEAN,
            legs : {<< >>} \cup (LegIds \X LegIds)]

\* What a request for open orders, and one for positions, answered.
IsAnswer(r) ==
    /\ IsMap(r.orders, Ids, [TokenID : Tokens, Side : Sides, Price : Prices, Remaining : Int])
    /\ IsMap(r.positions, Tokens, Nat)

EngineType ==
    /\ IsLedger(ledger, Ids, Tokens)
    /\ accepted \subseteq Ids /\ finalized \subseteq Ids
    /\ pending \in [Ids -> Seq(Events)]
    /\ loop \in [replay : Seq(Events), closing : Ids \cup {NoOrder}]
    /\ bus \in Seq(Events) /\ Len(bus) <= BusCap
    /\ asked \subseteq plan.batches /\ harmed \subseteq Ids

ExecutorType ==
    /\ IsMap(tracked, Ids, TrackedOrders)
    /\ \A o \in DOMAIN tracked : WithinLimit(o, tracked[o].Price)
    /\ queue \in Seq(Seq(Intents)) /\ Len(queue) <= QueueCap
    /\ worker \in Workers
    /\ wsOut \in Seq(Events)

ExchangeType ==
    /\ exch \in [Ids -> {"none", "open", "closed"}]
    /\ trades \in [Ids -> Seq(Trades)]
    /\ \A o \in Ids : \A n \in DOMAIN trades[o] : WithinLimit(o, trades[o][n].price)
    /\ ws \in Seq(Messages)
    /\ \A n \in DOMAIN ws : ws[n].kind = "trade" => ws[n].id \in DOMAIN trades[ws[n].order]
    /\ dups \in Nat

ReconType ==
    /\ recon = [at |-> recon.at, orders |-> recon.orders, positions |-> recon.positions]
    /\ recon.at \in {"idle", "orders", "fetched", "half"}
    /\ IsAnswer(recon)

BootType ==
    /\ boot = [at |-> boot.at, cash |-> boot.cash, orders |-> boot.orders,
               positions |-> boot.positions, balance |-> boot.balance, missed |-> boot.missed]
    /\ boot.at \in {"down", "balance", "synced", "orders", "fetched", "ready", "restored", "up"}
    /\ boot.missed \in {"nothing", "exchange", "funds"}
    /\ boot.cash \in Int /\ boot.balance \in Int \X Nat
    /\ IsAnswer(boot)
    /\ crashes \in Nat /\ plan \in Plans

\* The state of every goroutine and channel is well formed, the two bounded
\* channels (execution queue, subscription) respect their capacity, and whatever
\* way a price takes from the exchange to the engine it stays within the limit.
TypeOK == EngineType /\ ExecutorType /\ ExchangeType /\ ReconType /\ BootType

\* An order is never finalized and still tracked: whatever the order of
\* events, finalizeOrder leaves nothing that a later event could revive, and
\* events are buffered only for orders that are neither accepted nor ended.
TrackingConsistent ==
    /\ accepted \cap finalized = {}
    /\ \A o \in Ids : pending[o] # << >> => o \notin accepted \cup finalized

\* No trade is booked twice: however messages are duplicated, reordered,
\* buffered and replayed, the ledger never counts more tokens bought than the
\* exchange settled.
NeverOverbooked ==
    \A t \in Tokens : TokenAt(ledger, t).TotalBought <= MinedOn(t, "BUY")

\* Without reconcile (which has no funds check) no interleaving of submission,
\* acceptance, expiry, fill, cancel, crash and restore spends money or tokens
\* twice, with two exceptions: a start that could not read the chain books the
\* restored orders against a balance of 0, and one whose positions are younger
\* than its orders reserves tokens that a trade in between has sold.
NoOverdraft == boot.missed # "funds" => Solvent(ledger)

\* Everything sent has been handled.
Quiet ==
    /\ Up /\ LoopFree /\ bus = << >> /\ queue = << >> /\ worker = Idle
    /\ ws = << >> /\ wsOut = << >>
    /\ \A o \in Ids : pending[o] = << >>

\* Double confirmation (HTTP and WebSocket), buffering and deduplication come
\* to the right result: once everything sent has been handled and no order met
\* a known limit, the ledger's cash, tokens and open orders are the exchange's,
\* in whatever order the HTTP answer and an order's messages arrived, however it
\* was filled in parts and beyond its size, and after a restart whose requests
\* were answered.
QuietAgreement ==
    (Quiet /\ harmed = {} /\ boot.missed = "nothing") =>
        /\ ledger.Available + ledger.Reserved = Wallet
        /\ \A t \in Tokens : LET tp == TokenAt(ledger, t)
                             IN  tp.Available + tp.Reserved = PositionOf(t)
        /\ \A o \in Ids :
                /\ exch[o] = "closed" /\ ~ Settling(o) => o \notin DOMAIN ledger.Orders
                /\ exch[o] = "open" /\ o \in accepted =>
                        /\ o \in DOMAIN ledger.Orders
                        /\ ledger.Orders[o].RemainingSize = Order[o].RequestedSize - Mined(o)

\* The balance's Reserved covers every BUY reservation across crashes, restores
\* and reconcile passes in any interleaving: a release never meets the clamp at
\* zero, so what the exchange told twice may lock money up but never mints it.
ReservedCovers == ledger.Reserved >= HeldBy(ledger, Balance)

\* A provisional reservation never outlives its time: it is confirmed, released
\* or expires, even when the Accepted that should convert it is ignored because
\* its order has already ended.
ProvisionalsEnd ==
    \A i \in Ids : i \in DOMAIN ledger.Provisionals ~> i \notin DOMAIN ledger.Provisionals

\* An order that ended on the exchange gives back what it holds, unless it met
\* a known limit.
EveryOrderSettles ==
    \A o \in Ids : (exch[o] = "closed" /\ ~ Settling(o))
                      ~> (o \notin DOMAIN ledger.Orders \/ o \in harmed)

\* The ledger counts the tokens the exchange does, Available below zero or not, or
\* has more of them reserved than there are and nothing free.
CountsTokens(t) ==
    LET tp == TokenAt(ledger, t)
    IN  \/ tp.Available + tp.Reserved = PositionOf(t)
        \/ tp.Available = 0 /\ tp.Reserved > PositionOf(t)

\* The reconcile loop heals every loss, a crash at any step and a restore that
\* fails or races with a pass included: from some point on, exactly the orders
\* open on the exchange hold a reservation, and the ledger counts the tokens the
\* exchange does.  How they divide into free and reserved it does not heal: a
\* sale restored with more than is left of it keeps what it reserved.
ReconcileHeals ==
    /\ \A o \in Ids : <>[](exch[o] = "open" <=> o \in DOMAIN ledger.Orders)
    /\ \A t \in Tokens : <>[]CountsTokens(t)

-----------------------------------------------------------------------------
(* What the documents say, and the code does not do.                       *)

\* README: the HTTP answer and the WebSocket confirm an order on two paths,
\* "and bufferExecution handles events out of order".  So an order that ended
\* holds nothing once everything has been handled.
OutOfOrderHandled ==
    Quiet => \A o \in Ids : (exch[o] = "closed" /\ ~ Settling(o))
                                => o \notin DOMAIN ledger.Orders

\* The design document: reconcile "uses the Snapshot's time order to avoid
\* races".  So between two passes every accepted open order holds its
\* reservation.
ReconcileKeepsOpenOrders ==
    (Quiet /\ recon.at = "idle") =>
        \A o \in accepted \ harmed : exch[o] = "open" => o \in DOMAIN ledger.Orders
=============================================================================
