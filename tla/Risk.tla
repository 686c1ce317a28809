-------------------------------- MODULE Risk --------------------------------
(***************************************************************************)
(* The risk engine between the strategies and the ledger.                  *)
(*                                                                         *)
(* On every event the engine loop takes one snapshot of the ledger and     *)
(* asks its strategies in turn; each batch of intents goes through Check   *)
(* on that snapshot and, when it passes, through TryReserveProvisional on  *)
(* the ledger itself.  Between two events the orders are confirmed,        *)
(* refused, filled and cancelled, and orders are placed by hand.  At any   *)
(* time, between the snapshot and the reservation too, provisionals expire *)
(* and the other goroutines write the ledger: the balance sync, the        *)
(* reconcile loop and redemption.  How events reach the engine is          *)
(* OrderFlow's subject: here one of them is one action.                    *)
(***************************************************************************)
EXTENDS OrderTerms, ReconcileOps, SequencesExt

CONSTANTS
    NoIntent,               \* the empty intent id
    Malformed,              \* intents with an empty id or a bad size or price
    Market,                 \* Market[t]: the market of token t
    Legs,                   \* Legs[p]: the two orders a SPLIT or MERGE p is booked as
    Batches,                \* what a strategy may submit; an order is sent once
    MidPrices,              \* the maps of mid prices an observation may carry
    FillPrices,
    Strategies,             \* how many strategies are asked per event
    MinBalance,
    MaxDailyLoss, MaxExposurePerMarket, MaxSlippageBps, MaxOpenOrders,
    MarketCooldown,         \* in clock ticks; 0 disables this and the caps above
    OnchainTotals,          \* what a read of the wallet may return
    PositionReports,        \* what the exchange may report as positions
    MaxOutside,             \* bound on the writes of sync, reconcile and redemption
    LastDay                 \* bound on the UTC date

LegIds == UNION {{Legs[p][1], Legs[p][2]} : p \in DOMAIN Legs}

Intents == [Action : {"PLACE", "CANCEL"}, OrderID : Ids \ LegIds]
           \cup [Action : {"SPLIT", "MERGE"}, OrderID : DOMAIN Legs]

Markets == {Market[t] : t \in Tokens}

ASSUME RiskAssumption ==
    /\ IsFiniteSet(Ids) /\ Malformed \subseteq Ids /\ NoIntent \notin Ids
    /\ Legs \in [DOMAIN Legs -> Ids \X Ids]
    /\ Batches \subseteq Seq(Intents)
    /\ \A b \in Batches : \A m, n \in DOMAIN b :       \* nextIntentID repeats no id
            (b[m].Action = "PLACE" /\ b[n] = b[m]) => n = m
    /\ \A mids \in MidPrices : IsMap(mids, Tokens, Prices)
    /\ FillPrices \subseteq Prices
    /\ Strategies \in Nat \ {0} /\ LastDay \in Nat \ {0}
    /\ {MinBalance, MaxDailyLoss, MaxExposurePerMarket, MaxSlippageBps,
        MaxOpenOrders, MarketCooldown} \subseteq Nat
    /\ OnchainTotals \subseteq Nat /\ MaxOutside \in Nat
    /\ \A held \in PositionReports : IsMap(held, Tokens, Nat)

VARIABLES
    ledger,     \* state.State
    snap,       \* the Snapshot of the event being handled, NewState between events
    turns,      \* strategies still to be asked about it; 0: waiting for an event
    cooling,    \* cooling[m]: what is left of market m's cooldown
    status,     \* status[o]: "new", "sent", "open", "done" or "rejected"
    outside,    \* how often sync, reconcile and redemption have written the ledger
    lowered,    \* accounts in which they left less since the snapshot was taken
    refused,    \* intents of an event's first batch that passed Check and found
                \* no funds, though nobody lowered their account in between
    today       \* the UTC date

vars == <<ledger, snap, turns, cooling, status, outside, lowered, refused, today>>

Init ==
    /\ ledger = OpeningLedger
    /\ snap = NewState
    /\ turns = 0
    /\ cooling = [m \in Markets |-> 0]
    /\ status = [o \in Ids |-> "new"]
    /\ outside = 0 /\ lowered = {} /\ refused = {}
    /\ today = 1

-----------------------------------------------------------------------------
(* Check, one operator per cap.  A batch is refused as a whole; the kind   *)
(* of refusal is only logged.                                              *)

PlacedIn(batch) == {n \in DOMAIN batch : batch[n].Action = "PLACE"}
TermsOf(batch, n) == Order[batch[n].OrderID]
MarketOf(o) == Market[Order[o].TokenID]

\* o.Size of a SPLIT or MERGE.
PairSize(in) == Order[Legs[in.OrderID][1]].RequestedSize

\* RequiredCollateral as the caps add it up: a SELL's tokens count as dollars.
Exposure(side, reserved) == IF side = "BUY" THEN reserved ELSE reserved * One

\* Mutant: the breaker is never closed.
LossIgnored(batch, s) == TRUE

LossAllows(batch, s) ==
    MaxDailyLoss > 0 /\ - s.DailyPnL >= MaxDailyLoss
        => \A in \in Range(batch) : in.Action = "CANCEL"

WellFormed(batch) == \A in \in Range(batch) : in.OrderID \notin Malformed

SlippageAllows(batch, mids) ==
    MaxSlippageBps > 0 =>
        \A n \in PlacedIn(batch) :
            LET q   == TermsOf(batch, n)
                gap == IF q.Price >= mids[q.TokenID] THEN q.Price - mids[q.TokenID]
                                                     ELSE mids[q.TokenID] - q.Price
            IN  q.TokenID \in DOMAIN mids
                    => (gap * 10000) \div mids[q.TokenID] <= MaxSlippageBps

CooldownAllows(batch) ==
    \A n \in PlacedIn(batch) : cooling[MarketOf(batch[n].OrderID)] = 0

OpenOrdersAllow(batch, s) ==
    MaxOpenOrders > 0 =>
        Cardinality(DOMAIN s.Orders) + Cardinality(PlacedIn(batch)) <= MaxOpenOrders

ExposureAllows(batch, s) ==
    LET existing(m) ==
            SumOver([o \in DOMAIN s.Orders |-> Exposure(s.Orders[o].Side, s.Orders[o].Reserved)],
                    {o \in DOMAIN s.Orders : Market[s.Orders[o].TokenID] = m})
        placed(m) == {n \in PlacedIn(batch) : MarketOf(batch[n].OrderID) = m}
        added(m)  ==
            SumOver([n \in PlacedIn(batch) |->
                        LET q == TermsOf(batch, n)
                        IN  Exposure(q.Side, RequiredCollateral(q.Side, q.Price, q.RequestedSize))],
                    placed(m))
    IN  MaxExposurePerMarket > 0 =>
            \A m \in Markets : placed(m) # {} => existing(m) + added(m) <= MaxExposurePerMarket

\* What the batch's BUYs and SPLITs cost.
BuyRequired(batch) ==
    SumOver([n \in DOMAIN batch |->
                CASE batch[n].Action = "SPLIT" -> PairSize(batch[n]) * One
                  [] batch[n].Action = "PLACE" /\ TermsOf(batch, n).Side = "BUY"
                        -> TermsOf(batch, n).Price * TermsOf(batch, n).RequestedSize
                  [] OTHER -> 0],
            DOMAIN batch)

\* The tokens t its SELLs and MERGEs need.
SellRequired(batch, t) ==
    SumOver([n \in DOMAIN batch |->
                CASE batch[n].Action = "PLACE" /\ TermsOf(batch, n).Side = "SELL"
                        /\ TermsOf(batch, n).TokenID = t -> TermsOf(batch, n).RequestedSize
                  [] batch[n].Action = "MERGE"
                        /\ \E o \in Range(Legs[batch[n].OrderID]) : Order[o].TokenID = t
                        -> PairSize(batch[n])
                  [] OTHER -> 0],
            DOMAIN batch)

\* Mutants: the reserve may be used up; the balance is not looked at.
BalanceAllowsAll(batch, s) ==
    BuyRequired(batch) > 0 => s.Available >= BuyRequired(batch)
BalanceIgnored(batch, s) == TRUE

BalanceAllows(batch, s) ==
    BuyRequired(batch) > 0 => /\ s.Available >= BuyRequired(batch)
                              /\ s.Available - BuyRequired(batch) > MinBalance

PositionAllows(batch, s) ==
    \A t \in Tokens :
        SellRequired(batch, t) > 0 => TokenAt(s, t).Available >= SellRequired(batch, t)

Check(batch, s, mids) ==
    /\ LossAllows(batch, s)
    /\ WellFormed(batch)
    /\ SlippageAllows(batch, mids)
    /\ CooldownAllows(batch)
    /\ OpenOrdersAllow(batch, s)
    /\ ExposureAllows(batch, s)
    /\ BalanceAllows(batch, s)
    /\ PositionAllows(batch, s)

-----------------------------------------------------------------------------
(* The engine loop.                                                        *)

\* Mutant: one strategy too many is counted off.
TurnTwice(left) ==
    /\ turns' = left - 1
    /\ UNCHANGED <<snap, lowered>>

\* The strategies that are left keep the snapshot; with the last it is gone.
Turn(left) ==
    /\ turns' = left
    /\ snap' = IF left = 0 THEN NewState ELSE snap
    /\ lowered' = IF left = 0 THEN {} ELSE lowered

\* handleInputUpdate, handleStrategyTick: one snapshot for all strategies.
Wake ==
    /\ turns = 0
    /\ snap' = ledger
    /\ turns' = Strategies
    /\ UNCHANGED <<ledger, cooling, status, outside, lowered, refused, today>>

\* A strategy has nothing to submit.
Pass ==
    /\ turns > 0
    /\ Turn(turns - 1)
    /\ UNCHANGED <<ledger, cooling, status, outside, refused, today>>

\* Reserves the funds of the n-th intent of a batch that passed Check.
reserveIntent(acc, in) ==
    LET q == Order[in.OrderID]
        r == TryReserveProvisional(acc.st, in.OrderID, q.TokenID, q.Side, q.Price,
                                   q.RequestedSize)
    IN  CASE in.Action = "CANCEL" -> acc
          [] in.Action \in {"SPLIT", "MERGE"} ->
                [acc EXCEPT !.sent = @ \cup Range(Legs[in.OrderID])]
          [] in.Action = "PLACE" /\ r.err # "nil" ->
                [acc EXCEPT !.failed = @ \cup {in.OrderID}]
          [] OTHER -> [acc EXCEPT !.st = r.st, !.sent = @ \cup {in.OrderID}]

\* None of the batch's orders has been sent.
Fresh(batch) ==
    \A in \in Range(batch) :
        CASE in.Action = "PLACE"            -> status[in.OrderID] = "new"
          [] in.Action \in {"SPLIT", "MERGE"} -> \A o \in Range(Legs[in.OrderID]) : status[o] = "new"
          [] OTHER                          -> TRUE

\* The account order o's collateral is taken from.
DrawsOn(o) == Account(Order[o].Side, Order[o].TokenID)

\* submitIntents with the event's snapshot; a refusal ends the event.
submitIntents(batch, mids) ==
    /\ turns > 0
    /\ Fresh(batch)
    /\ LET r == FoldLeft(reserveIntent, [st |-> ledger, sent |-> {}, failed |-> {}], batch)
       IN  \/ /\ ~ Check(batch, snap, mids)
              /\ Turn(0)
              /\ UNCHANGED <<ledger, cooling, status, refused>>
           \/ /\ Check(batch, snap, mids)
              /\ ledger' = r.st
              /\ status' = [o \in Ids |-> IF o \in r.sent THEN "sent" ELSE status[o]]
              /\ refused' = refused \cup
                        {o \in r.failed : turns = Strategies /\ DrawsOn(o) \notin lowered}
              /\ cooling' = [m \in Markets |->
                                IF \E n \in PlacedIn(batch) : MarketOf(batch[n].OrderID) = m
                                THEN MarketCooldown ELSE cooling[m]]
              /\ Turn(turns - 1)
    /\ UNCHANGED <<outside, today>>

\* Accepted: i is the intent (HTTP answer) or NoIntent (WebSocket, legs, orders
\* placed by hand).
Accept(o, i) ==
    /\ turns = 0
    /\ IF o \in External THEN status[o] \in {"new", "open"} /\ i = NoIntent
                         ELSE status[o] \in {"sent", "open"}
    /\ LET q == Order[o]
       IN  ledger' = AttachOrder(ledger, i, o, q.TokenID, q.Side, q.Price, q.RequestedSize).st
    /\ status' = [status EXCEPT ![o] = "open"]
    /\ UNCHANGED <<snap, turns, cooling, outside, lowered, refused, today>>

\* Rejected, with the intent's id.
Reject(o) ==
    /\ turns = 0 /\ status[o] = "sent"
    /\ ledger' = ReleaseProvisional(ledger, o)
    /\ status' = [status EXCEPT ![o] = "rejected"]
    /\ UNCHANGED <<snap, turns, cooling, outside, lowered, refused, today>>

\* Filled, at a price within the limit.
Fill(o, price) ==
    /\ turns = 0 /\ status[o] = "open"
    /\ WithinLimit(o, price)
    /\ LET q == Order[o]
       IN  ledger' = ReleaseOrder(ApplyFill(ledger, o, q.TokenID, q.Side, q.RequestedSize,
                                            price, today), o)
    /\ status' = [status EXCEPT ![o] = "done"]
    /\ UNCHANGED <<snap, turns, cooling, outside, lowered, refused, today>>

\* Cancelled, because the strategy asked for it or not.
Cancelled(o) ==
    /\ turns = 0 /\ status[o] = "open"
    /\ ledger' = ReleaseOrder(ledger, o)
    /\ status' = [status EXCEPT ![o] = "done"]
    /\ UNCHANGED <<snap, turns, cooling, outside, lowered, refused, today>>

-----------------------------------------------------------------------------
(* The cleanup ticker, and the clock.                                      *)

Cleanup ==
    /\ Expired(ledger) # {}
    /\ ledger' = CleanupExpiredProvisional(ledger)
    /\ UNCHANGED <<snap, turns, cooling, status, outside, lowered, refused, today>>

Tick ==
    /\ \/ \E i \in DOMAIN ledger.Provisionals : ledger.Provisionals[i].Life > 0
       \/ \E m \in Markets : cooling[m] > 0
    /\ ledger' = Elapse(ledger)
    /\ cooling' = [m \in Markets |-> Max0(cooling[m] - 1)]
    /\ UNCHANGED <<snap, turns, status, outside, lowered, refused, today>>

Midnight ==
    /\ today < LastDay
    /\ today' = today + 1
    /\ UNCHANGED <<ledger, snap, turns, cooling, status, outside, lowered, refused>>

-----------------------------------------------------------------------------
(* The other goroutines that write the ledger, each in a critical section  *)
(* of its own: the engine may hold a snapshot meanwhile.                   *)

Write(after) ==
    /\ outside < MaxOutside
    /\ ledger' = after
    /\ outside' = outside + 1
    /\ lowered' = IF turns = 0 THEN {}
                  ELSE lowered \cup {a \in Accounts : FreeIn(after, a) < FreeIn(ledger, a)}
    /\ UNCHANGED <<snap, turns, cooling, refused, today>>

\* SyncBalanceOnce, with whatever the wallet held when it was read.
Sync(total) ==
    /\ Write(ReconcileOnchainBalance(ledger, total))
    /\ UNCHANGED status

\* ReconcileWithExchange, first half: open are the orders that were open when
\* they were fetched, by now done or not; the exchange does not list legs.
ReconcileOrders(open) ==
    /\ \A o \in open : status[o] \in {"sent", "open", "done"} \/ o \in External
    /\ Write(reconcileOrders(ledger,
                [o \in open |-> [TokenID |-> Order[o].TokenID, Side |-> Order[o].Side,
                                Price |-> Order[o].Price,
                                Remaining |-> Order[o].RequestedSize]]))
    /\ status' = [o \in Ids |-> IF o \in open /\ status[o] = "new" THEN "open" ELSE status[o]]

\* ReconcileWithExchange, second half.
ReconcilePositions(held) ==
    /\ Write(reconcilePositions(ledger, held))
    /\ UNCHANGED status

\* ClearRedeemedPositions, of a market's tokens that were redeemed.
Redeem(tokens) ==
    /\ Write(ClearRedeemedPositions(ledger, tokens))
    /\ UNCHANGED status

-----------------------------------------------------------------------------
Next ==
    \/ Wake \/ Pass
    \/ \E batch \in Batches : \E mids \in MidPrices : submitIntents(batch, mids)
    \/ \E o \in Ids : \/ Accept(o, o) \/ Accept(o, NoIntent)
                      \/ Reject(o) \/ Cancelled(o)
                      \/ \E price \in FillPrices : Fill(o, price)
    \/ Cleanup \/ Tick \/ Midnight
    \/ \E total \in OnchainTotals : Sync(total)
    \/ \E open \in SUBSET (Ids \ LegIds) : ReconcileOrders(open)
    \/ \E held \in PositionReports : ReconcilePositions(held)
    \/ \E m \in Markets : Redeem({t \in Tokens : Market[t] = m})

Spec == Init /\ [][Next]_vars

\* Events keep coming, the strategies keep submitting what was refused, and
\* the clock runs.
Fairness ==
    /\ WF_vars(Wake) /\ WF_vars(Tick) /\ WF_vars(Midnight) /\ WF_vars(Cleanup)
    /\ \A batch \in Batches : \A mids \in MidPrices : SF_vars(submitIntents(batch, mids))

FairSpec == Spec /\ Fairness

-----------------------------------------------------------------------------
(* Properties.                                                             *)

TypeOK ==
    /\ IsLedger(ledger, Ids, Tokens) /\ IsLedger(snap, Ids, Tokens)
    /\ turns \in 0 .. Strategies
    /\ cooling \in [Markets -> 0 .. MarketCooldown]
    /\ status \in [Ids -> {"new", "sent", "open", "done", "rejected"}]
    /\ outside \in 0 .. MaxOutside
    /\ lowered \subseteq Accounts /\ refused \subseteq Ids
    /\ today \in 1 .. LastDay

\* Check then reserve: what Check let through as a whole, on the snapshot of the
\* event, TryReserveProvisional finds funds for intent by intent, although
\* reservations expire and are split up in between; unless sync, reconcile or
\* redemption lowered the account it needs between the two.
CheckedIsReserved == refused = {}

\* What takes from the balance without Check's having weighed it, in this step:
\* sync and reconcile; the first batch, when one of them lowered the balance
\* after the snapshot; a later strategy of the event, checked on the same
\* snapshot; the confirmation of an order that has no provisional.
Unweighed ==
    \/ outside' # outside
    \/ turns = Strategies /\ Balance \in lowered
    \/ turns \in 1 .. (Strategies - 1)
    \/ \E o \in DOMAIN ledger'.Orders \ DOMAIN ledger.Orders :
            DOMAIN ledger'.Provisionals = DOMAIN ledger.Provisionals

\* The minimum balance is not touched: whatever is reserved, converted, filled
\* and released, only what Check did not weigh takes Available to it or below.
MinReserveKept ==
    [][ledger.Available > MinBalance /\ ledger'.Available <= MinBalance => Unweighed]_vars

\* Once the day's loss reaches the cap nothing is reserved for a new order,
\* although Check sees a snapshot and not the ledger.
LossStopsTrading ==
    [][MaxDailyLoss > 0 /\ - ledger.DailyPnL >= MaxDailyLoss
            => DOMAIN ledger'.Provisionals \subseteq DOMAIN ledger.Provisionals]_vars

\* An order on account a that reconcile books for the exchange in this step.
BookedBeyondFunds(a) ==
    \E o \in DOMAIN ledger'.Orders \ DOMAIN ledger.Orders :
        ledger'.Orders[o].ExternalOrigin /\ DrawsOn(o) = a

\* Strategies that share a snapshot may each be told that the money is there,
\* and the balance may be synced down under them; it is still not spent twice.
\* Only an order that reconcile learns of from the exchange overdraws an account.
NoOverdraft ==
    [][\A a \in Accounts :
            FreeIn(ledger, a) >= 0 /\ FreeIn(ledger', a) < 0 => BookedBeyondFunds(a)]_vars

-----------------------------------------------------------------------------
(* What the documents say, and the code does not do.                       *)

\* "auto-reset on day rollover" (the comment on ApplyFill): so the breaker that
\* a loss tripped lets the strategies trade again on a later day.
Tripped == MaxDailyLoss > 0 /\ - ledger.DailyPnL >= MaxDailyLoss
BreakerReopens ==
    (Tripped /\ ledger.DailyPnLDate < today /\ \E b \in Batches : Fresh(b)) ~> ~ Tripped
=============================================================================
