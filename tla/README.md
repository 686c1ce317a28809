# PolyPilot: specifications, model checks and proofs

PolyPilot is an automated trader for Polymarket. Feeds publish market data on an
event bus; the engine loop turns them into observations, asks the strategies for
order intents, has the risk engine check them, reserves their funds in a local
ledger and hands them to the executor; the exchange answers over HTTP and over a
WebSocket, and those answers come back over the bus and change the ledger. A
reconcile loop, a balance-sync loop and a cleanup ticker correct the ledger behind
the engine's back.

What must not go wrong is the ledger: money or tokens must not be promised twice,
a reservation must neither be lost nor stay for ever, a trade must not be booked
twice, and in the end the ledger must agree with the exchange, across crashes too.
On the way in, every few minutes one market ends and the next begins, and nothing of
the old one may leak into decisions about the new one. Those are the properties this
project states. Paths below are relative to the repository root.

## 1. Inventory

| Component | State | Operations | Hard because |
|---|---|---|---|
| Ledger (`state/state.go`, `reservation.go`, `fill.go`) | USDC available/reserved, positions, order reservations, provisional reservations, daily PnL | `TryReserveProvisional`, `AttachOrder`, `ApplyFill`, `ReleaseOrder`, `ReleaseProvisional`, `CleanupExpiredProvisional`, `ReconcileOnchainBalance`, `ClearRedeemedPositions`, `Restore` | five goroutines call it; reservations change hands; clamps at zero |
| Balance sync (`state/balance_sync.go`) | – | `SyncBalanceOnce` | reads the chain before taking the lock |
| Reconcile (`state/reconcile.go`) | trigger channel | `ReconcileWithExchange` | fetches before the lock, two critical sections, retries |
| Engine (`runtime/engine.go`, `order_tracking.go`, `event_handler.go`) | accepted, finalized and buffered events per order | `submitIntents`, `handleExecutionEvent`, replay, cleanup | two confirmations per order in either order, early and late events |
| Executor (`execution/`) | bounded queue, tracked orders, seen trade ids | `Execute`, worker, `onOrderEvent`, `onTradeEvent`, splits and merges | worker and WebSocket consumer race; posts fail after they arrived |
| Risk engine (`risk/engine.go`) | last intent per market | `Check` | judges a snapshot, while cleanup, balance sync, reconcile and redemption move the ledger on |
| Event bus (`core/bus.go`) | subscriptions, counters | `Publish`, `SubscribeWithCancel`, cancel, `Close` | lossy, channels closed under publishers, lock-free warning |
| Start-up (`state/state_restore.go`, `Engine.Start`) | – | balance read, `RestoreFromExchange`, order tracking, loops; redeem loop | runs beside the reconcile loop; every request may fail; what was in memory is gone |
| Position expiry (`state/position_expiring.go`) | registered markets, fired | register, check | re-registration between check and publication |
| Probability model (`probability/`) | market, tokens, books, z-score, window of z-scores | `OnUpdate`, `CurrentObservation`, one-second ticker | market switch without a lock, against ticker, metrics and late books |
| Strategy (`strategy/`) | remembered markets | entry, stop-loss, unwinding a failed leg | two legs that fail separately, CANCELs and SELLs that come late or fail; prices read at the moment they are reset |
| Feeds (`market/`) | current market, failures in a row | fetch, subscribe, forward, roll over | books in flight across the rollover, a lossy bus |
| Ring buffer (`internal/buffer`) | buf, idx, count | `Add`, `Last`, `Values`, `Reset` | index arithmetic, two writers |
| Indicators, metrics, observer, logging, config, chain reads, utilities | | | floating-point statistics, output, parsing |

Interaction: the engine loop is the only subscriber whose losses matter, and it
publishes to the bus it drains. The executor publishes from two goroutines. The
ledger is shared under one RW mutex; every call is one critical section.

What makes each part correct:

* Ledger: solvent; every reservation collateralised; the sum of reservations equals
  what the accounts hold back; cash neither minted nor burnt.
* Engine and executor together: whatever order the confirmations, fills and cancels
  arrive in, the ledger ends up equal to the exchange; no trade is booked twice;
  every provisional ends; every order that left the exchange gives back what it holds.
* Reconcile and balance sync: whatever was lost is repaired eventually.
* Start-up: whatever fails and whatever the reconcile loop does meanwhile, `Reserved`
  covers the restored reservations.
* Probability model and strategy: stores hold the current market's tokens only, of the
  z-scores a stop-loss looks at one at most stems from an earlier market, a failed leg's sibling
  is unwound or left alone for a named cause, the engine ends up on the current market.
* Position expiry: at most one warning of a market per registration of it. (A registration may
  go without: the full bus drops a warning, and the market stays marked as fired.)
* Ring buffer: it is a sliding window, whoever writes and resets.
* Risk: what passed `Check` finds its funds unless a writer outside the engine took them,
  the minimum balance is kept by everything `Check` weighs, a day's loss stops trading. (Two of its caps bound less than documented, see the findings.)
* Bus: no send on a closed channel, order per publisher, `Publish` never blocks, one
  warning per boundary.

## 2. Modules

| Module | Models | Extends |
|---|---|---|
| `Sums` | finite sums, which every total of the models is | community modules |
| `LedgerOps` | the ledger as a value, one operator per critical section of `State.mu` | `Sums` |
| `OrderTerms` | the terms of the orders, their price limits, the ledger at the start | `LedgerOps` |
| `Ledger` | the ledger under its concurrent callers, with the chain beside it | `OrderTerms`, instance of `Escrow` |
| `ReconcileOps` | the two critical sections of a reconcile pass, and `Restore` | `LedgerOps` |
| `ExecutorOps` | tracked orders: WebSocket messages to execution events | – |
| `OrderFlow` | engine loop, executor queue and worker (live and dry run), WebSocket consumer, bus, exchange, reconcile loop, crash and restart, composed | `OrderTerms`, `ReconcileOps`, `ExecutorOps` |
| `Risk` | `Check` on a shared snapshot, then the reservation on the ledger; the goroutines that write it meanwhile | `OrderTerms`, `ReconcileOps` |
| `EventBus` | `core/bus.go` at the grain of channel operations and atomics | – |
| `MarketFlow` | feeds, bus, engine loop, probability model, strategy, ticker, metrics and expiry goroutines, composed | community modules, instance of `RingBuffer` |
| `RingBuffer` | `internal/buffer/ring_buffer.go` as operators on a value | – |
| `SlidingWindow` | what a window of recent values promises (abstract) | – |
| `Escrow` | what a ledger with reservations promises (abstract) | `Sums` |
| `SumProofs` | induction over finite sets and numbers, laws of sums | `Sums` |
| `LedgerOpsProofs` | what each operator of the ledger keeps, and what it moves | `OrderTerms`, `SumProofs` |
| `ReservedProofs` | the same for reconcile and `Restore`, which loop over orders | `ReconcileOps`, `LedgerOpsProofs` |
| `LedgerProofs` | theorems | `Ledger`, `LedgerOpsProofs` |
| `OrderFlowProofs`, `RiskProofs` | theorems | `OrderFlow`, `Risk`; `ReservedProofs` |
| `EventBusProofs`, `MarketFlowProofs` | theorems | `EventBus`; `MarketFlow` |
| `MCLedger`, `MCOrderFlow`, `MCRisk`, `MCEventBus`, `MCMarketFlow` | instances for TLC | |

`PROJECT.json` maps every definition to the lines it stands for.

### Correspondence

*Ledger.* `ledger` is `state.State`: `Available`, `Reserved`, `Tokens`, `Orders`,
`Provisionals`, `DailyPnL`, `DailyPnLDate`. Go maps are functions with a finite
domain (`Put`, `Del`). An operator returns the new state, and where the caller looks
at the error also the error. `ExpiresAt` is a countdown (`Life`). `wallet` and
`mined` are the chain: a trade settles first (`Mine`) and reaches the engine later
(`Fill`). `SyncRead`/`SyncWrite` split balance sync at the lock. `called` records
which call was made for which order, so that the environment makes only calls the
engine makes (no fill before an Accepted, one end per order). `setup` says which orders
and goroutines take part in a behaviour and is chosen at the start. `Redeem` clears a
position as often as the 20-minute loop likes; the redemption on chain is commented out
in `redeemOnce`, so no cash comes with it.

*OrderFlow.* One variable per piece of state of each goroutine: `accepted`,
`finalized`, `pending` (engine maps), `loop` (the events being replayed and the order
a Filled event is about to close, because other goroutines run between `ApplyFill`
and `ReleaseOrder`), `tracked`, `queue`, `worker`, `wsOut`, `bus`, `recon`; and the
exchange: `exch`, `trades`, `ws`. `Deliver` handles one WebSocket message under the
executor's lock, `WSPublish` publishes after it; `WorkerTrack`/`WorkerPublish` do the
same on the HTTP side. `Deliver` picks any message, or with `InOrder` the first one of
its order. A post may reach the exchange although its answer is lost (`FaultyPost`). `Match`
takes any size up to what is left of the order, and `plan.overmatch` beyond it: an order is filled
in parts, and by more than its size, as `fill.go:45` and `placements.go:282` expect.
An order's intent carries the order's id: the id the exchange assigns is not
needed to tell orders apart. Intents reach `submitIntents` without `Check` here,
because a risk engine only refuses: every behaviour with it is one without it.
`plan` says which batches the strategies submit, which orders are placed by hand, how often
the process may die and whether the executor runs dry, when `Execute` answers every PLACE at once with an
Accepted and a Filled. A dry run and the relayer's legs get ids the executor makes up from
the clock: `Fresh` says that they were never used. Such orders never enter the exchange's
book (`OffBook`), and the WebSocket never speaks of their trade.

*Restart.* `Crash` empties everything the process holds; the exchange goes on, and what it
says meanwhile reaches nobody (`Send`). `boot` then walks through `Engine.Start`: the read
of the on-chain balance, its write, the two requests of `RestoreFromExchange`, the read of
the balance under a lock that is released before `Restore`, `Restore` with the order
tracking, the loops. Each request may fail, and the engine starts all the same. The
reconcile loop is started by `main` and runs throughout, so its passes interleave with
all of this. `boot.missed` remembers, for the runs without reconcile, that a start could not
read something or that a trade fell between its two requests.

*MarketFlow.* A market is the number of its time window, a token a market and a side. A
switch is taken apart at each operation another goroutine can see: `PrepareReset` (the
open price, with retries), `ZeroZ`, `ResetStores`, `StoreTokens`, `ReplaceMarket`; between
them run the one-second ticker (`TickerLoad`, `TickerAdd`) and the metrics goroutine
(`MetricsClone`, `MetricsTokens`). `tokens` keeps whether the ask is known, `books` the
timestamp of the stored book, `latestZ` whether the z-score exceeds `MinZ` and for which
market it was computed. `OnMarket`, `OnBook`, `OnTradeFailed` are the strategy; their
batches go through `Submit`, where `Check` may refuse one that contains an order. A BUY is
posted, confirmed, matched, and then mined and booked, or failed; until it is booked the ledger shows it
as open. A CANCEL is under way (`asked`) until it takes effect, comes too late for an order that
has matched, or fails; a SELL rests (`held` is "selling") until it fills, or its reservation or
post fails. A full queue rejects whichever is in the batch (`RequestFails`, `OrderRejected`), and
the strategy does not react to that. `exposed` collects the legs left alone for one of
these causes. An empty position is deleted, so a leg that was sold looks like one never bought.
`warned` counts the warnings the bus took. A `scene` bounds what happens in a behaviour, so
that one run covers several situations without multiplying them.

*Risk.* `snap` is the snapshot of one event, `turns` the strategies still to be asked
about it; a refused batch ends the event. `cooling` counts the cooldown down. `Check` is
the conjunction of its caps; the kind of refusal is only logged. Confirmations and
fills are single actions here, `OrderFlow` takes them apart. The other writers of the ledger
are here too and may run between the snapshot and the reservation: the cleanup ticker, `Sync`
(any total of `OnchainTotals`), the two critical sections of a reconcile pass (any set of orders
that may have been open, with their full size; any of `PositionReports`) and `Redeem`. `outside` counts and bounds their
writes; `lowered` names the accounts in which they left less since the snapshot, and is all that
`CheckedIsReserved` excepts. `MinReserveKept` and `NoOverdraft` are action properties: they say
which steps may take an account to its minimum (`Unweighed`: those writes, a batch after one, a later strategy on the
same snapshot, the confirmation of an order without a provisional) or below zero (only an order
that reconcile books for the exchange, `BookedBeyondFunds`).

*EventBus.* `pc` walks a publisher through `Publish`: count, read lock, one select per
subscriber, the atomic loads and the compare-and-swap of the warning, unlock. `waiting`
is Go's RWMutex rule that a waiting writer keeps new readers out.

### Abstractions

* Money is counted in price ticks (`One` ticks are 1 USDC), sizes in whole tokens, so
  products are exact and `FloatEpsilon` is 0. Rounding is not modelled. Prices in the
  instances are multiples of 6 and at most 3 tokens are bought, so the average cost
  is an integer too. `Risk` counts a SELL's tokens as dollars in the exposure cap, as
  the code does.
* A token stands for its (market, token) pair.
* A WebSocket trade message that names several of our orders is one message per order.
* A split or merge that the relayer accepts settles at once.
* The market events that share the engine's channel are modelled by its small capacity.
* Critical sections that commute with everything between them are one action (a
  refused batch's rejections are published together).

### The exceptions in `harmed`

The program has limits that no ordering can repair locally, and `QuietAgreement` and
`EveryOrderSettles` except the orders that met one: an event the full bus dropped or
the buffer forgot after 30 s, a finalized mark forgotten after 10 min, an Accepted
that found no funds, a trade heard after its order was cancelled or complete
(`HeardTooLate`), a fill that takes more than the order holds (`CostsMore`), a failed
trade, a cancel the full queue refused, a crash while the order was open or settling.
`ReconcileHeals` has no such exception.

Messages of one order that swap lead to a case that deserves its name, `Revives`. A trade MINED before
the executor knows the order's size is published as PartiallyFilled, although it fills the
order; LIVE attaches a reservation, the fill empties and deletes it, and then the HTTP answer finds
the provisional still there and converts it into a reservation of an order that is gone.
An overfill has a milder form of it: heard first, it completes the order, and the trade heard next
is not booked.

In `MarketFlow`, `exposed` and `lost` play the same part for `NoNakedLeg` and
`FollowsTheMarket`: a leg whose market was forgotten, which was not confirmed when its sibling failed, whose
batch `Check` refused, whose CANCEL came too late or failed, whose SELL failed; events the bus
dropped, a market whose open price could not be fetched. `NoNakedLeg` speaks of failed trades,
because the strategy reacts to nothing else: a leg whose sibling's post was rejected,
or which the exchange cancelled, stays alone and nobody looks.

## 3. Runs

| Run | Question | Bounds |
|---|---|---|
| `ledger` | solvent, collateralised, equal to the chain: two buys (one by hand) and a sell competing for cash that covers some of them; redemption and balance sync; overfills across midnight. Does sync converge although it writes stale reads? Is every step one of an escrow, to the unit? | 3 setups of 2–3 orders, sizes 1–2, fills at, below and without price, expiry after 1 tick, fair; 340 000 states |
| `flow_chaos` | one order under reordering, duplication, dropped events, failed posts and trades, forgotten buffers: nothing booked twice, every provisional ends, every order settles | size 2, 1 duplicate, bus of 2, fair; 97 000 states |
| `flow_agree` | do double confirmation, buffering, replay, partial fills and overfills, refusal by a full queue, malformed intents, a split and a merge beside an order placed by hand, a dry run, and a crash at any point end equal to the exchange, and spend nothing twice, in whatever order the messages of an order arrive? | 4 plans of up to 2 batches, sizes 1–2, messages in any order, a match of 1 beyond the size in one plan, queue of 1, bus of 3, cash for some of the contenders, 1 crash in one plan; 876 000 states |
| `flow_heal` | do reconcile and restart repair every loss, whatever fails, and whatever trades between the two requests of a restart? | a BUY of 1 by the strategy or a SELL of 2 by hand, 1 crash, bus of 1, failing posts and fetches, fair; 293 000 states |
| `risk_check` | check-then-reserve, minimum balance and breaker, two strategies per event, all caps on, the ledger written by others in between | 8 orders (one by hand), 7 batches, 1 write from outside, 2 days; 759 000 states |
| `bus` | capacity, warnings, closing, order, and do `Publish` and the writers return? | 2 publishers of 2 events, 1 subscriber, capacity 1, threshold 1, fair |
| `market_switch` | one market after another with late books, ticker, metrics, failing legs, CANCELs and SELLs that come late or fail, refused batches, expiry and failing requests; does the ring buffer implement a sliding window? | 2 markets of 2 ticks, 8 scenes, bus of 2, ring of 2, 1 market remembered, fair; 295 000 states |

Why these bounds suffice for what is asked: the hazards need two contenders for one
balance, two messages to be swapped, one duplicate, one full channel and one expiry;
sizes up to 2 give partial fills, cash is chosen so that some but not all contenders
fit. A crash matters once: a second one finds a state the first could have left. A write from
outside the engine matters once too: what it leaves is a ledger that an earlier one could have left. For
markets, two are one switch with events of both sides in flight; a ring of 2 wraps. No symmetry is used, so the
liveness results are sound. Deadlock checking is off:
each instance submits finitely many batches and then rests.

### Fairness

Weak fairness on every goroutine's own steps (event loop, worker, WebSocket consumer,
tickers, reconcile loop): they loop for the life of the process and none of these steps
waits for anything but its own input. HTTP calls return (the client has time-outs).
Strong fairness on the second fetch of a reconcile pass: fetches may fail any number
of times, not for ever. A process that died is started again, and the steps of its start follow one another.
`MarketFlow` adds that time passes and that fetches return (a scene bounds how often they
fail); nothing is assumed of books and prices, nor of the expiry loop, which nothing starts.
Nothing is assumed of traders or of the exchange's matching,
nor of bus subscribers in `EventBus`. `Risk`'s fair specification adds that events keep
coming, midnight arrives and strategies keep submitting what was refused.

### Findings

Runs that TLC must refute, each stating what a comment, test or document says:

| Run | What happens |
|---|---|
| `ledger_residual` | a BUY filled below its limit leaves the difference in `Balance.Reserved` for ever: `ApplyFill` deletes the entry before `ReleaseOrder` could free it |
| `flow_ws_first` | LIVE before the HTTP answer with cash for one order: the fill is lost, and the late answer books a reservation for a finished order |
| `flow_stale_fetch` | an order accepted between a reconcile fetch and its lock loses its reservation |
| `risk_breaker` | after a losing day the breaker refuses the SELL that alone could reset it |
| `market_panic` | the metrics goroutine clones the old market, the switch deletes its tokens, and the type assertion in `getTokens` panics: the lock the comments ask for does not exist |

Smaller differences the models show, without a run of their own: `max_open_orders`
counts confirmed orders and not the intents under way, so two of these may pass a cap of one
(`OpenOrdersAllow`); `max_exposure_per_market`, documented as "reserved+filled", forgets an order
once it is filled, and adds a SELL's tokens to dollars (`ExposureAllows`); `AttachOrder` on a known order does modify the
state, rightly, by freeing the provisional (`AttachOrder`); one drop warning may
stand for several boundaries (`LoadTotal`, `Warn`); a book older than the stored one is not stored but
still updates the token's price (`updateToken`); the whole batch that unwinds a failed leg
is refused within the cooldown or behind the breaker, the CANCELs in it included (`Submit`);
"Each market fires at most once" (`state/position_expiring.go:28`) holds of a market registered
once only, a second registration lets it fire again (`RegisterMarketExpiry`), and a warning the full bus drops
is not repeated (`PublishWarning`); nothing registers markets, starts the expiry loop or calls
`OnPositionExpiring`; after a start that could not read the balance, `Available` is
negative until the next sync (`boot.missed`).

Two larger ones:

* With a positive `MinInPrice` (the default is 0.4, `strategy/strategy.go:40`) the strategy never
  trades: the switch stores the new market's tokens without a price right before the strategy
  looks at their asks (`StoreTokens`, then `OnMarket` in `ReplaceMarket`), and it looks only once.
  `strategy/strategy_more_test.go:56` (`TestOnUpdate_EventMarket_HappyEmitsTwoBuyIntents`) expects two
  BUY intents from the same event with the same default, because it hands the strategy asks of
  0.6, which the engine never does at that moment. The models keep the gate (`gated`) and state
  no property of it: the behaviour is not what the test intends, and a property that holds would
  present it as a promise.
* A start whose open orders and positions were read on two sides of a sale reserves tokens that
  are gone, and no reconcile pass gives them back. A SELL of 2 of which 1 fills between the two
  requests is restored over a position of 1: `Available` -1, `Reserved` 2. Reconcile lowers the order's
  remaining size but not what it holds (`state/reconcile.go:136`), and leaves the position alone because
  its sum is right (`state/reconcile.go:255`). `Available` stays at -1 until the order ends. With a third
  token in hand nothing is negative, but when the rest fills, the last fill deletes the reservation with the
  token it holds too many, which stays in `Reserved` held by no order: there is nothing left to correct the sum for.
  `ReconcileHeals` (`CountsTokens`) says what is healed: which orders hold a reservation, and how many tokens
  there are, but not how they divide.

### Refinement

`ImplementsEscrow`: `Escrow` knows accounts, deposits and what is free, and says in one line each
what may happen to them: a deposit is pledged out of free funds, taken over by an order,
withdrawn, paid out on a trade of its own order, or returned in full. `Ledger` implements it with

    free    <- Available of every account      pledged <- the Reserved of the provisionals
    stuck   <- Reserved that no entry holds    placed  <- the Reserved of the open orders

The invariants on the balance compare sums: they do not notice a release that gives
back too little and leaves the difference behind, or a conversion that re-prices what it converts. The
refinement does: `ReleaseOrder` returns exactly what the entry holds (the mutant returns what the
remaining size needs, which differs after a fill below the limit), the cleanup of any set of
provisionals is one withdrawal, and no clamp at zero ever cuts anything off.
`stuck` is the finding of `ledger_residual`, named: only the last fill of a BUY may add to it,
and nothing ever takes from it. Balance sync is `Recount` and the redeem loop `WriteOff`; `Escrow` allows both at any time,
so it does not bound what they make of the free funds, only that the deposits are untouched.

`RingImplementsWindow`: with the ring mapped to `Values(zWindows)`, every step of `MarketFlow`
is a step of `SlidingWindow` (a value written, the oldest dropped when full; a reset) or
leaves the window alone. This covers the index arithmetic, the wrap-around and the reset
by the engine loop between two writes of the ticker.

## 4. Proofs

TLAPS checks every theorem for all values of the constants: any finite set of orders and
tokens, any terms and prices, any plans, batches, queue sizes, numbers of publishers, markets
and ticks. The only assumptions are the named ones at the head of each module, and TLC
evaluates them on every run. TLC finds every inductive invariant below true in all states of the
passing runs of its module.

| Theorem | States |
|---|---|
| `LedgerType`, `LedgerNeverOverdraws`, `LedgerCollateralised`, `LedgerBalanceCovers`, `LedgerTokenExact`, `LedgerCashConserved` | all six invariants of the run `ledger` |
| `LedgerIsEscrow` | its refinement |
| `RiskType`, `RiskNeverOverdraws`, `RiskCheckedIsReserved`, `RiskMinReserveKept`, `RiskLossStopsTrading` | all five properties of `risk_check` |
| `BusType`, `BusNeverSendsOnClosed`, `BusPublisherOrder`, `BusWarnsOncePerBoundary` | all four invariants of `bus` |
| `MarketType`, `MarketTokensFollow`, `MarketAtMostOneStaleZ`, `MarketNoNakedLeg`, `MarketWarnedOnce`, `MarketRingIsWindow` | all five invariants of `market_switch`, and its refinement |
| `OrderFlowType`, `OrderFlowTracking`, `OrderFlowBookedOnce`, `OrderFlowReservedCovers` | the first three invariants of `flow_chaos` and the one of `flow_heal` |
| `OrderFlowFirstLife` | the ledger solvent and collateralised up to the first crash, without reconcile |

### Induction over data

The properties of the ledger are about sums over all reservations, and the library's induction
theorems take an operator, which the provers cannot instantiate. `SumProofs` does without:
that strict inclusion is well-founded on the subsets of a finite set has no operator parameter,
so the set of counterexamples, if there were one, would have a minimal member
(`MinimalSubset`), and one element removed from it gives the contradiction. `NatSetInduction`
gets induction over numbers the same way. From these follow the laws the rest needs: a sum
with an element added, removed or changed, sums that agree, compare, or split by a
predicate, and the same for the loops over orders in `ReservedProofs` (`LoopExists`, `LoopStays`:
a fold over a set keeps what each of its steps keeps).

### Ledger

    Inv == TypeOK /\ Sound(ledger) /\ MinedWithinLimit
           /\ BalanceCoversReservations /\ TokenReservedExact
           /\ SizesCovered /\ SyncOff /\ IsFiniteSet(Pending(mined)) /\ CashConserved

* `Sound` adds to `NoOverdraft` and `ReservationsCollateralised` that a reservation carries the
  terms of its order. Without that, a fill of `o` (priced within the limit of `Order[o]`) could
  consume more than the reservation entered under `o` was sized for.
* `MinedWithinLimit`: trades under way respect their limit, which `ApplyFill` relies on and does
  not check. It rests on the guard of `Mine`, the exchange's promise.
* `SizesCovered`: a reservation is at least as large as what was never matched plus the
  trades it has still to pay for. So a fill that finds its reservation is not clamped to it,
  and the cash it books is the cash the wallet moved; `CashConserved` needs exactly that.
* `SyncOff` and the finite set of pending trades make the sum over them meaningful.

`LedgerOpsProofs` has two lemmas per operator: `Sound` in, `Sound` out, and what it does to the two
sides of the books (`HeldBy`, `TakenFrom`, the cash). The step theorem has a case per action.

`LedgerIsEscrow` uses that invariant. A third group of lemmas says what each operator does to a single
account (`ReleaseAccounts`, `CleanupAccounts`, `TradeAccounts`, `FundsThere`), where the invariants only
needed sums. Then there is one lemma per critical section, which names the step of `Escrow` it is:

* `AttachOrder` is `Convert` if the provisional is still there, `Place` if it expired, a
  stutter if it found no funds, `Withdraw` if the order was known already.
* `ApplyFill` is `Trade`. `Sound` bounds what the trade consumes by what the entry holds: the
  entry was sized at the limit and the trade is within it. For a SELL consumption and size are the same,
  so the last one leaves nothing; for a BUY the rest is what gets stuck.
* `CleanupExpiredProvisional` is one `Withdraw` of all that expired. It folds over them; each
  account gains the sum over the removed entries on it, in whatever order they are removed.
* The deletion of an empty position, and `ClearRedeemedPositions` on one that still
  backs a SELL, are where an absent entry has to read as zero: `WriteOff` sets what is free and leaves the deposits.

### Risk

    Inv == TypeOK /\ Covers(ledger) /\ SnapshotHonest /\ ReservedWasSent /\ CheckedIsReserved

Why may a check on a snapshot be trusted, and how far? `SnapshotHonest`: while strategies are being asked
no fill is booked, so the loss in the snapshot is the ledger's; and until the first of them has
submitted, every account has at least what the snapshot shows, but for the `lowered` ones.
`submitIntents` is a fold over the batch; its loop invariant (`Progress`) says that after `n` intents
what is free has shrunk by at most what the first `n` were weighed at, and the cost of the rest, which
`Check` summed, still fits. It needs that no two PLACE intents of a batch share an id (in
`RiskAssumption`; `src/runtime/order_tracking.go:165` numbers them). A batch whose balance was lowered
may fail on it and still succeed on a token: `FailedIn` keeps the accounts apart.

The ledger need not be solvent, because reconcile books orders without looking. So the lemmas compare a ledger
with the one before it: `Keeps` (every account has at least what it had: cleanup, clock, release, fill, the
confirmation that converts) and `Rewrites` (an account that has less is not negative, or an order
of the exchange was booked on it: sync, redemption, both halves of reconcile, whose loops over orders
come from `ReservedProofs`). `Covers` makes a release give and not take: `Reserved` covers what is released, so
the clamp at zero never bites. `RiskNeverOverdraws`, `RiskMinReserveKept` and `RiskLossStopsTrading` are action
properties and follow from one lemma about a step (`Safe`).

### Event bus

* `LockInv`: readers' remaining subscribers are subscribed, subscribed channels are open. Only a
  writer could falsify it, and no writer runs beside a reader.
* `WarnInv`: `lastWarned` is the last warning, and a publisher about to swap holds a total beyond
  the boundary of the value it compares with.
* `OrderInv`: what a subscriber has seen of a publisher is no later than the event the
  publisher is at, and earlier while that event may still be sent to it.

### Market switch

* `TokensInv`: what the token store holds at each step of a switch: the old market's tokens
  up to `ResetStores`, some of the new one's until `StoreTokens` is through, all of them after.
* `ZInv`: except between clearing `latestZ` and clearing the window, the window has one value
  of another market at most, and none if the ticker is about to add such a one.
* `LegInv`: every leg left alone is exposed, under a CANCEL, or the event that will unwind it is on the
  bus or lost. It has a case for each answer of the exchange: a CANCEL that ends, in effect, late or failed, moves
  its order out of the legs left alone or into `exposed`, and so does a SELL.
* `WarnInv`: per market, published, about to fire and registered but not yet fired never exceed the registrations.

`MarketRingIsWindow` is the refinement, for a ring of any size: `Add` on a ring that is full, on
one that is not and across the wrap-around appends to the window and drops its oldest value, `Reset`
clears it, and every other step of the system leaves it alone.

### Order flow

    Inv == Covers(ledger) /\ LoopType /\ TrackingConsistent /\ ChannelType
           /\ asked \subseteq plan.batches /\ harmed \subseteq Ids
           /\ ExecutorType /\ ExchangeType /\ ReconType /\ BootType
           /\ DownInv /\ OnceInv

* `Covers` (`ReservedProofs`): `Reserved` is at least the sum of the BUY reservations. Reconcile and
  `Restore` reserve without looking at the balance, so it has to hold on insolvent ledgers
  too, through every removal, attachment and adjustment of their loops.
* `TrackingConsistent` is inductive but for one step: `BootRestore` puts restored orders into
  `accepted`. `DownInv` says that a process that is not up has nothing in memory, so the restored orders
  meet no finalized mark and no buffered event.
* `OnceInv`: orders that never enter the book (legs of splits, placements of a dry run) trade
  once, and the worker of a dry run has nothing to do. The type of the trades rests on it.
* `OrderFlowAssumption`: an order placed by hand is no leg and no strategy's; a dry run's batches
  hold PLACE and CANCEL only; intents are made from known ids.

`OrderFlowBookedOnce` (`NeverOverbooked`) needs an account of every trade on its way to the
ledger, the second invariant:

    OnceOnlyInv == BookedOnce /\ MessagesTrue /\ NothingYet /\ BufferedOwn

* `BookedOnce`: per token, what the ledger counts as bought is at most the sum of `Due(o)` over
  the BUY orders of the token. `Due(o)` is what the executor was told of `o` (`Told`: the settled
  trades whose id is in `SeenTradeIDs`; all of them for an order off the book) less what
  waits between there and the ledger (`InFlight`: `wsOut`, the worker's events, the bus, the events
  being replayed, the buffer). Each step then has one line in the account: a trade delivered for
  the first time adds as much to `Told` as to `InFlight`, one delivered again adds nothing, a
  publication moves or drops, a fill takes from `InFlight` what it adds to the ledger, a buffer
  that expires only gives away. No step lets `Due` fall, which is `DueGrows`.
* A crash forgets `SeenTradeIDs`, so the exchange may tell everything again. But it forgets the
  ledger's counts as well, and `Restore` and reconcile set positions without counting them as
  bought: the account starts again from nothing.
* `MessagesTrue` and `NothingYet`: a MINED message is about a trade in the book that has settled, and
  an order that was not opened has no trades, so that a leg's or a paper fill is the first one.
* `BufferedOwn`: what is buffered for an order is about that order, so replaying it moves
  nothing into the account of another.

`OrderFlowFirstLife` carries `Sound` from the ledger to the composed system: as long as no pass
and no restart has reserved without a funds check, no interleaving of engine, worker, WebSocket
consumer, bus and exchange makes the ledger negative or a reservation too small.

### Only model-checked

* Liveness and ENABLED: out of the prover's reach. That is `BalanceConverges`, `ProvisionalsEnd`,
  `EveryOrderSettles`, `ReconcileHeals`, `PublishReturns`, `WritersReturn`, `FollowsTheMarket`.
* `OrderFlow!NoOverdraft` beyond the first life. It holds on the instances and not for all
  constants: `Restore` attaches the orders it finds on the exchange, the ones placed by hand
  among them, whether the balance covers them or not.
* `QuietAgreement`: it is an equation between ledger and exchange at rest, with an
  exception for every limit in `harmed` and for starts that read nothing. A proof needs the account of
  `OnceOnlyInv` as an equation, over cash and reservations as well as tokens, and what each of the
  plans rules out; `NeverOverbooked` and `OrderFlowFirstLife` are the inequalities in it
  that hold for all constants.
* The violated properties of the findings.

## 5. Not modelled, and the plan

Not modelled, and why:

* Floating-point: rounding, `FloatEpsilon`, the z-score's statistics, order-book imbalance,
  `CalculateMarketPrice`. TLC has integers; the models keep what decisions depend on.
  `OnTick` counts bars, so that the order in which it fills missing seconds is left out.
* `drainQueueOnShutdown`: its rejections are published to an engine loop that stops on the
  same context; whatever they change dies with the process (`Crash`).
* `ConfirmProvisional` and `AttachExternalOrder` have no caller outside tests; the strategies'
  `OnTick` and `OnResolved` hooks have no implementation; `OnPositionExpiring` has no caller;
  `EventProbability` has no publisher; `checkResolved` and `UnrealizedPnL` are pure reads that
  nothing acts on; resolved events and the mock feed change no state.
* Configuration, logging, counters, ABI encoding: parsing and output.
* Trades without an id: the executor books such a trade each time it is told of it
  (`execution/trade_events.go:189`); every trade of the models has one.
* In `MarketFlow` an order has one trade, which fails as a whole; the rest of a partly filled order
  is `OrderFlow`'s subject.

What could come next:

1. `QuietAgreement`: the account of `OnceOnlyInv` as an equation (booked plus in flight is told,
   told plus under way on the WebSocket is settled) for the orders not in `harmed`.
2. `NoOverdraft` across restarts, under an assumption on what the exchange lets rest: an
   order whose confirmation found no funds is still open there, and a restart reserves for it.
3. The escrow for `OrderFlow`: its steps apply several critical sections at once (a batch of
   reservations, a restore), so `Escrow` would have to take them one after the other.
