----------------------------- MODULE MarketFlow -----------------------------
(***************************************************************************)
(* The market data path: every few minutes one market ends and the next    *)
(* begins, while books, prices and execution events of both are under way. *)
(*                                                                         *)
(*   slug feed, price feed -> event bus -> engine loop                     *)
(*     -> probability engine (market, tokens, books, z-score)              *)
(*     -> strategy (buys both outcomes of a new market, stop-loss)         *)
(*                                                                         *)
(* Goroutines: the two feeds, the engine loop, the probability engine's    *)
(* one-second ticker, the metrics ticker and the position-expiry loop.     *)
(* The probability engine has no lock of its own: each atomic, sync.Map or *)
(* SafeState operation another goroutine can observe is a step.            *)
(*                                                                         *)
(* A market is the number of its time window.  A z-score is reduced to     *)
(* what the strategy asks of it, whether it exceeds MinZ: 0, or the market *)
(* it was computed for.                                                    *)
(***************************************************************************)
EXTENDS Integers, SequencesExt

CONSTANTS
    LastMarket,     \* bound: the markets are 1 .. LastMarket
    Window,         \* the length of a market in clock ticks (WindowMinutes)
    BusCap,         \* the engine's subscription channel
    MaxFailures,    \* maxConsecutiveFailures of the slug feed
    RingSize,       \* NewRingBuffer(60)
    BarWindow,      \* NewZScore(60)
    ZAgo,           \* how many of the last z-scores must exceed MinZ
    TimeLeftSec,    \* the strategy opens positions with so much time left,
    LastSeconds,    \* and closes none in the last (5) seconds
    MarketQueueCap, \* markets the strategy remembers
    WarnBefore,     \* StartPositionExpiringLoop's warnBefore
    Scenes          \* what may happen in a behaviour, see below

Markets == 1 .. LastMarket
None == 0

Sides == {"up", "down"}
Tokens == Markets \X Sides
TokensOf(m) == {m} \X Sides
Other(t) == <<t[1], IF t[2] = "up" THEN "down" ELSE "up">>

EndTime(m) == m * Window

\* A scene bounds what happens in a behaviour.  last: the last market; gated:
\* MinInPrice > 0; books, prices, seconds (of the ticker), registrations,
\* failures (of a request, to the exchange too), accepts (of an order), refusals
\* (by the risk engine): how many there are at most;
\* stamps: the timestamps of books; outcomes: how orders may end; metrics: the
\* metrics ticker runs.
Counted == {"books", "prices", "seconds", "registrations", "failures", "accepts",
            "refusals"}

ASSUME MarketFlowAssumption ==
    /\ {LastMarket, Window, BusCap, MaxFailures, RingSize, BarWindow, ZAgo,
        MarketQueueCap} \subseteq Nat \ {0}
    /\ {TimeLeftSec, LastSeconds, WarnBefore} \subseteq Nat
    /\ \A s \in Scenes : /\ s.last \in Markets
                         /\ \A what \in Counted : s[what] \in Nat
                         /\ s.gated \in BOOLEAN /\ s.metrics \in BOOLEAN
                         /\ s.stamps \subseteq Nat
                         /\ s.outcomes \subseteq {"filled", "failed"}

VARIABLES
    clock,      \* wall clock time
    feed,       \* the slug feed: where it is, its market, failures in a row
    obChan,     \* books the market monitor has for the feed
    bus,        \* the engine's subscription channel
    loop,       \* the engine loop: idle, or where in a market switch
    market,     \* probability.Engine.market, None at first
    tokens,     \* probability.Engine.tokens: whether the ask price is known, or 0
    books,      \* probability.Engine.books: the timestamp of the stored book
    latestZ,    \* signalState.latestZ
    zWindows,   \* the ring of recent z-scores
    zscore,     \* indicators.ZScore: lastSec and the number of bars
    ticker,     \* the one-second ticker: a z-score it has loaded, or NoZ
    metrics,    \* the metrics goroutine: the market it has cloned, or None
    markets,    \* Strategy.markets, oldest first
    orders,     \* orders[t]: the strategy's BUY of token t
    held,       \* held[t]: the ledger's position in t, "selling" while a SELL rests
    asked,      \* tokens whose BUY the executor has been asked to cancel
    expiry,     \* State.expiryMarkets: registered markets, and whether fired
    toFire,     \* the expiry loop: markets it is about to warn of
    warned,     \* warned[m]: warnings of m the bus took
    registered, \* registered[m]: registrations of m
    panicked,   \* the goroutine that panicked, which ends the process, or "none"
    lost,       \* Market and Execution events that came to nothing: dropped by
                \* the bus, or a market whose open price cannot be fetched
    exposed,    \* legs left alone: the answer to a failed trade was not given
                \* (market forgotten, order unconfirmed, batch refused), or a
                \* CANCEL or SELL of the leg came to nothing
    scene, made \* the scene, and how often what it bounds has happened

feedVars == <<feed, obChan>>
probVars == <<market, tokens, books, latestZ, zWindows, zscore>>
sideVars == <<ticker, metrics, panicked>>
stratVars == <<markets, orders, held, asked, exposed>>
expiryVars == <<expiry, toFire, warned, registered>>
worldVars == <<clock, scene, made>>
vars == <<feedVars, bus, lost, loop, probVars, sideVars, stratVars, expiryVars, worldVars>>

NoZ == -1
Ring == INSTANCE RingBuffer WITH Size <- RingSize, Data <- {None} \cup Markets

Idle == [at |-> "idle", market |-> None]

Init ==
    /\ clock = 0
    /\ feed = [at |-> "fetch", market |-> None, failures |-> 0]
    /\ obChan = << >> /\ bus = << >> /\ lost = {}
    /\ loop = Idle
    /\ market = None /\ tokens = << >> /\ books = << >>
    /\ latestZ = 0 /\ zWindows = Ring!NewRing(0)
    /\ zscore = [lastSec |-> 0, bars |-> 0]
    /\ ticker = NoZ /\ metrics = None /\ panicked = "none"
    /\ markets = << >> /\ asked = {} /\ exposed = {}
    /\ orders = [t \in Tokens |-> "none"] /\ held = [t \in Tokens |-> "none"]
    /\ expiry = << >> /\ toFire = {}
    /\ warned = [m \in Markets |-> 0] /\ registered = [m \in Markets |-> 0]
    /\ scene \in Scenes
    /\ made = [what \in Counted |-> 0]

Alive == panicked = "none"

\* Once more of what the scene bounds.
May(what) == made[what] < scene[what]
Count(what) == made' = [made EXCEPT ![what] = @ + 1]

MarketEvent(m) == [kind |-> "Market", market |-> m]
TradeFailed(t) == [kind |-> "Execution", token |-> t]

\* A full channel drops the event.
PublishTo(q, e) ==
    IF Len(q) < BusCap
    THEN bus' = Append(q, e) /\ UNCHANGED lost
    ELSE /\ lost' = IF e.kind \in {"Market", "Execution"} THEN lost \cup {e} ELSE lost
         /\ bus' = q

Publish(e) == PublishTo(bus, e)

-----------------------------------------------------------------------------
(* The slug feed and the market monitor it listens to (external).          *)

\* The window now falls in; time stops in the last one.
slugFor(now) == IF now < EndTime(scene.last) THEN (now \div Window) + 1 ELSE scene.last

\* The market of the slug is fetched and published, then its tokens are
\* subscribed to.  (A slow answer is as good as a slow bus.)
FetchMarketBySlug ==
    /\ Alive /\ feed.at = "fetch" /\ slugFor(clock) # feed.market
    /\ feed' = [at |-> "inner", market |-> slugFor(clock), failures |-> 0]
    /\ Publish(MarketEvent(slugFor(clock)))
    /\ UNCHANGED <<obChan, loop, probVars, sideVars, stratVars, expiryVars, worldVars>>

\* Every so many failures in a row a RiskEvent is published.
FetchFails ==
    /\ Alive /\ feed.at = "fetch" /\ slugFor(clock) # feed.market
    /\ May("failures")
    /\ Count("failures")
    /\ IF feed.failures + 1 >= MaxFailures
       THEN feed' = [feed EXCEPT !.failures = 0] /\ Publish([kind |-> "Risk"])
       ELSE feed' = [feed EXCEPT !.failures = @ + 1] /\ UNCHANGED <<bus, lost>>
    /\ UNCHANGED <<obChan, loop, probVars, sideVars, stratVars, expiryVars, clock, scene>>

\* The monitor has a book of a subscribed token; nothing is said about the
\* order of timestamps.
MonitorBook(t, stamp) ==
    /\ Alive /\ feed.at = "inner" /\ t \in TokensOf(feed.market)
    /\ May("books")
    /\ obChan' = Append(obChan, [kind |-> "OrderBook", token |-> t, Timestamp |-> stamp])
    /\ Count("books")
    /\ UNCHANGED <<feed, bus, lost, loop, probVars, sideVars, stratVars, expiryVars,
                   clock, scene>>

ForwardBook ==
    /\ Alive /\ feed.at = "inner" /\ obChan # << >>
    /\ Publish(Head(obChan))
    /\ obChan' = Tail(obChan)
    /\ UNCHANGED <<feed, loop, probVars, sideVars, stratVars, expiryVars, worldVars>>

\* The market has ended: the subscriptions are reset.  Books the monitor has
\* already handed over stay in the channel and follow the next market's event.
MarketEnded ==
    /\ Alive /\ feed.at = "inner" /\ clock >= EndTime(feed.market)
    /\ feed' = [feed EXCEPT !.at = "fetch"]
    /\ UNCHANGED <<obChan, bus, lost, loop, probVars, sideVars, stratVars, expiryVars,
                   worldVars>>

\* The price feed forwards a tick of the underlying.
ForwardPrice ==
    /\ Alive /\ May("prices")
    /\ Publish([kind |-> "ExternalPrice", second |-> clock + 1])
    /\ Count("prices")
    /\ UNCHANGED <<feedVars, loop, probVars, sideVars, stratVars, expiryVars, clock, scene>>

-----------------------------------------------------------------------------
(* The strategy, called by the engine loop.  q is what the loop leaves on  *)
(* the bus.                                                                *)

Silent(q) == bus' = q /\ UNCHANGED <<lost, made>>

\* submitIntents: sent is what the batch does.  Check may refuse all of a batch
\* with an order in it (breaker, cooldown, caps), never a CANCEL by itself.
Submit(q, ordering, sent, refused) ==
    \/ sent /\ Silent(q)
    \/ /\ ordering /\ May("refusals")
       /\ refused
       /\ Count("refusals")
       /\ PublishTo(q, [kind |-> "Risk"])

\* Mutant: no market is ever forgotten.
RememberAll(m) == IF m \in ToSet(markets) THEN markets ELSE Append(markets, m)

\* QueueMap.Add: the oldest market makes room.
Remember(m) ==
    IF m \in ToSet(markets) THEN markets
    ELSE Append(IF Len(markets) >= MarketQueueCap THEN Tail(markets) ELSE markets, m)

\* A new market: both outcomes are bought, unless too little time is left or an
\* ask is below MinInPrice (the asks are those of the observation).
OnMarket(m, q) ==
    LET okPrice == scene.gated => \A t \in TokensOf(m) : tokens[t] = "known"
        buy == orders' = [t \in Tokens |-> IF t \in TokensOf(m) THEN "posted" ELSE orders[t]]
    IN  IF EndTime(m) - clock >= TimeLeftSec /\ okPrice
        THEN /\ markets' = Remember(m)
             /\ Submit(q, TRUE, buy, UNCHANGED orders)
             /\ UNCHANGED <<held, asked, exposed>>
        ELSE UNCHANGED stratVars /\ Silent(q)

\* LastNGreaterThan over the last ten z-scores.
Trend ==
    LET w == Ring!Last(zWindows, 10)
    IN  /\ latestZ # 0
        /\ Len(w) >= ZAgo
        /\ \A n \in (Len(w) - ZAgo + 1) .. Len(w) : w[n] # 0

\* A batch that sells all of t and cancels the confirmed orders of the other
\* outcome.  The ledger shows an order as open until its trade is booked, so one
\* that has matched is cancelled too, to no effect.  What becomes of the SELL and
\* the CANCEL is the exchange's affair, see below.
Unwind(t, cancel) ==
    /\ held' = [held EXCEPT ![t] = IF @ = "available" THEN "selling" ELSE @]
    /\ asked' = IF orders[cancel] \in {"open", "matched"} THEN asked \cup {cancel} ELSE asked

\* A one-sided trend against the only position held: stop-loss, if the book
\* is there and fresh and the market moved the other way.  bs: the books after
\* the update.
OnBook(bs, q) ==
    \/ UNCHANGED stratVars /\ Silent(q)
    \/ /\ market \in ToSet(markets)
       /\ EndTime(market) - clock > LastSeconds
       /\ Trend
       /\ \E t \in TokensOf(market) :
            /\ held[t] = "available" /\ held[Other(t)] = "none"
            /\ t \in DOMAIN bs
            /\ Submit(q, TRUE, Unwind(t, Other(t)), UNCHANGED <<held, asked>>)
       /\ UNCHANGED <<markets, orders, exposed>>

\* Mutant: the failed token's own side is unwound.
UnwindFailedSide(t, q) ==
    /\ Unwind(t, t) /\ Silent(q)
    /\ UNCHANGED <<markets, orders, exposed>>

\* A trade of t failed: what the snapshot shows of the other outcome is unwound,
\* if the market is remembered.
OnTradeFailed(t, q) ==
    LET u == Other(t)
        stuck == exposed' = exposed \cup {u}
    IN  IF t[1] \in ToSet(markets)
        THEN /\ Submit(q, held[u] = "available",
                       /\ Unwind(u, u)
                       /\ IF orders[u] = "posted" THEN stuck ELSE UNCHANGED exposed,
                       stuck /\ UNCHANGED <<held, asked>>)
             /\ UNCHANGED <<markets, orders>>
        ELSE stuck /\ Silent(q) /\ UNCHANGED <<markets, orders, held, asked>>

-----------------------------------------------------------------------------
(* The engine loop and the probability engine's OnUpdate.                  *)

\* The engine loop takes an event; step says what it does with it.
Take(kind, step) ==
    /\ Alive /\ loop = Idle /\ bus # << >> /\ Head(bus).kind = kind
    /\ step
    /\ UNCHANGED <<feedVars, sideVars, expiryVars, clock, scene>>

\* Mutant: only the first market is taken.
TakeFirstMarket ==
    Take("Market",
         /\ loop' = IF market # None THEN Idle
                    ELSE [at |-> "prep", market |-> Head(bus).market]
         /\ Silent(Tail(bus))
         /\ UNCHANGED <<probVars, stratVars>>)

\* A new market starts the switch.
TakeMarket ==
    Take("Market",
         /\ loop' = IF Head(bus).market = market THEN Idle
                    ELSE [at |-> "prep", market |-> Head(bus).market]
         /\ Silent(Tail(bus))
         /\ UNCHANGED <<probVars, stratVars>>)

\* updateOrderBook keeps the newer book.
StoreBook(b) ==
    [t \in DOMAIN books \cup {b.token} |->
        IF t = b.token /\ (t \notin DOMAIN books \/ b.Timestamp >= books[t])
        THEN b.Timestamp ELSE books[t]]

\* Mutant: the token of a late book is stored, known or not.
UpdateTokenUnknown(t) ==
    [u \in DOMAIN tokens \cup {t} |-> IF u = t THEN "known" ELSE tokens[u]]

\* Only a token of the current market is updated, by an older book too.
updateToken(t) ==
    IF t \in DOMAIN tokens THEN [tokens EXCEPT ![t] = "known"] ELSE tokens

\* Without a market a book is ignored.
TakeBook ==
    LET b == Head(bus)
    IN  Take("OrderBook",
             /\ IF market = None
                THEN Silent(Tail(bus)) /\ UNCHANGED <<books, tokens, stratVars>>
                ELSE /\ books' = StoreBook(b)
                     /\ \/ tokens' = updateToken(b.token)
                        \/ UNCHANGED tokens         \* no asks in the book
                     /\ OnBook(books', Tail(bus))
             /\ UNCHANGED <<loop, market, latestZ, zWindows, zscore>>)

\* One bar per second; missing seconds are filled in.
OnTick(z, second) ==
    LET pushed == CASE z.lastSec = 0 \/ second = z.lastSec -> 0
                    [] second > z.lastSec -> second - z.lastSec
                    [] OTHER -> 1
    IN  [lastSec |-> second,
         bars    |-> IF z.bars + pushed > BarWindow THEN BarWindow ELSE z.bars + pushed]

IsReady(z) == z.bars >= BarWindow \div 2

\* A z-score is computed for the current market, with a second or more left.
TakePrice ==
    Take("ExternalPrice",
         /\ IF market = None THEN UNCHANGED <<zscore, latestZ>>
            ELSE /\ zscore' = OnTick(zscore, Head(bus).second)
                 /\ IF IsReady(zscore') /\ EndTime(market) - clock >= 1
                    THEN latestZ' \in {0, market} ELSE UNCHANGED latestZ
         /\ Silent(Tail(bus))
         /\ UNCHANGED <<loop, market, tokens, books, zWindows, stratVars>>)

TakeExecution ==
    Take("Execution", /\ OnTradeFailed(Head(bus).token, Tail(bus))
                      /\ UNCHANGED <<loop, probVars>>)

\* Every other event type passes through the loop unused.
TakeOther ==
    \E kind \in {"Risk", "Rejected", "Metrics", "PositionExpiring"} :
        Take(kind, Silent(Tail(bus)) /\ UNCHANGED <<loop, probVars, stratVars>>)

\* prepareReset: the open price is fetched, with sleeps in between; the loop waits.
PrepareReset ==
    /\ Alive /\ loop.at = "prep"
    /\ \/ /\ loop' = [loop EXCEPT !.at = "zeroZ"]
          /\ UNCHANGED <<lost, made>>
       \/ /\ May("failures")
          /\ Count("failures")
          /\ loop' = Idle
          /\ lost' = lost \cup {MarketEvent(loop.market)}
    /\ UNCHANGED <<feedVars, bus, probVars, sideVars, stratVars, expiryVars, clock, scene>>

\* A step of resetForNewMarketLocked.
Switch(from, to) ==
    /\ Alive /\ loop.at = from
    /\ loop' = [loop EXCEPT !.at = to]
    /\ UNCHANGED <<feedVars, bus, lost, market, zscore, sideVars, stratVars, expiryVars,
                   worldVars>>

\* Mutant: latestZ is not cleared.
ZeroForgotten ==
    /\ Switch("zeroZ", "reset")
    /\ UNCHANGED <<tokens, books, latestZ, zWindows>>

ZeroZ ==
    /\ Switch("zeroZ", "reset")
    /\ latestZ' = 0
    /\ UNCHANGED <<tokens, books, zWindows>>

\* zWindows.Reset, then cleanupStoresExceptLocked: one step, as no goroutine
\* looks at both the window and the stores.
ResetStores ==
    /\ Switch("reset", "store")
    /\ zWindows' = Ring!Reset(zWindows)
    /\ tokens' = [t \in DOMAIN tokens \cap TokensOf(loop.market) |-> tokens[t]]
    /\ books' = [t \in DOMAIN books \cap TokensOf(loop.market) |-> books[t]]
    /\ UNCHANGED latestZ

StoreTokens ==
    /\ Switch("store", "replace")
    /\ tokens' = [t \in DOMAIN tokens \cup TokensOf(loop.market) |->
                    IF t \in TokensOf(loop.market) THEN "zero" ELSE tokens[t]]
    /\ UNCHANGED <<books, latestZ, zWindows>>

\* getTokens panics on a token that is not in the map.
CanObserve(m) == TokensOf(m) \subseteq DOMAIN tokens

\* The market is replaced; then CurrentObservation and the strategy's OnUpdate.
ReplaceMarket ==
    /\ Alive /\ loop.at = "replace"
    /\ market' = loop.market
    /\ loop' = Idle
    /\ IF CanObserve(market') THEN OnMarket(market', bus) /\ UNCHANGED panicked
       ELSE panicked' = "loop" /\ Silent(bus) /\ UNCHANGED stratVars
    /\ UNCHANGED <<feedVars, tokens, books, latestZ, zWindows, zscore, ticker, metrics,
                   expiryVars, clock, scene>>

-----------------------------------------------------------------------------
(* The other goroutines.                                                   *)

\* Every second: latestZ is loaded, then added to the window.
TickerLoad ==
    /\ Alive /\ May("seconds") /\ ticker = NoZ
    /\ ticker' = latestZ
    /\ Count("seconds")
    /\ UNCHANGED <<feedVars, bus, lost, loop, probVars, metrics, panicked, stratVars,
                   expiryVars, clock, scene>>

TickerAdd ==
    /\ Alive /\ ticker # NoZ
    /\ zWindows' = Ring!Add(zWindows, ticker)
    /\ ticker' = NoZ
    /\ UNCHANGED <<feedVars, bus, lost, loop, market, tokens, books, latestZ, zscore,
                   metrics, panicked, stratVars, expiryVars, worldVars>>

\* publishMetrics: CurrentObservation clones the market, then looks up its tokens.
MetricsClone ==
    /\ Alive /\ scene.metrics /\ metrics = None /\ market # None
    /\ metrics' = market
    /\ UNCHANGED <<feedVars, bus, lost, loop, probVars, ticker, panicked, stratVars,
                   expiryVars, worldVars>>

MetricsTokens ==
    /\ Alive /\ metrics # None
    /\ metrics' = None
    /\ IF CanObserve(metrics) THEN Publish([kind |-> "Metrics"]) /\ UNCHANGED panicked
       ELSE panicked' = "metrics" /\ UNCHANGED <<bus, lost>>
    /\ UNCHANGED <<feedVars, loop, probVars, ticker, stratVars, expiryVars, worldVars>>

\* RegisterMarketExpiry, by any caller (none is wired up); a second
\* registration replaces the first.
RegisterMarketExpiry(m) ==
    /\ Alive /\ May("registrations")
    /\ m <= slugFor(clock)
    /\ expiry' = [n \in DOMAIN expiry \cup {m} |-> IF n = m THEN FALSE ELSE expiry[n]]
    /\ registered' = [registered EXCEPT ![m] = @ + 1]
    /\ Count("registrations")
    /\ UNCHANGED <<feedVars, bus, lost, loop, probVars, sideVars, stratVars, toFire,
                   warned, clock, scene>>

Due == {m \in DOMAIN expiry : ~ expiry[m] /\ EndTime(m) <= clock + WarnBefore}

\* Mutant: the market may fire again.
CheckForgets ==
    /\ Alive /\ toFire = {} /\ Due # {}
    /\ toFire' = Due
    /\ UNCHANGED <<feedVars, bus, lost, loop, probVars, sideVars, stratVars, expiry,
                   warned, registered, worldVars>>

\* checkExpiry under expiryMu: the markets that are due are marked as fired ...
CheckExpiry ==
    /\ Alive /\ toFire = {} /\ Due # {}
    /\ toFire' = Due
    /\ expiry' = [m \in DOMAIN expiry |-> expiry[m] \/ m \in Due]
    /\ UNCHANGED <<feedVars, bus, lost, loop, probVars, sideVars, stratVars, warned,
                   registered, worldVars>>

\* ... and published after it is released, in the order the map gave them.  A
\* full bus drops the warning, which counts for nothing and is not repeated.
PublishWarning(m) ==
    /\ Alive /\ m \in toFire
    /\ Publish([kind |-> "PositionExpiring"])
    /\ warned' = [warned EXCEPT ![m] = IF Len(bus) < BusCap THEN @ + 1 ELSE @]
    /\ toFire' = toFire \ {m}
    /\ UNCHANGED <<feedVars, loop, probVars, sideVars, stratVars, expiry, registered,
                   worldVars>>

-----------------------------------------------------------------------------
(* The outside world: time, and the exchange as OrderFlow models it.       *)

Tick ==
    /\ Alive /\ clock < EndTime(scene.last)
    /\ clock' = clock + 1
    /\ UNCHANGED <<feedVars, bus, lost, loop, probVars, sideVars, stratVars, expiryVars,
                   scene, made>>

\* The life of a BUY, reduced to one fill: confirmed, matched, and then mined and
\* booked by the ledger, or failed.  In between the ledger shows it as open.
OrderStep(t, from, to) ==
    /\ Alive /\ orders[t] = from
    /\ to \in {"filled", "failed"} => to \in scene.outcomes
    /\ orders' = [orders EXCEPT ![t] = to]
    /\ UNCHANGED <<feedVars, loop, probVars, sideVars, markets, asked, exposed, expiryVars,
                   clock, scene>>

OrderAccepted(t) ==
    /\ May("accepts") /\ Count("accepts")
    /\ OrderStep(t, "posted", "open")
    /\ UNCHANGED <<held, bus, lost>>

OrderMatched(t) ==
    /\ OrderStep(t, "open", "matched")
    /\ UNCHANGED <<held, bus, lost, made>>

OrderFilled(t) ==
    /\ OrderStep(t, "matched", "filled")
    /\ held' = [held EXCEPT ![t] = "available"]
    /\ UNCHANGED <<bus, lost, made>>

OrderFailed(t) ==
    /\ OrderStep(t, "matched", "failed")
    /\ Publish(TradeFailed(t))
    /\ UNCHANGED <<held, made>>

\* A request to the exchange fails, or the executor's queue is full: the batch's
\* intents are rejected one by one, and the strategy does not react.
RequestFails ==
    /\ Alive /\ May("failures")
    /\ Count("failures")
    /\ Publish([kind |-> "Rejected"])
    /\ UNCHANGED <<feedVars, loop, probVars, sideVars, markets, expiryVars, clock, scene>>

OrderRejected(t) ==
    /\ orders[t] = "posted"
    /\ orders' = [orders EXCEPT ![t] = "cancelled"]
    /\ RequestFails
    /\ UNCHANGED <<held, asked, exposed>>

\* The CANCEL of an order takes effect while it rests.
CancelOrder(t) ==
    /\ Alive /\ t \in asked /\ orders[t] = "open"
    /\ orders' = [orders EXCEPT ![t] = "cancelled"]
    /\ asked' = asked \ {t}
    /\ UNCHANGED <<feedVars, bus, lost, loop, probVars, sideVars, markets, held, exposed,
                   expiryVars, worldVars>>

\* It comes too late: the order had matched.
CancelTooLate(t) ==
    /\ Alive /\ t \in asked /\ orders[t] # "open"
    /\ asked' = asked \ {t} /\ exposed' = exposed \cup {t}
    /\ UNCHANGED <<feedVars, bus, lost, loop, probVars, sideVars, markets, orders, held,
                   expiryVars, worldVars>>

CancelFails(t) ==
    /\ t \in asked
    /\ asked' = asked \ {t} /\ exposed' = exposed \cup {t}
    /\ RequestFails
    /\ UNCHANGED <<orders, held>>

\* The SELL rests at its limit until it fills; an empty position is deleted.
SellFilled(t) ==
    /\ Alive /\ held[t] = "selling"
    /\ held' = [held EXCEPT ![t] = "none"]
    /\ UNCHANGED <<feedVars, bus, lost, loop, probVars, sideVars, markets, orders, asked,
                   exposed, expiryVars, worldVars>>

\* Its reservation or its post fails: the tokens are available again.
SellFails(t) ==
    /\ held[t] = "selling"
    /\ held' = [held EXCEPT ![t] = "available"]
    /\ exposed' = exposed \cup {t}
    /\ RequestFails
    /\ UNCHANGED <<orders, asked>>

-----------------------------------------------------------------------------
FeedNext ==
    \/ FetchMarketBySlug \/ FetchFails
    \/ \E t \in Tokens : \E stamp \in scene.stamps : MonitorBook(t, stamp)
    \/ ForwardBook \/ MarketEnded \/ ForwardPrice

LoopNext ==
    \/ TakeMarket \/ TakeBook \/ TakePrice \/ TakeExecution \/ TakeOther
    \/ PrepareReset
    \/ ZeroZ \/ ResetStores \/ StoreTokens \/ ReplaceMarket

ExchangeStep(t) ==
    \/ OrderAccepted(t) \/ OrderMatched(t) \/ OrderFilled(t) \/ OrderFailed(t)
    \/ OrderRejected(t)
    \/ CancelOrder(t) \/ CancelTooLate(t) \/ CancelFails(t)
    \/ SellFilled(t) \/ SellFails(t)

Next ==
    \/ FeedNext
    \/ LoopNext
    \/ TickerLoad \/ TickerAdd \/ MetricsClone \/ MetricsTokens
    \/ \E m \in Markets : RegisterMarketExpiry(m)
    \/ CheckExpiry \/ \E m \in Markets : PublishWarning(m)
    \/ Tick
    \/ \E t \in Tokens : ExchangeStep(t)

Spec == Init /\ [][Next]_vars

\* Time passes, the goroutines run and requests return; a scene bounds how
\* often they fail.
Fairness ==
    /\ WF_vars(Tick)
    /\ WF_vars(FetchMarketBySlug) /\ WF_vars(MarketEnded)
    /\ WF_vars(LoopNext)

FairSpec == Spec /\ Fairness

-----------------------------------------------------------------------------
(* Properties.                                                             *)

Books == [kind : {"OrderBook"}, token : Tokens, Timestamp : Nat]
BusEvents ==
    [kind : {"Market"}, market : Markets] \cup [kind : {"Execution"}, token : Tokens]
    \cup Books \cup [kind : {"ExternalPrice"}, second : Nat]
    \cup [kind : {"Risk", "Rejected", "Metrics", "PositionExpiring"}]

OrderStates == {"none", "posted", "open", "matched", "filled", "failed", "cancelled"}
HeldStates == {"none", "available", "selling"}

\* The state of every goroutine and channel is well formed.
TypeOK ==
    /\ scene \in Scenes /\ made \in [Counted -> Nat]
    /\ clock \in 0 .. EndTime(LastMarket)
    /\ feed \in [at : {"fetch", "inner"}, market : {None} \cup Markets,
                 failures : 0 .. (MaxFailures - 1)]
    /\ obChan \in Seq(Books)
    /\ bus \in Seq(BusEvents) /\ Len(bus) <= BusCap /\ lost \subseteq BusEvents
    /\ loop \in {Idle} \cup [at : {"prep", "zeroZ", "reset", "store", "replace"},
                             market : Markets]
    /\ {market, metrics} \subseteq {None} \cup Markets
    /\ DOMAIN tokens \subseteq Tokens /\ DOMAIN books \subseteq Tokens
    /\ latestZ \in {0} \cup Markets /\ Ring!IsRing(zWindows)
    /\ ticker \in {NoZ, 0} \cup Markets
    /\ markets \in Seq(Markets) /\ Len(markets) <= MarketQueueCap
    /\ orders \in [Tokens -> OrderStates] /\ held \in [Tokens -> HeldStates]
    /\ asked \subseteq Tokens /\ exposed \subseteq Tokens
    /\ DOMAIN expiry \subseteq Markets /\ \A m \in DOMAIN expiry : expiry[m] \in BOOLEAN
    /\ toFire \subseteq Markets
    /\ warned \in [Markets -> Nat] /\ registered \in [Markets -> Nat]
    /\ panicked \in {"none", "loop", "metrics"}

\* Between two events the token store holds exactly the current market's
\* tokens: a book of the previous market that arrives after the switch never
\* brings its token back, and the loop's own observation finds every token.
TokensFollowMarket ==
    /\ loop = Idle => DOMAIN tokens = (IF market = None THEN {} ELSE TokensOf(market))
    /\ panicked # "loop"

\* The z-scores a stop-loss of the current market looks at were computed for
\* it, but for one at most: the one the ticker had loaded when the switch
\* cleared latestZ and the window.
AtMostOneStaleZ ==
    loop = Idle =>
        /\ latestZ \in {0, market}
        /\ LET w == Ring!Values(zWindows)
           IN  Cardinality({n \in DOMAIN w : w[n] \notin {0, market}}) <= 1

\* A BUY is under way, or its position is there and not on offer.
AtRisk(t) ==
    \/ orders[t] \in {"posted", "open", "matched"}
    \/ orders[t] = "filled" /\ held[t] = "available"

\* When one leg's trade fails, the other leg is not left alone for a reason
\* nobody named: its BUY is cancelled, or a CANCEL is under way, and its position
\* is sold or on offer -- unless the event is still to come or was lost, the
\* market was forgotten, the BUY was not confirmed yet, the risk engine refused
\* the batch, the CANCEL came too late for an order that had matched, or the
\* CANCEL or the SELL failed (exposed).
NoNakedLeg ==
    \A t \in Tokens :
        orders[t] = "failed" /\ AtRisk(Other(t))
        => \/ Other(t) \in asked \cup exposed
           \/ TradeFailed(t) \in ToSet(bus) \cup lost

\* A market is warned of at most once per registration of its own, the warning
\* about to be published included.  ("Each market fires at most once" is true of
\* a market that is registered once: a second registration may fire again.)
WarnedOncePerRegistration ==
    \A m \in Markets : warned[m] + (IF m \in toFire THEN 1 ELSE 0) <= registered[m]

\* The program follows the markets: the engine ends up on the last one, unless
\* its event was lost or the process died.
FollowsTheMarket ==
    <>[](market = scene.last \/ MarketEvent(scene.last) \in lost \/ ~ Alive)

\* The ring of z-scores is a sliding window, whoever adds and resets.
Windowed == INSTANCE SlidingWindow
                WITH window <- Ring!Values(zWindows), Size <- RingSize,
                     Data <- {None} \cup Markets
RingImplementsWindow == Windowed!Spec

-----------------------------------------------------------------------------
(* What the documents say, and the code does not do.                       *)

\* "Caller MUST hold e.mu.Lock()" (market_state.go), a lock that no longer
\* exists; the refactoring plan lists the race in this engine as fixed.  So the
\* metrics goroutine's observation always finds the tokens of the market it read.
ObservationConsistent == panicked # "metrics"
=============================================================================
