---------------------------- MODULE MCMarketFlow ----------------------------
(* Instances of MarketFlow for TLC.                                        *)
EXTENDS MarketFlow

Quiet == [last |-> LastMarket, gated |-> FALSE, books |-> 0, stamps |-> {1},
          prices |-> 0, seconds |-> 0, registrations |-> 0, failures |-> 0,
          accepts |-> 0, refusals |-> 0, outcomes |-> {"filled", "failed"}, metrics |-> FALSE]

\* Late books and failing legs while the strategy trades.
Trading == [Quiet EXCEPT !.books = 1, !.accepts = 2]
\* The risk engine in the way of both legs, and requests that fail.
Refusing == [Quiet EXCEPT !.last = 1, !.accepts = 2, !.refusals = 1]
Failing == [Quiet EXCEPT !.last = 1, !.accepts = 2, !.failures = 2]
\* The ticker against the switch.
Signals == [Quiet EXCEPT !.prices = 2, !.seconds = 3]
\* The stop-loss, in one market.
Stopping == [Quiet EXCEPT !.last = 1, !.books = 1, !.prices = 2, !.seconds = 2,
                          !.accepts = 1, !.outcomes = {"filled"}]
\* The default configuration, with books out of order.
Gated == [Quiet EXCEPT !.gated = TRUE, !.books = 2, !.stamps = {1, 2}]
\* The metrics ticker.
Watched == [Quiet EXCEPT !.metrics = TRUE]
\* The expiry loop, and requests that fail.
Expiring == [Quiet EXCEPT !.registrations = 2, !.failures = 2]

Everyday == {Trading, Refusing, Failing, Signals, Stopping, Gated,
             Watched, Expiring}
JustMetrics == {Watched}
=============================================================================
