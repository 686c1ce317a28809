----------------------------- MODULE OrderTerms -----------------------------
(***************************************************************************)
(* The orders of a behaviour and the terms they are placed with, the funds *)
(* at the start, and the limits within which the exchange trades: what the *)
(* specifications with a ledger have in common.                            *)
(***************************************************************************)
EXTENDS LedgerOps

CONSTANTS
    Ids,        \* orders; an order's intent carries the same id
    External,   \* orders placed by hand: no local intent
    Tokens,
    Order,      \* Order[o]: the terms o is placed with
    Cash,       \* USDC at the start
    Holdings    \* tokens held at the start, per token

Terms == [TokenID : Tokens, Side : Sides, Price : Prices,
          RequestedSize : Nat \ {0}]

ASSUME OrderAssumption ==
    /\ External \subseteq Ids
    /\ Order \in [Ids -> Terms]
    /\ Cash \in Nat
    /\ Holdings \in [Tokens -> Nat]

\* What the orders and intents of these tokens draw on.
Accounts == {Balance} \cup {PositionIn(t) : t \in Tokens}

\* The ledger once the balance and the positions were read.
OpeningLedger ==
    [NewState EXCEPT
        !.Available = Cash,
        !.Tokens = [t \in {u \in Tokens : Holdings[u] > 0} |->
                        [ZeroPosition EXCEPT !.Available = Holdings[t]]]]

\* The price a trade of o executed at; 0 is a price missing from the message.
TradePrice(o, price) == IF price = 0 THEN Order[o].Price ELSE price

\* What a trade of o adds to the wallet.
CashFlow(o, price, size) ==
    IF Order[o].Side = "BUY" THEN - (TradePrice(o, price) * size)
                             ELSE TradePrice(o, price) * size

\* A limit order never trades at a worse price than its limit.
WithinLimit(o, price) ==
    IF Order[o].Side = "BUY" THEN TradePrice(o, price) <= Order[o].Price
                             ELSE TradePrice(o, price) >= Order[o].Price
=============================================================================
