------------------------------- MODULE MCRisk -------------------------------
(* Instances of Risk for TLC.  Prices are multiples of 6, so that the      *)
(* average over at most 3 tokens bought is an exact integer.               *)
EXTENDS Risk

Place(o) == [Action |-> "PLACE", OrderID |-> o]

Buy(t, price, size) ==
    [TokenID |-> t, Side |-> "BUY", Price |-> price, RequestedSize |-> size]
Sell(t, price, size) ==
    [TokenID |-> t, Side |-> "SELL", Price |-> price, RequestedSize |-> size]

\* "m" is malformed, "h" is placed by hand, "y" and "n" are the legs of the
\* split "p", "yy" and "nn" those of the merge "q".
MCOrder ==
    [o \in Ids |->
        CASE o = "b" -> Buy("t", 12, 1)
          [] o = "d" -> Buy("u", 12, 1)
          [] o = "s" -> Sell("t", 6, 1)
          [] o = "m" -> Buy("t", 6, 1)
          [] o = "h" -> Sell("t", 6, 1)
          [] o = "y" -> Buy("t", 12, 2)
          [] o = "n" -> Buy("u", 12, 2)
          [] o = "yy" -> Sell("t", 6, 1)
          [] o = "nn" -> Sell("u", 18, 1)]

\* The tokens are the two outcomes of one market.
MCMarket == [t \in Tokens |-> "M"]

\* A token was sold elsewhere; one was bought elsewhere.
Reports == {[t \in {"t"} |-> 1]}

MCHoldings == [t \in Tokens |-> 0]

NoLegs == << >>
PairLegs == [p \in {"p", "q"} |-> IF p = "p" THEN <<"y", "n">> ELSE <<"yy", "nn">>]

\* No book yet; a book around 12.
Mids == {<< >>, [t \in {"t"} |-> 12]}
NoMids == {<< >>}

\* Two buys in one batch or in two, a malformed batch, a cancel that the breaker
\* lets through, a split for which there is no money, a merge.
Mixed == {<<Place("b"), Place("d")>>, <<Place("b")>>, <<Place("d")>>, <<Place("m")>>,
          <<[Action |-> "CANCEL", OrderID |-> "b"]>>,
          <<[Action |-> "SPLIT", OrderID |-> "p"]>>,
          <<[Action |-> "MERGE", OrderID |-> "q"]>>}
\* A buy and the sell that loses on it, then another buy.
BuyAndSell == {<<Place("b")>>, <<Place("s")>>, <<Place("d")>>}
=============================================================================
