----------------------------- MODULE MCOrderFlow -----------------------------
(* Instances of OrderFlow for TLC.  Prices are multiples of 6, so that the *)
(* average over at most 3 tokens bought is an exact integer.               *)
EXTENDS OrderFlow

Place(o) == [Action |-> "PLACE", OrderID |-> o]
Cancel(o) == [Action |-> "CANCEL", OrderID |-> o]

Buy(t, price, size) ==
    [TokenID |-> t, Side |-> "BUY", Price |-> price, RequestedSize |-> size]
Sell(t, price, size) ==
    [TokenID |-> t, Side |-> "SELL", Price |-> price, RequestedSize |-> size]

\* "m" is malformed, "e" placed by hand on the exchange, "y" and "n" are the
\* legs of the split "p", "yy" and "nn" those of the merge "q".
MCOrder ==
    [o \in Ids |->
        CASE o = "b" -> Buy("t", 12, 2)
          [] o = "x" -> Buy("t", 12, 1)
          [] o = "s" -> Sell("t", 6, 1)
          [] o = "d" -> Sell("t", 6, 2)
          [] o = "m" -> Buy("t", 6, 1)
          [] o = "e" -> Buy("t", 6, 1)
          [] o = "y" -> Buy("t", 12, 1)
          [] o = "n" -> Buy("u", 12, 1)
          [] o = "yy" -> Sell("t", 12, 1)
          [] o = "nn" -> Sell("u", 12, 1)]

MCHoldings == [t \in Tokens |-> IF t = "t" THEN 2 ELSE 0]

NoLegs == << >>
PairLegs == [p \in {"p", "q"} |-> IF p = "p" THEN <<"y", "n">> ELSE <<"yy", "nn">>]

Strategy(batches) == [batches |-> batches, byHand |-> {}, dryRun |-> FALSE,
                      crashes |-> 0, overmatch |-> 0]

\* One order and its cancellation.
OneOrder == {Strategy({<<Place("b")>>, <<Cancel("b")>>})}
OneSmall == {Strategy({<<Place("x")>>, <<Cancel("x")>>})}
\* More batches than the queue holds, one with a malformed intent; the exchange
\* may match "b" beyond its size.
Crowd == [Strategy({<<Place("b"), Place("m")>>, <<Cancel("b")>>}) EXCEPT !.overmatch = 1]
\* A split and a merge, competing with "e" for the same cash.
WithSplit == [Strategy({<<[Action |-> "SPLIT", OrderID |-> "p"]>>,
                        <<[Action |-> "MERGE", OrderID |-> "q"]>>})
                EXCEPT !.byHand = {"e"}]
\* A dry run of a purchase, a sale and a cancellation.
DryRun == [Strategy({<<Place("x"), Place("s")>>, <<Cancel("x")>>}) EXCEPT !.dryRun = TRUE]
\* A purchase and a sale, and a crash at any point.
Restart == [Strategy({<<Place("x"), Place("s")>>}) EXCEPT !.crashes = 1]
\* A crash at any point in the life of a purchase, and of a sale of two tokens
\* placed by hand.
OneRestart == {[Strategy({<<Place("x")>>}) EXCEPT !.crashes = 1],
               [Strategy({}) EXCEPT !.byHand = {"d"}, !.crashes = 1]}
Agreeing == {Crowd, WithSplit, DryRun, Restart}
=============================================================================
