------------------------------ MODULE MCLedger ------------------------------
(* Instances of Ledger for TLC.  Prices are multiples of 6, so that the    *)
(* average over at most 3 tokens bought is an exact integer.               *)
EXTENDS Ledger

\* Buys and sells of one token compete for the same funds; a configuration
\* says with External which of its orders were placed by hand.
MCOrder ==
    [o \in Ids |->
        CASE o = "b" -> [TokenID |-> "t", Side |-> "BUY", Price |-> 12, RequestedSize |-> 2]
          [] o = "x" -> [TokenID |-> "t", Side |-> "BUY", Price |-> 12, RequestedSize |-> 1]
          [] o = "s" -> [TokenID |-> "t", Side |-> "SELL", Price |-> 6, RequestedSize |-> 1]
          [] o = "r" -> [TokenID |-> "t", Side |-> "SELL", Price |-> 12, RequestedSize |-> 2]]

\* Three orders; two beside balance sync and redemption; two across midnight,
\* with matches beyond the requested size.
Competing == [orders |-> {"b", "x", "s"}, sync |-> FALSE, redeem |-> FALSE,
              overfill |-> 0, days |-> 1]
Healing == [Competing EXCEPT !.orders = {"x", "s"}, !.sync = TRUE, !.redeem = TRUE]
Overnight == [Competing EXCEPT !.orders = {"x", "s"}, !.overfill = 1, !.days = 2]
MCSetups == {Competing, Healing, Overnight}
OneBuy == {[Competing EXCEPT !.orders = {"b"}]}

MCHoldings == [t \in Tokens |-> 1]
=============================================================================
