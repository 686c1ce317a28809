------------------------------- MODULE Ledger -------------------------------
(***************************************************************************)
(* The ledger of package state under its concurrent callers.               *)
(*                                                                         *)
(*   engine loop     TryReserveProvisional, AttachOrder, ApplyFill,        *)
(*                   ReleaseOrder, ReleaseProvisional                      *)
(*   cleanup ticker  CleanupExpiredProvisional                             *)
(*   balance sync    reads the on-chain total outside the lock, then       *)
(*                   ReconcileOnchainBalance                               *)
(*   redeem          ClearRedeemedPositions                                *)
(*                                                                         *)
(* Each call is one critical section of State.mu, hence one action; the    *)
(* callers interleave freely.  The exchange settles a trade on chain first *)
(* and the engine applies it later, in order.                              *)
(***************************************************************************)
EXTENDS OrderTerms, Sequences

CONSTANTS
    NoIntent,      \* the empty intent id
    FillPrices,    \* prices (0: missing from the message) a trade may carry
    Setups         \* configurations and bounds, see Setup

\* orders: those that are placed; sync: balanceSync.Enabled; redeem:
\* redeem.enabled; overfill: by how much a match may exceed the requested
\* size; days: bound on the UTC date.
Setup == [orders : SUBSET Ids, sync : BOOLEAN, redeem : BOOLEAN, overfill : Nat,
          days : Nat \ {0}]

ASSUME LedgerAssumption ==
    /\ NoIntent \notin Ids
    /\ FillPrices \subseteq Nat
    /\ Setups \subseteq Setup

VARIABLES
    ledger,    \* the State
    today,     \* the UTC date
    wallet,    \* USDC on chain
    mined,     \* mined[o]: trades of o settled on chain, not yet applied (FIFO)
    matched,   \* matched[o]: size matched so far
    called,    \* <<operation, id>> pairs already performed
    missed,    \* orders one of whose trades found no reservation
    syncRead,  \* a balance read but not yet written back, or NoRead
    redeemed,  \* tokens that have been redeemed at least once
    setup      \* the configuration, which never changes

vars == <<ledger, today, wallet, mined, matched, called, missed, syncRead, redeemed,
          setup>>

NoRead == -1

Fills == [size : Nat \ {0}, price : Nat]

accepted(o) == \E how \in {"ack", "live"} : <<how, o>> \in called

Init ==
    /\ ledger = OpeningLedger
    /\ today = 1
    /\ wallet = Cash
    /\ mined = [o \in Ids |-> << >>]
    /\ missed = {}
    /\ matched = [o \in Ids |-> 0]
    /\ called = {}
    /\ syncRead = NoRead
    /\ redeemed = {}
    /\ setup \in Setups

-----------------------------------------------------------------------------
(* The engine loop.                                                        *)

\* submitIntents: the intent's funds are reserved before it is executed.
ReserveIntent(i) ==
    /\ i \in setup.orders \ External
    /\ <<"reserve", i>> \notin called
    /\ LET q == Order[i]
           r == TryReserveProvisional(ledger, i, q.TokenID, q.Side, q.Price,
                                      q.RequestedSize)
       IN  /\ r.err = "nil"
           /\ ledger' = r.st
    /\ called' = called \cup {<<"reserve", i>>}
    /\ UNCHANGED <<today, wallet, mined, matched, missed, syncRead, redeemed, setup>>

\* An Accepted event: "ack" is the HTTP answer and names the intent, "live"
\* is the WebSocket's and does not.
Attach(o, how) ==
    /\ <<how, o>> \notin called
    /\ <<"reject", o>> \notin called
    /\ <<"final", o>> \notin called
    /\ IF o \in External THEN how = "live" /\ o \in setup.orders
       ELSE <<"reserve", o>> \in called
    /\ LET q == Order[o]
           i == IF how = "ack" THEN o ELSE NoIntent
       IN  ledger' = AttachOrder(ledger, i, o, q.TokenID, q.Side, q.Price,
                                 q.RequestedSize).st
    /\ called' = called \cup {<<how, o>>}
    /\ UNCHANGED <<today, wallet, mined, matched, missed, syncRead, redeemed, setup>>

\* The exchange refused the intent.
RejectIntent(i) ==
    /\ <<"reserve", i>> \in called
    /\ \A how \in {"ack", "live", "reject"} : <<how, i>> \notin called
    /\ ledger' = ReleaseProvisional(ledger, i)
    /\ called' = called \cup {<<"reject", i>>}
    /\ UNCHANGED <<today, wallet, mined, matched, missed, syncRead, redeemed, setup>>

\* A Filled, Cancelled or Rejected event ends the order.
EndOrder(o) ==
    /\ accepted(o)
    /\ <<"final", o>> \notin called
    /\ ledger' = ReleaseOrder(ledger, o)
    /\ called' = called \cup {<<"final", o>>}
    /\ UNCHANGED <<today, wallet, mined, matched, missed, syncRead, redeemed, setup>>

\* The next settled trade of an order reaches the engine; it is held back
\* until the order is accepted.
Fill(o) ==
    /\ accepted(o)
    /\ mined[o] # << >>
    /\ LET f == Head(mined[o])
           q == Order[o]
       IN  /\ ledger' = ApplyFill(ledger, o, q.TokenID, q.Side, f.size, f.price, today)
           /\ missed' = IF FillError(ledger, o, q.TokenID, q.Side, f.size) = "nil"
                        THEN missed ELSE missed \cup {o}
    /\ mined' = [mined EXCEPT ![o] = Tail(@)]
    /\ UNCHANGED <<today, wallet, matched, called, syncRead, redeemed, setup>>

-----------------------------------------------------------------------------
(* The other goroutines.                                                   *)

Cleanup ==
    /\ Expired(ledger) # {}
    /\ ledger' = CleanupExpiredProvisional(ledger)
    /\ UNCHANGED <<today, wallet, mined, matched, called, missed, syncRead, redeemed, setup>>

\* SyncBalanceOnce up to the lock, and from it.
SyncRead ==
    /\ setup.sync /\ syncRead = NoRead
    /\ syncRead' = Max0(wallet)
    /\ UNCHANGED <<ledger, today, wallet, mined, matched, called, missed, redeemed, setup>>

SyncWrite ==
    /\ syncRead # NoRead
    /\ ledger' = ReconcileOnchainBalance(ledger, syncRead)
    /\ syncRead' = NoRead
    /\ UNCHANGED <<today, wallet, mined, matched, called, missed, redeemed, setup>>

\* Every 20 minutes, for tokens the exchange calls redeemable: the positions
\* are dropped (the redemption itself is commented out).
Redeem(t) ==
    /\ setup.redeem /\ t \in DOMAIN ledger.Tokens
    /\ ledger' = ClearRedeemedPositions(ledger, {t})
    /\ redeemed' = redeemed \cup {t}
    /\ UNCHANGED <<today, wallet, mined, matched, called, missed, syncRead, setup>>

-----------------------------------------------------------------------------
(* The outside world.                                                      *)

\* A match of an order that has been posted settles on chain.
Mine(o, size, price) ==
    /\ o \in External \cap setup.orders \/ <<"reserve", o>> \in called
    /\ <<"reject", o>> \notin called
    /\ matched[o] < Order[o].RequestedSize
    /\ matched[o] + size <= Order[o].RequestedSize + setup.overfill
    /\ WithinLimit(o, price)
    /\ wallet + CashFlow(o, price, size) >= 0
    /\ mined' = [mined EXCEPT ![o] = Append(@, [size |-> size, price |-> price])]
    /\ wallet' = wallet + CashFlow(o, price, size)
    /\ matched' = [matched EXCEPT ![o] = @ + size]
    /\ UNCHANGED <<ledger, today, called, missed, syncRead, redeemed, setup>>

Tick ==
    /\ \E i \in DOMAIN ledger.Provisionals : ledger.Provisionals[i].Life > 0
    /\ ledger' = Elapse(ledger)
    /\ UNCHANGED <<today, wallet, mined, matched, called, missed, syncRead, redeemed, setup>>

Midnight ==
    /\ today < setup.days
    /\ today' = today + 1
    /\ UNCHANGED <<ledger, wallet, mined, matched, called, missed, syncRead, redeemed, setup>>

-----------------------------------------------------------------------------
Next ==
    \/ \E o \in Ids : \/ ReserveIntent(o)
                      \/ Attach(o, "ack")
                      \/ Attach(o, "live")
                      \/ RejectIntent(o)
                      \/ EndOrder(o)
                      \/ Fill(o)
    \/ Cleanup
    \/ SyncRead
    \/ SyncWrite
    \/ \E t \in Tokens : Redeem(t)
    \/ \E o \in Ids : \E size \in 1 .. (Order[o].RequestedSize + setup.overfill) :
            \E price \in FillPrices : Mine(o, size, price)
    \/ Tick
    \/ Midnight

\* The loops the process runs for its whole life, and the clock.
Fairness ==
    /\ \A o \in Ids : WF_vars(Fill(o))
    /\ WF_vars(Cleanup)
    /\ WF_vars(SyncRead) /\ WF_vars(SyncWrite)
    /\ WF_vars(Tick)

Spec == Init /\ [][Next]_vars

FairSpec == Spec /\ Fairness

-----------------------------------------------------------------------------
(* Properties.                                                             *)

TypeOK ==
    /\ IsLedger(ledger, Ids, Tokens)
    /\ today \in 1 .. setup.days
    /\ wallet \in Int
    /\ mined \in [Ids -> Seq(Fills)]
    /\ matched \in [Ids -> Nat]
    /\ called \subseteq {"reserve", "ack", "live", "reject", "final"} \X Ids
    /\ missed \subseteq Ids
    /\ syncRead \in Nat \cup {NoRead}
    /\ redeemed \subseteq Tokens
    /\ setup \in Setups

\* No sequence of reservations, confirmations, expiries, fills and syncs
\* spends money or tokens twice: what is available never goes below zero.
NoOverdraft == Solvent(ledger)

\* Every open reservation still holds the collateral its remaining size needs
\* (ApplyFill consumes at the trade price, which is no worse than the limit).
ReservationsCollateralised ==
    /\ FullyCollateralised(ledger.Orders)
    /\ FullyCollateralised(ledger.Provisionals)

\* The balance's Reserved covers every BUY reservation, so that releasing one
\* never meets the clamp at zero and never mints money.
BalanceCoversReservations == ledger.Reserved >= HeldBy(ledger, Balance)

\* A token's Reserved is exactly what the SELL reservations on it hold, as
\* long as the position was not redeemed under them.
TokenReservedExact ==
    \A t \in Tokens \ redeemed : TokenAt(ledger, t).Reserved = HeldBy(ledger, PositionIn(t))

\* The cash flow of settled trades the ledger has not seen yet.
Flows(o) == [k \in DOMAIN mined[o] |-> CashFlow(o, mined[o][k].price, mined[o][k].size)]
InFlight ==
    SumOver([o \in Ids |-> SumOver(Flows(o), DOMAIN Flows(o))],
            {o \in Ids : mined[o] # << >>})

\* The ledger's USDC is the wallet's, up to the trades still in flight, in
\* every state in which no trade was dropped and no order was overmatched:
\* reserving, confirming, expiring, releasing and filling neither mint nor
\* burn money, unless balance sync is on, which overwrites Available.
CashConserved ==
    (~ setup.sync /\ missed = {} /\ \A o \in Ids : matched[o] <= Order[o].RequestedSize)
        => ledger.Available + ledger.Reserved = wallet - InFlight

\* Balance sync heals: once trading stops, the ledger agrees with the chain
\* for good, whatever stale reads were written back before.
BalanceConverges ==
    setup.sync => <>[](ledger.Available = Max0(wallet - ledger.Reserved))

-----------------------------------------------------------------------------
(* What the ledger implements.                                             *)

\* The reservations of m as deposits.
Deposits(m) ==
    [x \in DOMAIN m |-> [account |-> Account(m[x].Side, m[x].TokenID), amount |-> m[x].Reserved]]

\* A provisional is an intent's deposit and an order's reservation the order's;
\* free is Available, and stuck what Reserved holds for no reservation.
Vault == INSTANCE Escrow
            WITH Money <- Balance,
                 free <- [a \in Accounts |-> FreeIn(ledger, a)],
                 pledged <- Deposits(ledger.Provisionals),
                 placed <- Deposits(ledger.Orders),
                 stuck <- ledger.Reserved - HeldBy(ledger, Balance)

\* Whatever its callers do in whatever order, the ledger is an escrow: funds are
\* promised once and only when free, a trade is paid for by its own order's
\* reservation, and releasing returns exactly what is held, neither cut short
\* nor topped up by a clamp at zero.  Only ReconcileOnchainBalance and
\* ClearRedeemedPositions change what is free from outside.
ImplementsEscrow == Vault!Spec

-----------------------------------------------------------------------------
(* What comments and tests say, and the code does not do.                  *)

\* "expected filled to release residual reserve" (engine_provisional_test.go):
\* when no reservation is left, nothing is held back.
ResidualReleased ==
    (DOMAIN ledger.Orders = {} /\ DOMAIN ledger.Provisionals = {}) => ledger.Reserved = 0
=============================================================================
