------------------------------ MODULE LedgerOps ------------------------------
(***************************************************************************)
(* The ledger of package state (state.go, reservation.go, fill.go,         *)
(* reconcile.go) as a value, and every critical section of State.mu as an  *)
(* operator from a ledger to a ledger.  The component specifications       *)
(* (Ledger, OrderFlow, Reconcile) turn these operators into actions.       *)
(*                                                                         *)
(* Money is counted in price ticks: a price is a number of ticks below     *)
(* One, sizes are whole tokens, so price * size is an exact integer and    *)
(* core.FloatEpsilon is 0.  A token stands for its (MarketID, TokenID)     *)
(* pair: the code never files one token under two markets.                 *)
(***************************************************************************)
EXTENDS Sums, Functions

CONSTANTS
    One,        \* the price of 1 USDC, in ticks
    TTL         \* lifetime of a provisional reservation, in clock ticks

ASSUME OneAssumption == One \in Nat \ {0}
ASSUME TTLAssumption == TTL \in Nat \ {0}

Sides == {"BUY", "SELL"}

Prices == 1 .. (One - 1)

Max0(n) == IF n < 0 THEN 0 ELSE n

\* Go's m[k] = v and delete(m, k).
Put(f, k, v) == [x \in DOMAIN f \cup {k} |-> IF x = k THEN v ELSE f[x]]
Del(f, K) == Restrict(f, DOMAIN f \ K)

-----------------------------------------------------------------------------
(* Data types.                                                             *)

TokenPosition ==
    [Available : Int, Reserved : Nat, AvgCost : Nat,
     AvgCostKnown : BOOLEAN, TotalBought : Nat]

ZeroPosition ==
    [Available |-> 0, Reserved |-> 0, AvgCost |-> 0,
     AvgCostKnown |-> FALSE, TotalBought |-> 0]

OrderReservation(Tokens) ==
    [TokenID : Tokens, Side : Sides, Price : Prices,
     RemainingSize : Nat \ {0}, Reserved : Nat, ExternalOrigin : BOOLEAN]

\* Life counts down to the instant ExpiresAt.
ProvisionalReservation(Tokens) ==
    [TokenID : Tokens, Side : Sides, Price : Prices,
     RemainingSize : Nat \ {0}, Reserved : Nat, Life : 0 .. TTL]

\* f is a Go map[K]V.
IsMap(f, K, V) == DOMAIN f \subseteq K /\ f \in [DOMAIN f -> V]

IsLedger(s, Ids, Tokens) ==
    /\ s = [Available |-> s.Available, Reserved |-> s.Reserved,
            Tokens |-> s.Tokens, Orders |-> s.Orders,
            Provisionals |-> s.Provisionals,
            DailyPnL |-> s.DailyPnL, DailyPnLDate |-> s.DailyPnLDate]
    /\ s.Available \in Int /\ s.Reserved \in Nat
    /\ s.DailyPnL \in Int /\ s.DailyPnLDate \in Nat
    /\ IsMap(s.Tokens, Tokens, TokenPosition)
    /\ IsMap(s.Orders, Ids, OrderReservation(Tokens))
    /\ IsMap(s.Provisionals, Ids, ProvisionalReservation(Tokens))

\* NewStateWithBalanceSync; 0 is the empty date stamp.
NewState ==
    [Available |-> 0, Reserved |-> 0, Tokens |-> << >>, Orders |-> << >>,
     Provisionals |-> << >>, DailyPnL |-> 0, DailyPnLDate |-> 0]

Result(st, err) == [st |-> st, err |-> err]

\* The two kinds of accounts collateral is taken from: the balance for a BUY,
\* the position of its token for a SELL.
Balance == <<"USDC">>
PositionIn(tk) == <<"token", tk>>
Account(side, tk) == IF side = "BUY" THEN Balance ELSE PositionIn(tk)

\* What the reservation r, and all reservations of m, hold of account a.
Share(r, a) == IF Account(r.Side, r.TokenID) = a THEN r.Reserved ELSE 0
HeldIn(m, a) == SumOver([x \in DOMAIN m |-> Share(m[x], a)], DOMAIN m)

-----------------------------------------------------------------------------
(* Helpers.                                                                *)

RequiredCollateral(side, price, size) ==
    IF side = "BUY" THEN size * price ELSE size

\* s.position.Tokens[k]: a missing key reads as the zero position.
TokenAt(s, tk) == IF tk \in DOMAIN s.Tokens THEN s.Tokens[tk] ELSE ZeroPosition

SetToken(s, tk, tp) == [s EXCEPT !.Tokens = Put(@, tk, tp)]

validateOrderArgs(side, price, size) ==
    /\ size > 0
    /\ price > 0 /\ price < One
    /\ side \in Sides

\* Mutant: what other reservations hold counts as available.
HasFundsOfTotal(s, side, tk, amount) ==
    IF side = "BUY" THEN s.Available + s.Reserved >= amount
    ELSE TokenAt(s, tk).Available + TokenAt(s, tk).Reserved >= amount

\* The check before a reservation is taken.
HasFunds(s, side, tk, amount) ==
    IF side = "BUY" THEN s.Available >= amount
                    ELSE TokenAt(s, tk).Available >= amount

\* Moves amount from Available to Reserved.
Reserve(s, side, tk, amount) ==
    IF side = "BUY"
    THEN [s EXCEPT !.Available = @ - amount, !.Reserved = @ + amount]
    ELSE SetToken(s, tk, [TokenAt(s, tk) EXCEPT !.Available = @ - amount,
                                                !.Reserved = @ + amount])

\* Mutant: Reserved is not reduced.
ReleaseKeepsReserved(s, side, tk, amount) ==
    IF side = "BUY"
    THEN [s EXCEPT !.Available = @ + amount]
    ELSE SetToken(s, tk, [TokenAt(s, tk) EXCEPT !.Available = @ + amount])

releaseReservedLocked(s, side, tk, amount) ==
    IF side = "BUY"
    THEN [s EXCEPT !.Available = @ + amount, !.Reserved = Max0(@ - amount)]
    ELSE SetToken(s, tk, [TokenAt(s, tk) EXCEPT !.Available = @ + amount,
                                                !.Reserved = Max0(@ - amount)])

NewReservation(tk, side, price, size, external) ==
    [TokenID |-> tk, Side |-> side, Price |-> price, RemainingSize |-> size,
     Reserved |-> RequiredCollateral(side, price, size),
     ExternalOrigin |-> external]

-----------------------------------------------------------------------------
(* Provisional reservations.                                               *)

TryReserveProvisional(s, i, tk, side, price, size) ==
    LET amount == RequiredCollateral(side, price, size)
        taken  == Reserve(s, side, tk, amount)
        p      == [TokenID |-> tk, Side |-> side, Price |-> price,
                   RemainingSize |-> size, Reserved |-> amount, Life |-> TTL]
    IN  IF ~ validateOrderArgs(side, price, size) THEN Result(s, "invalid")
        ELSE IF i \in DOMAIN s.Provisionals THEN Result(s, "already reserved")
        ELSE IF ~ HasFunds(s, side, tk, amount) THEN Result(s, "insufficient")
        ELSE Result([taken EXCEPT !.Provisionals = Put(@, i, p)], "nil")

\* Drops the provisional i and returns its collateral.
FreeProvisional(s, i) ==
    LET p == s.Provisionals[i]
    IN  releaseReservedLocked([s EXCEPT !.Provisionals = Del(@, {i})],
                              p.Side, p.TokenID, p.Reserved)

ReleaseProvisional(s, i) ==
    IF i \in DOMAIN s.Provisionals THEN FreeProvisional(s, i) ELSE s

\* The clock the deadlines are compared with.
Elapse(s) ==
    [s EXCEPT !.Provisionals =
        [i \in DOMAIN s.Provisionals |-> [s.Provisionals[i] EXCEPT !.Life = Max0(@ - 1)]]]

\* Mutant: a deadline that is reached is not yet passed.
ExpiredLater(s) == {i \in DOMAIN s.Provisionals : s.Provisionals[i].Life < 0}

Expired(s) == {i \in DOMAIN s.Provisionals : s.Provisionals[i].Life = 0}

\* One pass under the lock: every expired entry is deleted, then their
\* collateral is returned (the clamps at 0 commute, so one sum per account).
CleanupExpiredProvisional(s) ==
    LET gone     == Restrict(s.Provisionals, Expired(s))
        freed(a) == HeldIn(gone, a)
        sold     == {gone[i].TokenID : i \in {x \in DOMAIN gone : gone[x].Side = "SELL"}}
        back(t)  == IF t \notin sold THEN s.Tokens[t]
                    ELSE [TokenAt(s, t) EXCEPT
                            !.Available = @ + freed(PositionIn(t)),
                            !.Reserved  = Max0(@ - freed(PositionIn(t)))]
    IN  [s EXCEPT
            !.Provisionals = Del(@, Expired(s)),
            !.Available    = @ + freed(Balance),
            !.Reserved     = Max0(@ - freed(Balance)),
            !.Tokens       = [t \in DOMAIN @ \cup sold |-> back(t)]]

-----------------------------------------------------------------------------
(* Order reservations.                                                     *)

\* Mutants: the order is entered without taking its collateral; the collateral
\* is taken without looking whether it is there.
FreshUnfunded(s, o, tk, side, price, size) ==
    Result([s EXCEPT !.Orders = Put(@, o, NewReservation(tk, side, price, size, FALSE))], "nil")
FreshUnchecked(s, o, tk, side, price, size) ==
    Result([Reserve(s, side, tk, RequiredCollateral(side, price, size)) EXCEPT
                !.Orders = Put(@, o, NewReservation(tk, side, price, size, FALSE))], "nil")

\* Takes the collateral of an order that has no provisional.
FreshReservation(s, o, tk, side, price, size) ==
    LET amount == RequiredCollateral(side, price, size)
        r      == NewReservation(tk, side, price, size, FALSE)
    IN  IF HasFunds(s, side, tk, amount)
        THEN Result([Reserve(s, side, tk, amount) EXCEPT !.Orders = Put(@, o, r)],
                    "nil")
        ELSE Result(s, "insufficient")

\* Mutant: the provisional stays beside the order it became.
ConvertKeepsProvisional(s, i, o) ==
    LET p == s.Provisionals[i]
    IN  [s EXCEPT !.Orders =
            Put(@, o, [NewReservation(p.TokenID, p.Side, p.Price, p.RemainingSize, FALSE)
                        EXCEPT !.Reserved = p.Reserved])]

\* The provisional's reservation becomes the order's: no money moves.
ConvertProvisional(s, i, o) ==
    LET p == s.Provisionals[i]
        r == [TokenID |-> p.TokenID, Side |-> p.Side, Price |-> p.Price,
              RemainingSize |-> p.RemainingSize, Reserved |-> p.Reserved,
              ExternalOrigin |-> FALSE]
    IN  [s EXCEPT !.Provisionals = Del(@, {i}), !.Orders = Put(@, o, r)]

AttachOrder(s, i, o, tk, side, price, size) ==
    IF ~ validateOrderArgs(side, price, size) THEN Result(s, "invalid")
    ELSE IF o \in DOMAIN s.Orders
         THEN Result(ReleaseProvisional(s, i), "already reserved")
    ELSE IF i \in DOMAIN s.Provisionals
         THEN Result(ConvertProvisional(s, i, o), "nil")
    ELSE FreshReservation(s, o, tk, side, price, size)

\* Mutant: the entry goes, its collateral is not returned.
DropOrder(s, o) == [s EXCEPT !.Orders = Del(@, {o})]

\* Mutant: what the remaining size needs is returned, not what is reserved.
ReleaseRequired(s, o) ==
    IF o \notin DOMAIN s.Orders THEN s
    ELSE LET r == s.Orders[o]
         IN  releaseReservedLocked([s EXCEPT !.Orders = Del(@, {o})], r.Side, r.TokenID,
                                   RequiredCollateral(r.Side, r.Price, r.RemainingSize))

\* ReleaseOrder and reconcile's releaseOrderLocked.
ReleaseOrder(s, o) ==
    IF o \notin DOMAIN s.Orders THEN s
    ELSE LET r == s.Orders[o]
         IN  releaseReservedLocked([s EXCEPT !.Orders = Del(@, {o})],
                                   r.Side, r.TokenID, r.Reserved)

addDailyPnLLocked(s, today, delta) ==
    [s EXCEPT !.DailyPnL     = IF s.DailyPnLDate # today THEN delta ELSE @ + delta,
              !.DailyPnLDate = today]

\* The position after a BUY fill: weighted average cost over all BUYs.
BoughtPosition(tp, price, size) ==
    LET total == tp.TotalBought + size
    IN  [tp EXCEPT
            !.AvgCost = IF tp.TotalBought <= 0 THEN price
                        ELSE (@ * tp.TotalBought + price * size) \div total,
            !.TotalBought  = total,
            !.AvgCostKnown = TRUE,
            !.Available    = @ + size]

FillError(s, o, tk, side, size) ==
    IF size <= 0 THEN "invalid"
    ELSE IF o \notin DOMAIN s.Orders THEN "not found"
    ELSE IF s.Orders[o].TokenID # tk \/ s.Orders[o].Side # side THEN "mismatch"
    ELSE "nil"

\* Mutants: a reservation without remaining size stays; the remaining size
\* stays as it was.
SettleKeepsEmpty(s, o, left, consumed) ==
    [s EXCEPT !.Orders = Put(@, o, [s.Orders[o] EXCEPT !.RemainingSize = left,
                                                       !.Reserved = @ - consumed])]
SettleKeepsSize(s, o, left, consumed) ==
    IF left <= 0 THEN [s EXCEPT !.Orders = Del(@, {o})]
    ELSE [s EXCEPT !.Orders = Put(@, o, [s.Orders[o] EXCEPT !.Reserved = @ - consumed])]

\* The order's reservation after a fill, deleted when nothing is left to fill
\* (with whatever it still holds).
SettleReservation(s, o, left, consumed) ==
    LET filled == [s.Orders[o] EXCEPT !.RemainingSize = left, !.Reserved = @ - consumed]
    IN  IF left <= 0 THEN [s EXCEPT !.Orders = Del(@, {o})]
                     ELSE [s EXCEPT !.Orders = Put(@, o, filled)]

ApplyFill(s, o, tk, side, size, fillPrice, today) ==
    LET r        == s.Orders[o]
        price    == IF fillPrice <= 0 THEN r.Price ELSE fillPrice
        cost     == RequiredCollateral(side, price, size)
        consumed == IF cost > r.Reserved THEN r.Reserved ELSE cost
        left     == Max0(r.RemainingSize - size)
        tp       == TokenAt(s, tk)
        settled  == SettleReservation(s, o, left, consumed)
        booked   == IF tp.AvgCostKnown
                    THEN addDailyPnLLocked(settled, today, (price - tp.AvgCost) * size)
                    ELSE settled
    IN  IF FillError(s, o, tk, side, size) # "nil" THEN s
        ELSE IF side = "BUY"
        THEN [SetToken(settled, tk, BoughtPosition(tp, price, size))
                EXCEPT !.Reserved = Max0(@ - consumed)]
        ELSE [SetToken(booked, tk, [tp EXCEPT !.Reserved = Max0(@ - consumed)])
                EXCEPT !.Available = @ + price * size]

-----------------------------------------------------------------------------
(* Corrections from outside.                                               *)

\* Mutant: what is reserved is not subtracted.
SyncIgnoresReserved(s, onchainTotal) == [s EXCEPT !.Available = onchainTotal]

ReconcileOnchainBalance(s, onchainTotal) ==
    [s EXCEPT !.Available = Max0(onchainTotal - s.Reserved)]

ClearRedeemedPositions(s, redeemed) == [s EXCEPT !.Tokens = Del(@, redeemed)]

-----------------------------------------------------------------------------
(* What every component's specification asks of a ledger.                  *)

\* Nothing is spent twice.
Solvent(s) ==
    /\ s.Available >= 0
    /\ \A t \in DOMAIN s.Tokens : s.Tokens[t].Available >= 0

\* What orders and provisionals together hold of account a.
HeldBy(s, a) == HeldIn(s.Orders, a) + HeldIn(s.Provisionals, a)

\* What account a has in Available, and in Reserved.
FreeIn(s, a) == IF a = Balance THEN s.Available ELSE TokenAt(s, a[2]).Available
TakenFrom(s, a) == IF a = Balance THEN s.Reserved ELSE TokenAt(s, a[2]).Reserved

\* Every reservation of m still holds what its remaining size needs.
FullyCollateralised(m) ==
    \A x \in DOMAIN m :
        IF m[x].Side = "BUY" THEN m[x].Reserved >= m[x].Price * m[x].RemainingSize
                             ELSE m[x].Reserved = m[x].RemainingSize
=============================================================================
