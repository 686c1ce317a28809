----------------------------- MODULE ReconcileOps -----------------------------
(***************************************************************************)
(* The critical sections in which the exchange's open orders and positions *)
(* overwrite the local ones: the two of ReconcileWithExchange              *)
(* (state/reconcile.go), and Restore (state/state.go) at start-up.         *)
(***************************************************************************)
EXTENDS LedgerOps

\* No check that the funds are there: Available may go below zero.
attachExternalLocked(s, o, ro) ==
    IF ~ (ro.Remaining > 0 /\ ro.Price > 0 /\ ro.Price < One) \/ o \in DOMAIN s.Orders
    THEN s
    ELSE [Reserve(s, ro.Side, ro.TokenID,
                  RequiredCollateral(ro.Side, ro.Price, ro.Remaining))
            EXCEPT !.Orders = Put(@, o, NewReservation(ro.TokenID, ro.Side, ro.Price,
                                                       ro.Remaining, TRUE))]

\* Mutant: an order the exchange does not know keeps its reservation.
KeepMissing(s, remote) == s

\* Every local order that is not open on the exchange is released.
ReleaseMissing(s, remote) ==
    FoldSet(LAMBDA o, acc : ReleaseOrder(acc, o), s, DOMAIN s.Orders \ DOMAIN remote)

\* The orders that are open on the exchange only are booked.
AttachMissing(s, remote, missing) ==
    FoldSet(LAMBDA o, acc : attachExternalLocked(acc, o, remote[o]), s, missing)

\* remote[o]: the open orders, as fetched before the lock was taken.  An order
\* known on both sides takes the remote size and price; its Reserved stays.
reconcileOrders(s, remote) ==
    LET open     == {o \in DOMAIN remote : remote[o].Remaining > 0}
        released == ReleaseMissing(s, remote)
        updated  == [released EXCEPT !.Orders =
                        [o \in DOMAIN @ |->
                            IF o \notin open THEN @[o]
                            ELSE [@[o] EXCEPT !.RemainingSize = remote[o].Remaining,
                                              !.Price = remote[o].Price]]]
    IN  AttachMissing(updated, remote, open \ DOMAIN s.Orders)

\* remote[t]: the sizes held on the exchange.
reconcilePositions(s, remote) ==
    [s EXCEPT !.Tokens =
        [t \in DOMAIN remote |->
            IF t \notin DOMAIN s.Tokens
            THEN [ZeroPosition EXCEPT !.Available = remote[t]]
            ELSE [s.Tokens[t] EXCEPT !.Available = IF @ + s.Tokens[t].Reserved = remote[t]
                                                   THEN @ 
                                                   ELSE Max0(remote[t] - s.Tokens[t].Reserved)]]]

\* Mutant: the restored orders are booked, their funds are not taken.
RestoreUnfunded(s, balance, orders, positions) ==
    [s EXCEPT !.Tokens = [t \in DOMAIN positions |->
                                [ZeroPosition EXCEPT !.Available = positions[t]]],
              !.Available = balance[1], !.Reserved = balance[2],
              !.Orders = [o \in DOMAIN orders |->
                    NewReservation(orders[o].TokenID, orders[o].Side, orders[o].Price,
                                   orders[o].Remaining, FALSE)],
              !.Provisionals = << >>]

\* Positions and orders are replaced, provisionals forgotten; balance is the
\* <<Available, Reserved>> the caller read before, and the orders' reservations
\* are taken from it without a funds check.
Restore(s, balance, orders, positions) ==
    LET fresh == [s EXCEPT
                    !.Tokens = [t \in DOMAIN positions |->
                                    [ZeroPosition EXCEPT !.Available = positions[t]]],
                    !.Available = balance[1], !.Reserved = balance[2],
                    !.Orders = << >>, !.Provisionals = << >>]
        open  == {o \in DOMAIN orders : orders[o].Remaining > 0}
        add(o, acc) ==
            LET r == NewReservation(orders[o].TokenID, orders[o].Side, orders[o].Price,
                                    orders[o].Remaining, FALSE)
            IN  [Reserve(acc, r.Side, r.TokenID, r.Reserved) EXCEPT !.Orders = Put(@, o, r)]
    IN  FoldSet(add, fresh, open)
=============================================================================
