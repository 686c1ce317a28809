------------------------------- MODULE Escrow -------------------------------
(***************************************************************************)
(* What a ledger with reservations promises: funds are taken out of an     *)
(* account before they are promised, belong to one intent or order until   *)
(* they are spent on a trade of that order or returned, and are returned   *)
(* to the last unit.  Money that a filled order did not need is stuck.     *)
(***************************************************************************)
EXTENDS Sums, Functions

CONSTANTS
    Accounts,   \* what funds are taken from
    Money,      \* the account that pays for purchases
    Ids         \* intents and orders

VARIABLES
    free,       \* free[a]: what nobody was promised of account a
    pledged,    \* pledged[i]: the deposit of an intent that is not yet an order
    placed,     \* placed[o]: the deposit of an open order
    stuck       \* money that belongs to no order and is not free

vars == <<free, pledged, placed, stuck>>

Deposit(a, n) == [account |-> a, amount |-> n]

With(m, x, d) == [y \in DOMAIN m \cup {x} |-> IF y = x THEN d ELSE m[y]]
Without(m, X) == Restrict(m, DOMAIN m \ X)

\* What the deposits in m hold of account a.
Deposited(m, a) ==
    SumOver([x \in DOMAIN m |-> IF m[x].account = a THEN m[x].amount ELSE 0], DOMAIN m)

\* The deposits of X, all in m, go back to the accounts they came from.
Returned(m, X) == [a \in Accounts |-> free[a] + Deposited(Restrict(m, X), a)]

Init ==
    /\ free \in [Accounts -> Nat]
    /\ DOMAIN pledged = {} /\ DOMAIN placed = {}
    /\ stuck = 0

-----------------------------------------------------------------------------
\* An intent reserves funds that are free.
Pledge(i) ==
    /\ i \notin DOMAIN pledged
    /\ \E a \in Accounts :
            /\ free'[a] \in 0 .. free[a] - 1
            /\ free' = [free EXCEPT ![a] = free'[a]]
            /\ pledged' = With(pledged, i, Deposit(a, free[a] - free'[a]))
    /\ UNCHANGED <<placed, stuck>>

\* So does an order nobody here pledged for.
Place(o) ==
    /\ o \notin DOMAIN placed
    /\ \E a \in Accounts :
            /\ free'[a] \in 0 .. free[a] - 1
            /\ free' = [free EXCEPT ![a] = free'[a]]
            /\ placed' = With(placed, o, Deposit(a, free[a] - free'[a]))
    /\ UNCHANGED <<pledged, stuck>>

\* The intent has become an order, which takes over its deposit.
Convert(i) ==
    /\ i \in DOMAIN pledged /\ i \notin DOMAIN placed
    /\ placed' = With(placed, i, pledged[i])
    /\ pledged' = Without(pledged, {i})
    /\ UNCHANGED <<free, stuck>>

\* Intents are given up: what they hold is free again.
Withdraw(I) ==
    /\ I # {} /\ I \subseteq DOMAIN pledged
    /\ pledged' = Without(pledged, I)
    /\ free' = Returned(pledged, I)
    /\ UNCHANGED <<placed, stuck>>

\* So is what is left of an order that ends.
Close(o) ==
    /\ o \in DOMAIN placed
    /\ placed' = Without(placed, {o})
    /\ free' = Returned(placed, {o})
    /\ UNCHANGED <<pledged, stuck>>

\* A trade is paid for by the order's own deposit, and its proceeds go to one
\* other account.  When it was the last one, nothing is left of a sale, and
\* what is left of a purchase is stuck.
Trade(o) ==
    /\ o \in DOMAIN placed
    /\ LET d == placed[o] IN
       \E to \in Accounts \ {d.account} :
            /\ free'[to] > free[to]
            /\ free' = [free EXCEPT ![to] = free'[to]]
            /\ \E paid \in 1 .. d.amount :
                  \/ /\ placed' = With(placed, o, Deposit(d.account, d.amount - paid))
                     /\ UNCHANGED stuck
                  \/ /\ d.account # Money => paid = d.amount
                     /\ placed' = Without(placed, {o})
                     /\ stuck' = stuck + (d.amount - paid)
    /\ UNCHANGED pledged

\* The free money is counted again from outside; deposits stay as they are.
Recount ==
    /\ free'[Money] \in Nat
    /\ free' = [free EXCEPT ![Money] = free'[Money]]
    /\ UNCHANGED <<pledged, placed, stuck>>

\* What is free in an account is worth nothing any more.
WriteOff(a) ==
    /\ free' = [free EXCEPT ![a] = 0]
    /\ UNCHANGED <<pledged, placed, stuck>>

Next ==
    \/ Recount
    \/ \E a \in Accounts \ {Money} : WriteOff(a)
    \/ \E x \in Ids : Convert(x) \/ Close(x) \/ Trade(x) \/ Pledge(x) \/ Place(x)
    \/ \E I \in SUBSET DOMAIN pledged : Withdraw(I)

Spec == Init /\ [][Next]_vars
=============================================================================
