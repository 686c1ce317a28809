---------------------------- MODULE LedgerProofs ----------------------------
(***************************************************************************)
(* The ledger under its concurrent callers never overdraws, stays          *)
(* collateralised, agrees with its reservations and neither mints nor      *)
(* burns money, for any orders, tokens, prices, amounts and interleaving.  *)
(***************************************************************************)
EXTENDS Ledger, LedgerOpsProofs

-----------------------------------------------------------------------------
(* Totals over the trades that are settled and not yet applied.            *)

\* The total of v over the trades in the queue u.
Total(v, u) == SumOver([k \in DOMAIN u |-> v[u[k]]], DOMAIN u)

Sizes == [f \in Fills |-> f.size]
Amounts(o) == [f \in Fills |-> CashFlow(o, f.price, f.size)]

\* The size of o's trades that the ledger has not seen.
Unapplied(o) == Total(Sizes, mined[o])

\* The cash flow of the trades in the queues m.
Pending(m) == {o \in Ids : m[o] # << >>}
FlowIn(m) == SumOver([o \in Ids |-> Total(Amounts(o), m[o])], Pending(m))

\* A trade joins the queue.
LEMMA TotalAppend ==
    ASSUME NEW S, NEW v \in [S -> Int], NEW u \in Seq(S), NEW f \in S
    PROVE  Total(v, u) \in Int /\ Total(v, Append(u, f)) = Total(v, u) + v[f]
<1> DEFINE g == [k \in DOMAIN u |-> v[u[k]]]
           h == [k \in DOMAIN Append(u, f) |-> v[Append(u, f)[k]]]
<1>1. g \in Seq(Int) /\ h \in Seq(Int) /\ DOMAIN g = DOMAIN u
      /\ DOMAIN h = DOMAIN Append(u, f)
  OBVIOUS
<1>2. h = Append(g, v[f])
  OBVIOUS
<1>3. v[f] \in Int OBVIOUS
<1> HIDE DEF g, h
<1>4. /\ SumOver(g, DOMAIN g) \in Int
      /\ SumOver(h, DOMAIN h) = SumOver(g, DOMAIN g) + v[f]
  BY <1>1, <1>2, <1>3, SumAppend
<1>5. Total(v, u) = SumOver(g, DOMAIN g) BY <1>1 DEF Total, g
<1>6. Total(v, Append(u, f)) = SumOver(h, DOMAIN h) BY <1>1 DEF Total, h
<1> QED BY <1>4, <1>5, <1>6

\* The first trade of the queue is applied.
LEMMA TotalTail ==
    ASSUME NEW S, NEW v \in [S -> Int], NEW u \in Seq(S), u # << >>
    PROVE  /\ Total(v, u) \in Int /\ Total(v, Tail(u)) \in Int
           /\ Total(v, Tail(u)) = Total(v, u) - v[Head(u)]
<1> DEFINE g == [k \in DOMAIN u |-> v[u[k]]]
           h == [k \in DOMAIN Tail(u) |-> v[Tail(u)[k]]]
<1>1. g \in Seq(Int) /\ DOMAIN g = DOMAIN u /\ DOMAIN h = DOMAIN Tail(u) /\ g # << >>
  OBVIOUS
<1>2. h = Tail(g) /\ Head(g) = v[Head(u)]
  OBVIOUS
<1> HIDE DEF g, h
<1>3. /\ SumOver(g, DOMAIN g) \in Int /\ SumOver(h, DOMAIN h) \in Int
      /\ Head(g) \in Int
      /\ SumOver(g, DOMAIN g) = Head(g) + SumOver(h, DOMAIN h)
  BY <1>1, <1>2, SumTail
<1>4. Total(v, u) = SumOver(g, DOMAIN g) BY <1>1 DEF Total, g
<1>5. Total(v, Tail(u)) = SumOver(h, DOMAIN h) BY <1>1 DEF Total, h
<1> QED BY <1>2, <1>3, <1>4, <1>5

\* A total of integers is an integer.
LEMMA TotalType ==
    ASSUME NEW S, NEW v \in [S -> Int], NEW u \in Seq(S)
    PROVE  /\ Total(v, u) \in Int
           /\ u = << >> => Total(v, u) = 0
           /\ (\A f \in S : v[f] \in Nat) =>
                /\ Total(v, u) \in Nat
                /\ u # << >> => v[Head(u)] <= Total(v, u)
<1> DEFINE g == [k \in DOMAIN u |-> v[u[k]]]
           D == DOMAIN u
<1>1. D = 1 .. Len(u) /\ Len(u) \in Nat OBVIOUS
<1>2. IsFiniteSet(D) BY <1>1, FS_Interval
<1>3. \A k \in D : g[k] \in Int OBVIOUS
<1>4. (\A f \in S : v[f] \in Nat) => \A k \in D : g[k] \in Nat OBVIOUS
<1>5. u # << >> => 1 \in D /\ g[1] = v[Head(u)] OBVIOUS
<1>6. u = << >> => D = {} OBVIOUS
<1>7. Total(v, u) = SumOver(g, D) BY DEF Total
<1> HIDE DEF g, D
<1> QED BY <1>2, <1>3, <1>4, <1>5, <1>6, <1>7, SumType, SumMember, SumEmpty

\* What an order's trades move is an integer.
LEMMA AmountsType ==
    ASSUME NEW o \in Ids
    PROVE  /\ Amounts(o) \in [Fills -> Int]
           /\ Sizes \in [Fills -> Int] /\ \A f \in Fills : Sizes[f] \in Nat
<1>1. ASSUME NEW f \in Fills PROVE CashFlow(o, f.price, f.size) \in Int /\ f.size \in Nat
  BY TermsType, OneAssumption DEF CashFlow, TradePrice, Prices, Fills
<1> QED BY <1>1 DEF Amounts, Sizes

\* The queue of one order changes.
LEMMA FlowUpdate ==
    ASSUME NEW m \in [Ids -> Seq(Fills)], NEW n \in [Ids -> Seq(Fills)],
           IsFiniteSet(Pending(m)), NEW o \in Ids, \A x \in Ids \ {o} : n[x] = m[x]
    PROVE  /\ IsFiniteSet(Pending(n))
           /\ FlowIn(m) \in Int
           /\ FlowIn(n) = FlowIn(m) - Total(Amounts(o), m[o]) + Total(Amounts(o), n[o])
<1> DEFINE f == [x \in Ids |-> Total(Amounts(x), m[x])]
           g == [x \in Ids |-> Total(Amounts(x), n[x])]
           B == Pending(m) \cup {o}
<1>1. IsFiniteSet(B) /\ o \in B /\ B \subseteq Ids /\ Pending(m) \subseteq B
  BY FS_AddElement DEF Pending
<1>2. Pending(n) \subseteq B BY DEF Pending
<1>3. IsFiniteSet(Pending(n)) BY <1>1, <1>2, FS_Subset
<1>4. ASSUME NEW x \in Ids
      PROVE  /\ f[x] \in Int /\ g[x] \in Int
             /\ x \notin Pending(m) => f[x] = 0
             /\ x \notin Pending(n) => g[x] = 0
  BY AmountsType, TotalType DEF Pending
<1>5. \A x \in B \ {o} : f[x] = g[x] BY <1>1
<1>6. f[o] = Total(Amounts(o), m[o]) /\ g[o] = Total(Amounts(o), n[o]) OBVIOUS
<1>7. FlowIn(m) = SumOver(f, Pending(m)) /\ FlowIn(n) = SumOver(g, Pending(n)) BY DEF FlowIn
<1> HIDE DEF f, g, B
<1>8. SumOver(f, Pending(m)) = SumOver(f, B)
  <2>1. (\A x \in B : f[x] \in Int) /\ (\A x \in B \ Pending(m) : f[x] = 0) BY <1>1, <1>4
  <2> QED BY <1>1, <2>1, SumSupport
<1>9. SumOver(g, Pending(n)) = SumOver(g, B)
  <2>1. (\A x \in B : g[x] \in Int) /\ (\A x \in B \ Pending(n) : g[x] = 0) BY <1>1, <1>4
  <2> QED BY <1>1, <1>2, <2>1, SumSupport
<1>10. /\ SumOver(f, B) \in Int
       /\ SumOver(g, B) = SumOver(f, B) - f[o] + g[o]
  <2>1. \A x \in B : f[x] \in Int /\ g[x] \in Int BY <1>1, <1>4
  <2>2. IsFiniteSet(B) /\ o \in B BY <1>1
  <2>3. SumOver(f, B) \in Int BY <2>1, <2>2, SumType
  <2>4. SumOver(g, B) = SumOver(f, B) - f[o] + g[o] BY <1>5, <2>1, <2>2, SumUpdate
  <2> QED BY <2>3, <2>4
<1> QED BY <1>3, <1>6, <1>7, <1>8, <1>9, <1>10

\* Ledger's InFlight is the flow of its queues.
LEMMA InFlightFlow ==
    ASSUME NEW m \in [Ids -> Seq(Fills)]
    PROVE  SumOver([o \in Ids |-> SumOver([k \in DOMAIN m[o] |-> CashFlow(o, m[o][k].price, m[o][k].size)],
                                       DOMAIN m[o])], Pending(m)) = FlowIn(m)
<1>1. ASSUME NEW o \in Ids
      PROVE  [k \in DOMAIN m[o] |-> CashFlow(o, m[o][k].price, m[o][k].size)]
                = [k \in DOMAIN m[o] |-> Amounts(o)[m[o][k]]]
  BY DEF Amounts
<1>2. ASSUME NEW o \in Ids
      PROVE  SumOver([k \in DOMAIN m[o] |-> CashFlow(o, m[o][k].price, m[o][k].size)], DOMAIN m[o])
                = Total(Amounts(o), m[o])
  BY <1>1 DEF Total
<1> QED BY <1>2 DEF FlowIn

-----------------------------------------------------------------------------
(* The inductive invariant.                                                *)

\* Every settled trade is within its order's limit.
MinedWithinLimit ==
    \A o \in Ids : \A k \in DOMAIN mined[o] : WithinLimit(o, mined[o][k].price)

\* A reservation has at least the size that was never matched plus the trades
\* it has still to pay for.
LeftFor(o) == Order[o].RequestedSize - matched[o] + Unapplied(o)
SizesCovered ==
    /\ \A o \in Ids : Unapplied(o) <= matched[o]
    /\ \A o \in DOMAIN ledger.Orders : ledger.Orders[o].RemainingSize >= LeftFor(o)
    /\ \A o \in DOMAIN ledger.Provisionals : ledger.Provisionals[o].RemainingSize >= LeftFor(o)

\* A balance is read only where balance sync is on.
SyncOff == ~ setup.sync => syncRead = NoRead

Inv ==
    /\ TypeOK /\ Sound(ledger) /\ MinedWithinLimit
    /\ BalanceCoversReservations /\ TokenReservedExact
    /\ SizesCovered /\ SyncOff /\ IsFiniteSet(Pending(mined)) /\ CashConserved

\* What the invariant says of the operands of the books.
LEMMA TotalsType ==
    ASSUME TypeOK, NEW o \in Ids
    PROVE  /\ mined[o] \in Seq(Fills) /\ matched[o] \in Nat
           /\ Unapplied(o) \in Nat /\ LeftFor(o) \in Int
           /\ Order[o].RequestedSize \in Nat
<1>1. mined[o] \in Seq(Fills) /\ matched[o] \in Nat BY DEF TypeOK
<1>2. Unapplied(o) \in Nat BY <1>1, AmountsType, TotalType DEF Unapplied
<1>3. Order[o].RequestedSize \in Nat BY TermsType
<1> QED BY <1>1, <1>2, <1>3 DEF LeftFor

\* The ledger's keys are orders and its sizes are numbers.
LEMMA LedgerKeys ==
    ASSUME NEW s, Sound(s)
    PROVE  /\ DOMAIN s.Orders \subseteq Ids /\ DOMAIN s.Provisionals \subseteq Ids
           /\ \A o \in DOMAIN s.Orders : s.Orders[o].RemainingSize \in Nat
           /\ \A o \in DOMAIN s.Provisionals : s.Provisionals[o].RemainingSize \in Nat
           /\ s.Available \in Int /\ s.Reserved \in Int
BY DEF Sound, IsLedger, IsMap, OrderReservation, ProvisionalReservation

\* The first state, after the balance and the positions were read.
LEMMA InitInv == Init => Inv
<1> SUFFICES ASSUME Init PROVE Inv OBVIOUS
<1>1. ledger = OpeningLedger BY DEF Init
<1>6. Sound(ledger) BY <1>1, OpeningSound
<1>7. TypeOK
  BY <1>6, LedgerAssumption, OrderAssumption DEF Sound, Init, TypeOK, Setup
<1>8. MinedWithinLimit BY DEF Init, MinedWithinLimit
<1>9. /\ \A x : HeldBy(ledger, x) = 0
      /\ ledger.Available = Cash /\ ledger.Reserved = 0
      /\ \A t \in Tokens : TokenAt(ledger, t).Reserved = 0
      /\ DOMAIN ledger.Orders = {} /\ DOMAIN ledger.Provisionals = {}
  BY <1>1, OpeningSound
<1>10. BalanceCoversReservations
  BY <1>9 DEF BalanceCoversReservations
<1>11. TokenReservedExact
  BY <1>9 DEF TokenReservedExact
<1>12. \A o \in Ids : mined[o] = << >> /\ matched[o] = 0 BY DEF Init
<1>13. SizesCovered
  <2>2. \A o \in Ids : Unapplied(o) = 0
    BY <1>7, <1>12, AmountsType, TotalType, TotalsType DEF Unapplied
  <2> QED BY <1>9, <1>12, <2>2 DEF SizesCovered
<1>14. SyncOff BY DEF Init, SyncOff
<1>15. Pending(mined) = {} BY <1>12 DEF Pending
<1>16. CashConserved
  <2>1. InFlight = 0 BY <1>15, SumEmpty DEF InFlight, Pending
  <2> QED BY <1>9, <2>1, OrderAssumption DEF CashConserved, Init
<1> QED BY <1>6, <1>7, <1>8, <1>10, <1>11, <1>13, <1>14, <1>15, <1>16, FS_EmptySet DEF Inv

\* An operation that moves money between Available and Reserved for the
\* reservations it adds or drops keeps the books.
LEMMA MoveStep ==
    ASSUME Inv, Sound(ledger'), SizesFrom(ledger, ledger'),
           \A a \in Accounts : HeldBy(ledger, a) <= TakenFrom(ledger, a) =>
                                    \E n \in Int : Moved(ledger, ledger', a, n),
           UNCHANGED <<wallet, mined, matched, missed, redeemed, setup>>
    PROVE  BalanceCoversReservations' /\ TokenReservedExact' /\ SizesCovered' /\ CashConserved'
<1>1. ASSUME NEW a \in Accounts
      PROVE  /\ HeldBy(ledger, a) \in Nat /\ TakenFrom(ledger, a) \in Nat
             /\ FreeIn(ledger, a) \in Nat
  BY BooksType DEF Inv
<1>2. ASSUME NEW a \in Accounts, HeldBy(ledger, a) <= TakenFrom(ledger, a)
      PROVE  /\ HeldBy(ledger, a)' <= TakenFrom(ledger, a)'
             /\ HeldBy(ledger, a) = TakenFrom(ledger, a) =>
                    HeldBy(ledger, a)' = TakenFrom(ledger, a)'
             /\ FreeIn(ledger, a)' + TakenFrom(ledger, a)' = FreeIn(ledger, a) + TakenFrom(ledger, a)
  <2>1. PICK n \in Int : Moved(ledger, ledger', a, n) BY <1>2
  <2>2. /\ FreeIn(ledger', a) = FreeIn(ledger, a) - n
        /\ TakenFrom(ledger', a) = TakenFrom(ledger, a) + n
        /\ HeldBy(ledger', a) = HeldBy(ledger, a) + n
    BY <2>1 DEF Moved
  <2> QED BY <1>1, <1>2, <2>2
<1>3. /\ Balance \in Accounts
      /\ TakenFrom(ledger, Balance) = ledger.Reserved
      /\ TakenFrom(ledger, Balance)' = ledger'.Reserved
      /\ FreeIn(ledger, Balance) = ledger.Available
      /\ FreeIn(ledger, Balance)' = ledger'.Available
  BY DEF Accounts, TakenFrom, FreeIn
<1>4. HeldBy(ledger, Balance) <= TakenFrom(ledger, Balance)
  <2>1. ledger.Reserved >= HeldBy(ledger, Balance) BY DEF Inv, BalanceCoversReservations
  <2> QED BY <1>1, <1>3, <2>1
<1>5. BalanceCoversReservations'
  <2>1. HeldBy(ledger', Balance) <= ledger'.Reserved BY <1>2, <1>3, <1>4
  <2>2. HeldBy(ledger', Balance) \in Nat /\ TakenFrom(ledger', Balance) \in Nat
    BY <1>3, BooksType
  <2> QED BY <1>3, <2>1, <2>2 DEF BalanceCoversReservations
<1>6. TokenReservedExact'
  <2>1. ASSUME NEW t \in Tokens \ redeemed
        PROVE  TokenAt(ledger', t).Reserved = HeldBy(ledger', PositionIn(t))
    <3>1. PositionIn(t) \in Accounts /\ PositionIn(t) # Balance /\ PositionIn(t)[2] = t
      BY PositionInject DEF Accounts
    <3>2. /\ TakenFrom(ledger, PositionIn(t)) = TokenAt(ledger, t).Reserved
          /\ TakenFrom(ledger', PositionIn(t)) = TokenAt(ledger', t).Reserved
      BY <3>1 DEF TakenFrom
    <3>3. HeldBy(ledger, PositionIn(t)) = TakenFrom(ledger, PositionIn(t))
      BY <3>2 DEF Inv, TokenReservedExact
    <3>4. HeldBy(ledger, PositionIn(t)) <= TakenFrom(ledger, PositionIn(t))
      BY <1>1, <3>1, <3>3
    <3> QED BY <1>2, <3>1, <3>2, <3>3, <3>4
  <2> QED BY <2>1 DEF TokenReservedExact
<1>7. SizesCovered'
  <2>1. \A o \in Ids : Unapplied(o)' = Unapplied(o) /\ LeftFor(o)' = LeftFor(o) /\ matched'[o] = matched[o]
    BY DEF Unapplied, LeftFor
  <2>2. ASSUME NEW o \in Ids PROVE Order[o].RequestedSize >= LeftFor(o)
    <3>1. Unapplied(o) <= matched[o] BY DEF Inv, SizesCovered
    <3> QED BY <3>1, TotalsType DEF LeftFor, Inv
  <2>3. DOMAIN ledger'.Orders \subseteq Ids /\ DOMAIN ledger'.Provisionals \subseteq Ids
    BY LedgerKeys
  <2>4. /\ \A o \in Ids : Unapplied(o) <= matched[o]
        /\ \A o \in DOMAIN ledger.Orders : ledger.Orders[o].RemainingSize >= LeftFor(o)
        /\ \A o \in DOMAIN ledger.Provisionals : ledger.Provisionals[o].RemainingSize >= LeftFor(o)
    BY DEF Inv, SizesCovered
  <2>5. ASSUME NEW o \in DOMAIN ledger'.Orders
        PROVE  ledger'.Orders[o].RemainingSize >= LeftFor(o)
    BY <2>2, <2>3, <2>4 DEF SizesFrom
  <2>6. ASSUME NEW o \in DOMAIN ledger'.Provisionals
        PROVE  ledger'.Provisionals[o].RemainingSize >= LeftFor(o)
    BY <2>2, <2>3, <2>4 DEF SizesFrom
  <2>7. /\ \A o \in Ids : Unapplied(o)' <= matched'[o]
        /\ \A o \in DOMAIN ledger'.Orders : ledger'.Orders[o].RemainingSize >= LeftFor(o)'
        /\ \A o \in DOMAIN ledger'.Provisionals :
                ledger'.Provisionals[o].RemainingSize >= LeftFor(o)'
    BY <2>1, <2>3, <2>4, <2>5, <2>6
  <2> QED BY <2>7 DEF SizesCovered
<1>8. CashConserved'
  <2>1. ledger'.Available + ledger'.Reserved = ledger.Available + ledger.Reserved
    BY <1>2, <1>3, <1>4
  <2>2. InFlight' = InFlight BY DEF InFlight, Flows
  <2> QED BY <2>1, <2>2 DEF Inv, CashConserved
<1> QED BY <1>5, <1>6, <1>7, <1>8

\* A fill pays with the reservation and credits its proceeds.
LEMMA FillStep ==
    ASSUME Inv, NEW o \in Ids, Fill(o)
    PROVE  Inv'
<1> DEFINE f == Head(mined[o])
           err == FillError(ledger, o, Order[o].TokenID, Order[o].Side, f.size)
<1>0. TypeOK /\ Sound(ledger) /\ MinedWithinLimit BY DEF Inv
<1>1. mined[o] \in Seq(Fills) /\ mined[o] # << >> BY <1>0 DEF Fill, TypeOK
<1>2. f \in Fills /\ f = mined[o][1] /\ 1 \in DOMAIN mined[o] BY <1>1
<1>3. f.size \in Nat \ {0} /\ f.price \in Nat /\ WithinLimit(o, f.price)
  BY <1>0, <1>2 DEF MinedWithinLimit, Fills
<1>4. today \in Nat BY <1>0 DEF TypeOK
<1>5. /\ ledger' = ApplyFill(ledger, o, Order[o].TokenID, Order[o].Side, f.size, f.price, today)
      /\ mined' = [mined EXCEPT ![o] = Tail(mined[o])]
      /\ missed' = IF err = "nil" THEN missed ELSE missed \cup {o}
      /\ UNCHANGED <<today, wallet, matched, called, syncRead, redeemed, setup>>
  BY DEF Fill
<1> HIDE DEF f
<1>6. /\ Sound(ledger')
      /\ err # "nil" => ledger' = ledger
      /\ ledger'.Provisionals = ledger.Provisionals
      /\ DOMAIN ledger'.Orders \subseteq DOMAIN ledger.Orders
      /\ \A x \in DOMAIN ledger'.Orders :
            /\ x # o => ledger'.Orders[x].RemainingSize = ledger.Orders[x].RemainingSize
            /\ x = o => ledger'.Orders[x].RemainingSize >= ledger.Orders[x].RemainingSize - f.size
      /\ \A a \in Accounts :
            /\ FreeIn(ledger', a) >= FreeIn(ledger, a)
            /\ HeldBy(ledger, a) <= TakenFrom(ledger, a) => HeldBy(ledger', a) <= TakenFrom(ledger', a)
            /\ a # Balance /\ HeldBy(ledger, a) = TakenFrom(ledger, a) =>
                    HeldBy(ledger', a) = TakenFrom(ledger', a)
      /\ err = "nil" =>
            /\ o \in DOMAIN ledger.Orders
            /\ HeldBy(ledger, Balance) <= ledger.Reserved /\ f.size <= ledger.Orders[o].RemainingSize =>
                    ledger'.Available + ledger'.Reserved =
                        ledger.Available + ledger.Reserved + CashFlow(o, f.price, f.size)
  <2>1. f.size \in Nat BY <1>3
  <2>3. ledger' = ApplyFill(ledger, o, Order[o].TokenID, Order[o].Side, f.size, f.price, today)
    BY <1>5
  <2>4. Sound(ledger) /\ o \in Ids /\ f.price \in Nat /\ WithinLimit(o, f.price) BY <1>0, <1>3
  <2>5. /\ Sound(ledger')
        /\ err # "nil" => ledger' = ledger
        /\ ledger'.Provisionals = ledger.Provisionals
        /\ DOMAIN ledger'.Orders \subseteq DOMAIN ledger.Orders
    BY ONLY <1>4, <2>1, <2>3, <2>4, ApplyFillSound
  <2>6. \A x \in DOMAIN ledger'.Orders :
            /\ x # o => ledger'.Orders[x].RemainingSize = ledger.Orders[x].RemainingSize
            /\ x = o => ledger'.Orders[x].RemainingSize >= ledger.Orders[x].RemainingSize - f.size
    BY ONLY <1>4, <2>1, <2>3, <2>4, ApplyFillSound
  <2>7. \A a \in Accounts :
            /\ FreeIn(ledger', a) >= FreeIn(ledger, a)
            /\ HeldBy(ledger, a) <= TakenFrom(ledger, a) => HeldBy(ledger', a) <= TakenFrom(ledger', a)
            /\ a # Balance /\ HeldBy(ledger, a) = TakenFrom(ledger, a) =>
                    HeldBy(ledger', a) = TakenFrom(ledger', a)
    BY ONLY <1>4, <2>1, <2>3, <2>4, ApplyFillSound
  <2>8. ASSUME err = "nil" PROVE o \in DOMAIN ledger.Orders
    BY ONLY <1>4, <2>1, <2>3, <2>4, <2>8, ApplyFillSound
  <2>9. ASSUME err = "nil", HeldBy(ledger, Balance) <= ledger.Reserved,
               f.size <= ledger.Orders[o].RemainingSize
        PROVE  ledger'.Available + ledger'.Reserved =
                    ledger.Available + ledger.Reserved + CashFlow(o, f.price, f.size)
    BY ONLY <1>4, <2>1, <2>3, <2>4, <2>9, ApplyFillSound
  <2> QED BY ONLY <2>5, <2>6, <2>7, <2>8, <2>9, Zenon
<1> HIDE DEF err
<1>7. /\ Tail(mined[o]) \in Seq(Fills)
      /\ mined' \in [Ids -> Seq(Fills)] /\ mined'[o] = Tail(mined[o])
      /\ \A x \in Ids \ {o} : mined'[x] = mined[x]
  BY <1>0, <1>1, <1>5 DEF TypeOK
<1>8. TypeOK'
  <2>1. missed' \subseteq Ids BY <1>0, <1>5 DEF TypeOK
  <2> QED BY <1>0, <1>5, <1>6, <1>7, <2>1 DEF TypeOK, Sound
<1>9. MinedWithinLimit'
  <2>1. ASSUME NEW x \in Ids, NEW k \in DOMAIN mined'[x] PROVE WithinLimit(x, mined'[x][k].price)
    <3>1. CASE x # o BY <1>0, <1>7, <3>1 DEF MinedWithinLimit
    <3>2. CASE x = o
      <4>1. k + 1 \in DOMAIN mined[o] /\ mined'[o][k] = mined[o][k + 1] BY <1>1, <1>7, <3>2
      <4> QED BY <1>0, <3>2, <4>1 DEF MinedWithinLimit
    <3> QED BY <3>1, <3>2
  <2> QED BY <2>1 DEF MinedWithinLimit
<1>10. /\ Balance \in Accounts
       /\ TakenFrom(ledger, Balance) = ledger.Reserved
       /\ TakenFrom(ledger', Balance) = ledger'.Reserved
  BY DEF Accounts, TakenFrom
<1>11. \A a \in Accounts : HeldBy(ledger, a) \in Nat /\ TakenFrom(ledger, a) \in Nat
                           /\ HeldBy(ledger', a) \in Nat /\ TakenFrom(ledger', a) \in Nat
  BY <1>0, <1>6, BooksType
<1>12. HeldBy(ledger, Balance) <= ledger.Reserved
  BY <1>10, <1>11 DEF Inv, BalanceCoversReservations
<1>13. BalanceCoversReservations'
  BY <1>6, <1>10, <1>11, <1>12 DEF BalanceCoversReservations
<1>14. TokenReservedExact'
  <2>1. ASSUME NEW t \in Tokens \ redeemed
        PROVE  TokenAt(ledger', t).Reserved = HeldBy(ledger', PositionIn(t))
    <3>1. PositionIn(t) \in Accounts /\ PositionIn(t) # Balance /\ PositionIn(t)[2] = t
      BY PositionInject DEF Accounts
    <3>2. /\ TakenFrom(ledger, PositionIn(t)) = TokenAt(ledger, t).Reserved
          /\ TakenFrom(ledger', PositionIn(t)) = TokenAt(ledger', t).Reserved
      BY <3>1 DEF TakenFrom
    <3>3. HeldBy(ledger, PositionIn(t)) = TakenFrom(ledger, PositionIn(t))
      BY <3>2 DEF Inv, TokenReservedExact
    <3> QED BY <1>6, <3>1, <3>2, <3>3
  <2> QED BY <1>5, <2>1 DEF TokenReservedExact
<1>15. ASSUME NEW x \in Ids
       PROVE  /\ Unapplied(x) \in Nat /\ Unapplied(x)' \in Nat
              /\ x # o => Unapplied(x)' = Unapplied(x) /\ LeftFor(x)' = LeftFor(x)
              /\ x = o => /\ Unapplied(x)' = Unapplied(x) - f.size
                          /\ LeftFor(x)' = LeftFor(x) - f.size
              /\ LeftFor(x) \in Int /\ LeftFor(x)' \in Int
              /\ matched'[x] = matched[x] /\ matched[x] \in Nat
  <2>1. Unapplied(x) \in Nat /\ LeftFor(x) \in Int /\ matched[x] \in Nat
        /\ Order[x].RequestedSize \in Nat
    BY <1>0, TotalsType
  <2>2. Sizes \in [Fills -> Int] /\ Sizes[f] = f.size /\ \A g \in Fills : Sizes[g] \in Nat
    BY <1>2, AmountsType DEF Sizes
  <2>3. x = o => Total(Sizes, mined'[x]) = Total(Sizes, mined[x]) - f.size
    BY <1>1, <1>7, <2>2, TotalTail DEF f
  <2>4. x # o => mined'[x] = mined[x] BY <1>7
  <2>5. Total(Sizes, mined'[x]) \in Nat BY <1>7, <2>2, TotalType
  <2>6. Unapplied(x) = Total(Sizes, mined[x]) /\ Unapplied(x)' = Total(Sizes, mined'[x])
    BY DEF Unapplied
  <2>7. /\ LeftFor(x) = Order[x].RequestedSize - matched[x] + Unapplied(x)
        /\ LeftFor(x)' = Order[x].RequestedSize - matched[x] + Unapplied(x)'
    BY <1>5 DEF LeftFor
  <2>8. matched'[x] = matched[x] BY <1>5
  <2>9. CASE x = o
    <3>1. /\ Unapplied(x)' = Unapplied(x) - f.size /\ Unapplied(x)' \in Nat
      BY <2>3, <2>5, <2>6, <2>9
    <3>2. LeftFor(x)' = LeftFor(x) - f.size /\ LeftFor(x)' \in Int
      BY <1>3, <2>1, <2>7, <3>1
    <3> QED BY <2>1, <2>8, <2>9, <3>1, <3>2
  <2>10. CASE x # o
    <3>1. Unapplied(x)' = Unapplied(x) BY <2>4, <2>6, <2>10
    <3>2. LeftFor(x)' = LeftFor(x) BY <2>7, <3>1
    <3> QED BY <2>1, <2>8, <2>10, <3>1, <3>2
  <2> QED BY <2>9, <2>10
<1>16. SizesCovered'
  <2>1. /\ \A x \in Ids : Unapplied(x) <= matched[x]
        /\ \A x \in DOMAIN ledger.Orders : ledger.Orders[x].RemainingSize >= LeftFor(x)
        /\ \A x \in DOMAIN ledger.Provisionals : ledger.Provisionals[x].RemainingSize >= LeftFor(x)
    BY DEF Inv, SizesCovered
  <2>2. \A x \in Ids : Unapplied(x)' <= matched'[x] BY <1>3, <1>15, <2>1
  <2>3. ASSUME NEW x \in DOMAIN ledger'.Orders
        PROVE  ledger'.Orders[x].RemainingSize >= LeftFor(x)'
    <3>1. x \in DOMAIN ledger.Orders /\ x \in Ids BY <1>0, <1>6, LedgerKeys
    <3>2. ledger.Orders[x].RemainingSize \in Nat /\ ledger'.Orders[x].RemainingSize \in Nat
      BY <1>0, <1>6, <3>1, LedgerKeys
    <3> QED BY <1>3, <1>6, <1>15, <2>1, <3>1, <3>2
  <2>4. ASSUME NEW x \in DOMAIN ledger'.Provisionals
        PROVE  ledger'.Provisionals[x].RemainingSize >= LeftFor(x)'
    <3>1. x \in DOMAIN ledger.Provisionals /\ x \in Ids BY <1>0, <1>6, LedgerKeys
    <3>2. ledger.Provisionals[x].RemainingSize \in Nat BY <1>0, <3>1, LedgerKeys
    <3> QED BY <1>3, <1>6, <1>15, <2>1, <3>1, <3>2
  <2> QED BY <2>2, <2>3, <2>4 DEF SizesCovered
<1>17. /\ IsFiniteSet(Pending(mined)) /\ mined \in [Ids -> Seq(Fills)]
       /\ InFlight = FlowIn(mined) /\ InFlight' = FlowIn(mined')
  <2>1. IsFiniteSet(Pending(mined)) /\ mined \in [Ids -> Seq(Fills)] BY DEF Inv, TypeOK
  <2>2. InFlight = FlowIn(mined) BY <2>1, InFlightFlow DEF InFlight, Flows, Pending
  <2>3. InFlight' = FlowIn(mined') BY <1>7, InFlightFlow DEF InFlight, Flows, Pending
  <2> QED BY <2>1, <2>2, <2>3
<1>18. /\ IsFiniteSet(Pending(mined'))
       /\ FlowIn(mined) \in Int
       /\ FlowIn(mined') = FlowIn(mined) - CashFlow(o, f.price, f.size)
  <2>1. /\ IsFiniteSet(Pending(mined')) /\ FlowIn(mined) \in Int
        /\ FlowIn(mined') = FlowIn(mined) - Total(Amounts(o), mined[o])
                                + Total(Amounts(o), mined'[o])
    BY <1>7, <1>17, FlowUpdate
  <2>2. /\ Amounts(o) \in [Fills -> Int] /\ Amounts(o)[f] = CashFlow(o, f.price, f.size)
        /\ Amounts(o)[f] \in Int
    BY <1>2, AmountsType DEF Amounts
  <2>3. /\ Total(Amounts(o), mined[o]) \in Int
        /\ Total(Amounts(o), mined'[o]) = Total(Amounts(o), mined[o]) - CashFlow(o, f.price, f.size)
    BY <1>1, <1>7, <2>2, TotalTail DEF f
  <2>4. CashFlow(o, f.price, f.size) \in Int BY <2>2
  <2> HIDE DEF f
  <2> QED BY <2>1, <2>3, <2>4
<1>19. CashConserved'
  <2> SUFFICES ASSUME ~ setup.sync, missed' = {},
                      \A x \in Ids : matched[x] <= Order[x].RequestedSize
               PROVE  ledger'.Available + ledger'.Reserved = wallet - FlowIn(mined')
    BY <1>5, <1>17 DEF CashConserved
  <2>1. err = "nil" /\ missed = {} BY <1>5
  <2>2. ledger.Available + ledger.Reserved = wallet - FlowIn(mined)
    BY <1>17, <2>1 DEF Inv, CashConserved
  <2>3. o \in DOMAIN ledger.Orders /\ ledger.Orders[o].RemainingSize >= LeftFor(o)
    BY <1>6, <2>1 DEF Inv, SizesCovered
  <2>4. f.size <= Unapplied(o)
    <3>1. Sizes \in [Fills -> Int] /\ Sizes[f] = f.size /\ \A g \in Fills : Sizes[g] \in Nat
      BY <1>2, AmountsType DEF Sizes
    <3> QED BY <1>1, <3>1, TotalType DEF f, Unapplied
  <2>5. f.size <= ledger.Orders[o].RemainingSize
    <3>1. /\ ledger.Orders[o].RemainingSize \in Nat
          /\ Order[o].RequestedSize \in Nat /\ matched[o] \in Nat /\ Unapplied(o) \in Nat
          /\ matched[o] <= Order[o].RequestedSize
      BY <1>0, <2>3, LedgerKeys, TotalsType
    <3> QED BY <1>3, <2>3, <2>4, <3>1 DEF LeftFor
  <2>6. ledger'.Available + ledger'.Reserved = ledger.Available + ledger.Reserved + CashFlow(o, f.price, f.size)
    BY <1>6, <1>12, <2>1, <2>5
  <2>7. CashFlow(o, f.price, f.size) \in Int BY <1>2, AmountsType DEF Amounts
  <2>8. wallet \in Int /\ ledger.Available \in Int /\ ledger.Reserved \in Int
    BY <1>0, LedgerKeys DEF TypeOK
  <2> QED BY <1>18, <2>2, <2>6, <2>7, <2>8
<1>20. SyncOff' BY <1>5 DEF Inv, SyncOff
<1> QED BY <1>6, <1>8, <1>9, <1>13, <1>14, <1>16, <1>18, <1>19, <1>20 DEF Inv

\* A trade settles on chain: wallet and queue move together.
LEMMA MineStep ==
    ASSUME Inv, NEW o \in Ids, NEW size \in 1 .. (Order[o].RequestedSize + setup.overfill),
           NEW price \in FillPrices, Mine(o, size, price)
    PROVE  Inv'
<1> DEFINE f == [size |-> size, price |-> price]
<1>0. TypeOK /\ Sound(ledger) /\ MinedWithinLimit BY DEF Inv
<1>1. size \in Nat \ {0} /\ price \in Nat
  BY <1>0, LedgerAssumption, TermsType DEF TypeOK, Setup
<1>2. f \in Fills /\ f.size = size /\ f.price = price BY <1>1 DEF Fills
<1>3. /\ mined' = [mined EXCEPT ![o] = Append(mined[o], f)] /\ WithinLimit(o, price)
      /\ wallet' = wallet + CashFlow(o, price, size)
      /\ matched' = [matched EXCEPT ![o] = matched[o] + size]
      /\ UNCHANGED <<ledger, today, called, missed, syncRead, redeemed, setup>>
  BY DEF Mine
<1>4. CashFlow(o, price, size) \in Int
  BY <1>1, TermsType, OneAssumption DEF CashFlow, TradePrice, Prices
<1> HIDE DEF f
<1>5. /\ mined' \in [Ids -> Seq(Fills)] /\ mined'[o] = Append(mined[o], f)
      /\ \A x \in Ids \ {o} : mined'[x] = mined[x]
      /\ mined \in [Ids -> Seq(Fills)] /\ mined[o] \in Seq(Fills)
  BY <1>0, <1>2, <1>3 DEF TypeOK
<1>6. TypeOK'
  <2>1. matched' \in [Ids -> Nat] BY <1>0, <1>1, <1>3 DEF TypeOK
  <2>2. wallet' \in Int BY <1>0, <1>3, <1>4 DEF TypeOK
  <2> QED BY <1>0, <1>3, <1>5, <2>1, <2>2 DEF TypeOK
<1>7. MinedWithinLimit'
  <2>1. ASSUME NEW x \in Ids, NEW k \in DOMAIN mined'[x] PROVE WithinLimit(x, mined'[x][k].price)
    <3>1. CASE x # o BY <1>0, <1>5, <3>1 DEF MinedWithinLimit
    <3>2. CASE x = o
      <4>1. (k \in DOMAIN mined[o] /\ mined'[o][k] = mined[o][k]) \/ mined'[o][k] = f
        BY <1>2, <1>5, <3>2
      <4> QED BY <1>0, <1>2, <1>3, <3>2, <4>1 DEF MinedWithinLimit
    <3> QED BY <3>1, <3>2
  <2> QED BY <2>1 DEF MinedWithinLimit
<1>8. BalanceCoversReservations' /\ TokenReservedExact' /\ SyncOff' /\ Sound(ledger')
  BY <1>3 DEF Inv, BalanceCoversReservations, TokenReservedExact, SyncOff
<1>9. ASSUME NEW x \in Ids
      PROVE  /\ LeftFor(x)' = LeftFor(x)
             /\ Unapplied(x) <= matched[x] => Unapplied(x)' <= matched'[x]
  <2>1. /\ Unapplied(x) \in Nat /\ matched[x] \in Nat /\ Order[x].RequestedSize \in Nat
    BY <1>0, TotalsType
  <2>2. Unapplied(x) = Total(Sizes, mined[x]) /\ Unapplied(x)' = Total(Sizes, mined'[x])
    BY DEF Unapplied
  <2>3. /\ LeftFor(x) = Order[x].RequestedSize - matched[x] + Unapplied(x)
        /\ LeftFor(x)' = Order[x].RequestedSize - matched'[x] + Unapplied(x)'
    BY DEF LeftFor
  <2>4. CASE x = o
    <3>1. Sizes \in [Fills -> Int] /\ Sizes[f] = size BY <1>2, AmountsType DEF Sizes
    <3>2. Total(Sizes, mined'[o]) = Total(Sizes, mined[o]) + size
      <4>1. Total(Sizes, Append(mined[o], f)) = Total(Sizes, mined[o]) + Sizes[f]
        BY <1>2, <1>5, <3>1, TotalAppend
      <4> QED BY <1>5, <3>1, <4>1
    <3>3. matched'[o] = matched[o] + size BY <1>0, <1>3 DEF TypeOK
    <3> QED BY <1>1, <2>1, <2>2, <2>3, <2>4, <3>2, <3>3
  <2>5. CASE x # o
    <3>1. mined'[x] = mined[x] /\ matched'[x] = matched[x] BY <1>0, <1>3, <1>5, <2>5 DEF TypeOK
    <3> QED BY <2>1, <2>2, <2>3, <3>1
  <2> QED BY <2>4, <2>5
<1>10. SizesCovered'
  <2>1. DOMAIN ledger.Orders \subseteq Ids /\ DOMAIN ledger.Provisionals \subseteq Ids
    BY <1>0, LedgerKeys
  <2> QED BY <1>3, <1>9, <2>1 DEF Inv, SizesCovered
<1>11. /\ IsFiniteSet(Pending(mined)) /\ InFlight = FlowIn(mined) /\ InFlight' = FlowIn(mined')
  <2>1. IsFiniteSet(Pending(mined)) BY DEF Inv
  <2>2. InFlight = FlowIn(mined) BY <1>5, InFlightFlow DEF InFlight, Flows, Pending
  <2>3. InFlight' = FlowIn(mined') BY <1>5, InFlightFlow DEF InFlight, Flows, Pending
  <2> QED BY <2>1, <2>2, <2>3
<1>12. /\ IsFiniteSet(Pending(mined')) /\ FlowIn(mined) \in Int
       /\ FlowIn(mined') = FlowIn(mined) + CashFlow(o, price, size)
  <2>1. /\ IsFiniteSet(Pending(mined')) /\ FlowIn(mined) \in Int
        /\ FlowIn(mined') = FlowIn(mined) - Total(Amounts(o), mined[o])
                                + Total(Amounts(o), mined'[o])
    BY <1>5, <1>11, FlowUpdate
  <2>2. Amounts(o) \in [Fills -> Int] /\ Amounts(o)[f] = CashFlow(o, price, size)
    BY <1>2, AmountsType DEF Amounts
  <2>3. /\ Total(Amounts(o), mined[o]) \in Int
        /\ Total(Amounts(o), mined'[o]) = Total(Amounts(o), mined[o]) + CashFlow(o, price, size)
    <3>1. /\ Total(Amounts(o), mined[o]) \in Int
          /\ Total(Amounts(o), Append(mined[o], f)) = Total(Amounts(o), mined[o]) + Amounts(o)[f]
      BY <1>2, <1>5, <2>2, TotalAppend
    <3> QED BY <1>5, <2>2, <3>1
  <2> QED BY <1>4, <2>1, <2>3
<1>13. CashConserved'
  <2> SUFFICES ASSUME ~ setup.sync, missed = {},
                      \A x \in Ids : matched'[x] <= Order[x].RequestedSize
               PROVE  ledger.Available + ledger.Reserved = wallet' - FlowIn(mined')
    BY <1>3, <1>11 DEF CashConserved
  <2>1. \A x \in Ids : matched[x] <= Order[x].RequestedSize
    <3>1. ASSUME NEW x \in Ids PROVE matched[x] <= matched'[x] /\ matched[x] \in Nat
      BY <1>0, <1>1, <1>3 DEF TypeOK
    <3>2. \A x \in Ids : Order[x].RequestedSize \in Nat BY TermsType
    <3>3. \A x \in Ids : matched'[x] \in Nat BY <1>6 DEF TypeOK
    <3> QED BY <3>1, <3>2, <3>3
  <2>2. ledger.Available + ledger.Reserved = wallet - FlowIn(mined)
    BY <1>11, <2>1 DEF Inv, CashConserved
  <2>3. wallet \in Int BY <1>0 DEF TypeOK
  <2> QED BY <1>3, <1>4, <1>12, <2>2, <2>3
<1> QED BY <1>6, <1>7, <1>8, <1>10, <1>12, <1>13 DEF Inv

\* The write of a balance sync replaces Available and nothing else.
LEMMA SyncStep ==
    ASSUME Inv, SyncWrite
    PROVE  Inv'
<1>0. TypeOK /\ Sound(ledger) BY DEF Inv
<1>1. /\ ledger' = ReconcileOnchainBalance(ledger, syncRead) /\ syncRead \in Nat
      /\ syncRead' = NoRead /\ setup.sync
      /\ UNCHANGED <<today, wallet, mined, matched, called, missed, redeemed, setup>>
  BY DEF Inv, TypeOK, SyncWrite, SyncOff
<1>2. Sound(ledger') BY <1>0, <1>1, SyncSound
<1>3. /\ ledger'.Reserved = ledger.Reserved /\ ledger'.Tokens = ledger.Tokens
      /\ ledger'.Orders = ledger.Orders /\ ledger'.Provisionals = ledger.Provisionals
  BY <1>0, <1>1 DEF ReconcileOnchainBalance, Sound, IsLedger
<1>4. TypeOK' BY <1>0, <1>1, <1>2 DEF TypeOK, Sound
<1>5. MinedWithinLimit' BY <1>1 DEF Inv, MinedWithinLimit
<1>6. BalanceCoversReservations'
  BY <1>3 DEF Inv, BalanceCoversReservations, HeldBy
<1>7. TokenReservedExact'
  BY <1>1, <1>3 DEF Inv, TokenReservedExact, HeldBy, TokenAt
<1>8. SizesCovered'
  BY <1>1, <1>3 DEF Inv, SizesCovered, LeftFor, Unapplied
<1>9. SyncOff' BY <1>1 DEF SyncOff
<1>10. CashConserved' BY <1>1 DEF CashConserved
<1>11. IsFiniteSet(Pending(mined')) BY <1>1 DEF Inv
<1> QED BY <1>2, <1>4, <1>5, <1>6, <1>7, <1>8, <1>9, <1>10, <1>11 DEF Inv

\* A redemption drops one position and nothing else.
LEMMA RedeemStep ==
    ASSUME Inv, NEW t \in Tokens, Redeem(t)
    PROVE  Inv'
<1>0. TypeOK /\ Sound(ledger) BY DEF Inv
<1>1. /\ ledger' = ClearRedeemedPositions(ledger, {t}) /\ redeemed' = redeemed \cup {t}
      /\ UNCHANGED <<today, wallet, mined, matched, called, missed, syncRead, setup>>
  BY DEF Redeem
<1>2. Sound(ledger') BY <1>0, <1>1, RedeemSound
<1>3. /\ ledger'.Available = ledger.Available /\ ledger'.Reserved = ledger.Reserved
      /\ ledger'.Tokens = Del(ledger.Tokens, {t})
      /\ ledger'.Orders = ledger.Orders /\ ledger'.Provisionals = ledger.Provisionals
  BY <1>0, <1>1 DEF ClearRedeemedPositions, Sound, IsLedger
<1>4. TypeOK' BY <1>0, <1>1, <1>2 DEF TypeOK, Sound
<1>5. MinedWithinLimit' BY <1>1 DEF Inv, MinedWithinLimit
<1>6. BalanceCoversReservations'
  BY <1>3 DEF Inv, BalanceCoversReservations, HeldBy
<1>7. TokenReservedExact'
  <2>1. ASSUME NEW u \in Tokens, u # t PROVE TokenAt(ledger', u) = TokenAt(ledger, u)
    BY <1>3, <2>1 DEF TokenAt, Del, Restrict
  <2> QED BY <1>1, <1>3, <2>1 DEF Inv, TokenReservedExact, HeldBy
<1>8. SizesCovered'
  BY <1>1, <1>3 DEF Inv, SizesCovered, LeftFor, Unapplied
<1>9. SyncOff' BY <1>1 DEF Inv, SyncOff
<1>10. CashConserved'
  <2>1. InFlight' = InFlight BY <1>1 DEF InFlight, Flows
  <2> QED BY <1>1, <1>3, <2>1 DEF Inv, CashConserved
<1>11. IsFiniteSet(Pending(mined')) BY <1>1 DEF Inv
<1> QED BY <1>2, <1>4, <1>5, <1>6, <1>7, <1>8, <1>9, <1>10, <1>11 DEF Inv

\* Steps that touch neither the ledger nor the trades.
LEMMA OutsideStep ==
    ASSUME Inv, UNCHANGED <<ledger, wallet, mined, matched, missed, redeemed, setup>>, TypeOK',
           SyncOff'
    PROVE  Inv'
<1>1. InFlight' = InFlight BY DEF InFlight, Flows
<1>2. CashConserved' BY <1>1 DEF Inv, CashConserved
<1>3. SizesCovered' BY DEF Inv, SizesCovered, LeftFor, Unapplied
<1>4. MinedWithinLimit' /\ BalanceCoversReservations' /\ TokenReservedExact'
  BY DEF Inv, MinedWithinLimit, BalanceCoversReservations, TokenReservedExact
<1>5. IsFiniteSet(Pending(mined')) /\ Sound(ledger') BY DEF Inv
<1> QED BY <1>2, <1>3, <1>4, <1>5 DEF Inv

\* Every step of every goroutine, of the exchange and of the clock.
LEMMA StepInv == Inv /\ [Next]_vars => Inv'
<1> SUFFICES ASSUME Inv, [Next]_vars PROVE Inv' OBVIOUS
<1>0. TypeOK /\ Sound(ledger) BY DEF Inv
<1> DEFINE Kept == UNCHANGED <<wallet, mined, matched, missed, redeemed, setup, syncRead>>
<1>a. ASSUME Kept, Sound(ledger'), SizesFrom(ledger, ledger'), TypeOK',
             \A a \in Accounts : HeldBy(ledger, a) <= TakenFrom(ledger, a) =>
                                    \E n \in Int : Moved(ledger, ledger', a, n)
      PROVE  Inv'
  <2>1. BalanceCoversReservations' /\ TokenReservedExact' /\ SizesCovered' /\ CashConserved'
    BY <1>a, MoveStep
  <2>2. MinedWithinLimit' /\ SyncOff' /\ IsFiniteSet(Pending(mined'))
    BY <1>a DEF Inv, MinedWithinLimit, SyncOff
  <2> QED BY <1>a, <2>1, <2>2 DEF Inv
<1>b. ASSUME NEW s, NEW a, \E n \in Nat : Moved(ledger, s, a, - n)
      PROVE  \E n \in Int : Moved(ledger, s, a, n)
  <2>1. PICK n \in Nat : Moved(ledger, s, a, - n) BY <1>b
  <2>2. - n \in Int OBVIOUS
  <2> QED BY <2>1, <2>2
<1>1. ASSUME NEW o \in Ids, ReserveIntent(o) PROVE Inv'
  <2> DEFINE q == Order[o]
             r == TryReserveProvisional(ledger, o, q.TokenID, q.Side, q.Price, q.RequestedSize)
  <2>1. r.err = "nil" /\ ledger' = r.st BY <1>1 DEF ReserveIntent
  <2>2. Sound(r.st) /\ SizesFrom(ledger, r.st)
    BY <1>0, TryReserveSound, TryReserveSizes
  <2>3. \A a \in Accounts : \E n \in Int : Moved(ledger, r.st, a, n)
    <3>1. RequiredCollateral(q.Side, q.Price, q.RequestedSize) \in Int BY TermsType
    <3>2. ASSUME NEW a \in Accounts PROVE \E n \in Int : Moved(ledger, r.st, a, n)
      <4> DEFINE n == Part(a, Account(q.Side, q.TokenID),
                           RequiredCollateral(q.Side, q.Price, q.RequestedSize))
      <4>1. Moved(ledger, r.st, a, n) BY <1>0, <2>1, TryReserveMoves
      <4>2. n \in Int BY <3>1 DEF Part
      <4> HIDE DEF n, r
      <4> QED BY <4>1, <4>2
    <3> QED BY <3>2
  <2> HIDE DEF r
  <2>4. TypeOK' BY <1>0, <1>1, <2>1, <2>2 DEF ReserveIntent, TypeOK, Sound
  <2>5. Kept BY <1>1 DEF ReserveIntent
  <2> QED BY <1>a, <2>1, <2>2, <2>3, <2>4, <2>5
<1>2. ASSUME NEW o \in Ids, NEW how \in {"ack", "live"}, Attach(o, how) PROVE Inv'
  <2> DEFINE q == Order[o]
             i == IF how = "ack" THEN o ELSE NoIntent
             r == AttachOrder(ledger, i, o, q.TokenID, q.Side, q.Price, q.RequestedSize)
  <2>1. ledger' = r.st BY <1>2 DEF Attach
  <2>2. i = o \/ i \notin Ids BY LedgerAssumption
  <2> HIDE DEF i
  <2>3. Sound(r.st) /\ SizesFrom(ledger, r.st)
    BY <1>0, <2>2, AttachSound, AttachSizes
  <2>4. ASSUME NEW a \in Accounts, HeldBy(ledger, a) <= TakenFrom(ledger, a)
        PROVE  \E n \in Int : Moved(ledger, r.st, a, n)
    BY <1>0, <2>2, <2>4, AttachMoves
  <2> HIDE DEF r
  <2>5. TypeOK' BY <1>0, <1>2, <2>1, <2>3 DEF Attach, TypeOK, Sound
  <2>6. Kept BY <1>2 DEF Attach
  <2> QED BY <1>a, <2>1, <2>3, <2>4, <2>5, <2>6
<1>3. ASSUME NEW o \in Ids, RejectIntent(o) PROVE Inv'
  <2>1. ledger' = ReleaseProvisional(ledger, o) BY <1>3 DEF RejectIntent
  <2>2. Sound(ledger') /\ SizesFrom(ledger, ledger')
    BY <1>0, <2>1, ReleaseProvisionalSound, ReleaseProvisionalSizes
  <2>3. \A a \in Accounts : HeldBy(ledger, a) <= TakenFrom(ledger, a) =>
                \E n \in Int : Moved(ledger, ledger', a, n)
    BY <1>0, <1>b, <2>1, ReleaseProvisionalMoves
  <2>4. TypeOK' BY <1>0, <1>3, <2>2 DEF RejectIntent, TypeOK, Sound
  <2>5. Kept BY <1>3 DEF RejectIntent
  <2> QED BY <1>a, <2>2, <2>3, <2>4, <2>5
<1>4. ASSUME NEW o \in Ids, EndOrder(o) PROVE Inv'
  <2>1. ledger' = ReleaseOrder(ledger, o) BY <1>4 DEF EndOrder
  <2>2. Sound(ledger') /\ SizesFrom(ledger, ledger')
    BY <1>0, <2>1, ReleaseOrderSound, ReleaseOrderSizes
  <2>3. \A a \in Accounts : HeldBy(ledger, a) <= TakenFrom(ledger, a) =>
                \E n \in Int : Moved(ledger, ledger', a, n)
    BY <1>0, <1>b, <2>1, ReleaseOrderMoves
  <2>4. TypeOK' BY <1>0, <1>4, <2>2 DEF EndOrder, TypeOK, Sound
  <2>5. Kept BY <1>4 DEF EndOrder
  <2> QED BY <1>a, <2>2, <2>3, <2>4, <2>5
<1>5. ASSUME NEW o \in Ids, Fill(o) PROVE Inv'
  BY <1>5, FillStep
<1>6. CASE Cleanup
  <2>1. ledger' = CleanupExpiredProvisional(ledger) BY <1>6 DEF Cleanup
  <2>2. Sound(ledger') /\ SizesFrom(ledger, ledger')
    BY <1>0, <2>1, CleanupSound, CleanupSizes
  <2>3. \A a \in Accounts : HeldBy(ledger, a) <= TakenFrom(ledger, a) =>
                \E n \in Int : Moved(ledger, ledger', a, n)
    BY <1>0, <1>b, <2>1, CleanupMoves
  <2>4. TypeOK' BY <1>0, <1>6, <2>2 DEF Cleanup, TypeOK, Sound
  <2>5. Kept BY <1>6 DEF Cleanup
  <2> QED BY <1>a, <2>2, <2>3, <2>4, <2>5
<1>7. CASE SyncRead
  <2>1. TypeOK' /\ SyncOff' BY <1>0, <1>7 DEF SyncRead, TypeOK, Max0, SyncOff
  <2> QED BY <1>7, <2>1, OutsideStep DEF SyncRead
<1>8. CASE SyncWrite
  BY <1>8, SyncStep
<1>9. ASSUME NEW t \in Tokens, Redeem(t) PROVE Inv'
  BY <1>9, RedeemStep
<1>10. ASSUME NEW o \in Ids, NEW size \in 1 .. (Order[o].RequestedSize + setup.overfill),
              NEW price \in FillPrices, Mine(o, size, price)
       PROVE  Inv'
  BY <1>10, MineStep
<1>11. CASE Tick
  <2>1. ledger' = Elapse(ledger) BY <1>11 DEF Tick
  <2>2. Sound(ledger') /\ SizesFrom(ledger, ledger')
    BY <1>0, <2>1, ElapseSound, ElapseSizes
  <2>3. \A a \in Accounts : \E n \in Int : Moved(ledger, ledger', a, n)
    <3>1. \A a \in Accounts : Moved(ledger, ledger', a, 0) BY <1>0, <2>1, ElapseMoves
    <3> QED BY <3>1
  <2>4. TypeOK' BY <1>0, <1>11, <2>2 DEF Tick, TypeOK, Sound
  <2>5. Kept BY <1>11 DEF Tick
  <2> QED BY <1>a, <2>2, <2>3, <2>4, <2>5
<1>12. CASE Midnight
  <2>1. TypeOK' /\ SyncOff' BY <1>0, <1>12, LedgerAssumption DEF Midnight, TypeOK, Setup, Inv, SyncOff
  <2> QED BY <1>12, <2>1, OutsideStep DEF Midnight
<1>13. CASE UNCHANGED vars
  <2>1. TypeOK' /\ SyncOff' BY <1>0, <1>13 DEF vars, TypeOK, Inv, SyncOff
  <2> QED BY <1>13, <2>1, OutsideStep DEF vars
<1> QED BY <1>1, <1>2, <1>3, <1>4, <1>5, <1>6, <1>7, <1>8, <1>9, <1>10, <1>11,
           <1>12, <1>13 DEF Next

-----------------------------------------------------------------------------
(* What holds in every reachable state.                                    *)

\* The invariant holds in every reachable state.
LEMMA LedgerInv == Spec => []Inv
BY InitInv, StepInv, PTL DEF Spec

\* Every goroutine leaves the State well typed: no reservation without a size,
\* no negative Reserved, no reservation on unknown terms.
THEOREM LedgerType == Spec => []TypeOK
<1>1. Inv => TypeOK BY DEF Inv
<1> QED BY <1>1, LedgerInv, PTL

\* No interleaving of reservations, confirmations, expiries, fills, releases,
\* redemptions and balance syncs spends money or tokens twice.
THEOREM LedgerNeverOverdraws == Spec => []NoOverdraft
<1>1. Inv => NoOverdraft BY DEF Inv, Sound, NoOverdraft
<1> QED BY <1>1, LedgerInv, PTL

\* Whatever part of an order was filled, at whatever prices within its limit,
\* the reservation still pays for the rest.
THEOREM LedgerCollateralised == Spec => []ReservationsCollateralised
<1>1. Inv => ReservationsCollateralised
  BY DEF Inv, Sound, Backed, ReservationsCollateralised
<1> QED BY <1>1, LedgerInv, PTL

\* The balance's Reserved covers all BUY reservations together, so the clamps
\* at zero in releaseReservedLocked and ApplyFill never bite on it.
THEOREM LedgerBalanceCovers == Spec => []BalanceCoversReservations
<1>1. Inv => BalanceCoversReservations BY DEF Inv
<1> QED BY <1>1, LedgerInv, PTL

\* A token's Reserved is exactly what the SELL reservations hold of it, unless
\* ClearRedeemedPositions dropped the position under them.
THEOREM LedgerTokenExact == Spec => []TokenReservedExact
<1>1. Inv => TokenReservedExact BY DEF Inv
<1> QED BY <1>1, LedgerInv, PTL

\* Available + Reserved is the wallet minus the trades in flight, while balance
\* sync is off, no trade missed its reservation and no order was overmatched.
THEOREM LedgerCashConserved == Spec => []CashConserved
<1>1. Inv => CashConserved BY DEF Inv
<1> QED BY <1>1, LedgerInv, PTL

-----------------------------------------------------------------------------
(* The ledger implements an escrow.                                        *)

\* The escrow adds up as the ledger does.
LEMMA SameSum ==
    ASSUME NEW f, NEW S
    PROVE  Vault!SumOver(f, S) = SumOver(f, S)
BY Zenon DEF SumOver, Vault!SumOver, MapThenSumSet, Vault!MapThenSumSet,
       MapThenFoldSet, Vault!MapThenFoldSet

\* The deposit a reservation stands for.
DepositOf(r) == [account |-> Account(r.Side, r.TokenID), amount |-> r.Reserved]

\* An entry joins, or leaves.
LEMMA DepositsPut ==
    ASSUME NEW m, NEW x, NEW r
    PROVE  Deposits(Put(m, x, r)) = Vault!With(Deposits(m), x, DepositOf(r))
BY DEF Deposits, Put, Vault!With, DepositOf

\* Entries are dropped.
LEMMA DepositsDel ==
    ASSUME NEW m, NEW X
    PROVE  Deposits(Del(m, X)) = Vault!Without(Deposits(m), X)
<1>1. DOMAIN Del(m, X) = DOMAIN m \ X /\ \A x \in DOMAIN m \ X : Del(m, X)[x] = m[x]
  BY DEF Del, Restrict
<1>2. DOMAIN Deposits(m) = DOMAIN m BY DEF Deposits
<1>3. Vault!Without(Deposits(m), X) = [x \in DOMAIN m \ X |-> Deposits(m)[x]]
  BY <1>2 DEF Vault!Without, Vault!Restrict
<1>4. Deposits(Del(m, X)) = [x \in DOMAIN m \ X |-> DepositOf(m[x])]
  BY <1>1 DEF Deposits, DepositOf
<1>5. \A x \in DOMAIN m : Deposits(m)[x] = DepositOf(m[x]) BY DEF Deposits, DepositOf
<1> QED BY <1>3, <1>4, <1>5

\* What some of the entries hold.
LEMMA DepositedHeld ==
    ASSUME NEW m, NEW X, X \subseteq DOMAIN m, NEW a
    PROVE  Vault!Deposited(Vault!Restrict(Deposits(m), X), a) = HeldIn(Restrict(m, X), a)
<1> DEFINE u == Vault!Restrict(Deposits(m), X)
           v == Restrict(m, X)
<1>1. DOMAIN u = X /\ DOMAIN v = X /\ \A x \in X : v[x] = m[x]
  BY DEF Restrict, Vault!Restrict
<1>2. \A x \in X : u[x] = [account |-> Account(m[x].Side, m[x].TokenID), amount |-> m[x].Reserved]
  BY DEF Vault!Restrict, Deposits
<1> HIDE DEF u, v
<1>3. [x \in DOMAIN u |-> IF u[x].account = a THEN u[x].amount ELSE 0]
        = [x \in DOMAIN v |-> Share(v[x], a)]
  BY <1>1, <1>2 DEF Share
<1>4. Vault!Deposited(u, a) = SumOver([x \in DOMAIN u |-> IF u[x].account = a THEN u[x].amount ELSE 0],
                                       DOMAIN u)
  BY SameSum DEF Vault!Deposited
<1>5. HeldIn(v, a) = SumOver([x \in DOMAIN v |-> Share(v[x], a)], DOMAIN v) BY DEF HeldIn
<1>6. Vault!Deposited(u, a) = HeldIn(v, a) BY <1>1, <1>3, <1>4, <1>5
<1> QED BY <1>6 DEF u, v

\* What is free in each account, and what Reserved holds for no reservation.
Funds(s) == [a \in Accounts |-> FreeIn(s, a)]
Spare(s) == s.Reserved - HeldBy(s, Balance)

\* Money that moves on behalf of a reservation is not the spare money.
LEMMA SpareKept ==
    ASSUME NEW s, Sound(s), NEW r, Sound(r), NEW n \in Int, Moved(s, r, Balance, n)
    PROVE  Spare(r) = Spare(s)
<1>1. Balance \in Accounts BY DEF Accounts
<1>2. TakenFrom(s, Balance) = s.Reserved /\ TakenFrom(r, Balance) = r.Reserved BY DEF TakenFrom
<1>3. /\ s.Reserved \in Nat /\ HeldBy(s, Balance) \in Nat
      /\ r.Reserved \in Nat /\ HeldBy(r, Balance) \in Nat
  BY <1>1, <1>2, BooksType
<1>4. r.Reserved = s.Reserved + n /\ HeldBy(r, Balance) = HeldBy(s, Balance) + n
  BY <1>2 DEF Moved
<1> QED BY <1>3, <1>4 DEF Spare

\* f with n taken from account b.
Lowered(f, b, n) == [f EXCEPT ![b] = @ - n]

\* Funds are taken from one account.
LEMMA FundsLess ==
    ASSUME NEW s, Sound(s), NEW r, NEW b \in Accounts, NEW n \in Nat,
           \A a \in Accounts : FreeIn(r, a) = FreeIn(s, a) - Part(a, b, n)
    PROVE  Funds(r) = Lowered(Funds(s), b, n)
<1>1. \A a \in Accounts : FreeIn(s, a) \in Int BY BooksType
<1>2. \A a \in Accounts : FreeIn(r, a) = IF a = b THEN FreeIn(s, a) - n ELSE FreeIn(s, a)
  BY <1>1 DEF Part
<1> QED BY <1>2 DEF Funds, Lowered

\* From s to r an entry with a deposit of n from account b joined the map m,
\* which is w afterwards.
Takes(s, r, m, w, x, b, n) ==
    /\ x \notin DOMAIN m
    /\ \E e : w = Put(m, x, e) /\ DepositOf(e) = Vault!Deposit(b, n)
    /\ n \in 1 .. FreeIn(s, b)
    /\ Funds(r) = Lowered(Funds(s), b, n)

\* From s to r the entries X left the map m, which is w afterwards.
Returns(s, r, m, w, X) ==
    /\ X # {} /\ X \subseteq DOMAIN m
    /\ w = Del(m, X)
    /\ \A a \in Accounts : FreeIn(r, a) = FreeIn(s, a) + HeldIn(Restrict(m, X), a)

\* TryReserveProvisional.
LEMMA TryReserveTakes ==
    ASSUME NEW s, Sound(s), NEW i \in Ids, NEW r,
           r = TryReserveProvisional(s, i, Order[i].TokenID, Order[i].Side,
                                     Order[i].Price, Order[i].RequestedSize),
           r.err = "nil"
    PROVE  /\ \E b \in Accounts : \E n \in Nat :
                    Takes(s, r.st, s.Provisionals, r.st.Provisionals, i, b, n)
           /\ r.st.Orders = s.Orders /\ Spare(r.st) = Spare(s)
<1> DEFINE q == Order[i]
           n == RequiredCollateral(q.Side, q.Price, q.RequestedSize)
           b == Account(q.Side, q.TokenID)
           taken == Reserve(s, q.Side, q.TokenID, n)
           p == [TokenID |-> q.TokenID, Side |-> q.Side, Price |-> q.Price,
                 RemainingSize |-> q.RequestedSize, Reserved |-> n, Life |-> TTL]
<1>1. /\ i \notin DOMAIN s.Provisionals /\ HasFunds(s, q.Side, q.TokenID, n)
      /\ r.st = [taken EXCEPT !.Provisionals = Put(@, i, p)]
  BY DEF TryReserveProvisional, Result
<1>2. /\ q.Side \in Sides /\ q.TokenID \in Tokens /\ n \in Nat \ {0} /\ b \in Accounts
  BY TermsType, TermsCost, AccountType
<1>3. r.st.Provisionals = Put(s.Provisionals, i, p)
  <2>1. IsLedger(taken, Ids, Tokens) /\ taken.Provisionals = s.Provisionals
    BY <1>1, <1>2, ReserveSound DEF Sound
  <2> HIDE DEF taken, p
  <2> QED BY <1>1, <2>1 DEF IsLedger
<1>4. DepositOf(p) = Vault!Deposit(b, n) BY DEF DepositOf, Vault!Deposit
<1>5. /\ \A a \in Accounts : Moved(s, r.st, a, Part(a, b, n))
      /\ r.st.Orders = s.Orders /\ Sound(r.st)
  BY TryReserveMoves, TryReserveSound
<1>6. FreeIn(s, b) >= n /\ FreeIn(s, b) \in Nat BY <1>1, <1>2, FundsThere, BooksType
<1> HIDE DEF p, n, b, taken, q
<1>7. Funds(r.st) = Lowered(Funds(s), b, n)
  <2>1. \A a \in Accounts : FreeIn(r.st, a) = FreeIn(s, a) - Part(a, b, n)
    BY <1>5 DEF Moved
  <2>2. n \in Nat BY <1>2
  <2>3. b \in Accounts BY <1>2
  <2>4. Sound(s) OBVIOUS
  <2> QED BY ONLY <2>4, <2>3, <2>1, <2>2, FundsLess
<1>8. n \in 1 .. FreeIn(s, b) BY <1>2, <1>6
<1>9. Takes(s, r.st, s.Provisionals, r.st.Provisionals, i, b, n)
  BY <1>1, <1>3, <1>4, <1>7, <1>8 DEF Takes
<1>10. Spare(r.st) = Spare(s)
  <2>1. Balance \in Accounts /\ Part(Balance, b, n) \in Int BY <1>2 DEF Accounts, Part
  <2> QED BY <1>5, <2>1, SpareKept
<1> QED BY <1>2, <1>5, <1>9, <1>10

\* ReleaseProvisional of one that is there.
LEMMA ProvisionalReturns ==
    ASSUME NEW s, Sound(s), HeldBy(s, Balance) <= s.Reserved, NEW i \in DOMAIN s.Provisionals,
           NEW r, r = ReleaseProvisional(s, i)
    PROVE  /\ Returns(s, r, s.Provisionals, r.Provisionals, {i})
           /\ r.Orders = s.Orders /\ Spare(r) = Spare(s)
<1> DEFINE p == s.Provisionals[i]
           d == [s EXCEPT !.Provisionals = Del(@, {i})]
<1>1. p.Side \in Sides /\ p.TokenID \in Tokens /\ p.Reserved \in Nat
  BY DEF Sound, IsLedger, IsMap, ProvisionalReservation
<1>2. /\ d.Available = s.Available /\ d.Reserved = s.Reserved /\ d.Tokens = s.Tokens
      /\ d.Orders = s.Orders /\ d.Provisionals = Del(s.Provisionals, {i})
  BY DEF Sound, IsLedger
<1>3. Sound(d) BY DropProvisionalSound
<1>4. r = releaseReservedLocked(d, p.Side, p.TokenID, p.Reserved)
  BY DEF ReleaseProvisional, FreeProvisional
<1> HIDE DEF d, p
<1>5. r.Orders = s.Orders /\ r.Provisionals = Del(s.Provisionals, {i})
  BY <1>1, <1>2, <1>3, <1>4, ReleaseSound DEF Sound
<1>6. ASSUME NEW a \in Accounts
      PROVE  FreeIn(r, a) = FreeIn(s, a) + HeldIn(Restrict(s.Provisionals, {i}), a)
  <2>1. FreeIn(r, a) = FreeIn(d, a) + Part(a, Account(p.Side, p.TokenID), p.Reserved)
    BY <1>1, <1>3, <1>4, ReleaseAccounts DEF Sound
  <2>2. FreeIn(d, a) = FreeIn(s, a) BY <1>2, SameAccounts
  <2>3. HeldIn(Restrict(s.Provisionals, {i}), a) = Share(p, a)
    BY SoundFunded, HeldOne DEF p
  <2>4. Share(p, a) = Part(a, Account(p.Side, p.TokenID), p.Reserved) BY DEF Share, Part
  <2> QED BY <2>1, <2>2, <2>3, <2>4
<1>7. Spare(r) = Spare(s)
  <2>1. Balance \in Accounts /\ TakenFrom(s, Balance) = s.Reserved BY DEF Accounts, TakenFrom
  <2>2. PICK n \in Nat : Moved(s, r, Balance, - n) BY <2>1, ReleaseProvisionalMoves
  <2>3. Sound(r) /\ - n \in Int BY ReleaseProvisionalSound
  <2> QED BY <2>2, <2>3, SpareKept
<1> QED BY <1>5, <1>6, <1>7 DEF Returns

\* ReleaseOrder of one that is there.
LEMMA OrderReturns ==
    ASSUME NEW s, Sound(s), HeldBy(s, Balance) <= s.Reserved, NEW o \in DOMAIN s.Orders,
           NEW r, r = ReleaseOrder(s, o)
    PROVE  /\ Returns(s, r, s.Orders, r.Orders, {o})
           /\ r.Provisionals = s.Provisionals /\ Spare(r) = Spare(s)
<1> DEFINE p == s.Orders[o]
           d == [s EXCEPT !.Orders = Del(@, {o})]
<1>1. p.Side \in Sides /\ p.TokenID \in Tokens /\ p.Reserved \in Nat
  BY DEF Sound, IsLedger, IsMap, OrderReservation
<1>2. /\ d.Available = s.Available /\ d.Reserved = s.Reserved /\ d.Tokens = s.Tokens
      /\ d.Orders = Del(s.Orders, {o}) /\ d.Provisionals = s.Provisionals
  BY DEF Sound, IsLedger
<1>3. Sound(d) BY DropOrderSound
<1>4. r = releaseReservedLocked(d, p.Side, p.TokenID, p.Reserved)
  BY DEF ReleaseOrder
<1> HIDE DEF d, p
<1>5. r.Orders = Del(s.Orders, {o}) /\ r.Provisionals = s.Provisionals
  BY <1>1, <1>2, <1>3, <1>4, ReleaseSound DEF Sound
<1>6. ASSUME NEW a \in Accounts
      PROVE  FreeIn(r, a) = FreeIn(s, a) + HeldIn(Restrict(s.Orders, {o}), a)
  <2>1. FreeIn(r, a) = FreeIn(d, a) + Part(a, Account(p.Side, p.TokenID), p.Reserved)
    BY <1>1, <1>3, <1>4, ReleaseAccounts DEF Sound
  <2>2. FreeIn(d, a) = FreeIn(s, a) BY <1>2, SameAccounts
  <2>3. HeldIn(Restrict(s.Orders, {o}), a) = Share(p, a)
    BY SoundFunded, HeldOne DEF p
  <2>4. Share(p, a) = Part(a, Account(p.Side, p.TokenID), p.Reserved) BY DEF Share, Part
  <2> QED BY <2>1, <2>2, <2>3, <2>4
<1>7. Spare(r) = Spare(s)
  <2>1. Balance \in Accounts /\ TakenFrom(s, Balance) = s.Reserved BY DEF Accounts, TakenFrom
  <2>2. PICK n \in Nat : Moved(s, r, Balance, - n) BY <2>1, ReleaseOrderMoves
  <2>3. Sound(r) /\ - n \in Int BY ReleaseOrderSound
  <2> QED BY <2>2, <2>3, SpareKept
<1> QED BY <1>5, <1>6, <1>7 DEF Returns

\* CleanupExpiredProvisional, when there is something to expire.
LEMMA CleanupReturns ==
    ASSUME NEW s, Sound(s), HeldBy(s, Balance) <= s.Reserved, Expired(s) # {},
           NEW r, r = CleanupExpiredProvisional(s)
    PROVE  /\ Returns(s, r, s.Provisionals, r.Provisionals, Expired(s))
           /\ r.Orders = s.Orders /\ Spare(r) = Spare(s)
<1>1. Balance \in Accounts /\ TakenFrom(s, Balance) = s.Reserved BY DEF Accounts, TakenFrom
<1>2. Expired(s) \subseteq DOMAIN s.Provisionals BY DEF Expired
<1>3. ASSUME NEW a \in Accounts
      PROVE  /\ r.Orders = s.Orders /\ r.Provisionals = Del(s.Provisionals, Expired(s))
             /\ FreeIn(r, a) = FreeIn(s, a) + HeldIn(Restrict(s.Provisionals, Expired(s)), a)
  BY CleanupAccounts
<1>4. Spare(r) = Spare(s)
  <2>1. PICK n \in Nat : Moved(s, r, Balance, - n) BY <1>1, CleanupMoves
  <2>2. Sound(r) /\ - n \in Int BY CleanupSound
  <2> QED BY <2>1, <2>2, SpareKept
<1> QED BY <1>1, <1>2, <1>3, <1>4 DEF Returns

\* The three things AttachOrder may do: turn the provisional into the order,
\* take the collateral afresh, give the provisional up.
Becomes(s, r, o) ==
    /\ o \in DOMAIN s.Provisionals /\ o \notin DOMAIN s.Orders
    /\ \E e : r.Orders = Put(s.Orders, o, e) /\ DepositOf(e) = DepositOf(s.Provisionals[o])
    /\ r.Provisionals = Del(s.Provisionals, {o})
    /\ Funds(r) = Funds(s)

Joins(s, r, o) ==
    /\ \E b \in Accounts : \E n \in Nat : Takes(s, r, s.Orders, r.Orders, o, b, n)
    /\ r.Provisionals = s.Provisionals

GivenUp(s, r, i) ==
    /\ Returns(s, r, s.Provisionals, r.Provisionals, {i})
    /\ r.Orders = s.Orders

\* A confirmation does one of these, or nothing.
LEMMA AttachKinds ==
    ASSUME NEW s, Sound(s), HeldBy(s, Balance) <= s.Reserved, NEW o \in Ids,
           NEW i, i = o \/ i \notin Ids, NEW r,
           r = AttachOrder(s, i, o, Order[o].TokenID, Order[o].Side,
                           Order[o].Price, Order[o].RequestedSize)
    PROVE  /\ r.st = s \/ GivenUp(s, r.st, i) \/ Becomes(s, r.st, o) \/ Joins(s, r.st, o)
           /\ Spare(r.st) = Spare(s)
<1> DEFINE q == Order[o]
           amount == RequiredCollateral(q.Side, q.Price, q.RequestedSize)
           b == Account(q.Side, q.TokenID)
           taken == Reserve(s, q.Side, q.TokenID, amount)
           e == NewReservation(q.TokenID, q.Side, q.Price, q.RequestedSize, FALSE)
           fresh == [taken EXCEPT !.Orders = Put(@, o, e)]
           p == s.Provisionals[o]
           c == [TokenID |-> p.TokenID, Side |-> p.Side, Price |-> p.Price,
                 RemainingSize |-> p.RemainingSize, Reserved |-> p.Reserved,
                 ExternalOrigin |-> FALSE]
           conv == [s EXCEPT !.Provisionals = Del(@, {o}), !.Orders = Put(@, o, c)]
<1>1. \/ r.st = s
      \/ i \in DOMAIN s.Provisionals /\ r.st = ReleaseProvisional(s, i)
      \/ o \in DOMAIN s.Provisionals /\ o \notin DOMAIN s.Orders /\ r.st = conv
      \/ /\ o \notin DOMAIN s.Orders
         /\ HasFunds(s, q.Side, q.TokenID, amount) /\ r.st = fresh
  <2>1. i \in DOMAIN s.Provisionals => i = o
    BY DEF Sound, IsLedger, IsMap
  <2> QED BY <2>1 DEF AttachOrder, ConvertProvisional, FreshReservation, Result,
                      ReleaseProvisional
<1>2. Spare(r.st) = Spare(s)
  <2>1. Balance \in Accounts /\ TakenFrom(s, Balance) = s.Reserved BY DEF Accounts, TakenFrom
  <2>2. PICK n \in Int : Moved(s, r.st, Balance, n) BY <2>1, AttachMoves
  <2>3. Sound(r.st) BY AttachSound
  <2> QED BY <2>2, <2>3, SpareKept
<1>3. ASSUME i \in DOMAIN s.Provisionals, r.st = ReleaseProvisional(s, i)
      PROVE  GivenUp(s, r.st, i)
  BY <1>3, ProvisionalReturns DEF GivenUp
<1>4. ASSUME o \in DOMAIN s.Provisionals, o \notin DOMAIN s.Orders
      PROVE  Becomes(s, conv, o)
  <2>1. DepositOf(c) = DepositOf(p) BY DEF DepositOf
  <2> HIDE DEF c, p
  <2>2. /\ conv.Available = s.Available /\ conv.Reserved = s.Reserved
        /\ conv.Tokens = s.Tokens
        /\ conv.Orders = Put(s.Orders, o, c) /\ conv.Provisionals = Del(s.Provisionals, {o})
    BY DEF Sound, IsLedger
  <2> HIDE DEF conv
  <2>3. Funds(conv) = Funds(s) BY <2>2, SameAccounts DEF Funds
  <2> QED BY <1>4, <2>1, <2>2, <2>3 DEF Becomes, p
<1>5. ASSUME o \notin DOMAIN s.Orders, HasFunds(s, q.Side, q.TokenID, amount)
      PROVE  Joins(s, fresh, o)
  <2>1. /\ IsLedger(taken, Ids, Tokens)
        /\ taken.Orders = s.Orders /\ taken.Provisionals = s.Provisionals
    BY <1>5, ReserveSound, TermsType DEF Sound
  <2>2. /\ q.Side \in Sides /\ q.TokenID \in Tokens /\ amount \in Nat \ {0} /\ b \in Accounts
    BY TermsType, TermsCost, AccountType
  <2>3. DepositOf(e) = Vault!Deposit(b, amount)
    BY DEF DepositOf, Vault!Deposit, NewReservation
  <2>4. FreeIn(s, b) >= amount /\ FreeIn(s, b) \in Nat BY <1>5, <2>2, FundsThere, BooksType
  <2>5. /\ fresh.Available = taken.Available /\ fresh.Reserved = taken.Reserved
        /\ fresh.Tokens = taken.Tokens /\ fresh.Provisionals = s.Provisionals
        /\ fresh.Orders = Put(s.Orders, o, e)
    <3> HIDE DEF taken, e
    <3> QED BY <2>1 DEF IsLedger
  <2> HIDE DEF fresh, taken, e, amount, q, b
  <2>6. ASSUME NEW a \in Accounts
        PROVE  FreeIn(fresh, a) = FreeIn(s, a) - Part(a, b, amount)
    <3>1. FreeIn(fresh, a) = FreeIn(taken, a) BY <2>5, SameAccounts
    <3> QED BY <2>2, <3>1, ReserveAccounts DEF Sound, taken, b
  <2>7. amount \in Nat /\ amount \in 1 .. FreeIn(s, b) BY <2>2, <2>4
  <2>8. Funds(fresh) = Lowered(Funds(s), b, amount)
    <3>1. Sound(s) /\ b \in Accounts /\ amount \in Nat BY <2>2, <2>7
    <3> QED BY ONLY <3>1, <2>6, FundsLess
  <2>9. Takes(s, fresh, s.Orders, fresh.Orders, o, b, amount)
    BY <1>5, <2>3, <2>5, <2>7, <2>8 DEF Takes
  <2> QED BY <2>2, <2>5, <2>7, <2>9 DEF Joins
<1> HIDE DEF conv, fresh
<1> QED BY <1>1, <1>2, <1>3, <1>4, <1>5

\* The order's reservation after the trade, and what the reservations hold of
\* the balance: the order ends with all it held, or goes on without what was
\* consumed.
Settles(s, r, o, left, consumed) ==
    /\ r.Available = s.Available /\ r.Reserved = s.Reserved /\ r.Tokens = s.Tokens
    /\ r.Provisionals = s.Provisionals
    /\ r = [s EXCEPT !.Orders = r.Orders]
    /\ IF left <= 0
       THEN /\ r.Orders = Del(s.Orders, {o})
            /\ HeldIn(r.Orders, Balance) =
                 HeldIn(s.Orders, Balance) - Share(s.Orders[o], Balance)
       ELSE /\ \E e : /\ r.Orders = Put(s.Orders, o, e)
                      /\ DepositOf(e) = [account |-> DepositOf(s.Orders[o]).account,
                                         amount |-> s.Orders[o].Reserved - consumed]
            /\ HeldIn(r.Orders, Balance) = HeldIn(s.Orders, Balance)
                 - (IF Account(s.Orders[o].Side, s.Orders[o].TokenID) = Balance
                    THEN consumed ELSE 0)

\* SettleReservation settles the order so.
LEMMA OrderSettles ==
    ASSUME NEW s, Sound(s), NEW o \in DOMAIN s.Orders, NEW left \in Nat,
           s.Orders[o].Reserved \in Nat, NEW consumed \in 1 .. s.Orders[o].Reserved,
           NEW r, r = SettleReservation(s, o, left, consumed)
    PROVE  Settles(s, r, o, left, consumed)
<1> DEFINE x == s.Orders[o]
           e == [x EXCEPT !.RemainingSize = left, !.Reserved = @ - consumed]
<1>1. x \in OrderReservation(Tokens) BY DEF Sound, IsLedger, IsMap
<1>2. r = IF left <= 0 THEN [s EXCEPT !.Orders = Del(@, {o})]
                       ELSE [s EXCEPT !.Orders = Put(@, o, e)]
  BY DEF SettleReservation
<1>3. /\ e.Side = x.Side /\ e.TokenID = x.TokenID /\ e.Reserved = x.Reserved - consumed
      /\ x.Reserved - consumed \in Nat
  <2>1. x.Reserved - consumed \in Nat OBVIOUS
  <2> HIDE DEF x
  <2> QED BY <1>1, <2>1 DEF OrderReservation
<1>4. Funded(s.Orders) BY SoundFunded
<1>5. HeldIn(s.Orders, Balance) \in Nat BY <1>4, HeldType
<1> HIDE DEF e
<1>6. /\ r.Available = s.Available /\ r.Reserved = s.Reserved /\ r.Tokens = s.Tokens
      /\ r.Provisionals = s.Provisionals
      /\ r = [s EXCEPT !.Orders = r.Orders]
      /\ r.Orders = IF left <= 0 THEN Del(s.Orders, {o}) ELSE Put(s.Orders, o, e)
  BY <1>2 DEF Sound, IsLedger
<1>7. HeldIn(Del(s.Orders, {o}), Balance) = HeldIn(s.Orders, Balance) - Share(x, Balance)
  BY <1>4, HeldDel
<1>8. HeldIn(Put(s.Orders, o, e), Balance)
        = HeldIn(s.Orders, Balance) - Share(x, Balance) + Share(e, Balance)
  <2>1. e.Reserved \in Nat BY <1>3
  <2> HIDE DEF x
  <2>2. o \in DOMAIN s.Orders =>
        HeldIn(Put(s.Orders, o, e), Balance)
            = HeldIn(s.Orders, Balance) - Share(s.Orders[o], Balance) + Share(e, Balance)
    BY <1>4, <2>1, HeldPut
  <2> QED BY <2>2 DEF x
<1>9. DepositOf(e) = [account |-> DepositOf(x).account, amount |-> x.Reserved - consumed]
  <2> HIDE DEF x
  <2> QED BY <1>3 DEF DepositOf
<1>10. HeldIn(Put(s.Orders, o, e), Balance)
        = HeldIn(s.Orders, Balance) - (IF Account(x.Side, x.TokenID) = Balance THEN consumed ELSE 0)
  <2>1. x.Reserved \in Nat /\ consumed \in Nat OBVIOUS
  <2> HIDE DEF x
  <2>2. /\ Share(x, Balance) = IF Account(x.Side, x.TokenID) = Balance THEN x.Reserved ELSE 0
        /\ Share(e, Balance) = IF Account(x.Side, x.TokenID) = Balance
                               THEN x.Reserved - consumed ELSE 0
    BY <1>3 DEF Share
  <2> QED BY ONLY <1>5, <1>8, <2>1, <2>2
<1> QED BY <1>6, <1>7, <1>9, <1>10 DEF Settles

\* A trade of o: part of its reservation is paid, one other account gains, and
\* the order goes on with the rest, or ends.
Trades(s, r, o) ==
    /\ o \in DOMAIN s.Orders /\ r.Provisionals = s.Provisionals
    /\ LET d == DepositOf(s.Orders[o]) IN
       \E paid \in 1 .. d.amount : \E to \in Accounts \ {d.account} :
            /\ FreeIn(r, to) > FreeIn(s, to)
            /\ \A a \in Accounts \ {to} : FreeIn(r, a) = FreeIn(s, a)
            /\ \/ /\ \E e : /\ r.Orders = Put(s.Orders, o, e)
                            /\ DepositOf(e) = Vault!Deposit(d.account, d.amount - paid)
                  /\ Spare(r) = Spare(s)
               \/ /\ d.account # Balance => paid = d.amount
                  /\ r.Orders = Del(s.Orders, {o})
                  /\ Spare(r) = Spare(s) + (d.amount - paid)

\* ApplyFill of a trade that finds its reservation.
LEMMA ApplyFillTrades ==
    ASSUME NEW s, Sound(s), HeldBy(s, Balance) <= s.Reserved, NEW o \in Ids, NEW size \in Nat,
           NEW fp \in Nat, NEW day \in Nat,
           FillError(s, o, Order[o].TokenID, Order[o].Side, size) = "nil",
           NEW s2, Sound(s2),
           s2 = ApplyFill(s, o, Order[o].TokenID, Order[o].Side, size, fp, day)
    PROVE  Trades(s, s2, o)
<1> DEFINE q == Order[o]
           r == s.Orders[o]
           tp == TokenAt(s, q.TokenID)
           price == IF fp <= 0 THEN r.Price ELSE fp
           cost == RequiredCollateral(q.Side, price, size)
           paid == IF cost > r.Reserved THEN r.Reserved ELSE cost
           left == Max0(r.RemainingSize - size)
           settled == SettleReservation(s, o, left, paid)
           booked == IF tp.AvgCostKnown
                     THEN addDailyPnLLocked(settled, day, (price - tp.AvgCost) * size)
                     ELSE settled
           bp == BoughtPosition(tp, price, size)
           np == [tp EXCEPT !.Reserved = Max0(@ - paid)]
           tb == SetToken(settled, q.TokenID, bp)
           ts == SetToken(booked, q.TokenID, np)
           bought == [tb EXCEPT !.Reserved = Max0(@ - paid)]
           sold == [ts EXCEPT !.Available = @ + price * size]
           d == DepositOf(r)
<1>1. /\ size \in Nat \ {0} /\ o \in DOMAIN s.Orders
      /\ s2 = IF q.Side = "BUY" THEN bought ELSE sold
  <2>1. size # 0 /\ o \in DOMAIN s.Orders BY DEF FillError
  <2> QED BY <2>1 DEF ApplyFill
<1>2. /\ price \in Nat \ {0} /\ left \in Nat /\ r.Reserved \in Nat
      /\ paid \in 1 .. r.Reserved
      /\ r.Side = q.Side /\ r.TokenID = q.TokenID
      /\ q.Side # "BUY" /\ left <= 0 => paid = r.Reserved
  <2>1. /\ o \in DOMAIN s.Orders /\ size \in Nat \ {0}
        /\ price = (IF fp <= 0 THEN s.Orders[o].Price ELSE fp)
        /\ cost = RequiredCollateral(Order[o].Side, price, size)
        /\ paid = (IF cost > s.Orders[o].Reserved THEN s.Orders[o].Reserved ELSE cost)
        /\ left = Max0(s.Orders[o].RemainingSize - size)
    BY <1>1
  <2> HIDE DEF price, cost, paid, left, r, q
  <2>2. /\ price \in Nat \ {0} /\ left \in Nat /\ s.Orders[o].Reserved \in Nat
        /\ paid \in 1 .. s.Orders[o].Reserved
        /\ s.Orders[o].Side = Order[o].Side /\ s.Orders[o].TokenID = Order[o].TokenID
        /\ Order[o].Side # "BUY" /\ left <= 0 => paid = s.Orders[o].Reserved
    BY ONLY <2>1, Sound(s), fp \in Nat, ConsumedPart
  <2> QED BY <2>2 DEF r, q
<1>3. /\ settled.Available = s.Available /\ settled.Reserved = s.Reserved
      /\ settled.Tokens = s.Tokens /\ settled.Provisionals = s.Provisionals
      /\ settled = [s EXCEPT !.Orders = settled.Orders]
      /\ IF left <= 0
         THEN /\ settled.Orders = Del(s.Orders, {o})
              /\ HeldIn(settled.Orders, Balance) = HeldIn(s.Orders, Balance) - Share(r, Balance)
         ELSE /\ \E e : /\ settled.Orders = Put(s.Orders, o, e)
                        /\ DepositOf(e) = [account |-> d.account, amount |-> r.Reserved - paid]
              /\ HeldIn(settled.Orders, Balance) = HeldIn(s.Orders, Balance)
                   - (IF Account(r.Side, r.TokenID) = Balance THEN paid ELSE 0)
  <2> HIDE DEF left, paid, q, d
  <2>1. /\ o \in DOMAIN s.Orders /\ left \in Nat /\ s.Orders[o].Reserved \in Nat
        /\ paid \in 1 .. s.Orders[o].Reserved /\ settled = SettleReservation(s, o, left, paid)
    BY <1>1, <1>2
  <2> HIDE DEF settled, r
  <2>2. Settles(s, settled, o, left, paid)
    BY ONLY <2>1, Sound(s), OrderSettles
  <2> QED BY <2>2 DEF r, d, Settles
<1>4. q.Side \in Sides /\ q.TokenID \in Tokens BY TermsType
<1>5. d.account = Account(q.Side, q.TokenID) /\ d.amount = r.Reserved BY <1>2 DEF DepositOf
<1>6. tp \in TokenPosition /\ tp.Available \in Int
  <2>1. tp \in TokenPosition BY <1>4, TokenAtType DEF Sound
  <2> QED BY <2>1 DEF TokenPosition
<1>7. settled = [Available |-> settled.Available, Reserved |-> settled.Reserved,
                 Tokens |-> settled.Tokens, Orders |-> settled.Orders,
                 Provisionals |-> settled.Provisionals,
                 DailyPnL |-> settled.DailyPnL, DailyPnLDate |-> settled.DailyPnLDate]
  <2> HIDE DEF settled
  <2> QED BY <1>3 DEF Sound, IsLedger
<1>8. price * size \in Nat \ {0}
  <2>1. \A x, y \in Nat \ {0} : x * y \in Nat \ {0} OBVIOUS
  <2> HIDE DEF price
  <2> QED BY <1>1, <1>2, <2>1
<1>9. /\ s.Available \in Nat /\ s.Reserved \in Nat
      /\ \A a \in Accounts : FreeIn(s, a) \in Nat
      /\ HeldIn(s.Orders, Balance) \in Nat /\ HeldIn(s.Provisionals, Balance) \in Nat
  <2>1. Balance \in Accounts BY DEF Accounts
  <2> QED BY <2>1, BooksType DEF Sound, IsLedger, Solvent
<1>10. /\ HeldBy(s, Balance) = HeldIn(s.Orders, Balance) + HeldIn(s.Provisionals, Balance)
       /\ s2.Provisionals = s.Provisionals =>
            HeldBy(s2, Balance) = HeldIn(s2.Orders, Balance) + HeldIn(s.Provisionals, Balance)
  BY DEF HeldBy
<1>11. Share(r, Balance) = IF Account(q.Side, q.TokenID) = Balance THEN r.Reserved ELSE 0
  BY <1>2 DEF Share
<1> HIDE DEF price, cost, paid, left, settled, tp, r, q
<1>12. CASE q.Side = "BUY"
  <2>1. bp.Available = tp.Available + size BY <1>1, <1>2, <1>6, BoughtType
  <2> HIDE DEF bp
  <2>2. /\ s2.Available = s.Available /\ s2.Reserved = Max0(s.Reserved - paid)
        /\ s2.Tokens = Put(s.Tokens, q.TokenID, bp)
        /\ s2.Orders = settled.Orders /\ s2.Provisionals = s.Provisionals
    BY <1>1, <1>3, <1>7, <1>12 DEF SetToken
  <2>3. d.account = Balance /\ PositionIn(q.TokenID) \in Accounts \ {Balance}
    BY <1>4, <1>5, <1>12, AccountType, PositionInject DEF Accounts
  <2>4. FreeIn(s, PositionIn(q.TokenID)) = tp.Available
    BY <1>4, PositionInject DEF FreeIn, tp
  <2>5. ASSUME NEW a \in Accounts
        PROVE  FreeIn(s2, a) = IF a = Balance THEN s2.Available
                               ELSE IF a = PositionIn(q.TokenID) THEN bp.Available
                               ELSE FreeIn(s, a)
    <3>1. q.TokenID \in Tokens /\ s2.Tokens = Put(s.Tokens, q.TokenID, bp) BY <1>4, <2>2
    <3> QED BY ONLY <3>1, a \in Accounts, TradeAccounts
  <2>6. FreeIn(s, Balance) = s.Available BY DEF FreeIn
  <2>7. /\ FreeIn(s2, PositionIn(q.TokenID)) > FreeIn(s, PositionIn(q.TokenID))
        /\ \A a \in Accounts \ {PositionIn(q.TokenID)} : FreeIn(s2, a) = FreeIn(s, a)
    BY <1>1, <1>6, <2>1, <2>2, <2>3, <2>4, <2>5, <2>6
  <2>8. Share(r, Balance) = r.Reserved /\ Account(r.Side, r.TokenID) = Balance
    BY <1>2, <1>5, <1>11, <2>3
  <2>9. HeldIn(s.Orders, Balance) >= r.Reserved
    <3>1. HeldIn(Del(s.Orders, {o}), Balance) = HeldIn(s.Orders, Balance) - r.Reserved
      BY <1>1, <2>8, SoundFunded, HeldDel DEF r
    <3>2. HeldIn(Del(s.Orders, {o}), Balance) \in Nat BY <1>1, SoundFunded, HeldDel, HeldType
    <3> QED BY <1>2, <1>9, <3>1, <3>2
  <2>10. s2.Reserved = s.Reserved - paid
    BY <1>2, <1>9, <1>10, <2>2, <2>9 DEF Max0
  <2>11. CASE left <= 0
    <3>1. Spare(s2) = Spare(s) + (r.Reserved - paid)
      BY <1>2, <1>3, <1>9, <1>10, <2>2, <2>8, <2>10, <2>11 DEF Spare
    <3>2. s2.Orders = Del(s.Orders, {o}) BY <1>3, <2>2, <2>11
    <3> HIDE DEF d
    <3> QED BY <1>1, <1>2, <1>5, <2>2, <2>3, <2>7, <3>1, <3>2 DEF Trades, d, r
  <2>12. CASE ~ (left <= 0)
    <3>1. Spare(s2) = Spare(s)
      BY <1>2, <1>3, <1>9, <1>10, <2>2, <2>8, <2>10, <2>12 DEF Spare
    <3>2. \E e : /\ s2.Orders = Put(s.Orders, o, e)
                 /\ DepositOf(e) = Vault!Deposit(d.account, d.amount - paid)
      BY <1>3, <1>5, <2>2, <2>12 DEF Vault!Deposit
    <3> HIDE DEF d
    <3> QED BY <1>1, <1>2, <1>5, <2>2, <2>3, <2>7, <3>1, <3>2 DEF Trades, d, r
  <2> QED BY <2>11, <2>12
<1>13. CASE q.Side # "BUY"
  <2>1. np.Available = tp.Available BY <1>6 DEF TokenPosition
  <2>2. /\ booked.Available = s.Available /\ booked.Reserved = s.Reserved
        /\ booked.Tokens = s.Tokens /\ booked.Orders = settled.Orders
        /\ booked.Provisionals = s.Provisionals
        /\ booked = [Available |-> booked.Available, Reserved |-> booked.Reserved,
                     Tokens |-> booked.Tokens, Orders |-> booked.Orders,
                     Provisionals |-> booked.Provisionals,
                     DailyPnL |-> booked.DailyPnL, DailyPnLDate |-> booked.DailyPnLDate]
    <3> DEFINE delta == (price - tp.AvgCost) * size
               pnl == addDailyPnLLocked(settled, day, delta)
               m == IF settled.DailyPnLDate # day THEN delta ELSE settled.DailyPnL + delta
    <3>1. pnl = [settled EXCEPT !.DailyPnL = m, !.DailyPnLDate = day] BY DEF addDailyPnLLocked
    <3>2. booked = IF tp.AvgCostKnown THEN pnl ELSE settled OBVIOUS
    <3> HIDE DEF booked, pnl, delta, m
    <3> QED BY <1>3, <1>7, <3>1, <3>2
  <2> HIDE DEF booked, np
  <2>3. /\ s2.Available = s.Available + price * size /\ s2.Reserved = s.Reserved
        /\ s2.Tokens = Put(s.Tokens, q.TokenID, np)
        /\ s2.Orders = settled.Orders /\ s2.Provisionals = s.Provisionals
    BY <1>1, <1>13, <2>2 DEF SetToken
  <2>4. d.account = PositionIn(q.TokenID) /\ Balance \in Accounts \ {PositionIn(q.TokenID)}
    BY <1>4, <1>5, <1>13, AccountType, PositionInject DEF Accounts
  <2>5. FreeIn(s, PositionIn(q.TokenID)) = tp.Available /\ FreeIn(s, Balance) = s.Available
    BY <1>4, PositionInject DEF FreeIn, tp
  <2>6. ASSUME NEW a \in Accounts
        PROVE  FreeIn(s2, a) = IF a = Balance THEN s2.Available
                               ELSE IF a = PositionIn(q.TokenID) THEN np.Available
                               ELSE FreeIn(s, a)
    <3>1. q.TokenID \in Tokens /\ s2.Tokens = Put(s.Tokens, q.TokenID, np) BY <1>4, <2>3
    <3> QED BY ONLY <3>1, a \in Accounts, TradeAccounts
  <2>7. /\ FreeIn(s2, Balance) > FreeIn(s, Balance)
        /\ \A a \in Accounts \ {Balance} : FreeIn(s2, a) = FreeIn(s, a)
    BY <1>8, <1>9, <2>1, <2>3, <2>4, <2>5, <2>6
  <2>8. Share(r, Balance) = 0 /\ Account(r.Side, r.TokenID) # Balance
    BY <1>2, <1>5, <1>11, <2>4
  <2>9. Spare(s2) = Spare(s)
    BY <1>2, <1>3, <1>9, <1>10, <2>3, <2>8 DEF Spare
  <2>10. Spare(s) \in Int BY <1>9, <1>10 DEF Spare
  <2>11. CASE left <= 0
    <3>1. paid = r.Reserved BY <1>2, <1>13, <2>11
    <3>2. Spare(s2) = Spare(s) + (r.Reserved - paid) BY <1>2, <2>9, <2>10, <3>1
    <3>3. s2.Orders = Del(s.Orders, {o}) BY <1>3, <2>3, <2>11
    <3> HIDE DEF d
    <3> QED BY <1>1, <1>2, <1>5, <2>3, <2>4, <2>7, <3>1, <3>2, <3>3 DEF Trades, d, r
  <2>12. CASE ~ (left <= 0)
    <3>1. \E e : /\ s2.Orders = Put(s.Orders, o, e)
                 /\ DepositOf(e) = Vault!Deposit(d.account, d.amount - paid)
      BY <1>3, <1>5, <2>3, <2>12 DEF Vault!Deposit
    <3> HIDE DEF d
    <3> QED BY <1>1, <1>2, <1>5, <2>3, <2>4, <2>7, <2>9, <3>1 DEF Trades, d, r
  <2> QED BY <2>11, <2>12
<1> QED BY <1>12, <1>13

\* What a step that takes a deposit is to the escrow.
LEMMA TakesVault ==
    ASSUME Sound(ledger),
           NEW x \in Ids, NEW b \in Accounts, NEW n \in Nat, Spare(ledger') = Spare(ledger)
    PROVE  /\ /\ Takes(ledger, ledger', ledger.Provisionals, ledger'.Provisionals, x, b, n)
              /\ ledger'.Orders = ledger.Orders
              => Vault!Pledge(x)
           /\ /\ Takes(ledger, ledger', ledger.Orders, ledger'.Orders, x, b, n)
              /\ ledger'.Provisionals = ledger.Provisionals
              => Vault!Place(x)
<1>1. \A m : DOMAIN Deposits(m) = DOMAIN m BY DEF Deposits
<1>2. ASSUME NEW m, NEW w, Takes(ledger, ledger', m, w, x, b, n)
      PROVE  /\ x \notin DOMAIN Deposits(m)
             /\ Funds(ledger')[b] \in 0 .. Funds(ledger)[b] - 1
             /\ Deposits(w) = Vault!With(Deposits(m), x,
                                         Vault!Deposit(b, Funds(ledger)[b] - Funds(ledger')[b]))
             /\ Funds(ledger') = [Funds(ledger) EXCEPT ![b] = Funds(ledger')[b]]
  <2>1. PICK e : w = Put(m, x, e) /\ DepositOf(e) = Vault!Deposit(b, n) BY <1>2 DEF Takes
  <2>2. Funds(ledger)[b] = FreeIn(ledger, b) BY DEF Funds
  <2>3. /\ x \notin DOMAIN m
        /\ n \in 1 .. FreeIn(ledger, b)
        /\ Funds(ledger') = Lowered(Funds(ledger), b, n)
    BY <1>2 DEF Takes
  <2>4. Funds(ledger')[b] = Funds(ledger)[b] - n BY <2>3 DEF Lowered, Funds
  <2>5. Funds(ledger)[b] \in Int BY <2>2, BooksType
  <2>6. Funds(ledger') = [Funds(ledger) EXCEPT ![b] = Funds(ledger')[b]]
    BY <2>3, <2>4 DEF Lowered
  <2>7. n = Funds(ledger)[b] - Funds(ledger')[b] BY <2>4, <2>5
  <2> QED BY <1>1, <2>1, <2>2, <2>3, <2>4, <2>5, <2>6, <2>7, DepositsPut
<1>3. ASSUME Takes(ledger, ledger', ledger.Provisionals, ledger'.Provisionals, x, b, n),
             ledger'.Orders = ledger.Orders
      PROVE  Vault!Pledge(x)
  <2>1. /\ x \notin DOMAIN Deposits(ledger.Provisionals)
        /\ Funds(ledger')[b] \in 0 .. Funds(ledger)[b] - 1
        /\ Deposits(ledger'.Provisionals) =
                Vault!With(Deposits(ledger.Provisionals), x,
                           Vault!Deposit(b, Funds(ledger)[b] - Funds(ledger')[b]))
        /\ Funds(ledger') = [Funds(ledger) EXCEPT ![b] = Funds(ledger')[b]]
    BY <1>2, <1>3
  <2> QED BY <1>3, <2>1 DEF Vault!Pledge, Funds, Spare
<1>4. ASSUME Takes(ledger, ledger', ledger.Orders, ledger'.Orders, x, b, n),
             ledger'.Provisionals = ledger.Provisionals
      PROVE  Vault!Place(x)
  <2>1. /\ x \notin DOMAIN Deposits(ledger.Orders)
        /\ Funds(ledger')[b] \in 0 .. Funds(ledger)[b] - 1
        /\ Deposits(ledger'.Orders) =
                Vault!With(Deposits(ledger.Orders), x,
                           Vault!Deposit(b, Funds(ledger)[b] - Funds(ledger')[b]))
        /\ Funds(ledger') = [Funds(ledger) EXCEPT ![b] = Funds(ledger')[b]]
    BY <1>2, <1>4
  <2> QED BY <1>4, <2>1 DEF Vault!Place, Funds, Spare
<1> QED BY <1>3, <1>4

\* What a step that returns deposits is to the escrow.
LEMMA ReturnsVault ==
    ASSUME NEW X, Spare(ledger') = Spare(ledger)
    PROVE  /\ /\ Returns(ledger, ledger', ledger.Provisionals, ledger'.Provisionals, X)
              /\ ledger'.Orders = ledger.Orders
              => Vault!Withdraw(X) /\ X \in SUBSET DOMAIN Deposits(ledger.Provisionals)
           /\ \A o : /\ Returns(ledger, ledger', ledger.Orders, ledger'.Orders, {o})
                     /\ ledger'.Provisionals = ledger.Provisionals
                     => Vault!Close(o)
<1>1. \A m : DOMAIN Deposits(m) = DOMAIN m BY DEF Deposits
<1>2. ASSUME NEW m, NEW w, NEW Y, Returns(ledger, ledger', m, w, Y)
      PROVE  /\ Y # {} /\ Y \subseteq DOMAIN Deposits(m)
             /\ Deposits(w) = Vault!Without(Deposits(m), Y)
             /\ [a \in Accounts |-> FreeIn(ledger', a)] = Vault!Returned(Deposits(m), Y)
  <2>1. Y \subseteq DOMAIN m /\ w = Del(m, Y) /\ Y # {} BY <1>2 DEF Returns
  <2>2. ASSUME NEW a \in Accounts
        PROVE  FreeIn(ledger', a) =
                    FreeIn(ledger, a) + Vault!Deposited(Vault!Restrict(Deposits(m), Y), a)
    BY <1>2, <2>1, DepositedHeld DEF Returns
  <2>3. Deposits(w) = Vault!Without(Deposits(m), Y) BY <2>1, DepositsDel
  <2> QED BY <1>1, <2>1, <2>2, <2>3 DEF Vault!Returned
<1>3. ASSUME Returns(ledger, ledger', ledger.Provisionals, ledger'.Provisionals, X),
             ledger'.Orders = ledger.Orders
      PROVE  Vault!Withdraw(X) /\ X \in SUBSET DOMAIN Deposits(ledger.Provisionals)
  <2>1. /\ X # {} /\ X \subseteq DOMAIN Deposits(ledger.Provisionals)
        /\ Deposits(ledger'.Provisionals) = Vault!Without(Deposits(ledger.Provisionals), X)
        /\ [a \in Accounts |-> FreeIn(ledger', a)] =
                Vault!Returned(Deposits(ledger.Provisionals), X)
    BY <1>2, <1>3
  <2> QED BY <1>3, <2>1 DEF Vault!Withdraw, Spare
<1>4. ASSUME NEW o, Returns(ledger, ledger', ledger.Orders, ledger'.Orders, {o}),
             ledger'.Provisionals = ledger.Provisionals
      PROVE  Vault!Close(o)
  <2>1. /\ o \in DOMAIN Deposits(ledger.Orders)
        /\ Deposits(ledger'.Orders) = Vault!Without(Deposits(ledger.Orders), {o})
        /\ [a \in Accounts |-> FreeIn(ledger', a)] =
                Vault!Returned(Deposits(ledger.Orders), {o})
    BY <1>2, <1>4
  <2> QED BY <1>4, <2>1 DEF Vault!Close, Spare
<1> QED BY <1>3, <1>4

\* A confirmed intent's deposit becomes its order's.
LEMMA BecomesVault ==
    ASSUME NEW o, Becomes(ledger, ledger', o), Spare(ledger') = Spare(ledger)
    PROVE  Vault!Convert(o)
<1>1. \A m : DOMAIN Deposits(m) = DOMAIN m BY DEF Deposits
<1>2. PICK e : /\ ledger'.Orders = Put(ledger.Orders, o, e)
               /\ DepositOf(e) = DepositOf(ledger.Provisionals[o])
  BY DEF Becomes
<1>3. Deposits(ledger.Provisionals)[o] = DepositOf(ledger.Provisionals[o])
  BY DEF Becomes, Deposits, DepositOf
<1>4. Deposits(ledger'.Orders) =
        Vault!With(Deposits(ledger.Orders), o, Deposits(ledger.Provisionals)[o])
  BY <1>2, <1>3, DepositsPut
<1>5. Deposits(ledger'.Provisionals) = Vault!Without(Deposits(ledger.Provisionals), {o})
  BY DepositsDel DEF Becomes
<1> QED BY <1>1, <1>4, <1>5 DEF Becomes, Vault!Convert, Funds, Spare

\* What a step that applies a trade is to the escrow.
LEMMA TradesVault ==
    ASSUME NEW o, Trades(ledger, ledger', o)
    PROVE  Vault!Trade(o)
<1> DEFINE d == DepositOf(ledger.Orders[o])
<1>1. \A m : DOMAIN Deposits(m) = DOMAIN m BY DEF Deposits
<1>2. o \in DOMAIN ledger.Orders /\ ledger'.Provisionals = ledger.Provisionals BY DEF Trades
<1>3. Deposits(ledger.Orders)[o] = d BY <1>2 DEF Deposits, DepositOf
<1>4. PICK paid \in 1 .. d.amount, to \in Accounts \ {d.account} :
            /\ FreeIn(ledger', to) > FreeIn(ledger, to)
            /\ \A a \in Accounts \ {to} : FreeIn(ledger', a) = FreeIn(ledger, a)
            /\ \/ /\ \E e : /\ ledger'.Orders = Put(ledger.Orders, o, e)
                            /\ DepositOf(e) = Vault!Deposit(d.account, d.amount - paid)
                  /\ Spare(ledger') = Spare(ledger)
               \/ /\ d.account # Balance => paid = d.amount
                  /\ ledger'.Orders = Del(ledger.Orders, {o})
                  /\ Spare(ledger') = Spare(ledger) + (d.amount - paid)
  BY DEF Trades
<1> HIDE DEF d
<1>5. \/ /\ Deposits(ledger'.Orders) =
                Vault!With(Deposits(ledger.Orders), o, Vault!Deposit(d.account, d.amount - paid))
         /\ Spare(ledger') = Spare(ledger)
      \/ /\ d.account # Balance => paid = d.amount
         /\ Deposits(ledger'.Orders) = Vault!Without(Deposits(ledger.Orders), {o})
         /\ Spare(ledger') = Spare(ledger) + (d.amount - paid)
  BY <1>4, DepositsPut, DepositsDel
<1>6. [a \in Accounts |-> FreeIn(ledger', a)] =
        [[a \in Accounts |-> FreeIn(ledger, a)] EXCEPT ![to] = FreeIn(ledger', to)]
  BY <1>4
<1> QED BY <1>1, <1>2, <1>3, <1>4, <1>5, <1>6 DEF Vault!Trade, Spare

\* The first state of the ledger is one of the escrow.
LEMMA OpeningVault == Init => Vault!Init
<1> SUFFICES ASSUME Init PROVE Vault!Init OBVIOUS
<1>1. ledger = OpeningLedger BY DEF Init
<1>2. /\ DOMAIN ledger.Orders = {} /\ DOMAIN ledger.Provisionals = {}
      /\ ledger.Reserved = 0 /\ HeldBy(ledger, Balance) = 0
      /\ \A a \in Accounts : FreeIn(ledger, a) \in Nat
  BY <1>1, OpeningSound, BooksType
<1>3. DOMAIN Deposits(ledger.Orders) = {} /\ DOMAIN Deposits(ledger.Provisionals) = {}
  BY <1>2 DEF Deposits
<1> QED BY <1>2, <1>3 DEF Vault!Init

\* A step that changes no deposit, no free funds and no spare money is none to
\* the escrow.
LEMMA SameVault ==
    ASSUME ledger'.Orders = ledger.Orders, Funds(ledger') = Funds(ledger),
           Deposits(ledger'.Provisionals) = Deposits(ledger.Provisionals),
           Spare(ledger') = Spare(ledger)
    PROVE  UNCHANGED Vault!vars
BY DEF Vault!vars, Funds, Spare

\* Time that passes changes no deposit.
LEMMA TickVault ==
    ASSUME Sound(ledger), Tick
    PROVE  UNCHANGED Vault!vars
<1>1. ledger' = Elapse(ledger) BY DEF Tick
<1>2. Sound(ledger') BY <1>1, ElapseSound
<1>3. /\ ledger'.Orders = ledger.Orders /\ ledger'.Available = ledger.Available
      /\ ledger'.Reserved = ledger.Reserved /\ ledger'.Tokens = ledger.Tokens
      /\ ledger'.Provisionals = [i \in DOMAIN ledger.Provisionals |->
                [ledger.Provisionals[i] EXCEPT !.Life = Max0(ledger.Provisionals[i].Life - 1)]]
  BY <1>1 DEF Elapse, Sound, IsLedger
<1>4. Deposits(ledger'.Provisionals) = Deposits(ledger.Provisionals)
  <2>1. \A i \in DOMAIN ledger.Provisionals :
            ledger.Provisionals[i] \in ProvisionalReservation(Tokens)
    BY DEF Sound, IsLedger, IsMap
  <2>2. ASSUME NEW i \in DOMAIN ledger.Provisionals, NEW n
        PROVE  LET p == ledger.Provisionals[i]
                   e == [p EXCEPT !.Life = n]
               IN  e.Side = p.Side /\ e.TokenID = p.TokenID /\ e.Reserved = p.Reserved
    BY <2>1 DEF ProvisionalReservation
  <2> QED BY <1>3, <2>2 DEF Deposits
<1>5. Funds(ledger') = Funds(ledger) BY <1>3, SameAccounts DEF Funds
<1>6. Spare(ledger') = Spare(ledger)
  <2>1. Balance \in Accounts /\ 0 \in Int BY DEF Accounts
  <2>2. Moved(ledger, ledger', Balance, 0) BY <1>1, <2>1, ElapseMoves
  <2> QED BY <1>2, <2>1, <2>2, SpareKept
<1> QED BY <1>3, <1>4, <1>5, <1>6, SameVault

\* A balance sync counts the free money again.
LEMMA SyncVault ==
    ASSUME Sound(ledger), syncRead \in Nat, SyncWrite
    PROVE  Vault!Recount
<1>1. ledger' = ReconcileOnchainBalance(ledger, syncRead) BY DEF SyncWrite
<1>2. Sound(ledger') BY <1>1, SyncSound
<1>3. /\ ledger'.Reserved = ledger.Reserved /\ ledger'.Tokens = ledger.Tokens
      /\ ledger'.Orders = ledger.Orders /\ ledger'.Provisionals = ledger.Provisionals
  BY <1>1 DEF ReconcileOnchainBalance, Sound, IsLedger
<1>4. Balance \in Accounts BY DEF Accounts
<1>5. FreeIn(ledger', Balance) \in Nat BY <1>2, <1>4, BooksType
<1>6. \A a \in Accounts \ {Balance} : FreeIn(ledger', a) = FreeIn(ledger, a)
  BY <1>3 DEF FreeIn, TokenAt
<1>7. [a \in Accounts |-> FreeIn(ledger', a)] =
        [[a \in Accounts |-> FreeIn(ledger, a)] EXCEPT ![Balance] = FreeIn(ledger', Balance)]
  BY <1>6
<1>8. HeldBy(ledger', Balance) = HeldBy(ledger, Balance) BY <1>3 DEF HeldBy
<1> QED BY <1>3, <1>4, <1>5, <1>7, <1>8 DEF Vault!Recount

\* A redeemed token's position is written off.
LEMMA RedeemVault ==
    ASSUME Sound(ledger), NEW t \in Tokens, Redeem(t)
    PROVE  Vault!WriteOff(PositionIn(t)) /\ PositionIn(t) \in Accounts \ {Balance}
<1>1. ledger' = ClearRedeemedPositions(ledger, {t}) BY DEF Redeem
<1>2. /\ ledger'.Available = ledger.Available /\ ledger'.Reserved = ledger.Reserved
      /\ ledger'.Tokens = Del(ledger.Tokens, {t})
      /\ ledger'.Orders = ledger.Orders /\ ledger'.Provisionals = ledger.Provisionals
  BY <1>1 DEF ClearRedeemedPositions, Sound, IsLedger
<1>3. PositionIn(t) \in Accounts \ {Balance} BY PositionInject DEF Accounts
<1>4. ASSUME NEW u \in Tokens
      PROVE  TokenAt(ledger', u).Available = IF u = t THEN 0 ELSE TokenAt(ledger, u).Available
  BY <1>2 DEF TokenAt, Del, Restrict, ZeroPosition
<1>5. ASSUME NEW a \in Accounts
      PROVE  FreeIn(ledger', a) = IF a = PositionIn(t) THEN 0 ELSE FreeIn(ledger, a)
  <2>1. CASE a = Balance BY <1>2, <1>3, <2>1 DEF FreeIn
  <2>2. ASSUME NEW u \in Tokens, a = PositionIn(u), a # Balance, a[2] = u
        PROVE  FreeIn(ledger', a) = IF a = PositionIn(t) THEN 0 ELSE FreeIn(ledger, a)
    <3>1. a = PositionIn(t) <=> u = t BY <2>2, PositionInject
    <3> QED BY <1>4, <2>2, <3>1 DEF FreeIn
  <2> QED BY <2>1, <2>2, AccountCases
<1>6. [a \in Accounts |-> FreeIn(ledger', a)] =
        [[a \in Accounts |-> FreeIn(ledger, a)] EXCEPT ![PositionIn(t)] = 0]
  BY <1>5
<1>7. HeldBy(ledger', Balance) = HeldBy(ledger, Balance) BY <1>2 DEF HeldBy
<1> QED BY <1>2, <1>3, <1>6, <1>7 DEF Vault!WriteOff

\* Every step of the ledger is one of the escrow's or none.
LEMMA StepVault == Inv /\ [Next]_vars => [Vault!Next]_(Vault!vars)
<1> SUFFICES ASSUME Inv, [Next]_vars PROVE Vault!Next \/ UNCHANGED Vault!vars OBVIOUS
<1>0. /\ Sound(ledger) /\ TypeOK /\ HeldBy(ledger, Balance) <= ledger.Reserved
  BY DEF Inv, BalanceCoversReservations, TypeOK
<1>a. ASSUME ledger' = ledger PROVE UNCHANGED Vault!vars
  BY <1>a DEF Vault!vars
<1>b. ASSUME NEW x \in Ids,
             Vault!Pledge(x) \/ Vault!Place(x) \/ Vault!Convert(x) \/ Vault!Close(x) \/ Vault!Trade(x)
      PROVE  Vault!Next
  BY <1>b DEF Vault!Next
<1>c. ASSUME NEW X, Vault!Withdraw(X) /\ X \in SUBSET DOMAIN Deposits(ledger.Provisionals)
      PROVE  Vault!Next
  BY <1>c DEF Vault!Next
<1>1. ASSUME NEW o \in Ids, ReserveIntent(o) PROVE Vault!Next
  <2> DEFINE q == Order[o]
             r == TryReserveProvisional(ledger, o, q.TokenID, q.Side, q.Price, q.RequestedSize)
  <2>1. r.err = "nil" /\ ledger' = r.st BY <1>1 DEF ReserveIntent
  <2>2. /\ \E b \in Accounts : \E n \in Nat :
                Takes(ledger, r.st, ledger.Provisionals, r.st.Provisionals, o, b, n)
        /\ r.st.Orders = ledger.Orders /\ Spare(r.st) = Spare(ledger)
    BY <1>0, <2>1, TryReserveTakes
  <2> HIDE DEF r
  <2>3. Vault!Pledge(o) BY <1>0, <2>1, <2>2, TakesVault
  <2> QED BY <1>b, <2>3
<1>2. ASSUME NEW o \in Ids, NEW how \in {"ack", "live"}, Attach(o, how)
      PROVE  Vault!Next \/ UNCHANGED Vault!vars
  <2> DEFINE q == Order[o]
             i == IF how = "ack" THEN o ELSE NoIntent
             r == AttachOrder(ledger, i, o, q.TokenID, q.Side, q.Price, q.RequestedSize)
  <2>1. ledger' = r.st BY <1>2 DEF Attach
  <2>2. i = o \/ i \notin Ids BY LedgerAssumption
  <2> HIDE DEF i
  <2>3. /\ \/ r.st = ledger \/ GivenUp(ledger, r.st, i)
           \/ Becomes(ledger, r.st, o) \/ Joins(ledger, r.st, o)
        /\ Spare(r.st) = Spare(ledger)
    BY <1>0, <2>2, AttachKinds
  <2> HIDE DEF r
  <2>4. CASE r.st = ledger BY <1>a, <2>1, <2>4
  <2>5. CASE GivenUp(ledger, r.st, i)
    <3>1. Vault!Withdraw({i}) /\ {i} \in SUBSET DOMAIN Deposits(ledger.Provisionals)
      BY <2>1, <2>3, <2>5, ReturnsVault DEF GivenUp
    <3> QED BY <1>c, <3>1
  <2>6. CASE Becomes(ledger, r.st, o)
    <3>1. Vault!Convert(o) BY <2>1, <2>3, <2>6, BecomesVault
    <3> QED BY <1>b, <3>1
  <2>7. CASE Joins(ledger, r.st, o)
    <3>1. Vault!Place(o) BY <1>0, <2>1, <2>3, <2>7, TakesVault DEF Joins
    <3> QED BY <1>b, <3>1
  <2> QED BY <2>3, <2>4, <2>5, <2>6, <2>7
<1>3. ASSUME NEW o \in Ids, RejectIntent(o) PROVE Vault!Next \/ UNCHANGED Vault!vars
  <2>1. ledger' = ReleaseProvisional(ledger, o) BY <1>3 DEF RejectIntent
  <2>2. CASE o \in DOMAIN ledger.Provisionals
    <3>1. Vault!Withdraw({o}) /\ {o} \in SUBSET DOMAIN Deposits(ledger.Provisionals)
      BY <1>0, <2>1, <2>2, ProvisionalReturns, ReturnsVault
    <3> QED BY <1>c, <3>1
  <2>3. CASE o \notin DOMAIN ledger.Provisionals
    BY <1>a, <2>1, <2>3 DEF ReleaseProvisional
  <2> QED BY <2>2, <2>3
<1>4. ASSUME NEW o \in Ids, EndOrder(o) PROVE Vault!Next \/ UNCHANGED Vault!vars
  <2>1. ledger' = ReleaseOrder(ledger, o) BY <1>4 DEF EndOrder
  <2>2. CASE o \in DOMAIN ledger.Orders
    <3>1. /\ Returns(ledger, ledger', ledger.Orders, ledger'.Orders, {o})
          /\ ledger'.Provisionals = ledger.Provisionals /\ Spare(ledger') = Spare(ledger)
      BY <1>0, <2>1, <2>2, OrderReturns
    <3>2. Vault!Close(o) BY <3>1, ReturnsVault
    <3> QED BY <1>b, <3>2
  <2>3. CASE o \notin DOMAIN ledger.Orders
    BY <1>a, <2>1, <2>3 DEF ReleaseOrder
  <2> QED BY <2>2, <2>3
<1>5. ASSUME NEW o \in Ids, Fill(o) PROVE Vault!Next \/ UNCHANGED Vault!vars
  <2> DEFINE q == Order[o]
             f == Head(mined[o])
  <2>1. /\ mined[o] # << >>
        /\ ledger' = ApplyFill(ledger, o, q.TokenID, q.Side, f.size, f.price, today)
    BY <1>5 DEF Fill
  <2>2. f \in Fills /\ f = mined[o][1] /\ 1 \in DOMAIN mined[o] /\ today \in Nat
    <3>1. mined[o] \in Seq(Fills) /\ today \in Nat BY <1>0, LedgerAssumption DEF TypeOK, Setup
    <3> QED BY <2>1, <3>1
  <2>3. f.size \in Nat /\ f.price \in Nat BY <2>2 DEF Fills
  <2>4. WithinLimit(o, f.price) BY <2>2 DEF Inv, MinedWithinLimit
  <2> HIDE DEF f
  <2>5. /\ Sound(ledger')
        /\ FillError(ledger, o, Order[o].TokenID, Order[o].Side, f.size) # "nil" =>
                ledger' = ledger
    <3>1. today \in Nat /\ Sound(ledger) /\ o \in Ids BY <1>0, <2>2
    <3> QED BY ONLY <3>1, <2>1, <2>3, <2>4, ApplyFillSound
  <2>6. CASE FillError(ledger, o, Order[o].TokenID, Order[o].Side, f.size) = "nil"
    <3>1. Trades(ledger, ledger', o)
      BY <1>0, <2>1, <2>2, <2>3, <2>5, <2>6, ApplyFillTrades
    <3> QED BY <1>b, <3>1, TradesVault
  <2> QED BY <1>a, <2>5, <2>6
<1>6. CASE Cleanup
  <2>1. Expired(ledger) # {} /\ ledger' = CleanupExpiredProvisional(ledger)
    BY <1>6 DEF Cleanup
  <2>2. /\ Returns(ledger, ledger', ledger.Provisionals, ledger'.Provisionals, Expired(ledger))
        /\ ledger'.Orders = ledger.Orders /\ Spare(ledger') = Spare(ledger)
    BY <1>0, <2>1, CleanupReturns
  <2> QED BY <1>c, <2>2, ReturnsVault
<1>7. CASE SyncWrite
  <2>1. syncRead \in Nat BY <1>0, <1>7 DEF TypeOK, SyncWrite
  <2>2. Vault!Recount BY <1>0, <1>7, <2>1, SyncVault
  <2> QED BY <2>2 DEF Vault!Next
<1>8. ASSUME NEW t \in Tokens, Redeem(t) PROVE Vault!Next
  BY <1>0, <1>8, RedeemVault DEF Vault!Next
<1>9. CASE Tick
  BY <1>0, <1>9, TickVault
<1>10. CASE SyncRead \/ Midnight \/ UNCHANGED vars
  BY <1>10, <1>a DEF SyncRead, Midnight, vars
<1>11. ASSUME NEW o \in Ids, NEW size \in 1 .. (Order[o].RequestedSize + setup.overfill),
              NEW price \in FillPrices, Mine(o, size, price)
       PROVE  UNCHANGED Vault!vars
  BY <1>11, <1>a DEF Mine
<1> QED BY <1>1, <1>2, <1>3, <1>4, <1>5, <1>6, <1>7, <1>8, <1>9, <1>10, <1>11 DEF Next

\* The ledger implements an escrow, for any orders, tokens, prices, amounts and
\* interleaving: a reservation takes what is free and no more, a fill is paid by
\* its own order's reservation, and every release gives back exactly what the
\* reservation holds.
THEOREM LedgerIsEscrow == Spec => ImplementsEscrow
BY OpeningVault, StepVault, LedgerInv, PTL DEF Spec, ImplementsEscrow, Vault!Spec
=============================================================================
