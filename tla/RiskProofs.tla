----------------------------- MODULE RiskProofs -----------------------------
(***************************************************************************)
(* The risk engine for any orders, batches, caps and number of strategies. *)
(***************************************************************************)
EXTENDS Risk, ReservedProofs

-----------------------------------------------------------------------------
(* The loop of submitIntents, intent by intent.                            *)

Start(s) == [st |-> s, sent |-> {}, failed |-> {}]

\* One step of the recursion behind FoldLeft.
FoldStep(s, batch, g, S) ==
    IF S = {} THEN Start(s) ELSE reserveIntent(g[S \ {Max(S)}], batch[Max(S)])

\* The recursion has a solution.
LEMMA FoldSolution ==
    ASSUME NEW n \in Nat, NEW s, NEW batch
    PROVE  \E g : \A S \in SUBSET (1 .. n) : g[S] = FoldStep(s, batch, g, S)
<1> DEFINE upTo(g, m) == \A S \in SUBSET (1 .. n) :
                            Cardinality(S) <= m => g[S] = FoldStep(s, batch, g, S)
           T == {m \in Nat : \E g : upTo(g, m)}
<1>0. IsFiniteSet(1 .. n) BY FS_Interval
<1>1. \A S \in SUBSET (1 .. n) : IsFiniteSet(S) /\ Cardinality(S) \in Nat
  BY <1>0, FS_Subset, FS_CardinalityType
<1>2. 0 \in T
  <2> DEFINE g == [S \in SUBSET (1 .. n) |-> Start(s)]
  <2>1. upTo(g, 0)
    <3> SUFFICES ASSUME NEW S \in SUBSET (1 .. n), Cardinality(S) <= 0
                 PROVE  g[S] = FoldStep(s, batch, g, S)
      OBVIOUS
    <3>1. S = {} BY <1>1, FS_EmptySet
    <3> QED BY <3>1 DEF FoldStep
  <2> HIDE DEF g, upTo
  <2>2. \E h : upTo(h, 0) BY <2>1
  <2> QED BY <2>2
<1>3. ASSUME NEW m \in Nat, m \in T PROVE m + 1 \in T
  <2>1. PICK g : upTo(g, m) BY <1>3
  <2> DEFINE h == [S \in SUBSET (1 .. n) |->
                    IF Cardinality(S) <= m THEN g[S] ELSE FoldStep(s, batch, g, S)]
  <2>2. upTo(h, m + 1)
    <3> SUFFICES ASSUME NEW S \in SUBSET (1 .. n), Cardinality(S) <= m + 1
                 PROVE  h[S] = FoldStep(s, batch, h, S)
      OBVIOUS
    <3>1. h[S] = FoldStep(s, batch, g, S) BY <2>1
    <3>2. ASSUME S # {} PROVE h[S \ {Max(S)}] = g[S \ {Max(S)}]
      <4>1. Max(S) \in S BY <3>2, MaxIndex
      <4>2. Cardinality(S \ {Max(S)}) = Cardinality(S) - 1 BY <1>1, <4>1, FS_RemoveElement
      <4>3. Cardinality(S \ {Max(S)}) <= m BY <1>1, <4>2
      <4> QED BY <4>3
    <3> QED BY <3>1, <3>2 DEF FoldStep
  <2> HIDE DEF h, upTo
  <2>3. \E k : upTo(k, m + 1) BY <2>2
  <2> QED BY <2>3
<1>4. \A m \in Nat : m \in T
  <2> HIDE DEF T
  <2> QED BY <1>2, <1>3, NatSetInduction
<1>5. n \in T BY <1>4
<1>6. PICK g : upTo(g, n) BY <1>5
<1>7. \A S \in SUBSET (1 .. n) : Cardinality(S) <= n
  <2>1. Cardinality(1 .. n) = n
    <3>1. Cardinality(1 .. n) = IF 1 > n THEN 0 ELSE n - 1 + 1 BY FS_Interval
    <3> QED BY <3>1
  <2> QED BY <1>0, <2>1, FS_Subset
<1> QED BY <1>6, <1>7

\* submitIntents goes through the batch in order: k intents after each other
\* take the ledger from acc[0] to acc[k].
LEMMA FoldIsLoop ==
    ASSUME NEW S, NEW batch \in Seq(S), NEW s
    PROVE  \E acc : /\ acc[0] = Start(s)
                    /\ \A k \in 1 .. Len(batch) : acc[k] = reserveIntent(acc[k - 1], batch[k])
                    /\ FoldLeft(reserveIntent, Start(s), batch) = acc[Len(batch)]
<1> DEFINE D == DOMAIN batch
           Eq(h) == h = [U \in SUBSET D |-> FoldStep(s, batch, h, U)]
           iter == CHOOSE h : Eq(h)
           acc == [k \in 0 .. Len(batch) |-> iter[1 .. k]]
<1>1. FoldLeft(reserveIntent, Start(s), batch) = iter[D]
  BY DEF FoldLeft, MapThenFoldSet, FoldStep
<1>2. D = 1 .. Len(batch) /\ Len(batch) \in Nat OBVIOUS
<1>3. PICK g : \A U \in SUBSET D : g[U] = FoldStep(s, batch, g, U)
  <2>1. \E g : \A U \in SUBSET (1 .. Len(batch)) : g[U] = FoldStep(s, batch, g, U)
    BY <1>2, FoldSolution
  <2> QED BY <1>2, <2>1
<1>4. \E h : Eq(h)
  <2> DEFINE h == [U \in SUBSET D |-> g[U]]
  <2>1. \A U \in SUBSET D : FoldStep(s, batch, h, U) = FoldStep(s, batch, g, U)
    BY DEF FoldStep
  <2>2. Eq(h) BY <1>3, <2>1
  <2> HIDE DEF h, Eq
  <2> QED BY <2>2
<1>5. Eq(iter)
  <2> HIDE DEF Eq
  <2> QED BY <1>4
<1>6. \A U \in SUBSET D : iter[U] = FoldStep(s, batch, iter, U)
  <2> HIDE DEF iter
  <2> QED BY <1>5
<1> HIDE DEF iter
<1>7. acc[0] = Start(s)
  <2>1. iter[{}] = Start(s) BY <1>6 DEF FoldStep
  <2>2. 1 .. 0 = {} OBVIOUS
  <2> QED BY <1>2, <2>1, <2>2
<1>8. ASSUME NEW k \in 1 .. Len(batch) PROVE acc[k] = reserveIntent(acc[k - 1], batch[k])
  <2>1. 1 .. k \in SUBSET D /\ k \in 1 .. k /\ k \in Nat BY <1>2
  <2>2. Max(1 .. k) = k
    <3>1. Max(1 .. k) \in 1 .. k /\ k <= Max(1 .. k) BY <2>1, MaxIndex
    <3> QED BY <3>1
  <2>3. (1 .. k) \ {k} = 1 .. (k - 1) BY <2>1
  <2>4. iter[1 .. k] = reserveIntent(iter[1 .. (k - 1)], batch[k])
    BY <1>6, <2>1, <2>2, <2>3 DEF FoldStep
  <2>5. k \in 0 .. Len(batch) /\ k - 1 \in 0 .. Len(batch) BY <1>2
  <2> QED BY <2>4, <2>5
<1>9. acc[Len(batch)] = iter[D] BY <1>2
<1> HIDE DEF acc
<1> QED BY <1>1, <1>7, <1>8, <1>9

-----------------------------------------------------------------------------
(* What a batch needs of each account.                                     *)

\* The amounts that BuyRequired and SellRequired add up.
BuyCost(batch) ==
    [n \in DOMAIN batch |->
        CASE batch[n].Action = "SPLIT" -> PairSize(batch[n]) * One
          [] batch[n].Action = "PLACE" /\ TermsOf(batch, n).Side = "BUY"
                -> TermsOf(batch, n).Price * TermsOf(batch, n).RequestedSize
          [] OTHER -> 0]
SellCost(batch, t) ==
    [n \in DOMAIN batch |->
        CASE batch[n].Action = "PLACE" /\ TermsOf(batch, n).Side = "SELL"
                /\ TermsOf(batch, n).TokenID = t -> TermsOf(batch, n).RequestedSize
          [] batch[n].Action = "MERGE"
                /\ \E o \in Range(Legs[batch[n].OrderID]) : Order[o].TokenID = t
                -> PairSize(batch[n])
          [] OTHER -> 0]

Cost(batch, a) == IF a = Balance THEN BuyCost(batch) ELSE SellCost(batch, a[2])

\* The collateral of an order.
Collateral(o) == RequiredCollateral(Order[o].Side, Order[o].Price, Order[o].RequestedSize)

\* What batches are made of.
LEMMA IntentType ==
    ASSUME NEW batch \in Batches
    PROVE  /\ batch \in Seq(Intents) /\ DOMAIN batch = 1 .. Len(batch) /\ Len(batch) \in Nat
           /\ \A n \in DOMAIN batch :
                \/ batch[n].Action \in {"PLACE", "CANCEL"} /\ batch[n].OrderID \in Ids
                \/ /\ batch[n].Action \in {"SPLIT", "MERGE"} /\ batch[n].OrderID \in DOMAIN Legs
                   /\ Range(Legs[batch[n].OrderID]) \subseteq Ids
                   /\ PairSize(batch[n]) \in Nat
<1>1. batch \in Seq(Intents) BY RiskAssumption
<1>2. DOMAIN batch = 1 .. Len(batch) /\ Len(batch) \in Nat BY <1>1
<1>3. ASSUME NEW n \in DOMAIN batch
      PROVE  \/ batch[n].Action \in {"PLACE", "CANCEL"} /\ batch[n].OrderID \in Ids
             \/ batch[n].Action \in {"SPLIT", "MERGE"} /\ batch[n].OrderID \in DOMAIN Legs
  <2>1. batch[n] \in Intents BY <1>1, <1>2
  <2> QED BY <2>1 DEF Intents
<1>4. ASSUME NEW in, in.OrderID \in DOMAIN Legs
      PROVE  Range(Legs[in.OrderID]) \subseteq Ids /\ PairSize(in) \in Nat
  <2>1. Legs[in.OrderID] \in Ids \X Ids BY <1>4, RiskAssumption
  <2>2. Range(Legs[in.OrderID]) \subseteq Ids BY <2>1 DEF Range
  <2>3. Legs[in.OrderID][1] \in Ids BY <2>1
  <2>4. Order[Legs[in.OrderID][1]].RequestedSize \in Nat BY <2>3, TermsType
  <2> QED BY <2>2, <2>4 DEF PairSize
<1> QED BY <1>1, <1>2, <1>3, <1>4

\* The costs are numbers, and cover the collateral of the batch's orders.
LEMMA CostType ==
    ASSUME NEW batch \in Batches, NEW a \in Accounts, NEW n \in DOMAIN batch
    PROVE  /\ Cost(batch, a)[n] \in Nat
           /\ batch[n].Action = "PLACE" =>
                Cost(batch, a)[n] = Part(a, Account(TermsOf(batch, n).Side, TermsOf(batch, n).TokenID),
                                         Collateral(batch[n].OrderID))
<1> DEFINE q == TermsOf(batch, n)
           act == batch[n].Action
<1>1. /\ act \in {"PLACE", "CANCEL", "SPLIT", "MERGE"}
      /\ act \in {"SPLIT", "MERGE"} => PairSize(batch[n]) \in Nat
      /\ act = "PLACE" => batch[n].OrderID \in Ids
  BY IntentType
<1>2. ASSUME act = "PLACE"
      PROVE  /\ q.TokenID \in Tokens /\ q.Side \in Sides /\ q.Price \in Nat
             /\ q.RequestedSize \in Nat /\ q.Price * q.RequestedSize \in Nat
             /\ q.Side = "BUY" => Collateral(batch[n].OrderID) = q.Price * q.RequestedSize
             /\ q.Side = "SELL" => Collateral(batch[n].OrderID) = q.RequestedSize
  <2>1. batch[n].OrderID \in Ids BY <1>1, <1>2
  <2>2. /\ q.TokenID \in Tokens /\ q.Side \in Sides /\ q.Price \in Nat
        /\ q.RequestedSize \in Nat
    BY <2>1, TermsType DEF TermsOf, Prices
  <2> HIDE DEF q
  <2>3. q.Price * q.RequestedSize \in Nat /\ q.Price * q.RequestedSize = q.RequestedSize * q.Price
    BY <2>2
  <2> QED BY <2>2, <2>3 DEF Collateral, RequiredCollateral, TermsOf, q
<1>3. One \in Nat BY OneAssumption
<1>4. CASE a = Balance
  <2>1. Cost(batch, a)[n] = CASE act = "SPLIT" -> PairSize(batch[n]) * One
                              [] act = "PLACE" /\ q.Side = "BUY" -> q.Price * q.RequestedSize
                              [] OTHER -> 0
    BY <1>4 DEF Cost, BuyCost
  <2>2. ASSUME act = "PLACE"
        PROVE  Cost(batch, a)[n] = Part(a, Account(q.Side, q.TokenID), Collateral(batch[n].OrderID))
    <3>1. q.Side = "BUY" \/ q.Side = "SELL" BY <1>2, <2>2 DEF Sides
    <3>2. CASE q.Side = "BUY"
      <4>1. Account(q.Side, q.TokenID) = a BY <1>4, <3>2 DEF Account
      <4> QED BY <1>2, <2>1, <2>2, <3>2, <4>1 DEF Part
    <3>3. CASE q.Side = "SELL"
      <4>1. Account(q.Side, q.TokenID) # a
        BY <1>2, <1>4, <2>2, <3>3, PositionInject DEF Account
      <4> QED BY <1>2, <2>1, <2>2, <3>3, <4>1 DEF Part
    <3> QED BY <3>1, <3>2, <3>3
  <2>3. Cost(batch, a)[n] \in Nat
    <3>1. CASE act = "SPLIT"
      <4>1. PairSize(batch[n]) \in Nat BY <1>1, <3>1
      <4>2. PairSize(batch[n]) * One \in Nat BY <1>3, <4>1
      <4> QED BY <2>1, <3>1, <4>2
    <3>2. CASE act # "SPLIT"
      BY <1>2, <2>1, <3>2
    <3> QED BY <3>1, <3>2
  <2> QED BY <2>2, <2>3
<1>5. ASSUME NEW t \in Tokens, a = PositionIn(t), a # Balance, a[2] = t
      PROVE  /\ Cost(batch, a)[n] \in Nat
             /\ act = "PLACE" => Cost(batch, a)[n] =
                    Part(a, Account(q.Side, q.TokenID), Collateral(batch[n].OrderID))
  <2> DEFINE touched == \E o \in Range(Legs[batch[n].OrderID]) : Order[o].TokenID = t
  <2>1. Cost(batch, a)[n] = CASE act = "PLACE" /\ q.Side = "SELL" /\ q.TokenID = t -> q.RequestedSize
                              [] act = "MERGE" /\ touched -> PairSize(batch[n])
                              [] OTHER -> 0
    BY <1>5 DEF Cost, SellCost
  <2> HIDE DEF touched
  <2>2. ASSUME act = "PLACE"
        PROVE  Cost(batch, a)[n] = Part(a, Account(q.Side, q.TokenID), Collateral(batch[n].OrderID))
    <3>1. q.Side = "BUY" \/ q.Side = "SELL" BY <1>2, <2>2 DEF Sides
    <3>2. CASE q.Side = "BUY"
      <4>1. Account(q.Side, q.TokenID) # a BY <1>5, <3>2 DEF Account
      <4> QED BY <1>2, <2>1, <2>2, <3>2, <4>1 DEF Part
    <3>3. CASE q.Side = "SELL"
      <4>1. Account(q.Side, q.TokenID) = PositionIn(q.TokenID) BY <3>3 DEF Account
      <4>2. PositionIn(q.TokenID) = a <=> q.TokenID = t
        BY <1>2, <1>5, <2>2, PositionInject
      <4> QED BY <1>2, <2>1, <2>2, <3>3, <4>1, <4>2 DEF Part
    <3> QED BY <3>1, <3>2, <3>3
  <2>3. Cost(batch, a)[n] \in Nat
    BY <1>1, <1>2, <2>1
  <2> QED BY <2>2, <2>3
<1> QED BY <1>4, <1>5, AccountCases

\* The sums Check compares with the accounts.
LEMMA RequiredIsSum ==
    ASSUME NEW batch
    PROVE  /\ BuyRequired(batch) = SumOver(Cost(batch, Balance), DOMAIN batch)
           /\ \A t \in Tokens :
                SellRequired(batch, t) = SumOver(Cost(batch, PositionIn(t)), DOMAIN batch)
<1>1. BuyRequired(batch) = SumOver(BuyCost(batch), DOMAIN batch) BY DEF BuyRequired, BuyCost
<1>2. ASSUME NEW t \in Tokens
      PROVE  SellRequired(batch, t) = SumOver(SellCost(batch, t), DOMAIN batch)
  BY DEF SellRequired, SellCost
<1>3. \A t \in Tokens : PositionIn(t) # Balance /\ PositionIn(t)[2] = t BY PositionInject
<1> QED BY <1>1, <1>2, <1>3 DEF Cost

\* The costs of the first k intents, of one more, and of the whole batch.
LEMMA CostSums ==
    ASSUME NEW batch \in Batches, NEW a \in Accounts, NEW k \in DOMAIN batch
    PROVE  /\ SumOver(Cost(batch, a), 1 .. (k - 1)) \in Nat
           /\ SumOver(Cost(batch, a), 1 .. k) =
                    SumOver(Cost(batch, a), 1 .. (k - 1)) + Cost(batch, a)[k]
           /\ SumOver(Cost(batch, a), DOMAIN batch) \in Nat
           /\ SumOver(Cost(batch, a), 1 .. (k - 1)) + Cost(batch, a)[k]
                    <= SumOver(Cost(batch, a), DOMAIN batch)
<1> DEFINE f == Cost(batch, a)
           D == DOMAIN batch
           rest == (k + 1) .. Len(batch)
<1>1. D = 1 .. Len(batch) /\ Len(batch) \in Nat BY IntentType
<1>2. \A n \in D : f[n] \in Nat /\ f[n] \in Int BY CostType
<1> HIDE DEF f
<1>3. /\ 1 .. (k - 1) \subseteq D /\ 1 .. k \subseteq D /\ rest \subseteq D
      /\ k \in 1 .. k /\ (1 .. k) \ {k} = 1 .. (k - 1)
      /\ (1 .. k) \cap rest = {} /\ (1 .. k) \cup rest = D
  BY <1>1
<1>4. IsFiniteSet(1 .. (k - 1)) /\ IsFiniteSet(1 .. k) /\ IsFiniteSet(rest) /\ IsFiniteSet(D)
  <2>1. IsFiniteSet(D) BY <1>1, FS_Interval
  <2> QED BY <1>3, <2>1, FS_Subset
<1> HIDE DEF rest, D
<1>5. SumOver(f, 1 .. (k - 1)) \in Nat /\ SumOver(f, rest) \in Nat /\ SumOver(f, D) \in Nat
  BY <1>2, <1>3, <1>4, SumType
<1>6. SumOver(f, 1 .. k) = f[k] + SumOver(f, 1 .. (k - 1))
  <2>1. SumOver(f, 1 .. k) = f[k] + SumOver(f, (1 .. k) \ {k})
    BY <1>2, <1>3, <1>4, SumRemove
  <2> QED BY <1>3, <2>1
<1>7. SumOver(f, D) = SumOver(f, 1 .. k) + SumOver(f, rest)
  <2>1. \A x \in (1 .. k) \cup rest : f[x] \in Int BY <1>2, <1>3
  <2>2. SumOver(f, (1 .. k) \cup rest) = SumOver(f, 1 .. k) + SumOver(f, rest)
    BY <1>3, <1>4, <2>1, SumDisjoint
  <2> QED BY <1>3, <2>2
<1>8. f[k] \in Nat BY <1>2 DEF D
<1> QED BY <1>5, <1>6, <1>7, <1>8 DEF f, D

-----------------------------------------------------------------------------
(* The loop's invariant.                                                   *)

\* What k intents of the batch have made of the ledger s.
Progress(s, batch, acc, k) ==
    /\ acc = [st |-> acc.st, sent |-> acc.sent, failed |-> acc.failed]
    /\ Covers(acc.st)
    /\ acc.sent \subseteq Ids /\ acc.failed \subseteq Ids
    /\ acc.st.DailyPnL = s.DailyPnL
    /\ (\A n \in 1 .. k : batch[n].Action = "CANCEL") => acc.st = s
    /\ \A i \in DOMAIN acc.st.Provisionals :
            \/ i \in DOMAIN s.Provisionals
            \/ /\ i \in acc.sent
               /\ \E n \in 1 .. k : batch[n].Action = "PLACE" /\ batch[n].OrderID = i
    /\ \A a \in Accounts :
            /\ FreeIn(acc.st, a) >= FreeIn(s, a) - SumOver(Cost(batch, a), 1 .. k)
            /\ FreeIn(acc.st, a) >= FreeIn(s, a) \/ FreeIn(acc.st, a) >= 0

\* TryReserveProvisional with the terms of order o.
Attempt(s, o) ==
    TryReserveProvisional(s, o, Order[o].TokenID, Order[o].Side, Order[o].Price,
                          Order[o].RequestedSize)

\* A reservation that is taken finds its collateral in the account it draws on.
LEMMA AttemptMoves ==
    ASSUME NEW s, Covers(s), NEW o \in Ids, NEW r, r = Attempt(s, o)
    PROVE  /\ Covers(r.st) /\ r.st.DailyPnL = s.DailyPnL
           /\ r.err # "nil" => r.st = s
           /\ r.err = "nil" =>
                /\ DOMAIN r.st.Provisionals = DOMAIN s.Provisionals \cup {o}
                /\ FreeIn(s, DrawsOn(o)) >= Collateral(o)
                /\ \A a \in Accounts :
                     FreeIn(r.st, a) = FreeIn(s, a) - Part(a, DrawsOn(o), Collateral(o))
<1> DEFINE q == Order[o]
           amount == Collateral(o)
           taken == Reserve(s, q.Side, q.TokenID, amount)
           p == [TokenID |-> q.TokenID, Side |-> q.Side, Price |-> q.Price,
                 RemainingSize |-> q.RequestedSize, Reserved |-> amount, Life |-> TTL]
           ok == [taken EXCEPT !.Provisionals = Put(@, o, p)]
<1>1. Covers(r.st) BY TryReserveCovers DEF Attempt
<1>2. \/ r.err # "nil" /\ r.st = s
      \/ r.err = "nil" /\ r.st = ok /\ HasFunds(s, q.Side, q.TokenID, amount)
  BY DEF Attempt, TryReserveProvisional, Result, Collateral
<1>3. q.Side \in Sides /\ q.TokenID \in Tokens /\ amount \in Nat
  BY TermsType DEF Collateral
<1>4. IsLedger(s, Ids, Tokens) BY DEF Covers
<1>5. IsLedger(taken, Ids, Tokens) /\ taken.Provisionals = s.Provisionals
  BY <1>3, <1>4, ReserveType
<1>6. \A a \in Accounts : FreeIn(taken, a) = FreeIn(s, a) - Part(a, DrawsOn(o), amount)
  BY <1>3, <1>4, ReserveAccounts DEF DrawsOn
<1>7. taken.DailyPnL = s.DailyPnL BY <1>4 DEF Reserve, SetToken, IsLedger
<1>8. HasFunds(s, q.Side, q.TokenID, amount) => FreeIn(s, DrawsOn(o)) >= amount
  BY <1>3, FundsThere DEF DrawsOn
<1> HIDE DEF taken, p, amount, q
<1>9. /\ ok.Provisionals = Put(s.Provisionals, o, p) /\ ok.DailyPnL = s.DailyPnL
      /\ ok.Available = taken.Available /\ ok.Reserved = taken.Reserved /\ ok.Tokens = taken.Tokens
  BY <1>5, <1>7 DEF IsLedger
<1>10. DOMAIN ok.Provisionals = DOMAIN s.Provisionals \cup {o} BY <1>9 DEF Put
<1>11. \A a \in Accounts : FreeIn(ok, a) = FreeIn(taken, a) BY <1>9, SameAccounts
<1> HIDE DEF ok
<1>12. CASE r.err # "nil" BY <1>1, <1>2, <1>12
<1>13. CASE r.err = "nil"
  <2>1. r.st = ok /\ HasFunds(s, q.Side, q.TokenID, amount) BY <1>2, <1>13
  <2> QED BY <1>1, <1>6, <1>8, <1>9, <1>10, <1>11, <1>13, <2>1 DEF amount
<1> QED BY <1>12, <1>13

\* One intent more.
LEMMA ProgressStep ==
    ASSUME NEW s, NEW batch \in Batches, NEW k \in DOMAIN batch,
           NEW acc, Progress(s, batch, acc, k - 1), IsLedger(s, Ids, Tokens),
           NEW next, next = reserveIntent(acc, batch[k])
    PROVE  Progress(s, batch, next, k)
<1> DEFINE o == batch[k].OrderID
           r == Attempt(acc.st, o)
<1>1. k \in Nat /\ k \in 1 .. k /\ 1 .. (k - 1) \subseteq 1 .. k
  BY IntentType
<1>2. /\ acc = [st |-> acc.st, sent |-> acc.sent, failed |-> acc.failed]
      /\ Covers(acc.st) /\ acc.sent \subseteq Ids /\ acc.failed \subseteq Ids
      /\ acc.st.DailyPnL = s.DailyPnL
  BY DEF Progress
<1>3. ASSUME NEW a \in Accounts
      PROVE  /\ FreeIn(acc.st, a) \in Int /\ FreeIn(s, a) \in Int
             /\ SumOver(Cost(batch, a), 1 .. (k - 1)) \in Nat
             /\ Cost(batch, a)[k] \in Nat
             /\ SumOver(Cost(batch, a), 1 .. k) =
                    SumOver(Cost(batch, a), 1 .. (k - 1)) + Cost(batch, a)[k]
             /\ FreeIn(acc.st, a) >= FreeIn(s, a) - SumOver(Cost(batch, a), 1 .. (k - 1))
             /\ FreeIn(acc.st, a) >= FreeIn(s, a) \/ FreeIn(acc.st, a) >= 0
  BY <1>2, CostSums, CostType, AccountsInt DEF Progress, Covers
<1>4. ASSUME next.st = acc.st, acc.sent \subseteq next.sent, next.sent \subseteq Ids,
             next.failed \subseteq Ids,
             next = [st |-> next.st, sent |-> next.sent, failed |-> next.failed]
      PROVE  Progress(s, batch, next, k)
  <2>1. \A a \in Accounts :
            /\ FreeIn(next.st, a) >= FreeIn(s, a) - SumOver(Cost(batch, a), 1 .. k)
            /\ FreeIn(next.st, a) >= FreeIn(s, a) \/ FreeIn(next.st, a) >= 0
    BY <1>3, <1>4
  <2>2. (\A n \in 1 .. k : batch[n].Action = "CANCEL") => next.st = s
    BY <1>1, <1>4 DEF Progress
  <2>3. \A i \in DOMAIN next.st.Provisionals :
            \/ i \in DOMAIN s.Provisionals
            \/ /\ i \in next.sent
               /\ \E n \in 1 .. k : batch[n].Action = "PLACE" /\ batch[n].OrderID = i
    BY <1>1, <1>4 DEF Progress
  <2> QED BY <1>2, <1>4, <2>1, <2>2, <2>3 DEF Progress
<1>5. batch[k].Action \in {"PLACE", "CANCEL", "SPLIT", "MERGE"} BY IntentType
<1>6. CASE batch[k].Action = "CANCEL"
  <2>1. next = acc BY <1>6 DEF reserveIntent
  <2> QED BY <1>2, <1>4, <2>1
<1>7. CASE batch[k].Action \in {"SPLIT", "MERGE"}
  <2>1. next = [acc EXCEPT !.sent = @ \cup Range(Legs[o])]
    BY <1>7 DEF reserveIntent
  <2>2. Range(Legs[o]) \subseteq Ids BY <1>7, IntentType
  <2>3. /\ next.st = acc.st /\ next.failed = acc.failed /\ next.sent = acc.sent \cup Range(Legs[o])
        /\ next = [st |-> next.st, sent |-> next.sent, failed |-> next.failed]
    BY <1>2, <2>1
  <2> QED BY <1>2, <1>4, <1>7, <2>2, <2>3
<1>8. CASE batch[k].Action = "PLACE"
  <2>1. o \in Ids BY <1>8, IntentType
  <2>2. CASE r.err # "nil"
    <3>1. next = [acc EXCEPT !.failed = @ \cup {o}]
      BY <1>8, <2>2 DEF reserveIntent, Attempt
    <3>2. /\ next.st = acc.st /\ next.sent = acc.sent /\ next.failed = acc.failed \cup {o}
          /\ next = [st |-> next.st, sent |-> next.sent, failed |-> next.failed]
      BY <1>2, <3>1
    <3> QED BY <1>2, <1>4, <2>1, <3>2
  <2>3. CASE r.err = "nil"
    <3>1. next = [acc EXCEPT !.st = r.st, !.sent = @ \cup {o}]
      BY <1>8, <2>3 DEF reserveIntent, Attempt
    <3>2. /\ next.st = r.st /\ next.sent = acc.sent \cup {o} /\ next.failed = acc.failed
          /\ next = [st |-> next.st, sent |-> next.sent, failed |-> next.failed]
      BY <1>2, <3>1
    <3>3. /\ Covers(r.st) /\ r.st.DailyPnL = acc.st.DailyPnL
          /\ DOMAIN r.st.Provisionals = DOMAIN acc.st.Provisionals \cup {o}
          /\ FreeIn(acc.st, DrawsOn(o)) >= Collateral(o)
          /\ \A a \in Accounts :
                FreeIn(r.st, a) = FreeIn(acc.st, a) - Part(a, DrawsOn(o), Collateral(o))
      BY <1>2, <2>1, <2>3, AttemptMoves
    <3> HIDE DEF r
    <3>4. Collateral(o) \in Nat BY <2>1, TermsType DEF Collateral
    <3>5. ASSUME NEW a \in Accounts
          PROVE  /\ FreeIn(next.st, a) >= FreeIn(s, a) - SumOver(Cost(batch, a), 1 .. k)
                 /\ FreeIn(next.st, a) >= FreeIn(s, a) \/ FreeIn(next.st, a) >= 0
      <4>1. Cost(batch, a)[k] = Part(a, DrawsOn(o), Collateral(o))
        BY <1>8, CostType DEF TermsOf, DrawsOn
      <4>2. FreeIn(r.st, a) = FreeIn(acc.st, a) - Cost(batch, a)[k] BY <3>3, <4>1
      <4>3. CASE a = DrawsOn(o)
        <5>1. Cost(batch, a)[k] = Collateral(o) BY <4>1, <4>3 DEF Part
        <5>2. FreeIn(next.st, a) >= 0
          BY <1>3, <3>2, <3>3, <3>4, <4>2, <4>3, <5>1
        <5> QED BY <1>3, <3>2, <4>2, <5>2
      <4>4. CASE a # DrawsOn(o)
        <5>1. Cost(batch, a)[k] = 0 BY <4>1, <4>4 DEF Part
        <5> QED BY <1>3, <3>2, <4>2, <5>1
      <4> QED BY <4>3, <4>4
    <3>6. \A i \in DOMAIN next.st.Provisionals :
            \/ i \in DOMAIN s.Provisionals
            \/ /\ i \in next.sent
               /\ \E n \in 1 .. k : batch[n].Action = "PLACE" /\ batch[n].OrderID = i
      BY <1>1, <1>8, <3>2, <3>3 DEF Progress
    <3>7. ~ (\A n \in 1 .. k : batch[n].Action = "CANCEL") BY <1>1, <1>8
    <3>8. next.st.DailyPnL = s.DailyPnL BY <1>2, <3>2, <3>3
    <3> QED BY <1>2, <2>1, <3>2, <3>3, <3>5, <3>6, <3>7, <3>8 DEF Progress
  <2> QED BY <2>2, <2>3
<1> QED BY <1>5, <1>6, <1>7, <1>8

\* The batch's orders are not reserved yet, and outside the accounts U there is
\* enough for all of it.
Enough(s, batch, U) ==
    /\ \A n \in PlacedIn(batch) : batch[n].OrderID \notin DOMAIN s.Provisionals
    /\ \A a \in Accounts \ U :
            \/ SumOver(Cost(batch, a), DOMAIN batch) = 0
            \/ FreeIn(s, a) >= SumOver(Cost(batch, a), DOMAIN batch)

\* Every order that found no funds draws on U.
FailedIn(acc, U) == \A o \in acc.failed : DrawsOn(o) \in U

\* Then no intent fails but for the accounts U.
LEMMA NothingFails ==
    ASSUME NEW s, NEW batch \in Batches, NEW k \in DOMAIN batch, NEW U,
           NEW acc, Progress(s, batch, acc, k - 1), IsLedger(s, Ids, Tokens),
           Enough(s, batch, U), FailedIn(acc, U),
           NEW next, next = reserveIntent(acc, batch[k])
    PROVE  FailedIn(next, U)
<1> DEFINE o == batch[k].OrderID
           r == Attempt(acc.st, o)
<1>1. /\ acc = [st |-> acc.st, sent |-> acc.sent, failed |-> acc.failed]
      /\ Covers(acc.st)
  BY DEF Progress
<1>2. batch[k].Action \in {"PLACE", "CANCEL", "SPLIT", "MERGE"} BY IntentType
<1>3. CASE batch[k].Action = "CANCEL"
  BY <1>3 DEF reserveIntent
<1>4. CASE batch[k].Action \in {"SPLIT", "MERGE"}
  <2>1. next = [acc EXCEPT !.sent = @ \cup Range(Legs[o])]
    BY <1>4 DEF reserveIntent
  <2>2. next.failed = acc.failed BY <1>1, <2>1
  <2> QED BY <2>2 DEF FailedIn
<1>5. CASE batch[k].Action = "PLACE"
  <2> DEFINE q == Order[o]
             a == DrawsOn(o)
  <2>1. o \in Ids BY <1>5, IntentType
  <2>2. CASE a \in U
    <3>1. \/ next = [acc EXCEPT !.failed = @ \cup {o}]
          \/ next = [acc EXCEPT !.st = r.st, !.sent = @ \cup {o}]
      BY <1>5 DEF reserveIntent, Attempt
    <3>2. next.failed \subseteq acc.failed \cup {o} BY <1>1, <3>1
    <3> HIDE DEF o
    <3> QED BY <2>2, <3>2 DEF FailedIn
  <2>3. CASE a \notin U
    <3>2. /\ q.Side \in Sides /\ q.TokenID \in Tokens /\ Collateral(o) \in Nat /\ Collateral(o) > 0
          /\ q.Price \in Prices /\ q.RequestedSize \in Nat \ {0}
      BY <2>1, TermsType, TermsCost DEF Collateral
    <3>3. a \in Accounts BY <3>2, AccountType DEF DrawsOn
    <3>4. Cost(batch, a)[k] = Collateral(o)
      BY <1>5, <3>3, CostType DEF TermsOf, Part, DrawsOn
    <3>5. FreeIn(acc.st, a) >= Collateral(o)
      <4>1. /\ FreeIn(acc.st, a) \in Int /\ FreeIn(s, a) \in Int
        BY <1>1, <3>3, AccountsInt DEF Covers
      <4>2. /\ FreeIn(acc.st, a) >= FreeIn(s, a) - SumOver(Cost(batch, a), 1 .. (k - 1))
            /\ \/ SumOver(Cost(batch, a), DOMAIN batch) = 0
               \/ FreeIn(s, a) >= SumOver(Cost(batch, a), DOMAIN batch)
        BY <2>3, <3>3 DEF Progress, Enough
      <4>3. /\ SumOver(Cost(batch, a), 1 .. (k - 1)) \in Nat
            /\ SumOver(Cost(batch, a), DOMAIN batch) \in Nat
            /\ SumOver(Cost(batch, a), 1 .. (k - 1)) + Collateral(o)
                  <= SumOver(Cost(batch, a), DOMAIN batch)
        BY <3>3, <3>4, CostSums
      <4> HIDE DEF a, o
      <4> QED BY <3>2, <4>1, <4>2, <4>3
    <3>6. HasFunds(acc.st, q.Side, q.TokenID, Collateral(o))
      <4>1. CASE q.Side = "BUY"
        <5>1. FreeIn(acc.st, a) = acc.st.Available BY <4>1 DEF FreeIn, Account, DrawsOn
        <5> QED BY <3>5, <4>1, <5>1 DEF HasFunds
      <4>2. CASE q.Side # "BUY"
        <5>1. a = PositionIn(q.TokenID) BY <4>2 DEF Account, DrawsOn
        <5>2. a # Balance /\ a[2] = q.TokenID BY <3>2, <5>1, PositionInject
        <5>3. FreeIn(acc.st, a) = TokenAt(acc.st, q.TokenID).Available
          BY <5>2 DEF FreeIn
        <5> QED BY <3>5, <4>2, <5>3 DEF HasFunds
      <4> QED BY <4>1, <4>2
    <3>7. o \notin DOMAIN acc.st.Provisionals
      <4> SUFFICES ASSUME o \in DOMAIN acc.st.Provisionals PROVE FALSE OBVIOUS
      <4>1. o \notin DOMAIN s.Provisionals BY <1>5 DEF Enough, PlacedIn
      <4>2. PICK n \in 1 .. (k - 1) : batch[n].Action = "PLACE" /\ batch[n].OrderID = o
        BY <4>1 DEF Progress
      <4>3. n \in DOMAIN batch /\ n # k BY IntentType
      <4>4. batch[n] = batch[k]
        <5>1. batch[n] \in Intents /\ batch[k] \in Intents BY <4>3, IntentType
        <5>2. batch[n].Action = batch[k].Action /\ batch[n].OrderID = batch[k].OrderID
          BY <1>5, <4>2
        <5> QED BY <5>1, <5>2 DEF Intents
      <4> QED BY <1>5, <4>3, <4>4, RiskAssumption
    <3>8. validateOrderArgs(q.Side, q.Price, q.RequestedSize)
      BY <3>2, OneAssumption DEF validateOrderArgs, Prices
    <3>9. r.err = "nil"
      <4> HIDE DEF o
      <4> QED BY <3>6, <3>7, <3>8 DEF Attempt, TryReserveProvisional, Result, Collateral
    <3>10. next = [acc EXCEPT !.st = r.st, !.sent = @ \cup {o}]
      BY <1>5, <3>9 DEF reserveIntent, Attempt
    <3>11. next.failed = acc.failed BY <1>1, <3>10
    <3> QED BY <3>11 DEF FailedIn
  <2> QED BY <2>2, <2>3
<1> QED BY <1>2, <1>3, <1>4, <1>5

\* The whole batch.
LEMMA LoopProgress ==
    ASSUME NEW s, Covers(s), NEW batch \in Batches, NEW U,
           NEW r, r = FoldLeft(reserveIntent, Start(s), batch)
    PROVE  /\ Progress(s, batch, r, Len(batch))
           /\ Enough(s, batch, U) => FailedIn(r, U)
<1> DEFINE L == Len(batch)
<1>0. IsLedger(s, Ids, Tokens) BY DEF Covers
<1>1. /\ batch \in Seq(Intents) /\ DOMAIN batch = 1 .. L /\ L \in Nat BY IntentType
<1>2. PICK acc : /\ acc[0] = Start(s)
                 /\ \A k \in 1 .. L : acc[k] = reserveIntent(acc[k - 1], batch[k])
                 /\ r = acc[L]
  BY <1>1, FoldIsLoop
<1> DEFINE P(k) == Progress(s, batch, acc[k], k) /\ (Enough(s, batch, U) => FailedIn(acc[k], U))
           T == {k \in Nat : k <= L => P(k)}
<1>3. 0 \in T
  <2>1. /\ acc[0].st = s /\ acc[0].sent = {} /\ acc[0].failed = {}
        /\ acc[0] = [st |-> acc[0].st, sent |-> acc[0].sent, failed |-> acc[0].failed]
    BY <1>2 DEF Start
  <2>2. ASSUME NEW a \in Accounts
        PROVE  /\ FreeIn(s, a) >= FreeIn(s, a) - SumOver(Cost(batch, a), 1 .. 0)
               /\ FreeIn(s, a) >= FreeIn(s, a)
    <3>1. 1 .. 0 = {} OBVIOUS
    <3>2. SumOver(Cost(batch, a), 1 .. 0) = 0 BY <3>1, SumEmpty
    <3>3. FreeIn(s, a) \in Int BY <1>0, AccountsInt
    <3> QED BY <3>2, <3>3
  <2>3. Progress(s, batch, acc[0], 0)
    BY <2>1, <2>2 DEF Progress
  <2>4. FailedIn(acc[0], U) BY <2>1 DEF FailedIn
  <2> QED BY <2>3, <2>4
<1>4. ASSUME NEW k \in Nat, k \in T PROVE k + 1 \in T
  <2> SUFFICES ASSUME k + 1 <= L PROVE P(k + 1) OBVIOUS
  <2> DEFINE j == k + 1
  <2>1. j \in 1 .. L /\ j \in DOMAIN batch /\ j - 1 = k BY <1>1
  <2>2. P(k) BY <1>1, <1>4
  <2>3. acc[j] = reserveIntent(acc[j - 1], batch[j]) BY <1>2, <2>1
  <2>4. Progress(s, batch, acc[j - 1], j - 1)
        /\ (Enough(s, batch, U) => FailedIn(acc[j - 1], U))
    BY <2>1, <2>2
  <2> HIDE DEF j, P
  <2>5. Progress(s, batch, acc[j], j) BY <1>0, <2>1, <2>3, <2>4, ProgressStep
  <2>6. Enough(s, batch, U) => FailedIn(acc[j], U) BY <1>0, <2>1, <2>3, <2>4, NothingFails
  <2> QED BY <2>5, <2>6 DEF j, P
<1>5. \A k \in Nat : k \in T
  <2> HIDE DEF T
  <2> QED BY <1>3, <1>4, NatSetInduction
<1>6. P(L) BY <1>1, <1>5
<1> QED BY <1>2, <1>6

-----------------------------------------------------------------------------
(* The operations that give back at least what they take.                  *)

\* No account has less.
Gives(s, r) == \A a \in Accounts : FreeIn(r, a) >= FreeIn(s, a)

\* From s to r the ledger stays one, no account has less and nothing new is
\* provisionally reserved.
Keeps(s, r) ==
    /\ Covers(r) /\ Gives(s, r)
    /\ DOMAIN r.Provisionals \subseteq DOMAIN s.Provisionals

\* A ledger gives as much as itself.
LEMMA SameKeeps ==
    ASSUME NEW s, Covers(s)
    PROVE  Keeps(s, s)
BY AccountsInt DEF Keeps, Gives, Covers

\* releaseReservedLocked gives one account more.
LEMMA ReleaseGives ==
    ASSUME NEW d, IsLedger(d, Ids, Tokens), NEW side \in Sides, NEW tk \in Tokens,
           NEW amount \in Nat, NEW r, r = releaseReservedLocked(d, side, tk, amount)
    PROVE  /\ Gives(d, r)
           /\ r.Orders = d.Orders /\ r.Provisionals = d.Provisionals /\ r.DailyPnL = d.DailyPnL
<1>1. ASSUME NEW a \in Accounts PROVE FreeIn(r, a) >= FreeIn(d, a)
  <2>1. FreeIn(r, a) = FreeIn(d, a) + Part(a, Account(side, tk), amount) BY ReleaseAccounts
  <2>2. FreeIn(d, a) \in Int /\ Part(a, Account(side, tk), amount) \in Nat
    BY AccountsInt DEF Part
  <2> QED BY <2>1, <2>2
<1>2. r.Orders = d.Orders /\ r.Provisionals = d.Provisionals BY ReleaseFields
<1>3. r.DailyPnL = d.DailyPnL BY DEF releaseReservedLocked, SetToken, IsLedger
<1> QED BY <1>1, <1>2, <1>3 DEF Gives

\* ReleaseProvisional.
LEMMA ReleaseProvisionalKeeps ==
    ASSUME NEW s, Covers(s), NEW i, NEW r, r = ReleaseProvisional(s, i)
    PROVE  Keeps(s, r) /\ r.DailyPnL = s.DailyPnL
<1>1. CASE i \notin DOMAIN s.Provisionals
  <2>1. r = s BY <1>1 DEF ReleaseProvisional
  <2> QED BY <2>1, SameKeeps
<1>2. CASE i \in DOMAIN s.Provisionals
  <2> DEFINE p == s.Provisionals[i]
             ps == Del(s.Provisionals, {i})
             d == [s EXCEPT !.Orders = s.Orders, !.Provisionals = ps]
  <2>1. p.Side \in Sides /\ p.TokenID \in Tokens /\ p.Reserved \in Nat
    BY <1>2, LedgerParts, ReservationParts DEF Covers
  <2>2. r = releaseReservedLocked(d, p.Side, p.TokenID, p.Reserved)
    <3>1. [s EXCEPT !.Provisionals = Del(@, {i})] = d BY DEF Covers, IsLedger
    <3> QED BY <1>2, <3>1 DEF ReleaseProvisional, FreeProvisional
  <2>3. IsLedger(s, Ids, Tokens) /\ IsMap(s.Orders, Ids, OrderReservation(Tokens))
        /\ IsMap(ps, Ids, ProvisionalReservation(Tokens)) /\ DOMAIN ps \subseteq DOMAIN s.Provisionals
    <3>1. /\ IsLedger(s, Ids, Tokens) /\ IsMap(s.Orders, Ids, OrderReservation(Tokens))
          /\ IsMap(s.Provisionals, Ids, ProvisionalReservation(Tokens))
      BY LedgerParts DEF Covers
    <3>2. IsMap(ps, Ids, ProvisionalReservation(Tokens)) BY <3>1, DelMap
    <3>3. DOMAIN ps \subseteq DOMAIN s.Provisionals BY DEF Del, Restrict
    <3> QED BY <3>1, <3>2, <3>3
  <2>4. d.DailyPnL = s.DailyPnL BY <2>3 DEF IsLedger
  <2> HIDE DEF ps, p
  <2>5. Rebooked(s, d, s.Orders, ps) BY <2>3, SetMapsType
  <2> HIDE DEF d
  <2>6. Gives(d, r) /\ r.Provisionals = d.Provisionals /\ r.DailyPnL = d.DailyPnL
    BY <2>1, <2>2, <2>5, ReleaseGives DEF Rebooked
  <2>7. \A a \in Accounts : FreeIn(d, a) = FreeIn(s, a)
    BY <2>5, SameAccounts DEF Rebooked
  <2>8. Gives(s, r) BY <2>6, <2>7 DEF Gives
  <2> QED BY <2>3, <2>4, <2>5, <2>6, <2>8, ReleaseProvisionalCovers DEF Keeps, Rebooked
<1> QED BY <1>1, <1>2

\* ReleaseOrder.
LEMMA ReleaseOrderKeeps ==
    ASSUME NEW s, Covers(s), NEW o, NEW r, r = ReleaseOrder(s, o)
    PROVE  /\ Keeps(s, r) /\ r.DailyPnL = s.DailyPnL /\ r.Provisionals = s.Provisionals
           /\ DOMAIN r.Orders \subseteq DOMAIN s.Orders
<1>1. CASE o \notin DOMAIN s.Orders
  <2>1. r = s BY <1>1 DEF ReleaseOrder
  <2> QED BY <2>1, SameKeeps
<1>2. CASE o \in DOMAIN s.Orders
  <2> DEFINE p == s.Orders[o]
             os == Del(s.Orders, {o})
             d == [s EXCEPT !.Orders = os, !.Provisionals = s.Provisionals]
  <2>1. p.Side \in Sides /\ p.TokenID \in Tokens /\ p.Reserved \in Nat
    BY <1>2, LedgerParts, ReservationParts DEF Covers
  <2>2. r = releaseReservedLocked(d, p.Side, p.TokenID, p.Reserved)
    <3>1. [s EXCEPT !.Orders = Del(@, {o})] = d BY DEF Covers, IsLedger
    <3> QED BY <1>2, <3>1 DEF ReleaseOrder
  <2>3. IsLedger(s, Ids, Tokens) /\ IsMap(os, Ids, OrderReservation(Tokens))
        /\ IsMap(s.Provisionals, Ids, ProvisionalReservation(Tokens))
        /\ DOMAIN os \subseteq DOMAIN s.Orders
    <3>1. /\ IsLedger(s, Ids, Tokens) /\ IsMap(s.Orders, Ids, OrderReservation(Tokens))
          /\ IsMap(s.Provisionals, Ids, ProvisionalReservation(Tokens))
      BY LedgerParts DEF Covers
    <3>2. IsMap(os, Ids, OrderReservation(Tokens)) BY <3>1, DelMap
    <3>3. DOMAIN os \subseteq DOMAIN s.Orders BY DEF Del, Restrict
    <3> QED BY <3>1, <3>2, <3>3
  <2>4. d.DailyPnL = s.DailyPnL BY <2>3 DEF IsLedger
  <2> HIDE DEF os, p
  <2>5. Rebooked(s, d, os, s.Provisionals) BY <2>3, SetMapsType
  <2> HIDE DEF d
  <2>6. /\ Gives(d, r) /\ r.Orders = d.Orders /\ r.Provisionals = d.Provisionals
        /\ r.DailyPnL = d.DailyPnL
    BY <2>1, <2>2, <2>5, ReleaseGives DEF Rebooked
  <2>7. \A a \in Accounts : FreeIn(d, a) = FreeIn(s, a)
    BY <2>5, SameAccounts DEF Rebooked
  <2>8. Gives(s, r) BY <2>6, <2>7 DEF Gives
  <2> QED BY <2>3, <2>4, <2>5, <2>6, <2>8, ReleaseOrderCovers DEF Keeps, Rebooked
<1> QED BY <1>1, <1>2

\* A fill takes from Reserved only; then what its order still holds is returned.
LEMMA FillKeeps ==
    ASSUME NEW s, Covers(s), NEW o \in Ids, NEW price \in Nat, NEW day \in Nat,
           NEW f, f = ApplyFill(s, o, Order[o].TokenID, Order[o].Side, Order[o].RequestedSize,
                                price, day),
           NEW r, r = ReleaseOrder(f, o)
    PROVE  Keeps(s, r)
<1> DEFINE q == Order[o]
           n == q.RequestedSize
           tk == q.TokenID
           held == s.Orders[o]
           paid == IF price <= 0 THEN held.Price ELSE price
           cost == RequiredCollateral(q.Side, paid, n)
           consumed == IF cost > held.Reserved THEN held.Reserved ELSE cost
           left == Max0(held.RemainingSize - n)
           tp == TokenAt(s, tk)
           settled == SettleReservation(s, o, left, consumed)
           booked == IF tp.AvgCostKnown THEN addDailyPnLLocked(settled, day, (paid - tp.AvgCost) * n)
                     ELSE settled
           bought == BoughtPosition(tp, paid, n)
           sold == [tp EXCEPT !.Reserved = Max0(@ - consumed)]
<1>1. q.Side \in Sides /\ tk \in Tokens /\ n \in Nat BY TermsType
<1>2. Covers(f) BY <1>1, ApplyFillCovers
<1>3. Gives(s, f) /\ f.Provisionals = s.Provisionals
  <2>1. CASE f = s BY <2>1, SameKeeps DEF Keeps
  <2>2. CASE /\ q.Side = "BUY" /\ o \in DOMAIN s.Orders
             /\ f = [SetToken(settled, tk, bought) EXCEPT !.Reserved = Max0(@ - consumed)]
    <3>1. /\ f.Available = s.Available /\ f.Tokens = Put(s.Tokens, tk, bought)
          /\ f.Provisionals = s.Provisionals
      <4> HIDE DEF bought, consumed, left
      <4> QED BY <2>2 DEF SettleReservation, SetToken, Covers, IsLedger
    <3>2. bought.Available = tp.Available + n /\ tp.Available \in Int
      <4>1. tp \in TokenPosition BY <1>1, TokenAtType DEF Covers
      <4> HIDE DEF tp, n, paid
      <4> QED BY <4>1 DEF BoughtPosition, TokenPosition
    <3> HIDE DEF bought
    <3>3. ASSUME NEW a \in Accounts PROVE FreeIn(f, a) >= FreeIn(s, a)
      <4>1. FreeIn(f, a) = IF a = Balance THEN f.Available
                           ELSE IF a = PositionIn(tk) THEN bought.Available ELSE FreeIn(s, a)
        <5> HIDE DEF tk
        <5>1. tk \in Tokens BY <1>1
        <5>2. f.Tokens = Put(s.Tokens, tk, bought) BY <3>1
        <5> QED BY ONLY a \in Accounts, <5>1, <5>2, TradeAccounts
      <4>2. FreeIn(s, a) \in Int BY AccountsInt DEF Covers
      <4>3. a = Balance => FreeIn(s, a) = s.Available BY DEF FreeIn
      <4>4. a = PositionIn(tk) => FreeIn(s, a) = tp.Available
        BY <1>1, PositionInject DEF FreeIn
      <4> HIDE DEF tp, n, tk
      <4> QED BY <1>1, <3>1, <3>2, <4>1, <4>2, <4>3, <4>4
    <3> QED BY <3>1, <3>3 DEF Gives
  <2>3. CASE /\ q.Side = "SELL" /\ o \in DOMAIN s.Orders
             /\ f = [SetToken(booked, tk, sold) EXCEPT !.Available = @ + paid * n]
    <3>1. /\ f.Available = s.Available + paid * n /\ f.Tokens = Put(s.Tokens, tk, sold)
          /\ f.Provisionals = s.Provisionals
      <4> HIDE DEF sold, consumed, left, paid, n
      <4> QED BY <2>3 DEF SettleReservation, addDailyPnLLocked, SetToken, Covers, IsLedger
    <3>2. sold.Available = tp.Available
      <4>1. tp \in TokenPosition BY <1>1, TokenAtType DEF Covers
      <4> HIDE DEF tp, consumed
      <4> QED BY <4>1 DEF TokenPosition
    <3>3. paid * n \in Nat
      <4>1. held.Price \in Nat
        <5>1. held.Price \in Prices
          <6>1. held \in OrderReservation(Tokens) BY <2>3, LedgerParts DEF Covers, IsMap
          <6> HIDE DEF held
          <6> QED BY <6>1 DEF OrderReservation
        <5> QED BY <5>1 DEF Prices
      <4>2. paid \in Nat BY <4>1
      <4> HIDE DEF paid, n
      <4> QED BY <1>1, <4>2
    <3> HIDE DEF sold, paid, n
    <3>4. ASSUME NEW a \in Accounts PROVE FreeIn(f, a) >= FreeIn(s, a)
      <4>1. FreeIn(f, a) = IF a = Balance THEN f.Available
                           ELSE IF a = PositionIn(tk) THEN sold.Available ELSE FreeIn(s, a)
        <5> HIDE DEF tk
        <5>1. tk \in Tokens BY <1>1
        <5>2. f.Tokens = Put(s.Tokens, tk, sold) BY <3>1
        <5> QED BY ONLY a \in Accounts, <5>1, <5>2, TradeAccounts
      <4>2. FreeIn(s, a) \in Int BY AccountsInt DEF Covers
      <4>3. a = Balance => FreeIn(s, a) = s.Available BY DEF FreeIn
      <4>4. a = PositionIn(tk) => FreeIn(s, a) = tp.Available
        BY <1>1, PositionInject DEF FreeIn
      <4> HIDE DEF tp, tk
      <4> QED BY <3>1, <3>2, <3>3, <4>1, <4>2, <4>3, <4>4
    <3> QED BY <3>1, <3>4 DEF Gives
  <2> HIDE DEF consumed, left, paid, tp, cost
  <2> QED BY <1>1, <2>1, <2>2, <2>3 DEF ApplyFill, FillError, Sides, consumed, left, paid, tp, cost
<1>4. Keeps(f, r) BY <1>2, ReleaseOrderKeeps
<1>5. ASSUME NEW a \in Accounts PROVE FreeIn(r, a) >= FreeIn(s, a)
  <2>1. FreeIn(s, a) \in Int /\ FreeIn(f, a) \in Int /\ FreeIn(r, a) \in Int
    BY <1>2, <1>4, AccountsInt DEF Covers, Keeps
  <2> QED BY <1>3, <1>4, <2>1 DEF Keeps, Gives
<1> QED BY <1>3, <1>4, <1>5 DEF Keeps, Gives

\* The cleanup of provisionals.
LEMMA CleanupKeeps ==
    ASSUME NEW s, Covers(s), NEW r, r = CleanupExpiredProvisional(s)
    PROVE  Keeps(s, r) /\ r.DailyPnL = s.DailyPnL
<1> DEFINE gone == Restrict(s.Provisionals, Expired(s))
           sold == {gone[i].TokenID : i \in {x \in DOMAIN gone : gone[x].Side = "SELL"}}
           back(t) == IF t \notin sold THEN s.Tokens[t]
                      ELSE [TokenAt(s, t) EXCEPT
                              !.Available = @ + HeldIn(gone, PositionIn(t)),
                              !.Reserved  = Max0(@ - HeldIn(gone, PositionIn(t)))]
           tokens == [t \in DOMAIN s.Tokens \cup sold |-> back(t)]
           ps == Del(s.Provisionals, Expired(s))
<1>1. Covers(r) BY CleanupCovers
<1>2. r = [s EXCEPT !.Provisionals = ps,
                    !.Available = s.Available + HeldIn(gone, Balance),
                    !.Reserved = Max0(s.Reserved - HeldIn(gone, Balance)), !.Tokens = tokens]
  BY DEF CleanupExpiredProvisional
<1>3. Funded(gone)
  <2>1. /\ Expired(s) \subseteq DOMAIN s.Provisionals /\ DOMAIN gone \subseteq DOMAIN s.Provisionals
        /\ \A x \in DOMAIN gone : gone[x] = s.Provisionals[x]
    BY DEF Expired, Restrict
  <2>2. IsFiniteSet(DOMAIN s.Provisionals)
        /\ \A x \in DOMAIN s.Provisionals : s.Provisionals[x].Reserved \in Nat
    BY DEF Covers, Funded
  <2> HIDE DEF gone
  <2> QED BY <2>1, <2>2, FS_Subset DEF Funded
<1>4. \A a : HeldIn(gone, a) \in Nat
  <2> HIDE DEF gone
  <2> QED BY <1>3, HeldType
<1>5. DOMAIN ps \subseteq DOMAIN s.Provisionals BY DEF Del, Restrict
<1> HIDE DEF gone, sold, back, ps
<1>6. /\ r.Available = s.Available + HeldIn(gone, Balance) /\ r.Tokens = tokens
      /\ r.Provisionals = ps /\ r.DailyPnL = s.DailyPnL
  <2> HIDE DEF tokens
  <2> QED BY <1>2 DEF Covers, IsLedger
<1>7. ASSUME NEW a \in Accounts PROVE FreeIn(r, a) >= FreeIn(s, a)
  <2>0. FreeIn(s, a) \in Int BY AccountsInt DEF Covers
  <2>1. CASE a = Balance BY <1>4, <1>6, <2>0, <2>1 DEF FreeIn
  <2>2. ASSUME NEW t \in Tokens, a # Balance, a[2] = t
        PROVE  FreeIn(r, a) >= FreeIn(s, a)
    <3> DEFINE tp == TokenAt(s, t)
    <3>1. FreeIn(r, a) = TokenAt(r, t).Available /\ FreeIn(s, a) = tp.Available
      BY <2>2 DEF FreeIn
    <3>2. CASE t \notin sold
      <4>1. TokenAt(r, t) = tp BY <1>6, <3>2 DEF TokenAt, back
      <4> QED BY <2>0, <3>1, <4>1
    <3>3. CASE t \in sold
      <4>1. TokenAt(r, t) = back(t) BY <1>6, <3>3 DEF TokenAt
      <4>2. tp \in TokenPosition BY TokenAtType DEF Covers
      <4>3. back(t) = [tp EXCEPT !.Available = @ + HeldIn(gone, PositionIn(t)),
                                 !.Reserved  = Max0(@ - HeldIn(gone, PositionIn(t)))]
        BY <3>3 DEF back
      <4> HIDE DEF tp
      <4>4. back(t).Available = tp.Available + HeldIn(gone, PositionIn(t))
        BY <4>2, <4>3 DEF TokenPosition
      <4> QED BY <1>4, <2>0, <3>1, <4>1, <4>4
    <3> QED BY <3>2, <3>3
  <2> QED BY <2>1, <2>2, AccountCases
<1> QED BY <1>1, <1>5, <1>6, <1>7 DEF Keeps, Gives

\* The clock.
LEMMA ElapseKeeps ==
    ASSUME NEW s, Covers(s), NEW r, r = Elapse(s)
    PROVE  Keeps(s, r) /\ r.DailyPnL = s.DailyPnL
<1>1. Covers(r) BY ElapseCovers
<1>2. /\ r.Available = s.Available /\ r.Reserved = s.Reserved /\ r.Tokens = s.Tokens
      /\ r.DailyPnL = s.DailyPnL /\ DOMAIN r.Provisionals = DOMAIN s.Provisionals
  BY DEF Covers, IsLedger, Elapse
<1>3. \A a \in Accounts : FreeIn(r, a) = FreeIn(s, a) /\ FreeIn(s, a) \in Int
  BY <1>2, SameAccounts, AccountsInt DEF Covers
<1> QED BY <1>1, <1>2, <1>3 DEF Keeps, Gives

\* A confirmation: of an order without a provisional the collateral is taken,
\* if it is there; any other gives.
LEMMA AttachKeeps ==
    ASSUME NEW s, Covers(s), NEW o \in Ids, NEW i, NEW r,
           r = AttachOrder(s, i, o, Order[o].TokenID, Order[o].Side,
                           Order[o].Price, Order[o].RequestedSize)
    PROVE  \/ Keeps(s, r.st)
           \/ /\ Covers(r.st) /\ o \in DOMAIN r.st.Orders \ DOMAIN s.Orders
              /\ DOMAIN r.st.Provisionals = DOMAIN s.Provisionals
              /\ \A a \in Accounts :
                    FreeIn(r.st, a) >= FreeIn(s, a) \/ FreeIn(r.st, a) >= 0
<1> DEFINE q == Order[o]
           amount == Collateral(o)
           taken == Reserve(s, q.Side, q.TokenID, amount)
           e == NewReservation(q.TokenID, q.Side, q.Price, q.RequestedSize, FALSE)
           fresh == [taken EXCEPT !.Orders = Put(@, o, e)]
           conv == ConvertProvisional(s, i, o)
<1>0. IsLedger(s, Ids, Tokens) BY DEF Covers
<1>1. Covers(r.st) BY AttachCovers
<1>2. \/ r.st = s \/ r.st = ReleaseProvisional(s, i) \/ r.st = conv
      \/ o \notin DOMAIN s.Orders /\ r.st = fresh /\ HasFunds(s, q.Side, q.TokenID, amount)
  BY DEF AttachOrder, FreshReservation, Result, Collateral
<1>3. CASE r.st = s BY <1>3, SameKeeps
<1>4. CASE r.st = ReleaseProvisional(s, i) BY <1>4, ReleaseProvisionalKeeps
<1>5. CASE r.st = conv
  <2>1. /\ conv.Available = s.Available /\ conv.Reserved = s.Reserved /\ conv.Tokens = s.Tokens
        /\ conv.Provisionals = Del(s.Provisionals, {i})
    BY <1>0 DEF ConvertProvisional, IsLedger
  <2> HIDE DEF conv
  <2>2. \A a \in Accounts : FreeIn(conv, a) = FreeIn(s, a) /\ FreeIn(s, a) \in Int
    BY <1>0, <2>1, SameAccounts, AccountsInt
  <2>3. DOMAIN conv.Provisionals \subseteq DOMAIN s.Provisionals BY <2>1 DEF Del, Restrict
  <2> QED BY <1>1, <1>5, <2>2, <2>3 DEF Keeps, Gives
<1>6. CASE o \notin DOMAIN s.Orders /\ r.st = fresh /\ HasFunds(s, q.Side, q.TokenID, amount)
  <2>1. q.Side \in Sides /\ q.TokenID \in Tokens /\ amount \in Nat
    BY TermsType DEF Collateral
  <2>2. /\ IsLedger(taken, Ids, Tokens) /\ taken.Provisionals = s.Provisionals
        /\ taken.Orders = s.Orders
    BY <1>0, <2>1, ReserveType
  <2>3. \A a \in Accounts : FreeIn(taken, a) = FreeIn(s, a) - Part(a, DrawsOn(o), amount)
    BY <1>0, <2>1, ReserveAccounts DEF DrawsOn
  <2>4. FreeIn(s, DrawsOn(o)) >= amount BY <1>6, <2>1, FundsThere DEF DrawsOn
  <2> HIDE DEF taken, e, amount
  <2>5. /\ fresh.Available = taken.Available /\ fresh.Reserved = taken.Reserved
        /\ fresh.Tokens = taken.Tokens /\ fresh.Provisionals = s.Provisionals
        /\ fresh.Orders = Put(s.Orders, o, e)
    BY <2>2 DEF IsLedger
  <2> HIDE DEF fresh
  <2>6. ASSUME NEW a \in Accounts PROVE FreeIn(fresh, a) >= FreeIn(s, a) \/ FreeIn(fresh, a) >= 0
    <3>1. FreeIn(fresh, a) = FreeIn(s, a) - Part(a, DrawsOn(o), amount) /\ FreeIn(s, a) \in Int
      BY <1>0, <2>3, <2>5, SameAccounts, AccountsInt
    <3> QED BY <2>1, <2>4, <3>1 DEF Part
  <2>7. o \in DOMAIN fresh.Orders BY <2>5 DEF Put
  <2> QED BY <1>1, <1>6, <2>5, <2>6, <2>7
<1> QED BY <1>2, <1>3, <1>4, <1>5, <1>6

-----------------------------------------------------------------------------
(* The writers outside the engine: sync, reconcile and redemption.         *)

\* From s to r an order on account a was booked for the exchange.
BookedIn(s, r, a) ==
    \E o \in DOMAIN r.Orders \ DOMAIN s.Orders : r.Orders[o].ExternalOrigin /\ DrawsOn(o) = a

\* From s to r the day's loss and the provisionals stay, and no account is taken
\* below zero but by an order booked for the exchange.
Rewrites(s, r) ==
    /\ Covers(r) /\ r.DailyPnL = s.DailyPnL /\ r.Provisionals = s.Provisionals
    /\ \A a \in Accounts :
            FreeIn(r, a) >= FreeIn(s, a) \/ FreeIn(r, a) >= 0 \/ BookedIn(s, r, a)

\* Balance sync.
LEMMA SyncRewrites ==
    ASSUME NEW s, Covers(s), NEW total \in Int, NEW r, r = ReconcileOnchainBalance(s, total)
    PROVE  Rewrites(s, r)
<1> DEFINE n == Max0(total - s.Reserved)
<1>1. Covers(r) BY SyncCovers
<1>2. n >= 0 BY LedgerParts DEF Covers, Max0
<1> HIDE DEF n
<1>3. /\ r.Available = n /\ r.Tokens = s.Tokens /\ r.DailyPnL = s.DailyPnL
      /\ r.Provisionals = s.Provisionals
  BY DEF ReconcileOnchainBalance, Covers, IsLedger, n
<1>4. ASSUME NEW a \in Accounts PROVE FreeIn(r, a) >= FreeIn(s, a) \/ FreeIn(r, a) >= 0
  <2>1. FreeIn(r, a) = IF a = Balance THEN n ELSE FreeIn(s, a) BY <1>3, SetBalanceAccounts
  <2>2. FreeIn(s, a) \in Int BY AccountsInt DEF Covers
  <2> QED BY <1>2, <2>1, <2>2
<1> QED BY <1>1, <1>3, <1>4 DEF Rewrites

\* The positions are replaced, or kept, by ones that are not overdrawn.
LEMMA PositionsRewrite ==
    ASSUME NEW s, Covers(s), NEW r, Covers(r), r.Available = s.Available,
           r.DailyPnL = s.DailyPnL, r.Provisionals = s.Provisionals,
           \A t \in Tokens : \/ TokenAt(r, t).Available = TokenAt(s, t).Available
                             \/ TokenAt(r, t).Available >= 0
    PROVE  Rewrites(s, r)
<1>1. ASSUME NEW a \in Accounts PROVE FreeIn(r, a) >= FreeIn(s, a) \/ FreeIn(r, a) >= 0
  <2>0. FreeIn(s, a) \in Int BY AccountsInt DEF Covers
  <2>1. CASE a = Balance BY <2>0, <2>1 DEF FreeIn
  <2>2. ASSUME NEW t \in Tokens, a # Balance, a[2] = t
        PROVE  FreeIn(r, a) >= FreeIn(s, a) \/ FreeIn(r, a) >= 0
    <3>1. FreeIn(r, a) = TokenAt(r, t).Available /\ FreeIn(s, a) = TokenAt(s, t).Available
      BY <2>2 DEF FreeIn
    <3> QED BY <2>0, <3>1
  <2> QED BY <2>1, <2>2, AccountCases
<1> QED BY <1>1 DEF Rewrites

\* Redemption.
LEMMA RedeemRewrites ==
    ASSUME NEW s, Covers(s), NEW tokens, NEW r, r = ClearRedeemedPositions(s, tokens)
    PROVE  Rewrites(s, r)
<1>1. Covers(r) BY RedeemCovers
<1>2. /\ r.Available = s.Available /\ r.Tokens = Del(s.Tokens, tokens)
      /\ r.DailyPnL = s.DailyPnL /\ r.Provisionals = s.Provisionals
  BY DEF ClearRedeemedPositions, Covers, IsLedger
<1>3. ZeroPosition.Available = 0 BY DEF ZeroPosition
<1>4. ASSUME NEW t \in Tokens
      PROVE  \/ TokenAt(r, t).Available = TokenAt(s, t).Available
             \/ TokenAt(r, t).Available >= 0
  <2>1. CASE t \in DOMAIN r.Tokens
    <3>1. t \in DOMAIN s.Tokens /\ r.Tokens[t] = s.Tokens[t] BY <1>2, <2>1 DEF Del, Restrict
    <3> QED BY <2>1, <3>1 DEF TokenAt
  <2>2. CASE t \notin DOMAIN r.Tokens BY <1>3, <2>2 DEF TokenAt
  <2> QED BY <2>1, <2>2
<1> QED BY <1>1, <1>2, <1>4, PositionsRewrite

\* The second half of a reconcile pass.
LEMMA ReconcilePositionsRewrites ==
    ASSUME NEW s, Covers(s), NEW remote, IsMap(remote, Tokens, Nat),
           NEW r, r = reconcilePositions(s, remote)
    PROVE  Rewrites(s, r)
<1> DEFINE at(t) == IF t \notin DOMAIN s.Tokens THEN [ZeroPosition EXCEPT !.Available = remote[t]]
                    ELSE [s.Tokens[t] EXCEPT
                            !.Available = IF @ + s.Tokens[t].Reserved = remote[t] THEN @
                                          ELSE Max0(remote[t] - s.Tokens[t].Reserved)]
<1>1. Covers(r) BY ReconcilePositionsCovers
<1>2. /\ r.Available = s.Available /\ r.Tokens = [t \in DOMAIN remote |-> at(t)]
      /\ r.DailyPnL = s.DailyPnL /\ r.Provisionals = s.Provisionals
  BY DEF reconcilePositions, Covers, IsLedger
<1>3. ZeroPosition.Available = 0 BY DEF ZeroPosition
<1>4. ASSUME NEW t \in Tokens
      PROVE  \/ TokenAt(r, t).Available = TokenAt(s, t).Available
             \/ TokenAt(r, t).Available >= 0
  <2>1. CASE t \notin DOMAIN remote
    <3> HIDE DEF at
    <3> QED BY <1>2, <1>3, <2>1 DEF TokenAt
  <2>2. CASE t \in DOMAIN remote /\ t \notin DOMAIN s.Tokens
    <3>1. remote[t] \in Nat BY <2>2 DEF IsMap
    <3>2. TokenAt(r, t) = [ZeroPosition EXCEPT !.Available = remote[t]]
      BY <1>2, <2>2 DEF TokenAt
    <3>3. TokenAt(r, t).Available = remote[t] BY <3>2 DEF ZeroPosition
    <3> QED BY <3>1, <3>3
  <2>3. CASE t \in DOMAIN remote /\ t \in DOMAIN s.Tokens
    <3> DEFINE q == s.Tokens[t]
               n == IF q.Available + q.Reserved = remote[t] THEN q.Available
                    ELSE Max0(remote[t] - q.Reserved)
    <3>1. q \in TokenPosition /\ remote[t] \in Nat
      BY <2>3, LedgerParts DEF Covers, IsMap
    <3>2. TokenAt(r, t) = [q EXCEPT !.Available = n] /\ TokenAt(s, t) = q
      BY <1>2, <2>3 DEF TokenAt
    <3> HIDE DEF q, at
    <3>3. n = q.Available \/ n >= 0 BY <3>1 DEF TokenPosition, Max0
    <3> HIDE DEF n
    <3>4. TokenAt(r, t).Available = n BY <3>1, <3>2 DEF TokenPosition
    <3> QED BY <3>2, <3>3, <3>4
  <2> QED BY <2>1, <2>2, <2>3
<1> HIDE DEF at
<1> QED BY <1>1, <1>2, <1>4, PositionsRewrite

\* The ledgers the first loop of a reconcile pass goes through: orders are released.
Released(s) ==
    {v \in Ledgers : /\ Covers(v) /\ v.DailyPnL = s.DailyPnL /\ v.Provisionals = s.Provisionals
                     /\ DOMAIN v.Orders \subseteq DOMAIN s.Orders
                     /\ Gives(s, v)}

\* The ledgers its second loop goes through: orders are booked for the exchange.
Attached(s) ==
    {v \in Ledgers : /\ Covers(v) /\ v.DailyPnL = s.DailyPnL /\ v.Provisionals = s.Provisionals
                     /\ \A a \in Accounts : FreeIn(v, a) >= FreeIn(s, a) \/ BookedIn(s, v, a)}

\* The first loop.
LEMMA ReleasesGive ==
    ASSUME NEW s, Covers(s), NEW remote
    PROVE  ReleaseMissing(s, remote) \in Released(s)
<1>1. s \in Released(s) BY LedgerInSet, SameKeeps DEF Released, Keeps, Covers
<1>2. IsFiniteSet(DOMAIN s.Orders) BY DEF Covers, Funded
<1>3. ASSUME NEW v \in Released(s), NEW o PROVE ReleaseOrder(v, o) \in Released(s)
  <2> DEFINE r == ReleaseOrder(v, o)
  <2>1. /\ Covers(v) /\ Gives(s, v) /\ v.DailyPnL = s.DailyPnL
        /\ v.Provisionals = s.Provisionals /\ DOMAIN v.Orders \subseteq DOMAIN s.Orders
    BY DEF Released
  <2>2. /\ Covers(r) /\ Gives(v, r) /\ r.DailyPnL = v.DailyPnL
        /\ r.Provisionals = v.Provisionals /\ DOMAIN r.Orders \subseteq DOMAIN v.Orders
    BY <2>1, ReleaseOrderKeeps DEF Keeps
  <2> HIDE DEF r
  <2>3. r \in Ledgers BY <2>2, LedgerInSet DEF Covers
  <2>4. ASSUME NEW a \in Accounts PROVE FreeIn(r, a) >= FreeIn(s, a)
    <3>1. FreeIn(s, a) \in Int /\ FreeIn(v, a) \in Int /\ FreeIn(r, a) \in Int
      BY <2>1, <2>2, AccountsInt DEF Covers
    <3> QED BY <2>1, <2>2, <3>1 DEF Gives
  <2>5. Gives(s, r) BY <2>4 DEF Gives
  <2> QED BY <2>1, <2>2, <2>3, <2>5 DEF Released, r
<1> QED BY <1>1, <1>2, <1>3, ReleaseMissingStays

\* One order booked for the exchange.
LEMMA AttachExternalMoves ==
    ASSUME NEW s, Covers(s), NEW o \in Ids, NEW ro \in Remotes,
           NEW r, r = attachExternalLocked(s, o, ro), r # s
    PROVE  /\ Covers(r) /\ r.DailyPnL = s.DailyPnL /\ r.Provisionals = s.Provisionals
           /\ \E n : n.ExternalOrigin /\ r.Orders = Put(s.Orders, o, n)
           /\ \A a \in Accounts :
                a # Account(ro.Side, ro.TokenID) => FreeIn(r, a) = FreeIn(s, a)
<1> DEFINE n == NewReservation(ro.TokenID, ro.Side, ro.Price, ro.Remaining, TRUE)
           c == RequiredCollateral(ro.Side, ro.Price, ro.Remaining)
           d == Reserve(s, ro.Side, ro.TokenID, c)
           os == Put(s.Orders, o, n)
<1>0. IsLedger(s, Ids, Tokens) BY DEF Covers
<1>1. Covers(r) BY UnderOwn, AttachExternalCovers, InUnder
<1>2. /\ ro.Remaining > 0 /\ r = [d EXCEPT !.Orders = Put(@, o, n)]
  BY DEF attachExternalLocked
<1>3. ro.TokenID \in Tokens /\ ro.Side \in Sides /\ c \in Nat
  <2>1. /\ ro.TokenID \in Tokens /\ ro.Side \in Sides /\ ro.Price \in Nat /\ ro.Remaining \in Nat
    BY <1>2, OneAssumption DEF Remotes, Prices
  <2> QED BY <2>1 DEF RequiredCollateral
<1>4. n.ExternalOrigin BY DEF NewReservation
<1> HIDE DEF n, c
<1>5. IsLedger(d, Ids, Tokens) /\ d.Orders = s.Orders /\ d.Provisionals = s.Provisionals
  BY <1>0, <1>3, ReserveType
<1>6. d.DailyPnL = s.DailyPnL BY <1>0 DEF Reserve, SetToken, IsLedger
<1>7. \A a \in Accounts : FreeIn(d, a) = FreeIn(s, a) - Part(a, Account(ro.Side, ro.TokenID), c)
  BY <1>0, <1>3, ReserveAccounts
<1> HIDE DEF d
<1>8. /\ r.Available = d.Available /\ r.Reserved = d.Reserved /\ r.Tokens = d.Tokens
      /\ r.DailyPnL = s.DailyPnL /\ r.Provisionals = s.Provisionals /\ r.Orders = os
  BY <1>2, <1>5, <1>6 DEF IsLedger
<1>9. ASSUME NEW a \in Accounts, a # Account(ro.Side, ro.TokenID)
      PROVE  FreeIn(r, a) = FreeIn(s, a)
  <2>1. FreeIn(r, a) = FreeIn(d, a) BY <1>8, SameAccounts
  <2>2. FreeIn(s, a) \in Int BY <1>0, AccountsInt
  <2> QED BY <1>7, <1>9, <2>1, <2>2 DEF Part
<1> QED BY <1>1, <1>4, <1>8, <1>9

\* The second loop: of orders that trade on the terms they were placed with.
LEMMA AttachesBook ==
    ASSUME NEW s, Covers(s), NEW u \in Attached(s), NEW remote, NEW S, IsFiniteSet(S),
           S \cap DOMAIN s.Orders = {}, S \subseteq Ids,
           \A o \in S : remote[o] \in Remotes /\ Account(remote[o].Side, remote[o].TokenID) = DrawsOn(o)
    PROVE  AttachMissing(u, remote, S) \in Attached(s)
<1>1. ASSUME NEW v \in Attached(s), NEW o \in S
      PROVE  attachExternalLocked(v, o, remote[o]) \in Attached(s)
  <2> DEFINE r == attachExternalLocked(v, o, remote[o])
  <2>1. /\ Covers(v) /\ v.DailyPnL = s.DailyPnL /\ v.Provisionals = s.Provisionals
        /\ \A a \in Accounts : FreeIn(v, a) >= FreeIn(s, a) \/ BookedIn(s, v, a)
    BY DEF Attached
  <2>2. CASE r = v BY <2>2
  <2>3. CASE r # v
    <3>1. o \in Ids /\ remote[o] \in Remotes OBVIOUS
    <3>2. /\ Covers(r) /\ r.DailyPnL = v.DailyPnL /\ r.Provisionals = v.Provisionals
          /\ \E n : n.ExternalOrigin /\ r.Orders = Put(v.Orders, o, n)
          /\ \A a \in Accounts : a # DrawsOn(o) => FreeIn(r, a) = FreeIn(v, a)
      BY <2>1, <2>3, <3>1, AttachExternalMoves
    <3> HIDE DEF r
    <3>3. r \in Ledgers BY <3>2, LedgerInSet DEF Covers
    <3>4. PICK n : n.ExternalOrigin /\ r.Orders = Put(v.Orders, o, n) BY <3>2
    <3>5. /\ DOMAIN r.Orders = DOMAIN v.Orders \cup {o} /\ r.Orders[o] = n
          /\ \A x \in DOMAIN v.Orders : x # o => r.Orders[x] = v.Orders[x]
      BY <3>4 DEF Put
    <3>6. BookedIn(s, r, DrawsOn(o)) BY <3>4, <3>5 DEF BookedIn
    <3>7. ASSUME NEW a \in Accounts, BookedIn(s, v, a) PROVE BookedIn(s, r, a)
      <4>1. PICK x \in DOMAIN v.Orders \ DOMAIN s.Orders :
                v.Orders[x].ExternalOrigin /\ DrawsOn(x) = a
        BY <3>7 DEF BookedIn
      <4>2. x \in DOMAIN r.Orders \ DOMAIN s.Orders /\ r.Orders[x].ExternalOrigin
        BY <3>4, <3>5, <4>1
      <4> QED BY <4>1, <4>2 DEF BookedIn
    <3>8. \A a \in Accounts : FreeIn(r, a) >= FreeIn(s, a) \/ BookedIn(s, r, a)
      BY <2>1, <3>2, <3>6, <3>7
    <3> QED BY <2>1, <3>2, <3>3, <3>8 DEF Attached, r
  <2> QED BY <2>2, <2>3
<1> QED BY <1>1, AttachMissingStays

\* The first half of a reconcile pass.
LEMMA ReconcileOrdersRewrites ==
    ASSUME NEW s, Covers(s), NEW remote, IsMap(remote, Ids, Remotes),
           IsFiniteSet(DOMAIN remote),
           \A o \in DOMAIN remote : Account(remote[o].Side, remote[o].TokenID) = DrawsOn(o),
           NEW r, r = reconcileOrders(s, remote)
    PROVE  Rewrites(s, r)
<1> DEFINE open == {o \in DOMAIN remote : remote[o].Remaining > 0}
           S == open \ DOMAIN s.Orders
           d == ReleaseMissing(s, remote)
           os == [o \in DOMAIN d.Orders |->
                    IF o \notin open THEN d.Orders[o]
                    ELSE [d.Orders[o] EXCEPT !.RemainingSize = remote[o].Remaining,
                                             !.Price = remote[o].Price]]
           u == [d EXCEPT !.Orders = os]
<1>1. r = AttachMissing(u, remote, S) BY DEF reconcileOrders
<1>2. /\ Covers(d) /\ d.DailyPnL = s.DailyPnL /\ d.Provisionals = s.Provisionals
      /\ DOMAIN d.Orders \subseteq DOMAIN s.Orders /\ Gives(s, d)
  BY ReleasesGive DEF Released
<1>3. Covers(u)
  <2> HIDE DEF d
  <2> QED BY <1>2, UpdateCovers
<1> HIDE DEF d, os
<1>4. /\ u.Available = d.Available /\ u.Reserved = d.Reserved /\ u.Tokens = d.Tokens
      /\ u.DailyPnL = d.DailyPnL /\ u.Provisionals = d.Provisionals
  BY <1>2 DEF Covers, IsLedger
<1> HIDE DEF u
<1>5. \A a \in Accounts : FreeIn(u, a) >= FreeIn(s, a)
  BY <1>2, <1>4, SameAccounts DEF Gives
<1>6. u \in Attached(s) BY <1>2, <1>3, <1>4, <1>5, LedgerInSet DEF Attached, Covers
<1>7. S \subseteq DOMAIN remote /\ DOMAIN remote \subseteq Ids /\ S \cap DOMAIN s.Orders = {}
      /\ \A o \in S : remote[o] \in Remotes
  BY DEF IsMap
<1> HIDE DEF S
<1>8. IsFiniteSet(S) BY <1>7, FS_Subset
<1>9. r \in Attached(s) BY <1>1, <1>6, <1>7, <1>8, AttachesBook
<1> QED BY <1>9 DEF Attached, Rewrites

-----------------------------------------------------------------------------
(* The invariant.                                                          *)

\* While strategies are asked, no fill is booked, so the snapshot's loss is the
\* ledger's; and until the first of them has submitted, the accounts that nobody
\* lowered have at least what the snapshot shows.  With that, Check on the
\* snapshot is as good as a check on the ledger.
SnapshotHonest ==
    /\ turns > 0 => snap.DailyPnL = ledger.DailyPnL
    /\ turns = Strategies =>
            \A a \in Accounts \ lowered : FreeIn(snap, a) <= FreeIn(ledger, a)

\* An order that is provisionally reserved has been sent.
ReservedWasSent == \A i \in DOMAIN ledger.Provisionals : status[i] # "new"

Inv ==
    /\ TypeOK /\ Covers(ledger)
    /\ SnapshotHonest /\ ReservedWasSent
    /\ CheckedIsReserved

\* What a step may never do: the three action properties.
NothingNew == DOMAIN ledger'.Provisionals \subseteq DOMAIN ledger.Provisionals
Spends == \A a \in Accounts :
            FreeIn(ledger, a) >= 0 /\ FreeIn(ledger', a) < 0 => BookedBeyondFunds(a)
Touches == ledger.Available > MinBalance /\ ledger'.Available <= MinBalance => Unweighed
Safe == (Tripped => NothingNew) /\ Spends /\ Touches

\* The empty snapshot is a ledger.
LEMMA NewStateType == IsLedger(NewState, Ids, Tokens)
BY DEF NewState, IsLedger, IsMap

\* The first state satisfies the invariant.
LEMMA InitInv == Init => Inv
<1> SUFFICES ASSUME Init PROVE Inv OBVIOUS
<1>1. /\ Sound(ledger) /\ ledger.Reserved = 0 /\ DOMAIN ledger.Provisionals = {}
      /\ HeldBy(ledger, Balance) = 0
  BY OpeningSound DEF Init
<1>2. Covers(ledger) BY <1>1, SoundFunded DEF Covers, Sound
<1>3. TypeOK
  <2>1. IsLedger(ledger, Ids, Tokens) /\ IsLedger(snap, Ids, Tokens)
    BY <1>1, NewStateType DEF Sound, Init
  <2>2. /\ turns \in 0 .. Strategies
        /\ cooling \in [Markets -> 0 .. MarketCooldown]
        /\ today \in 1 .. LastDay /\ outside \in 0 .. MaxOutside
    BY RiskAssumption DEF Init
  <2> QED BY <2>1, <2>2 DEF Init, TypeOK
<1>4. SnapshotHonest BY RiskAssumption DEF Init, SnapshotHonest
<1>5. ReservedWasSent BY <1>1 DEF ReservedWasSent
<1>6. CheckedIsReserved BY DEF Init, CheckedIsReserved
<1> QED BY <1>2, <1>3, <1>4, <1>5, <1>6 DEF Inv

\* The balance as an account.
LEMMA BalanceAccount ==
    ASSUME NEW s PROVE Balance \in Accounts /\ FreeIn(s, Balance) = s.Available
BY DEF Accounts, FreeIn

\* A step that reserves nothing new and blames nobody.
LEMMA InvStep ==
    ASSUME Inv, TypeOK', Covers(ledger'), NothingNew, SnapshotHonest',
           \A i \in Ids : status[i] # "new" => status'[i] # "new",
           refused' = refused
    PROVE  Inv'
<1>1. DOMAIN ledger.Provisionals \subseteq Ids BY LedgerParts DEF Inv, Covers, IsMap
<1>2. ReservedWasSent' BY <1>1 DEF Inv, ReservedWasSent, NothingNew
<1>3. CheckedIsReserved' BY DEF Inv, CheckedIsReserved
<1> QED BY <1>2, <1>3 DEF Inv

\* A step that gives every account at least what it had.
LEMMA KeepingStep ==
    ASSUME Inv, TypeOK', Keeps(ledger, ledger'),
           \A i \in Ids : status[i] # "new" => status'[i] # "new",
           refused' = refused,
           \/ turns' = 0
           \/ /\ snap' = snap /\ lowered' = lowered /\ ledger'.DailyPnL = ledger.DailyPnL
              /\ turns' = turns \/ (turns' = turns - 1 /\ turns > 0)
    PROVE  Inv' /\ Safe
<1>0. /\ Strategies \in Nat \ {0} /\ MinBalance \in Nat /\ turns \in Nat /\ turns <= Strategies
      /\ Covers(ledger')
  BY RiskAssumption DEF Inv, TypeOK, Keeps
<1>1. ASSUME NEW a \in Accounts
      PROVE  /\ FreeIn(ledger', a) >= FreeIn(ledger, a)
             /\ FreeIn(ledger, a) \in Int /\ FreeIn(ledger', a) \in Int
  BY <1>0, AccountsInt DEF Inv, Covers, Keeps, Gives
<1>2. SnapshotHonest'
  <2>1. CASE turns' = 0 BY <1>0, <2>1 DEF SnapshotHonest
  <2>2. CASE /\ snap' = snap /\ lowered' = lowered /\ ledger'.DailyPnL = ledger.DailyPnL
             /\ turns' = turns \/ (turns' = turns - 1 /\ turns > 0)
    <3>1. turns' > 0 => snap'.DailyPnL = ledger'.DailyPnL
      BY <1>0, <2>2 DEF Inv, SnapshotHonest
    <3>2. ASSUME turns' = Strategies, NEW a \in Accounts \ lowered'
          PROVE  FreeIn(snap', a) <= FreeIn(ledger', a)
      <4>1. turns = Strategies BY <1>0, <2>2, <3>2
      <4>2. FreeIn(snap, a) <= FreeIn(ledger, a) BY <2>2, <4>1 DEF Inv, SnapshotHonest
      <4>3. FreeIn(snap, a) \in Int BY AccountsInt DEF Inv, TypeOK
      <4> QED BY <1>1, <2>2, <4>2, <4>3
    <3> QED BY <3>1, <3>2 DEF SnapshotHonest
  <2> QED BY <2>1, <2>2
<1>3. NothingNew BY DEF Keeps, NothingNew
<1>4. Spends BY <1>1 DEF Spends
<1>5. Touches
  <2>1. ledger'.Available >= ledger.Available
        /\ ledger.Available \in Int /\ ledger'.Available \in Int
    BY <1>1, BalanceAccount
  <2> QED BY <1>0, <2>1 DEF Touches
<1>6. Inv' BY <1>0, <1>2, <1>3, InvStep
<1> QED BY <1>3, <1>4, <1>5, <1>6 DEF Safe

\* A write from outside the engine.
LEMMA WriteStep ==
    ASSUME Inv, NEW after, Rewrites(ledger, after), Write(after),
           status' \in [Ids -> {"new", "sent", "open", "done", "rejected"}],
           \A i \in Ids : status[i] # "new" => status'[i] # "new"
    PROVE  Inv' /\ Safe
<1>0. /\ Strategies \in Nat \ {0} /\ turns \in Nat /\ MaxOutside \in Nat /\ outside \in Nat
      /\ outside < MaxOutside /\ outside' = outside + 1 /\ ledger' = after
      /\ UNCHANGED <<snap, turns, cooling, refused, today>>
      /\ lowered' = IF turns = 0 THEN {}
                    ELSE lowered \cup {a \in Accounts : FreeIn(after, a) < FreeIn(ledger, a)}
  BY RiskAssumption DEF Inv, TypeOK, Write
<1>1. /\ Covers(ledger') /\ ledger'.DailyPnL = ledger.DailyPnL
      /\ ledger'.Provisionals = ledger.Provisionals
  BY <1>0 DEF Rewrites
<1>2. ASSUME NEW a \in Accounts
      PROVE  /\ FreeIn(ledger, a) \in Int /\ FreeIn(ledger', a) \in Int /\ FreeIn(snap, a) \in Int
             /\ \/ FreeIn(ledger', a) >= FreeIn(ledger, a) \/ FreeIn(ledger', a) >= 0
                \/ BookedIn(ledger, ledger', a)
  <2>1. /\ IsLedger(ledger, Ids, Tokens) /\ IsLedger(ledger', Ids, Tokens)
        /\ IsLedger(snap, Ids, Tokens)
    BY <1>1 DEF Inv, TypeOK, Covers
  <2>2. FreeIn(ledger, a) \in Int /\ FreeIn(ledger', a) \in Int /\ FreeIn(snap, a) \in Int
    BY <2>1, AccountsInt
  <2> QED BY <1>0, <2>2 DEF Rewrites
<1>3. TypeOK'
  <2>1. lowered' \subseteq Accounts BY <1>0 DEF Inv, TypeOK
  <2>2. outside' \in 0 .. MaxOutside BY <1>0
  <2> QED BY <1>0, <1>1, <2>1, <2>2 DEF Inv, TypeOK, Covers
<1>4. SnapshotHonest'
  <2>1. turns' > 0 => snap'.DailyPnL = ledger'.DailyPnL
    BY <1>0, <1>1 DEF Inv, SnapshotHonest
  <2>2. ASSUME turns' = Strategies, NEW a \in Accounts \ lowered'
        PROVE  FreeIn(snap', a) <= FreeIn(ledger', a)
    <3>1. turns = Strategies /\ a \notin lowered /\ ~ (FreeIn(ledger', a) < FreeIn(ledger, a))
      BY <1>0, <2>2
    <3>2. FreeIn(snap, a) <= FreeIn(ledger, a) BY <3>1 DEF Inv, SnapshotHonest
    <3> QED BY <1>0, <1>2, <3>1, <3>2
  <2> QED BY <2>1, <2>2 DEF SnapshotHonest
<1>5. NothingNew BY <1>1 DEF NothingNew
<1>6. Inv' BY <1>0, <1>1, <1>3, <1>4, <1>5, InvStep
<1>7. Spends BY <1>2 DEF Spends, BookedBeyondFunds, BookedIn
<1>8. Touches BY <1>0 DEF Touches, Unweighed
<1> QED BY <1>5, <1>6, <1>7, <1>8 DEF Safe

\* A batch that Check lets through on an honest snapshot of the first turn finds
\* its funds in every account that nobody lowered.
LEMMA CheckMeansEnough ==
    ASSUME Inv, NEW batch \in Batches, NEW mids, turns > 0, turns = Strategies,
           Fresh(batch), Check(batch, snap, mids)
    PROVE  /\ Enough(ledger, batch, lowered)
           /\ Balance \notin lowered /\ ledger.Available > MinBalance
                => ledger.Available - BuyRequired(batch) > MinBalance
<1>1. ASSUME NEW n \in PlacedIn(batch) PROVE batch[n].OrderID \notin DOMAIN ledger.Provisionals
  <2>1. batch[n].Action = "PLACE" /\ n \in DOMAIN batch BY DEF PlacedIn
  <2>2. batch[n] \in Range(batch) BY <2>1 DEF Range
  <2>3. status[batch[n].OrderID] = "new" BY <2>1, <2>2 DEF Fresh
  <2> QED BY <2>3 DEF Inv, ReservedWasSent
<1>2. ASSUME NEW a \in Accounts \ lowered
      PROVE  /\ FreeIn(snap, a) \in Int /\ FreeIn(ledger, a) \in Int
             /\ FreeIn(snap, a) <= FreeIn(ledger, a)
  BY AccountsInt DEF Inv, TypeOK, SnapshotHonest
<1>3. ASSUME NEW a \in Accounts PROVE SumOver(Cost(batch, a), DOMAIN batch) \in Nat
  <2>1. CASE DOMAIN batch = {}
    <3>1. SumOver(Cost(batch, a), DOMAIN batch) = 0 BY <2>1, SumEmpty
    <3> QED BY <3>1
  <2>2. CASE DOMAIN batch # {}
    <3>1. PICK k \in DOMAIN batch : TRUE BY <2>2
    <3> QED BY <3>1, CostSums
  <2> QED BY <2>1, <2>2
<1>4. BuyRequired(batch) = SumOver(Cost(batch, Balance), DOMAIN batch) /\ BuyRequired(batch) \in Nat
  BY <1>3, RequiredIsSum, BalanceAccount
<1>5. ASSUME NEW a \in Accounts \ lowered
      PROVE  \/ SumOver(Cost(batch, a), DOMAIN batch) = 0
             \/ FreeIn(ledger, a) >= SumOver(Cost(batch, a), DOMAIN batch)
  <2>1. CASE a = Balance
    <3>1. BuyRequired(batch) > 0 => snap.Available >= BuyRequired(batch)
      BY DEF Check, BalanceAllows
    <3>2. FreeIn(snap, a) = snap.Available BY <2>1, BalanceAccount
    <3> QED BY <1>2, <1>4, <2>1, <3>1, <3>2
  <2>2. ASSUME NEW t \in Tokens, a = PositionIn(t), a # Balance, a[2] = t
        PROVE  \/ SumOver(Cost(batch, a), DOMAIN batch) = 0
               \/ FreeIn(ledger, a) >= SumOver(Cost(batch, a), DOMAIN batch)
    <3>1. SellRequired(batch, t) > 0 => TokenAt(snap, t).Available >= SellRequired(batch, t)
      BY DEF Check, PositionAllows
    <3>2. FreeIn(snap, a) = TokenAt(snap, t).Available BY <2>2 DEF FreeIn
    <3>3. SellRequired(batch, t) = SumOver(Cost(batch, a), DOMAIN batch)
      BY <2>2, RequiredIsSum
    <3> QED BY <1>2, <1>3, <3>1, <3>2, <3>3
  <2> QED BY <2>1, <2>2, AccountCases
<1>6. ASSUME Balance \notin lowered, ledger.Available > MinBalance
      PROVE  ledger.Available - BuyRequired(batch) > MinBalance
  <2>1. snap.Available \in Int /\ ledger.Available \in Int /\ snap.Available <= ledger.Available
    BY <1>2, <1>6, BalanceAccount
  <2>2. BuyRequired(batch) > 0 => snap.Available - BuyRequired(batch) > MinBalance
    BY DEF Check, BalanceAllows
  <2>3. MinBalance \in Nat BY RiskAssumption
  <2> QED BY <1>4, <1>6, <2>1, <2>2, <2>3
<1> QED BY <1>1, <1>5, <1>6 DEF Enough

\* A batch: refused as a whole, or every intent's reservation, in one step.
LEMMA SubmitStep ==
    ASSUME Inv, NEW batch \in Batches, NEW mids \in MidPrices, submitIntents(batch, mids)
    PROVE  Inv' /\ Safe
<1>0. /\ Strategies \in Nat \ {0} /\ MinBalance \in Nat /\ MarketCooldown \in Nat
      /\ turns \in Nat /\ turns <= Strategies /\ turns > 0
      /\ today' = today /\ outside' = outside
      /\ TypeOK /\ Covers(ledger)
  BY RiskAssumption DEF Inv, TypeOK, submitIntents
<1>1. CASE /\ Turn(0)
           /\ UNCHANGED <<ledger, cooling, status, refused>>
  <2>1. turns' = 0 /\ snap' = NewState /\ lowered' = {} BY <1>1 DEF Turn
  <2>2. TypeOK' BY <1>0, <1>1, <2>1, NewStateType DEF TypeOK
  <2>3. Keeps(ledger, ledger') BY <1>0, <1>1, SameKeeps
  <2> QED BY <1>0, <1>1, <2>1, <2>2, <2>3, KeepingStep
<1> DEFINE r == FoldLeft(reserveIntent, Start(ledger), batch)
           first == turns = Strategies
<1>2. CASE /\ Check(batch, snap, mids)
           /\ ledger' = r.st
           /\ status' = [o \in Ids |-> IF o \in r.sent THEN "sent" ELSE status[o]]
           /\ refused' = refused \cup {o \in r.failed : first /\ DrawsOn(o) \notin lowered}
           /\ cooling' = [m \in Markets |->
                            IF \E n \in PlacedIn(batch) : MarketOf(batch[n].OrderID) = m
                            THEN MarketCooldown ELSE cooling[m]]
           /\ Turn(turns - 1)
  <2>1. /\ Progress(ledger, batch, r, Len(batch))
        /\ Enough(ledger, batch, lowered) => FailedIn(r, lowered)
    BY <1>0, LoopProgress
  <2>2. DOMAIN batch = 1 .. Len(batch) BY IntentType
  <2> HIDE DEF r
  <2>3. /\ Covers(ledger') /\ r.sent \subseteq Ids /\ r.failed \subseteq Ids
        /\ ledger'.DailyPnL = ledger.DailyPnL
    BY <1>2, <2>1 DEF Progress
  <2>4. /\ turns' = turns - 1 /\ turns' \in 0 .. Strategies /\ turns' # Strategies
        /\ turns' > 0 => snap' = snap
        /\ IsLedger(snap', Ids, Tokens) /\ lowered' \subseteq Accounts
    BY <1>0, <1>2, NewStateType DEF Turn, TypeOK
  <2>5. cooling' \in [Markets -> 0 .. MarketCooldown]
    <3>1. \A m \in Markets : cooling[m] \in 0 .. MarketCooldown BY <1>0 DEF TypeOK
    <3>2. MarketCooldown \in 0 .. MarketCooldown BY <1>0
    <3> QED BY <1>2, <3>1, <3>2
  <2>6. status' \in [Ids -> {"new", "sent", "open", "done", "rejected"}]
    BY <1>0, <1>2 DEF TypeOK
  <2>7. refused' \subseteq Ids BY <1>0, <1>2, <2>3 DEF TypeOK
  <2>8. TypeOK'
    BY <1>0, <2>3, <2>4, <2>5, <2>6, <2>7 DEF TypeOK, Covers
  <2>9. SnapshotHonest'
    BY <1>0, <2>3, <2>4 DEF Inv, SnapshotHonest
  <2>10. ReservedWasSent'
    <3> SUFFICES ASSUME NEW i \in DOMAIN ledger'.Provisionals PROVE status'[i] # "new"
      BY DEF ReservedWasSent
    <3>1. i \in Ids BY <2>3, LedgerParts DEF Covers, IsMap
    <3>2. i \in DOMAIN ledger.Provisionals \/ i \in r.sent BY <1>2, <2>1 DEF Progress
    <3> QED BY <1>2, <3>1, <3>2 DEF Inv, ReservedWasSent
  <2>11. CheckedIsReserved'
    <3>1. CASE first
      <4>1. Enough(ledger, batch, lowered)
        BY <1>0, <1>2, <3>1, CheckMeansEnough DEF submitIntents
      <4> QED BY <1>2, <2>1, <4>1 DEF Inv, CheckedIsReserved, FailedIn
    <3>2. CASE ~ first BY <1>2, <3>2 DEF Inv, CheckedIsReserved
    <3> QED BY <3>1, <3>2
  <2>12. ASSUME NEW a \in Accounts
         PROVE  /\ FreeIn(ledger, a) \in Int /\ FreeIn(ledger', a) \in Int
                /\ FreeIn(ledger', a) >= FreeIn(ledger, a) - SumOver(Cost(batch, a), 1 .. Len(batch))
                /\ FreeIn(ledger', a) >= FreeIn(ledger, a) \/ FreeIn(ledger', a) >= 0
    <3>1. FreeIn(ledger, a) \in Int /\ FreeIn(ledger', a) \in Int
      BY <1>0, <2>3, AccountsInt DEF Covers
    <3> QED BY <1>2, <2>1, <3>1 DEF Progress
  <2>13. Spends BY <2>12 DEF Spends
  <2>14. Touches
    <3> SUFFICES ASSUME ledger.Available > MinBalance, ledger'.Available <= MinBalance
                 PROVE  Unweighed
      BY DEF Touches
    <3>1. CASE ~ first BY <1>0, <3>1 DEF Unweighed
    <3>2. CASE first /\ Balance \in lowered BY <3>2 DEF Unweighed
    <3>3. CASE first /\ Balance \notin lowered
      <4>1. ledger.Available - BuyRequired(batch) > MinBalance
        BY <1>0, <1>2, <3>3, CheckMeansEnough DEF submitIntents
      <4>2. /\ ledger'.Available >= ledger.Available - BuyRequired(batch)
            /\ ledger.Available \in Int /\ ledger'.Available \in Int
        BY <2>2, <2>12, RequiredIsSum, BalanceAccount
      <4>3. BuyRequired(batch) \in Int
        <5>0. Len(batch) \in Nat BY IntentType
        <5>1. IsFiniteSet(DOMAIN batch) BY ONLY <2>2, <5>0, FS_Interval
        <5>2. \A n \in DOMAIN batch : Cost(batch, Balance)[n] \in Int
          BY CostType, BalanceAccount
        <5> QED BY <5>1, <5>2, SumType, RequiredIsSum
      <4> QED BY <1>0, <4>1, <4>2, <4>3
    <3> QED BY <3>1, <3>2, <3>3
  <2>15. Tripped => NothingNew
    <3> SUFFICES ASSUME Tripped PROVE NothingNew OBVIOUS
    <3>1. snap.DailyPnL = ledger.DailyPnL BY <1>0 DEF Inv, SnapshotHonest
    <3>2. \A in \in Range(batch) : in.Action = "CANCEL"
      BY <1>2, <3>1 DEF Check, LossAllows, Tripped
    <3>3. \A n \in 1 .. Len(batch) : batch[n].Action = "CANCEL" BY <2>2, <3>2 DEF Range
    <3>4. ledger' = ledger BY <1>2, <2>1, <3>3 DEF Progress
    <3> QED BY <3>4 DEF NothingNew
  <2>16. Inv' BY <2>3, <2>8, <2>9, <2>10, <2>11 DEF Inv
  <2> QED BY <2>13, <2>14, <2>15, <2>16 DEF Safe
<1> QED BY <1>1, <1>2 DEF submitIntents, Start

\* A confirmation; of an order without a provisional Check has not weighed it.
LEMMA AcceptStep ==
    ASSUME Inv, NEW o \in Ids, NEW i, Accept(o, i)
    PROVE  Inv' /\ Safe
<1> DEFINE q == Order[o]
           r == AttachOrder(ledger, i, o, q.TokenID, q.Side, q.Price, q.RequestedSize)
<1>0. /\ TypeOK /\ Covers(ledger) /\ Strategies \in Nat \ {0} /\ MinBalance \in Nat
  BY RiskAssumption DEF Inv
<1>1. /\ turns = 0 /\ ledger' = r.st
      /\ status' = [status EXCEPT ![o] = "open"]
      /\ UNCHANGED <<snap, turns, cooling, outside, lowered, refused, today>>
  BY DEF Accept
<1>2. \A x \in Ids : status[x] # "new" => status'[x] # "new" BY <1>0, <1>1 DEF TypeOK
<1>3. \/ Keeps(ledger, r.st)
      \/ /\ Covers(r.st) /\ o \in DOMAIN r.st.Orders \ DOMAIN ledger.Orders
         /\ DOMAIN r.st.Provisionals = DOMAIN ledger.Provisionals
         /\ \A a \in Accounts : FreeIn(r.st, a) >= FreeIn(ledger, a) \/ FreeIn(r.st, a) >= 0
  BY <1>0, AttachKeeps
<1> HIDE DEF r, q
<1>4. TypeOK'
  <2>1. IsLedger(ledger', Ids, Tokens) BY <1>1, <1>3 DEF Keeps, Covers
  <2> QED BY <1>0, <1>1, <2>1 DEF TypeOK
<1>5. CASE Keeps(ledger, r.st)
  BY <1>1, <1>2, <1>4, <1>5, KeepingStep
<1>6. CASE /\ Covers(r.st) /\ o \in DOMAIN r.st.Orders \ DOMAIN ledger.Orders
           /\ DOMAIN r.st.Provisionals = DOMAIN ledger.Provisionals
           /\ \A a \in Accounts : FreeIn(r.st, a) >= FreeIn(ledger, a) \/ FreeIn(r.st, a) >= 0
  <2>1. SnapshotHonest' BY <1>0, <1>1 DEF SnapshotHonest
  <2>2. NothingNew BY <1>1, <1>6 DEF NothingNew
  <2>3. ASSUME NEW a \in Accounts
        PROVE  /\ FreeIn(ledger, a) \in Int /\ FreeIn(ledger', a) \in Int
               /\ FreeIn(ledger', a) >= FreeIn(ledger, a) \/ FreeIn(ledger', a) >= 0
    <3>1. FreeIn(ledger, a) \in Int /\ FreeIn(ledger', a) \in Int
      BY <1>0, <1>1, <1>6, AccountsInt DEF Covers
    <3> QED BY <1>1, <1>6, <3>1
  <2>4. Spends BY <2>3 DEF Spends
  <2>5. Touches BY <1>1, <1>6 DEF Touches, Unweighed
  <2>6. Inv' BY <1>1, <1>2, <1>4, <1>6, <2>1, <2>2, InvStep
  <2> QED BY <2>2, <2>4, <2>5, <2>6 DEF Safe
<1> QED BY <1>3, <1>5, <1>6

\* The open orders of a reconcile pass, as the exchange tells them.
LEMMA RemoteOrders ==
    ASSUME NEW open \in SUBSET (Ids \ LegIds), NEW remote,
           remote = [o \in open |-> [TokenID |-> Order[o].TokenID, Side |-> Order[o].Side,
                                     Price |-> Order[o].Price,
                                     Remaining |-> Order[o].RequestedSize]]
    PROVE  /\ IsMap(remote, Ids, Remotes) /\ IsFiniteSet(DOMAIN remote)
           /\ \A o \in DOMAIN remote : Account(remote[o].Side, remote[o].TokenID) = DrawsOn(o)
<1>1. ASSUME NEW o \in open
      PROVE  remote[o] \in Remotes /\ Account(remote[o].Side, remote[o].TokenID) = DrawsOn(o)
  <2>1. /\ Order[o].TokenID \in Tokens /\ Order[o].Side \in Sides /\ Order[o].Price \in Prices
        /\ Order[o].RequestedSize \in Int
    BY TermsType
  <2> QED BY <2>1 DEF Remotes, DrawsOn
<1>2. DOMAIN remote = open /\ open \subseteq Ids OBVIOUS
<1>3. IsFiniteSet(open) BY <1>2, RiskAssumption, FS_Subset
<1>4. remote \in [open -> Remotes] BY <1>1
<1> QED BY <1>1, <1>2, <1>3, <1>4 DEF IsMap

\* No step breaks the invariant, or does what a step may never do.
LEMMA StepInv == Inv /\ [Next]_vars => Inv' /\ Safe
<1> SUFFICES ASSUME Inv, [Next]_vars PROVE Inv' /\ Safe OBVIOUS
<1>0. /\ Strategies \in Nat \ {0} /\ MarketCooldown \in Nat /\ LastDay \in Nat
      /\ turns \in Nat /\ turns <= Strategies /\ today \in Nat
      /\ TypeOK /\ Covers(ledger)
  BY RiskAssumption DEF Inv, TypeOK
<1>1. ASSUME ledger' = ledger PROVE Keeps(ledger, ledger') /\ NothingNew /\ Safe
  <2>1. Keeps(ledger, ledger') BY <1>0, <1>1, SameKeeps
  <2>2. \A a \in Accounts : FreeIn(ledger, a) \in Int BY <1>0, AccountsInt DEF Covers
  <2>3. ledger.Available \in Int /\ MinBalance \in Nat
    BY <1>0, LedgerParts, RiskAssumption DEF Covers
  <2>4. NothingNew BY <1>1 DEF NothingNew
  <2>5. Spends BY <1>1, <2>2 DEF Spends
  <2>6. Touches BY <1>1, <2>3 DEF Touches
  <2> QED BY <2>1, <2>4, <2>5, <2>6 DEF Safe
<1>2. CASE Wake
  <2>1. ledger' = ledger /\ status' = status /\ refused' = refused /\ snap' = ledger'
    BY <1>2 DEF Wake
  <2>2. TypeOK' BY <1>0, <1>2 DEF Wake, TypeOK
  <2>3. SnapshotHonest'
    <3>1. \A a \in Accounts : FreeIn(ledger', a) \in Int BY <2>2, AccountsInt DEF TypeOK
    <3> QED BY <2>1, <3>1 DEF SnapshotHonest
  <2>4. Covers(ledger') BY <1>0, <2>1
  <2>5. Inv' BY <1>1, <2>1, <2>2, <2>3, <2>4, InvStep
  <2> QED BY <1>1, <2>1, <2>5
<1>3. CASE Pass
  <2>1. /\ ledger' = ledger /\ status' = status /\ refused' = refused
        /\ turns > 0 /\ turns' = turns - 1
        /\ turns' = 0 \/ (snap' = snap /\ lowered' = lowered)
        /\ snap' = snap \/ snap' = NewState
        /\ lowered' = lowered \/ lowered' = {}
        /\ UNCHANGED <<cooling, outside, today>>
    BY <1>3 DEF Pass, Turn
  <2>2. TypeOK' BY <1>0, <2>1, NewStateType DEF TypeOK
  <2>3. Keeps(ledger, ledger') BY <1>1, <2>1
  <2> QED BY <2>1, <2>2, <2>3, KeepingStep
<1>4. ASSUME NEW batch \in Batches, NEW mids \in MidPrices, submitIntents(batch, mids)
      PROVE  Inv' /\ Safe
  BY <1>4, SubmitStep
<1>5. ASSUME NEW o \in Ids, NEW i, Accept(o, i) PROVE Inv' /\ Safe
  BY <1>5, AcceptStep
<1>6. ASSUME NEW o \in Ids, NEW st \in {"done", "rejected"}, Keeps(ledger, ledger'), turns = 0,
             status' = [status EXCEPT ![o] = st],
             UNCHANGED <<snap, turns, cooling, outside, lowered, refused, today>>
      PROVE  Inv' /\ Safe
  <2>1. IsLedger(ledger', Ids, Tokens) BY <1>6 DEF Keeps, Covers
  <2>2. status' \in [Ids -> {"new", "sent", "open", "done", "rejected"}]
    BY <1>0, <1>6 DEF TypeOK
  <2>3. TypeOK' BY <1>0, <1>6, <2>1, <2>2 DEF TypeOK
  <2>4. \A x \in Ids : status[x] # "new" => status'[x] # "new" BY <1>0, <1>6 DEF TypeOK
  <2> QED BY <1>6, <2>3, <2>4, KeepingStep
<1>7. ASSUME NEW o \in Ids, Reject(o) PROVE Inv' /\ Safe
  <2>1. Keeps(ledger, ledger') BY <1>0, <1>7, ReleaseProvisionalKeeps DEF Reject
  <2> QED BY <1>6, <1>7, <2>1 DEF Reject
<1>8. ASSUME NEW o \in Ids, Cancelled(o) PROVE Inv' /\ Safe
  <2>1. Keeps(ledger, ledger') BY <1>0, <1>8, ReleaseOrderKeeps DEF Cancelled
  <2> QED BY <1>6, <1>8, <2>1 DEF Cancelled
<1>9. ASSUME NEW o \in Ids, NEW price \in FillPrices, Fill(o, price)
      PROVE  Inv' /\ Safe
  <2>1. price \in Nat BY RiskAssumption DEF Prices
  <2>2. Keeps(ledger, ledger') BY <1>0, <1>9, <2>1, FillKeeps DEF Fill
  <2> QED BY <1>6, <1>9, <2>2 DEF Fill
<1>10. ASSUME Keeps(ledger, ledger'), ledger'.DailyPnL = ledger.DailyPnL,
              cooling' \in [Markets -> 0 .. MarketCooldown], today' \in 1 .. LastDay,
              UNCHANGED <<snap, turns, status, outside, lowered, refused>>
       PROVE  Inv' /\ Safe
  <2>1. TypeOK' BY <1>0, <1>10 DEF TypeOK, Covers, Keeps
  <2> QED BY <1>10, <2>1, KeepingStep
<1>11. CASE Cleanup
  <2>1. Keeps(ledger, ledger') /\ ledger'.DailyPnL = ledger.DailyPnL
    BY <1>0, <1>11, CleanupKeeps DEF Cleanup
  <2> QED BY <1>0, <1>10, <1>11, <2>1 DEF Cleanup, TypeOK
<1>12. CASE Tick
  <2>1. Keeps(ledger, ledger') /\ ledger'.DailyPnL = ledger.DailyPnL
    BY <1>0, <1>12, ElapseKeeps DEF Tick
  <2>2. cooling' \in [Markets -> 0 .. MarketCooldown]
    <3>1. \A n \in 0 .. MarketCooldown : Max0(n - 1) \in 0 .. MarketCooldown
      BY <1>0 DEF Max0
    <3>2. \A m \in Markets : cooling[m] \in 0 .. MarketCooldown BY <1>0 DEF TypeOK
    <3> QED BY <1>12, <3>1, <3>2 DEF Tick
  <2> QED BY <1>0, <1>10, <1>12, <2>1, <2>2 DEF Tick, TypeOK
<1>13. CASE Midnight
  <2>1. ledger' = ledger /\ today' \in 1 .. LastDay BY <1>0, <1>13 DEF Midnight, TypeOK
  <2>2. Keeps(ledger, ledger') BY <1>1, <2>1
  <2> QED BY <1>0, <1>10, <1>13, <2>1, <2>2 DEF Midnight, TypeOK
<1>14. ASSUME NEW after, Rewrites(ledger, after), Write(after), status' = status
       PROVE  Inv' /\ Safe
  <2>1. status' \in [Ids -> {"new", "sent", "open", "done", "rejected"}]
    BY <1>0, <1>14 DEF TypeOK
  <2> QED BY <1>14, <2>1, WriteStep
<1>15. ASSUME NEW total \in OnchainTotals, Sync(total) PROVE Inv' /\ Safe
  <2>1. total \in Int BY RiskAssumption
  <2>2. Rewrites(ledger, ReconcileOnchainBalance(ledger, total)) BY <1>0, <2>1, SyncRewrites
  <2> QED BY <1>14, <1>15, <2>2 DEF Sync
<1>16. ASSUME NEW open \in SUBSET (Ids \ LegIds), ReconcileOrders(open) PROVE Inv' /\ Safe
  <2> DEFINE remote == [o \in open |-> [TokenID |-> Order[o].TokenID, Side |-> Order[o].Side,
                                        Price |-> Order[o].Price,
                                        Remaining |-> Order[o].RequestedSize]]
  <2>1. /\ IsMap(remote, Ids, Remotes) /\ IsFiniteSet(DOMAIN remote)
        /\ \A o \in DOMAIN remote : Account(remote[o].Side, remote[o].TokenID) = DrawsOn(o)
    BY RemoteOrders
  <2>2. /\ Write(reconcileOrders(ledger, remote))
        /\ status' = [o \in Ids |->
                        IF o \in open /\ status[o] = "new" THEN "open" ELSE status[o]]
    BY <1>16 DEF ReconcileOrders
  <2> HIDE DEF remote
  <2>3. Rewrites(ledger, reconcileOrders(ledger, remote))
    BY <1>0, <2>1, ReconcileOrdersRewrites
  <2>4. /\ status' \in [Ids -> {"new", "sent", "open", "done", "rejected"}]
        /\ \A i \in Ids : status[i] # "new" => status'[i] # "new"
    BY <1>0, <2>2 DEF TypeOK
  <2> QED BY <2>2, <2>3, <2>4, WriteStep
<1>17. ASSUME NEW held \in PositionReports, ReconcilePositions(held) PROVE Inv' /\ Safe
  <2>1. IsMap(held, Tokens, Nat) BY RiskAssumption
  <2>2. Rewrites(ledger, reconcilePositions(ledger, held))
    BY <1>0, <2>1, ReconcilePositionsRewrites
  <2> QED BY <1>14, <1>17, <2>2 DEF ReconcilePositions
<1>18. ASSUME NEW tokens, Redeem(tokens) PROVE Inv' /\ Safe
  <2>1. Rewrites(ledger, ClearRedeemedPositions(ledger, tokens)) BY <1>0, RedeemRewrites
  <2> QED BY <1>14, <1>18, <2>1 DEF Redeem
<1>19. CASE UNCHANGED vars
  <2>1. ledger' = ledger /\ UNCHANGED <<snap, turns, cooling, status, outside, lowered, refused, today>>
    BY <1>19 DEF vars
  <2>2. Keeps(ledger, ledger') BY <1>1, <2>1
  <2> QED BY <1>0, <1>10, <2>1, <2>2 DEF TypeOK
<1> QED
  BY <1>2, <1>3, <1>4, <1>5, <1>7, <1>8, <1>9, <1>11, <1>12, <1>13, <1>15, <1>16, <1>17, <1>18,
     <1>19
     DEF Next

\* The invariant holds in every reachable state.
LEMMA RiskInv == Spec => []Inv
BY InitInv, StepInv, PTL DEF Spec

-----------------------------------------------------------------------------
\* The engine's state is well formed.
THEOREM RiskType == Spec => []TypeOK
<1>1. Inv => TypeOK BY DEF Inv
<1> QED BY <1>1, RiskInv, PTL

\* However many strategies are told by one snapshot that the money is there, and
\* whatever sync, reconcile and redemption write meanwhile, no account is overdrawn
\* but by an order that reconcile books for the exchange.
THEOREM RiskNeverOverdraws == Spec => NoOverdraft
<1>1. Inv /\ [Next]_vars => [Spends]_vars BY StepInv DEF Safe
<1>2. NoOverdraft <=> [][Spends]_vars BY DEF NoOverdraft, Spends
<1> HIDE DEF Spends
<1> QED BY <1>1, <1>2, RiskInv, PTL DEF Spec

\* What Check lets through as a whole on the event's snapshot is reserved intent
\* by intent, whatever expires between the snapshot and the reservation, in every
\* account that no writer outside the engine lowered in between.
THEOREM RiskCheckedIsReserved == Spec => []CheckedIsReserved
<1>1. Inv => CheckedIsReserved BY DEF Inv
<1> QED BY <1>1, RiskInv, PTL

\* No step but the named ones takes the balance to the minimum or below.
THEOREM RiskMinReserveKept == Spec => MinReserveKept
<1>1. Inv /\ [Next]_vars => [Touches]_vars BY StepInv DEF Safe
<1>2. MinReserveKept <=> [][Touches]_vars BY DEF MinReserveKept, Touches
<1> HIDE DEF Touches
<1> QED BY <1>1, <1>2, RiskInv, PTL DEF Spec

\* Once the day's loss reaches the cap, no step reserves for a new order, in
\* whichever batch and by whichever strategy it comes.
THEOREM RiskLossStopsTrading == Spec => LossStopsTrading
<1> DEFINE Stops == MaxDailyLoss > 0 /\ - ledger.DailyPnL >= MaxDailyLoss
                        => DOMAIN ledger'.Provisionals \subseteq DOMAIN ledger.Provisionals
<1>1. Inv /\ [Next]_vars => [Stops]_vars BY StepInv DEF Safe, Tripped, NothingNew
<1>2. LossStopsTrading <=> [][Stops]_vars BY DEF LossStopsTrading
<1> HIDE DEF Stops
<1> QED BY <1>1, <1>2, RiskInv, PTL DEF Spec
=============================================================================
