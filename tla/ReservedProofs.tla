--------------------------- MODULE ReservedProofs ---------------------------
(***************************************************************************)
(* The balance's Reserved covers what the BUY reservations hold, whatever  *)
(* operation of the ledger runs: the ones that check for funds and the     *)
(* ones that do not (reconcile, Restore), on a solvent ledger or not.      *)
(***************************************************************************)
EXTENDS ReconcileOps, LedgerOpsProofs

\* The balance's Reserved is at least the sum of the BUY reservations.
Covers(s) ==
    /\ IsLedger(s, Ids, Tokens)
    /\ Funded(s.Orders) /\ Funded(s.Provisionals)
    /\ HeldBy(s, Balance) <= s.Reserved

-----------------------------------------------------------------------------
(* Loops over a finite set.                                                *)

\* g[T] is what a loop over T computes that takes the elements c chooses, one after
\* the other: base is the value at the start, F[<<x, v>>] what v becomes with x.
Loops(g, S, c, base, F) == \A T \in SUBSET S :
    g[T] = IF T = {} THEN base ELSE F[<<c[T], g[T \ {c[T]}]>>]

\* A loop over a finite set has a value for every subset.
LEMMA LoopExists ==
    ASSUME NEW S, IsFiniteSet(S), NEW c, \A T \in SUBSET S : T # {} => c[T] \in T,
           NEW L, NEW base \in L, NEW F, \A x \in S : \A v \in L : F[<<x, v>>] \in L
    PROVE  \E g \in [SUBSET S -> L] : Loops(g, S, c, base, F)
<1> DEFINE step(g, T) == IF T = {} THEN base ELSE F[<<c[T], g[T \ {c[T]}]>>]
           upTo(g, n) == \A T \in SUBSET S : Cardinality(T) <= n => g[T] = step(g, T)
           K == {n \in Nat : \E g \in [SUBSET S -> L] : upTo(g, n)}
<1>1. \A T \in SUBSET S : IsFiniteSet(T) /\ Cardinality(T) \in Nat
  BY FS_Subset, FS_CardinalityType
<1>2. ASSUME NEW T \in SUBSET S, T # {}
      PROVE  /\ c[T] \in S /\ T \ {c[T]} \in SUBSET S
             /\ Cardinality(T \ {c[T]}) = Cardinality(T) - 1
  <2>1. c[T] \in T BY <1>2
  <2> QED BY <1>1, <2>1, FS_RemoveElement
<1>3. 0 \in K
  <2> DEFINE g == [T \in SUBSET S |-> base]
  <2>1. g \in [SUBSET S -> L] OBVIOUS
  <2>2. upTo(g, 0)
    <3> SUFFICES ASSUME NEW T \in SUBSET S, Cardinality(T) <= 0 PROVE g[T] = step(g, T)
      OBVIOUS
    <3>1. T = {} BY <1>1, FS_EmptySet
    <3> QED BY <3>1
  <2> QED BY <2>1, <2>2
<1>4. ASSUME NEW n \in Nat, n \in K PROVE n + 1 \in K
  <2>1. PICK g \in [SUBSET S -> L] : upTo(g, n) BY <1>4
  <2> DEFINE h == [T \in SUBSET S |-> IF Cardinality(T) <= n THEN g[T] ELSE step(g, T)]
  <2>2. ASSUME NEW T \in SUBSET S PROVE step(g, T) \in L
    <3>1. CASE T = {} BY <3>1
    <3>2. CASE T # {}
      <4>1. c[T] \in S /\ T \ {c[T]} \in SUBSET S BY <1>2, <3>2
      <4>2. g[T \ {c[T]}] \in L BY <4>1
      <4> QED BY <3>2, <4>1, <4>2
    <3> QED BY <3>1, <3>2
  <2>3. h \in [SUBSET S -> L]
    <3> HIDE DEF step
    <3> QED BY <2>2
  <2>4. upTo(h, n + 1)
    <3> SUFFICES ASSUME NEW T \in SUBSET S, Cardinality(T) <= n + 1 PROVE h[T] = step(h, T)
      OBVIOUS
    <3>1. h[T] = step(g, T) BY <2>1
    <3>2. T # {} => h[T \ {c[T]}] = g[T \ {c[T]}]
      BY <1>1, <1>2
    <3> QED BY <3>1, <3>2
  <2> HIDE DEF h, upTo
  <2>5. \E k \in [SUBSET S -> L] : upTo(k, n + 1) BY <2>3, <2>4
  <2> QED BY <2>5
<1>5. \A n \in Nat : n \in K
  <2> HIDE DEF K
  <2> QED BY <1>3, <1>4, NatSetInduction
<1>6. Cardinality(S) \in K BY <1>1, <1>5
<1>7. PICK g \in [SUBSET S -> L] : upTo(g, Cardinality(S)) BY <1>6
<1>8. \A T \in SUBSET S : Cardinality(T) <= Cardinality(S) BY FS_Subset
<1> QED BY <1>7, <1>8 DEF Loops

\* What holds at the start and is kept by every turn holds in the end.
LEMMA LoopStays ==
    ASSUME NEW S, IsFiniteSet(S), NEW c, \A T \in SUBSET S : T # {} => c[T] \in T,
           NEW L, NEW g, g[{}] \in L,
           \A T \in SUBSET S : T # {} /\ g[T \ {c[T]}] \in L => g[T] \in L
    PROVE  g[S] \in L
<1> DEFINE Bad == {T \in SUBSET S : g[T] \notin L}
<1> SUFFICES ASSUME Bad # {} PROVE FALSE OBVIOUS
<1>1. \E T \in Bad : \A U \in Bad : ~ (U \subseteq T /\ U # T)
  <2>1. Bad \subseteq SUBSET S OBVIOUS
  <2> HIDE DEF Bad
  <2> QED BY <2>1, MinimalSubset
<1>2. PICK T \in Bad : \A U \in Bad : ~ (U \subseteq T /\ U # T) BY <1>1
<1>3. T # {} /\ T \in SUBSET S BY <1>2
<1>4. c[T] \in T BY <1>3
<1>5. T \ {c[T]} \in SUBSET S /\ T \ {c[T]} # T BY <1>3, <1>4
<1>6. g[T \ {c[T]}] \in L BY <1>2, <1>5
<1> QED BY <1>2, <1>3, <1>6

-----------------------------------------------------------------------------
(* One field of the ledger after the other.                                *)

\* What IsLedger says of each field.
LEMMA LedgerParts ==
    ASSUME NEW s, IsLedger(s, Ids, Tokens)
    PROVE  /\ s.Available \in Int /\ s.Reserved \in Nat
           /\ IsMap(s.Tokens, Tokens, TokenPosition)
           /\ IsMap(s.Orders, Ids, OrderReservation(Tokens))
           /\ IsMap(s.Provisionals, Ids, ProvisionalReservation(Tokens))
           /\ s.DailyPnL \in Int /\ s.DailyPnLDate \in Nat
           /\ \A o \in DOMAIN s.Orders : s.Orders[o] \in OrderReservation(Tokens)
           /\ \A i \in DOMAIN s.Provisionals :
                    s.Provisionals[i] \in ProvisionalReservation(Tokens)
BY DEF IsLedger, IsMap

\* A ledger is the record of its fields.
Fields(s) == [Available |-> s.Available, Reserved |-> s.Reserved, Tokens |-> s.Tokens,
              Orders |-> s.Orders, Provisionals |-> s.Provisionals,
              DailyPnL |-> s.DailyPnL, DailyPnLDate |-> s.DailyPnLDate]

\* One token's position is replaced.
LEMMA SetTokenType ==
    ASSUME NEW s, IsLedger(s, Ids, Tokens), NEW tk \in Tokens, NEW tp \in TokenPosition,
           NEW r, r = SetToken(s, tk, tp)
    PROVE  /\ IsLedger(r, Ids, Tokens)
           /\ r.Available = s.Available /\ r.Reserved = s.Reserved
           /\ r.Orders = s.Orders /\ r.Provisionals = s.Provisionals
<1>1. /\ r.Available = s.Available /\ r.Reserved = s.Reserved
      /\ r.Tokens = Put(s.Tokens, tk, tp)
      /\ r.Orders = s.Orders /\ r.Provisionals = s.Provisionals
      /\ r.DailyPnL = s.DailyPnL /\ r.DailyPnLDate = s.DailyPnLDate /\ r = Fields(r)
  BY DEF SetToken, IsLedger, Fields
<1>2. IsMap(Put(s.Tokens, tk, tp), Tokens, TokenPosition)
  BY LedgerParts, PutMap
<1>3. IsLedger(r, Ids, Tokens) BY <1>1, <1>2 DEF IsLedger, Fields
<1> QED BY <1>1, <1>3

\* The balance is replaced.
LEMMA SetBalanceType ==
    ASSUME NEW s, IsLedger(s, Ids, Tokens), NEW r, r.Available \in Int, r.Reserved \in Nat,
           r = [s EXCEPT !.Available = r.Available, !.Reserved = r.Reserved]
    PROVE  /\ IsLedger(r, Ids, Tokens) /\ r.Tokens = s.Tokens
           /\ r.Orders = s.Orders /\ r.Provisionals = s.Provisionals
<1>1. /\ r.Tokens = s.Tokens /\ r.Orders = s.Orders /\ r.Provisionals = s.Provisionals
      /\ r.DailyPnL = s.DailyPnL /\ r.DailyPnLDate = s.DailyPnLDate /\ r = Fields(r)
  BY DEF IsLedger, Fields
<1>2. IsLedger(r, Ids, Tokens) BY <1>1 DEF IsLedger, Fields
<1> QED BY <1>1, <1>2

\* The reservations are replaced.
Rebooked(s, r, os, ps) ==
    /\ IsLedger(r, Ids, Tokens)
    /\ r.Available = s.Available /\ r.Reserved = s.Reserved /\ r.Tokens = s.Tokens
    /\ r.Orders = os /\ r.Provisionals = ps

\* A ledger with other orders and positions is a ledger.
LEMMA SetMapsType ==
    ASSUME NEW s, IsLedger(s, Ids, Tokens),
           NEW os, IsMap(os, Ids, OrderReservation(Tokens)),
           NEW ps, IsMap(ps, Ids, ProvisionalReservation(Tokens)),
           NEW r, r = [s EXCEPT !.Orders = os, !.Provisionals = ps]
    PROVE  Rebooked(s, r, os, ps)
<1>1. /\ r.Available = s.Available /\ r.Reserved = s.Reserved /\ r.Tokens = s.Tokens
      /\ r.Orders = os /\ r.Provisionals = ps
      /\ r.DailyPnL = s.DailyPnL /\ r.DailyPnLDate = s.DailyPnLDate /\ r = Fields(r)
  BY DEF IsLedger, Fields
<1>2. IsLedger(r, Ids, Tokens) BY <1>1 DEF IsLedger, Fields
<1> QED BY <1>1, <1>2 DEF Rebooked

-----------------------------------------------------------------------------
(* Taking and returning collateral.                                        *)

\* Tokens or dollars move between Available and Reserved; Available may go
\* below zero.
LEMMA PositionMoves ==
    ASSUME NEW q \in TokenPosition, NEW n \in Nat
    PROVE  /\ [q EXCEPT !.Available = @ - n, !.Reserved = @ + n] \in TokenPosition
           /\ [q EXCEPT !.Available = @ + n, !.Reserved = Max0(@ - n)] \in TokenPosition
<1>1. q.Available \in Int /\ q.Reserved \in Nat BY DEF TokenPosition
<1>2. q.Available - n \in Int /\ q.Reserved + n \in Nat BY <1>1
<1>3. q.Available + n \in Int /\ Max0(q.Reserved - n) \in Nat BY <1>1 DEF Max0
<1>4. [q EXCEPT !.Available = @ - n, !.Reserved = @ + n] \in TokenPosition
  BY <1>2 DEF TokenPosition
<1>5. [q EXCEPT !.Available = @ + n, !.Reserved = Max0(@ - n)] \in TokenPosition
  BY <1>3 DEF TokenPosition
<1> QED BY <1>4, <1>5

\* What a reservation of amount adds to what the balance must cover.
Bought(side, amount) == IF side = "BUY" THEN amount ELSE 0

\* Reserve moves money and keeps a ledger a ledger.
LEMMA ReserveType ==
    ASSUME NEW s, IsLedger(s, Ids, Tokens), NEW side \in Sides, NEW tk \in Tokens,
           NEW amount \in Nat, NEW r, r = Reserve(s, side, tk, amount)
    PROVE  /\ IsLedger(r, Ids, Tokens)
           /\ r.Reserved = s.Reserved + Bought(side, amount)
           /\ r.Orders = s.Orders /\ r.Provisionals = s.Provisionals
<1>0. s.Available \in Int /\ s.Reserved \in Nat BY LedgerParts
<1>1. CASE side = "BUY"
  <2> DEFINE a == s.Available - amount
             b == s.Reserved + amount
  <2>1. r = [s EXCEPT !.Available = a, !.Reserved = b] BY <1>1 DEF Reserve
  <2>2. a \in Int /\ b \in Nat BY <1>0
  <2> HIDE DEF a, b
  <2>3. r.Available = a /\ r.Reserved = b BY <2>1 DEF IsLedger
  <2>4. /\ IsLedger(r, Ids, Tokens)
        /\ r.Orders = s.Orders /\ r.Provisionals = s.Provisionals
    <3>1. r = [s EXCEPT !.Available = r.Available, !.Reserved = r.Reserved] BY <2>1, <2>3
    <3> QED BY ONLY <2>2, <2>3, <3>1, IsLedger(s, Ids, Tokens), SetBalanceType
  <2> QED BY <1>1, <2>3, <2>4 DEF Bought, b
<1>2. CASE side # "BUY"
  <2> DEFINE tp == [TokenAt(s, tk) EXCEPT !.Available = @ - amount, !.Reserved = @ + amount]
  <2>1. tp \in TokenPosition BY TokenAtType, PositionMoves
  <2>2. r = SetToken(s, tk, tp) BY <1>2 DEF Reserve
  <2> HIDE DEF tp
  <2>3. /\ IsLedger(r, Ids, Tokens) /\ r.Reserved = s.Reserved
        /\ r.Orders = s.Orders /\ r.Provisionals = s.Provisionals
    BY <2>1, <2>2, SetTokenType
  <2> QED BY <1>0, <1>2, <2>3 DEF Bought
<1> QED BY <1>1, <1>2

\* releaseReservedLocked gives money back and keeps a ledger a ledger.
LEMMA ReleaseType ==
    ASSUME NEW s, IsLedger(s, Ids, Tokens), NEW side \in Sides, NEW tk \in Tokens,
           NEW amount \in Nat, NEW r, r = releaseReservedLocked(s, side, tk, amount)
    PROVE  /\ IsLedger(r, Ids, Tokens)
           /\ r.Reserved >= s.Reserved - Bought(side, amount)
           /\ r.Orders = s.Orders /\ r.Provisionals = s.Provisionals
<1>0. s.Available \in Int /\ s.Reserved \in Nat BY LedgerParts
<1>1. CASE side = "BUY"
  <2> DEFINE a == s.Available + amount
             b == Max0(s.Reserved - amount)
  <2>1. r = [s EXCEPT !.Available = a, !.Reserved = b] BY <1>1 DEF releaseReservedLocked
  <2>2. a \in Int /\ b \in Nat /\ b >= s.Reserved - amount BY <1>0 DEF Max0
  <2> HIDE DEF a, b
  <2>3. r.Available = a /\ r.Reserved = b BY <2>1 DEF IsLedger
  <2>4. /\ IsLedger(r, Ids, Tokens)
        /\ r.Orders = s.Orders /\ r.Provisionals = s.Provisionals
    <3>1. r = [s EXCEPT !.Available = r.Available, !.Reserved = r.Reserved] BY <2>1, <2>3
    <3> QED BY ONLY <2>2, <2>3, <3>1, IsLedger(s, Ids, Tokens), SetBalanceType
  <2> QED BY <1>1, <2>2, <2>3, <2>4 DEF Bought
<1>2. CASE side # "BUY"
  <2> DEFINE tp == [TokenAt(s, tk) EXCEPT !.Available = @ + amount,
                                          !.Reserved = Max0(@ - amount)]
  <2>1. tp \in TokenPosition BY TokenAtType, PositionMoves
  <2>2. r = SetToken(s, tk, tp) BY <1>2 DEF releaseReservedLocked
  <2> HIDE DEF tp
  <2>3. /\ IsLedger(r, Ids, Tokens) /\ r.Reserved = s.Reserved
        /\ r.Orders = s.Orders /\ r.Provisionals = s.Provisionals
    BY <2>1, <2>2, SetTokenType
  <2> QED BY <1>0, <1>2, <2>3 DEF Bought
<1> QED BY <1>1, <1>2
-----------------------------------------------------------------------------
(* Reservations come and go.                                               *)

\* Of the balance, a reservation holds what it reserved if it is a BUY.
LEMMA ShareOfBalance ==
    ASSUME NEW r
    PROVE  Share(r, Balance) = Bought(r.Side, r.Reserved)
BY DEF Share, Account, Balance, PositionIn, Bought

\* The numbers that Covers compares.
LEMMA CoversNumbers ==
    ASSUME NEW s, Covers(s)
    PROVE  /\ HeldIn(s.Orders, Balance) \in Nat /\ HeldIn(s.Provisionals, Balance) \in Nat
           /\ s.Reserved \in Nat
           /\ HeldIn(s.Orders, Balance) + HeldIn(s.Provisionals, Balance) <= s.Reserved
BY HeldType, LedgerParts DEF Covers, HeldBy

\* The amounts in a reservation.
LEMMA ReservationParts ==
    /\ \A r \in OrderReservation(Tokens) :
            /\ r.Side \in Sides /\ r.TokenID \in Tokens /\ r.Reserved \in Nat
            /\ r.Price \in Prices /\ r.RemainingSize \in Nat \ {0}
            /\ Bought(r.Side, r.Reserved) \in Nat
    /\ \A r \in ProvisionalReservation(Tokens) :
            /\ r.Side \in Sides /\ r.TokenID \in Tokens /\ r.Reserved \in Nat
            /\ r.Price \in Prices /\ r.RemainingSize \in Nat \ {0}
            /\ Bought(r.Side, r.Reserved) \in Nat
BY DEF OrderReservation, ProvisionalReservation, Bought

\* An order is entered and its collateral taken.
LEMMA AddOrderCovers ==
    ASSUME NEW s, Covers(s), NEW o \in Ids, NEW n \in OrderReservation(Tokens),
           NEW r, r = [Reserve(s, n.Side, n.TokenID, n.Reserved) EXCEPT !.Orders = Put(@, o, n)]
    PROVE  Covers(r)
<1> DEFINE taken == Reserve(s, n.Side, n.TokenID, n.Reserved)
           os == Put(s.Orders, o, n)
<1>0. n.Side \in Sides /\ n.TokenID \in Tokens /\ n.Reserved \in Nat
      /\ Bought(n.Side, n.Reserved) \in Nat
  BY ReservationParts
<1>1. /\ IsLedger(taken, Ids, Tokens)
      /\ taken.Reserved = s.Reserved + Bought(n.Side, n.Reserved)
      /\ taken.Orders = s.Orders /\ taken.Provisionals = s.Provisionals
  BY <1>0, ReserveType DEF Covers
<1> HIDE DEF taken
<1>2. IsMap(os, Ids, OrderReservation(Tokens))
  BY PutMap, LedgerParts DEF Covers
<1>3. /\ Funded(os)
      /\ o \notin DOMAIN s.Orders =>
            HeldIn(os, Balance) = HeldIn(s.Orders, Balance) + Share(n, Balance)
      /\ o \in DOMAIN s.Orders =>
            HeldIn(os, Balance) = HeldIn(s.Orders, Balance) - Share(s.Orders[o], Balance)
                                    + Share(n, Balance)
  BY <1>0, HeldPut DEF Covers
<1>4. o \in DOMAIN s.Orders => Share(s.Orders[o], Balance) \in Nat
  BY ShareType DEF Covers, Funded
<1>5. Share(n, Balance) = Bought(n.Side, n.Reserved) BY ShareOfBalance
<1> HIDE DEF os
<1>6. r = [taken EXCEPT !.Orders = os, !.Provisionals = s.Provisionals]
  BY <1>1 DEF IsLedger, taken, os
<1>7. /\ IsLedger(r, Ids, Tokens) /\ r.Reserved = taken.Reserved
      /\ r.Orders = os /\ r.Provisionals = s.Provisionals
  <2>1. /\ IsMap(s.Provisionals, Ids, ProvisionalReservation(Tokens))
        /\ IsMap(s.Orders, Ids, OrderReservation(Tokens))
    BY LedgerParts DEF Covers
  <2>2. Rebooked(taken, r, os, s.Provisionals) BY <1>1, <1>2, <1>6, <2>1, SetMapsType
  <2> QED BY <2>2 DEF Rebooked
<1>8. HeldIn(os, Balance) <= HeldIn(s.Orders, Balance) + Bought(n.Side, n.Reserved)
      /\ HeldIn(os, Balance) \in Int
  <2>1. HeldIn(s.Orders, Balance) \in Nat BY CoversNumbers
  <2> QED BY ONLY <1>0, <1>3, <1>4, <1>5, <2>1
<1>9. HeldIn(os, Balance) + HeldIn(s.Provisionals, Balance) <= r.Reserved
  BY <1>0, <1>1, <1>7, <1>8, CoversNumbers
<1> QED BY <1>3, <1>7, <1>8, <1>9, CoversNumbers DEF Covers, HeldBy

\* An intent is entered and its collateral taken.
LEMMA AddProvisionalCovers ==
    ASSUME NEW s, Covers(s), NEW i \in Ids, i \notin DOMAIN s.Provisionals,
           NEW n \in ProvisionalReservation(Tokens),
           NEW r, r = [Reserve(s, n.Side, n.TokenID, n.Reserved)
                            EXCEPT !.Provisionals = Put(@, i, n)]
    PROVE  Covers(r)
<1> DEFINE taken == Reserve(s, n.Side, n.TokenID, n.Reserved)
           ps == Put(s.Provisionals, i, n)
<1>0. n.Side \in Sides /\ n.TokenID \in Tokens /\ n.Reserved \in Nat
      /\ Bought(n.Side, n.Reserved) \in Nat
  BY ReservationParts
<1>1. /\ IsLedger(taken, Ids, Tokens)
      /\ taken.Reserved = s.Reserved + Bought(n.Side, n.Reserved)
      /\ taken.Orders = s.Orders /\ taken.Provisionals = s.Provisionals
  BY <1>0, ReserveType DEF Covers
<1> HIDE DEF taken
<1>2. IsMap(ps, Ids, ProvisionalReservation(Tokens))
  BY PutMap, LedgerParts DEF Covers
<1>3. /\ Funded(ps)
      /\ HeldIn(ps, Balance) = HeldIn(s.Provisionals, Balance) + Share(n, Balance)
  BY <1>0, HeldPut DEF Covers
<1>5. Share(n, Balance) = Bought(n.Side, n.Reserved) BY ShareOfBalance
<1> HIDE DEF ps
<1>6. r = [taken EXCEPT !.Orders = s.Orders, !.Provisionals = ps]
  BY <1>1 DEF IsLedger, taken, ps
<1>7. /\ IsLedger(r, Ids, Tokens) /\ r.Reserved = taken.Reserved
      /\ r.Orders = s.Orders /\ r.Provisionals = ps
  <2>1. /\ IsMap(s.Provisionals, Ids, ProvisionalReservation(Tokens))
        /\ IsMap(s.Orders, Ids, OrderReservation(Tokens))
    BY LedgerParts DEF Covers
  <2>2. Rebooked(taken, r, s.Orders, ps) BY <1>1, <1>2, <1>6, <2>1, SetMapsType
  <2> QED BY <2>2 DEF Rebooked
<1>9. HeldIn(s.Orders, Balance) + HeldIn(ps, Balance) <= r.Reserved
  BY <1>0, <1>1, <1>3, <1>5, <1>7, CoversNumbers
<1> QED BY <1>3, <1>7, <1>9, CoversNumbers DEF Covers, HeldBy

\* What a removed reservation held is returned.
LEMMA FreeCovers ==
    ASSUME NEW d, IsLedger(d, Ids, Tokens), Funded(d.Orders), Funded(d.Provisionals),
           NEW side \in Sides, NEW tk \in Tokens, NEW n \in Nat,
           HeldBy(d, Balance) <= d.Reserved - Bought(side, n),
           NEW r, r = releaseReservedLocked(d, side, tk, n)
    PROVE  Covers(r)
<1>1. /\ IsLedger(r, Ids, Tokens)
      /\ r.Reserved >= d.Reserved - Bought(side, n)
      /\ r.Orders = d.Orders /\ r.Provisionals = d.Provisionals
  BY ReleaseType
<1>2. HeldBy(r, Balance) = HeldBy(d, Balance) BY <1>1 DEF HeldBy
<1>3. d.Reserved \in Nat /\ r.Reserved \in Nat /\ Bought(side, n) \in Nat
  BY <1>1, LedgerParts DEF Bought
<1>4. HeldBy(d, Balance) \in Nat BY HeldType DEF HeldBy
<1>5. HeldBy(r, Balance) <= r.Reserved BY <1>1, <1>2, <1>3, <1>4
<1> QED BY <1>1, <1>5 DEF Covers

\* ReleaseProvisional keeps the reservations covered.
LEMMA ReleaseProvisionalCovers ==
    ASSUME NEW s, Covers(s), NEW i
    PROVE  Covers(ReleaseProvisional(s, i))
<1>1. CASE i \notin DOMAIN s.Provisionals
  BY <1>1 DEF ReleaseProvisional
<1>2. CASE i \in DOMAIN s.Provisionals
  <2> DEFINE p == s.Provisionals[i]
             ps == Del(s.Provisionals, {i})
             d == [s EXCEPT !.Provisionals = Del(@, {i})]
  <2>1. p.Side \in Sides /\ p.TokenID \in Tokens /\ p.Reserved \in Nat
        /\ Bought(p.Side, p.Reserved) \in Nat
    BY <1>2, LedgerParts, ReservationParts DEF Covers
  <2>2. ReleaseProvisional(s, i) = releaseReservedLocked(d, p.Side, p.TokenID, p.Reserved)
    BY <1>2 DEF ReleaseProvisional, FreeProvisional
  <2>3. Funded(ps) /\ HeldIn(ps, Balance) = HeldIn(s.Provisionals, Balance) - Share(p, Balance)
    BY <1>2, HeldDel DEF Covers
  <2>4. Share(p, Balance) = Bought(p.Side, p.Reserved) BY ShareOfBalance
  <2>5. IsMap(ps, Ids, ProvisionalReservation(Tokens)) BY DelMap, LedgerParts DEF Covers
  <2>6. d = [s EXCEPT !.Orders = s.Orders, !.Provisionals = ps] BY DEF Covers, IsLedger
  <2> HIDE DEF p, ps, d
  <2>7. /\ IsLedger(d, Ids, Tokens) /\ d.Reserved = s.Reserved
        /\ d.Orders = s.Orders /\ d.Provisionals = ps
    <3>1. /\ IsMap(s.Provisionals, Ids, ProvisionalReservation(Tokens))
          /\ IsMap(s.Orders, Ids, OrderReservation(Tokens)) /\ IsLedger(s, Ids, Tokens)
      BY LedgerParts DEF Covers
    <3>2. Rebooked(s, d, s.Orders, ps) BY <2>5, <2>6, <3>1, SetMapsType
    <3> QED BY <3>2 DEF Rebooked
  <2>8. HeldBy(d, Balance) <= d.Reserved - Bought(p.Side, p.Reserved)
    BY <2>1, <2>3, <2>4, <2>7, CoversNumbers DEF HeldBy
  <2>9. Funded(d.Orders) /\ Funded(d.Provisionals) BY <2>3, <2>7 DEF Covers
  <2> QED BY <2>1, <2>2, <2>7, <2>8, <2>9, FreeCovers
<1> QED BY <1>1, <1>2

\* ReleaseOrder keeps the reservations covered.
LEMMA ReleaseOrderCovers ==
    ASSUME NEW s, Covers(s), NEW o
    PROVE  Covers(ReleaseOrder(s, o))
<1>1. CASE o \notin DOMAIN s.Orders
  BY <1>1 DEF ReleaseOrder
<1>2. CASE o \in DOMAIN s.Orders
  <2> DEFINE p == s.Orders[o]
             os == Del(s.Orders, {o})
             d == [s EXCEPT !.Orders = Del(@, {o})]
  <2>1. p.Side \in Sides /\ p.TokenID \in Tokens /\ p.Reserved \in Nat
        /\ Bought(p.Side, p.Reserved) \in Nat
    BY <1>2, LedgerParts, ReservationParts DEF Covers
  <2>2. ReleaseOrder(s, o) = releaseReservedLocked(d, p.Side, p.TokenID, p.Reserved)
    BY <1>2 DEF ReleaseOrder
  <2>3. Funded(os) /\ HeldIn(os, Balance) = HeldIn(s.Orders, Balance) - Share(p, Balance)
    BY <1>2, HeldDel DEF Covers
  <2>4. Share(p, Balance) = Bought(p.Side, p.Reserved) BY ShareOfBalance
  <2>5. IsMap(os, Ids, OrderReservation(Tokens)) BY DelMap, LedgerParts DEF Covers
  <2>6. d = [s EXCEPT !.Orders = os, !.Provisionals = s.Provisionals] BY DEF Covers, IsLedger
  <2> HIDE DEF p, os, d
  <2>7. /\ IsLedger(d, Ids, Tokens) /\ d.Reserved = s.Reserved
        /\ d.Orders = os /\ d.Provisionals = s.Provisionals
    <3>1. /\ IsMap(s.Provisionals, Ids, ProvisionalReservation(Tokens))
          /\ IsMap(s.Orders, Ids, OrderReservation(Tokens)) /\ IsLedger(s, Ids, Tokens)
      BY LedgerParts DEF Covers
    <3>2. Rebooked(s, d, os, s.Provisionals) BY <2>5, <2>6, <3>1, SetMapsType
    <3> QED BY <3>2 DEF Rebooked
  <2>8. HeldBy(d, Balance) <= d.Reserved - Bought(p.Side, p.Reserved)
    BY <2>1, <2>3, <2>4, <2>7, CoversNumbers DEF HeldBy
  <2>9. Funded(d.Orders) /\ Funded(d.Provisionals) BY <2>3, <2>7 DEF Covers
  <2> QED BY <2>1, <2>2, <2>7, <2>8, <2>9, FreeCovers
<1> QED BY <1>1, <1>2

-----------------------------------------------------------------------------
(* The operations of the engine loop.                                      *)

\* TryReserveProvisional, called with an order's terms.
LEMMA TryReserveCovers ==
    ASSUME NEW s, Covers(s), NEW i \in Ids, NEW r,
           r = TryReserveProvisional(s, i, Order[i].TokenID, Order[i].Side,
                                     Order[i].Price, Order[i].RequestedSize)
    PROVE  Covers(r.st)
<1> DEFINE q == Order[i]
           amount == RequiredCollateral(q.Side, q.Price, q.RequestedSize)
           p == [TokenID |-> q.TokenID, Side |-> q.Side, Price |-> q.Price,
                 RemainingSize |-> q.RequestedSize, Reserved |-> amount, Life |-> TTL]
           ok == [Reserve(s, p.Side, p.TokenID, p.Reserved) EXCEPT !.Provisionals = Put(@, i, p)]
<1>1. r.st = s \/ (i \notin DOMAIN s.Provisionals /\ r.st = ok)
  BY DEF TryReserveProvisional, Result
<1>2. p \in ProvisionalReservation(Tokens)
  BY TermsType, TTLAssumption DEF ProvisionalReservation
<1>3. i \notin DOMAIN s.Provisionals => Covers(ok)
  <2> HIDE DEF p
  <2> QED BY <1>2, AddProvisionalCovers
<1> QED BY <1>1, <1>3

\* A provisional becomes an order.
LEMMA ConvertCovers ==
    ASSUME NEW s, Covers(s), NEW i \in DOMAIN s.Provisionals, NEW o \in Ids,
           o \notin DOMAIN s.Orders
    PROVE  Covers(ConvertProvisional(s, i, o))
<1> DEFINE p == s.Provisionals[i]
           c == [TokenID |-> p.TokenID, Side |-> p.Side, Price |-> p.Price,
                 RemainingSize |-> p.RemainingSize, Reserved |-> p.Reserved,
                 ExternalOrigin |-> FALSE]
           os == Put(s.Orders, o, c)
           ps == Del(s.Provisionals, {i})
           r == ConvertProvisional(s, i, o)
<1>1. p \in ProvisionalReservation(Tokens) BY LedgerParts DEF Covers
<1>2. c \in OrderReservation(Tokens)
  BY <1>1 DEF OrderReservation, ProvisionalReservation
<1>3. r = [s EXCEPT !.Orders = os, !.Provisionals = ps]
  BY DEF ConvertProvisional, Covers, IsLedger
<1>4. Share(c, Balance) = Share(p, Balance) /\ Share(p, Balance) \in Nat /\ c.Reserved \in Nat
  BY <1>1, ShareType, ReservationParts DEF Share
<1> HIDE DEF c, p
<1>5. IsMap(os, Ids, OrderReservation(Tokens)) /\ IsMap(ps, Ids, ProvisionalReservation(Tokens))
  BY <1>2, PutMap, DelMap, LedgerParts DEF Covers
<1>6. Funded(os) /\ HeldIn(os, Balance) = HeldIn(s.Orders, Balance) + Share(c, Balance)
  BY <1>4, HeldPut DEF Covers
<1>7. Funded(ps) /\ HeldIn(ps, Balance) = HeldIn(s.Provisionals, Balance) - Share(p, Balance)
  BY HeldDel DEF Covers, p
<1> HIDE DEF os, ps, r
<1>8. Rebooked(s, r, os, ps) BY <1>3, <1>5, SetMapsType DEF Covers
<1>9. /\ IsLedger(r, Ids, Tokens) /\ r.Reserved = s.Reserved
      /\ r.Orders = os /\ r.Provisionals = ps
  BY <1>8 DEF Rebooked
<1>10. HeldIn(os, Balance) + HeldIn(ps, Balance) <= s.Reserved
  BY <1>4, <1>6, <1>7, CoversNumbers
<1> QED BY <1>6, <1>7, <1>9, <1>10 DEF Covers, HeldBy, r

\* The reservation of an order with its own terms.
LEMMA NewReservationType ==
    ASSUME NEW tk \in Tokens, NEW side \in Sides, NEW price \in Prices,
           NEW size \in Nat \ {0}, NEW ext \in BOOLEAN
    PROVE  /\ NewReservation(tk, side, price, size, ext) \in OrderReservation(Tokens)
           /\ NewReservation(tk, side, price, size, ext).TokenID = tk
           /\ NewReservation(tk, side, price, size, ext).Side = side
           /\ NewReservation(tk, side, price, size, ext).Reserved
                    = RequiredCollateral(side, price, size)
<1>1. RequiredCollateral(side, price, size) \in Nat
  BY OneAssumption DEF RequiredCollateral, Prices
<1> QED BY <1>1 DEF NewReservation, OrderReservation

\* AttachOrder keeps the reservations covered, whether or not it finds funds.
LEMMA AttachCovers ==
    ASSUME NEW s, Covers(s), NEW o \in Ids, NEW i, NEW r,
           r = AttachOrder(s, i, o, Order[o].TokenID, Order[o].Side,
                           Order[o].Price, Order[o].RequestedSize)
    PROVE  Covers(r.st)
<1> DEFINE q == Order[o]
           n == NewReservation(q.TokenID, q.Side, q.Price, q.RequestedSize, FALSE)
           fresh == [Reserve(s, q.Side, q.TokenID, n.Reserved) EXCEPT !.Orders = Put(@, o, n)]
<1>1. \/ r.st = s \/ r.st = ReleaseProvisional(s, i)
      \/ o \notin DOMAIN s.Orders /\ i \in DOMAIN s.Provisionals
         /\ r.st = ConvertProvisional(s, i, o)
      \/ r.st = fresh
  BY DEF AttachOrder, FreshReservation, NewReservation, Result
<1>2. /\ n \in OrderReservation(Tokens) /\ n.TokenID = q.TokenID /\ n.Side = q.Side
  BY TermsType DEF NewReservation, OrderReservation
<1>3. Covers(fresh)
  <2> HIDE DEF n
  <2> QED BY <1>2, AddOrderCovers
<1> QED BY <1>1, <1>3, ReleaseProvisionalCovers, ConvertCovers

\* The reservation an order has left after a fill that consumed some of it.
LEMMA SettleCovers ==
    ASSUME NEW s, Covers(s), NEW o \in DOMAIN s.Orders, NEW left \in Nat, NEW n \in Nat,
           n <= s.Orders[o].Reserved, NEW r, r = SettleReservation(s, o, left, n)
    PROVE  /\ IsLedger(r, Ids, Tokens) /\ r.Reserved = s.Reserved
           /\ r.Tokens = s.Tokens /\ r.Provisionals = s.Provisionals
           /\ Funded(r.Orders)
           /\ HeldIn(r.Orders, Balance)
                <= HeldIn(s.Orders, Balance) - Bought(s.Orders[o].Side, n)
<1> DEFINE p == s.Orders[o]
           filled == [p EXCEPT !.RemainingSize = left, !.Reserved = @ - n]
           os == IF left = 0 THEN Del(s.Orders, {o}) ELSE Put(s.Orders, o, filled)
<1>1. /\ p \in OrderReservation(Tokens) /\ p.Reserved \in Nat /\ p.Side \in Sides
      /\ o \in Ids /\ Share(p, Balance) = Bought(p.Side, p.Reserved)
  BY LedgerParts, ReservationParts, ShareOfBalance DEF Covers, IsMap
<1>2. p.Reserved - n \in Nat /\ n <= p.Reserved BY <1>1
<1>3. left # 0 => filled \in OrderReservation(Tokens)
  <2> HIDE DEF p
  <2> QED BY <1>1, <1>2 DEF OrderReservation
<1>4. filled.Reserved = p.Reserved - n /\ filled.Side = p.Side
  <2> HIDE DEF p
  <2> QED BY <1>1 DEF OrderReservation
<1>5. Share(filled, Balance) = Bought(p.Side, p.Reserved - n)
  BY <1>4, ShareOfBalance
<1>6. r = [s EXCEPT !.Orders = os, !.Provisionals = s.Provisionals]
  <2>1. r = [s EXCEPT !.Orders = os] BY DEF SettleReservation
  <2> HIDE DEF os
  <2> QED BY <2>1 DEF Covers, IsLedger
<1> HIDE DEF filled
<1>7. IsMap(os, Ids, OrderReservation(Tokens))
  <2>1. IsMap(s.Orders, Ids, OrderReservation(Tokens)) BY LedgerParts DEF Covers
  <2>2. IsMap(Del(s.Orders, {o}), Ids, OrderReservation(Tokens)) BY <2>1, DelMap
  <2>3. left # 0 => IsMap(Put(s.Orders, o, filled), Ids, OrderReservation(Tokens))
    BY <1>1, <1>3, <2>1, PutMap
  <2> QED BY <2>2, <2>3
<1>8. /\ Funded(Del(s.Orders, {o}))
      /\ HeldIn(Del(s.Orders, {o}), Balance) = HeldIn(s.Orders, Balance) - Share(p, Balance)
  BY HeldDel DEF Covers
<1>9. /\ Funded(Put(s.Orders, o, filled))
      /\ HeldIn(Put(s.Orders, o, filled), Balance)
            = HeldIn(s.Orders, Balance) - Share(p, Balance) + Share(filled, Balance)
  BY <1>2, <1>4, HeldPut DEF Covers
<1>10. HeldIn(s.Orders, Balance) \in Nat BY CoversNumbers
<1> HIDE DEF p
<1>11. /\ Funded(os)
       /\ HeldIn(os, Balance) <= HeldIn(s.Orders, Balance) - Bought(p.Side, n)
  <2>1. CASE left = 0
    <3>1. os = Del(s.Orders, {o}) BY <2>1
    <3> HIDE DEF os
    <3>2. Funded(os) BY <1>8, <3>1
    <3>3. HeldIn(os, Balance) = HeldIn(s.Orders, Balance) - Bought(p.Side, p.Reserved)
      BY <1>1, <1>8, <3>1
    <3> QED BY <1>1, <1>2, <1>10, <3>2, <3>3 DEF Bought
  <2>2. CASE left # 0
    <3>1. os = Put(s.Orders, o, filled) BY <2>2
    <3> HIDE DEF os
    <3>2. Funded(os) BY <1>9, <3>1
    <3>3. HeldIn(os, Balance) = HeldIn(s.Orders, Balance) - Bought(p.Side, p.Reserved)
                                    + Bought(p.Side, p.Reserved - n)
      BY <1>1, <1>5, <1>9, <3>1
    <3> QED BY <1>1, <1>2, <1>10, <3>2, <3>3 DEF Bought
  <2> QED BY <2>1, <2>2
<1> HIDE DEF os
<1>12. Rebooked(s, r, os, s.Provisionals)
  <2>1. IsMap(s.Provisionals, Ids, ProvisionalReservation(Tokens)) BY LedgerParts DEF Covers
  <2> QED BY <1>6, <1>7, <2>1, SetMapsType DEF Covers
<1> QED BY <1>11, <1>12 DEF Rebooked, p

\* A fill, at whatever price.
LEMMA ApplyFillCovers ==
    ASSUME NEW s, Covers(s), NEW o, NEW tk \in Tokens, NEW side \in Sides,
           NEW size \in Nat, NEW fp \in Nat, NEW day \in Nat,
           NEW r, r = ApplyFill(s, o, tk, side, size, fp, day)
    PROVE  Covers(r)
<1>1. CASE FillError(s, o, tk, side, size) # "nil"
  BY <1>1 DEF ApplyFill
<1>2. CASE FillError(s, o, tk, side, size) = "nil"
  <2> DEFINE p == s.Orders[o]
             price == IF fp <= 0 THEN p.Price ELSE fp
             cost == RequiredCollateral(side, price, size)
             consumed == IF cost > p.Reserved THEN p.Reserved ELSE cost
             left == Max0(p.RemainingSize - size)
             tp == TokenAt(s, tk)
             settled == SettleReservation(s, o, left, consumed)
             gain == (price - tp.AvgCost) * size
             booked == IF tp.AvgCostKnown THEN addDailyPnLLocked(settled, day, gain)
                       ELSE settled
  <2>1. /\ o \in DOMAIN s.Orders /\ p.TokenID = tk /\ p.Side = side /\ size \in Nat \ {0}
    BY <1>2 DEF FillError
  <2>2. /\ p \in OrderReservation(Tokens) /\ p.Reserved \in Nat /\ p.Price \in Nat
        /\ p.RemainingSize \in Nat
    BY <2>1, LedgerParts, ReservationParts, OneAssumption DEF Covers, Prices
  <2>3. price \in Nat BY <2>2
  <2>4. cost \in Nat
    <3> HIDE DEF price
    <3> QED BY <2>3 DEF RequiredCollateral
  <2>5. consumed \in Nat /\ consumed <= p.Reserved
    <3> HIDE DEF cost, p
    <3> QED BY <2>2, <2>4
  <2>6. left \in Nat
    <3> HIDE DEF p
    <3> QED BY <2>2 DEF Max0
  <2>7. tp \in TokenPosition BY TokenAtType DEF Covers
  <2> HIDE DEF left, consumed, cost, price
  <2>8. /\ IsLedger(settled, Ids, Tokens) /\ settled.Reserved = s.Reserved
        /\ settled.Tokens = s.Tokens /\ settled.Provisionals = s.Provisionals
        /\ Funded(settled.Orders)
        /\ HeldIn(settled.Orders, Balance) <= HeldIn(s.Orders, Balance) - Bought(p.Side, consumed)
    BY <2>1, <2>5, <2>6, SettleCovers
  <2> HIDE DEF settled, p
  <2>9. HeldIn(settled.Orders, Balance) \in Nat /\ Funded(settled.Provisionals)
    BY <2>8, HeldType DEF Covers
  <2>10. CASE side = "BUY"
    <3> DEFINE b == BoughtPosition(tp, price, size)
               w == SetToken(settled, tk, b)
               left2 == Max0(w.Reserved - consumed)
    <3>1. b \in TokenPosition BY <2>1, <2>3, <2>7, BoughtType
    <3> HIDE DEF b, tp
    <3>2. /\ IsLedger(w, Ids, Tokens) /\ w.Reserved = s.Reserved
          /\ w.Orders = settled.Orders /\ w.Provisionals = s.Provisionals
      BY <2>8, <3>1, SetTokenType
    <3>3. r = [w EXCEPT !.Reserved = left2]
      BY <1>2, <2>10 DEF ApplyFill, settled, price, tp, b, consumed, cost, left, p
    <3> HIDE DEF w
    <3>4. left2 \in Nat /\ left2 >= s.Reserved - consumed
      BY <2>5, <3>2, LedgerParts DEF Covers, Max0
    <3> HIDE DEF left2
    <3>5. r.Available = w.Available /\ r.Reserved = left2 BY <3>2, <3>3 DEF IsLedger
    <3>6. r = [w EXCEPT !.Available = r.Available, !.Reserved = r.Reserved]
      BY <3>2, <3>3, <3>5 DEF IsLedger
    <3>7. w.Available \in Int BY <3>2 DEF IsLedger
    <3>8. IsLedger(r, Ids, Tokens) /\ r.Orders = w.Orders /\ r.Provisionals = w.Provisionals
      BY ONLY <3>2, <3>4, <3>5, <3>6, <3>7, SetBalanceType
    <3>9. HeldIn(settled.Orders, Balance) <= HeldIn(s.Orders, Balance) - consumed
      BY <2>1, <2>8, <2>10 DEF Bought
    <3>10. HeldIn(settled.Orders, Balance) + HeldIn(s.Provisionals, Balance) <= r.Reserved
      BY <2>5, <2>9, <3>4, <3>5, <3>9, CoversNumbers
    <3> QED BY <2>8, <2>9, <3>2, <3>8, <3>10 DEF Covers, HeldBy
  <2>11. CASE side # "BUY"
    <3> DEFINE b == [tp EXCEPT !.Reserved = Max0(@ - consumed)]
               w == SetToken(booked, tk, b)
               more == w.Available + price * size
    <3>1. b \in TokenPosition
      <4>1. tp.Reserved \in Nat BY <2>7 DEF TokenPosition
      <4>2. Max0(tp.Reserved - consumed) \in Nat BY <2>5, <4>1 DEF Max0
      <4> HIDE DEF tp
      <4> QED BY <2>7, <4>2 DEF TokenPosition
    <3>2. gain \in Int /\ price * size \in Int
      <4>1. tp.AvgCost \in Nat BY <2>7 DEF TokenPosition
      <4> HIDE DEF tp
      <4> QED BY <2>3, <4>1
    <3> HIDE DEF gain, b, tp
    <3>3. /\ IsLedger(booked, Ids, Tokens) /\ booked.Reserved = settled.Reserved
          /\ booked.Orders = settled.Orders /\ booked.Provisionals = settled.Provisionals
      <4> DEFINE k == addDailyPnLLocked(settled, day, gain)
                 pnl == IF settled.DailyPnLDate # day THEN gain ELSE settled.DailyPnL + gain
      <4>1. pnl \in Int /\ k = [settled EXCEPT !.DailyPnL = pnl, !.DailyPnLDate = day]
        BY <2>8, <3>2 DEF addDailyPnLLocked, IsLedger
      <4> HIDE DEF pnl, k
      <4>2. /\ k.Available = settled.Available /\ k.Reserved = settled.Reserved
            /\ k.Tokens = settled.Tokens
            /\ k.Orders = settled.Orders /\ k.Provisionals = settled.Provisionals
            /\ k.DailyPnL \in Int /\ k.DailyPnLDate \in Nat /\ k = Fields(k)
        BY <2>8, <4>1 DEF IsLedger, Fields
      <4>3. IsLedger(k, Ids, Tokens) BY <2>8, <4>2 DEF IsLedger, Fields
      <4> QED BY <2>8, <4>2, <4>3 DEF k
    <3>4. r = [w EXCEPT !.Available = more]
      BY <1>2, <2>11 DEF ApplyFill, settled, price, tp, b, consumed, cost, left, p, gain
    <3> HIDE DEF booked
    <3>5. /\ IsLedger(w, Ids, Tokens) /\ w.Reserved = s.Reserved
          /\ w.Orders = settled.Orders /\ w.Provisionals = s.Provisionals
      BY <2>8, <3>1, <3>3, SetTokenType
    <3> HIDE DEF w
    <3>6. more \in Int BY <3>2, <3>5, LedgerParts
    <3> HIDE DEF more
    <3>7. r.Available = more /\ r.Reserved = w.Reserved BY <3>4, <3>5 DEF IsLedger
    <3>8. r = [w EXCEPT !.Available = r.Available, !.Reserved = r.Reserved]
      BY <3>4, <3>5, <3>7 DEF IsLedger
    <3>9. w.Reserved \in Nat BY <3>5 DEF IsLedger
    <3>10. IsLedger(r, Ids, Tokens) /\ r.Orders = w.Orders /\ r.Provisionals = w.Provisionals
      BY ONLY <3>5, <3>6, <3>7, <3>8, <3>9, SetBalanceType
    <3>11. HeldIn(settled.Orders, Balance) <= HeldIn(s.Orders, Balance)
      BY <2>1, <2>8, <2>11, CoversNumbers DEF Bought
    <3>12. HeldIn(settled.Orders, Balance) + HeldIn(s.Provisionals, Balance) <= r.Reserved
      BY <2>9, <3>5, <3>7, <3>11, CoversNumbers
    <3> QED BY <2>8, <2>9, <3>5, <3>10, <3>12 DEF Covers, HeldBy
  <2> QED BY <2>10, <2>11
<1> QED BY <1>1, <1>2

-----------------------------------------------------------------------------
(* The other goroutines.                                                   *)

\* The clock only shortens lives.
LEMMA ElapseCovers ==
    ASSUME NEW s, Covers(s), NEW r, r = Elapse(s)
    PROVE  Covers(r)
<1> DEFINE older(i) == [s.Provisionals[i] EXCEPT !.Life = Max0(@ - 1)]
           ps == [i \in DOMAIN s.Provisionals |-> older(i)]
<1>1. r = [s EXCEPT !.Orders = s.Orders, !.Provisionals = ps]
  BY DEF Elapse, Covers, IsLedger
<1>2. ASSUME NEW i \in DOMAIN s.Provisionals
      PROVE  /\ older(i) \in ProvisionalReservation(Tokens)
             /\ Share(older(i), Balance) = Share(s.Provisionals[i], Balance)
             /\ older(i).Reserved \in Nat
  <2> DEFINE p == s.Provisionals[i]
  <2>1. p \in ProvisionalReservation(Tokens) BY LedgerParts DEF Covers
  <2> HIDE DEF p
  <2>2. Max0(p.Life - 1) \in 0 .. TTL
    BY <2>1, TTLAssumption DEF ProvisionalReservation, Max0
  <2>3. [p EXCEPT !.Life = Max0(@ - 1)] \in ProvisionalReservation(Tokens)
    BY <2>1, <2>2 DEF ProvisionalReservation
  <2> QED BY <2>1, <2>3 DEF p, ProvisionalReservation, Share
<1> HIDE DEF older
<1>3. IsMap(ps, Ids, ProvisionalReservation(Tokens))
  BY <1>2, LedgerParts DEF IsMap, Covers
<1>4. Funded(ps) /\ DOMAIN ps = DOMAIN s.Provisionals
  BY <1>2 DEF Funded, Covers
<1>5. HeldIn(ps, Balance) = HeldIn(s.Provisionals, Balance)
  <2>1. \A i \in DOMAIN s.Provisionals : Share(ps[i], Balance) = Share(s.Provisionals[i], Balance)
    BY <1>2
  <2> HIDE DEF ps
  <2> QED BY <1>4, <2>1, HeldSame DEF Covers
<1> HIDE DEF ps
<1>6. Rebooked(s, r, s.Orders, ps)
  <2>1. IsMap(s.Orders, Ids, OrderReservation(Tokens)) BY LedgerParts DEF Covers
  <2> QED BY <1>1, <1>3, <2>1, SetMapsType DEF Covers
<1> QED BY <1>4, <1>5, <1>6 DEF Rebooked, Covers, HeldBy

\* One pass of the cleanup ticker.
LEMMA CleanupCovers ==
    ASSUME NEW s, Covers(s), NEW r, r = CleanupExpiredProvisional(s)
    PROVE  Covers(r)
<1> DEFINE gone == Restrict(s.Provisionals, Expired(s))
           sold == {gone[i].TokenID : i \in {x \in DOMAIN gone : gone[x].Side = "SELL"}}
           moved(t) == [TokenAt(s, t) EXCEPT
                          !.Available = @ + HeldIn(gone, PositionIn(t)),
                          !.Reserved  = Max0(@ - HeldIn(gone, PositionIn(t)))]
           back(t) == IF t \notin sold THEN s.Tokens[t] ELSE moved(t)
           tokens == [t \in DOMAIN s.Tokens \cup sold |-> back(t)]
           a == s.Available + HeldIn(gone, Balance)
           b == Max0(s.Reserved - HeldIn(gone, Balance))
           ps == Del(s.Provisionals, Expired(s))
<1>1. r = [s EXCEPT !.Provisionals = ps, !.Available = a, !.Reserved = b, !.Tokens = tokens]
  BY DEF CleanupExpiredProvisional
<1>2. Expired(s) \subseteq DOMAIN s.Provisionals BY DEF Expired
<1>3. /\ Funded(gone) /\ Funded(ps)
      /\ HeldIn(s.Provisionals, Balance) = HeldIn(gone, Balance) + HeldIn(ps, Balance)
  BY <1>2, HeldSplit DEF Covers
<1>4. \A i \in DOMAIN gone : gone[i].TokenID \in Tokens
  BY <1>2, LedgerParts, ReservationParts DEF Restrict, Covers
<1>5. HeldIn(gone, Balance) \in Nat /\ HeldIn(ps, Balance) \in Nat BY <1>3, HeldType
<1>6. a \in Int /\ b \in Nat /\ b >= s.Reserved - HeldIn(gone, Balance)
  <2> HIDE DEF gone
  <2> QED BY <1>5, LedgerParts DEF Covers, Max0
<1>7. sold \subseteq Tokens /\ DOMAIN s.Tokens \subseteq Tokens
  BY <1>4, LedgerParts DEF Covers, IsMap
<1>8. ASSUME NEW t \in DOMAIN s.Tokens \cup sold
      PROVE  back(t) \in TokenPosition
  <2>1. CASE t \in sold
    <3>1. TokenAt(s, t) \in TokenPosition BY <1>7, <2>1, TokenAtType DEF Covers
    <3>2. HeldIn(gone, PositionIn(t)) \in Nat BY <1>3, HeldType
    <3>3. moved(t) \in TokenPosition
      <4> HIDE DEF gone
      <4> QED BY <3>1, <3>2, PositionMoves
    <3> HIDE DEF moved, sold
    <3> QED BY <2>1, <3>3
  <2>2. CASE t \notin sold
    <3>1. t \in DOMAIN s.Tokens /\ back(t) = s.Tokens[t] BY <2>2
    <3> HIDE DEF back, sold
    <3> QED BY <3>1, LedgerParts DEF Covers, IsMap
  <2> QED BY <2>1, <2>2
<1> HIDE DEF gone, sold, moved, back, a, b
<1>9. IsMap(tokens, Tokens, TokenPosition) BY <1>7, <1>8 DEF IsMap
<1>10. IsMap(ps, Ids, ProvisionalReservation(Tokens)) BY DelMap, LedgerParts DEF Covers
<1> HIDE DEF tokens, ps
<1>11. /\ r.Available = a /\ r.Reserved = b /\ r.Tokens = tokens
       /\ r.Orders = s.Orders /\ r.Provisionals = ps
       /\ r.DailyPnL = s.DailyPnL /\ r.DailyPnLDate = s.DailyPnLDate /\ r = Fields(r)
  BY <1>1 DEF Covers, IsLedger, Fields
<1>12. IsLedger(r, Ids, Tokens)
  BY <1>6, <1>9, <1>10, <1>11 DEF Covers, IsLedger, Fields
<1>13. HeldIn(s.Orders, Balance) + HeldIn(ps, Balance) <= b
  BY <1>3, <1>5, <1>6, CoversNumbers
<1> QED BY <1>3, <1>11, <1>12, <1>13 DEF Covers, HeldBy

\* The write of a balance sync.
LEMMA SyncCovers ==
    ASSUME NEW s, Covers(s), NEW total \in Int, NEW r, r = ReconcileOnchainBalance(s, total)
    PROVE  Covers(r)
<1> DEFINE a == Max0(total - s.Reserved)
<1>1. r = [s EXCEPT !.Available = a] BY DEF ReconcileOnchainBalance
<1>2. a \in Int /\ s.Reserved \in Nat BY LedgerParts DEF Covers, Max0
<1> HIDE DEF a
<1>3. r.Available = a /\ r.Reserved = s.Reserved BY <1>1 DEF Covers, IsLedger
<1>4. r = [s EXCEPT !.Available = r.Available, !.Reserved = r.Reserved]
  BY <1>1, <1>3 DEF Covers, IsLedger
<1>5. IsLedger(s, Ids, Tokens) BY DEF Covers
<1>6. IsLedger(r, Ids, Tokens) /\ r.Orders = s.Orders /\ r.Provisionals = s.Provisionals
  BY ONLY <1>2, <1>3, <1>4, <1>5, SetBalanceType
<1> QED BY <1>3, <1>6 DEF Covers, HeldBy

-----------------------------------------------------------------------------
(* What was bought: nothing but a fill adds to it.                         *)

\* Of each token t, at most B[t] was booked as bought.
Bounded(s, B) == \A t \in Tokens : TokenAt(s, t).TotalBought <= B[t]

\* The positions are the same.
LEMMA SameBounded ==
    ASSUME NEW s, NEW B, Bounded(s, B), NEW r, r.Tokens = s.Tokens
    PROVE  Bounded(r, B)
BY DEF Bounded, TokenAt

\* One position is replaced.
LEMMA SetTokenBounded ==
    ASSUME NEW s, IsLedger(s, Ids, Tokens), NEW B, Bounded(s, B), NEW tk \in Tokens,
           NEW tp, tp.TotalBought <= B[tk], NEW r, r = SetToken(s, tk, tp)
    PROVE  Bounded(r, B)
<1>1. r.Tokens = Put(s.Tokens, tk, tp) BY DEF SetToken, IsLedger
<1>2. \A t \in Tokens : TokenAt(r, t) = IF t = tk THEN tp ELSE TokenAt(s, t)
  BY <1>1 DEF TokenAt, Put
<1> QED BY <1>2 DEF Bounded

\* Reserve and releaseReservedLocked buy nothing.
LEMMA MoveBounded ==
    ASSUME NEW s, IsLedger(s, Ids, Tokens), NEW B, Bounded(s, B), NEW side \in Sides,
           NEW tk \in Tokens, NEW amount
    PROVE  /\ Bounded(Reserve(s, side, tk, amount), B)
           /\ Bounded(releaseReservedLocked(s, side, tk, amount), B)
<1>1. CASE side = "BUY"
  <2>1. Reserve(s, side, tk, amount).Tokens = s.Tokens
        /\ releaseReservedLocked(s, side, tk, amount).Tokens = s.Tokens
    BY <1>1 DEF Reserve, releaseReservedLocked, IsLedger
  <2> QED BY <2>1, SameBounded
<1>2. CASE side # "BUY"
  <2> DEFINE q == TokenAt(s, tk)
             taken == [q EXCEPT !.Available = @ - amount, !.Reserved = @ + amount]
             given == [q EXCEPT !.Available = @ + amount, !.Reserved = Max0(@ - amount)]
  <2>1. q \in TokenPosition /\ q.TotalBought <= B[tk] BY TokenAtType DEF Bounded
  <2>2. Reserve(s, side, tk, amount) = SetToken(s, tk, taken)
        /\ releaseReservedLocked(s, side, tk, amount) = SetToken(s, tk, given)
    BY <1>2 DEF Reserve, releaseReservedLocked
  <2> HIDE DEF q
  <2>3. taken.TotalBought = q.TotalBought /\ given.TotalBought = q.TotalBought
    BY <2>1 DEF TokenPosition
  <2> HIDE DEF taken, given
  <2> QED BY <2>1, <2>2, <2>3, SetTokenBounded
<1> QED BY <1>1, <1>2

\* An order, or an intent, is entered and its collateral taken.
LEMMA AddBounded ==
    ASSUME NEW s, Covers(s), NEW B, Bounded(s, B), NEW n,
           n.Side \in Sides, n.TokenID \in Tokens, n.Reserved \in Nat,
           NEW os, NEW ps
    PROVE  /\ Bounded([Reserve(s, n.Side, n.TokenID, n.Reserved) EXCEPT !.Orders = os], B)
           /\ Bounded([Reserve(s, n.Side, n.TokenID, n.Reserved) EXCEPT !.Provisionals = ps], B)
<1> DEFINE taken == Reserve(s, n.Side, n.TokenID, n.Reserved)
<1>1. IsLedger(taken, Ids, Tokens) /\ Bounded(taken, B) BY ReserveType, MoveBounded DEF Covers
<1> HIDE DEF taken
<1>2. [taken EXCEPT !.Orders = os].Tokens = taken.Tokens
      /\ [taken EXCEPT !.Provisionals = ps].Tokens = taken.Tokens
  BY <1>1 DEF IsLedger
<1> QED BY <1>1, <1>2, SameBounded DEF taken

\* ReleaseProvisional and ReleaseOrder.
LEMMA ReleaseBounded ==
    ASSUME NEW s, Covers(s), NEW B, Bounded(s, B), NEW x
    PROVE  Bounded(ReleaseProvisional(s, x), B) /\ Bounded(ReleaseOrder(s, x), B)
<1>0. IsLedger(s, Ids, Tokens) BY DEF Covers
<1>1. ASSUME x \in DOMAIN s.Provisionals PROVE Bounded(ReleaseProvisional(s, x), B)
  <2> DEFINE p == s.Provisionals[x]
             ps == Del(s.Provisionals, {x})
             d == [s EXCEPT !.Provisionals = Del(@, {x})]
  <2>1. p.Side \in Sides /\ p.TokenID \in Tokens BY <1>0, <1>1, LedgerParts, ReservationParts
  <2>2. ReleaseProvisional(s, x) = releaseReservedLocked(d, p.Side, p.TokenID, p.Reserved)
    BY <1>1 DEF ReleaseProvisional, FreeProvisional
  <2>3. IsMap(ps, Ids, ProvisionalReservation(Tokens))
        /\ IsMap(s.Orders, Ids, OrderReservation(Tokens))
    BY <1>0, DelMap, LedgerParts
  <2>4. d = [s EXCEPT !.Orders = s.Orders, !.Provisionals = ps] BY <1>0 DEF IsLedger
  <2> HIDE DEF p, ps, d
  <2>5. Rebooked(s, d, s.Orders, ps) BY <1>0, <2>3, <2>4, SetMapsType
  <2>6. IsLedger(d, Ids, Tokens) /\ Bounded(d, B) BY <2>5, SameBounded DEF Rebooked
  <2> QED BY <2>1, <2>2, <2>6, MoveBounded
<1>2. ASSUME x \in DOMAIN s.Orders PROVE Bounded(ReleaseOrder(s, x), B)
  <2> DEFINE p == s.Orders[x]
             os == Del(s.Orders, {x})
             d == [s EXCEPT !.Orders = Del(@, {x})]
  <2>1. p.Side \in Sides /\ p.TokenID \in Tokens BY <1>0, <1>2, LedgerParts, ReservationParts
  <2>2. ReleaseOrder(s, x) = releaseReservedLocked(d, p.Side, p.TokenID, p.Reserved)
    BY <1>2 DEF ReleaseOrder
  <2>3. IsMap(os, Ids, OrderReservation(Tokens))
        /\ IsMap(s.Provisionals, Ids, ProvisionalReservation(Tokens))
    BY <1>0, DelMap, LedgerParts
  <2>4. d = [s EXCEPT !.Orders = os, !.Provisionals = s.Provisionals] BY <1>0 DEF IsLedger
  <2> HIDE DEF p, os, d
  <2>5. Rebooked(s, d, os, s.Provisionals) BY <1>0, <2>3, <2>4, SetMapsType
  <2>6. IsLedger(d, Ids, Tokens) /\ Bounded(d, B) BY <2>5, SameBounded DEF Rebooked
  <2> QED BY <2>1, <2>2, <2>6, MoveBounded
<1> QED BY <1>1, <1>2 DEF ReleaseProvisional, ReleaseOrder

\* TryReserveProvisional.
LEMMA TryReserveBounded ==
    ASSUME NEW s, Covers(s), NEW B, Bounded(s, B), NEW i \in Ids, NEW r,
           r = TryReserveProvisional(s, i, Order[i].TokenID, Order[i].Side,
                                     Order[i].Price, Order[i].RequestedSize)
    PROVE  Bounded(r.st, B)
<1> DEFINE q == Order[i]
           amount == RequiredCollateral(q.Side, q.Price, q.RequestedSize)
           p == [TokenID |-> q.TokenID, Side |-> q.Side, Price |-> q.Price,
                 RemainingSize |-> q.RequestedSize, Reserved |-> amount, Life |-> TTL]
           ok == [Reserve(s, p.Side, p.TokenID, p.Reserved) EXCEPT !.Provisionals = Put(@, i, p)]
<1>1. r.st = s \/ r.st = ok
  BY DEF TryReserveProvisional, Result
<1>2. p.Side \in Sides /\ p.TokenID \in Tokens /\ p.Reserved \in Nat
  BY TermsType
<1>3. Bounded(ok, B)
  <2> HIDE DEF p
  <2> QED BY <1>2, AddBounded
<1> QED BY <1>1, <1>3

\* AttachOrder.
LEMMA AttachBounded ==
    ASSUME NEW s, Covers(s), NEW B, Bounded(s, B), NEW o \in Ids, NEW i, NEW r,
           r = AttachOrder(s, i, o, Order[o].TokenID, Order[o].Side,
                           Order[o].Price, Order[o].RequestedSize)
    PROVE  Bounded(r.st, B)
<1> DEFINE q == Order[o]
           n == NewReservation(q.TokenID, q.Side, q.Price, q.RequestedSize, FALSE)
           fresh == [Reserve(s, q.Side, q.TokenID, n.Reserved) EXCEPT !.Orders = Put(@, o, n)]
<1>1. \/ r.st = s \/ r.st = ReleaseProvisional(s, i)
      \/ r.st = ConvertProvisional(s, i, o)
      \/ r.st = fresh
  BY DEF AttachOrder, FreshReservation, NewReservation, Result
<1>2. n.TokenID = q.TokenID /\ n.Side = q.Side /\ q.Side \in Sides /\ q.TokenID \in Tokens
      /\ n.Reserved \in Nat
  BY TermsType DEF NewReservation
<1>3. Bounded(fresh, B)
  <2> HIDE DEF n
  <2> QED BY <1>2, AddBounded
<1>4. Bounded(ConvertProvisional(s, i, o), B)
  <2>1. ConvertProvisional(s, i, o).Tokens = s.Tokens BY DEF ConvertProvisional, Covers, IsLedger
  <2> QED BY <2>1, SameBounded
<1> QED BY <1>1, <1>3, <1>4, ReleaseBounded

\* A fill of a BUY adds its size, and nothing else does.
LEMMA ApplyFillBounded ==
    ASSUME NEW s, Covers(s), NEW B, Bounded(s, B), NEW C,
           \A t \in Tokens : B[t] \in Int /\ C[t] \in Int /\ B[t] <= C[t],
           NEW o, NEW tk \in Tokens, NEW side \in Sides, NEW size \in Nat, NEW fp \in Nat,
           NEW day \in Nat, side = "BUY" => B[tk] + size <= C[tk],
           NEW r, r = ApplyFill(s, o, tk, side, size, fp, day)
    PROVE  Bounded(r, C)
<1> DEFINE q(t) == TokenAt(s, t)
<1>0. IsLedger(s, Ids, Tokens)
      /\ \A t \in Tokens : q(t) \in TokenPosition /\ q(t).TotalBought \in Nat
  BY TokenAtType DEF Covers, TokenPosition
<1>1. \A t \in Tokens : q(t).TotalBought <= B[t] BY DEF Bounded
<1>2. \A t \in Tokens : q(t).TotalBought <= C[t]
  <2> HIDE DEF q
  <2> QED BY <1>0, <1>1
<1>3. Bounded(s, C) BY <1>2 DEF Bounded
<1>4. CASE FillError(s, o, tk, side, size) # "nil"
  BY <1>3, <1>4 DEF ApplyFill
<1>5. CASE FillError(s, o, tk, side, size) = "nil"
  <2> DEFINE p == s.Orders[o]
             price == IF fp <= 0 THEN p.Price ELSE fp
             cost == RequiredCollateral(side, price, size)
             consumed == IF cost > p.Reserved THEN p.Reserved ELSE cost
             left == Max0(p.RemainingSize - size)
             settled == SettleReservation(s, o, left, consumed)
             booked == IF q(tk).AvgCostKnown
                       THEN addDailyPnLLocked(settled, day, (price - q(tk).AvgCost) * size)
                       ELSE settled
             b == BoughtPosition(q(tk), price, size)
             c == [q(tk) EXCEPT !.Reserved = Max0(@ - consumed)]
  <2>1. r = IF side = "BUY"
            THEN [SetToken(settled, tk, b) EXCEPT !.Reserved = Max0(@ - consumed)]
            ELSE [SetToken(booked, tk, c) EXCEPT !.Available = @ + price * size]
    BY <1>5, Zenon DEF ApplyFill
  <2>2. settled.Tokens = s.Tokens /\ booked.Tokens = s.Tokens
    BY <1>0 DEF SettleReservation, addDailyPnLLocked, IsLedger
  <2>3. DOMAIN settled = DOMAIN s /\ DOMAIN booked = DOMAIN s
        /\ {"Tokens", "Reserved", "Available"} \subseteq DOMAIN s
    BY <1>0 DEF SettleReservation, addDailyPnLLocked, IsLedger
  <2>4. b.TotalBought = q(tk).TotalBought + size /\ c.TotalBought = q(tk).TotalBought
    <3> HIDE DEF q
    <3> QED BY <1>0 DEF BoughtPosition, TokenPosition
  <2> HIDE DEF settled, booked, b, c, price, consumed
  <2>5. r.Tokens = IF side = "BUY" THEN Put(s.Tokens, tk, b) ELSE Put(s.Tokens, tk, c)
    BY <2>1, <2>2, <2>3 DEF SetToken
  <2>6. \A t \in Tokens : TokenAt(r, t) = IF t # tk THEN q(t) ELSE IF side = "BUY" THEN b ELSE c
    BY <2>5 DEF TokenAt, Put
  <2> HIDE DEF q
  <2>7. side = "BUY" => b.TotalBought <= C[tk] BY <1>0, <1>1, <2>4
  <2>8. c.TotalBought <= C[tk] BY <1>2, <2>4
  <2> QED BY <1>2, <2>6, <2>7, <2>8 DEF Bounded
<1> QED BY <1>4, <1>5

\* Time and the cleanup ticker.
LEMMA CleanupBounded ==
    ASSUME NEW s, Covers(s), NEW B, Bounded(s, B)
    PROVE  Bounded(Elapse(s), B) /\ Bounded(CleanupExpiredProvisional(s), B)
<1>1. Elapse(s).Tokens = s.Tokens BY DEF Elapse, Covers, IsLedger
<1> DEFINE gone == Restrict(s.Provisionals, Expired(s))
           sold == {gone[i].TokenID : i \in {x \in DOMAIN gone : gone[x].Side = "SELL"}}
           moved(t) == [TokenAt(s, t) EXCEPT
                          !.Available = @ + HeldIn(gone, PositionIn(t)),
                          !.Reserved  = Max0(@ - HeldIn(gone, PositionIn(t)))]
           back(t) == IF t \notin sold THEN s.Tokens[t] ELSE moved(t)
           r == CleanupExpiredProvisional(s)
<1>2. r.Tokens = [t \in DOMAIN s.Tokens \cup sold |-> back(t)]
  BY DEF CleanupExpiredProvisional, Covers, IsLedger
<1> HIDE DEF r, sold, gone
<1>3. ASSUME NEW t \in Tokens PROVE TokenAt(r, t).TotalBought = TokenAt(s, t).TotalBought
  <2>1. TokenAt(s, t) \in TokenPosition BY TokenAtType DEF Covers
  <2>2. moved(t).TotalBought = TokenAt(s, t).TotalBought BY <2>1 DEF TokenPosition
  <2> HIDE DEF moved
  <2>3. CASE t \in sold BY <1>2, <2>2, <2>3 DEF TokenAt
  <2>4. CASE t \notin sold BY <1>2, <2>4 DEF TokenAt
  <2> QED BY <2>3, <2>4
<1>4. Bounded(r, B) BY <1>3 DEF Bounded
<1> QED BY <1>1, <1>4, SameBounded DEF r

\* A balance sync.
LEMMA SyncBounded ==
    ASSUME NEW s, Covers(s), NEW B, Bounded(s, B), NEW total
    PROVE  Bounded(ReconcileOnchainBalance(s, total), B)
<1>1. ReconcileOnchainBalance(s, total).Tokens = s.Tokens
  BY DEF ReconcileOnchainBalance, Covers, IsLedger
<1> QED BY <1>1, SameBounded

-----------------------------------------------------------------------------
(* Reconcile and Restore.                                                  *)

\* Every ledger, as a set.
Maps(K, V) == UNION {[D -> V] : D \in SUBSET K}
Ledgers == [Available : Int, Reserved : Nat, Tokens : Maps(Tokens, TokenPosition),
            Orders : Maps(Ids, OrderReservation(Tokens)),
            Provisionals : Maps(Ids, ProvisionalReservation(Tokens)),
            DailyPnL : Int, DailyPnLDate : Nat]

\* A well-typed ledger is one of the set.
LEMMA LedgerInSet ==
    ASSUME NEW s, IsLedger(s, Ids, Tokens)
    PROVE  s \in Ledgers
<1>1. \A f, K, V : IsMap(f, K, V) => f \in Maps(K, V) BY DEF IsMap, Maps
<1>2. /\ s.Tokens \in Maps(Tokens, TokenPosition)
      /\ s.Orders \in Maps(Ids, OrderReservation(Tokens))
      /\ s.Provisionals \in Maps(Ids, ProvisionalReservation(Tokens))
  BY <1>1, LedgerParts
<1> QED BY <1>2 DEF IsLedger, Ledgers

\* The ledgers whose reservations are covered and in which no more was bought than B
\* says, as a set that a loop's values can be taken from.
Under(B) == {s \in Ledgers : Covers(s) /\ Bounded(s, B)}

\* They are all in that set.
LEMMA InUnder ==
    ASSUME NEW s, NEW B
    PROVE  s \in Under(B) <=> Covers(s) /\ Bounded(s, B)
BY LedgerInSet DEF Under, Covers

\* A covered ledger is under what it has bought itself.
Own(s) == [t \in Tokens |-> TokenAt(s, t).TotalBought]

LEMMA UnderOwn ==
    ASSUME NEW s, Covers(s)
    PROVE  s \in Under(Own(s)) /\ \A t \in Tokens : Own(s)[t] \in Nat
<1>1. \A t \in Tokens : TokenAt(s, t).TotalBought \in Nat
  BY TokenAtType DEF Covers, TokenPosition
<1>2. Bounded(s, Own(s)) BY <1>1 DEF Bounded, Own
<1> QED BY <1>1, <1>2, InUnder DEF Own

\* An open order the exchange tells of.
Remotes == [TokenID : Tokens, Side : Sides, Price : Prices, Remaining : Int]

\* An order attached without a funds check adds to Reserved what it holds.
LEMMA AttachExternalCovers ==
    ASSUME NEW B, NEW s \in Under(B), NEW o \in Ids, NEW ro \in Remotes
    PROVE  attachExternalLocked(s, o, ro) \in Under(B)
<1> DEFINE n == NewReservation(ro.TokenID, ro.Side, ro.Price, ro.Remaining, TRUE)
           c == RequiredCollateral(ro.Side, ro.Price, ro.Remaining)
           r == [Reserve(s, ro.Side, ro.TokenID, c) EXCEPT !.Orders = Put(@, o, n)]
<1>1. CASE attachExternalLocked(s, o, ro) = s BY <1>1
<1>2. CASE attachExternalLocked(s, o, ro) # s
  <2>1. ro.Remaining > 0 /\ attachExternalLocked(s, o, ro) = r
    BY <1>2 DEF attachExternalLocked
  <2>2. /\ n \in OrderReservation(Tokens) /\ n.TokenID = ro.TokenID /\ n.Side = ro.Side
        /\ n.Reserved = c
    <3>1. /\ ro.TokenID \in Tokens /\ ro.Side \in Sides /\ ro.Price \in Prices
          /\ ro.Remaining \in Nat \ {0} /\ ro.Remaining > 0
      BY <2>1 DEF Remotes
    <3>2. c \in Nat BY <3>1, OneAssumption DEF RequiredCollateral, Prices
    <3> HIDE DEF c
    <3> QED BY <3>1, <3>2 DEF c, NewReservation, OrderReservation
  <2> HIDE DEF n, c
  <2>3. Covers(s) /\ Bounded(s, B) BY InUnder
  <2>4. Covers(r) BY <2>2, <2>3, AddOrderCovers
  <2>5. n.Side \in Sides /\ n.TokenID \in Tokens /\ n.Reserved \in Nat
    BY <2>2, ReservationParts
  <2>6. Bounded(r, B)
    <3>1. Bounded([Reserve(s, n.Side, n.TokenID, n.Reserved) EXCEPT !.Orders = Put(@, o, n)], B)
      BY <2>3, <2>5, AddBounded
    <3> QED BY <2>2, <3>1
  <2> QED BY <2>1, <2>4, <2>6, InUnder
<1> QED BY <1>1, <1>2

\* A loop over the map's keys, in whatever order Go takes them: the picked one
\* is the last to be handled.
Picks(S) == [T \in SUBSET S |-> CHOOSE x \in T : TRUE]

\* Every order that is not open on the exchange is released, one after the other.
LEMMA ReleaseMissingStays ==
    ASSUME NEW L, NEW s \in L, IsFiniteSet(DOMAIN s.Orders), NEW remote,
           \A v \in L : \A o : ReleaseOrder(v, o) \in L
    PROVE  ReleaseMissing(s, remote) \in L
<1> DEFINE S == DOMAIN s.Orders \ DOMAIN remote
           F == [p \in S \X L |-> ReleaseOrder(p[2], p[1])]
           pick(T) == CHOOSE x \in T : TRUE
           Eq(h) == h = [T \in SUBSET S |->
                            IF T = {} THEN s ELSE ReleaseOrder(h[T \ {pick(T)}], pick(T))]
           iter == CHOOSE h : Eq(h)
<1>1. ReleaseMissing(s, remote) = iter[S]
  BY DEF ReleaseMissing, FoldSet, MapThenFoldSet
<1>2. IsFiniteSet(S) BY FS_Subset
<1>3. \A T \in SUBSET S : T # {} => Picks(S)[T] \in T BY DEF Picks
<1>4. s \in L /\ \A x \in S : \A v \in L : F[<<x, v>>] \in L
  OBVIOUS
<1>5. PICK g \in [SUBSET S -> L] : Loops(g, S, Picks(S), s, F)
  <2> HIDE DEF S, F
  <2> QED BY <1>2, <1>3, <1>4, LoopExists
<1>6. Eq(g)
  <2>1. ASSUME NEW T \in SUBSET S, T # {}
        PROVE  g[T] = ReleaseOrder(g[T \ {pick(T)}], pick(T))
    <3>1. Picks(S)[T] = pick(T) /\ pick(T) \in S BY <1>3, <2>1 DEF Picks
    <3>2. T \ {pick(T)} \in SUBSET S BY <2>1
    <3>3. g[T \ {pick(T)}] \in L BY <3>2
    <3> HIDE DEF pick
    <3> QED BY <1>5, <2>1, <3>1, <3>3 DEF Loops
  <2> HIDE DEF pick, S
  <2> QED BY <1>5, <2>1 DEF Loops
<1>7. Eq(iter)
  <2> HIDE DEF Eq
  <2> QED BY <1>6
<1>8. \A T \in SUBSET S : iter[T] = IF T = {} THEN s ELSE ReleaseOrder(iter[T \ {pick(T)}], pick(T))
  <2> HIDE DEF iter
  <2> QED BY <1>7
<1> HIDE DEF iter
<1>9. iter[{}] \in L BY <1>4, <1>8
<1>10. \A T \in SUBSET S : T # {} /\ iter[T \ {Picks(S)[T]}] \in L => iter[T] \in L
  <2> SUFFICES ASSUME NEW T \in SUBSET S, T # {}, iter[T \ {Picks(S)[T]}] \in L
               PROVE  iter[T] \in L
    OBVIOUS
  <2>1. Picks(S)[T] = pick(T) BY DEF Picks
  <2>2. iter[T] = ReleaseOrder(iter[T \ {pick(T)}], pick(T)) BY <1>8
  <2> HIDE DEF pick, S
  <2> QED BY <2>1, <2>2
<1>11. iter[S] \in L
  <2> HIDE DEF S, pick
  <2> QED BY <1>2, <1>3, <1>9, <1>10, LoopStays
<1> QED BY <1>1, <1>11

\* The reservations that are left stay covered.
LEMMA ReleaseMissingCovers ==
    ASSUME NEW B, NEW s \in Under(B), NEW remote
    PROVE  ReleaseMissing(s, remote) \in Under(B)
<1>1. IsFiniteSet(DOMAIN s.Orders) BY InUnder DEF Covers, Funded
<1>2. \A v \in Under(B) : \A o : ReleaseOrder(v, o) \in Under(B)
  BY InUnder, ReleaseOrderCovers, ReleaseBounded
<1> QED BY <1>1, <1>2, ReleaseMissingStays

\* The open orders that are not known are attached, one after the other.
LEMMA AttachMissingStays ==
    ASSUME NEW L, NEW s \in L, NEW remote, NEW S, IsFiniteSet(S),
           \A v \in L : \A o \in S : attachExternalLocked(v, o, remote[o]) \in L
    PROVE  AttachMissing(s, remote, S) \in L
<1> DEFINE F == [p \in S \X L |-> attachExternalLocked(p[2], p[1], remote[p[1]])]
           pick(T) == CHOOSE x \in T : TRUE
           turn(v, o) == attachExternalLocked(v, o, remote[o])
           Eq(h) == h = [T \in SUBSET S |-> IF T = {} THEN s ELSE turn(h[T \ {pick(T)}], pick(T))]
           iter == CHOOSE h : Eq(h)
<1>1. AttachMissing(s, remote, S) = iter[S]
  BY DEF AttachMissing, FoldSet, MapThenFoldSet
<1>2. \A v, o : o \in S /\ v \in L => turn(v, o) \in L
  OBVIOUS
<1>3. \A T \in SUBSET S : T # {} => Picks(S)[T] \in T BY DEF Picks
<1>4. s \in L /\ \A x \in S : \A v \in L : F[<<x, v>>] = turn(v, x)
  OBVIOUS
<1>5. \A x \in S : \A v \in L : F[<<x, v>>] \in L OBVIOUS
<1> HIDE DEF F, turn
<1>6. PICK g \in [SUBSET S -> L] : Loops(g, S, Picks(S), s, F)
  BY <1>3, <1>4, <1>5, LoopExists
<1>7. Eq(g)
  <2>1. ASSUME NEW T \in SUBSET S, T # {}
        PROVE  g[T] = turn(g[T \ {pick(T)}], pick(T))
    <3>1. Picks(S)[T] = pick(T) /\ pick(T) \in S BY <1>3, <2>1 DEF Picks
    <3>2. T \ {pick(T)} \in SUBSET S BY <2>1
    <3>3. g[T \ {pick(T)}] \in L BY <3>2
    <3> HIDE DEF pick
    <3> QED BY <1>4, <1>6, <2>1, <3>1, <3>3 DEF Loops
  <2> HIDE DEF pick
  <2> QED BY <1>6, <2>1 DEF Loops
<1>8. Eq(iter)
  <2> HIDE DEF Eq
  <2> QED BY <1>7
<1>9. \A T \in SUBSET S : iter[T] = IF T = {} THEN s ELSE turn(iter[T \ {pick(T)}], pick(T))
  <2> HIDE DEF iter
  <2> QED BY <1>8
<1> HIDE DEF iter
<1>10. iter[{}] \in L BY <1>4, <1>9
<1>11. \A T \in SUBSET S : T # {} /\ iter[T \ {Picks(S)[T]}] \in L => iter[T] \in L
  <2> SUFFICES ASSUME NEW T \in SUBSET S, T # {}, iter[T \ {Picks(S)[T]}] \in L
               PROVE  iter[T] \in L
    OBVIOUS
  <2>1. Picks(S)[T] = pick(T) /\ pick(T) \in S BY DEF Picks
  <2>2. iter[T] = turn(iter[T \ {pick(T)}], pick(T)) BY <1>9
  <2> HIDE DEF pick
  <2> QED BY <1>2, <2>1, <2>2
<1>12. iter[S] \in L
  <2> HIDE DEF pick
  <2> QED BY <1>3, <1>10, <1>11, LoopStays
<1> QED BY <1>1, <1>12

\* What they hold is covered too.
LEMMA AttachAllCovers ==
    ASSUME NEW B, NEW s \in Under(B), NEW remote, IsMap(remote, Ids, Remotes), NEW S,
           S \subseteq DOMAIN remote, IsFiniteSet(S)
    PROVE  AttachMissing(s, remote, S) \in Under(B)
<1>1. \A v \in Under(B) : \A o \in S : attachExternalLocked(v, o, remote[o]) \in Under(B)
  BY AttachExternalCovers DEF IsMap
<1> QED BY <1>1, AttachMissingStays

\* The orders known on both sides take the remote size and price, and keep what
\* they have reserved.
LEMMA UpdateCovers ==
    ASSUME NEW s, Covers(s), NEW remote, IsMap(remote, Ids, Remotes),
           NEW open, open = {o \in DOMAIN remote : remote[o].Remaining > 0},
           NEW os, os = [o \in DOMAIN s.Orders |->
                            IF o \notin open THEN s.Orders[o]
                            ELSE [s.Orders[o] EXCEPT !.RemainingSize = remote[o].Remaining,
                                                     !.Price = remote[o].Price]]
    PROVE  Covers([s EXCEPT !.Orders = os])
<1> DEFINE known(o) == IF o \notin open THEN s.Orders[o]
                       ELSE [s.Orders[o] EXCEPT !.RemainingSize = remote[o].Remaining,
                                                !.Price = remote[o].Price]
           updated == [s EXCEPT !.Orders = os]
<1>1. os = [o \in DOMAIN s.Orders |-> known(o)] OBVIOUS
<1>2. ASSUME NEW o \in DOMAIN s.Orders
      PROVE  /\ known(o) \in OrderReservation(Tokens) /\ known(o).Reserved \in Nat
             /\ Share(known(o), Balance) = Share(s.Orders[o], Balance)
  <2> DEFINE p == s.Orders[o]
  <2>1. p \in OrderReservation(Tokens) /\ p.Reserved \in Nat
    BY LedgerParts, ReservationParts DEF Covers
  <2>2. CASE o \notin open BY <2>1, <2>2
  <2>3. CASE o \in open
    <3>1. remote[o].Remaining \in Nat \ {0} /\ remote[o].Price \in Prices
      <4>1. remote[o] \in Remotes /\ remote[o].Remaining > 0 BY <2>3 DEF IsMap
      <4>2. remote[o].Remaining \in Int /\ remote[o].Price \in Prices BY ONLY <4>1 DEF Remotes
      <4> QED BY ONLY <4>1, <4>2
    <3>2. known(o) = [p EXCEPT !.RemainingSize = remote[o].Remaining, !.Price = remote[o].Price]
      BY <2>3
    <3> HIDE DEF p, known
    <3>3. /\ known(o) \in OrderReservation(Tokens) /\ known(o).Reserved = p.Reserved
          /\ known(o).Side = p.Side /\ known(o).TokenID = p.TokenID
      BY <2>1, <3>1, <3>2 DEF OrderReservation
    <3> QED BY <2>1, <3>3 DEF p, Share
  <2> QED BY <2>2, <2>3
<1> HIDE DEF known
<1>3. IsMap(os, Ids, OrderReservation(Tokens)) /\ Funded(os)
  <2>1. IsMap(s.Orders, Ids, OrderReservation(Tokens)) /\ Funded(s.Orders)
    BY LedgerParts DEF Covers
  <2> QED BY <1>1, <1>2, <2>1 DEF IsMap, Funded
<1>4. HeldIn(os, Balance) = HeldIn(s.Orders, Balance)
  <2>1. /\ Funded(s.Orders) /\ DOMAIN os = DOMAIN s.Orders
        /\ \A o \in DOMAIN s.Orders : Share(os[o], Balance) = Share(s.Orders[o], Balance)
    BY <1>1, <1>2 DEF Covers
  <2> QED BY ONLY <2>1, HeldSame
<1>5. updated = [s EXCEPT !.Orders = os, !.Provisionals = s.Provisionals]
  BY DEF Covers, IsLedger
<1> HIDE DEF updated
<1>6. Rebooked(s, updated, os, s.Provisionals)
  <2>1. IsMap(s.Provisionals, Ids, ProvisionalReservation(Tokens)) BY LedgerParts DEF Covers
  <2> QED BY <1>3, <1>5, <2>1, SetMapsType DEF Covers
<1>7. Covers(updated) BY <1>3, <1>4, <1>6 DEF Rebooked, Covers, HeldBy
<1> QED BY <1>7 DEF updated

\* The first critical section of a reconcile pass, with whatever it fetched.
LEMMA ReconcileOrdersUnder ==
    ASSUME NEW B, NEW s \in Under(B), NEW remote, IsMap(remote, Ids, Remotes),
           IsFiniteSet(DOMAIN remote)
    PROVE  reconcileOrders(s, remote) \in Under(B)
<1> DEFINE open == {o \in DOMAIN remote : remote[o].Remaining > 0}
           released == ReleaseMissing(s, remote)
           os == [o \in DOMAIN released.Orders |->
                    IF o \notin open THEN released.Orders[o]
                    ELSE [released.Orders[o] EXCEPT !.RemainingSize = remote[o].Remaining,
                                                    !.Price = remote[o].Price]]
           updated == [released EXCEPT !.Orders = os]
           S == open \ DOMAIN s.Orders
<1>1. reconcileOrders(s, remote) = AttachMissing(updated, remote, S)
  BY DEF reconcileOrders
<1>2. Covers(released) /\ Bounded(released, B) BY ReleaseMissingCovers, InUnder
<1>3. S \subseteq DOMAIN remote /\ IsFiniteSet(S) BY FS_Subset
<1> HIDE DEF released
<1>4. Covers(updated) BY <1>2, UpdateCovers
<1>5. updated.Tokens = released.Tokens BY <1>2 DEF Covers, IsLedger
<1> HIDE DEF S, updated
<1>6. updated \in Under(B) BY <1>2, <1>4, <1>5, SameBounded, InUnder
<1>7. AttachMissing(updated, remote, S) \in Under(B) BY <1>3, <1>6, AttachAllCovers
<1> QED BY <1>1, <1>7

\* So the reservations stay covered.
LEMMA ReconcileOrdersCovers ==
    ASSUME NEW s, Covers(s), NEW remote, IsMap(remote, Ids, Remotes),
           IsFiniteSet(DOMAIN remote)
    PROVE  Covers(reconcileOrders(s, remote))
BY UnderOwn, ReconcileOrdersUnder, InUnder

\* Redeemed positions are deleted.
LEMMA RedeemCovers ==
    ASSUME NEW s, Covers(s), NEW tokens, NEW r, r = ClearRedeemedPositions(s, tokens)
    PROVE  Covers(r)
<1> DEFINE ts == Del(s.Tokens, tokens)
<1>1. /\ r.Available = s.Available /\ r.Reserved = s.Reserved /\ r.Tokens = ts
      /\ r.Orders = s.Orders /\ r.Provisionals = s.Provisionals
      /\ r.DailyPnL = s.DailyPnL /\ r.DailyPnLDate = s.DailyPnLDate /\ r = Fields(r)
  BY DEF ClearRedeemedPositions, Covers, IsLedger, Fields
<1>2. IsMap(ts, Tokens, TokenPosition) BY LedgerParts, DelMap DEF Covers
<1> HIDE DEF ts
<1>3. IsLedger(r, Ids, Tokens) BY <1>1, <1>2 DEF Covers, IsLedger, Fields
<1> QED BY <1>1, <1>3 DEF Covers, HeldBy

\* A position of which only the size is known.
LEMMA SizeType ==
    ASSUME NEW n \in Nat
    PROVE  [ZeroPosition EXCEPT !.Available = n] \in TokenPosition
<1>1. ZeroPosition \in TokenPosition BY DEF ZeroPosition, TokenPosition
<1> QED BY <1>1 DEF TokenPosition

\* The second one: every position is overwritten.
LEMMA ReconcilePositionsCovers ==
    ASSUME NEW s, Covers(s), NEW remote, IsMap(remote, Tokens, Nat),
           NEW r, r = reconcilePositions(s, remote)
    PROVE  Covers(r)
<1> DEFINE at(t) == IF t \notin DOMAIN s.Tokens THEN [ZeroPosition EXCEPT !.Available = remote[t]]
                    ELSE [s.Tokens[t] EXCEPT
                            !.Available = IF @ + s.Tokens[t].Reserved = remote[t] THEN @
                                          ELSE Max0(remote[t] - s.Tokens[t].Reserved)]
           ts == [t \in DOMAIN remote |-> at(t)]
<1>1. r = [s EXCEPT !.Tokens = ts] BY DEF reconcilePositions
<1>2. ASSUME NEW t \in DOMAIN remote PROVE at(t) \in TokenPosition
  <2>1. remote[t] \in Nat BY DEF IsMap
  <2>2. CASE t \notin DOMAIN s.Tokens BY <2>1, <2>2, SizeType
  <2>3. CASE t \in DOMAIN s.Tokens
    <3> DEFINE q == s.Tokens[t]
               a == IF q.Available + q.Reserved = remote[t] THEN q.Available
                    ELSE Max0(remote[t] - q.Reserved)
    <3>1. q \in TokenPosition BY <2>3, LedgerParts DEF Covers, IsMap
    <3>2. at(t) = [q EXCEPT !.Available = a] BY <2>3
    <3> HIDE DEF q, at
    <3>3. a \in Int BY <2>1, <3>1 DEF TokenPosition, Max0
    <3> HIDE DEF a
    <3> QED BY <3>1, <3>2, <3>3 DEF TokenPosition
  <2> QED BY <2>2, <2>3
<1> HIDE DEF at
<1>3. IsMap(ts, Tokens, TokenPosition) BY <1>2 DEF IsMap
<1> HIDE DEF ts
<1>4. /\ r.Available = s.Available /\ r.Reserved = s.Reserved /\ r.Tokens = ts
      /\ r.Orders = s.Orders /\ r.Provisionals = s.Provisionals
      /\ r.DailyPnL = s.DailyPnL /\ r.DailyPnLDate = s.DailyPnLDate /\ r = Fields(r)
  BY <1>1 DEF Covers, IsLedger, Fields
<1>5. IsLedger(r, Ids, Tokens) BY <1>3, <1>4 DEF Covers, IsLedger, Fields
<1> QED BY <1>4, <1>5 DEF Covers, HeldBy

\* A position that is dropped, or new, has bought nothing.
LEMMA ReconcilePositionsBounded ==
    ASSUME NEW s, Covers(s), NEW B, Bounded(s, B), \A t \in Tokens : B[t] \in Nat,
           NEW remote, IsMap(remote, Tokens, Nat)
    PROVE  Bounded(reconcilePositions(s, remote), B)
<1> DEFINE at(t) == IF t \notin DOMAIN s.Tokens THEN [ZeroPosition EXCEPT !.Available = remote[t]]
                    ELSE [s.Tokens[t] EXCEPT
                            !.Available = IF @ + s.Tokens[t].Reserved = remote[t] THEN @
                                          ELSE Max0(remote[t] - s.Tokens[t].Reserved)]
           r == reconcilePositions(s, remote)
<1>1. r.Tokens = [t \in DOMAIN remote |-> at(t)] BY DEF reconcilePositions, Covers, IsLedger
<1> HIDE DEF r
<1>2. ZeroPosition.TotalBought = 0 BY DEF ZeroPosition
<1>3. ASSUME NEW t \in Tokens
      PROVE  TokenAt(r, t).TotalBought \in {0, TokenAt(s, t).TotalBought}
  <2>1. TokenAt(s, t) \in TokenPosition BY TokenAtType DEF Covers
  <2>2. t \in DOMAIN s.Tokens => at(t).TotalBought = TokenAt(s, t).TotalBought
    BY <2>1 DEF TokenAt, TokenPosition
  <2>3. t \notin DOMAIN s.Tokens => at(t).TotalBought = 0 BY DEF ZeroPosition
  <2> HIDE DEF at
  <2> QED BY <1>1, <1>2, <2>2, <2>3 DEF TokenAt
<1>4. \A t \in Tokens : 0 <= B[t] OBVIOUS
<1>5. \A t \in Tokens : TokenAt(r, t).TotalBought <= B[t] BY <1>3, <1>4 DEF Bounded
<1> QED BY <1>5 DEF r, Bounded

\* Restore starts from a balance that was read before, and takes the collateral
\* of every order on top of what that balance had reserved.
LEMMA RestoreUnder ==
    ASSUME NEW s, Covers(s), NEW bal \in Int \X Nat, NEW orders, IsMap(orders, Ids, Remotes),
           IsFiniteSet(DOMAIN orders), NEW held, IsMap(held, Tokens, Nat), NEW B,
           \A t \in Tokens : B[t] \in Nat
    PROVE  Restore(s, bal, orders, held) \in Under(B)
<1> DEFINE ts == [t \in DOMAIN held |-> [ZeroPosition EXCEPT !.Available = held[t]]]
           fresh == [s EXCEPT !.Tokens = ts, !.Available = bal[1], !.Reserved = bal[2],
                              !.Orders = << >>, !.Provisionals = << >>]
           S == {o \in DOMAIN orders : orders[o].Remaining > 0}
           new(o) == NewReservation(orders[o].TokenID, orders[o].Side, orders[o].Price,
                                    orders[o].Remaining, FALSE)
           turn(v, o) == [Reserve(v, new(o).Side, new(o).TokenID, new(o).Reserved)
                            EXCEPT !.Orders = Put(@, o, new(o))]
           F == [p \in S \X Under(B) |-> turn(p[2], p[1])]
           pick(T) == CHOOSE x \in T : TRUE
           Eq(h) == h = [T \in SUBSET S |->
                            IF T = {} THEN fresh ELSE turn(h[T \ {pick(T)}], pick(T))]
           iter == CHOOSE h : Eq(h)
<1>1. Restore(s, bal, orders, held) = iter[S]
  BY DEF Restore, FoldSet, MapThenFoldSet
<1>2. ASSUME NEW v \in Under(B), NEW o \in S PROVE turn(v, o) \in Under(B)
  <2>1. o \in Ids /\ orders[o] \in Remotes /\ orders[o].Remaining > 0 BY DEF IsMap
  <2>2. new(o) \in OrderReservation(Tokens)
    <3>1. /\ orders[o].TokenID \in Tokens /\ orders[o].Side \in Sides
          /\ orders[o].Price \in Prices /\ orders[o].Remaining \in Nat \ {0}
          /\ FALSE \in BOOLEAN
      BY <2>1 DEF Remotes
    <3> QED BY <3>1, NewReservationType
  <2> HIDE DEF new
  <2>3. Covers(v) /\ Bounded(v, B) BY InUnder
  <2>4. Covers(turn(v, o)) BY <2>1, <2>2, <2>3, AddOrderCovers
  <2>5. Bounded(turn(v, o), B) BY <2>2, <2>3, ReservationParts, AddBounded
  <2> HIDE DEF turn
  <2> QED BY <2>4, <2>5, InUnder
<1>3. \A T \in SUBSET S : T # {} => Picks(S)[T] \in T BY DEF Picks
<1>4. fresh \in Under(B)
  <2>1. \A t \in DOMAIN held : [ZeroPosition EXCEPT !.Available = held[t]] \in TokenPosition
    BY SizeType DEF IsMap
  <2>2. IsMap(ts, Tokens, TokenPosition) BY <2>1 DEF IsMap
  <2>3. bal[1] \in Int /\ bal[2] \in Nat OBVIOUS
  <2> HIDE DEF ts
  <2>4. /\ fresh.Available = bal[1] /\ fresh.Reserved = bal[2] /\ fresh.Tokens = ts
        /\ fresh.Orders = << >> /\ fresh.Provisionals = << >>
        /\ fresh.DailyPnL = s.DailyPnL /\ fresh.DailyPnLDate = s.DailyPnLDate
        /\ fresh = Fields(fresh)
    <3>1. s = Fields(s) BY DEF Covers, IsLedger, Fields
    <3> DEFINE x == bal[1] 
               y == bal[2]
    <3>3. fresh = [s EXCEPT !.Tokens = ts, !.Available = x, !.Reserved = y,
                            !.Orders = << >>, !.Provisionals = << >>] OBVIOUS
    <3> HIDE DEF x, y, fresh
    <3>2. fresh = [Available |-> x, Reserved |-> y, Tokens |-> ts, Orders |-> << >>,
                   Provisionals |-> << >>, DailyPnL |-> s.DailyPnL,
                   DailyPnLDate |-> s.DailyPnLDate]
      BY ONLY <3>1, <3>3 DEF Fields
    <3> QED BY <3>2 DEF Fields, x, y
  <2> HIDE DEF fresh
  <2>5. IsMap(<< >>, Ids, OrderReservation(Tokens))
        /\ IsMap(<< >>, Ids, ProvisionalReservation(Tokens)) /\ DOMAIN << >> = {}
    BY DEF IsMap
  <2>6. IsLedger(fresh, Ids, Tokens)
    BY <2>2, <2>3, <2>4, <2>5 DEF Covers, IsLedger, Fields
  <2>7. Funded(<< >>) /\ HeldIn(<< >>, Balance) = 0
    BY <2>5, HeldNothing, FS_EmptySet DEF Funded
  <2>8. Covers(fresh) BY <2>3, <2>4, <2>6, <2>7 DEF Covers, HeldBy
  <2>9. \A t \in Tokens : TokenAt(fresh, t).TotalBought = 0
    BY <2>4 DEF TokenAt, ZeroPosition, ts
  <2>10. Bounded(fresh, B) BY <2>9 DEF Bounded
  <2> QED BY <2>8, <2>10, InUnder
<1>5. IsFiniteSet(S) BY FS_Subset
<1>6. \A x \in S : \A v \in Under(B) : F[<<x, v>>] = turn(v, x)
  <2> HIDE DEF turn
  <2> QED OBVIOUS
<1> HIDE DEF S, F, turn, new, fresh
<1>7. PICK g \in [SUBSET S -> Under(B)] : Loops(g, S, Picks(S), fresh, F)
  <2>1. \A x \in S : \A v \in Under(B) : F[<<x, v>>] \in Under(B) BY <1>2, <1>6
  <2> QED BY <1>3, <1>4, <1>5, <2>1, LoopExists
<1>8. Eq(g)
  <2>1. ASSUME NEW T \in SUBSET S, T # {}
        PROVE  g[T] = turn(g[T \ {pick(T)}], pick(T))
    <3>1. Picks(S)[T] = pick(T) /\ pick(T) \in S BY <1>3, <2>1 DEF Picks
    <3>2. T \ {pick(T)} \in SUBSET S BY <2>1
    <3>3. g[T \ {pick(T)}] \in Under(B) BY <3>2
    <3> HIDE DEF pick
    <3> QED BY <1>6, <1>7, <2>1, <3>1, <3>3 DEF Loops
  <2> HIDE DEF pick
  <2> QED BY <1>7, <2>1 DEF Loops
<1>9. Eq(iter)
  <2> HIDE DEF Eq
  <2> QED BY <1>8
<1>10. \A T \in SUBSET S :
            iter[T] = IF T = {} THEN fresh ELSE turn(iter[T \ {pick(T)}], pick(T))
  <2> HIDE DEF iter
  <2> QED BY <1>9
<1> HIDE DEF iter
<1>11. iter[{}] \in Under(B) BY <1>4, <1>10
<1>12. \A T \in SUBSET S : T # {} /\ iter[T \ {Picks(S)[T]}] \in Under(B) => iter[T] \in Under(B)
  <2> SUFFICES ASSUME NEW T \in SUBSET S, T # {}, iter[T \ {Picks(S)[T]}] \in Under(B)
               PROVE  iter[T] \in Under(B)
    OBVIOUS
  <2>1. Picks(S)[T] = pick(T) /\ pick(T) \in S BY DEF Picks
  <2>2. iter[T] = turn(iter[T \ {pick(T)}], pick(T)) BY <1>10
  <2> HIDE DEF pick
  <2> QED BY <1>2, <2>1, <2>2
<1>13. iter[S] \in Under(B)
  <2> HIDE DEF pick
  <2> QED BY <1>3, <1>5, <1>11, <1>12, LoopStays
<1> QED BY <1>1, <1>13

\* So the reservations are covered.
LEMMA RestoreCovers ==
    ASSUME NEW s, Covers(s), NEW bal \in Int \X Nat, NEW orders, IsMap(orders, Ids, Remotes),
           IsFiniteSet(DOMAIN orders), NEW held, IsMap(held, Tokens, Nat)
    PROVE  Covers(Restore(s, bal, orders, held))
BY UnderOwn, RestoreUnder, InUnder

\* A process that starts has nothing reserved.
LEMMA NewStateCovers == Covers(NewState)
<1>1. IsMap(<< >>, Tokens, TokenPosition) /\ IsMap(<< >>, Ids, OrderReservation(Tokens))
      /\ IsMap(<< >>, Ids, ProvisionalReservation(Tokens)) /\ DOMAIN << >> = {}
  BY DEF IsMap
<1>2. IsLedger(NewState, Ids, Tokens) BY <1>1 DEF NewState, IsLedger
<1>3. Funded(<< >>) /\ HeldIn(<< >>, Balance) = 0
  BY <1>1, HeldNothing, FS_EmptySet DEF Funded
<1> QED BY <1>2, <1>3 DEF Covers, HeldBy, NewState
=============================================================================
