-------------------------- MODULE LedgerOpsProofs --------------------------
(***************************************************************************)
(* What every operation on the ledger preserves, whoever calls it: no      *)
(* account is overdrawn, every reservation pays for what is left of its    *)
(* order, and the accounts agree with the reservations.                    *)
(***************************************************************************)
EXTENDS OrderTerms, SumProofs

\* The reservations of m were taken on the terms their orders were placed with.
TermsKept(m) ==
    \A x \in DOMAIN m : /\ m[x].TokenID = Order[x].TokenID
                        /\ m[x].Side = Order[x].Side
                        /\ m[x].Price = Order[x].Price

Backed(m) == FullyCollateralised(m) /\ TermsKept(m) /\ IsFiniteSet(DOMAIN m)

\* What every operation on the ledger preserves.
Sound(s) ==
    /\ IsLedger(s, Ids, Tokens) /\ Solvent(s)
    /\ Backed(s.Orders) /\ Backed(s.Provisionals)

-----------------------------------------------------------------------------
(* Maps.                                                                   *)

\* m[k] = v keeps a map a map.
LEMMA PutMap ==
    ASSUME NEW f, NEW K, NEW V, IsMap(f, K, V), NEW k \in K, NEW v \in V
    PROVE  IsMap(Put(f, k, v), K, V)
BY DEF IsMap, Put

\* delete(m, k) keeps a map a map and loses only k.
LEMMA DelMap ==
    ASSUME NEW f, NEW K, NEW V, IsMap(f, K, V), NEW D
    PROVE  /\ IsMap(Del(f, D), K, V)
           /\ DOMAIN Del(f, D) = DOMAIN f \ D
           /\ \A x \in DOMAIN f \ D : Del(f, D)[x] = f[x]
BY DEF IsMap, Del, Restrict

\* A reservation that is backed may be added, any may be removed.
LEMMA PutBacked ==
    ASSUME NEW m, Backed(m), NEW x, NEW r,
           IF r.Side = "BUY" THEN r.Reserved >= r.Price * r.RemainingSize
                             ELSE r.Reserved = r.RemainingSize,
           r.TokenID = Order[x].TokenID, r.Side = Order[x].Side, r.Price = Order[x].Price
    PROVE  Backed(Put(m, x, r))
<1>1. FullyCollateralised(Put(m, x, r)) /\ TermsKept(Put(m, x, r))
  BY DEF Backed, FullyCollateralised, TermsKept, Put
<1>2. DOMAIN Put(m, x, r) = DOMAIN m \cup {x} BY DEF Put
<1>3. IsFiniteSet(DOMAIN m \cup {x}) BY FS_AddElement DEF Backed
<1> QED BY <1>1, <1>2, <1>3 DEF Backed

\* Deleting reservations leaves the rest backed.
LEMMA DelBacked ==
    ASSUME NEW m, Backed(m), NEW D
    PROVE  Backed(Del(m, D))
<1>1. FullyCollateralised(Del(m, D)) /\ TermsKept(Del(m, D))
  BY DEF Backed, FullyCollateralised, TermsKept, Del, Restrict
<1>2. DOMAIN Del(m, D) \subseteq DOMAIN m BY DEF Del, Restrict
<1> QED BY <1>1, <1>2, FS_Subset DEF Backed

-----------------------------------------------------------------------------
(* What the reservations of a map hold.                                    *)

\* The amounts of a map's reservations can be added up.
Funded(m) == IsFiniteSet(DOMAIN m) /\ \A x \in DOMAIN m : m[x].Reserved \in Nat

\* Of one account a reservation holds all or nothing.
LEMMA ShareType ==
    ASSUME NEW r, r.Reserved \in Nat, NEW a
    PROVE  Share(r, a) \in Nat
BY DEF Share

\* What a map of reservations holds of an account is a natural number.
LEMMA HeldType ==
    ASSUME NEW m, Funded(m), NEW a
    PROVE  HeldIn(m, a) \in Nat
<1> DEFINE f == [x \in DOMAIN m |-> Share(m[x], a)]
<1>1. \A x \in DOMAIN m : f[x] \in Nat BY ShareType DEF Funded
<1>2. IsFiniteSet(DOMAIN m) BY DEF Funded
<1> HIDE DEF f
<1>3. SumOver(f, DOMAIN m) \in Nat BY <1>1, <1>2, SumType
<1> QED BY <1>3 DEF HeldIn, f

\* Only what each reservation holds of the account counts.
LEMMA HeldSame ==
    ASSUME NEW m, Funded(m), NEW n, DOMAIN n = DOMAIN m, NEW a,
           \A x \in DOMAIN m : Share(n[x], a) = Share(m[x], a)
    PROVE  HeldIn(n, a) = HeldIn(m, a)
<1> DEFINE f == [x \in DOMAIN m |-> Share(m[x], a)]
           g == [x \in DOMAIN n |-> Share(n[x], a)]
<1>1. \A x \in DOMAIN m : f[x] \in Int /\ f[x] = g[x] BY ShareType DEF Funded
<1>2. IsFiniteSet(DOMAIN m) BY DEF Funded
<1> HIDE DEF f, g
<1>3. SumOver(f, DOMAIN m) = SumOver(g, DOMAIN m) BY <1>1, <1>2, SumCong
<1> QED BY <1>3 DEF HeldIn, f, g

\* m[x] = r, for a key that is new or not.
LEMMA HeldPut ==
    ASSUME NEW m, Funded(m), NEW x, NEW r, r.Reserved \in Nat, NEW a
    PROVE  /\ Funded(Put(m, x, r))
           /\ x \notin DOMAIN m => HeldIn(Put(m, x, r), a) = HeldIn(m, a) + Share(r, a)
           /\ x \in DOMAIN m =>
                HeldIn(Put(m, x, r), a) = HeldIn(m, a) - Share(m[x], a) + Share(r, a)
<1> DEFINE D == DOMAIN m
           n == Put(m, x, r)
           f == [y \in D |-> Share(m[y], a)]
           g == [y \in D \cup {x} |-> Share(n[y], a)]
<1>1. /\ DOMAIN n = D \cup {x} /\ n[x] = r
      /\ \A y \in D : y # x => n[y] = m[y]
  BY DEF Put
<1>2. IsFiniteSet(D) /\ IsFiniteSet(D \cup {x}) BY FS_AddElement DEF Funded
<1>3. Funded(n)
  <2> HIDE DEF n
  <2> QED BY <1>1, <1>2 DEF Funded
<1>4. HeldIn(m, a) = SumOver(f, D) /\ HeldIn(n, a) = SumOver(g, D \cup {x})
  <2> HIDE DEF n
  <2> QED BY <1>1 DEF HeldIn
<1>5. /\ \A y \in D : f[y] \in Int
      /\ \A y \in D \cup {x} : g[y] \in Int
      /\ \A y \in D : y # x => f[y] = g[y]
      /\ g[x] = Share(r, a)
      /\ x \in D => f[x] = Share(m[x], a)
  <2> HIDE DEF n
  <2> QED BY <1>1, <1>3, ShareType DEF Funded
<1> HIDE DEF D, n, f, g
<1>6. CASE x \notin D
  <2>1. SumOver(g, D \cup {x}) = g[x] + SumOver(g, D) BY <1>2, <1>5, <1>6, SumAdd
  <2>2. SumOver(f, D) = SumOver(g, D)
    <3>1. \A y \in D : f[y] \in Int /\ f[y] = g[y] BY <1>5, <1>6
    <3> QED BY <1>2, <3>1, SumCong
  <2>3. SumOver(f, D) \in Int BY <1>2, <1>5, SumType
  <2>4. g[x] \in Int BY <1>5
  <2>5. HeldIn(n, a) = HeldIn(m, a) + Share(r, a)
    <3>1. HeldIn(n, a) = g[x] + HeldIn(m, a) BY <1>4, <2>1, <2>2
    <3>2. HeldIn(m, a) \in Int BY <1>4, <2>3
    <3> QED BY ONLY <3>1, <3>2, <1>5, <2>4
  <2> QED BY <1>3, <1>6, <2>5 DEF n, D
<1>7. CASE x \in D
  <2>1. D \cup {x} = D BY <1>7
  <2>2. SumOver(g, D) = SumOver(f, D) - f[x] + g[x]
    <3>1. \A y \in D : f[y] \in Int /\ g[y] \in Int BY <1>5
    <3>2. \A y \in D \ {x} : f[y] = g[y] BY <1>5
    <3> QED BY <1>2, <1>7, <3>1, <3>2, SumUpdate
  <2>3. HeldIn(n, a) = HeldIn(m, a) - Share(m[x], a) + Share(r, a)
    <3>1. g[x] = Share(r, a) /\ f[x] = Share(m[x], a) BY <1>5, <1>7
    <3> QED BY <1>4, <2>1, <2>2, <3>1
  <2> QED BY <1>3, <1>7, <2>3 DEF n, D
<1> QED BY <1>6, <1>7

\* The reservations of some keys, and those of the others.
LEMMA HeldSplit ==
    ASSUME NEW m, Funded(m), NEW E, E \subseteq DOMAIN m, NEW a
    PROVE  /\ Funded(Restrict(m, E)) /\ Funded(Del(m, E))
           /\ HeldIn(m, a) = HeldIn(Restrict(m, E), a) + HeldIn(Del(m, E), a)
<1> DEFINE D == DOMAIN m
           u == Restrict(m, E)
           v == Del(m, E)
           f == [y \in D |-> Share(m[y], a)]
           g == [y \in E |-> Share(u[y], a)]
           h == [y \in D \ E |-> Share(v[y], a)]
<1>1. /\ DOMAIN u = E /\ \A y \in E : u[y] = m[y]
      /\ DOMAIN v = D \ E /\ \A y \in D \ E : v[y] = m[y]
  BY DEF Del, Restrict
<1>2. IsFiniteSet(D) /\ IsFiniteSet(E) /\ IsFiniteSet(D \ E) BY FS_Subset DEF Funded
<1> HIDE DEF u, v
<1>3. Funded(u) /\ Funded(v) BY <1>1, <1>2 DEF Funded
<1>4. HeldIn(m, a) = SumOver(f, D) /\ HeldIn(u, a) = SumOver(g, E)
      /\ HeldIn(v, a) = SumOver(h, D \ E)
  BY <1>1 DEF HeldIn
<1>5. /\ \A y \in D : f[y] \in Int
      /\ \A y \in E : f[y] \in Int /\ f[y] = g[y]
      /\ \A y \in D \ E : f[y] \in Int /\ f[y] = h[y]
  BY <1>1, ShareType DEF Funded
<1>6. E \cap (D \ E) = {} /\ E \cup (D \ E) = D OBVIOUS
<1> HIDE DEF f, g, h, D
<1>7. SumOver(f, E \cup (D \ E)) = SumOver(f, E) + SumOver(f, D \ E)
  BY <1>2, <1>5, <1>6, SumDisjoint
<1>8. SumOver(f, E) = SumOver(g, E) /\ SumOver(f, D \ E) = SumOver(h, D \ E)
  BY <1>2, <1>5, SumCong
<1> QED BY <1>3, <1>4, <1>6, <1>7, <1>8 DEF u, v

\* delete(m, x).
LEMMA HeldDel ==
    ASSUME NEW m, Funded(m), NEW x \in DOMAIN m, NEW a
    PROVE  /\ Funded(Del(m, {x}))
           /\ HeldIn(Del(m, {x}), a) = HeldIn(m, a) - Share(m[x], a)
<1> DEFINE u == Restrict(m, {x})
           f == [y \in {x} |-> Share(u[y], a)]
<1>1. {x} \subseteq DOMAIN m OBVIOUS
<1>2. /\ Funded(u) /\ Funded(Del(m, {x}))
      /\ HeldIn(m, a) = HeldIn(u, a) + HeldIn(Del(m, {x}), a)
  BY <1>1, HeldSplit
<1>3. HeldIn(u, a) = Share(m[x], a)
  <2>1. DOMAIN u = {x} /\ u[x] = m[x] BY DEF Restrict
  <2>2. HeldIn(u, a) = SumOver(f, {x})
    <3> HIDE DEF u
    <3> QED BY <2>1 DEF HeldIn
  <2>3. f[x] = Share(m[x], a) /\ f[x] \in Int
    <3> HIDE DEF u
    <3> QED BY <2>1, ShareType DEF Funded
  <2> HIDE DEF f, u
  <2>4. {} \cup {x} = {x} OBVIOUS
  <2>5. SumOver(f, {} \cup {x}) = f[x] + SumOver(f, {})
    <3>1. IsFiniteSet({}) BY FS_EmptySet
    <3>2. \A y \in {} \cup {x} : f[y] \in Int BY <2>3
    <3>3. x \notin {} OBVIOUS
    <3> QED BY <3>1, <3>2, <3>3, SumAdd
  <2> QED BY <2>2, <2>3, <2>4, <2>5, SumEmpty
<1>4. HeldIn(Del(m, {x}), a) \in Int BY <1>2, HeldType
<1>5. Share(m[x], a) \in Int BY ShareType DEF Funded
<1> HIDE DEF u
<1> QED BY <1>5, <1>2, <1>3, <1>4

\* What one entry holds.
LEMMA HeldOne ==
    ASSUME NEW m, Funded(m), NEW x \in DOMAIN m, NEW a
    PROVE  HeldIn(Restrict(m, {x}), a) = Share(m[x], a)
<1>1. HeldIn(m, a) = HeldIn(Restrict(m, {x}), a) + HeldIn(Del(m, {x}), a)
      /\ Funded(Restrict(m, {x}))
  BY HeldSplit
<1>2. HeldIn(Del(m, {x}), a) = HeldIn(m, a) - Share(m[x], a) BY HeldDel
<1>3. HeldIn(m, a) \in Nat /\ HeldIn(Restrict(m, {x}), a) \in Nat BY <1>1, HeldType
<1>4. Share(m[x], a) \in Nat BY ShareType DEF Funded
<1> QED BY <1>1, <1>2, <1>3, <1>4

\* An empty map holds nothing.
LEMMA HeldNothing ==
    ASSUME NEW m, DOMAIN m = {}, NEW a
    PROVE  HeldIn(m, a) = 0
BY SumEmpty DEF HeldIn

\* The reservations of a sound ledger can be added up.
LEMMA SoundFunded ==
    ASSUME NEW s, Sound(s)
    PROVE  Funded(s.Orders) /\ Funded(s.Provisionals)
BY DEF Sound, IsLedger, IsMap, Backed, Funded, OrderReservation, ProvisionalReservation

\* The expired provisionals are finitely many, and hold naturals.
LEMMA ExpiredFunded ==
    ASSUME NEW s, Sound(s)
    PROVE  LET gone == Restrict(s.Provisionals, Expired(s))
           IN  /\ Funded(gone) /\ DOMAIN gone = Expired(s)
               /\ \A i \in DOMAIN gone : gone[i].TokenID \in Tokens
               /\ \A i \in DOMAIN gone : gone[i].Side \in Sides
<1>1. Expired(s) \subseteq DOMAIN s.Provisionals BY DEF Expired
<1>2. Funded(Restrict(s.Provisionals, Expired(s))) BY <1>1, SoundFunded, HeldSplit
<1>3. \A i \in DOMAIN s.Provisionals : /\ s.Provisionals[i].TokenID \in Tokens
                                        /\ s.Provisionals[i].Side \in Sides
  BY DEF Sound, IsLedger, IsMap, ProvisionalReservation
<1> QED BY <1>1, <1>2, <1>3 DEF Restrict

-----------------------------------------------------------------------------
(* The accounts.                                                           *)

\* A token's position is a position, also when it is missing from the map.
LEMMA TokenAtType ==
    ASSUME NEW s, IsLedger(s, Ids, Tokens), NEW tk \in Tokens
    PROVE  /\ TokenAt(s, tk) \in TokenPosition
           /\ Solvent(s) => TokenAt(s, tk).Available >= 0
BY DEF IsLedger, IsMap, TokenAt, ZeroPosition, TokenPosition, Solvent

\* Moving tokens between Available and Reserved gives a position.
LEMMA MoveType ==
    ASSUME NEW q \in TokenPosition, NEW amount \in Nat, q.Available >= 0
    PROVE  /\ LET tp == [q EXCEPT !.Available = @ + amount, !.Reserved = Max0(@ - amount)]
              IN  tp \in TokenPosition /\ tp.Available >= 0
           /\ q.Available >= amount =>
                LET tp == [q EXCEPT !.Available = @ - amount, !.Reserved = @ + amount]
                IN  tp \in TokenPosition /\ tp.Available >= 0
<1>1. [q EXCEPT !.Available = @ + amount, !.Reserved = Max0(@ - amount)] \in TokenPosition
  <2>1. q.Available + amount \in Int /\ Max0(q.Reserved - amount) \in Nat
    BY DEF TokenPosition, Max0
  <2> QED BY <2>1 DEF TokenPosition
<1>2. [q EXCEPT !.Available = @ + amount, !.Reserved = Max0(@ - amount)].Available >= 0
  BY DEF TokenPosition
<1>3. [q EXCEPT !.Available = @ - amount, !.Reserved = @ + amount] \in TokenPosition
  <2>1. q.Available - amount \in Int /\ q.Reserved + amount \in Nat
    BY DEF TokenPosition
  <2> QED BY <2>1 DEF TokenPosition
<1>4. q.Available >= amount =>
        [q EXCEPT !.Available = @ - amount, !.Reserved = @ + amount].Available >= 0
  BY DEF TokenPosition
<1> QED BY <1>1, <1>2, <1>3, <1>4, Zenon

\* A position that is not overdrawn may replace a token's.
LEMMA SetTokenSound ==
    ASSUME NEW s, IsLedger(s, Ids, Tokens), Solvent(s),
           NEW tk \in Tokens, NEW tp \in TokenPosition, tp.Available >= 0
    PROVE  /\ IsLedger(SetToken(s, tk, tp), Ids, Tokens)
           /\ Solvent(SetToken(s, tk, tp))
           /\ SetToken(s, tk, tp).Orders = s.Orders
           /\ SetToken(s, tk, tp).Provisionals = s.Provisionals
<1> DEFINE r == SetToken(s, tk, tp)
<1>1. r = [s EXCEPT !.Tokens = Put(@, tk, tp)] BY DEF SetToken
<1>2. /\ r.Available = s.Available /\ r.Reserved = s.Reserved
      /\ r.Tokens = Put(s.Tokens, tk, tp)
      /\ r.Orders = s.Orders /\ r.Provisionals = s.Provisionals
      /\ r.DailyPnL = s.DailyPnL /\ r.DailyPnLDate = s.DailyPnLDate
      /\ r = [Available |-> r.Available, Reserved |-> r.Reserved,
              Tokens |-> r.Tokens, Orders |-> r.Orders,
              Provisionals |-> r.Provisionals,
              DailyPnL |-> r.DailyPnL, DailyPnLDate |-> r.DailyPnLDate]
  BY <1>1 DEF IsLedger
<1>3. IsMap(r.Tokens, Tokens, TokenPosition)
  BY <1>2, PutMap DEF IsLedger
<1>4. IsLedger(r, Ids, Tokens)
  BY <1>2, <1>3 DEF IsLedger
<1>5. Solvent(r)
  BY <1>2 DEF Solvent, Put
<1> QED BY <1>2, <1>4, <1>5

\* The balance may take any values that are not below zero.
LEMMA SetBalanceSound ==
    ASSUME NEW s, IsLedger(s, Ids, Tokens), Solvent(s),
           NEW r, r.Available \in Nat, r.Reserved \in Nat,
           r = [s EXCEPT !.Available = r.Available, !.Reserved = r.Reserved]
    PROVE  /\ IsLedger(r, Ids, Tokens) /\ Solvent(r)
           /\ r.Orders = s.Orders /\ r.Provisionals = s.Provisionals
<1>1. /\ r.Tokens = s.Tokens
      /\ r.Orders = s.Orders /\ r.Provisionals = s.Provisionals
      /\ r.DailyPnL = s.DailyPnL /\ r.DailyPnLDate = s.DailyPnLDate
      /\ r = [Available |-> r.Available, Reserved |-> r.Reserved,
              Tokens |-> r.Tokens, Orders |-> r.Orders,
              Provisionals |-> r.Provisionals,
              DailyPnL |-> r.DailyPnL, DailyPnLDate |-> r.DailyPnLDate]
  BY DEF IsLedger
<1>2. IsLedger(r, Ids, Tokens) /\ Solvent(r)
  BY <1>1 DEF IsLedger, Solvent
<1> QED BY <1>1, <1>2

\* The reservations may be replaced by backed ones.
LEMMA SetMapsSound ==
    ASSUME NEW s, IsLedger(s, Ids, Tokens), Solvent(s), NEW os, NEW ps,
           IsMap(os, Ids, OrderReservation(Tokens)), Backed(os),
           IsMap(ps, Ids, ProvisionalReservation(Tokens)), Backed(ps),
           NEW r, r = [s EXCEPT !.Orders = os, !.Provisionals = ps]
    PROVE  Sound(r)
<1>1. /\ r.Available = s.Available /\ r.Reserved = s.Reserved /\ r.Tokens = s.Tokens
      /\ r.Orders = os /\ r.Provisionals = ps
      /\ r.DailyPnL = s.DailyPnL /\ r.DailyPnLDate = s.DailyPnLDate
      /\ r = [Available |-> r.Available, Reserved |-> r.Reserved,
              Tokens |-> r.Tokens, Orders |-> r.Orders,
              Provisionals |-> r.Provisionals,
              DailyPnL |-> r.DailyPnL, DailyPnLDate |-> r.DailyPnLDate]
  BY DEF IsLedger
<1>2. IsLedger(r, Ids, Tokens) /\ Solvent(r)
  BY <1>1 DEF IsLedger, Solvent
<1> QED BY <1>1, <1>2 DEF Sound

\* Taking collateral that is there overdraws nothing.
LEMMA ReserveSound ==
    ASSUME NEW s, IsLedger(s, Ids, Tokens), Solvent(s), NEW side \in Sides,
           NEW tk \in Tokens, NEW amount \in Nat, HasFunds(s, side, tk, amount),
           NEW r, r = Reserve(s, side, tk, amount)
    PROVE  /\ IsLedger(r, Ids, Tokens) /\ Solvent(r)
           /\ r.Orders = s.Orders /\ r.Provisionals = s.Provisionals
<1>1. CASE side = "BUY"
  <2>1. s.Available - amount \in Nat /\ s.Reserved + amount \in Nat
    BY <1>1 DEF HasFunds, IsLedger
  <2>2. r = [s EXCEPT !.Available = s.Available - amount, !.Reserved = s.Reserved + amount]
    BY <1>1 DEF Reserve
  <2>3. r.Available = s.Available - amount /\ r.Reserved = s.Reserved + amount
    BY <2>2 DEF IsLedger
  <2>4. r = [s EXCEPT !.Available = r.Available, !.Reserved = r.Reserved]
    BY <2>2, <2>3
  <2> QED BY ONLY <2>1, <2>3, <2>4, IsLedger(s, Ids, Tokens), Solvent(s), SetBalanceSound
<1>2. CASE side # "BUY"
  <2> DEFINE tp == [TokenAt(s, tk) EXCEPT !.Available = @ - amount, !.Reserved = @ + amount]
  <2>1. tp \in TokenPosition /\ tp.Available >= 0
    <3>1. TokenAt(s, tk) \in TokenPosition /\ TokenAt(s, tk).Available >= amount
      BY <1>2, TokenAtType DEF HasFunds
    <3>2. TokenAt(s, tk).Available >= 0 BY TokenAtType
    <3> QED BY <3>1, <3>2, MoveType, Zenon
  <2>2. Reserve(s, side, tk, amount) = SetToken(s, tk, tp)
    BY <1>2 DEF Reserve
  <2> QED BY <2>1, <2>2, SetTokenSound
<1> QED BY <1>1, <1>2

\* Returning collateral overdraws nothing.
LEMMA ReleaseSound ==
    ASSUME NEW s, IsLedger(s, Ids, Tokens), Solvent(s), NEW side \in Sides,
           NEW tk \in Tokens, NEW amount \in Nat,
           NEW r, r = releaseReservedLocked(s, side, tk, amount)
    PROVE  /\ IsLedger(r, Ids, Tokens) /\ Solvent(r)
           /\ r.Orders = s.Orders /\ r.Provisionals = s.Provisionals
<1>1. CASE side = "BUY"
  <2>1. s.Available + amount \in Nat /\ Max0(s.Reserved - amount) \in Nat
    BY DEF Solvent, IsLedger, Max0
  <2>2. r = [s EXCEPT !.Available = s.Available + amount,
                      !.Reserved = Max0(s.Reserved - amount)]
    BY <1>1 DEF releaseReservedLocked
  <2>3. r.Available = s.Available + amount /\ r.Reserved = Max0(s.Reserved - amount)
    BY <2>2 DEF IsLedger
  <2>4. r = [s EXCEPT !.Available = r.Available, !.Reserved = r.Reserved]
    BY <2>2, <2>3
  <2> QED BY ONLY <2>1, <2>3, <2>4, IsLedger(s, Ids, Tokens), Solvent(s), SetBalanceSound
<1>2. CASE side # "BUY"
  <2> DEFINE tp == [TokenAt(s, tk) EXCEPT !.Available = @ + amount,
                                          !.Reserved = Max0(@ - amount)]
  <2>1. tp \in TokenPosition /\ tp.Available >= 0
    <3>1. TokenAt(s, tk) \in TokenPosition /\ TokenAt(s, tk).Available >= 0
      BY TokenAtType
    <3> QED BY <3>1, MoveType, Zenon
  <2>2. releaseReservedLocked(s, side, tk, amount) = SetToken(s, tk, tp)
    BY <1>2 DEF releaseReservedLocked
  <2> QED BY <2>1, <2>2, SetTokenSound
<1> QED BY <1>1, <1>2

-----------------------------------------------------------------------------
(* The books: what each account has, has reserved, and what is held of it. *)

\* Going from s to r, n moved from Available to Reserved in account a, on
\* behalf of reservations.
Moved(s, r, a, n) ==
    /\ FreeIn(r, a) = FreeIn(s, a) - n
    /\ TakenFrom(r, a) = TakenFrom(s, a) + n
    /\ HeldBy(r, a) = HeldBy(s, a) + n

\* What account a gives when n is taken from account b.
Part(a, b, n) == IF a = b THEN n ELSE 0

\* A reservation draws on the balance or on its token's position.
LEMMA AccountType ==
    ASSUME NEW side \in Sides, NEW tk \in Tokens
    PROVE  /\ Account(side, tk) \in Accounts
           /\ side = "BUY" => Account(side, tk) = Balance
           /\ side # "BUY" => Account(side, tk) = PositionIn(tk)
BY DEF Account, Accounts

\* A position is the position of one token only.
LEMMA PositionInject ==
    ASSUME NEW t \in Tokens, NEW u \in Tokens
    PROVE  /\ PositionIn(t) # Balance /\ PositionIn(t)[2] = t
           /\ PositionIn(t) = PositionIn(u) => t = u
BY DEF PositionIn, Balance

\* An account is the balance or a position.
LEMMA AccountCases ==
    ASSUME NEW a \in Accounts
    PROVE  a = Balance \/ \E t \in Tokens : a = PositionIn(t) /\ a # Balance /\ a[2] = t
<1>1. a = Balance \/ \E t \in Tokens : a = PositionIn(t) BY DEF Accounts
<1> QED BY <1>1, PositionInject

\* The accounts and what is held are numbers.
LEMMA BooksType ==
    ASSUME NEW s, Sound(s), NEW a \in Accounts
    PROVE  /\ FreeIn(s, a) \in Nat /\ TakenFrom(s, a) \in Nat /\ HeldBy(s, a) \in Nat
           /\ HeldIn(s.Orders, a) \in Nat /\ HeldIn(s.Provisionals, a) \in Nat
<1>1. HeldIn(s.Orders, a) \in Nat /\ HeldIn(s.Provisionals, a) \in Nat
  BY SoundFunded, HeldType
<1>2. ASSUME a = Balance PROVE FreeIn(s, a) \in Nat /\ TakenFrom(s, a) \in Nat
  BY <1>2 DEF FreeIn, TakenFrom, Sound, IsLedger, Solvent
<1>3. ASSUME NEW t \in Tokens, a # Balance, a[2] = t
      PROVE  FreeIn(s, a) \in Nat /\ TakenFrom(s, a) \in Nat
  <2>1. TokenAt(s, t) \in TokenPosition /\ TokenAt(s, t).Available >= 0
    BY TokenAtType DEF Sound
  <2>2. FreeIn(s, a) = TokenAt(s, t).Available /\ TakenFrom(s, a) = TokenAt(s, t).Reserved
    BY <1>3 DEF FreeIn, TakenFrom
  <2> QED BY <2>1, <2>2 DEF TokenPosition
<1>4. FreeIn(s, a) \in Nat /\ TakenFrom(s, a) \in Nat
  BY <1>2, <1>3, AccountCases
<1>5. HeldBy(s, a) = HeldIn(s.Orders, a) + HeldIn(s.Provisionals, a) BY DEF HeldBy
<1>6. HeldBy(s, a) \in Nat BY <1>1, <1>5
<1> QED BY <1>1, <1>4, <1>6

\* What an account has free, and what it has taken, are integers.
LEMMA AccountsInt ==
    ASSUME NEW s, IsLedger(s, Ids, Tokens), NEW a \in Accounts
    PROVE  FreeIn(s, a) \in Int /\ TakenFrom(s, a) \in Int
<1>1. CASE a = Balance
  BY <1>1 DEF FreeIn, TakenFrom, IsLedger
<1>2. ASSUME NEW t \in Tokens, a # Balance, a[2] = t
      PROVE  FreeIn(s, a) \in Int /\ TakenFrom(s, a) \in Int
  <2>1. TokenAt(s, t) \in TokenPosition BY TokenAtType
  <2>2. FreeIn(s, a) = TokenAt(s, t).Available /\ TakenFrom(s, a) = TokenAt(s, t).Reserved
    BY <1>2 DEF FreeIn, TakenFrom
  <2> QED BY <2>1, <2>2 DEF TokenPosition
<1> QED BY <1>1, <1>2, AccountCases

\* The accounts are in three fields.
LEMMA SameAccounts ==
    ASSUME NEW s, NEW r, NEW a,
           r.Available = s.Available, r.Reserved = s.Reserved, r.Tokens = s.Tokens
    PROVE  FreeIn(r, a) = FreeIn(s, a) /\ TakenFrom(r, a) = TakenFrom(s, a)
BY DEF FreeIn, TakenFrom, TokenAt

\* One position is replaced.
LEMMA SetTokenAccounts ==
    ASSUME NEW s, IsLedger(s, Ids, Tokens), NEW tk \in Tokens, NEW tp, NEW a \in Accounts,
           NEW r, r = SetToken(s, tk, tp)
    PROVE  /\ FreeIn(r, a) = IF a = PositionIn(tk) THEN tp.Available ELSE FreeIn(s, a)
           /\ TakenFrom(r, a) = IF a = PositionIn(tk) THEN tp.Reserved ELSE TakenFrom(s, a)
<1>1. r.Available = s.Available /\ r.Reserved = s.Reserved /\ r.Tokens = Put(s.Tokens, tk, tp)
  BY DEF SetToken, IsLedger
<1>2. CASE a = Balance
  BY <1>1, <1>2, PositionInject DEF FreeIn, TakenFrom
<1>3. ASSUME NEW t \in Tokens, a = PositionIn(t), a # Balance, a[2] = t
      PROVE  /\ FreeIn(r, a) = IF a = PositionIn(tk) THEN tp.Available ELSE FreeIn(s, a)
             /\ TakenFrom(r, a) = IF a = PositionIn(tk) THEN tp.Reserved ELSE TakenFrom(s, a)
  <2>1. a = PositionIn(tk) <=> t = tk BY <1>3, PositionInject
  <2>2. TokenAt(r, t) = IF t = tk THEN tp ELSE TokenAt(s, t)
    BY <1>1 DEF TokenAt, Put
  <2> QED BY <1>3, <2>1, <2>2 DEF FreeIn, TakenFrom
<1> QED BY <1>2, <1>3, AccountCases

\* The balance is replaced.
LEMMA SetBalanceAccounts ==
    ASSUME NEW s, NEW r, NEW a \in Accounts, r.Tokens = s.Tokens
    PROVE  /\ FreeIn(r, a) = IF a = Balance THEN r.Available ELSE FreeIn(s, a)
           /\ TakenFrom(r, a) = IF a = Balance THEN r.Reserved ELSE TakenFrom(s, a)
BY DEF FreeIn, TakenFrom, TokenAt

\* The accounts when one position and the balance were written.
LEMMA TradeAccounts ==
    ASSUME NEW s, NEW r, NEW tk \in Tokens, NEW tp, r.Tokens = Put(s.Tokens, tk, tp),
           NEW a \in Accounts
    PROVE  FreeIn(r, a) = IF a = Balance THEN r.Available
                          ELSE IF a = PositionIn(tk) THEN tp.Available ELSE FreeIn(s, a)
<1>1. CASE a = Balance BY <1>1 DEF FreeIn
<1>2. ASSUME NEW t \in Tokens, a = PositionIn(t), a # Balance, a[2] = t
      PROVE  FreeIn(r, a) = IF a = PositionIn(tk) THEN tp.Available ELSE FreeIn(s, a)
  <2>1. a = PositionIn(tk) <=> t = tk BY <1>2, PositionInject
  <2>2. TokenAt(r, t) = IF t = tk THEN tp ELSE TokenAt(s, t) BY DEF TokenAt, Put
  <2> QED BY <1>2, <2>1, <2>2 DEF FreeIn
<1> QED BY <1>1, <1>2, AccountCases

\* Collateral is taken from one account.
LEMMA ReserveAccounts ==
    ASSUME NEW s, IsLedger(s, Ids, Tokens), NEW side \in Sides, NEW tk \in Tokens,
           NEW amount \in Nat, NEW r, r = Reserve(s, side, tk, amount), NEW a \in Accounts
    PROVE  /\ FreeIn(r, a) = FreeIn(s, a) - Part(a, Account(side, tk), amount)
           /\ TakenFrom(r, a) = TakenFrom(s, a) + Part(a, Account(side, tk), amount)
<1> DEFINE b == Account(side, tk)
<1>0. FreeIn(s, a) \in Int /\ TakenFrom(s, a) \in Int BY AccountsInt
<1>1. CASE side = "BUY"
  <2>1. b = Balance BY <1>1, AccountType
  <2>2. r = [s EXCEPT !.Available = s.Available - amount, !.Reserved = s.Reserved + amount]
    BY <1>1 DEF Reserve
  <2>3. /\ r.Available = s.Available - amount /\ r.Reserved = s.Reserved + amount
        /\ r.Tokens = s.Tokens
    BY <2>2 DEF IsLedger
  <2>4. /\ FreeIn(r, a) = IF a = Balance THEN r.Available ELSE FreeIn(s, a)
        /\ TakenFrom(r, a) = IF a = Balance THEN r.Reserved ELSE TakenFrom(s, a)
    BY <2>3, SetBalanceAccounts
  <2>5. a = Balance => FreeIn(s, a) = s.Available /\ TakenFrom(s, a) = s.Reserved
    BY DEF FreeIn, TakenFrom
  <2> QED BY <1>0, <2>1, <2>3, <2>4, <2>5 DEF Part
<1>2. CASE side # "BUY"
  <2> DEFINE tp == [TokenAt(s, tk) EXCEPT !.Available = @ - amount, !.Reserved = @ + amount]
  <2>1. b = PositionIn(tk) BY <1>2, AccountType
  <2>2. r = SetToken(s, tk, tp) BY <1>2 DEF Reserve
  <2>3. /\ tp.Available = TokenAt(s, tk).Available - amount
        /\ tp.Reserved = TokenAt(s, tk).Reserved + amount
    <3> DEFINE q == TokenAt(s, tk)
    <3>1. q \in TokenPosition BY TokenAtType
    <3> HIDE DEF q
    <3> QED BY <3>1 DEF q, TokenPosition
  <2> HIDE DEF tp
  <2>4. /\ FreeIn(r, a) = IF a = PositionIn(tk) THEN tp.Available ELSE FreeIn(s, a)
        /\ TakenFrom(r, a) = IF a = PositionIn(tk) THEN tp.Reserved ELSE TakenFrom(s, a)
    BY <2>2, SetTokenAccounts
  <2>5. a = PositionIn(tk) => /\ FreeIn(s, a) = TokenAt(s, tk).Available
                              /\ TakenFrom(s, a) = TokenAt(s, tk).Reserved
    BY PositionInject DEF FreeIn, TakenFrom
  <2> QED BY <1>0, <2>1, <2>3, <2>4, <2>5 DEF Part
<1> QED BY <1>1, <1>2

\* Whoever checks for funds looks at the account they are taken from.
LEMMA FundsThere ==
    ASSUME NEW s, NEW side \in Sides, NEW tk \in Tokens, NEW n, HasFunds(s, side, tk, n)
    PROVE  FreeIn(s, Account(side, tk)) >= n
<1>1. CASE side = "BUY" BY <1>1 DEF HasFunds, FreeIn, Account
<1>2. CASE side # "BUY" BY <1>2, PositionInject DEF HasFunds, FreeIn, Account
<1> QED BY <1>1, <1>2

\* Collateral is returned to one account.
LEMMA ReleaseAccounts ==
    ASSUME NEW s, IsLedger(s, Ids, Tokens), NEW side \in Sides, NEW tk \in Tokens,
           NEW amount \in Nat, NEW r, r = releaseReservedLocked(s, side, tk, amount),
           NEW a \in Accounts
    PROVE  /\ FreeIn(r, a) = FreeIn(s, a) + Part(a, Account(side, tk), amount)
           /\ Part(a, Account(side, tk), amount) <= TakenFrom(s, a) =>
                TakenFrom(r, a) = TakenFrom(s, a) - Part(a, Account(side, tk), amount)
<1> DEFINE b == Account(side, tk)
<1>0. FreeIn(s, a) \in Int /\ TakenFrom(s, a) \in Int BY AccountsInt
<1>1. CASE side = "BUY"
  <2>1. b = Balance BY <1>1, AccountType
  <2>2. r = [s EXCEPT !.Available = s.Available + amount,
                      !.Reserved = Max0(s.Reserved - amount)]
    BY <1>1 DEF releaseReservedLocked
  <2>3. /\ r.Available = s.Available + amount /\ r.Reserved = Max0(s.Reserved - amount)
        /\ r.Tokens = s.Tokens
    BY <2>2 DEF IsLedger
  <2>4. /\ FreeIn(r, a) = IF a = Balance THEN r.Available ELSE FreeIn(s, a)
        /\ TakenFrom(r, a) = IF a = Balance THEN r.Reserved ELSE TakenFrom(s, a)
    BY <2>3, SetBalanceAccounts
  <2>5. a = Balance => FreeIn(s, a) = s.Available /\ TakenFrom(s, a) = s.Reserved
    BY DEF FreeIn, TakenFrom
  <2> QED BY <1>0, <2>1, <2>3, <2>4, <2>5 DEF Part, Max0
<1>2. CASE side # "BUY"
  <2> DEFINE tp == [TokenAt(s, tk) EXCEPT !.Available = @ + amount,
                                          !.Reserved = Max0(@ - amount)]
  <2>1. b = PositionIn(tk) BY <1>2, AccountType
  <2>2. r = SetToken(s, tk, tp) BY <1>2 DEF releaseReservedLocked
  <2>3. /\ tp.Available = TokenAt(s, tk).Available + amount
        /\ tp.Reserved = Max0(TokenAt(s, tk).Reserved - amount)
    <3> DEFINE q == TokenAt(s, tk)
    <3>1. q \in TokenPosition BY TokenAtType
    <3> HIDE DEF q
    <3> QED BY <3>1 DEF q, TokenPosition
  <2> HIDE DEF tp
  <2>4. /\ FreeIn(r, a) = IF a = PositionIn(tk) THEN tp.Available ELSE FreeIn(s, a)
        /\ TakenFrom(r, a) = IF a = PositionIn(tk) THEN tp.Reserved ELSE TakenFrom(s, a)
    BY <2>2, SetTokenAccounts
  <2>5. a = PositionIn(tk) => /\ FreeIn(s, a) = TokenAt(s, tk).Available
                              /\ TakenFrom(s, a) = TokenAt(s, tk).Reserved
    BY PositionInject DEF FreeIn, TakenFrom
  <2> QED BY <1>0, <2>1, <2>3, <2>4, <2>5 DEF Part, Max0
<1> QED BY <1>1, <1>2

-----------------------------------------------------------------------------
(* The ledger at the start.                                                *)

\* Nothing is reserved yet.
LEMMA OpeningSound ==
    /\ Sound(OpeningLedger)
    /\ OpeningLedger.Available = Cash /\ OpeningLedger.Reserved = 0
    /\ OpeningLedger.DailyPnL = 0
    /\ DOMAIN OpeningLedger.Orders = {} /\ DOMAIN OpeningLedger.Provisionals = {}
    /\ \A t \in Tokens : TokenAt(OpeningLedger, t).Reserved = 0
    /\ \A a : HeldBy(OpeningLedger, a) = 0
    /\ \A a \in Accounts : TakenFrom(OpeningLedger, a) = 0
<1> DEFINE held == [t \in {u \in Tokens : Holdings[u] > 0} |->
                        [ZeroPosition EXCEPT !.Available = Holdings[t]]]
<1>1. OpeningLedger =
        [Available |-> Cash, Reserved |-> 0, Tokens |-> held, Orders |-> << >>,
         Provisionals |-> << >>, DailyPnL |-> 0, DailyPnLDate |-> 0]
  <2>1. OpeningLedger = [NewState EXCEPT !.Available = Cash, !.Tokens = held]
    BY DEF OpeningLedger
  <2> HIDE DEF held
  <2> QED BY <2>1 DEF NewState
<1>2. ASSUME NEW t \in Tokens
      PROVE  LET tp == [ZeroPosition EXCEPT !.Available = Holdings[t]]
             IN  tp \in TokenPosition /\ tp.Available >= 0 /\ tp.Reserved = 0
  <2> DEFINE tp == [ZeroPosition EXCEPT !.Available = Holdings[t]]
  <2>1. Holdings[t] \in Nat BY OrderAssumption
  <2>2. ZeroPosition \in TokenPosition /\ ZeroPosition.Reserved = 0
    BY DEF ZeroPosition, TokenPosition
  <2>3. tp \in TokenPosition /\ tp.Available >= 0 /\ tp.Reserved = 0
    BY <2>1, <2>2 DEF TokenPosition
  <2> QED BY <2>3
<1>3. /\ IsMap(held, Tokens, TokenPosition)
      /\ \A t \in DOMAIN held : held[t].Available >= 0 /\ held[t].Reserved = 0
  BY <1>2 DEF IsMap
<1> HIDE DEF held
<1>4. /\ IsMap(<< >>, Ids, OrderReservation(Tokens))
      /\ IsMap(<< >>, Ids, ProvisionalReservation(Tokens))
  BY DEF IsMap
<1>5. Backed(<< >>)
  BY FS_EmptySet DEF Backed, FullyCollateralised, TermsKept
<1>6. Sound(OpeningLedger)
  BY <1>1, <1>3, <1>4, <1>5, OrderAssumption DEF Sound, IsLedger, Solvent
<1>7. DOMAIN OpeningLedger.Orders = {} /\ DOMAIN OpeningLedger.Provisionals = {} BY <1>1
<1>8. ASSUME NEW a PROVE HeldBy(OpeningLedger, a) = 0
  <2>1. HeldIn(OpeningLedger.Orders, a) = 0 /\ HeldIn(OpeningLedger.Provisionals, a) = 0
    BY <1>7, HeldNothing
  <2> QED BY <2>1 DEF HeldBy
<1>9. \A t \in Tokens : TokenAt(OpeningLedger, t).Reserved = 0
  BY <1>1, <1>3 DEF TokenAt, ZeroPosition
<1>10. OpeningLedger.Available = Cash /\ OpeningLedger.Reserved = 0 /\ OpeningLedger.DailyPnL = 0
  BY <1>1
<1>11. \A a \in Accounts : TakenFrom(OpeningLedger, a) = 0
  BY <1>9, <1>10, AccountCases DEF TakenFrom
<1> QED BY <1>6, <1>7, <1>8, <1>9, <1>10, <1>11

-----------------------------------------------------------------------------
(* The operations.                                                         *)

\* The terms of an order are those of a reservation.
LEMMA TermsType ==
    ASSUME NEW o \in Ids
    PROVE  /\ Order[o].TokenID \in Tokens /\ Order[o].Side \in Sides
           /\ Order[o].Price \in Prices /\ Order[o].RequestedSize \in Nat \ {0}
           /\ RequiredCollateral(Order[o].Side, Order[o].Price, Order[o].RequestedSize) \in Nat
BY OrderAssumption, OneAssumption DEF Terms, RequiredCollateral, Prices

\* An order costs at least one unit.
LEMMA TermsCost ==
    ASSUME NEW o \in Ids
    PROVE  RequiredCollateral(Order[o].Side, Order[o].Price, Order[o].RequestedSize) \in Nat \ {0}
<1>1. \A x, y \in Nat \ {0} : x * y \in Nat \ {0} OBVIOUS
<1> QED BY <1>1, TermsType, OneAssumption DEF RequiredCollateral, Prices

\* TryReserveProvisional, called with an order's terms.
LEMMA TryReserveSound ==
    ASSUME NEW s, Sound(s), NEW i \in Ids, NEW r,
           r = TryReserveProvisional(s, i, Order[i].TokenID, Order[i].Side,
                                     Order[i].Price, Order[i].RequestedSize)
    PROVE  Sound(r.st)
<1> DEFINE q == Order[i]
           amount == RequiredCollateral(q.Side, q.Price, q.RequestedSize)
           taken == Reserve(s, q.Side, q.TokenID, amount)
           p == [TokenID |-> q.TokenID, Side |-> q.Side, Price |-> q.Price,
                 RemainingSize |-> q.RequestedSize, Reserved |-> amount, Life |-> TTL]
           ok == [taken EXCEPT !.Provisionals = Put(@, i, p)]
<1>1. r.st = s \/ (HasFunds(s, q.Side, q.TokenID, amount) /\ r.st = ok)
  BY DEF TryReserveProvisional, Result
<1>2. ASSUME HasFunds(s, q.Side, q.TokenID, amount) PROVE Sound(ok)
  <2>1. /\ IsLedger(taken, Ids, Tokens) /\ Solvent(taken)
        /\ taken.Orders = s.Orders /\ taken.Provisionals = s.Provisionals
    BY <1>2, ReserveSound, TermsType DEF Sound
  <2>2. p \in ProvisionalReservation(Tokens)
    BY TermsType, TTLAssumption DEF ProvisionalReservation
  <2>3. IF p.Side = "BUY" THEN p.Reserved >= p.Price * p.RemainingSize
                          ELSE p.Reserved = p.RemainingSize
    BY TermsType, OneAssumption DEF RequiredCollateral, Prices
  <2>4. p.TokenID = Order[i].TokenID /\ p.Side = Order[i].Side /\ p.Price = Order[i].Price
    OBVIOUS
  <2> HIDE DEF p, taken
  <2>5. IsMap(Put(taken.Provisionals, i, p), Ids, ProvisionalReservation(Tokens))
    BY <2>1, <2>2, PutMap DEF Sound, IsLedger
  <2>6. Backed(Put(taken.Provisionals, i, p))
    BY <2>1, <2>3, <2>4, PutBacked DEF Sound
  <2>7. ok = [taken EXCEPT !.Orders = taken.Orders,
                           !.Provisionals = Put(taken.Provisionals, i, p)]
    BY <2>1 DEF IsLedger
  <2>8. IsMap(taken.Orders, Ids, OrderReservation(Tokens)) /\ Backed(taken.Orders)
    BY <2>1 DEF Sound, IsLedger
  <2> QED BY <2>1, <2>5, <2>6, <2>7, <2>8, SetMapsSound
<1> QED BY <1>1, <1>2

\* Dropping a provisional or an order.
LEMMA DropProvisionalSound ==
    ASSUME NEW s, Sound(s), NEW i
    PROVE  Sound([s EXCEPT !.Provisionals = Del(@, {i})])
<1> DEFINE d == [s EXCEPT !.Provisionals = Del(@, {i})]
<1>1. d = [s EXCEPT !.Orders = s.Orders, !.Provisionals = Del(s.Provisionals, {i})]
  BY DEF Sound, IsLedger
<1>2. /\ IsMap(Del(s.Provisionals, {i}), Ids, ProvisionalReservation(Tokens))
      /\ Backed(Del(s.Provisionals, {i}))
      /\ IsMap(s.Orders, Ids, OrderReservation(Tokens)) /\ Backed(s.Orders)
      /\ IsLedger(s, Ids, Tokens) /\ Solvent(s)
  BY DelMap, DelBacked DEF Sound, IsLedger
<1> HIDE DEF d
<1>3. Sound(d) BY <1>1, <1>2, SetMapsSound
<1> QED BY <1>3 DEF d

\* An order's entry is deleted.
LEMMA DropOrderSound ==
    ASSUME NEW s, Sound(s), NEW o
    PROVE  Sound([s EXCEPT !.Orders = Del(@, {o})])
<1> DEFINE d == [s EXCEPT !.Orders = Del(@, {o})]
<1>1. d = [s EXCEPT !.Orders = Del(s.Orders, {o}), !.Provisionals = s.Provisionals]
  BY DEF Sound, IsLedger
<1>2. /\ IsMap(Del(s.Orders, {o}), Ids, OrderReservation(Tokens))
      /\ Backed(Del(s.Orders, {o}))
      /\ IsMap(s.Provisionals, Ids, ProvisionalReservation(Tokens))
      /\ Backed(s.Provisionals)
      /\ IsLedger(s, Ids, Tokens) /\ Solvent(s)
  BY DelMap, DelBacked DEF Sound, IsLedger
<1> HIDE DEF d
<1>3. Sound(d) BY <1>1, <1>2, SetMapsSound
<1> QED BY <1>3 DEF d

\* ... and returning what it holds.
LEMMA ReleaseProvisionalSound ==
    ASSUME NEW s, Sound(s), NEW i
    PROVE  Sound(ReleaseProvisional(s, i))
<1>1. CASE i \notin DOMAIN s.Provisionals
  BY <1>1 DEF ReleaseProvisional
<1>2. CASE i \in DOMAIN s.Provisionals
  <2> DEFINE p == s.Provisionals[i]
             d == [s EXCEPT !.Provisionals = Del(@, {i})]
  <2>1. p.Side \in Sides /\ p.TokenID \in Tokens /\ p.Reserved \in Nat
    BY <1>2 DEF Sound, IsLedger, IsMap, ProvisionalReservation
  <2>2. Sound(d) BY DropProvisionalSound
  <2>3. ReleaseProvisional(s, i) = releaseReservedLocked(d, p.Side, p.TokenID, p.Reserved)
    BY <1>2 DEF ReleaseProvisional, FreeProvisional
  <2> HIDE DEF p, d
  <2> QED BY <2>1, <2>2, <2>3, ReleaseSound DEF Sound
<1> QED BY <1>1, <1>2

\* ReleaseOrder keeps the ledger sound.
LEMMA ReleaseOrderSound ==
    ASSUME NEW s, Sound(s), NEW o
    PROVE  Sound(ReleaseOrder(s, o))
<1>1. CASE o \notin DOMAIN s.Orders
  BY <1>1 DEF ReleaseOrder
<1>2. CASE o \in DOMAIN s.Orders
  <2> DEFINE p == s.Orders[o]
             d == [s EXCEPT !.Orders = Del(@, {o})]
  <2>1. p.Side \in Sides /\ p.TokenID \in Tokens /\ p.Reserved \in Nat
    BY <1>2 DEF Sound, IsLedger, IsMap, OrderReservation
  <2>2. Sound(d) BY DropOrderSound
  <2>3. ReleaseOrder(s, o) = releaseReservedLocked(d, p.Side, p.TokenID, p.Reserved)
    BY <1>2 DEF ReleaseOrder
  <2> HIDE DEF p, d
  <2> QED BY <2>1, <2>2, <2>3, ReleaseSound DEF Sound
<1> QED BY <1>1, <1>2

\* The provisional's terms are the order's, so its reservation can be.
LEMMA AttachSound ==
    ASSUME NEW s, Sound(s), NEW o \in Ids, NEW i, i = o \/ i \notin Ids, NEW r,
           r = AttachOrder(s, i, o, Order[o].TokenID, Order[o].Side,
                           Order[o].Price, Order[o].RequestedSize)
    PROVE  Sound(r.st)
<1> DEFINE q == Order[o]
           amount == RequiredCollateral(q.Side, q.Price, q.RequestedSize)
           taken == Reserve(s, q.Side, q.TokenID, amount)
           n == NewReservation(q.TokenID, q.Side, q.Price, q.RequestedSize, FALSE)
           fresh == [taken EXCEPT !.Orders = Put(@, o, n)]
           p == s.Provisionals[o]
           c == [TokenID |-> p.TokenID, Side |-> p.Side, Price |-> p.Price,
                 RemainingSize |-> p.RemainingSize, Reserved |-> p.Reserved,
                 ExternalOrigin |-> FALSE]
           conv == [s EXCEPT !.Provisionals = Del(@, {o}), !.Orders = Put(@, o, c)]
<1>1. \/ r.st = s \/ r.st = ReleaseProvisional(s, i)
      \/ o \in DOMAIN s.Provisionals /\ r.st = conv
      \/ HasFunds(s, q.Side, q.TokenID, amount) /\ r.st = fresh
  <2>1. i \in DOMAIN s.Provisionals => i = o
    BY DEF Sound, IsLedger, IsMap
  <2> QED BY <2>1 DEF AttachOrder, ConvertProvisional, FreshReservation, Result
<1>2. ASSUME HasFunds(s, q.Side, q.TokenID, amount) PROVE Sound(fresh)
  <2>1. /\ IsLedger(taken, Ids, Tokens) /\ Solvent(taken)
        /\ taken.Orders = s.Orders /\ taken.Provisionals = s.Provisionals
    BY <1>2, ReserveSound, TermsType DEF Sound
  <2>2. n \in OrderReservation(Tokens)
    BY TermsType DEF OrderReservation, NewReservation
  <2>3. IF n.Side = "BUY" THEN n.Reserved >= n.Price * n.RemainingSize
                          ELSE n.Reserved = n.RemainingSize
    BY TermsType, OneAssumption DEF NewReservation, RequiredCollateral, Prices
  <2>4. n.TokenID = Order[o].TokenID /\ n.Side = Order[o].Side /\ n.Price = Order[o].Price
    BY DEF NewReservation
  <2> HIDE DEF n, taken
  <2>5. IsMap(Put(taken.Orders, o, n), Ids, OrderReservation(Tokens))
    BY <2>1, <2>2, PutMap DEF Sound, IsLedger
  <2>6. Backed(Put(taken.Orders, o, n))
    BY <2>1, <2>3, <2>4, PutBacked DEF Sound
  <2>7. fresh = [taken EXCEPT !.Orders = Put(taken.Orders, o, n),
                              !.Provisionals = taken.Provisionals]
    BY <2>1 DEF IsLedger
  <2>8. IsMap(taken.Provisionals, Ids, ProvisionalReservation(Tokens)) /\ Backed(taken.Provisionals)
    BY <2>1 DEF Sound, IsLedger
  <2> HIDE DEF fresh
  <2> QED BY <2>1, <2>5, <2>6, <2>7, <2>8, SetMapsSound
<1>3. ASSUME o \in DOMAIN s.Provisionals PROVE Sound(conv)
  <2>1. p \in ProvisionalReservation(Tokens)
    BY <1>3 DEF Sound, IsLedger, IsMap
  <2>2. c \in OrderReservation(Tokens)
    BY <2>1 DEF OrderReservation, ProvisionalReservation
  <2>3. IF c.Side = "BUY" THEN c.Reserved >= c.Price * c.RemainingSize
                          ELSE c.Reserved = c.RemainingSize
    BY <1>3 DEF Sound, Backed, FullyCollateralised
  <2>4. c.TokenID = Order[o].TokenID /\ c.Side = Order[o].Side /\ c.Price = Order[o].Price
    BY <1>3 DEF Sound, Backed, TermsKept
  <2> HIDE DEF c, p
  <2>5. IsMap(Put(s.Orders, o, c), Ids, OrderReservation(Tokens))
    BY <2>2, PutMap DEF Sound, IsLedger
  <2>6. Backed(Put(s.Orders, o, c))
    BY <2>3, <2>4, PutBacked DEF Sound
  <2>7. conv = [s EXCEPT !.Orders = Put(s.Orders, o, c), !.Provisionals = Del(s.Provisionals, {o})]
    BY DEF Sound, IsLedger
  <2>8. /\ IsMap(Del(s.Provisionals, {o}), Ids, ProvisionalReservation(Tokens))
        /\ Backed(Del(s.Provisionals, {o}))
        /\ IsLedger(s, Ids, Tokens) /\ Solvent(s)
    BY DelMap, DelBacked DEF Sound, IsLedger
  <2> HIDE DEF conv
  <2> QED BY <2>5, <2>6, <2>7, <2>8, SetMapsSound
<1> QED BY <1>1, <1>2, <1>3, ReleaseProvisionalSound

-----------------------------------------------------------------------------
(* A fill.                                                                 *)

\* Consuming size at a price no worse than the limit leaves enough for the
\* rest of the order.
LEMMA EnoughLeft ==
    ASSUME NEW X \in Nat, NEW P \in Nat, NEW R \in Nat, NEW p \in Nat, NEW n \in Nat,
           X >= P * R, p <= P, n < R
    PROVE  n * p <= X /\ X - n * p >= P * (R - n)
<1>1. n * p <= n * P OBVIOUS
<1>2. P * (R - n) = P * R - n * P OBVIOUS
<1>3. n * P <= P * R OBVIOUS
<1>4. n * p \in Nat /\ n * P \in Nat /\ P * R \in Nat OBVIOUS
<1> QED BY <1>1, <1>2, <1>3, <1>4

\* The average cost of a position is a natural number.
LEMMA AverageType ==
    ASSUME NEW x \in Nat, NEW y \in Nat \ {0}
    PROVE  x \div y \in Nat
OBVIOUS

\* What is consumed of an order's reservation for a trade, and what is left of
\* the order: a sale that is finished consumed all it held.
LEMMA ConsumedPart ==
    ASSUME NEW s, Sound(s), NEW o \in DOMAIN s.Orders, NEW size \in Nat \ {0}, NEW fp \in Nat,
           NEW price, price = IF fp <= 0 THEN s.Orders[o].Price ELSE fp,
           NEW cost, cost = RequiredCollateral(Order[o].Side, price, size),
           NEW consumed,
           consumed = IF cost > s.Orders[o].Reserved THEN s.Orders[o].Reserved ELSE cost,
           NEW left, left = Max0(s.Orders[o].RemainingSize - size)
    PROVE  /\ price \in Nat \ {0} /\ left \in Nat
           /\ s.Orders[o].Reserved \in Nat
           /\ consumed \in 1 .. s.Orders[o].Reserved
           /\ s.Orders[o].Side = Order[o].Side /\ s.Orders[o].TokenID = Order[o].TokenID
           /\ Order[o].Side # "BUY" /\ left <= 0 => consumed = s.Orders[o].Reserved
<1> DEFINE r == s.Orders[o]
<1>1. /\ r \in OrderReservation(Tokens) /\ r.Side = Order[o].Side
      /\ r.TokenID = Order[o].TokenID
      /\ IF r.Side = "BUY" THEN r.Reserved >= r.Price * r.RemainingSize
                           ELSE r.Reserved = r.RemainingSize
  BY DEF Sound, IsLedger, IsMap, Backed, FullyCollateralised, TermsKept
<1>2. /\ r.Reserved \in Nat /\ r.RemainingSize \in Nat \ {0} /\ r.Price \in Nat \ {0}
  BY <1>1, OneAssumption DEF OrderReservation, Prices
<1>3. \A x, y \in Nat \ {0} : x * y \in Nat \ {0} OBVIOUS
<1>4. r.Reserved # 0
  <2>1. r.Price * r.RemainingSize \in Nat \ {0} BY <1>2, <1>3
  <2> HIDE DEF r
  <2> QED BY <1>1, <1>2, <2>1
<1>5. price \in Nat \ {0} BY <1>2
<1>6. cost \in Nat \ {0}
  <2>1. size * price \in Nat \ {0} BY <1>3, <1>5
  <2> QED BY <2>1 DEF RequiredCollateral
<1>7. consumed \in 1 .. r.Reserved /\ left \in Nat BY <1>2, <1>4, <1>6 DEF Max0
<1>8. Order[o].Side # "BUY" /\ left <= 0 => consumed = r.Reserved
  <2> HIDE DEF r
  <2>1. left <= 0 => size >= r.RemainingSize BY <1>2 DEF Max0, r
  <2>2. Order[o].Side # "BUY" => cost = size BY DEF RequiredCollateral
  <2>3. consumed = IF cost > r.Reserved THEN r.Reserved ELSE cost BY DEF r
  <2> QED BY <1>1, <1>2, <2>1, <2>2, <2>3
<1> QED BY <1>1, <1>2, <1>5, <1>7, <1>8

\* The position after a BUY.
LEMMA BoughtType ==
    ASSUME NEW q \in TokenPosition, NEW price \in Nat, NEW size \in Nat \ {0}
    PROVE  /\ BoughtPosition(q, price, size) \in TokenPosition
           /\ q.Available >= 0 => BoughtPosition(q, price, size).Available >= 0
           /\ BoughtPosition(q, price, size).Available = q.Available + size
           /\ BoughtPosition(q, price, size).Reserved = q.Reserved
<1> DEFINE total == q.TotalBought + size
           avg == IF q.TotalBought <= 0 THEN price
                  ELSE (q.AvgCost * q.TotalBought + price * size) \div total
           b == BoughtPosition(q, price, size)
<1>1. total \in Nat \ {0} /\ q.AvgCost * q.TotalBought + price * size \in Nat
  BY DEF TokenPosition
<1>2. avg \in Nat
  BY <1>1, AverageType
<1>3. b = [q EXCEPT !.AvgCost = avg, !.TotalBought = total, !.AvgCostKnown = TRUE,
                    !.Available = q.Available + size]
  BY DEF BoughtPosition
<1>4. q.Available + size \in Int /\ (q.Available >= 0 => q.Available + size >= 0)
  BY DEF TokenPosition
<1> HIDE DEF avg, total, b
<1>5. b \in TokenPosition
  <2>1. b = [Available |-> q.Available + size, Reserved |-> q.Reserved, AvgCost |-> avg,
             AvgCostKnown |-> TRUE, TotalBought |-> total]
    BY <1>3 DEF TokenPosition
  <2>2. q.Reserved \in Nat BY DEF TokenPosition
  <2> QED BY <1>1, <1>2, <1>4, <2>1, <2>2 DEF TokenPosition
<1>6. b.Available = q.Available + size /\ b.Reserved = q.Reserved
  BY <1>3 DEF TokenPosition
<1> QED BY <1>4, <1>5, <1>6 DEF b

\* The daily counter touches neither the accounts nor the reservations.
LEMMA PnLSound ==
    ASSUME NEW s, Sound(s), NEW day \in Nat, NEW delta \in Int
    PROVE  Sound(addDailyPnLLocked(s, day, delta))
<1> DEFINE r == addDailyPnLLocked(s, day, delta)
           pnl == IF s.DailyPnLDate # day THEN delta ELSE s.DailyPnL + delta
<1>0. pnl \in Int /\ r = [s EXCEPT !.DailyPnL = pnl, !.DailyPnLDate = day]
  BY DEF Sound, IsLedger, addDailyPnLLocked
<1> HIDE DEF r, pnl
<1>1. /\ r.Available = s.Available /\ r.Reserved = s.Reserved /\ r.Tokens = s.Tokens
      /\ r.Orders = s.Orders /\ r.Provisionals = s.Provisionals
      /\ r.DailyPnL \in Int /\ r.DailyPnLDate \in Nat
      /\ r = [Available |-> r.Available, Reserved |-> r.Reserved,
              Tokens |-> r.Tokens, Orders |-> r.Orders,
              Provisionals |-> r.Provisionals,
              DailyPnL |-> r.DailyPnL, DailyPnLDate |-> r.DailyPnLDate]
  BY <1>0 DEF Sound, IsLedger
<1> QED BY <1>1 DEF Sound, IsLedger, Solvent, r

\* The order's reservation after a trade at a price within its limit: it pays
\* for the rest of the order, and the trade paid for itself unless the exchange
\* matched more than was left.
LEMMA FillSettles ==
    ASSUME NEW s, Sound(s), NEW o \in DOMAIN s.Orders, NEW size \in Nat \ {0}, NEW fp \in Nat,
           WithinLimit(o, fp),
           NEW price, price = IF fp <= 0 THEN s.Orders[o].Price ELSE fp,
           NEW cost, cost = RequiredCollateral(Order[o].Side, price, size),
           NEW consumed,
           consumed = IF cost > s.Orders[o].Reserved THEN s.Orders[o].Reserved ELSE cost,
           NEW left, left = Max0(s.Orders[o].RemainingSize - size),
           NEW settled, settled = SettleReservation(s, o, left, consumed)
    PROVE  /\ Order[o].Side \in Sides /\ Order[o].TokenID \in Tokens
           /\ price = TradePrice(o, fp) /\ price \in Nat /\ consumed \in Nat
           /\ size <= s.Orders[o].RemainingSize => consumed = cost
           /\ Sound(settled)
           /\ settled.Available = s.Available /\ settled.Reserved = s.Reserved
           /\ settled.Tokens = s.Tokens /\ settled.Provisionals = s.Provisionals
           /\ settled.DailyPnL = s.DailyPnL /\ settled.DailyPnLDate = s.DailyPnLDate
           /\ DOMAIN settled.Orders \subseteq DOMAIN s.Orders
           /\ \A x \in DOMAIN settled.Orders :
                settled.Orders[x].RemainingSize =
                    IF x = o THEN s.Orders[x].RemainingSize - size ELSE s.Orders[x].RemainingSize
           /\ \A a \in Accounts :
                LET n == Part(a, Account(Order[o].Side, Order[o].TokenID), consumed)
                IN  /\ n <= HeldBy(s, a)
                    /\ HeldBy(settled, a) <= HeldBy(s, a) - n
                    /\ a # Balance => HeldBy(settled, a) = HeldBy(s, a) - n
<1> DEFINE q == Order[o]
           r == s.Orders[o]
           filled == [r EXCEPT !.RemainingSize = left, !.Reserved = @ - consumed]
<1>1. /\ r \in OrderReservation(Tokens) /\ r.Side = q.Side /\ r.Price = q.Price
      /\ r.TokenID = q.TokenID
      /\ IF r.Side = "BUY" THEN r.Reserved >= r.Price * r.RemainingSize
                           ELSE r.Reserved = r.RemainingSize
  BY DEF Sound, IsLedger, IsMap, Backed, FullyCollateralised, TermsKept
<1>2. /\ r.Reserved \in Nat /\ r.RemainingSize \in Nat /\ r.Price \in Nat
      /\ r.Side \in Sides /\ r.TokenID \in Tokens
  BY <1>1, OneAssumption DEF OrderReservation, Prices
<1>3. price \in Nat /\ cost \in Nat /\ price = TradePrice(o, fp)
  BY <1>1, <1>2 DEF RequiredCollateral, TradePrice
<1>4. r.Side = "BUY" => price <= r.Price
  BY <1>1, <1>3 DEF WithinLimit
<1>5. consumed \in Nat /\ consumed <= r.Reserved /\ left \in Nat
  BY <1>2, <1>3 DEF Max0
<1>6. size <= r.RemainingSize => consumed = cost
  <2>1. CASE r.Side = "BUY"
    <3>1. cost = size * price BY <1>1, <2>1 DEF RequiredCollateral
    <3> HIDE DEF r
    <3>2. ASSUME size <= r.RemainingSize PROVE size * price <= r.Reserved
      <4>1. size * price <= size * r.Price BY <1>2, <1>3, <1>4, <2>1
      <4>2. size * r.Price <= r.Price * r.RemainingSize BY <1>2, <3>2
      <4>3. /\ size * price \in Nat /\ size * r.Price \in Nat
            /\ r.Price * r.RemainingSize \in Nat
        BY <1>2, <1>3
      <4> QED BY ONLY <1>1, <1>2, <2>1, <4>1, <4>2, <4>3
    <3> QED BY <1>2, <1>3, <3>1, <3>2 DEF r
  <2>2. CASE r.Side # "BUY"
    <3>1. cost = size BY <1>1, <2>2 DEF RequiredCollateral
    <3> QED BY <1>1, <1>2, <2>2, <3>1
  <2> QED BY <2>1, <2>2
<1>7. left > 0 => /\ filled \in OrderReservation(Tokens)
                  /\ filled.Side = r.Side /\ filled.Price = r.Price
                  /\ filled.TokenID = r.TokenID
                  /\ filled.RemainingSize = left /\ filled.Reserved = r.Reserved - consumed
  <2> HIDE DEF r
  <2>1. r.Reserved - consumed \in Nat BY <1>2, <1>5
  <2>2. filled = [TokenID |-> r.TokenID, Side |-> r.Side, Price |-> r.Price,
                  RemainingSize |-> left, Reserved |-> r.Reserved - consumed,
                  ExternalOrigin |-> r.ExternalOrigin]
    <3>1. /\ filled = [r EXCEPT !.RemainingSize = left, !.Reserved = r.Reserved - consumed]
          /\ r = [TokenID |-> r.TokenID, Side |-> r.Side, Price |-> r.Price,
                  RemainingSize |-> r.RemainingSize, Reserved |-> r.Reserved,
                  ExternalOrigin |-> r.ExternalOrigin]
      BY <1>1 DEF OrderReservation
    <3> HIDE DEF filled
    <3> QED BY <3>1
  <2>3. /\ filled.Side = r.Side /\ filled.Price = r.Price
        /\ filled.TokenID = r.TokenID
        /\ filled.RemainingSize = left /\ filled.Reserved = r.Reserved - consumed
    BY <2>2
  <2>4. left > 0 => filled \in OrderReservation(Tokens)
    BY <1>1, <1>5, <2>1, <2>2 DEF OrderReservation
  <2> QED BY <2>3, <2>4
<1>8. /\ left > 0 => size < r.RemainingSize /\ left = r.RemainingSize - size
      /\ left <= 0 => size >= r.RemainingSize
  BY <1>2 DEF Max0
<1>9. left > 0 => IF r.Side = "BUY" THEN r.Reserved - consumed >= r.Price * left
                                    ELSE r.Reserved - consumed = left
  <2>1. CASE r.Side = "BUY"
    <3>1. cost = size * price BY <1>1, <2>1 DEF RequiredCollateral
    <3> HIDE DEF r
    <3>2. size < r.RemainingSize =>
              /\ size * price <= r.Reserved
              /\ r.Reserved - size * price >= r.Price * (r.RemainingSize - size)
      BY <1>1, <1>2, <1>3, <1>4, <2>1, EnoughLeft
    <3>3. size < r.RemainingSize => consumed = size * price
      BY <1>2, <1>6, <3>1
    <3> QED BY <1>8, <2>1, <3>2, <3>3
  <2>2. CASE r.Side # "BUY"
    <3>1. cost = size BY <1>1, <2>2 DEF RequiredCollateral
    <3> QED BY <1>1, <1>2, <1>8, <2>2, <3>1
  <2> QED BY <2>1, <2>2
<1>10. /\ IsLedger(s, Ids, Tokens) /\ Solvent(s) /\ o \in Ids
       /\ IsMap(s.Provisionals, Ids, ProvisionalReservation(Tokens))
       /\ IsMap(s.Orders, Ids, OrderReservation(Tokens))
       /\ Backed(s.Provisionals) /\ Backed(s.Orders)
  BY DEF Sound, IsLedger, IsMap
<1>11. LET os == IF left <= 0 THEN Del(s.Orders, {o}) ELSE Put(s.Orders, o, filled)
       IN  settled = [s EXCEPT !.Orders = os, !.Provisionals = s.Provisionals]
  <2> HIDE DEF filled
  <2>1. settled = IF left <= 0 THEN [s EXCEPT !.Orders = Del(s.Orders, {o})]
                  ELSE [s EXCEPT !.Orders = Put(s.Orders, o, filled)]
    BY DEF SettleReservation, filled
  <2> QED BY <1>10, <2>1 DEF IsLedger
<1> DEFINE os == IF left <= 0 THEN Del(s.Orders, {o}) ELSE Put(s.Orders, o, filled)
<1>12. IsMap(os, Ids, OrderReservation(Tokens)) /\ Backed(os)
  <2> HIDE DEF filled, r
  <2>1. CASE left <= 0
    BY <1>10, <2>1, DelMap, DelBacked
  <2>2. CASE left > 0
    <3>1. IsMap(Put(s.Orders, o, filled), Ids, OrderReservation(Tokens))
      BY <1>7, <1>10, <2>2, PutMap
    <3>2. /\ filled.TokenID = Order[o].TokenID /\ filled.Side = Order[o].Side
          /\ filled.Price = Order[o].Price
      BY <1>1, <1>7, <2>2
    <3>3. IF filled.Side = "BUY" THEN filled.Reserved >= filled.Price * filled.RemainingSize
                                 ELSE filled.Reserved = filled.RemainingSize
      BY <1>7, <1>9, <2>2
    <3>4. Backed(Put(s.Orders, o, filled))
      <4> HIDE DEF q
      <4> QED BY <1>10, <3>2, <3>3, PutBacked
    <3> QED BY <1>5, <2>2, <3>1, <3>4
  <2> QED BY <1>5, <2>1, <2>2
<1>13. /\ DOMAIN os \subseteq DOMAIN s.Orders
       /\ \A x \in DOMAIN os :
            os[x].RemainingSize =
                IF x = o THEN s.Orders[x].RemainingSize - size ELSE s.Orders[x].RemainingSize
  <2> HIDE DEF filled
  <2>1. CASE left <= 0
    <3>1. os = Del(s.Orders, {o}) BY <2>1
    <3> HIDE DEF os
    <3> QED BY <3>1 DEF Del, Restrict
  <2>2. CASE left > 0
    <3>1. os = Put(s.Orders, o, filled) BY <1>5, <2>2
    <3> HIDE DEF os
    <3>2. /\ DOMAIN os = DOMAIN s.Orders /\ os[o] = filled
          /\ \A x \in DOMAIN s.Orders : x # o => os[x] = s.Orders[x]
      BY <3>1 DEF Put
    <3>3. filled.RemainingSize = s.Orders[o].RemainingSize - size BY <1>7, <1>8, <2>2
    <3>4. ASSUME NEW x \in DOMAIN os
          PROVE  os[x].RemainingSize =
                    IF x = o THEN s.Orders[x].RemainingSize - size ELSE s.Orders[x].RemainingSize
      <4> HIDE DEF r, filled
      <4>1. CASE x = o BY <3>2, <3>3, <4>1, Zenon
      <4>2. CASE x # o BY <3>2, <4>2, Zenon
      <4> QED BY <4>1, <4>2
    <3> QED BY <3>2, <3>4
  <2> HIDE DEF os
  <2> QED BY <1>5, <2>1, <2>2
<1>14. ASSUME NEW a \in Accounts
       PROVE  LET n == Part(a, Account(q.Side, q.TokenID), consumed)
              IN  /\ n <= HeldIn(s.Orders, a)
                  /\ HeldIn(os, a) <= HeldIn(s.Orders, a) - n
                  /\ a # Balance => HeldIn(os, a) = HeldIn(s.Orders, a) - n
  <2> DEFINE n == Part(a, Account(q.Side, q.TokenID), consumed)
             b == Account(q.Side, q.TokenID)
  <2>1. Funded(s.Orders) BY SoundFunded
  <2>2. Share(r, a) = Part(a, b, r.Reserved) BY <1>1 DEF Share, Part
  <2>3. HeldIn(Del(s.Orders, {o}), a) = HeldIn(s.Orders, a) - Share(r, a)
    BY <2>1, HeldDel
  <2>4. Funded(Del(s.Orders, {o})) BY <2>1, HeldDel
  <2>5. HeldIn(Del(s.Orders, {o}), a) \in Nat /\ HeldIn(s.Orders, a) \in Nat
    BY <2>1, <2>4, HeldType
  <2>6. CASE left <= 0
    <3>1. os = Del(s.Orders, {o}) BY <2>6
    <3>2. a # Balance /\ a = b => consumed = r.Reserved
      <4>1. a # Balance /\ a = b => q.Side # "BUY" BY DEF Account
      <4>2. q.Side # "BUY" => cost = size BY DEF RequiredCollateral
      <4>3. consumed = IF cost > r.Reserved THEN r.Reserved ELSE cost OBVIOUS
      <4> HIDE DEF b, q, r
      <4> QED BY <1>1, <1>2, <1>8, <2>6, <4>1, <4>2, <4>3
    <3>3. n = IF a = b THEN consumed ELSE 0 BY DEF Part
    <3>4. Share(r, a) = IF a = b THEN r.Reserved ELSE 0 BY <2>2 DEF Part
    <3> HIDE DEF os, b, q, r, n
    <3>5. /\ n <= HeldIn(s.Orders, a)
          /\ HeldIn(os, a) <= HeldIn(s.Orders, a) - n
          /\ a # Balance => HeldIn(os, a) = HeldIn(s.Orders, a) - n
      BY ONLY <1>2, <1>5, <2>3, <2>5, <3>1, <3>2, <3>3, <3>4
    <3> QED BY <3>5 DEF n
  <2>7. CASE left > 0
    <3>1. os = Put(s.Orders, o, filled) BY <1>5, <2>7
    <3>2. filled.Reserved = r.Reserved - consumed /\ filled.Reserved \in Nat
      BY <1>2, <1>5, <1>7, <2>7
    <3>3. Share(filled, a) = Part(a, b, r.Reserved - consumed)
      BY <1>1, <1>7, <2>7, <3>2 DEF Share, Part
    <3> HIDE DEF os, b, q, filled
    <3>4. HeldIn(os, a) = HeldIn(s.Orders, a) - Share(r, a) + Share(filled, a)
      BY <2>1, <3>1, <3>2, HeldPut
    <3>5. n = IF a = b THEN consumed ELSE 0 BY DEF Part, b
    <3>6. /\ Share(r, a) = IF a = b THEN r.Reserved ELSE 0
          /\ Share(filled, a) = IF a = b THEN r.Reserved - consumed ELSE 0
      BY <2>2, <3>3 DEF Part
    <3> HIDE DEF r, n
    <3>7. /\ n <= HeldIn(s.Orders, a)
          /\ HeldIn(os, a) <= HeldIn(s.Orders, a) - n
          /\ a # Balance => HeldIn(os, a) = HeldIn(s.Orders, a) - n
      BY ONLY <1>2, <1>5, <2>3, <2>5, <3>4, <3>5, <3>6
    <3> QED BY <3>7 DEF n
  <2> QED BY <1>5, <2>6, <2>7
<1> HIDE DEF os
<1>15. settled = [s EXCEPT !.Orders = os, !.Provisionals = s.Provisionals] BY <1>11 DEF os
<1>16. Sound(settled) BY <1>10, <1>12, <1>15, SetMapsSound
<1>17. /\ settled.Available = s.Available /\ settled.Reserved = s.Reserved
       /\ settled.Tokens = s.Tokens /\ settled.Provisionals = s.Provisionals
       /\ settled.DailyPnL = s.DailyPnL /\ settled.DailyPnLDate = s.DailyPnLDate
       /\ settled.Orders = os
  BY <1>10, <1>15 DEF IsLedger
<1>18. ASSUME NEW a \in Accounts
       PROVE  LET n == Part(a, Account(q.Side, q.TokenID), consumed)
              IN  /\ n <= HeldBy(s, a)
                  /\ HeldBy(settled, a) <= HeldBy(s, a) - n
                  /\ a # Balance => HeldBy(settled, a) = HeldBy(s, a) - n
  <2> DEFINE n == Part(a, Account(q.Side, q.TokenID), consumed)
  <2>1. /\ HeldBy(settled, a) = HeldIn(os, a) + HeldIn(s.Provisionals, a)
        /\ HeldBy(s, a) = HeldIn(s.Orders, a) + HeldIn(s.Provisionals, a)
    BY <1>17 DEF HeldBy
  <2>2. /\ HeldIn(s.Orders, a) \in Nat /\ HeldIn(s.Provisionals, a) \in Nat
        /\ HeldIn(os, a) \in Nat
    BY <1>16, <1>17, BooksType
  <2>3. n \in Nat BY <1>5 DEF Part
  <2>4. /\ n <= HeldIn(s.Orders, a)
        /\ HeldIn(os, a) <= HeldIn(s.Orders, a) - n
        /\ a # Balance => HeldIn(os, a) = HeldIn(s.Orders, a) - n
    BY <1>14
  <2> HIDE DEF n
  <2>5. /\ n <= HeldBy(s, a) /\ HeldBy(settled, a) <= HeldBy(s, a) - n
        /\ a # Balance => HeldBy(settled, a) = HeldBy(s, a) - n
    BY ONLY <2>1, <2>2, <2>3, <2>4
  <2> QED BY <2>5 DEF n
<1>19. q.Side \in Sides /\ q.TokenID \in Tokens BY <1>1, <1>2
<1> HIDE DEF r
<1>20. size <= s.Orders[o].RemainingSize => consumed = cost BY <1>6 DEF r
<1>21. /\ DOMAIN settled.Orders \subseteq DOMAIN s.Orders
       /\ \A x \in DOMAIN settled.Orders :
            settled.Orders[x].RemainingSize =
                IF x = o THEN s.Orders[x].RemainingSize - size ELSE s.Orders[x].RemainingSize
  BY <1>13, <1>17
<1> QED BY <1>3, <1>5, <1>16, <1>17, <1>18, <1>19, <1>20, <1>21

\* ApplyFill with a trade of the order at a price within its limit: either it
\* finds no reservation and changes nothing, or the trade's cost leaves Reserved
\* and its proceeds enter the balance.
LEMMA ApplyFillSound ==
    ASSUME NEW s, Sound(s), NEW o \in Ids, NEW size \in Nat, NEW fp \in Nat, WithinLimit(o, fp),
           NEW day \in Nat, NEW s2,
           s2 = ApplyFill(s, o, Order[o].TokenID, Order[o].Side, size, fp, day)
    PROVE  /\ Sound(s2)
           /\ FillError(s, o, Order[o].TokenID, Order[o].Side, size) # "nil" => s2 = s
           /\ s2.Provisionals = s.Provisionals
           /\ DOMAIN s2.Orders \subseteq DOMAIN s.Orders
           /\ \A x \in DOMAIN s2.Orders :
                /\ x # o => s2.Orders[x].RemainingSize = s.Orders[x].RemainingSize
                /\ x = o => s2.Orders[x].RemainingSize >= s.Orders[x].RemainingSize - size
           /\ \A a \in Accounts :
                /\ FreeIn(s2, a) >= FreeIn(s, a)
                /\ HeldBy(s, a) <= TakenFrom(s, a) => HeldBy(s2, a) <= TakenFrom(s2, a)
                /\ a # Balance /\ HeldBy(s, a) = TakenFrom(s, a) =>
                        HeldBy(s2, a) = TakenFrom(s2, a)
           /\ FillError(s, o, Order[o].TokenID, Order[o].Side, size) = "nil" =>
                /\ o \in DOMAIN s.Orders
                /\ HeldBy(s, Balance) <= s.Reserved /\ size <= s.Orders[o].RemainingSize =>
                        s2.Available + s2.Reserved =
                            s.Available + s.Reserved + CashFlow(o, fp, size)
<1> DEFINE q == Order[o]
           r == s.Orders[o]
           tp == TokenAt(s, q.TokenID)
           price == IF fp <= 0 THEN r.Price ELSE fp
           cost == RequiredCollateral(q.Side, price, size)
           consumed == IF cost > r.Reserved THEN r.Reserved ELSE cost
           left == Max0(r.RemainingSize - size)
           settled == SettleReservation(s, o, left, consumed)
           booked == IF tp.AvgCostKnown
                     THEN addDailyPnLLocked(settled, day, (price - tp.AvgCost) * size)
                     ELSE settled
           bp == BoughtPosition(tp, price, size)
           np == [tp EXCEPT !.Reserved = Max0(@ - consumed)]
           tb == SetToken(settled, q.TokenID, bp)
           ts == SetToken(booked, q.TokenID, np)
           bought == [tb EXCEPT !.Reserved = Max0(@ - consumed)]
           sold == [ts EXCEPT !.Available = @ + price * size]
           b == Account(q.Side, q.TokenID)
           err == FillError(s, o, Order[o].TokenID, Order[o].Side, size)
<1>1. \/ err # "nil" /\ s2 = s
      \/ /\ err = "nil" /\ size # 0 /\ o \in DOMAIN s.Orders
         /\ s2 = IF q.Side = "BUY" THEN bought ELSE sold
  <2>1. err = "nil" => size # 0 /\ o \in DOMAIN s.Orders
    BY DEF FillError
  <2> QED BY <2>1 DEF ApplyFill
<1>2. CASE err # "nil" /\ s2 = s
  <2>1. \A a \in Accounts : FreeIn(s, a) \in Nat BY BooksType
  <2>2. \A x \in DOMAIN s.Orders : s.Orders[x].RemainingSize \in Nat
    BY DEF Sound, IsLedger, IsMap, OrderReservation
  <2>3. \A x \in DOMAIN s.Orders : s.Orders[x].RemainingSize >= s.Orders[x].RemainingSize - size
    BY <2>2
  <2> QED BY <1>2, <2>1, <2>3
<1>3. CASE err = "nil" /\ size # 0 /\ o \in DOMAIN s.Orders
           /\ s2 = IF q.Side = "BUY" THEN bought ELSE sold
  <2>1. /\ q.Side \in Sides /\ q.TokenID \in Tokens
        /\ price = TradePrice(o, fp) /\ price \in Nat /\ consumed \in Nat
        /\ size <= r.RemainingSize => consumed = cost
        /\ Sound(settled)
        /\ settled.Available = s.Available /\ settled.Reserved = s.Reserved
        /\ settled.Tokens = s.Tokens /\ settled.Provisionals = s.Provisionals
    <3> HIDE DEF price, cost, consumed, left, settled
    <3>1. o \in DOMAIN s.Orders /\ size \in Nat \ {0} BY <1>3
    <3> QED BY <3>1, FillSettles DEF price, cost, consumed, left, settled
  <2>2. /\ DOMAIN settled.Orders \subseteq DOMAIN s.Orders
        /\ \A x \in DOMAIN settled.Orders :
             settled.Orders[x].RemainingSize =
                IF x = o THEN s.Orders[x].RemainingSize - size ELSE s.Orders[x].RemainingSize
    <3> HIDE DEF price, cost, consumed, left, settled
    <3>1. o \in DOMAIN s.Orders /\ size \in Nat \ {0} BY <1>3
    <3> QED BY <3>1, FillSettles DEF price, cost, consumed, left, settled
  <2>3. ASSUME NEW a \in Accounts
        PROVE  /\ Part(a, b, consumed) <= HeldBy(s, a)
               /\ HeldBy(settled, a) <= HeldBy(s, a) - Part(a, b, consumed)
               /\ a # Balance => HeldBy(settled, a) = HeldBy(s, a) - Part(a, b, consumed)
    <3> HIDE DEF price, cost, consumed, left, settled
    <3>1. o \in DOMAIN s.Orders /\ size \in Nat \ {0} BY <1>3
    <3> QED BY <3>1, FillSettles DEF price, cost, consumed, left, settled
  <2>4. tp \in TokenPosition /\ tp.Available >= 0
    BY <2>1, TokenAtType DEF Sound
  <2>5. \A x \in DOMAIN s.Orders : s.Orders[x].RemainingSize \in Nat
    BY DEF Sound, IsLedger, IsMap, OrderReservation
  <2> HIDE DEF settled, consumed, left, price, cost, r, tp, q, err
  <2>6. price * size \in Nat BY <2>1
  <2>7. CASE q.Side = "BUY"
    <3>1. /\ bp \in TokenPosition /\ bp.Available >= 0
          /\ bp.Available = tp.Available + size /\ bp.Reserved = tp.Reserved
      <4>1. size \in Nat \ {0} BY <1>3
      <4> QED BY <2>1, <2>4, <4>1, BoughtType
    <3> HIDE DEF bp
    <3>2. Sound(tb) /\ tb.Orders = settled.Orders /\ tb.Provisionals = settled.Provisionals
      BY <2>1, <3>1, SetTokenSound DEF Sound
    <3>3. tb.Available = s.Available /\ tb.Reserved = s.Reserved
      BY <2>1 DEF SetToken, Sound, IsLedger
    <3>4. s2 = [tb EXCEPT !.Reserved = Max0(@ - consumed)] BY <1>3, <2>7
    <3> HIDE DEF bought
    <3>5. ASSUME NEW a \in Accounts
          PROVE  /\ FreeIn(tb, a) = IF a = PositionIn(q.TokenID) THEN bp.Available
                                    ELSE FreeIn(settled, a)
                 /\ TakenFrom(tb, a) = IF a = PositionIn(q.TokenID) THEN bp.Reserved
                                       ELSE TakenFrom(settled, a)
      BY <2>1, SetTokenAccounts DEF Sound
    <3> HIDE DEF tb
    <3>6. tb.Available \in Nat /\ tb.Reserved \in Nat /\ Max0(tb.Reserved - consumed) \in Nat
      BY <2>1, <3>2 DEF Sound, IsLedger, Solvent, Max0
    <3>7. /\ s2.Available = tb.Available /\ s2.Reserved = Max0(tb.Reserved - consumed)
          /\ s2.Tokens = tb.Tokens
          /\ s2.Orders = tb.Orders /\ s2.Provisionals = tb.Provisionals
          /\ s2 = [tb EXCEPT !.Available = s2.Available, !.Reserved = s2.Reserved]
      BY <3>2, <3>4, <3>6 DEF Sound, IsLedger
    <3>8. Sound(s2)
      <4>1. /\ s2.Available \in Nat /\ s2.Reserved \in Nat
            /\ IsLedger(tb, Ids, Tokens) /\ Solvent(tb)
            /\ s2 = [tb EXCEPT !.Available = s2.Available, !.Reserved = s2.Reserved]
        BY <3>2, <3>6, <3>7 DEF Sound
      <4>2. IsLedger(s2, Ids, Tokens) /\ Solvent(s2) BY ONLY <4>1, SetBalanceSound
      <4> QED BY <3>2, <3>7, <4>2 DEF Sound
    <3>9. b = Balance BY <2>1, <2>7, AccountType
    <3>10. ASSUME NEW a \in Accounts
           PROVE  /\ FreeIn(s2, a) >= FreeIn(s, a)
                  /\ a = Balance => TakenFrom(s2, a) = Max0(TakenFrom(s, a) - consumed)
                  /\ a # Balance => TakenFrom(s2, a) = TakenFrom(s, a)
      <4>1. /\ FreeIn(s2, a) = IF a = Balance THEN s2.Available ELSE FreeIn(tb, a)
            /\ TakenFrom(s2, a) = IF a = Balance THEN s2.Reserved ELSE TakenFrom(tb, a)
        BY <3>7, SetBalanceAccounts
      <4>2. FreeIn(settled, a) = FreeIn(s, a) /\ TakenFrom(settled, a) = TakenFrom(s, a)
        BY <2>1, SameAccounts
      <4>3. a = Balance => FreeIn(s, a) = s.Available /\ TakenFrom(s, a) = s.Reserved
        BY DEF FreeIn, TakenFrom
      <4>4. a = PositionIn(q.TokenID) =>
                a # Balance /\ FreeIn(s, a) = tp.Available /\ TakenFrom(s, a) = tp.Reserved
        BY <2>1, PositionInject DEF FreeIn, TakenFrom, tp
      <4>5. FreeIn(s, a) \in Nat /\ TakenFrom(s, a) \in Nat BY BooksType
      <4>6. tp.Available \in Int BY <2>4 DEF TokenPosition
      <4> QED BY <3>1, <3>3, <3>5, <3>6, <3>7, <4>1, <4>2, <4>3, <4>4, <4>5, <4>6
    <3>11. ASSUME NEW a \in Accounts, HeldBy(s, a) <= TakenFrom(s, a)
           PROVE  /\ HeldBy(s2, a) <= TakenFrom(s2, a)
                  /\ a # Balance /\ HeldBy(s, a) = TakenFrom(s, a) =>
                        HeldBy(s2, a) = TakenFrom(s2, a)
      <4>1. HeldBy(s2, a) = HeldBy(settled, a) BY <3>2, <3>7 DEF HeldBy
      <4>2. /\ HeldBy(s, a) \in Nat /\ HeldBy(settled, a) \in Nat /\ TakenFrom(s, a) \in Nat
        BY <2>1, BooksType
      <4>3. Part(a, b, consumed) = IF a = Balance THEN consumed ELSE 0 BY <3>9 DEF Part
      <4> QED BY <2>1, <2>3, <3>10, <3>11, <4>1, <4>2, <4>3 DEF Max0
    <3>12. ASSUME HeldBy(s, Balance) <= s.Reserved, size <= r.RemainingSize
           PROVE  s2.Available + s2.Reserved =
                        s.Available + s.Reserved + (- (TradePrice(o, fp) * size))
      <4>1. Balance \in Accounts BY DEF Accounts
      <4>2. Part(Balance, b, consumed) = consumed BY <3>9 DEF Part
      <4>3. consumed <= HeldBy(s, Balance) BY <2>3, <4>1, <4>2
      <4>4. HeldBy(s, Balance) \in Nat BY <4>1, BooksType
      <4>5. consumed = price * size
        <5>1. cost = size * price BY <2>7 DEF cost, RequiredCollateral
        <5> QED BY <2>1, <3>12, <5>1
      <4>6. s2.Reserved = s.Reserved - consumed
        BY <2>1, <3>3, <3>6, <3>7, <3>12, <4>3, <4>4 DEF Max0
      <4> QED BY <2>1, <2>6, <3>3, <3>6, <3>7, <4>5, <4>6
    <3>13. \A x \in DOMAIN s2.Orders :
                /\ x # o => s2.Orders[x].RemainingSize = s.Orders[x].RemainingSize
                /\ x = o => s2.Orders[x].RemainingSize >= s.Orders[x].RemainingSize - size
      <4>1. s2.Orders = settled.Orders BY <3>2, <3>7
      <4> QED BY <2>2, <2>5, <4>1
    <3>14. s2.Provisionals = s.Provisionals /\ DOMAIN s2.Orders \subseteq DOMAIN s.Orders
      BY <2>1, <2>2, <3>2, <3>7
    <3>15. \A a \in Accounts : HeldBy(s, a) \in Nat /\ TakenFrom(s, a) \in Nat BY BooksType
    <3>16. \A a \in Accounts :
                /\ FreeIn(s2, a) >= FreeIn(s, a)
                /\ HeldBy(s, a) <= TakenFrom(s, a) => HeldBy(s2, a) <= TakenFrom(s2, a)
                /\ a # Balance /\ HeldBy(s, a) = TakenFrom(s, a) =>
                        HeldBy(s2, a) = TakenFrom(s2, a)
      BY <3>10, <3>11, <3>15
    <3>17. err = "nil" =>
                /\ o \in DOMAIN s.Orders
                /\ HeldBy(s, Balance) <= s.Reserved /\ size <= s.Orders[o].RemainingSize =>
                        s2.Available + s2.Reserved =
                            s.Available + s.Reserved + CashFlow(o, fp, size)
      BY <1>3, <2>7, <3>12 DEF q, r, CashFlow
    <3> QED BY <1>3, <3>8, <3>13, <3>14, <3>16, <3>17 DEF err
  <2>8. CASE q.Side # "BUY"
    <3>1. /\ np \in TokenPosition /\ np.Available >= 0
          /\ np.Available = tp.Available /\ np.Reserved = Max0(tp.Reserved - consumed)
      <4>1. Max0(tp.Reserved - consumed) \in Nat BY <2>1, <2>4 DEF TokenPosition, Max0
      <4>2. np \in TokenPosition BY <2>4, <4>1 DEF TokenPosition
      <4>3. np.Available = tp.Available /\ np.Reserved = Max0(tp.Reserved - consumed)
        BY <2>4, <4>1 DEF TokenPosition
      <4> QED BY <2>4, <4>2, <4>3
    <3>2. /\ Sound(booked) /\ booked.Available = s.Available /\ booked.Reserved = s.Reserved
          /\ booked.Tokens = s.Tokens /\ booked.Provisionals = settled.Provisionals
          /\ booked.Orders = settled.Orders
      <4> DEFINE delta == (price - tp.AvgCost) * size
                 pnl == addDailyPnLLocked(settled, day, delta)
      <4>1. delta \in Int BY <2>1, <2>4 DEF TokenPosition
      <4> HIDE DEF delta
      <4>2. Sound(pnl) BY <2>1, <4>1, PnLSound
      <4>3. /\ pnl.Available = settled.Available /\ pnl.Reserved = settled.Reserved
            /\ pnl.Tokens = settled.Tokens /\ pnl.Orders = settled.Orders
            /\ pnl.Provisionals = settled.Provisionals
        BY <2>1 DEF Sound, IsLedger, addDailyPnLLocked
      <4>4. booked = IF tp.AvgCostKnown THEN pnl ELSE settled BY DEF delta
      <4> HIDE DEF booked, pnl
      <4> QED BY <2>1, <4>2, <4>3, <4>4
    <3> HIDE DEF np, booked
    <3>3. Sound(ts) /\ ts.Orders = settled.Orders /\ ts.Provisionals = settled.Provisionals
      BY <2>1, <3>1, <3>2, SetTokenSound DEF Sound
    <3>4. ts.Available = s.Available /\ ts.Reserved = s.Reserved
      BY <3>2 DEF SetToken, Sound, IsLedger
    <3>5. s2 = [ts EXCEPT !.Available = @ + price * size] BY <1>3, <2>8
    <3>6. ASSUME NEW a \in Accounts
          PROVE  /\ FreeIn(ts, a) = IF a = PositionIn(q.TokenID) THEN np.Available
                                    ELSE FreeIn(booked, a)
                 /\ TakenFrom(ts, a) = IF a = PositionIn(q.TokenID) THEN np.Reserved
                                       ELSE TakenFrom(booked, a)
      BY <2>1, <3>2, SetTokenAccounts DEF Sound
    <3> HIDE DEF ts, sold
    <3>7. ts.Available + price * size \in Nat /\ ts.Reserved \in Nat /\ ts.Available \in Nat
      BY <2>6, <3>3 DEF Sound, IsLedger, Solvent
    <3>8. /\ s2.Available = ts.Available + price * size /\ s2.Reserved = ts.Reserved
          /\ s2.Tokens = ts.Tokens
          /\ s2.Orders = ts.Orders /\ s2.Provisionals = ts.Provisionals
          /\ s2 = [ts EXCEPT !.Available = s2.Available, !.Reserved = s2.Reserved]
      BY <3>3, <3>5, <3>7 DEF Sound, IsLedger
    <3>9. Sound(s2)
      <4>1. /\ s2.Available \in Nat /\ s2.Reserved \in Nat
            /\ IsLedger(ts, Ids, Tokens) /\ Solvent(ts)
            /\ s2 = [ts EXCEPT !.Available = s2.Available, !.Reserved = s2.Reserved]
        BY <3>3, <3>7, <3>8 DEF Sound
      <4>2. IsLedger(s2, Ids, Tokens) /\ Solvent(s2) BY ONLY <4>1, SetBalanceSound
      <4> QED BY <3>3, <3>8, <4>2 DEF Sound
    <3>10. b = PositionIn(q.TokenID) /\ b # Balance /\ b[2] = q.TokenID
      BY <2>1, <2>8, AccountType, PositionInject
    <3>11. ASSUME NEW a \in Accounts
           PROVE  /\ FreeIn(s2, a) >= FreeIn(s, a)
                  /\ a = b => TakenFrom(s2, a) = Max0(TakenFrom(s, a) - consumed)
                  /\ a # b => TakenFrom(s2, a) = TakenFrom(s, a)
      <4>1. /\ FreeIn(s2, a) = IF a = Balance THEN s2.Available ELSE FreeIn(ts, a)
            /\ TakenFrom(s2, a) = IF a = Balance THEN s2.Reserved ELSE TakenFrom(ts, a)
        BY <3>8, SetBalanceAccounts
      <4>2. FreeIn(booked, a) = FreeIn(s, a) /\ TakenFrom(booked, a) = TakenFrom(s, a)
        BY <3>2, SameAccounts
      <4>3. a = Balance => FreeIn(s, a) = s.Available /\ TakenFrom(s, a) = s.Reserved
        BY DEF FreeIn, TakenFrom
      <4>4. a = b => FreeIn(s, a) = tp.Available /\ TakenFrom(s, a) = tp.Reserved
        BY <3>10 DEF FreeIn, TakenFrom, tp
      <4>5. FreeIn(s, a) \in Nat /\ TakenFrom(s, a) \in Nat BY BooksType
      <4>6. tp.Available \in Int BY <2>4 DEF TokenPosition
      <4> HIDE DEF b
      <4> QED BY <2>6, <3>1, <3>4, <3>6, <3>7, <3>8, <3>10, <4>1, <4>2, <4>3, <4>4, <4>5, <4>6
    <3>12. ASSUME NEW a \in Accounts, HeldBy(s, a) <= TakenFrom(s, a)
           PROVE  /\ HeldBy(s2, a) <= TakenFrom(s2, a)
                  /\ a # Balance /\ HeldBy(s, a) = TakenFrom(s, a) =>
                        HeldBy(s2, a) = TakenFrom(s2, a)
      <4>1. HeldBy(s2, a) = HeldBy(settled, a) BY <3>3, <3>8 DEF HeldBy
      <4>2. /\ HeldBy(s, a) \in Nat /\ HeldBy(settled, a) \in Nat /\ TakenFrom(s, a) \in Nat
        BY <2>1, BooksType
      <4>3. Part(a, b, consumed) = IF a = b THEN consumed ELSE 0 BY DEF Part
      <4> HIDE DEF b
      <4> QED BY <2>1, <2>3, <3>11, <3>12, <4>1, <4>2, <4>3 DEF Max0
    <3>13. s2.Available + s2.Reserved =
                s.Available + s.Reserved + TradePrice(o, fp) * size
      <4>1. s.Available \in Int /\ s.Reserved \in Int BY DEF Sound, IsLedger
      <4> QED BY <2>1, <2>6, <3>4, <3>8, <4>1
    <3>14. \A x \in DOMAIN s2.Orders :
                /\ x # o => s2.Orders[x].RemainingSize = s.Orders[x].RemainingSize
                /\ x = o => s2.Orders[x].RemainingSize >= s.Orders[x].RemainingSize - size
      <4>1. s2.Orders = settled.Orders BY <3>3, <3>8
      <4> QED BY <2>2, <2>5, <4>1
    <3>15. s2.Provisionals = s.Provisionals /\ DOMAIN s2.Orders \subseteq DOMAIN s.Orders
      BY <2>1, <2>2, <3>3, <3>8
    <3>16. \A a \in Accounts : HeldBy(s, a) \in Nat /\ TakenFrom(s, a) \in Nat BY BooksType
    <3>17. \A a \in Accounts :
                /\ FreeIn(s2, a) >= FreeIn(s, a)
                /\ HeldBy(s, a) <= TakenFrom(s, a) => HeldBy(s2, a) <= TakenFrom(s2, a)
                /\ a # Balance /\ HeldBy(s, a) = TakenFrom(s, a) =>
                        HeldBy(s2, a) = TakenFrom(s2, a)
      BY <3>11, <3>12, <3>16
    <3>18. err = "nil" =>
                /\ o \in DOMAIN s.Orders
                /\ HeldBy(s, Balance) <= s.Reserved /\ size <= s.Orders[o].RemainingSize =>
                        s2.Available + s2.Reserved =
                            s.Available + s.Reserved + CashFlow(o, fp, size)
      BY <1>3, <2>8, <3>13 DEF q, CashFlow
    <3> QED BY <1>3, <3>9, <3>14, <3>15, <3>17, <3>18 DEF err
  <2> QED BY <2>7, <2>8
<1> QED BY <1>1, <1>2, <1>3

-----------------------------------------------------------------------------
(* The other goroutines.                                                   *)

\* One pass of the cleanup ticker.
LEMMA CleanupSound ==
    ASSUME NEW s, Sound(s), NEW r, r = CleanupExpiredProvisional(s)
    PROVE  Sound(r)
<1> DEFINE gone == Restrict(s.Provisionals, Expired(s))
           sold == {gone[i].TokenID : i \in {x \in DOMAIN gone : gone[x].Side = "SELL"}}
           moved(t) == [TokenAt(s, t) EXCEPT
                          !.Available = @ + HeldIn(gone, PositionIn(t)),
                          !.Reserved  = Max0(@ - HeldIn(gone, PositionIn(t)))]
           back(t) == IF t \notin sold THEN s.Tokens[t] ELSE moved(t)
           tokens == [t \in DOMAIN s.Tokens \cup sold |-> back(t)]
           a == s.Available + HeldIn(gone, Balance)
           b == Max0(s.Reserved - HeldIn(gone, Balance))
           ps == Del(s.Provisionals, Expired(s))
<1>1. r = [s EXCEPT !.Provisionals = ps, !.Available = a, !.Reserved = b, !.Tokens = tokens]
  BY DEF CleanupExpiredProvisional
<1>0. Funded(gone) /\ \A i \in DOMAIN gone : gone[i].TokenID \in Tokens
  BY ExpiredFunded
<1>2. a \in Nat /\ b \in Nat
  <2> HIDE DEF gone
  <2> QED BY <1>0, HeldType DEF Sound, IsLedger, Solvent, Max0
<1>3. sold \subseteq Tokens /\ DOMAIN s.Tokens \subseteq Tokens
  BY <1>0 DEF Sound, IsLedger, IsMap
<1>4. ASSUME NEW t \in DOMAIN s.Tokens \cup sold
      PROVE  back(t) \in TokenPosition /\ back(t).Available >= 0
  <2>1. CASE t \in sold
    <3>1. t \in Tokens BY <1>3
    <3>2. TokenAt(s, t) \in TokenPosition /\ TokenAt(s, t).Available >= 0
      BY <3>1, TokenAtType DEF Sound
    <3>3. HeldIn(gone, PositionIn(t)) \in Nat BY <1>0, HeldType
    <3>4. moved(t) \in TokenPosition /\ moved(t).Available >= 0
      <4> HIDE DEF gone
      <4> QED BY <3>2, <3>3, MoveType, Zenon
    <3> HIDE DEF moved, sold
    <3> QED BY <2>1, <3>4
  <2>2. CASE t \notin sold
    <3>1. t \in DOMAIN s.Tokens /\ back(t) = s.Tokens[t] BY <2>2
    <3> HIDE DEF back, sold
    <3> QED BY <3>1 DEF Sound, IsLedger, IsMap, Solvent
  <2> QED BY <2>1, <2>2
<1> HIDE DEF gone, sold, moved, back, a, b, ps
<1>5. /\ IsMap(tokens, Tokens, TokenPosition)
      /\ \A t \in DOMAIN tokens : tokens[t].Available >= 0
  BY <1>3, <1>4 DEF IsMap
<1>6. IsMap(ps, Ids, ProvisionalReservation(Tokens)) /\ Backed(ps)
  BY DelMap, DelBacked DEF Sound, IsLedger, ps
<1> HIDE DEF tokens
<1>7. /\ r.Available = a /\ r.Reserved = b /\ r.Tokens = tokens
      /\ r.Orders = s.Orders /\ r.Provisionals = ps
      /\ r.DailyPnL = s.DailyPnL /\ r.DailyPnLDate = s.DailyPnLDate
      /\ r = [Available |-> r.Available, Reserved |-> r.Reserved,
              Tokens |-> r.Tokens, Orders |-> r.Orders,
              Provisionals |-> r.Provisionals,
              DailyPnL |-> r.DailyPnL, DailyPnLDate |-> r.DailyPnLDate]
  BY <1>1 DEF Sound, IsLedger
<1>8. IsLedger(r, Ids, Tokens)
  BY <1>2, <1>5, <1>6, <1>7 DEF Sound, IsLedger
<1>9. Solvent(r)
  BY <1>2, <1>5, <1>7 DEF Solvent
<1> QED BY <1>6, <1>7, <1>8, <1>9 DEF Sound

\* The clock only shortens lives.
LEMMA ElapseSound ==
    ASSUME NEW s, Sound(s), NEW r, r = Elapse(s)
    PROVE  Sound(r)
<1> DEFINE older(i) == [s.Provisionals[i] EXCEPT !.Life = Max0(@ - 1)]
           ps == [i \in DOMAIN s.Provisionals |-> older(i)]
<1>1. r = [s EXCEPT !.Provisionals = ps]
  BY DEF Elapse
<1>2. ASSUME NEW i \in DOMAIN s.Provisionals
      PROVE  /\ older(i) \in ProvisionalReservation(Tokens)
             /\ older(i).TokenID = s.Provisionals[i].TokenID
             /\ older(i).Side = s.Provisionals[i].Side
             /\ older(i).Price = s.Provisionals[i].Price
             /\ older(i).RemainingSize = s.Provisionals[i].RemainingSize
             /\ older(i).Reserved = s.Provisionals[i].Reserved
  <2> DEFINE p == s.Provisionals[i]
  <2>1. p \in ProvisionalReservation(Tokens)
    BY DEF Sound, IsLedger, IsMap
  <2> HIDE DEF p
  <2>2. Max0(p.Life - 1) \in 0 .. TTL
    BY <2>1, TTLAssumption DEF ProvisionalReservation, Max0
  <2>3. [p EXCEPT !.Life = Max0(@ - 1)] \in ProvisionalReservation(Tokens)
    BY <2>1, <2>2 DEF ProvisionalReservation
  <2> QED BY <2>1, <2>3 DEF p, ProvisionalReservation
<1> HIDE DEF older
<1>3. IsMap(ps, Ids, ProvisionalReservation(Tokens))
  BY <1>2 DEF IsMap, Sound, IsLedger
<1>4. Backed(ps)
  BY <1>2 DEF Backed, FullyCollateralised, TermsKept, Sound
<1> HIDE DEF ps
<1>5. r = [s EXCEPT !.Orders = s.Orders, !.Provisionals = ps]
  BY <1>1 DEF Sound, IsLedger
<1>6. /\ IsLedger(s, Ids, Tokens) /\ Solvent(s)
      /\ IsMap(s.Orders, Ids, OrderReservation(Tokens)) /\ Backed(s.Orders)
  BY DEF Sound, IsLedger
<1> QED BY <1>3, <1>4, <1>5, <1>6, SetMapsSound

\* The write of a balance sync, however stale its read.
LEMMA SyncSound ==
    ASSUME NEW s, Sound(s), NEW total \in Nat, NEW r, r = ReconcileOnchainBalance(s, total)
    PROVE  Sound(r)
<1>1. r = [s EXCEPT !.Available = Max0(total - s.Reserved)]
  BY DEF ReconcileOnchainBalance
<1>2. Max0(total - s.Reserved) \in Nat /\ s.Reserved \in Nat
  BY DEF Sound, IsLedger, Max0
<1>3. /\ r.Available \in Nat /\ r.Reserved \in Nat
      /\ r = [s EXCEPT !.Available = r.Available, !.Reserved = r.Reserved]
  BY <1>1, <1>2 DEF Sound, IsLedger
<1> QED BY <1>3, SetBalanceSound DEF Sound

\* Redeeming removes positions.
LEMMA RedeemSound ==
    ASSUME NEW s, Sound(s), NEW T, NEW r, r = ClearRedeemedPositions(s, T)
    PROVE  Sound(r)
<1>1. r = [s EXCEPT !.Tokens = Del(s.Tokens, T)]
  BY DEF ClearRedeemedPositions
<1>2. /\ IsMap(Del(s.Tokens, T), Tokens, TokenPosition)
      /\ DOMAIN Del(s.Tokens, T) = DOMAIN s.Tokens \ T
      /\ \A x \in DOMAIN s.Tokens \ T : Del(s.Tokens, T)[x] = s.Tokens[x]
  BY DelMap DEF Sound, IsLedger
<1>3. /\ r.Available = s.Available /\ r.Reserved = s.Reserved /\ r.Tokens = Del(s.Tokens, T)
      /\ r.Orders = s.Orders /\ r.Provisionals = s.Provisionals
      /\ r.DailyPnL = s.DailyPnL /\ r.DailyPnLDate = s.DailyPnLDate
      /\ r = [Available |-> r.Available, Reserved |-> r.Reserved,
              Tokens |-> r.Tokens, Orders |-> r.Orders,
              Provisionals |-> r.Provisionals,
              DailyPnL |-> r.DailyPnL, DailyPnLDate |-> r.DailyPnLDate]
  BY <1>1 DEF Sound, IsLedger
<1>4. IsLedger(r, Ids, Tokens)
  BY <1>2, <1>3 DEF Sound, IsLedger
<1>5. Solvent(r)
  BY <1>2, <1>3 DEF Sound, Solvent
<1> QED BY <1>3, <1>4, <1>5 DEF Sound

-----------------------------------------------------------------------------
(* What each operation moves.                                              *)

\* A reservation takes its collateral.
LEMMA TryReserveMoves ==
    ASSUME NEW s, Sound(s), NEW i \in Ids, NEW r,
           r = TryReserveProvisional(s, i, Order[i].TokenID, Order[i].Side,
                                     Order[i].Price, Order[i].RequestedSize)
    PROVE  /\ r.err # "nil" => r.st = s
           /\ r.err = "nil" =>
                /\ \A a \in Accounts : Moved(s, r.st, a,
                        Part(a, Account(Order[i].Side, Order[i].TokenID),
                             RequiredCollateral(Order[i].Side, Order[i].Price,
                                                Order[i].RequestedSize)))
                /\ DOMAIN r.st.Provisionals = DOMAIN s.Provisionals \cup {i}
                /\ r.st.Orders = s.Orders
<1> DEFINE q == Order[i]
           amount == RequiredCollateral(q.Side, q.Price, q.RequestedSize)
           taken == Reserve(s, q.Side, q.TokenID, amount)
           p == [TokenID |-> q.TokenID, Side |-> q.Side, Price |-> q.Price,
                 RemainingSize |-> q.RequestedSize, Reserved |-> amount, Life |-> TTL]
           ok == [taken EXCEPT !.Provisionals = Put(@, i, p)]
<1>1. \/ r.st = s /\ r.err # "nil"
      \/ /\ i \notin DOMAIN s.Provisionals /\ HasFunds(s, q.Side, q.TokenID, amount)
         /\ r.st = ok
  BY DEF TryReserveProvisional, Result
<1>2. ASSUME HasFunds(s, q.Side, q.TokenID, amount), i \notin DOMAIN s.Provisionals
      PROVE  /\ \A a \in Accounts : Moved(s, ok, a, Part(a, Account(q.Side, q.TokenID), amount))
             /\ DOMAIN ok.Provisionals = DOMAIN s.Provisionals \cup {i}
             /\ ok.Orders = s.Orders
  <2>1. /\ IsLedger(taken, Ids, Tokens)
        /\ taken.Orders = s.Orders /\ taken.Provisionals = s.Provisionals
    BY <1>2, ReserveSound, TermsType DEF Sound
  <2>2. /\ ok.Available = taken.Available /\ ok.Reserved = taken.Reserved
        /\ ok.Tokens = taken.Tokens /\ ok.Orders = s.Orders
        /\ ok.Provisionals = Put(s.Provisionals, i, p)
    <3> HIDE DEF taken, p
    <3> QED BY <2>1 DEF IsLedger
  <2>3. q.Side \in Sides /\ q.TokenID \in Tokens /\ amount \in Nat BY TermsType
  <2>4. p.Reserved = amount /\ p.Side = q.Side /\ p.TokenID = q.TokenID OBVIOUS
  <2> HIDE DEF ok, taken, p, amount, q
  <2>5. DOMAIN ok.Provisionals = DOMAIN s.Provisionals \cup {i} BY <2>2 DEF Put
  <2>6. ASSUME NEW a \in Accounts
        PROVE  Moved(s, ok, a, Part(a, Account(q.Side, q.TokenID), amount))
    <3> DEFINE n == Part(a, Account(q.Side, q.TokenID), amount)
    <3>1. Share(p, a) = n BY <2>4 DEF Share, Part
    <3>2. HeldIn(ok.Provisionals, a) = HeldIn(s.Provisionals, a) + n
      BY <1>2, <2>2, <2>3, <2>4, <3>1, SoundFunded, HeldPut
    <3>3. FreeIn(taken, a) = FreeIn(s, a) - n /\ TakenFrom(taken, a) = TakenFrom(s, a) + n
      BY <2>3, ReserveAccounts DEF Sound, taken
    <3>4. FreeIn(ok, a) = FreeIn(taken, a) /\ TakenFrom(ok, a) = TakenFrom(taken, a)
      BY <2>2, SameAccounts
    <3>5. HeldIn(s.Orders, a) \in Nat /\ HeldIn(s.Provisionals, a) \in Nat BY BooksType
    <3>6. n \in Nat BY <2>3 DEF Part
    <3> HIDE DEF n
    <3>7. HeldBy(ok, a) = HeldBy(s, a) + n BY <2>2, <3>2, <3>5, <3>6 DEF HeldBy
    <3> QED BY <3>3, <3>4, <3>7 DEF Moved, n
  <2> QED BY <2>2, <2>5, <2>6
<1>3. r.err # "nil" => r.st = s BY <1>1 DEF TryReserveProvisional, Result
<1>4. r.err = "nil" => r.st = ok /\ HasFunds(s, q.Side, q.TokenID, amount)
                                /\ i \notin DOMAIN s.Provisionals
  BY <1>1
<1> HIDE DEF ok
<1> QED BY <1>2, <1>3, <1>4

\* What is dropped from a map returns its collateral to its account.
LEMMA DropMoves ==
    ASSUME NEW s, Sound(s), NEW d, Sound(d), NEW x, NEW e, e.Reserved \in Nat, e.Side \in Sides,
           e.TokenID \in Tokens, NEW a \in Accounts, HeldBy(s, a) <= TakenFrom(s, a),
           d.Available = s.Available, d.Reserved = s.Reserved, d.Tokens = s.Tokens,
           HeldBy(d, a) = HeldBy(s, a) - Share(e, a),
           NEW r, r = releaseReservedLocked(d, e.Side, e.TokenID, e.Reserved)
    PROVE  Moved(s, r, a, - Share(e, a))
<1> DEFINE n == Share(e, a)
<1>1. n = Part(a, Account(e.Side, e.TokenID), e.Reserved) BY DEF Share, Part
<1>2. FreeIn(d, a) = FreeIn(s, a) /\ TakenFrom(d, a) = TakenFrom(s, a) BY SameAccounts
<1>3. /\ FreeIn(s, a) \in Nat /\ TakenFrom(s, a) \in Nat /\ HeldBy(s, a) \in Nat
      /\ HeldBy(d, a) \in Nat
  BY BooksType
<1>4. n \in Nat BY ShareType
<1>5. n <= TakenFrom(d, a)
  <2> HIDE DEF n
  <2>1. HeldBy(d, a) = HeldBy(s, a) - n BY DEF n
  <2> QED BY ONLY <2>1, <1>2, <1>3, <1>4, HeldBy(s, a) <= TakenFrom(s, a)
<1>6. /\ FreeIn(r, a) = FreeIn(d, a) + n /\ TakenFrom(r, a) = TakenFrom(d, a) - n
  BY <1>1, <1>5, ReleaseAccounts DEF Sound
<1>7. HeldBy(r, a) = HeldBy(d, a)
  <2>1. r.Orders = d.Orders /\ r.Provisionals = d.Provisionals BY ReleaseSound DEF Sound
  <2> QED BY <2>1 DEF HeldBy
<1> HIDE DEF n
<1>8. /\ FreeIn(r, a) = FreeIn(s, a) - (- n) /\ TakenFrom(r, a) = TakenFrom(s, a) + (- n)
      /\ HeldBy(r, a) = HeldBy(s, a) + (- n)
  BY <1>2, <1>3, <1>4, <1>6, <1>7 DEF n
<1> QED BY <1>8 DEF Moved, n

\* A provisional, or an order, is dropped.
LEMMA ReleaseProvisionalMoves ==
    ASSUME NEW s, Sound(s), NEW i, NEW a \in Accounts, HeldBy(s, a) <= TakenFrom(s, a)
    PROVE  \E n \in Nat : Moved(s, ReleaseProvisional(s, i), a, - n)
<1>1. CASE i \notin DOMAIN s.Provisionals
  <2>1. ReleaseProvisional(s, i) = s BY <1>1 DEF ReleaseProvisional
  <2>2. Moved(s, s, a, - 0) BY BooksType DEF Moved
  <2> QED BY <2>1, <2>2
<1>2. CASE i \in DOMAIN s.Provisionals
  <2> DEFINE p == s.Provisionals[i]
             d == [s EXCEPT !.Provisionals = Del(@, {i})]
  <2>1. p.Side \in Sides /\ p.TokenID \in Tokens /\ p.Reserved \in Nat
    BY <1>2 DEF Sound, IsLedger, IsMap, ProvisionalReservation
  <2>2. /\ d.Available = s.Available /\ d.Reserved = s.Reserved /\ d.Tokens = s.Tokens
        /\ d.Orders = s.Orders /\ d.Provisionals = Del(s.Provisionals, {i})
    BY DEF Sound, IsLedger
  <2>3. Sound(d) BY <1>2, DropProvisionalSound
  <2>4. ReleaseProvisional(s, i) = releaseReservedLocked(d, p.Side, p.TokenID, p.Reserved)
    BY <1>2 DEF ReleaseProvisional, FreeProvisional
  <2> HIDE DEF d
  <2>5. HeldBy(d, a) = HeldBy(s, a) - Share(p, a)
    <3>1. HeldIn(Del(s.Provisionals, {i}), a) = HeldIn(s.Provisionals, a) - Share(p, a)
      BY <1>2, SoundFunded, HeldDel
    <3>2. HeldIn(s.Orders, a) \in Nat /\ HeldIn(s.Provisionals, a) \in Nat BY BooksType
    <3>3. Share(p, a) \in Nat BY <2>1, ShareType
    <3> HIDE DEF p
    <3>4. /\ HeldBy(d, a) = HeldIn(s.Orders, a) + HeldIn(Del(s.Provisionals, {i}), a)
          /\ HeldBy(s, a) = HeldIn(s.Orders, a) + HeldIn(s.Provisionals, a)
      BY <2>2 DEF HeldBy
    <3> QED BY ONLY <3>1, <3>2, <3>3, <3>4
  <2> HIDE DEF p
  <2>6. Moved(s, ReleaseProvisional(s, i), a, - Share(p, a))
    BY <2>1, <2>2, <2>3, <2>4, <2>5, DropMoves
  <2> QED BY <2>1, <2>6, ShareType
<1> QED BY <1>1, <1>2

\* ReleaseOrder gives an account back at most what the order held of it.
LEMMA ReleaseOrderMoves ==
    ASSUME NEW s, Sound(s), NEW o, NEW a \in Accounts, HeldBy(s, a) <= TakenFrom(s, a)
    PROVE  \E n \in Nat : Moved(s, ReleaseOrder(s, o), a, - n)
<1>1. CASE o \notin DOMAIN s.Orders
  <2>1. ReleaseOrder(s, o) = s BY <1>1 DEF ReleaseOrder
  <2>2. Moved(s, s, a, - 0) BY BooksType DEF Moved
  <2> QED BY <2>1, <2>2
<1>2. CASE o \in DOMAIN s.Orders
  <2> DEFINE p == s.Orders[o]
             d == [s EXCEPT !.Orders = Del(@, {o})]
  <2>1. p.Side \in Sides /\ p.TokenID \in Tokens /\ p.Reserved \in Nat
    BY <1>2 DEF Sound, IsLedger, IsMap, OrderReservation
  <2>2. /\ d.Available = s.Available /\ d.Reserved = s.Reserved /\ d.Tokens = s.Tokens
        /\ d.Orders = Del(s.Orders, {o}) /\ d.Provisionals = s.Provisionals
    BY DEF Sound, IsLedger
  <2>3. Sound(d) BY <1>2, DropOrderSound
  <2>4. ReleaseOrder(s, o) = releaseReservedLocked(d, p.Side, p.TokenID, p.Reserved)
    BY <1>2 DEF ReleaseOrder
  <2> HIDE DEF d
  <2>5. HeldBy(d, a) = HeldBy(s, a) - Share(p, a)
    <3>1. HeldIn(Del(s.Orders, {o}), a) = HeldIn(s.Orders, a) - Share(p, a)
      BY <1>2, SoundFunded, HeldDel
    <3>2. HeldIn(s.Orders, a) \in Nat /\ HeldIn(s.Provisionals, a) \in Nat BY BooksType
    <3>3. Share(p, a) \in Nat BY <2>1, ShareType
    <3> HIDE DEF p
    <3>4. /\ HeldBy(d, a) = HeldIn(Del(s.Orders, {o}), a) + HeldIn(s.Provisionals, a)
          /\ HeldBy(s, a) = HeldIn(s.Orders, a) + HeldIn(s.Provisionals, a)
      BY <2>2 DEF HeldBy
    <3> QED BY ONLY <3>1, <3>2, <3>3, <3>4
  <2> HIDE DEF p
  <2>6. Moved(s, ReleaseOrder(s, o), a, - Share(p, a))
    BY <2>1, <2>2, <2>3, <2>4, <2>5, DropMoves
  <2> QED BY <2>1, <2>6, ShareType
<1> QED BY <1>1, <1>2

\* A confirmation turns a provisional into an order, or takes the collateral.
LEMMA AttachMoves ==
    ASSUME NEW s, Sound(s), NEW o \in Ids, NEW i, i = o \/ i \notin Ids, NEW r,
           r = AttachOrder(s, i, o, Order[o].TokenID, Order[o].Side,
                           Order[o].Price, Order[o].RequestedSize),
           NEW a \in Accounts, HeldBy(s, a) <= TakenFrom(s, a)
    PROVE  /\ \E n \in Int : Moved(s, r.st, a, n)
           /\ r.err # "nil" \/ i \in DOMAIN s.Provisionals =>
                \E n \in Nat : Moved(s, r.st, a, - n)
<1> DEFINE q == Order[o]
           amount == RequiredCollateral(q.Side, q.Price, q.RequestedSize)
           taken == Reserve(s, q.Side, q.TokenID, amount)
           e == NewReservation(q.TokenID, q.Side, q.Price, q.RequestedSize, FALSE)
           fresh == [taken EXCEPT !.Orders = Put(@, o, e)]
           p == s.Provisionals[o]
           c == [TokenID |-> p.TokenID, Side |-> p.Side, Price |-> p.Price,
                 RemainingSize |-> p.RemainingSize, Reserved |-> p.Reserved,
                 ExternalOrigin |-> FALSE]
           conv == [s EXCEPT !.Provisionals = Del(@, {o}), !.Orders = Put(@, o, c)]
           isFresh == /\ o \notin DOMAIN s.Orders /\ i \notin DOMAIN s.Provisionals
                      /\ HasFunds(s, q.Side, q.TokenID, amount)
                      /\ r.st = fresh /\ r.err = "nil"
<1>1. \/ r.st = s \/ r.st = ReleaseProvisional(s, i)
      \/ o \in DOMAIN s.Provisionals /\ o \notin DOMAIN s.Orders /\ r.st = conv
      \/ isFresh
  <2>1. i \in DOMAIN s.Provisionals => i = o
    BY DEF Sound, IsLedger, IsMap
  <2> QED BY <2>1 DEF AttachOrder, ConvertProvisional, FreshReservation, Result
<1>2. \E n \in Nat : Moved(s, s, a, - n)
  <2>1. Moved(s, s, a, - 0) BY BooksType DEF Moved
  <2> QED BY <2>1
<1>3. \E n \in Nat : Moved(s, ReleaseProvisional(s, i), a, - n)
  BY ReleaseProvisionalMoves
<1>4. ASSUME o \in DOMAIN s.Provisionals, o \notin DOMAIN s.Orders
      PROVE  \E n \in Nat : Moved(s, conv, a, - n)
  <2>1. c.Reserved = p.Reserved /\ c.Side = p.Side /\ c.TokenID = p.TokenID OBVIOUS
  <2>2. p.Reserved \in Nat BY <1>4, SoundFunded DEF Funded
  <2> HIDE DEF c, p
  <2>3. /\ conv.Available = s.Available /\ conv.Reserved = s.Reserved
        /\ conv.Tokens = s.Tokens
        /\ conv.Orders = Put(s.Orders, o, c) /\ conv.Provisionals = Del(s.Provisionals, {o})
    BY DEF Sound, IsLedger
  <2> HIDE DEF conv
  <2>4. Share(c, a) = Share(p, a) BY <2>1 DEF Share
  <2>5. HeldIn(conv.Orders, a) = HeldIn(s.Orders, a) + Share(p, a)
    BY <1>4, <2>1, <2>2, <2>3, <2>4, SoundFunded, HeldPut
  <2>6. HeldIn(conv.Provisionals, a) = HeldIn(s.Provisionals, a) - Share(p, a)
    BY <1>4, <2>3, SoundFunded, HeldDel DEF p
  <2>7. /\ HeldIn(s.Orders, a) \in Nat /\ HeldIn(s.Provisionals, a) \in Nat
        /\ FreeIn(s, a) \in Nat /\ TakenFrom(s, a) \in Nat /\ HeldBy(s, a) \in Nat
    BY BooksType
  <2>8. Share(p, a) \in Nat BY <2>2, ShareType
  <2>9. HeldBy(conv, a) = HeldBy(s, a)
    <3>1. /\ HeldBy(conv, a) = HeldIn(conv.Orders, a) + HeldIn(conv.Provisionals, a)
          /\ HeldBy(s, a) = HeldIn(s.Orders, a) + HeldIn(s.Provisionals, a)
      BY DEF HeldBy
    <3> QED BY ONLY <2>5, <2>6, <2>7, <2>8, <3>1
  <2>10. FreeIn(conv, a) = FreeIn(s, a) /\ TakenFrom(conv, a) = TakenFrom(s, a)
    BY <2>3, SameAccounts
  <2>11. Moved(s, conv, a, - 0) BY <2>7, <2>9, <2>10 DEF Moved
  <2> QED BY <2>11
<1>5. ASSUME isFresh PROVE \E n \in Int : Moved(s, fresh, a, n)
  <2>1. /\ IsLedger(taken, Ids, Tokens)
        /\ taken.Orders = s.Orders /\ taken.Provisionals = s.Provisionals
    BY <1>5, ReserveSound, TermsType DEF Sound
  <2>2. q.Side \in Sides /\ q.TokenID \in Tokens /\ amount \in Nat BY TermsType
  <2>3. e.Reserved = amount /\ e.Side = q.Side /\ e.TokenID = q.TokenID
    BY DEF NewReservation
  <2>4. /\ fresh.Available = taken.Available /\ fresh.Reserved = taken.Reserved
        /\ fresh.Tokens = taken.Tokens /\ fresh.Provisionals = s.Provisionals
        /\ fresh.Orders = Put(s.Orders, o, e)
    <3> HIDE DEF taken, e
    <3> QED BY <2>1 DEF IsLedger
  <2>5. o \notin DOMAIN s.Orders BY <1>5
  <2> HIDE DEF fresh, taken, e, amount, q, isFresh
  <2> DEFINE n == Part(a, Account(q.Side, q.TokenID), amount)
  <2>6. Share(e, a) = n BY <2>3 DEF Share, Part
  <2>7. HeldIn(fresh.Orders, a) = HeldIn(s.Orders, a) + n
    BY <2>2, <2>3, <2>4, <2>5, <2>6, SoundFunded, HeldPut
  <2>8. FreeIn(taken, a) = FreeIn(s, a) - n /\ TakenFrom(taken, a) = TakenFrom(s, a) + n
    BY <2>2, ReserveAccounts DEF Sound, taken
  <2>9. FreeIn(fresh, a) = FreeIn(taken, a) /\ TakenFrom(fresh, a) = TakenFrom(taken, a)
    BY <2>4, SameAccounts
  <2>10. HeldIn(s.Orders, a) \in Nat /\ HeldIn(s.Provisionals, a) \in Nat BY BooksType
  <2>11. n \in Nat BY <2>2 DEF Part
  <2> HIDE DEF n
  <2>12. HeldBy(fresh, a) = HeldBy(s, a) + n BY <2>4, <2>7, <2>10, <2>11 DEF HeldBy
  <2>13. Moved(s, fresh, a, n) BY <2>8, <2>9, <2>12 DEF Moved
  <2> QED BY <2>11, <2>13
<1> HIDE DEF conv, fresh
<1>6. ASSUME NEW x, \E n \in Nat : Moved(s, x, a, - n) PROVE \E n \in Int : Moved(s, x, a, n)
  <2>1. PICK n \in Nat : Moved(s, x, a, - n) BY <1>6
  <2>2. - n \in Int OBVIOUS
  <2> QED BY <2>1, <2>2
<1> QED BY <1>1, <1>2, <1>3, <1>4, <1>5, <1>6

\* One pass of the cleanup ticker returns what the expired provisionals hold.
LEMMA CleanupAccounts ==
    ASSUME NEW s, Sound(s), NEW r, r = CleanupExpiredProvisional(s), NEW a \in Accounts
    PROVE  LET n == HeldIn(Restrict(s.Provisionals, Expired(s)), a)
           IN  /\ n \in Nat /\ HeldIn(s.Provisionals, a) = n + HeldIn(r.Provisionals, a)
               /\ r.Orders = s.Orders /\ r.Provisionals = Del(s.Provisionals, Expired(s))
               /\ FreeIn(r, a) = FreeIn(s, a) + n
               /\ n <= TakenFrom(s, a) => TakenFrom(r, a) = TakenFrom(s, a) - n
<1> DEFINE gone == Restrict(s.Provisionals, Expired(s))
           sold == {gone[i].TokenID : i \in {x \in DOMAIN gone : gone[x].Side = "SELL"}}
           back(t) == IF t \notin sold THEN s.Tokens[t]
                      ELSE [TokenAt(s, t) EXCEPT
                              !.Available = @ + HeldIn(gone, PositionIn(t)),
                              !.Reserved  = Max0(@ - HeldIn(gone, PositionIn(t)))]
           tokens == [t \in DOMAIN s.Tokens \cup sold |-> back(t)]
           n == HeldIn(gone, a)
           ps == Del(s.Provisionals, Expired(s))
<1>1. r = [s EXCEPT !.Provisionals = ps,
                    !.Available = s.Available + HeldIn(gone, Balance),
                    !.Reserved = Max0(s.Reserved - HeldIn(gone, Balance)), !.Tokens = tokens]
  BY DEF CleanupExpiredProvisional
<1>2. /\ Funded(gone) /\ \A i \in DOMAIN gone : gone[i].Side \in Sides
      /\ HeldIn(s.Provisionals, a) = n + HeldIn(ps, a) /\ Funded(ps)
  <2>1. Expired(s) \subseteq DOMAIN s.Provisionals BY DEF Expired
  <2> QED BY <2>1, ExpiredFunded, SoundFunded, HeldSplit
<1>3. n \in Nat BY <1>2, HeldType
<1>4. FreeIn(s, a) \in Nat /\ TakenFrom(s, a) \in Nat BY BooksType
<1>5. ASSUME NEW t \in Tokens, t \notin sold, a = PositionIn(t) PROVE n = 0
  <2> DEFINE f == [x \in DOMAIN gone |-> Share(gone[x], a)]
  <2>1. ASSUME NEW x \in DOMAIN gone PROVE f[x] = 0
    <3>1. CASE gone[x].Side = "BUY"
      BY <1>5, <3>1, PositionInject DEF Share, Account
    <3>2. CASE gone[x].Side = "SELL"
      <4>1. gone[x].TokenID \in sold BY <3>2
      <4>2. gone[x].TokenID # t BY <1>5, <4>1
      <4>3. gone[x].TokenID \in Tokens BY ExpiredFunded
      <4> HIDE DEF gone
      <4> QED BY <1>5, <3>2, <4>2, <4>3, PositionInject DEF Share, Account
    <3> QED BY <1>2, <3>1, <3>2 DEF Sides
  <2> HIDE DEF f
  <2>2. SumOver(f, DOMAIN gone) = 0 BY <1>2, <2>1, SumZero DEF Funded
  <2> QED BY <2>2 DEF HeldIn, f
<1> HIDE DEF gone, sold, back, n, ps
<1>6. /\ r.Available = s.Available + HeldIn(gone, Balance)
      /\ r.Reserved = Max0(s.Reserved - HeldIn(gone, Balance))
      /\ r.Orders = s.Orders /\ r.Provisionals = ps /\ r.Tokens = tokens
  <2> HIDE DEF tokens
  <2> QED BY <1>1 DEF Sound, IsLedger
<1>7. /\ FreeIn(r, a) = FreeIn(s, a) + n
      /\ n <= TakenFrom(s, a) => TakenFrom(r, a) = TakenFrom(s, a) - n
  <2>1. ASSUME a = Balance
        PROVE  /\ FreeIn(r, a) = FreeIn(s, a) + n
               /\ n <= TakenFrom(s, a) => TakenFrom(r, a) = TakenFrom(s, a) - n
    <3>1. n = HeldIn(gone, Balance) BY <2>1 DEF n
    <3>2. /\ FreeIn(r, a) = r.Available /\ FreeIn(s, a) = s.Available
          /\ TakenFrom(r, a) = r.Reserved /\ TakenFrom(s, a) = s.Reserved
      BY <2>1 DEF FreeIn, TakenFrom
    <3> QED BY <1>3, <1>4, <1>6, <3>1, <3>2 DEF Max0
  <2>2. ASSUME NEW t \in Tokens, a = PositionIn(t), a # Balance, a[2] = t
        PROVE  /\ FreeIn(r, a) = FreeIn(s, a) + n
               /\ n <= TakenFrom(s, a) => TakenFrom(r, a) = TakenFrom(s, a) - n
    <3>1. /\ FreeIn(r, a) = TokenAt(r, t).Available /\ FreeIn(s, a) = TokenAt(s, t).Available
          /\ TakenFrom(r, a) = TokenAt(r, t).Reserved /\ TakenFrom(s, a) = TokenAt(s, t).Reserved
      BY <2>2 DEF FreeIn, TakenFrom
    <3>2. CASE t \notin sold
      <4>1. n = 0 BY <1>5, <2>2, <3>2
      <4>2. TokenAt(r, t) = TokenAt(s, t) BY <1>6, <3>2 DEF TokenAt, back
      <4> QED BY <1>4, <3>1, <4>1, <4>2
    <3>3. CASE t \in sold
      <4> DEFINE tp == TokenAt(s, t)
      <4>1. TokenAt(r, t) = back(t) BY <1>6, <3>3 DEF TokenAt
      <4>2. back(t) = [tp EXCEPT !.Available = @ + n, !.Reserved = Max0(@ - n)]
        BY <2>2, <3>3 DEF back, n
      <4>3. tp \in TokenPosition BY TokenAtType DEF Sound
      <4> HIDE DEF tp
      <4>4. back(t).Available = tp.Available + n /\ back(t).Reserved = Max0(tp.Reserved - n)
        BY <4>2, <4>3 DEF TokenPosition
      <4> QED BY <1>3, <1>4, <3>1, <4>1, <4>4 DEF Max0, tp
    <3> QED BY <3>2, <3>3
  <2> QED BY <2>1, <2>2, AccountCases
<1> QED BY <1>2, <1>3, <1>6, <1>7 DEF gone, n, ps

\* What it returns was reserved.
LEMMA CleanupMoves ==
    ASSUME NEW s, Sound(s), NEW r, r = CleanupExpiredProvisional(s),
           NEW a \in Accounts, HeldBy(s, a) <= TakenFrom(s, a)
    PROVE  \E n \in Nat : Moved(s, r, a, - n)
<1> DEFINE n == HeldIn(Restrict(s.Provisionals, Expired(s)), a)
<1>1. /\ n \in Nat /\ HeldIn(s.Provisionals, a) = n + HeldIn(r.Provisionals, a)
      /\ r.Orders = s.Orders /\ FreeIn(r, a) = FreeIn(s, a) + n
      /\ n <= TakenFrom(s, a) => TakenFrom(r, a) = TakenFrom(s, a) - n
  BY CleanupAccounts
<1>2. /\ FreeIn(s, a) \in Nat /\ TakenFrom(s, a) \in Nat
      /\ HeldIn(s.Orders, a) \in Nat /\ HeldIn(s.Provisionals, a) \in Nat
      /\ HeldIn(r.Provisionals, a) \in Nat
  BY BooksType, CleanupSound
<1>3. /\ HeldBy(s, a) = HeldIn(s.Orders, a) + HeldIn(s.Provisionals, a)
      /\ HeldBy(r, a) = HeldIn(s.Orders, a) + HeldIn(r.Provisionals, a)
  BY <1>1 DEF HeldBy
<1> HIDE DEF n
<1>4. n <= TakenFrom(s, a)
  BY ONLY <1>1, <1>2, <1>3, HeldBy(s, a) <= TakenFrom(s, a)
<1>5. /\ FreeIn(r, a) = FreeIn(s, a) - (- n) /\ TakenFrom(r, a) = TakenFrom(s, a) + (- n)
      /\ HeldBy(r, a) = HeldBy(s, a) + (- n)
  BY ONLY <1>1, <1>2, <1>3, <1>4
<1>6. Moved(s, r, a, - n) BY <1>5 DEF Moved
<1> QED BY <1>1, <1>6

\* The clock moves nothing.
LEMMA ElapseMoves ==
    ASSUME NEW s, Sound(s), NEW r, r = Elapse(s), NEW a \in Accounts
    PROVE  Moved(s, r, a, 0)
<1> DEFINE older(i) == [s.Provisionals[i] EXCEPT !.Life = Max0(@ - 1)]
           ps == [i \in DOMAIN s.Provisionals |-> older(i)]
<1>1. r = [s EXCEPT !.Provisionals = ps]
  BY DEF Elapse
<1>2. ASSUME NEW i \in DOMAIN s.Provisionals PROVE Share(older(i), a) = Share(s.Provisionals[i], a)
  <2> DEFINE p == s.Provisionals[i]
  <2>1. p \in ProvisionalReservation(Tokens) BY DEF Sound, IsLedger, IsMap
  <2> HIDE DEF p
  <2>2. LET q == [p EXCEPT !.Life = Max0(@ - 1)]
        IN  q.Side = p.Side /\ q.TokenID = p.TokenID /\ q.Reserved = p.Reserved
    BY <2>1 DEF ProvisionalReservation
  <2> QED BY <2>2 DEF p, Share
<1> HIDE DEF older
<1>3. HeldIn(ps, a) = HeldIn(s.Provisionals, a)
  <2>1. DOMAIN ps = DOMAIN s.Provisionals /\ \A x \in DOMAIN s.Provisionals : ps[x] = older(x)
    OBVIOUS
  <2> HIDE DEF ps
  <2> QED BY <1>2, <2>1, SoundFunded, HeldSame
<1> HIDE DEF ps
<1>4. /\ r.Available = s.Available /\ r.Reserved = s.Reserved /\ r.Tokens = s.Tokens
      /\ r.Orders = s.Orders /\ r.Provisionals = ps
  BY <1>1 DEF Sound, IsLedger
<1>5. FreeIn(r, a) = FreeIn(s, a) /\ TakenFrom(r, a) = TakenFrom(s, a) BY <1>4, SameAccounts
<1>6. HeldBy(r, a) = HeldBy(s, a) BY <1>3, <1>4 DEF HeldBy
<1> QED BY <1>5, <1>6, BooksType DEF Moved
-----------------------------------------------------------------------------
(* What is left to fill.                                                   *)

\* Going from s to r, an entry of r has the size it had in s or, when it is
\* new, the size its order asked for.
SizesFrom(s, r) ==
    /\ \A x \in DOMAIN r.Orders :
         \/ r.Orders[x].RemainingSize = Order[x].RequestedSize
         \/ x \in DOMAIN s.Orders /\ r.Orders[x].RemainingSize = s.Orders[x].RemainingSize
         \/ /\ x \in DOMAIN s.Provisionals
            /\ r.Orders[x].RemainingSize = s.Provisionals[x].RemainingSize
    /\ \A x \in DOMAIN r.Provisionals :
         \/ r.Provisionals[x].RemainingSize = Order[x].RequestedSize
         \/ /\ x \in DOMAIN s.Provisionals
            /\ r.Provisionals[x].RemainingSize = s.Provisionals[x].RemainingSize

\* Deleting entries leaves the sizes of the others as they are.
LEMMA SizesRestricted ==
    ASSUME NEW s, NEW r, NEW K, NEW L,
           r.Orders = s.Orders \/ r.Orders = Del(s.Orders, K),
           r.Provisionals = s.Provisionals \/ r.Provisionals = Del(s.Provisionals, L)
    PROVE  SizesFrom(s, r)
BY DEF SizesFrom, Del, Restrict

\* The fields releaseReservedLocked leaves alone.
LEMMA ReleaseFields ==
    ASSUME NEW s, IsLedger(s, Ids, Tokens), NEW side, NEW tk, NEW amount
    PROVE  LET r == releaseReservedLocked(s, side, tk, amount)
           IN  r.Orders = s.Orders /\ r.Provisionals = s.Provisionals
BY DEF releaseReservedLocked, SetToken, IsLedger

\* ReleaseProvisional leaves sizes as they are.
LEMMA ReleaseProvisionalSizes ==
    ASSUME NEW s, Sound(s), NEW i
    PROVE  SizesFrom(s, ReleaseProvisional(s, i))
<1> DEFINE p == s.Provisionals[i]
           d == [s EXCEPT !.Provisionals = Del(@, {i})]
           r == releaseReservedLocked(d, p.Side, p.TokenID, p.Reserved)
<1>1. ReleaseProvisional(s, i) = s \/ ReleaseProvisional(s, i) = r
  BY DEF ReleaseProvisional, FreeProvisional
<1>2. d.Orders = s.Orders /\ d.Provisionals = Del(s.Provisionals, {i})
  BY DEF Sound, IsLedger
<1>3. IsLedger(d, Ids, Tokens) BY DropProvisionalSound DEF Sound
<1> HIDE DEF d
<1>4. r.Orders = s.Orders /\ r.Provisionals = Del(s.Provisionals, {i})
  BY <1>2, <1>3, ReleaseFields
<1> HIDE DEF r
<1> QED BY <1>1, <1>4, SizesRestricted

\* ReleaseOrder leaves sizes as they are.
LEMMA ReleaseOrderSizes ==
    ASSUME NEW s, Sound(s), NEW o
    PROVE  SizesFrom(s, ReleaseOrder(s, o))
<1> DEFINE p == s.Orders[o]
           d == [s EXCEPT !.Orders = Del(@, {o})]
           r == releaseReservedLocked(d, p.Side, p.TokenID, p.Reserved)
<1>1. ReleaseOrder(s, o) = s \/ ReleaseOrder(s, o) = r
  BY DEF ReleaseOrder
<1>2. d.Orders = Del(s.Orders, {o}) /\ d.Provisionals = s.Provisionals
  BY DEF Sound, IsLedger
<1>3. IsLedger(d, Ids, Tokens) BY DropOrderSound DEF Sound
<1> HIDE DEF d
<1>4. r.Orders = Del(s.Orders, {o}) /\ r.Provisionals = s.Provisionals
  BY <1>2, <1>3, ReleaseFields
<1> HIDE DEF r
<1> QED BY <1>1, <1>4, SizesRestricted

\* TryReserveProvisional enters its intent with its own size.
LEMMA TryReserveSizes ==
    ASSUME NEW s, Sound(s), NEW i \in Ids, NEW r,
           r = TryReserveProvisional(s, i, Order[i].TokenID, Order[i].Side,
                                     Order[i].Price, Order[i].RequestedSize)
    PROVE  SizesFrom(s, r.st)
<1> DEFINE q == Order[i]
           amount == RequiredCollateral(q.Side, q.Price, q.RequestedSize)
           taken == Reserve(s, q.Side, q.TokenID, amount)
           p == [TokenID |-> q.TokenID, Side |-> q.Side, Price |-> q.Price,
                 RemainingSize |-> q.RequestedSize, Reserved |-> amount, Life |-> TTL]
           ok == [taken EXCEPT !.Provisionals = Put(@, i, p)]
<1>1. r.st = s \/ (HasFunds(s, q.Side, q.TokenID, amount) /\ r.st = ok)
  BY DEF TryReserveProvisional, Result
<1>2. ASSUME HasFunds(s, q.Side, q.TokenID, amount) PROVE SizesFrom(s, ok)
  <2>1. /\ IsLedger(taken, Ids, Tokens)
        /\ taken.Orders = s.Orders /\ taken.Provisionals = s.Provisionals
    BY <1>2, ReserveSound, TermsType DEF Sound
  <2>2. p.RemainingSize = Order[i].RequestedSize OBVIOUS
  <2> HIDE DEF taken, p, q
  <2>3. ok.Orders = s.Orders /\ ok.Provisionals = Put(s.Provisionals, i, p)
    BY <2>1 DEF IsLedger
  <2> HIDE DEF ok
  <2> QED BY <2>2, <2>3 DEF SizesFrom, Put
<1> HIDE DEF ok
<1> QED BY <1>1, <1>2 DEF SizesFrom

\* AttachOrder enters its order with its own size, or the provisional's.
LEMMA AttachSizes ==
    ASSUME NEW s, Sound(s), NEW o \in Ids, NEW i, i = o \/ i \notin Ids, NEW r,
           r = AttachOrder(s, i, o, Order[o].TokenID, Order[o].Side,
                           Order[o].Price, Order[o].RequestedSize)
    PROVE  SizesFrom(s, r.st)
<1> DEFINE q == Order[o]
           amount == RequiredCollateral(q.Side, q.Price, q.RequestedSize)
           taken == Reserve(s, q.Side, q.TokenID, amount)
           e == NewReservation(q.TokenID, q.Side, q.Price, q.RequestedSize, FALSE)
           fresh == [taken EXCEPT !.Orders = Put(@, o, e)]
           p == s.Provisionals[o]
           c == [TokenID |-> p.TokenID, Side |-> p.Side, Price |-> p.Price,
                 RemainingSize |-> p.RemainingSize, Reserved |-> p.Reserved,
                 ExternalOrigin |-> FALSE]
           conv == [s EXCEPT !.Provisionals = Del(@, {o}), !.Orders = Put(@, o, c)]
<1>1. \/ r.st = s \/ r.st = ReleaseProvisional(s, i)
      \/ o \in DOMAIN s.Provisionals /\ r.st = conv
      \/ HasFunds(s, q.Side, q.TokenID, amount) /\ r.st = fresh
  <2>1. i \in DOMAIN s.Provisionals => i = o
    BY DEF Sound, IsLedger, IsMap
  <2> QED BY <2>1 DEF AttachOrder, ConvertProvisional, FreshReservation, Result
<1>2. ASSUME HasFunds(s, q.Side, q.TokenID, amount) PROVE SizesFrom(s, fresh)
  <2>1. /\ IsLedger(taken, Ids, Tokens)
        /\ taken.Orders = s.Orders /\ taken.Provisionals = s.Provisionals
    BY <1>2, ReserveSound, TermsType DEF Sound
  <2>2. e.RemainingSize = Order[o].RequestedSize BY DEF NewReservation
  <2> HIDE DEF taken, e, q
  <2>3. fresh.Orders = Put(s.Orders, o, e) /\ fresh.Provisionals = s.Provisionals
    BY <2>1 DEF IsLedger
  <2> HIDE DEF fresh
  <2> QED BY <2>2, <2>3 DEF SizesFrom, Put
<1>3. ASSUME o \in DOMAIN s.Provisionals PROVE SizesFrom(s, conv)
  <2>1. c.RemainingSize = p.RemainingSize OBVIOUS
  <2> HIDE DEF c
  <2>2. conv.Orders = Put(s.Orders, o, c) /\ conv.Provisionals = Del(s.Provisionals, {o})
    BY DEF Sound, IsLedger
  <2> HIDE DEF conv
  <2> QED BY <1>3, <2>1, <2>2 DEF SizesFrom, Put, Del, Restrict
<1>4. SizesFrom(s, s) BY DEF SizesFrom
<1> HIDE DEF conv, fresh
<1> QED BY <1>1, <1>2, <1>3, <1>4, ReleaseProvisionalSizes

\* The cleanup of provisionals leaves sizes as they are.
LEMMA CleanupSizes ==
    ASSUME NEW s, Sound(s)
    PROVE  SizesFrom(s, CleanupExpiredProvisional(s))
<1> DEFINE r == CleanupExpiredProvisional(s)
<1>1. r.Orders = s.Orders /\ r.Provisionals = Del(s.Provisionals, Expired(s))
  BY DEF CleanupExpiredProvisional, Sound, IsLedger
<1> HIDE DEF r
<1>2. SizesFrom(s, r) BY <1>1, SizesRestricted
<1> QED BY <1>2 DEF r

\* Time leaves sizes as they are.
LEMMA ElapseSizes ==
    ASSUME NEW s, Sound(s)
    PROVE  SizesFrom(s, Elapse(s))
<1> DEFINE older(i) == [s.Provisionals[i] EXCEPT !.Life = Max0(@ - 1)]
           ps == [i \in DOMAIN s.Provisionals |-> older(i)]
           r == Elapse(s)
<1>1. r.Orders = s.Orders /\ r.Provisionals = ps
  BY DEF Elapse, Sound, IsLedger
<1>2. ASSUME NEW i \in DOMAIN s.Provisionals
      PROVE  older(i).RemainingSize = s.Provisionals[i].RemainingSize
  BY DEF Sound, IsLedger, IsMap, ProvisionalReservation
<1> HIDE DEF older, r
<1>3. SizesFrom(s, r) BY <1>1, <1>2 DEF SizesFrom
<1> QED BY <1>3 DEF r
=============================================================================
