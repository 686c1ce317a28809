-------------------------- MODULE MarketFlowProofs --------------------------
(***************************************************************************)
(* The market data path for any number of markets, windows and scenes.     *)
(***************************************************************************)
EXTENDS MarketFlow, FiniteSetTheorems, SequenceTheorems, TLAPS

-----------------------------------------------------------------------------
(* The ring is a sliding window.                                           *)

\* The remainder of an index that is too large by one lap at most.
LEMMA OneLap ==
    ASSUME NEW n \in Nat \ {0}, NEW x \in 0 .. (2 * n - 1)
    PROVE  x % n = IF x < n THEN x ELSE x - n
<1>1. CASE x < n
  BY <1>1
<1>2. CASE x >= n
  <2>1. x % n = (x - n) % n BY <1>2
  <2>2. x - n \in 0 .. (n - 1) BY <1>2
  <2> QED BY <1>2, <2>1, <2>2
<1> QED BY <1>1, <1>2

ZData == {None} \cup Markets

\* Where the i-th of c values is when idx is the next index to be written.
Place(idx, c, i) ==
    IF idx - c + (i - 1) < 0 THEN idx - c + (i - 1) + RingSize ELSE idx - c + (i - 1)

\* The values of a ring, without the remainder of the code's loop.
LEMMA RingValues ==
    ASSUME NEW r, Ring!IsRing(r)
    PROVE  /\ Ring!Values(r) = [i \in 1 .. r.count |-> r.buf[Place(r.idx, r.count, i)]]
           /\ \A i \in 1 .. r.count : Place(r.idx, r.count, i) \in 0 .. (RingSize - 1)
           /\ Ring!Values(r) \in Seq(ZData) /\ Len(Ring!Values(r)) = r.count
<1>1. /\ RingSize \in Nat \ {0} /\ r.count \in 0 .. RingSize /\ r.idx \in 0 .. (RingSize - 1)
      /\ r.buf \in [0 .. (RingSize - 1) -> ZData]
  BY MarketFlowAssumption DEF Ring!IsRing, ZData
<1> DEFINE P(i) == Place(r.idx, r.count, i)
           x(i) == r.idx - r.count + (i - 1) + RingSize
<1>2. ASSUME NEW i \in 1 .. r.count
      PROVE  P(i) \in 0 .. (RingSize - 1) /\ x(i) % RingSize = P(i)
  <2>1. x(i) \in 0 .. (2 * RingSize - 1) BY <1>1
  <2>2. x(i) % RingSize = IF x(i) < RingSize THEN x(i) ELSE x(i) - RingSize
    <3> HIDE DEF x
    <3> QED BY <1>1, <2>1, OneLap
  <2>3. P(i) = IF x(i) < RingSize THEN x(i) ELSE x(i) - RingSize BY <1>1 DEF Place
  <2>4. P(i) \in 0 .. (RingSize - 1) BY <1>1 DEF Place
  <2> QED BY <2>2, <2>3, <2>4
<1>3. Ring!Values(r) = [i \in 1 .. r.count |-> r.buf[x(i) % RingSize]]
  BY <1>1 DEF Ring!Values, Ring!Last
<1> HIDE DEF P, x
<1>4. Ring!Values(r) = [i \in 1 .. r.count |-> r.buf[P(i)]] BY <1>2, <1>3
<1>5. \A i \in 1 .. r.count : r.buf[P(i)] \in ZData BY <1>1, <1>2
<1>6. [i \in 1 .. r.count |-> r.buf[P(i)]] \in Seq(ZData) BY <1>1, <1>5
<1>7. Len(Ring!Values(r)) = r.count BY <1>1, <1>4
<1> QED BY <1>2, <1>4, <1>6, <1>7 DEF P

\* A new value takes the next place, the others keep theirs; a full ring loses
\* its oldest value.
LEMMA RingAdd ==
    ASSUME NEW r, Ring!IsRing(r), NEW v \in ZData
    PROVE  /\ Ring!IsRing(Ring!Add(r, v))
           /\ Ring!Values(Ring!Add(r, v)) = Windowed!Newest(Append(Ring!Values(r), v))
<1> DEFINE a == Ring!Add(r, v)
           w == Ring!Values(r)
           wv == Append(w, v)
<1>1. /\ RingSize \in Nat \ {0} /\ r.count \in 0 .. RingSize /\ r.idx \in 0 .. (RingSize - 1)
      /\ r.buf \in [0 .. (RingSize - 1) -> ZData]
  BY MarketFlowAssumption DEF Ring!IsRing, ZData
<1>2. (r.idx + 1) % RingSize = IF r.idx + 1 < RingSize THEN r.idx + 1 ELSE 0
  <2> DEFINE y == r.idx + 1
  <2>1. y \in 0 .. (2 * RingSize - 1) /\ y <= RingSize BY <1>1
  <2> HIDE DEF y
  <2>2. y % RingSize = IF y < RingSize THEN y ELSE y - RingSize BY <1>1, <2>1, OneLap
  <2>3. y % RingSize = IF y < RingSize THEN y ELSE 0 BY <1>1, <2>1, <2>2
  <2> QED BY <2>3 DEF y
<1>3. /\ a.buf = [r.buf EXCEPT ![r.idx] = v]
      /\ a.idx = IF r.idx + 1 < RingSize THEN r.idx + 1 ELSE 0
      /\ a.count = IF r.count < RingSize THEN r.count + 1 ELSE r.count
      /\ a = [buf |-> a.buf, idx |-> a.idx, count |-> a.count]
  BY <1>2 DEF Ring!Add
<1>4. /\ a.buf \in [0 .. (RingSize - 1) -> ZData] /\ a.idx \in 0 .. (RingSize - 1)
      /\ a.count \in 0 .. RingSize
      /\ a.buf[r.idx] = v
      /\ \A k \in 0 .. (RingSize - 1) : k # r.idx => a.buf[k] = r.buf[k]
  <2> HIDE DEF a
  <2> QED BY <1>1, <1>3
<1> HIDE DEF a
<1>5. Ring!IsRing(a) BY <1>3, <1>4 DEF Ring!IsRing, ZData
<1>6. /\ w = [i \in 1 .. r.count |-> r.buf[Place(r.idx, r.count, i)]]
      /\ \A i \in 1 .. r.count : Place(r.idx, r.count, i) \in 0 .. (RingSize - 1)
      /\ w \in Seq(ZData) /\ Len(w) = r.count
  BY RingValues
<1>7. /\ Ring!Values(a) = [i \in 1 .. a.count |-> a.buf[Place(a.idx, a.count, i)]]
      /\ Ring!Values(a) \in Seq(ZData) /\ Len(Ring!Values(a)) = a.count
  BY <1>5, RingValues
<1> HIDE DEF w
<1>8. /\ wv \in Seq(ZData) /\ Len(wv) = r.count + 1 /\ wv[r.count + 1] = v
      /\ \A i \in 1 .. r.count : wv[i] = w[i]
  BY <1>1, <1>6, AppendProperties
<1> HIDE DEF wv
<1>9. ASSUME r.count < RingSize PROVE Ring!Values(a) = Windowed!Newest(wv)
  <2>1. Windowed!Newest(wv) = wv BY <1>1, <1>8, <1>9 DEF Windowed!Newest
  <2>2. a.count = r.count + 1 BY <1>3, <1>9
  <2>3. ASSUME NEW i \in 1 .. a.count PROVE Ring!Values(a)[i] = wv[i]
    <3>1. Ring!Values(a)[i] = a.buf[Place(a.idx, a.count, i)] BY <1>7
    <3>2. CASE i = r.count + 1
      <4>1. Place(a.idx, a.count, i) = r.idx BY <1>1, <1>3, <1>9, <2>2, <3>2 DEF Place
      <4> QED BY <1>4, <1>8, <3>1, <3>2, <4>1
    <3>3. CASE i # r.count + 1
      <4>1. i \in 1 .. r.count BY <1>1, <2>2, <3>3
      <4>2. Place(a.idx, a.count, i) = Place(r.idx, r.count, i)
        <5>1. CASE r.idx + 1 < RingSize
          <6>1. a.idx = r.idx + 1 BY <1>3, <5>1
          <6> QED BY <1>1, <2>2, <4>1, <6>1 DEF Place
        <5>2. CASE ~ (r.idx + 1 < RingSize)
          <6>1. a.idx = 0 /\ r.idx = RingSize - 1 BY <1>1, <1>3, <5>2
          <6> QED BY <1>1, <1>9, <2>2, <4>1, <6>1 DEF Place
        <5> QED BY <5>1, <5>2
      <4>3. Place(r.idx, r.count, i) # r.idx BY <1>1, <1>9, <4>1 DEF Place
      <4> QED BY <1>4, <1>6, <1>8, <3>1, <4>1, <4>2, <4>3
    <3> QED BY <3>2, <3>3
  <2>4. Len(Ring!Values(a)) = Len(wv) BY <1>7, <1>8, <2>2
  <2> QED BY <1>7, <1>8, <2>1, <2>3, <2>4, SeqEqual
<1>10. ASSUME r.count = RingSize PROVE Ring!Values(a) = Windowed!Newest(wv)
  <2>1. Windowed!Newest(wv) = Tail(wv) BY <1>1, <1>8, <1>10 DEF Windowed!Newest
  <2>2. a.count = r.count BY <1>1, <1>3, <1>10
  <2>3. /\ Tail(wv) \in Seq(ZData) /\ Len(Tail(wv)) = r.count
        /\ \A i \in 1 .. r.count : Tail(wv)[i] = wv[i + 1]
    <3>1. wv # << >> BY <1>1, <1>8
    <3> QED BY <1>1, <1>8, <3>1, HeadTailProperties
  <2>4. ASSUME NEW i \in 1 .. a.count PROVE Ring!Values(a)[i] = Tail(wv)[i]
    <3>1. Ring!Values(a)[i] = a.buf[Place(a.idx, a.count, i)] BY <1>7
    <3>2. CASE i = r.count
      <4>1. Place(a.idx, a.count, i) = r.idx BY <1>1, <1>3, <1>10, <2>2, <3>2 DEF Place
      <4>2. Tail(wv)[i] = v BY <1>1, <1>8, <2>2, <2>3, <3>2
      <4> QED BY <1>4, <3>1, <4>1, <4>2
    <3>3. CASE i # r.count
      <4>1. i + 1 \in 1 .. r.count BY <1>1, <2>2, <3>3
      <4>2. Place(a.idx, a.count, i) = Place(r.idx, r.count, i + 1)
        BY <1>1, <1>3, <1>10, <2>2, <4>1 DEF Place
      <4>3. Place(r.idx, r.count, i + 1) # r.idx BY <1>1, <1>10, <4>1 DEF Place
      <4>4. Tail(wv)[i] = w[i + 1] BY <1>8, <2>2, <2>3, <4>1
      <4> QED BY <1>4, <1>6, <3>1, <4>1, <4>2, <4>3, <4>4
    <3> QED BY <3>2, <3>3
  <2>5. Len(Ring!Values(a)) = Len(Tail(wv)) BY <1>7, <2>2, <2>3
  <2> QED BY <1>7, <2>1, <2>3, <2>4, <2>5, SeqEqual
<1> QED BY <1>1, <1>5, <1>9, <1>10 DEF a, w, wv

\* A ring that is reset, and a new one, show nothing.
LEMMA RingEmpty ==
    ASSUME NEW r, Ring!IsRing(r), r.count = 0
    PROVE  Ring!Values(r) = << >>
<1>1. Ring!Values(r) \in Seq(ZData) /\ Len(Ring!Values(r)) = 0 BY RingValues
<1> QED BY <1>1, EmptySeq

\* Reset leaves a ring without values.
LEMMA RingReset ==
    ASSUME NEW r, Ring!IsRing(r)
    PROVE  Ring!IsRing(Ring!Reset(r)) /\ Ring!Values(Ring!Reset(r)) = << >>
<1>1. 0 \in 0 .. (RingSize - 1) /\ 0 \in 0 .. RingSize BY MarketFlowAssumption
<1>2. Ring!IsRing(Ring!Reset(r)) /\ Ring!Reset(r).count = 0
  BY <1>1 DEF Ring!IsRing, Ring!Reset
<1> QED BY <1>2, RingEmpty

\* A new ring has no values.
LEMMA RingNew == Ring!IsRing(Ring!NewRing(0)) /\ Ring!Values(Ring!NewRing(0)) = << >>
<1>1. 0 \in 0 .. (RingSize - 1) /\ 0 \in 0 .. RingSize BY MarketFlowAssumption
<1>2. Ring!IsRing(Ring!NewRing(0)) /\ Ring!NewRing(0).count = 0
  BY <1>1 DEF Ring!IsRing, Ring!NewRing, None
<1> QED BY <1>2, RingEmpty

-----------------------------------------------------------------------------
(* Markets and events.                                                     *)

\* Markets end within the time there is.
LEMMA EndTimes ==
    \A m \in Markets : EndTime(m) \in Nat /\ EndTime(m) <= EndTime(LastMarket)
<1> SUFFICES ASSUME NEW m \in Markets
             PROVE  EndTime(m) \in Nat /\ EndTime(m) <= EndTime(LastMarket)
  OBVIOUS
<1>1. LastMarket \in Nat /\ Window \in Nat /\ m \in Nat /\ m <= LastMarket
  BY MarketFlowAssumption DEF Markets
<1>2. m * Window \in Nat /\ m * Window <= LastMarket * Window BY <1>1
<1> QED BY <1>2 DEF EndTime

\* A time before the end of the last market falls into a market.
LEMMA SlugIsMarket ==
    ASSUME NEW now \in Nat, NEW l \in Markets
    PROVE  (IF now < EndTime(l) THEN (now \div Window) + 1 ELSE l) \in Markets
<1>1. Window \in Nat \ {0} /\ l \in Nat \ {0} /\ l <= LastMarket /\ LastMarket \in Nat
  BY MarketFlowAssumption DEF Markets
<1> DEFINE d == now \div Window
<1>2. d \in Nat /\ d * Window <= now BY <1>1
<1> HIDE DEF d
<1>3. ASSUME now < EndTime(l) PROVE d < l
  <2> SUFFICES ASSUME d >= l PROVE FALSE BY <1>1, <1>2
  <2>1. d * Window >= l * Window BY <1>1, <1>2
  <2>2. l * Window > now BY <1>3 DEF EndTime
  <2>3. d * Window \in Nat /\ l * Window \in Nat BY <1>1, <1>2
  <2> QED BY <1>2, <2>1, <2>2, <2>3
<1>4. now < EndTime(l) => d + 1 \in Markets BY <1>1, <1>2, <1>3 DEF Markets
<1> QED BY <1>4 DEF d

\* The other outcome is a token of the same market, and the other's other.
LEMMA OtherToken ==
    ASSUME NEW t \in Tokens
    PROVE  Other(t) \in Tokens /\ Other(t) # t /\ Other(Other(t)) = t
           /\ \A m \in Markets : t \in TokensOf(m) <=> Other(t) \in TokensOf(m)
BY DEF Other, Tokens, TokensOf, Sides

\* Publishing an event keeps the bus within its capacity and everything on it;
\* a Market or Execution event is there or counted as lost.
LEMMA Publishing ==
    ASSUME NEW q \in Seq(BusEvents), Len(q) <= BusCap, NEW e \in BusEvents,
           lost \subseteq BusEvents, PublishTo(q, e)
    PROVE  /\ bus' \in Seq(BusEvents) /\ Len(bus') <= BusCap
           /\ lost' \subseteq BusEvents /\ lost \subseteq lost'
           /\ ToSet(q) \subseteq ToSet(bus')
           /\ e.kind \in {"Market", "Execution"} => e \in ToSet(bus') \cup lost'
<1>1. BusCap \in Nat BY MarketFlowAssumption
<1>2. CASE Len(q) < BusCap
  <2>1. bus' = Append(q, e) /\ lost' = lost BY <1>2 DEF PublishTo
  <2>2. /\ Append(q, e) \in Seq(BusEvents) /\ Len(Append(q, e)) = Len(q) + 1
        /\ Append(q, e)[Len(q) + 1] = e
        /\ \A i \in 1 .. Len(q) : Append(q, e)[i] = q[i]
        /\ DOMAIN q = 1 .. Len(q) /\ DOMAIN Append(q, e) = 1 .. (Len(q) + 1)
        /\ Len(q) \in Nat
    BY AppendProperties, LenProperties
  <2>3. ToSet(q) \subseteq ToSet(bus') /\ e \in ToSet(bus') BY <2>1, <2>2 DEF ToSet
  <2> QED BY <1>1, <1>2, <2>1, <2>2, <2>3
<1>3. CASE ~ (Len(q) < BusCap)
  <2>1. /\ bus' = q
        /\ lost' = IF e.kind \in {"Market", "Execution"} THEN lost \cup {e} ELSE lost
    BY <1>3 DEF PublishTo
  <2> QED BY <2>1
<1> QED BY <1>2, <1>3

\* Taking the first event off.
LEMMA Taking ==
    ASSUME NEW q \in Seq(BusEvents), q # << >>
    PROVE  /\ Head(q) \in BusEvents /\ Tail(q) \in Seq(BusEvents)
           /\ Len(Tail(q)) = Len(q) - 1 /\ Len(q) \in Nat
           /\ ToSet(q) = {Head(q)} \cup ToSet(Tail(q))
<1>1. /\ Head(q) \in BusEvents /\ Tail(q) \in Seq(BusEvents) /\ Len(Tail(q)) = Len(q) - 1
      /\ Len(q) \in Nat \ {0} /\ Head(q) = q[1] /\ DOMAIN q = 1 .. Len(q)
      /\ DOMAIN Tail(q) = 1 .. (Len(q) - 1)
      /\ \A i \in 1 .. (Len(q) - 1) : Tail(q)[i] = q[i + 1]
  BY HeadTailProperties, EmptySeq, LenProperties
<1>2. \A i \in 2 .. Len(q) : i - 1 \in 1 .. (Len(q) - 1) /\ (i - 1) + 1 = i BY <1>1
<1>3. ToSet(q) \subseteq {Head(q)} \cup ToSet(Tail(q))
  <2>1. ASSUME NEW i \in DOMAIN q PROVE q[i] \in {Head(q)} \cup ToSet(Tail(q))
    <3>1. CASE i = 1 BY <1>1, <3>1
    <3>2. CASE i # 1
      <4>1. i \in 2 .. Len(q) BY <1>1, <3>2
      <4>2. Tail(q)[i - 1] = q[i] /\ i - 1 \in DOMAIN Tail(q) BY <1>1, <1>2, <4>1
      <4> QED BY <4>2 DEF ToSet
    <3> QED BY <3>1, <3>2
  <2> QED BY <2>1 DEF ToSet
<1>4. {Head(q)} \cup ToSet(Tail(q)) \subseteq ToSet(q)
  <2>1. \A i \in 1 .. (Len(q) - 1) : i + 1 \in 1 .. Len(q) BY <1>1
  <2>2. Head(q) \in ToSet(q) BY <1>1 DEF ToSet
  <2>3. \A i \in DOMAIN Tail(q) : Tail(q)[i] \in ToSet(q) BY <1>1, <2>1 DEF ToSet
  <2> QED BY <2>2, <2>3 DEF ToSet
<1> QED BY <1>1, <1>3, <1>4

-----------------------------------------------------------------------------
(* The type invariant, in parts that few actions write to.                 *)

WorldType ==
    /\ scene \in Scenes /\ made \in [Counted -> Nat]
    /\ clock \in 0 .. EndTime(LastMarket)
    /\ panicked \in {"none", "loop", "metrics"}
FeedType ==
    /\ feed \in [at : {"fetch", "inner"}, market : {None} \cup Markets,
                 failures : 0 .. (MaxFailures - 1)]
    /\ obChan \in Seq(Books)
BusType == bus \in Seq(BusEvents) /\ Len(bus) <= BusCap /\ lost \subseteq BusEvents
LoopType ==
    /\ loop \in {Idle} \cup [at : {"prep", "zeroZ", "reset", "store", "replace"},
                             market : Markets]
    /\ {market, metrics} \subseteq {None} \cup Markets
StoreType ==
    /\ DOMAIN tokens \subseteq Tokens /\ DOMAIN books \subseteq Tokens
    /\ latestZ \in {0} \cup Markets /\ Ring!IsRing(zWindows)
    /\ ticker \in {NoZ, 0} \cup Markets
StrategyType ==
    /\ markets \in Seq(Markets) /\ Len(markets) <= MarketQueueCap
    /\ orders \in [Tokens -> OrderStates] /\ held \in [Tokens -> HeldStates]
    /\ asked \subseteq Tokens /\ exposed \subseteq Tokens
ExpiryType ==
    /\ DOMAIN expiry \subseteq Markets /\ \A m \in DOMAIN expiry : expiry[m] \in BOOLEAN
    /\ toFire \subseteq Markets
    /\ warned \in [Markets -> Nat] /\ registered \in [Markets -> Nat]

\* TypeOK, by the goroutine that owns the state.
LEMMA TypeParts ==
    /\ TypeOK <=> /\ WorldType /\ FeedType /\ BusType /\ LoopType /\ StoreType
                  /\ StrategyType /\ ExpiryType
    /\ TypeOK' <=> /\ WorldType' /\ FeedType' /\ BusType' /\ LoopType' /\ StoreType'
                   /\ StrategyType' /\ ExpiryType'
BY DEF TypeOK, WorldType, FeedType, BusType, LoopType, StoreType, StrategyType, ExpiryType

\* The first state is well formed.
LEMMA InitType == Init => TypeOK
<1> SUFFICES ASSUME Init PROVE TypeOK OBVIOUS
<1>1. WorldType
  <2>1. 0 \in 0 .. EndTime(LastMarket)
    <3>1. LastMarket \in Markets BY MarketFlowAssumption DEF Markets
    <3> QED BY <3>1, EndTimes
  <2> QED BY <2>1 DEF Init, WorldType
<1>2. FeedType BY MarketFlowAssumption DEF Init, FeedType
<1>3. BusType BY MarketFlowAssumption DEF Init, BusType
<1>4. LoopType BY DEF Init, LoopType
<1>5. StoreType BY RingNew DEF Init, StoreType
<1>6. StrategyType BY MarketFlowAssumption DEF Init, StrategyType, OrderStates, HeldStates
<1>7. ExpiryType BY DEF Init, ExpiryType
<1> QED BY <1>1, <1>2, <1>3, <1>4, <1>5, <1>6, <1>7, TypeParts

\* Counting keeps the counters.
LEMMA Counting ==
    ASSUME made \in [Counted -> Nat], NEW what \in Counted, Count(what)
    PROVE  made' \in [Counted -> Nat]
BY DEF Count

\* An event the strategy has looked at leaves the bus, or one more RiskEvent on it.
LEMMA Silence ==
    ASSUME BusType, NEW q \in Seq(BusEvents), Len(q) <= BusCap, Silent(q)
    PROVE  BusType' /\ made' = made
BY DEF BusType, Silent

\* The notice of a refused batch fits the bus, or is dropped.
LEMMA Refusing ==
    ASSUME BusType, NEW q \in Seq(BusEvents), Len(q) <= BusCap,
           PublishTo(q, [kind |-> "Risk"])
    PROVE  BusType'
<1>1. [kind |-> "Risk"] \in BusEvents BY DEF BusEvents
<1> QED BY <1>1, Publishing DEF BusType

\* The strategy's three callbacks.
LEMMA OnMarketType ==
    ASSUME WorldType, BusType, StrategyType, NEW m \in Markets,
           NEW q \in Seq(BusEvents), Len(q) <= BusCap, OnMarket(m, q)
    PROVE  BusType' /\ StrategyType' /\ made' \in [Counted -> Nat]
<1>1. CASE UNCHANGED stratVars /\ Silent(q)
  BY <1>1, Silence DEF stratVars, StrategyType, WorldType
<1>2. CASE /\ markets' = Remember(m) /\ UNCHANGED <<held, asked, exposed>>
           /\ Submit(q, TRUE,
                     orders' = [t \in Tokens |-> IF t \in TokensOf(m) THEN "posted"
                                                                      ELSE orders[t]],
                     UNCHANGED orders)
  <2>1. markets' \in Seq(Markets) /\ Len(markets') <= MarketQueueCap
    <3>1. MarketQueueCap \in Nat \ {0} /\ markets \in Seq(Markets) /\ Len(markets) <= MarketQueueCap
      BY MarketFlowAssumption DEF StrategyType
    <3>2. CASE m \in ToSet(markets) BY <1>2, <3>1, <3>2 DEF Remember
    <3>3. CASE m \notin ToSet(markets) /\ Len(markets) >= MarketQueueCap
      <4>1. Tail(markets) \in Seq(Markets) /\ Len(Tail(markets)) = Len(markets) - 1
        <5>1. markets # << >> BY <3>1, <3>3
        <5> QED BY <3>1, <5>1
      <4> QED BY <1>2, <3>1, <3>3, <4>1 DEF Remember
    <3>4. CASE m \notin ToSet(markets) /\ ~ (Len(markets) >= MarketQueueCap)
      BY <1>2, <3>1, <3>4 DEF Remember
    <3> QED BY <3>2, <3>3, <3>4
  <2>2. orders' \in [Tokens -> OrderStates]
    <3>1. CASE orders' = [t \in Tokens |-> IF t \in TokensOf(m) THEN "posted" ELSE orders[t]]
      BY <3>1 DEF StrategyType, OrderStates
    <3>2. CASE UNCHANGED orders BY <3>2 DEF StrategyType
    <3> QED BY <1>2, <3>1, <3>2 DEF Submit
  <2>3. BusType' /\ made' \in [Counted -> Nat]
    <3>1. CASE Silent(q) BY <3>1, Silence DEF WorldType
    <3>2. CASE Count("refusals") /\ PublishTo(q, [kind |-> "Risk"])
      BY <3>2, Refusing, Counting DEF WorldType, Counted
    <3> QED BY <1>2, <3>1, <3>2 DEF Submit
  <2> QED BY <1>2, <2>1, <2>2, <2>3 DEF StrategyType
<1> QED BY <1>1, <1>2 DEF OnMarket

\* A position is put on offer if available, a confirmed order's CANCEL asked for.
LEMMA Unwinding ==
    ASSUME StrategyType, NEW t \in Tokens, NEW c \in Tokens, Unwind(t, c)
    PROVE  /\ held' \in [Tokens -> HeldStates]
           /\ \A u \in Tokens \ {t} : held'[u] = held[u]
           /\ held'[t] = (IF held[t] = "available" THEN "selling" ELSE held[t])
           /\ asked' \subseteq Tokens /\ asked \subseteq asked'
           /\ orders[c] \in {"open", "matched"} => c \in asked'
BY DEF Unwind, StrategyType, HeldStates

\* The stop-loss keeps the strategy's state well formed.
LEMMA OnBookType ==
    ASSUME WorldType, BusType, LoopType, StrategyType, NEW bs,
           NEW q \in Seq(BusEvents), Len(q) <= BusCap, OnBook(bs, q)
    PROVE  BusType' /\ StrategyType' /\ made' \in [Counted -> Nat]
<1>1. CASE UNCHANGED stratVars /\ Silent(q)
  BY <1>1, Silence DEF stratVars, StrategyType, WorldType
<1>2. ASSUME NEW t \in TokensOf(market), market \in ToSet(markets),
             Submit(q, TRUE, Unwind(t, Other(t)), UNCHANGED <<held, asked>>),
             UNCHANGED <<markets, orders, exposed>>
      PROVE  BusType' /\ StrategyType' /\ made' \in [Counted -> Nat]
  <2>1. t \in Tokens /\ Other(t) \in Tokens
    <3>1. market \in Markets BY <1>2 DEF ToSet, StrategyType
    <3> QED BY <3>1, OtherToken DEF Tokens, TokensOf
  <2>2. BusType' /\ made' \in [Counted -> Nat]
    <3>1. CASE Silent(q) BY <3>1, Silence DEF WorldType
    <3>2. CASE Count("refusals") /\ PublishTo(q, [kind |-> "Risk"])
      BY <3>2, Refusing, Counting DEF WorldType, Counted
    <3> QED BY <1>2, <3>1, <3>2 DEF Submit
  <2>3. held' \in [Tokens -> HeldStates] /\ asked' \subseteq Tokens
    <3>1. CASE Unwind(t, Other(t)) BY <2>1, <3>1, Unwinding
    <3>2. CASE UNCHANGED <<held, asked>> BY <3>2 DEF StrategyType
    <3> QED BY <1>2, <3>1, <3>2 DEF Submit
  <2> QED BY <1>2, <2>2, <2>3 DEF StrategyType
<1> QED BY <1>1, <1>2 DEF OnBook

\* The answer to a failed leg keeps the strategy's state well formed.
LEMMA OnTradeFailedType ==
    ASSUME WorldType, BusType, StrategyType, NEW t \in Tokens,
           NEW q \in Seq(BusEvents), Len(q) <= BusCap, OnTradeFailed(t, q)
    PROVE  BusType' /\ StrategyType' /\ made' \in [Counted -> Nat]
<1> DEFINE u == Other(t)
<1>1. u \in Tokens BY OtherToken
<1>2. BusType' /\ made' \in [Counted -> Nat]
  <2>1. CASE Silent(q) BY <2>1, Silence DEF WorldType
  <2>2. CASE Count("refusals") /\ PublishTo(q, [kind |-> "Risk"])
    BY <2>2, Refusing, Counting DEF WorldType, Counted
  <2> QED BY <2>1, <2>2 DEF OnTradeFailed, Submit
<1>3. held' \in [Tokens -> HeldStates] /\ asked' \subseteq Tokens
  <2>1. CASE Unwind(u, u) BY <1>1, <2>1, Unwinding
  <2>2. CASE UNCHANGED <<held, asked>> BY <2>2 DEF StrategyType
  <2> QED BY <2>1, <2>2 DEF OnTradeFailed, Submit
<1>4. exposed' = exposed \cup {u} \/ exposed' = exposed BY DEF OnTradeFailed, Submit
<1>5. markets' = markets /\ orders' = orders BY DEF OnTradeFailed
<1> QED BY <1>1, <1>2, <1>3, <1>4, <1>5 DEF StrategyType

\* The loop takes an event off a well-formed bus.
LEMMA TakeType ==
    ASSUME TypeOK, bus # << >>
    PROVE  /\ Head(bus) \in BusEvents /\ Tail(bus) \in Seq(BusEvents)
           /\ Len(Tail(bus)) <= BusCap
           /\ Head(bus).kind = "Market" => Head(bus).market \in Markets
           /\ Head(bus).kind = "OrderBook" => Head(bus) \in Books /\ Head(bus).token \in Tokens
           /\ Head(bus).kind = "ExternalPrice" => Head(bus).second \in Nat
           /\ Head(bus).kind = "Execution" =>
                Head(bus).token \in Tokens /\ Head(bus) = TradeFailed(Head(bus).token)
<1>1. Head(bus) \in BusEvents /\ Tail(bus) \in Seq(BusEvents) /\ Len(Tail(bus)) = Len(bus) - 1
      /\ Len(bus) \in Nat /\ Len(bus) <= BusCap /\ BusCap \in Nat
  BY Taking, MarketFlowAssumption DEF TypeOK
<1> DEFINE e == Head(bus)
<1>2. e \in BusEvents BY <1>1
<1> HIDE DEF e
<1>3. /\ e.kind = "Market" => e.market \in Markets
      /\ e.kind = "OrderBook" => e \in Books /\ e.token \in Tokens
      /\ e.kind = "ExternalPrice" => e.second \in Nat
      /\ e.kind = "Execution" => e.token \in Tokens /\ e = TradeFailed(e.token)
  BY <1>2 DEF BusEvents, Books, TradeFailed
<1> QED BY <1>1, <1>3 DEF e

\* A step of the feed keeps the types.
LEMMA FeedStepType == TypeOK /\ FeedNext => TypeOK'
<1> SUFFICES ASSUME TypeOK, FeedNext PROVE TypeOK' OBVIOUS
<1> USE TypeParts
<1>1. /\ WorldType /\ FeedType /\ BusType /\ LoopType /\ StoreType /\ StrategyType /\ ExpiryType
      /\ clock \in Nat /\ MaxFailures \in Nat \ {0} /\ scene.last \in Markets
  <2>1. clock \in Nat BY EndTimes, MarketFlowAssumption DEF WorldType, Markets
  <2> QED BY <2>1, MarketFlowAssumption DEF WorldType
<1>2. UNCHANGED <<loop, probVars, sideVars, stratVars, expiryVars, clock, scene>>
  BY DEF FeedNext, FetchMarketBySlug, FetchFails, MonitorBook, ForwardBook, MarketEnded,
         ForwardPrice, worldVars
<1>3. LoopType' /\ StoreType' /\ StrategyType' /\ ExpiryType'
  BY <1>1, <1>2 DEF LoopType, StoreType, StrategyType, ExpiryType, probVars, sideVars,
                    stratVars, expiryVars
<1>4. made' \in [Counted -> Nat] => WorldType'
  BY <1>1, <1>2 DEF WorldType, sideVars
<1>5. CASE FetchMarketBySlug
  <2>1. slugFor(clock) \in Markets BY <1>1, SlugIsMarket DEF slugFor
  <2>2. MarketEvent(slugFor(clock)) \in BusEvents BY <2>1 DEF MarketEvent, BusEvents
  <2>3. BusType' BY <1>1, <1>5, <2>2, Publishing DEF FetchMarketBySlug, Publish, BusType
  <2>4. FeedType' BY <1>1, <1>5, <2>1 DEF FetchMarketBySlug, FeedType
  <2>5. made' \in [Counted -> Nat] BY <1>1, <1>5 DEF FetchMarketBySlug, worldVars, WorldType
  <2> QED BY <1>3, <1>4, <2>3, <2>4, <2>5
<1>6. CASE FetchFails
  <2>1. [kind |-> "Risk"] \in BusEvents BY DEF BusEvents
  <2>2. BusType'
    <3>1. CASE Publish([kind |-> "Risk"]) BY <1>1, <2>1, <3>1, Publishing DEF Publish, BusType
    <3>2. CASE UNCHANGED <<bus, lost>> BY <1>1, <3>2 DEF BusType
    <3> QED BY <1>6, <3>1, <3>2 DEF FetchFails
  <2>3. FeedType' BY <1>1, <1>6 DEF FetchFails, FeedType
  <2>4. made' \in [Counted -> Nat]
    BY <1>1, <1>6, Counting DEF FetchFails, Counted, WorldType
  <2> QED BY <1>3, <1>4, <2>2, <2>3, <2>4
<1>7. ASSUME NEW t \in Tokens, NEW stamp \in scene.stamps, MonitorBook(t, stamp) PROVE TypeOK'
  <2>1. stamp \in Nat BY <1>1, MarketFlowAssumption DEF WorldType
  <2>2. [kind |-> "OrderBook", token |-> t, Timestamp |-> stamp] \in Books BY <2>1 DEF Books
  <2>3. FeedType' BY <1>1, <1>7, <2>2 DEF MonitorBook, FeedType
  <2>4. BusType' BY <1>1, <1>7 DEF MonitorBook, BusType
  <2>5. made' \in [Counted -> Nat]
    BY <1>1, <1>7, Counting DEF MonitorBook, Counted, WorldType
  <2> QED BY <1>3, <1>4, <2>3, <2>4, <2>5
<1>8. CASE ForwardBook
  <2>1. Head(obChan) \in Books /\ Tail(obChan) \in Seq(Books)
    BY <1>1, <1>8 DEF ForwardBook, FeedType
  <2>2. Head(obChan) \in BusEvents BY <2>1 DEF BusEvents
  <2>3. BusType' BY <1>1, <1>8, <2>2, Publishing DEF ForwardBook, Publish, BusType
  <2>4. FeedType' BY <1>1, <1>8, <2>1 DEF ForwardBook, FeedType
  <2>5. made' \in [Counted -> Nat] BY <1>1, <1>8 DEF ForwardBook, worldVars, WorldType
  <2> QED BY <1>3, <1>4, <2>3, <2>4, <2>5
<1>9. CASE MarketEnded
  <2>1. BusType' BY <1>1, <1>9 DEF MarketEnded, BusType
  <2>2. FeedType' BY <1>1, <1>9 DEF MarketEnded, FeedType
  <2>3. made' \in [Counted -> Nat] BY <1>1, <1>9 DEF MarketEnded, worldVars, WorldType
  <2> QED BY <1>3, <1>4, <2>1, <2>2, <2>3
<1>10. CASE ForwardPrice
  <2>1. [kind |-> "ExternalPrice", second |-> clock + 1] \in BusEvents
    BY <1>1 DEF BusEvents
  <2>2. BusType' BY <1>1, <1>10, <2>1, Publishing DEF ForwardPrice, Publish, BusType
  <2>3. FeedType' BY <1>1, <1>10 DEF ForwardPrice, FeedType, feedVars
  <2>4. made' \in [Counted -> Nat]
    BY <1>1, <1>10, Counting DEF ForwardPrice, Counted, WorldType
  <2> QED BY <1>3, <1>4, <2>2, <2>3, <2>4
<1> QED BY <1>5, <1>6, <1>7, <1>8, <1>9, <1>10 DEF FeedNext

\* A step of the loop keeps the types.
LEMMA LoopStepType == TypeOK /\ LoopNext => TypeOK'
<1> SUFFICES ASSUME TypeOK, LoopNext PROVE TypeOK' OBVIOUS
<1> USE TypeParts
<1>1. WorldType /\ FeedType /\ BusType /\ LoopType /\ StoreType /\ StrategyType /\ ExpiryType
  OBVIOUS
<1>2. UNCHANGED <<feedVars, expiryVars, ticker, metrics, clock, scene>>
  BY DEF LoopNext, TakeMarket, TakeBook, TakePrice, TakeExecution, TakeOther, Take,
         PrepareReset, ZeroZ, ResetStores, StoreTokens, Switch, ReplaceMarket, sideVars,
         worldVars
<1>3. FeedType' /\ ExpiryType'
  BY <1>1, <1>2 DEF FeedType, ExpiryType, feedVars, expiryVars
<1>4. made' \in [Counted -> Nat] /\ panicked' \in {"none", "loop", "metrics"} => WorldType'
  BY <1>1, <1>2 DEF WorldType
<1>5. CASE TakeMarket
  <2>1. Take("Market", TRUE) BY <1>5 DEF TakeMarket, Take
  <2>2. Head(bus).market \in Markets /\ Tail(bus) \in Seq(BusEvents) /\ Len(Tail(bus)) <= BusCap
    BY <2>1, TakeType DEF Take
  <2>3. BusType' /\ made' = made BY <1>1, <1>5, <2>2, Silence DEF TakeMarket, Take
  <2>4. LoopType' BY <1>1, <1>2, <1>5, <2>2 DEF TakeMarket, Take, LoopType, probVars
  <2>5. StoreType' /\ StrategyType'
    BY <1>1, <1>2, <1>5 DEF TakeMarket, Take, StoreType, StrategyType, probVars, stratVars
  <2>6. panicked' = panicked BY <1>5 DEF TakeMarket, Take, sideVars
  <2> QED BY <1>1, <1>3, <1>4, <2>3, <2>4, <2>5, <2>6 DEF WorldType
<1>6. CASE TakeBook
  <2> DEFINE b == Head(bus)
  <2>1. Take("OrderBook", TRUE) BY <1>6 DEF TakeBook, Take
  <2>2. b.token \in Tokens /\ Tail(bus) \in Seq(BusEvents) /\ Len(Tail(bus)) <= BusCap
    BY <2>1, TakeType DEF Take
  <2>3. panicked' = panicked BY <1>6 DEF TakeBook, Take, sideVars
  <2>4. LoopType' BY <1>1, <1>2, <1>6 DEF TakeBook, Take, LoopType
  <2>5. CASE market = None
    <3>1. BusType' /\ made' = made BY <1>1, <1>6, <2>2, <2>5, Silence DEF TakeBook, Take
    <3>2. StoreType' /\ StrategyType'
      BY <1>1, <1>2, <1>6, <2>5 DEF TakeBook, Take, StoreType, StrategyType, stratVars
    <3> QED BY <1>1, <1>3, <1>4, <2>3, <2>4, <3>1, <3>2 DEF WorldType
  <2>6. CASE market # None
    <3>1. OnBook(books', Tail(bus)) BY <1>6, <2>6 DEF TakeBook, Take
    <3>2. BusType' /\ StrategyType' /\ made' \in [Counted -> Nat]
      BY <1>1, <2>2, <3>1, OnBookType
    <3>3. DOMAIN books' \subseteq Tokens
      BY <1>1, <1>6, <2>2, <2>6 DEF TakeBook, Take, StoreBook, StoreType
    <3>4. DOMAIN tokens' = DOMAIN tokens
      BY <1>6, <2>6 DEF TakeBook, Take, updateToken
    <3>5. StoreType'
      BY <1>1, <1>2, <1>6, <3>3, <3>4 DEF TakeBook, Take, StoreType
    <3> QED BY <1>1, <1>3, <1>4, <2>3, <2>4, <3>2, <3>5 DEF WorldType
  <2> QED BY <2>5, <2>6
<1>7. CASE TakePrice
  <2>1. Take("ExternalPrice", TRUE) BY <1>7 DEF TakePrice, Take
  <2>2. Tail(bus) \in Seq(BusEvents) /\ Len(Tail(bus)) <= BusCap BY <2>1, TakeType DEF Take
  <2>3. BusType' /\ made' = made BY <1>1, <1>7, <2>2, Silence DEF TakePrice, Take
  <2>4. latestZ' \in {0, latestZ, market} BY <1>7 DEF TakePrice, Take
  <2>5. StoreType' BY <1>1, <1>2, <1>7, <2>4 DEF TakePrice, Take, StoreType, LoopType, None
  <2>6. LoopType' /\ StrategyType'
    BY <1>1, <1>2, <1>7 DEF TakePrice, Take, LoopType, StrategyType, stratVars
  <2>7. panicked' = panicked BY <1>7 DEF TakePrice, Take, sideVars
  <2> QED BY <1>1, <1>3, <1>4, <2>3, <2>5, <2>6, <2>7 DEF WorldType
<1>8. CASE TakeExecution
  <2>1. Take("Execution", TRUE) BY <1>8 DEF TakeExecution, Take
  <2>2. Head(bus).token \in Tokens /\ Tail(bus) \in Seq(BusEvents) /\ Len(Tail(bus)) <= BusCap
    BY <2>1, TakeType DEF Take
  <2>3. OnTradeFailed(Head(bus).token, Tail(bus)) BY <1>8 DEF TakeExecution, Take
  <2>4. BusType' /\ StrategyType' /\ made' \in [Counted -> Nat]
    BY <1>1, <2>2, <2>3, OnTradeFailedType
  <2>5. LoopType' /\ StoreType'
    BY <1>1, <1>2, <1>8 DEF TakeExecution, Take, LoopType, StoreType, probVars
  <2>6. panicked' = panicked BY <1>8 DEF TakeExecution, Take, sideVars
  <2> QED BY <1>1, <1>3, <1>4, <2>4, <2>5, <2>6 DEF WorldType
<1>9. CASE TakeOther
  <2>1. bus # << >> /\ Silent(Tail(bus)) /\ UNCHANGED <<loop, probVars, stratVars, sideVars>>
    BY <1>9 DEF TakeOther, Take
  <2>2. Tail(bus) \in Seq(BusEvents) /\ Len(Tail(bus)) <= BusCap BY <2>1, TakeType
  <2>3. BusType' /\ made' = made BY <1>1, <2>1, <2>2, Silence
  <2>4. LoopType' /\ StoreType' /\ StrategyType' /\ panicked' = panicked
    BY <1>1, <1>2, <2>1
       DEF LoopType, StoreType, StrategyType, probVars, stratVars, sideVars
  <2> QED BY <1>1, <1>3, <1>4, <2>3, <2>4 DEF WorldType
<1>10. CASE PrepareReset
  <2>1. loop \in [at : {"prep"}, market : Markets] BY <1>1, <1>10 DEF PrepareReset, LoopType, Idle
  <2>2. LoopType' BY <1>1, <1>2, <1>10, <2>1 DEF PrepareReset, LoopType, probVars, Idle
  <2>3. MarketEvent(loop.market) \in BusEvents BY <2>1 DEF MarketEvent, BusEvents
  <2>4. BusType' BY <1>1, <1>10, <2>3 DEF PrepareReset, BusType
  <2>5. made' \in [Counted -> Nat]
    BY <1>1, <1>10, Counting DEF PrepareReset, Counted, WorldType
  <2>6. StoreType' /\ StrategyType' /\ panicked' = panicked
    BY <1>1, <1>10 DEF PrepareReset, StoreType, StrategyType, probVars, stratVars, sideVars
  <2> QED BY <1>1, <1>3, <1>4, <2>2, <2>4, <2>5, <2>6 DEF WorldType
<1>11. ASSUME NEW from \in {"zeroZ", "reset", "store"},
              NEW to \in {"reset", "store", "replace"}, Switch(from, to)
       PROVE  /\ WorldType' /\ BusType' /\ LoopType' /\ StrategyType'
              /\ loop.market \in Markets
  <2>1. loop \in [at : {"zeroZ", "reset", "store"}, market : Markets]
    BY <1>1, <1>11 DEF Switch, LoopType, Idle
  <2>2. LoopType' BY <1>1, <1>2, <1>11, <2>1 DEF Switch, LoopType
  <2>3. BusType' /\ StrategyType' /\ made' = made /\ panicked' = panicked
    BY <1>1, <1>11 DEF Switch, BusType, StrategyType, stratVars, worldVars, sideVars
  <2> QED BY <1>1, <1>4, <2>1, <2>2, <2>3 DEF WorldType
<1>12. CASE ZeroZ
  <2>1. Switch("zeroZ", "reset") BY <1>12 DEF ZeroZ
  <2>2. StoreType' BY <1>1, <1>2, <1>12 DEF ZeroZ, StoreType
  <2> QED BY <1>3, <1>11, <2>1, <2>2
<1>13. CASE ResetStores
  <2>1. Switch("reset", "store") BY <1>13 DEF ResetStores
  <2>2. Ring!IsRing(zWindows') BY <1>1, <1>13, RingReset DEF ResetStores, StoreType
  <2>3. StoreType' BY <1>1, <1>2, <1>13, <2>2 DEF ResetStores, StoreType
  <2> QED BY <1>3, <1>11, <2>1, <2>3
<1>14. CASE StoreTokens
  <2>1. Switch("store", "replace") BY <1>14 DEF StoreTokens
  <2>2. TokensOf(loop.market) \subseteq Tokens BY <1>11, <2>1 DEF TokensOf, Tokens
  <2>3. StoreType' BY <1>1, <1>2, <1>14, <2>2 DEF StoreTokens, StoreType
  <2> QED BY <1>3, <1>11, <2>1, <2>3
<1>15. CASE ReplaceMarket
  <2>1. loop.market \in Markets BY <1>1, <1>15 DEF ReplaceMarket, LoopType, Idle
  <2>2. LoopType' BY <1>1, <1>2, <1>15, <2>1 DEF ReplaceMarket, LoopType
  <2>3. StoreType' BY <1>1, <1>2, <1>15 DEF ReplaceMarket, StoreType
  <2>4. BusType' /\ StrategyType' /\ made' \in [Counted -> Nat]
        /\ panicked' \in {"none", "loop", "metrics"}
    <3>1. bus \in Seq(BusEvents) /\ Len(bus) <= BusCap BY <1>1 DEF BusType
    <3>2. CASE OnMarket(market', bus) /\ UNCHANGED panicked
      <4>1. OnMarket(loop.market, bus) BY <1>15, <3>2 DEF ReplaceMarket
      <4> QED BY <1>1, <2>1, <3>1, <3>2, <4>1, OnMarketType DEF WorldType
    <3>3. CASE panicked' = "loop" /\ Silent(bus) /\ UNCHANGED stratVars
      BY <1>1, <3>1, <3>3, Silence DEF WorldType, StrategyType, stratVars
    <3> QED BY <1>15, <3>2, <3>3 DEF ReplaceMarket
  <2> QED BY <1>3, <1>4, <2>2, <2>3, <2>4
<1> QED
  BY <1>5, <1>6, <1>7, <1>8, <1>9, <1>10, <1>12, <1>13, <1>14, <1>15 DEF LoopNext

\* The exchange and the ledger's bookings leave the rest of the program alone.
LEMMA ExchangeFrame ==
    ASSUME NEW t \in Tokens, ExchangeStep(t)
    PROVE  /\ UNCHANGED <<feedVars, loop, probVars, sideVars, markets, expiryVars, clock,
                         scene>>
           /\ UNCHANGED made \/ \E what \in {"accepts", "failures"} : Count(what)
           /\ \/ UNCHANGED <<bus, lost>>
              \/ Publish(TradeFailed(t)) \/ Publish([kind |-> "Rejected"])
BY DEF ExchangeStep, OrderAccepted, OrderMatched, OrderFilled, OrderFailed, OrderRejected,
       OrderStep, CancelOrder, CancelTooLate, CancelFails, SellFilled, SellFails,
       RequestFails, worldVars

\* They keep the types.
LEMMA ExchangeStepType == \A t \in Tokens : TypeOK /\ ExchangeStep(t) => TypeOK'
<1> SUFFICES ASSUME NEW t \in Tokens, TypeOK, ExchangeStep(t) PROVE TypeOK' OBVIOUS
<1> USE TypeParts
<1>1. /\ WorldType /\ FeedType /\ BusType /\ LoopType /\ StoreType /\ StrategyType /\ ExpiryType
  OBVIOUS
<1>2. UNCHANGED <<feedVars, loop, probVars, sideVars, markets, expiryVars, clock, scene>>
  BY ExchangeFrame
<1>3. FeedType' /\ LoopType' /\ StoreType' /\ ExpiryType'
  BY <1>1, <1>2 DEF FeedType, LoopType, StoreType, ExpiryType, feedVars, probVars, sideVars,
                    expiryVars
<1>4. WorldType'
  <2>1. made' \in [Counted -> Nat] BY <1>1, ExchangeFrame, Counting DEF WorldType, Counted
  <2> QED BY <1>1, <1>2, <2>1 DEF WorldType, sideVars
<1>5. BusType'
  <2>1. TradeFailed(t) \in BusEvents /\ [kind |-> "Rejected"] \in BusEvents
    BY DEF TradeFailed, BusEvents
  <2> QED BY <1>1, <2>1, ExchangeFrame, Publishing DEF Publish, BusType
<1>6. /\ orders' \in [Tokens -> OrderStates] /\ held' \in [Tokens -> HeldStates]
      /\ asked' \subseteq Tokens /\ exposed' \subseteq Tokens
  BY <1>1 DEF StrategyType, OrderStates, HeldStates, ExchangeStep, OrderAccepted,
              OrderMatched, OrderFilled, OrderFailed, OrderRejected, OrderStep, CancelOrder,
              CancelTooLate, CancelFails, SellFilled, SellFails
<1>7. StrategyType' BY <1>1, <1>2, <1>6 DEF StrategyType
<1> QED BY <1>3, <1>4, <1>5, <1>7

OtherNext ==
    \/ TickerLoad \/ TickerAdd \/ MetricsClone \/ MetricsTokens
    \/ \E m \in Markets : RegisterMarketExpiry(m)
    \/ CheckExpiry \/ \E m \in Markets : PublishWarning(m)
    \/ Tick
    \/ \E t \in Tokens : ExchangeStep(t)

\* A step of another goroutine, of time or of the exchange keeps the types.
LEMMA OtherStepType == TypeOK /\ OtherNext => TypeOK'
<1> SUFFICES ASSUME TypeOK, OtherNext PROVE TypeOK' OBVIOUS
<1> USE TypeParts
<1>1. WorldType /\ FeedType /\ BusType /\ LoopType /\ StoreType /\ StrategyType /\ ExpiryType
  OBVIOUS
<1>2. UNCHANGED <<feedVars, loop, scene>>
  BY ExchangeFrame
     DEF OtherNext, TickerLoad, TickerAdd, MetricsClone, MetricsTokens, RegisterMarketExpiry,
         CheckExpiry, PublishWarning, Tick, worldVars
<1>3. FeedType' BY <1>1, <1>2 DEF FeedType, feedVars
<1>4. ASSUME UNCHANGED <<made, clock, panicked>> PROVE WorldType'
  BY <1>1, <1>2, <1>4 DEF WorldType
<1>5. ASSUME UNCHANGED <<bus, lost>> PROVE BusType' BY <1>1, <1>5 DEF BusType
<1>6. ASSUME UNCHANGED <<market, metrics>> PROVE LoopType' BY <1>1, <1>2, <1>6 DEF LoopType
<1>7. ASSUME UNCHANGED <<probVars, ticker>> PROVE StoreType'
  BY <1>1, <1>7 DEF StoreType, probVars
<1>8. ASSUME UNCHANGED stratVars PROVE StrategyType'
  BY <1>1, <1>8 DEF StrategyType, stratVars
<1>9. ASSUME UNCHANGED expiryVars PROVE ExpiryType' BY <1>1, <1>9 DEF ExpiryType, expiryVars
<1>10. CASE TickerLoad
  <2>1. StoreType' BY <1>1, <1>10 DEF TickerLoad, StoreType, probVars
  <2>2. made' \in [Counted -> Nat] BY <1>1, <1>10, Counting DEF TickerLoad, Counted, WorldType
  <2>3. WorldType' BY <1>1, <1>2, <1>10, <2>2 DEF TickerLoad, WorldType
  <2> QED BY <1>3, <1>5, <1>6, <1>8, <1>9, <1>10, <2>1, <2>3 DEF TickerLoad, probVars
<1>11. CASE TickerAdd
  <2>1. ticker \in ZData BY <1>1, <1>11 DEF TickerAdd, StoreType, NoZ, ZData, None
  <2>2. Ring!IsRing(zWindows') BY <1>1, <1>11, <2>1, RingAdd DEF TickerAdd, StoreType
  <2>3. StoreType' BY <1>1, <1>11, <2>2 DEF TickerAdd, StoreType, NoZ
  <2> QED
    BY <1>3, <1>4, <1>5, <1>6, <1>8, <1>9, <1>11, <2>3 DEF TickerAdd, worldVars
<1>12. CASE MetricsClone
  <2>1. LoopType' BY <1>1, <1>2, <1>12 DEF MetricsClone, LoopType, probVars
  <2> QED
    BY <1>3, <1>4, <1>5, <1>7, <1>8, <1>9, <1>12, <2>1 DEF MetricsClone, worldVars
<1>13. CASE MetricsTokens
  <2>1. [kind |-> "Metrics"] \in BusEvents BY DEF BusEvents
  <2>2. BusType'
    <3>1. CASE Publish([kind |-> "Metrics"])
      BY <1>1, <2>1, <3>1, Publishing DEF Publish, BusType
    <3> QED BY <1>5, <1>13, <3>1 DEF MetricsTokens
  <2>3. WorldType' BY <1>1, <1>2, <1>13 DEF MetricsTokens, WorldType, worldVars
  <2>4. LoopType' BY <1>1, <1>2, <1>13 DEF MetricsTokens, LoopType, probVars
  <2> QED BY <1>3, <1>7, <1>8, <1>9, <1>13, <2>2, <2>3, <2>4 DEF MetricsTokens
<1>14. ASSUME NEW m \in Markets, RegisterMarketExpiry(m) PROVE TypeOK'
  <2>1. ExpiryType'
    <3>1. DOMAIN expiry' \subseteq Markets /\ \A n \in DOMAIN expiry' : expiry'[n] \in BOOLEAN
      BY <1>1, <1>14 DEF RegisterMarketExpiry, ExpiryType
    <3>2. registered' \in [Markets -> Nat]
      BY <1>1, <1>14 DEF RegisterMarketExpiry, ExpiryType
    <3> QED BY <1>1, <1>14, <3>1, <3>2 DEF RegisterMarketExpiry, ExpiryType
  <2>2. made' \in [Counted -> Nat]
    BY <1>1, <1>14, Counting DEF RegisterMarketExpiry, Counted, WorldType
  <2>3. WorldType' BY <1>1, <1>2, <1>14, <2>2 DEF RegisterMarketExpiry, WorldType, sideVars
  <2> QED
    BY <1>3, <1>5, <1>6, <1>7, <1>8, <1>14, <2>1, <2>3
       DEF RegisterMarketExpiry, probVars, sideVars
<1>15. CASE CheckExpiry
  <2>1. Due \subseteq Markets BY <1>1 DEF Due, ExpiryType
  <2>2. ExpiryType' BY <1>1, <1>15, <2>1 DEF CheckExpiry, ExpiryType
  <2> QED
    BY <1>3, <1>4, <1>5, <1>6, <1>7, <1>8, <1>15, <2>2
       DEF CheckExpiry, probVars, sideVars, worldVars
<1>16. ASSUME NEW m \in Markets, PublishWarning(m) PROVE TypeOK'
  <2>1. [kind |-> "PositionExpiring"] \in BusEvents BY DEF BusEvents
  <2>2. BusType' BY <1>1, <1>16, <2>1, Publishing DEF PublishWarning, Publish, BusType
  <2>3. ExpiryType' BY <1>1, <1>16 DEF PublishWarning, ExpiryType
  <2> QED
    BY <1>3, <1>4, <1>6, <1>7, <1>8, <1>16, <2>2, <2>3
       DEF PublishWarning, probVars, sideVars, worldVars
<1>17. CASE Tick
  <2>1. clock' \in 0 .. EndTime(LastMarket)
    <3>1. scene.last \in Markets /\ LastMarket \in Markets
      BY <1>1, MarketFlowAssumption DEF WorldType, Markets
    <3>2. EndTime(scene.last) \in Nat /\ EndTime(scene.last) <= EndTime(LastMarket)
          /\ EndTime(LastMarket) \in Nat
      BY <3>1, EndTimes
    <3> QED BY <1>1, <1>17, <3>2 DEF Tick, WorldType
  <2>2. WorldType' BY <1>1, <1>2, <1>17, <2>1 DEF Tick, WorldType, sideVars
  <2> QED
    BY <1>3, <1>5, <1>6, <1>7, <1>8, <1>9, <1>17, <2>2 DEF Tick, probVars, sideVars
<1> QED
  BY <1>10, <1>11, <1>12, <1>13, <1>14, <1>15, <1>16, <1>17, ExchangeStepType DEF OtherNext

\* A step is one of the feeds, of the engine loop or of another goroutine.
LEMMA NextParts == Next <=> FeedNext \/ LoopNext \/ OtherNext
BY DEF Next, OtherNext

\* Every step keeps the state well formed.
LEMMA StepType == TypeOK /\ [Next]_vars => TypeOK'
<1>1. TypeOK /\ UNCHANGED vars => TypeOK'
  BY DEF TypeOK, vars, feedVars, probVars, sideVars, stratVars, expiryVars, worldVars
<1> QED BY <1>1, FeedStepType, LoopStepType, OtherStepType, NextParts

\* Every goroutine and channel of the market data path stays well formed: the
\* bus and the strategy's markets within their capacity, the clock within the
\* last market, the stores free of tokens that no market has.
THEOREM MarketType == Spec => []TypeOK
BY InitType, StepType, PTL DEF Spec

-----------------------------------------------------------------------------
(* The ring of z-scores is a sliding window.                               *)

\* The ticker's Add writes to the window, resetForNewMarketLocked's Reset clears
\* it, and no other step is seen.
THEOREM MarketRingIsWindow == Spec => RingImplementsWindow
<1>1. Init => Windowed!Init BY RingNew DEF Init, Windowed!Init
<1>2. TypeOK /\ [Next]_vars => [Windowed!Next]_(Ring!Values(zWindows))
  <2> SUFFICES ASSUME TypeOK, [Next]_vars
               PROVE  Windowed!Next \/ Ring!Values(zWindows)' = Ring!Values(zWindows)
    OBVIOUS
  <2>1. CASE TickerAdd
    <3>1. ticker \in ZData BY <2>1 DEF TickerAdd, TypeOK, NoZ, ZData, None
    <3>2. Ring!Values(zWindows') = Windowed!Newest(Append(Ring!Values(zWindows), ticker))
      BY <2>1, <3>1, RingAdd DEF TickerAdd, TypeOK
    <3>3. Windowed!Write(ticker) BY <3>2 DEF Windowed!Write
    <3> QED BY <3>1, <3>3 DEF Windowed!Next, ZData
  <2>2. CASE ResetStores
    <3>1. Ring!Values(zWindows') = << >> BY <2>2, RingReset DEF ResetStores, TypeOK
    <3> QED BY <3>1 DEF Windowed!Next, Windowed!Clear
  <2>3. ASSUME ~ TickerAdd, ~ ResetStores PROVE zWindows' = zWindows
    <3>1. CASE FeedNext
      BY <3>1 DEF FeedNext, FetchMarketBySlug, FetchFails, MonitorBook, ForwardBook,
                  MarketEnded, ForwardPrice, probVars
    <3>2. CASE LoopNext
      BY <2>3, <3>2 DEF LoopNext, TakeMarket, TakeBook, TakePrice, TakeExecution, TakeOther,
                        Take, PrepareReset, ZeroZ, StoreTokens, ReplaceMarket, probVars
    <3>3. CASE OtherNext
      BY <2>3, <3>3, ExchangeFrame
         DEF OtherNext, TickerLoad, MetricsClone, MetricsTokens, RegisterMarketExpiry,
             CheckExpiry, PublishWarning, Tick, probVars
    <3>4. CASE UNCHANGED vars BY <3>4 DEF vars, probVars
    <3> QED BY <3>1, <3>2, <3>3, <3>4, NextParts
  <2> QED BY <2>1, <2>2, <2>3
<1> QED BY <1>1, <1>2, MarketType, PTL DEF Spec, RingImplementsWindow, Windowed!Spec

-----------------------------------------------------------------------------
(* The token store follows the market.                                     *)

CurrentTokens == IF market = None THEN {} ELSE TokensOf(market)

\* Where the switch is, and what the store holds there.
TokensInv ==
    /\ panicked # "loop"
    /\ loop.at \in {"idle", "prep", "zeroZ", "reset"} => DOMAIN tokens = CurrentTokens
    /\ loop.at = "store" => DOMAIN tokens \subseteq TokensOf(loop.market)
    /\ loop.at = "replace" => DOMAIN tokens = TokensOf(loop.market)

\* Every step keeps the stores on the market at hand.
LEMMA StepTokens == TypeOK /\ TokensInv /\ [Next]_vars => TokensInv'
<1> SUFFICES ASSUME TypeOK, TokensInv, [Next]_vars PROVE TokensInv' OBVIOUS
<1>1. ASSUME UNCHANGED <<loop, market>>, DOMAIN tokens' = DOMAIN tokens,
             panicked' # "loop"
      PROVE  TokensInv'
  BY <1>1 DEF TokensInv, CurrentTokens
<1>2. CASE FeedNext
  BY <1>1, <1>2 DEF FeedNext, FetchMarketBySlug, FetchFails, MonitorBook, ForwardBook,
                    MarketEnded, ForwardPrice, probVars, sideVars, TokensInv
<1>3. CASE OtherNext
  BY <1>1, <1>3, ExchangeFrame
     DEF OtherNext, TickerLoad, TickerAdd, MetricsClone, MetricsTokens,
         RegisterMarketExpiry, CheckExpiry, PublishWarning, Tick, probVars, sideVars,
         TokensInv
<1>4. CASE TakeBook \/ TakePrice \/ TakeExecution \/ TakeOther
  <2>1. DOMAIN tokens' = DOMAIN tokens
    BY <1>4 DEF TakeBook, TakePrice, TakeExecution, TakeOther, Take, updateToken, probVars
  <2>2. UNCHANGED <<loop, market, panicked>>
    BY <1>4 DEF TakeBook, TakePrice, TakeExecution, TakeOther, Take, probVars, sideVars
  <2> QED BY <1>1, <2>1, <2>2 DEF TokensInv
<1>5. CASE TakeMarket
  <2>1. loop.at = "idle" /\ loop'.at \in {"idle", "prep"}
    BY <1>5 DEF TakeMarket, Take, Idle
  <2>2. UNCHANGED <<tokens, market, panicked>>
    BY <1>5 DEF TakeMarket, Take, probVars, sideVars
  <2> QED BY <2>1, <2>2 DEF TokensInv, CurrentTokens
<1>6. CASE PrepareReset
  <2>1. loop.at = "prep" /\ loop'.at \in {"idle", "zeroZ"}
    BY <1>6 DEF PrepareReset, Idle, TypeOK
  <2>2. UNCHANGED <<tokens, market, panicked>> BY <1>6 DEF PrepareReset, probVars, sideVars
  <2> QED BY <2>1, <2>2 DEF TokensInv, CurrentTokens
<1>7. ASSUME NEW from, NEW to, Switch(from, to)
      PROVE  /\ loop.at = from /\ loop'.at = to /\ loop'.market = loop.market
             /\ UNCHANGED <<market, panicked>>
  <2>1. loop \in [at : {"idle", "prep", "zeroZ", "reset", "store", "replace"},
                  market : {None} \cup Markets]
    BY DEF TypeOK, Idle
  <2> QED BY <1>7, <2>1 DEF Switch, sideVars
<1>8. CASE ZeroZ
  <2>1. loop.at = "zeroZ" /\ loop'.at = "reset" /\ UNCHANGED <<tokens, market, panicked>>
    BY <1>7, <1>8 DEF ZeroZ
  <2> QED BY <2>1 DEF TokensInv, CurrentTokens
<1>9. CASE ResetStores
  <2>1. /\ loop'.at = "store" /\ loop'.market = loop.market
        /\ UNCHANGED panicked
        /\ DOMAIN tokens' \subseteq TokensOf(loop.market)
    BY <1>7, <1>9 DEF ResetStores
  <2> QED BY <2>1 DEF TokensInv
<1>10. CASE StoreTokens
  <2>1. /\ loop.at = "store" /\ loop'.at = "replace" /\ loop'.market = loop.market
        /\ UNCHANGED panicked
        /\ DOMAIN tokens' = DOMAIN tokens \cup TokensOf(loop.market)
    BY <1>7, <1>10 DEF StoreTokens
  <2> QED BY <2>1 DEF TokensInv
<1>11. CASE ReplaceMarket
  <2>1. /\ loop.market \in Markets /\ market' = loop.market /\ loop' = Idle
        /\ DOMAIN tokens = TokensOf(loop.market) /\ tokens' = tokens
    BY <1>11 DEF ReplaceMarket, TokensInv, TypeOK, Idle
  <2>2. CanObserve(market') BY <2>1 DEF CanObserve
  <2>3. panicked' = panicked BY <1>11, <2>2 DEF ReplaceMarket
  <2>4. market' # None BY <2>1 DEF Markets, None
  <2> QED BY <2>1, <2>3, <2>4 DEF TokensInv, CurrentTokens, Idle
<1>12. CASE UNCHANGED vars
  BY <1>1, <1>12 DEF vars, probVars, sideVars, TokensInv
<1> QED
  BY <1>2, <1>3, <1>4, <1>5, <1>6, <1>8, <1>9, <1>10, <1>11, <1>12, NextParts DEF LoopNext

\* Whatever books, in whatever order, arrive around a switch: between two
\* events the token store holds exactly the current market's tokens, and the
\* engine loop's observation right after the switch does not panic.
THEOREM MarketTokensFollow == Spec => []TokensFollowMarket
<1>1. Init => TokensInv BY DEF Init, TokensInv, CurrentTokens, Idle
<1>2. TokensInv => TokensFollowMarket BY DEF TokensInv, TokensFollowMarket, CurrentTokens, Idle
<1> QED BY <1>1, <1>2, StepTokens, MarketType, PTL DEF Spec

-----------------------------------------------------------------------------
(* Z-scores of an earlier market.                                          *)

\* No value of w, one at most, was computed for another market than m.
NoneStale(w, m) == \A i \in DOMAIN w : w[i] \in {0, m}
OneStale(w, m) ==
    \A i, j \in DOMAIN w : w[i] \notin {0, m} /\ w[j] \notin {0, m} => i = j

\* A value enters the window.
LEMMA NewestStale ==
    ASSUME NEW w \in Seq(ZData), NEW v \in ZData, NEW m, OneStale(w, m),
           v \in {0, m} \/ NoneStale(w, m)
    PROVE  OneStale(Windowed!Newest(Append(w, v)), m)
<1> DEFINE a == Append(w, v)
<1>1. /\ a \in Seq(ZData) /\ Len(a) = Len(w) + 1 /\ Len(w) \in Nat
      /\ DOMAIN a = 1 .. (Len(w) + 1) /\ DOMAIN w = 1 .. Len(w)
      /\ a[Len(w) + 1] = v /\ \A i \in 1 .. Len(w) : a[i] = w[i]
  BY AppendProperties, LenProperties
<1> HIDE DEF a
<1>2. OneStale(a, m)
  <2> SUFFICES ASSUME NEW i \in DOMAIN a, NEW j \in DOMAIN a,
                      a[i] \notin {0, m}, a[j] \notin {0, m}
               PROVE  i = j
    BY DEF OneStale
  <2>1. CASE v \in {0, m}
    <3>1. i \in DOMAIN w /\ j \in DOMAIN w BY <1>1, <2>1
    <3> QED BY <1>1, <3>1 DEF OneStale
  <2>2. CASE NoneStale(w, m)
    <3>1. i \notin DOMAIN w /\ j \notin DOMAIN w BY <1>1, <2>2 DEF NoneStale
    <3> QED BY <1>1, <3>1
  <2> QED BY <2>1, <2>2
<1>3. OneStale(Tail(a), m)
  <2>1. /\ DOMAIN Tail(a) = 1 .. Len(w)
        /\ \A i \in 1 .. Len(w) : Tail(a)[i] = a[i + 1] /\ i + 1 \in DOMAIN a
    <3>1. a # << >> BY <1>1
    <3>2. Tail(a) \in Seq(ZData) /\ Len(Tail(a)) = Len(w) BY <1>1, <3>1, HeadTailProperties
    <3> QED BY <1>1, <3>1, <3>2, HeadTailProperties, LenProperties
  <2>2. ASSUME NEW i \in DOMAIN Tail(a), NEW j \in DOMAIN Tail(a),
               Tail(a)[i] \notin {0, m}, Tail(a)[j] \notin {0, m}
        PROVE  i = j
    <3>1. i \in Nat /\ j \in Nat /\ i + 1 = j + 1 BY <1>1, <1>2, <2>1, <2>2 DEF OneStale
    <3> QED BY <3>1
  <2> QED BY <2>2 DEF OneStale
<1> QED BY <1>2, <1>3 DEF a, Windowed!Newest

ZValues == Ring!Values(zWindows)

\* The market z-scores are computed for, None in the middle of a switch.
ZMarket == IF loop.at \in {"idle", "prep", "zeroZ"} THEN market ELSE None

\* From clearing latestZ to clearing the window anything may be in it; else one
\* value of another market at most, none if the ticker is about to add such a one.
ZInv ==
    /\ latestZ \in {0, ZMarket}
    /\ loop.at # "reset" =>
         /\ OneStale(ZValues, ZMarket)
         /\ ticker \in {NoZ, 0, ZMarket} \/ NoneStale(ZValues, ZMarket)

\* Every step keeps the window as ZInv says.
LEMMA StepZ == TypeOK /\ ZInv /\ [Next]_vars => ZInv'
<1> SUFFICES ASSUME TypeOK, ZInv, [Next]_vars PROVE ZInv' OBVIOUS
<1>1. ASSUME UNCHANGED <<zWindows, ticker>>, ZMarket' = ZMarket,
             latestZ' \in {0, latestZ, ZMarket}, loop'.at = "reset" <=> loop.at = "reset"
      PROVE  ZInv'
  <2>1. ZValues' = ZValues BY <1>1 DEF ZValues
  <2> QED BY <1>1, <2>1 DEF ZInv
<1>2. CASE FeedNext
  <2>1. UNCHANGED <<zWindows, latestZ, ticker, loop, market>>
    BY <1>2 DEF FeedNext, FetchMarketBySlug, FetchFails, MonitorBook, ForwardBook,
                MarketEnded, ForwardPrice, probVars, sideVars
  <2>2. ZMarket' = ZMarket BY <2>1 DEF ZMarket
  <2> QED BY <1>1, <2>1, <2>2
<1>3. CASE TickerLoad
  <2>1. ZMarket' = ZMarket /\ ZValues' = ZValues
    BY <1>3 DEF TickerLoad, probVars, ZMarket, ZValues
  <2>2. ticker' = latestZ /\ latestZ' = latestZ /\ loop' = loop
    BY <1>3 DEF TickerLoad, probVars
  <2> QED BY <2>1, <2>2 DEF ZInv
<1>4. CASE TickerAdd
  <2>1. Ring!IsRing(zWindows) /\ ticker \in ZData /\ ticker # NoZ /\ ticker' = NoZ
    BY <1>4 DEF TickerAdd, TypeOK, NoZ, ZData, None
  <2>2. ZValues \in Seq(ZData) BY <2>1, RingValues DEF ZValues
  <2>3. ZValues' = Windowed!Newest(Append(ZValues, ticker))
    <3>1. zWindows' = Ring!Add(zWindows, ticker) BY <1>4 DEF TickerAdd
    <3>2. Ring!Values(Ring!Add(zWindows, ticker)) = Windowed!Newest(Append(ZValues, ticker))
      BY <2>1, RingAdd DEF ZValues
    <3> QED BY <3>1, <3>2 DEF ZValues
  <2>4. ZMarket' = ZMarket /\ latestZ' = latestZ /\ loop' = loop
    BY <1>4 DEF TickerAdd, ZMarket
  <2>5. ASSUME loop.at # "reset" PROVE OneStale(ZValues', ZMarket)
    <3>1. OneStale(ZValues, ZMarket) /\ (ticker \in {0, ZMarket} \/ NoneStale(ZValues, ZMarket))
      BY <2>1, <2>5 DEF ZInv
    <3> QED BY <2>1, <2>2, <2>3, <3>1, NewestStale
  <2> QED BY <2>1, <2>4, <2>5 DEF ZInv
<1>5. CASE OtherNext /\ ~ TickerLoad /\ ~ TickerAdd
  <2>1. UNCHANGED <<zWindows, latestZ, ticker, loop, market>>
    BY <1>5, ExchangeFrame
       DEF OtherNext, MetricsClone, MetricsTokens, RegisterMarketExpiry, CheckExpiry,
           PublishWarning, Tick, probVars, sideVars
  <2>2. ZMarket' = ZMarket BY <2>1 DEF ZMarket
  <2> QED BY <1>1, <2>1, <2>2
<1>6. CASE TakeMarket \/ TakeBook \/ TakePrice \/ TakeExecution \/ TakeOther
  <2>1. UNCHANGED <<zWindows, ticker, market>> /\ latestZ' \in {0, latestZ, market}
    BY <1>6 DEF TakeMarket, TakeBook, TakePrice, TakeExecution, TakeOther, Take, probVars,
                sideVars
  <2>2. loop.at = "idle" /\ loop'.at \in {"idle", "prep"}
    BY <1>6 DEF TakeMarket, TakeBook, TakePrice, TakeExecution, TakeOther, Take, Idle
  <2>3. ZMarket' = ZMarket /\ ZMarket = market BY <2>1, <2>2 DEF ZMarket
  <2> QED BY <1>1, <2>1, <2>2, <2>3
<1>7. CASE PrepareReset
  <2>1. loop.at = "prep" /\ loop'.at \in {"idle", "zeroZ"}
    BY <1>7 DEF PrepareReset, Idle, TypeOK
  <2>2. UNCHANGED <<zWindows, ticker, market, latestZ>>
    BY <1>7 DEF PrepareReset, probVars, sideVars
  <2>3. ZMarket' = ZMarket BY <2>1, <2>2 DEF ZMarket
  <2> QED BY <1>1, <2>1, <2>2, <2>3
<1>8. loop \in [at : {"idle", "prep", "zeroZ", "reset", "store", "replace"},
                market : {None} \cup Markets]
  BY DEF TypeOK, Idle
<1>9. CASE ZeroZ
  <2>1. loop'.at = "reset" /\ latestZ' = 0 BY <1>8, <1>9 DEF ZeroZ, Switch
  <2> QED BY <2>1 DEF ZInv
<1>10. CASE ResetStores
  <2>1. /\ loop.at = "reset" /\ loop'.at = "store"
        /\ UNCHANGED <<latestZ, ticker>> /\ zWindows' = Ring!Reset(zWindows)
    BY <1>8, <1>10 DEF ResetStores, Switch, sideVars
  <2>2. ZValues' = << >>
    <3>1. Ring!Values(Ring!Reset(zWindows)) = << >> BY RingReset DEF TypeOK
    <3> QED BY <2>1, <3>1 DEF ZValues
  <2>3. ZMarket = None /\ ZMarket' = None BY <2>1 DEF ZMarket
  <2> QED BY <2>1, <2>2, <2>3 DEF ZInv, OneStale, NoneStale
<1>11. CASE StoreTokens
  <2>1. loop.at = "store" /\ loop'.at = "replace" /\ UNCHANGED <<zWindows, ticker, latestZ>>
    BY <1>8, <1>11 DEF StoreTokens, Switch, sideVars
  <2>2. ZMarket' = ZMarket BY <2>1 DEF ZMarket
  <2> QED BY <1>1, <2>1, <2>2
<1>12. CASE ReplaceMarket
  <2>1. loop.at = "replace" /\ loop'.at = "idle" /\ UNCHANGED <<zWindows, ticker, latestZ>>
    BY <1>12 DEF ReplaceMarket, Idle
  <2>2. ZMarket = 0 /\ ZValues' = ZValues BY <2>1 DEF ZMarket, ZValues, None
  <2>3. ASSUME NEW m, OneStale(ZValues, 0) PROVE OneStale(ZValues, m)
    BY <2>3 DEF OneStale
  <2>4. ASSUME NEW m, NoneStale(ZValues, 0) PROVE NoneStale(ZValues, m)
    BY <2>4 DEF NoneStale
  <2>5. OneStale(ZValues, ZMarket')
    BY <2>1, <2>2, <2>3 DEF ZInv
  <2>6. ticker \in {NoZ, 0, ZMarket'} \/ NoneStale(ZValues, ZMarket')
    BY <2>1, <2>2, <2>4 DEF ZInv
  <2>7. latestZ = 0 BY <2>2 DEF ZInv
  <2> QED BY <2>1, <2>2, <2>5, <2>6, <2>7 DEF ZInv
<1>13. CASE UNCHANGED vars
  <2>1. UNCHANGED <<zWindows, latestZ, ticker, loop, market>>
    BY <1>13 DEF vars, probVars, sideVars
  <2>2. ZMarket' = ZMarket BY <2>1 DEF ZMarket
  <2> QED BY <1>1, <2>1, <2>2
<1> QED
  BY <1>2, <1>3, <1>4, <1>5, <1>6, <1>7, <1>9, <1>10, <1>11, <1>12, <1>13, NextParts
     DEF LoopNext

\* The stop-loss looks at no more than one z-score of an earlier market, the one
\* the ticker had loaded when the switch cleared latestZ and the window.
THEOREM MarketAtMostOneStaleZ == Spec => []AtMostOneStaleZ
<1>1. Init => ZInv
  <2> SUFFICES ASSUME Init PROVE ZInv OBVIOUS
  <2>1. ZValues = << >> BY RingNew DEF Init, ZValues
  <2> QED BY <2>1 DEF Init, ZInv, OneStale, NoneStale
<1>2. TypeOK /\ ZInv => AtMostOneStaleZ
  <2> SUFFICES ASSUME TypeOK, ZInv, loop = Idle
               PROVE  /\ latestZ \in {0, market}
                      /\ Cardinality({n \in DOMAIN ZValues : ZValues[n] \notin {0, market}}) <= 1
    BY DEF AtMostOneStaleZ, ZValues
  <2>1. loop.at = "idle" /\ ZMarket = market BY DEF Idle, ZMarket
  <2>2. OneStale(ZValues, market) BY <2>1 DEF ZInv
  <2> DEFINE S == {n \in DOMAIN ZValues : ZValues[n] \notin {0, market}}
  <2>3. CASE S = {} BY <2>1, <2>3, FS_EmptySet DEF ZInv
  <2>4. CASE S # {}
    <3>1. PICK x \in S : TRUE BY <2>4
    <3>2. S = {x} BY <2>2, <3>1 DEF OneStale
    <3>3. Cardinality({x}) = 1 BY FS_Singleton
    <3> HIDE DEF S
    <3>4. Cardinality(S) <= 1 BY <3>2, <3>3
    <3> QED BY <2>1, <3>4 DEF ZInv, S
  <2> QED BY <2>3, <2>4
<1> QED BY <1>1, <1>2, StepZ, MarketType, PTL DEF Spec

-----------------------------------------------------------------------------
(* The other leg of a failed trade.                                        *)

\* Tokens whose trade failed while the other leg is on its way, rests or is held ...
LegLeft ==
    {t \in Tokens :
        /\ orders[t] = "failed"
        /\ AtRisk(Other(t))}

\* ... and those whose failure is still to come or lost, or whose other leg is
\* being cancelled or was left alone for a known reason.
Accounted ==
    {t \in Tokens : \/ Other(t) \in asked \cup exposed
                    \/ TradeFailed(t) \in ToSet(bus) \cup lost}

LegInv == LegLeft \subseteq Accounted

\* An event that is published pushes none off the bus.
LEMMA PublishGrows ==
    ASSUME NEW q \in Seq(BusEvents), NEW e, PublishTo(q, e)
    PROVE  ToSet(q) \subseteq ToSet(bus') /\ lost \subseteq lost'
<1>1. CASE bus' = Append(q, e) /\ lost' = lost
  <2>1. q \in Seq(BusEvents \cup {e}) BY SeqMonotonic
  <2>2. /\ \A i \in 1 .. Len(q) : Append(q, e)[i] = q[i]
        /\ DOMAIN q = 1 .. Len(q) /\ DOMAIN Append(q, e) = 1 .. (Len(q) + 1)
        /\ Len(q) \in Nat
    BY <2>1, AppendProperties, LenProperties
  <2> QED BY <1>1, <2>2 DEF ToSet
<1>2. CASE bus' = q /\ lost \subseteq lost' BY <1>2
<1> QED BY <1>1, <1>2 DEF PublishTo

\* Whatever Check answers, the rest of the bus stays.
LEMMA SubmitGrows ==
    ASSUME NEW q \in Seq(BusEvents), Silent(q) \/ PublishTo(q, [kind |-> "Risk"])
    PROVE  ToSet(q) \subseteq ToSet(bus') /\ lost \subseteq lost'
BY PublishGrows DEF Silent

\* What the loop leaves on the bus: all but the event it took.
LEMMA RestOfBus ==
    ASSUME TypeOK, bus # << >>, NEW t, TradeFailed(t) # Head(bus),
           TradeFailed(t) \in ToSet(bus)
    PROVE  TradeFailed(t) \in ToSet(Tail(bus))
BY Taking DEF TypeOK

\* Every step accounts for the legs it leaves alone.
LEMMA StepLeg == TypeOK /\ LegInv /\ [Next]_vars => LegInv'
<1> SUFFICES ASSUME TypeOK, LegInv, [Next]_vars PROVE LegInv' OBVIOUS
<1> USE OtherToken
<1>1. bus \in Seq(BusEvents) BY DEF TypeOK
<1>2. ASSUME LegLeft' \subseteq LegLeft,
             asked \cup exposed \subseteq asked' \cup exposed',
             lost \subseteq lost', ToSet(bus) \subseteq ToSet(bus')
      PROVE  LegInv'
  BY <1>2 DEF LegInv, Accounted
<1>3. ASSUME UNCHANGED <<orders, held>> PROVE LegLeft' = LegLeft BY <1>3 DEF LegLeft, AtRisk
<1>4. CASE FeedNext
  <2>1. UNCHANGED <<orders, held, asked, exposed>>
    BY <1>4 DEF FeedNext, FetchMarketBySlug, FetchFails, MonitorBook, ForwardBook,
                MarketEnded, ForwardPrice, stratVars
  <2>2. UNCHANGED <<bus, lost>> \/ \E e : PublishTo(bus, e)
    BY <1>4 DEF FeedNext, FetchMarketBySlug, FetchFails, MonitorBook, ForwardBook,
                MarketEnded, ForwardPrice, Publish
  <2> QED BY <1>1, <1>2, <1>3, <2>1, <2>2, PublishGrows
<1>5. CASE \/ TickerLoad \/ TickerAdd \/ MetricsClone \/ MetricsTokens
           \/ \E m \in Markets : RegisterMarketExpiry(m)
           \/ CheckExpiry \/ \E m \in Markets : PublishWarning(m)
           \/ Tick
  <2>1. UNCHANGED <<orders, held, asked, exposed>>
    BY <1>5 DEF TickerLoad, TickerAdd, MetricsClone, MetricsTokens, RegisterMarketExpiry,
                CheckExpiry, PublishWarning, Tick, stratVars
  <2>2. UNCHANGED <<bus, lost>> \/ \E e : PublishTo(bus, e)
    BY <1>5 DEF TickerLoad, TickerAdd, MetricsClone, MetricsTokens, RegisterMarketExpiry,
                CheckExpiry, PublishWarning, Tick, Publish
  <2> QED BY <1>1, <1>2, <1>3, <2>1, <2>2, PublishGrows
<1>6. ASSUME NEW t \in Tokens, ExchangeStep(t) PROVE LegInv'
  <2>1. ToSet(bus) \subseteq ToSet(bus') /\ lost \subseteq lost'
    BY <1>1, <1>6, ExchangeFrame, PublishGrows DEF Publish
  <2>2. CASE OrderAccepted(t) \/ OrderMatched(t) \/ OrderFilled(t) \/ OrderRejected(t)
    <3>1. UNCHANGED <<asked, exposed>>
      BY <2>2 DEF OrderAccepted, OrderMatched, OrderFilled, OrderRejected, OrderStep
    <3>2. LegLeft' \subseteq LegLeft
      BY <2>2 DEF LegLeft, AtRisk, TypeOK, OrderAccepted, OrderMatched, OrderFilled, OrderRejected,
                  OrderStep
    <3> QED BY <1>2, <2>1, <3>1, <3>2
  <2>3. CASE OrderFailed(t)
    <3>1. /\ orders' = [orders EXCEPT ![t] = "failed"]
          /\ UNCHANGED <<held, asked, exposed>> /\ PublishTo(bus, TradeFailed(t))
      BY <2>3 DEF OrderFailed, OrderStep, Publish
    <3>2. LegLeft' \subseteq LegLeft \cup {t} BY <3>1 DEF LegLeft, AtRisk, TypeOK
    <3>3. TradeFailed(t) \in ToSet(bus') \cup lost'
      <4>1. TradeFailed(t) \in BusEvents /\ TradeFailed(t).kind = "Execution"
        BY DEF TradeFailed, BusEvents
      <4> QED BY <3>1, <4>1, Publishing DEF TypeOK
    <3> QED BY <2>1, <3>1, <3>2, <3>3 DEF LegInv, Accounted
  <2>4. CASE CancelOrder(t)
    <3>1. /\ orders[t] = "open" /\ orders' = [orders EXCEPT ![t] = "cancelled"]
          /\ asked' = asked \ {t} /\ UNCHANGED <<held, exposed>>
      BY <2>4 DEF CancelOrder
    <3>2. LegLeft' \subseteq LegLeft BY <3>1 DEF LegLeft, AtRisk, TypeOK
    <3>3. \A v \in LegLeft' : Other(v) # t BY <3>1 DEF LegLeft, AtRisk, TypeOK
    <3> QED BY <2>1, <3>1, <3>2, <3>3 DEF LegInv, Accounted
  <2>5. CASE CancelTooLate(t) \/ CancelFails(t)
    <3>1. /\ UNCHANGED <<orders, held>>
          /\ asked' = asked \ {t} /\ exposed' = exposed \cup {t}
      BY <2>5 DEF CancelTooLate, CancelFails
    <3> QED BY <1>2, <1>3, <2>1, <3>1
  <2>6. CASE SellFilled(t)
    <3>1. /\ held' = [held EXCEPT ![t] = "none"] /\ UNCHANGED <<orders, asked, exposed>>
      BY <2>6 DEF SellFilled
    <3>2. LegLeft' \subseteq LegLeft BY <3>1 DEF LegLeft, AtRisk, TypeOK
    <3> QED BY <1>2, <2>1, <3>1, <3>2
  <2>7. CASE SellFails(t)
    <3>1. /\ held' = [held EXCEPT ![t] = "available"] /\ exposed' = exposed \cup {t}
          /\ UNCHANGED <<orders, asked>>
      BY <2>7 DEF SellFails
    <3>2. \A v \in LegLeft' : v \in LegLeft \/ Other(v) = t
      BY <3>1 DEF LegLeft, AtRisk, TypeOK
    <3> QED BY <2>1, <3>1, <3>2 DEF LegInv, Accounted, LegLeft, AtRisk
  <2> QED BY <1>6, <2>2, <2>3, <2>4, <2>5, <2>6, <2>7 DEF ExchangeStep
<1>9. ASSUME bus # << >>, Head(bus).kind # "Execution", LegLeft' \subseteq LegLeft,
             asked \cup exposed \subseteq asked' \cup exposed', lost \subseteq lost',
             ToSet(Tail(bus)) \subseteq ToSet(bus')
      PROVE  LegInv'
  <2>1. \A t : Head(bus) # TradeFailed(t) BY <1>9 DEF TradeFailed
  <2>2. \A t : TradeFailed(t) \in ToSet(bus) => TradeFailed(t) \in ToSet(bus')
    BY <1>9, <2>1, RestOfBus
  <2> QED BY <1>9, <2>2 DEF LegInv, Accounted
<1>10. bus # << >> => Tail(bus) \in Seq(BusEvents) BY TakeType
<1>11. CASE TakeMarket \/ TakePrice \/ TakeOther
  <2>1. /\ bus # << >> /\ Head(bus).kind # "Execution" /\ Silent(Tail(bus))
        /\ UNCHANGED <<orders, held, asked, exposed>>
    BY <1>11 DEF TakeMarket, TakePrice, TakeOther, Take, stratVars
  <2> QED BY <1>3, <1>9, <1>10, <2>1, SubmitGrows
<1>12. CASE TakeBook
  <2>1. bus # << >> /\ Head(bus).kind # "Execution" BY <1>12 DEF TakeBook, Take
  <2>2. CASE Silent(Tail(bus)) /\ UNCHANGED stratVars
    BY <1>3, <1>9, <1>10, <2>1, <2>2, SubmitGrows DEF stratVars
  <2>3. ASSUME NEW t \in TokensOf(market), market \in ToSet(markets),
               Submit(Tail(bus), TRUE, Unwind(t, Other(t)), UNCHANGED <<held, asked>>),
               UNCHANGED <<markets, orders, exposed>>
        PROVE  LegInv'
    <3>1. t \in Tokens
      <4>1. market \in Markets BY <2>3 DEF ToSet, TypeOK
      <4> QED BY <4>1 DEF Tokens, TokensOf
    <3>2. ToSet(Tail(bus)) \subseteq ToSet(bus') /\ lost \subseteq lost'
      BY <1>10, <2>1, <2>3, SubmitGrows DEF Submit
    <3>3. LegLeft' \subseteq LegLeft /\ asked \subseteq asked'
      <4>1. CASE Unwind(t, Other(t))
        <5>1. StrategyType /\ Other(t) \in Tokens BY <3>1, TypeParts
        <5>2. /\ \A u \in Tokens \ {t} : held'[u] = held[u]
              /\ held'[t] = (IF held[t] = "available" THEN "selling" ELSE held[t])
              /\ asked \subseteq asked'
          BY <3>1, <4>1, <5>1, Unwinding
        <5> QED BY <2>3, <3>1, <5>2 DEF LegLeft, AtRisk
      <4> QED BY <1>3, <2>3, <4>1 DEF Submit
    <3> QED BY <1>9, <2>1, <2>3, <3>2, <3>3
  <2>4. (Silent(Tail(bus)) /\ UNCHANGED stratVars) \/ OnBook(books', Tail(bus))
    BY <1>12 DEF TakeBook, Take
  <2>5. ASSUME OnBook(books', Tail(bus)) PROVE LegInv' BY <2>2, <2>3, <2>5, Zenon DEF OnBook
  <2> QED BY <2>2, <2>4, <2>5
<1>13. CASE TakeExecution
  <2> DEFINE t == Head(bus).token
             u == Other(t)
  <2>1. /\ bus # << >> /\ t \in Tokens /\ Head(bus) = TradeFailed(t)
        /\ OnTradeFailed(t, Tail(bus)) /\ Tail(bus) \in Seq(BusEvents)
    <3>1. bus # << >> /\ Head(bus).kind = "Execution" /\ OnTradeFailed(t, Tail(bus))
      BY <1>13 DEF TakeExecution, Take
    <3> QED BY <3>1, TakeType
  <2> HIDE DEF t
  <2>2. u \in Tokens /\ u # t /\ Other(u) = t BY <2>1
  <2>3. ToSet(Tail(bus)) \subseteq ToSet(bus') /\ lost \subseteq lost'
    BY <2>1, SubmitGrows DEF OnTradeFailed, Submit
  <2>4. exposed \subseteq exposed' /\ orders' = orders BY <2>1 DEF OnTradeFailed, Submit
  <2>5. /\ LegLeft' \subseteq LegLeft /\ asked \subseteq asked'
        /\ t \in LegLeft' => u \in asked' \cup exposed'
    <3>1. CASE /\ Unwind(u, u)
               /\ IF orders[u] = "posted" THEN exposed' = exposed \cup {u}
                                          ELSE UNCHANGED exposed
      <4>1. StrategyType BY TypeParts
      <4>2. /\ \A v \in Tokens \ {u} : held'[v] = held[v]
            /\ held'[u] = (IF held[u] = "available" THEN "selling" ELSE held[u])
            /\ asked \subseteq asked'
            /\ orders[u] \in {"open", "matched"} => u \in asked'
        BY <2>2, <3>1, <4>1, Unwinding
      <4> HIDE DEF u
      <4>3. LegLeft' \subseteq LegLeft BY <2>4, <4>2 DEF LegLeft, AtRisk
      <4>4. t \in LegLeft' => u \in asked' \cup exposed'
        BY <2>2, <2>4, <3>1, <4>2 DEF LegLeft, AtRisk, u
      <4> QED BY <4>2, <4>3, <4>4
    <3>2. CASE exposed' = exposed \cup {u} /\ UNCHANGED <<held, asked>>
      BY <1>3, <2>4, <3>2
    <3> QED BY <2>1, <3>1, <3>2 DEF OnTradeFailed, Submit
  <2>6. ASSUME NEW v \in LegLeft' PROVE v \in Accounted'
    <3>1. v \in Tokens /\ v \in Accounted BY <2>5, <2>6 DEF LegInv, LegLeft
    <3>2. CASE v = t BY <2>5, <2>6, <3>1, <3>2 DEF Accounted
    <3>3. CASE v # t
      <4>1. TradeFailed(v) # Head(bus) BY <2>1, <3>3 DEF TradeFailed
      <4> QED BY <2>1, <2>3, <2>4, <2>5, <3>1, <4>1, RestOfBus DEF Accounted
    <3> QED BY <3>2, <3>3
  <2> QED BY <2>6 DEF LegInv
<1>14. CASE PrepareReset \/ ZeroZ \/ ResetStores \/ StoreTokens
  <2>1. UNCHANGED <<orders, held, asked, exposed, bus>> /\ lost \subseteq lost'
    BY <1>14 DEF PrepareReset, ZeroZ, ResetStores, StoreTokens, Switch, stratVars
  <2> QED BY <1>2, <1>3, <2>1
<1>15. CASE ReplaceMarket
  <2>1. CASE Silent(bus) /\ UNCHANGED stratVars
    BY <1>2, <1>3, <2>1 DEF Silent, stratVars
  <2>2. ASSUME NEW m \in Markets,
               Submit(bus, TRUE,
                      orders' = [t \in Tokens |-> IF t \in TokensOf(m) THEN "posted"
                                                                       ELSE orders[t]],
                      UNCHANGED orders),
               UNCHANGED <<held, asked, exposed>>
        PROVE  LegInv'
    <3>1. ToSet(bus) \subseteq ToSet(bus') /\ lost \subseteq lost'
      BY <1>1, <2>2, SubmitGrows DEF Submit
    <3>2. LegLeft' \subseteq LegLeft
      <4>1. CASE orders' = [t \in Tokens |-> IF t \in TokensOf(m) THEN "posted" ELSE orders[t]]
        <5>1. ASSUME NEW t \in LegLeft' PROVE t \in LegLeft
          <6>1. t \in Tokens /\ orders'[t] = "failed" BY <5>1 DEF LegLeft, AtRisk
          <6>2. t \notin TokensOf(m) /\ orders[t] = "failed" BY <4>1, <6>1
          <6>3. orders'[Other(t)] = orders[Other(t)] BY <4>1, <6>1, <6>2
          <6> QED BY <2>2, <5>1, <6>1, <6>2, <6>3 DEF LegLeft, AtRisk
        <5> QED BY <5>1
      <4> QED BY <1>3, <2>2, <4>1 DEF Submit
    <3> QED BY <1>2, <2>2, <3>1, <3>2
  <2>3. loop.market \in Markets BY <1>15 DEF ReplaceMarket, TypeOK, Idle
  <2>4. (Silent(bus) /\ UNCHANGED stratVars) \/ OnMarket(loop.market, bus)
    BY <1>15 DEF ReplaceMarket
  <2>5. ASSUME OnMarket(loop.market, bus) PROVE LegInv'
    BY <2>1, <2>2, <2>3, <2>5, Zenon DEF OnMarket
  <2> QED BY <2>1, <2>4, <2>5
<1>16. CASE UNCHANGED vars BY <1>2, <1>3, <1>16 DEF vars, stratVars
<1> QED
  BY <1>4, <1>5, <1>6, <1>11, <1>12, <1>13, <1>14, <1>15, <1>16, NextParts
     DEF LoopNext, OtherNext

\* However the exchange's answers interleave with the engine loop: a leg whose
\* counterpart failed is not left on its way, resting or held, but for the causes
\* NoNakedLeg names.
THEOREM MarketNoNakedLeg == Spec => []NoNakedLeg
<1>1. Init => LegInv BY DEF Init, LegInv, LegLeft
<1>2. LegInv => NoNakedLeg BY DEF LegInv, LegLeft, AtRisk, Accounted, NoNakedLeg
<1> QED BY <1>1, <1>2, StepLeg, MarketType, PTL DEF Spec

-----------------------------------------------------------------------------
(* Expiry warnings.                                                        *)

\* A registration of m is about to be published, or it has not fired yet.
Firing(m) == IF m \in toFire THEN 1 ELSE 0
Pending(m) == IF m \in DOMAIN expiry /\ ~ expiry[m] THEN 1 ELSE 0

\* Each registration of a market is pending, about to be published, or published
\* at most once; one that is replaced before it fired is none of them.
WarnInv == \A m \in Markets : warned[m] + Firing(m) + Pending(m) <= registered[m]

\* Only three steps have to do with expiry.
LEMMA ExpiryFrame ==
    ASSUME [Next]_vars, ~ CheckExpiry,
           \A m \in Markets : ~ RegisterMarketExpiry(m) /\ ~ PublishWarning(m)
    PROVE  UNCHANGED expiryVars
<1>1. CASE FeedNext
  BY <1>1 DEF FeedNext, FetchMarketBySlug, FetchFails, MonitorBook, ForwardBook, MarketEnded,
              ForwardPrice
<1>2. CASE LoopNext
  BY <1>2 DEF LoopNext, TakeMarket, TakeBook, TakePrice, TakeExecution, TakeOther, Take,
              PrepareReset, ZeroZ, ResetStores, StoreTokens, Switch, ReplaceMarket
<1>3. CASE OtherNext
  BY <1>3, ExchangeFrame
     DEF OtherNext, TickerLoad, TickerAdd, MetricsClone, MetricsTokens, Tick
<1>4. CASE UNCHANGED vars BY <1>4 DEF vars
<1> QED BY <1>1, <1>2, <1>3, <1>4, NextParts

\* No step warns of a market without a registration of it.
LEMMA StepWarn == TypeOK /\ WarnInv /\ [Next]_vars => WarnInv'
<1> SUFFICES ASSUME TypeOK, WarnInv, [Next]_vars, NEW m \in Markets
             PROVE  (warned[m] + Firing(m) + Pending(m) <= registered[m])'
  BY DEF WarnInv
<1>1. /\ warned \in [Markets -> Nat] /\ registered \in [Markets -> Nat]
      /\ \A n \in DOMAIN expiry : expiry[n] \in BOOLEAN
      /\ warned[m] + Firing(m) + Pending(m) <= registered[m]
      /\ {Firing(m), Pending(m)} \subseteq {0, 1}
  BY DEF TypeOK, WarnInv, Firing, Pending
<1>2. ASSUME NEW n \in Markets, RegisterMarketExpiry(n)
      PROVE  (warned[m] + Firing(m) + Pending(m) <= registered[m])'
  <2>1. /\ UNCHANGED <<toFire, warned>>
        /\ registered' = [registered EXCEPT ![n] = @ + 1]
        /\ expiry' = [k \in DOMAIN expiry \cup {n} |-> IF k = n THEN FALSE ELSE expiry[k]]
    BY <1>2 DEF RegisterMarketExpiry
  <2>2. Firing(m)' = Firing(m) BY <2>1 DEF Firing
  <2>3. CASE n = m
    <3>1. Pending(m)' = 1 /\ registered'[m] = registered[m] + 1
      BY <1>1, <2>1, <2>3 DEF Pending
    <3> QED BY <1>1, <2>1, <2>2, <3>1
  <2>4. CASE n # m
    <3>1. Pending(m)' = Pending(m) /\ registered'[m] = registered[m]
      BY <1>1, <2>1, <2>4 DEF Pending
    <3> QED BY <1>1, <2>1, <2>2, <3>1
  <2> QED BY <2>3, <2>4
<1>3. CASE CheckExpiry
  <2>1. /\ UNCHANGED <<warned, registered>> /\ toFire = {} /\ toFire' = Due
        /\ expiry' = [n \in DOMAIN expiry |-> expiry[n] \/ n \in Due]
    BY <1>3 DEF CheckExpiry
  <2>2. CASE m \in Due
    <3>1. Pending(m) = 1 /\ Pending(m)' = 0 /\ Firing(m) = 0 /\ Firing(m)' = 1
      BY <1>1, <2>1, <2>2 DEF Due, Pending, Firing
    <3> QED BY <1>1, <2>1, <3>1
  <2>3. CASE m \notin Due
    <3>1. Pending(m)' = Pending(m) /\ Firing(m)' = Firing(m)
      BY <1>1, <2>1, <2>3 DEF Pending, Firing
    <3> QED BY <1>1, <2>1, <3>1
  <2> QED BY <2>2, <2>3
<1>4. ASSUME NEW n \in Markets, PublishWarning(n)
      PROVE  (warned[m] + Firing(m) + Pending(m) <= registered[m])'
  <2>1. /\ UNCHANGED <<expiry, registered>> /\ n \in toFire /\ toFire' = toFire \ {n}
        /\ warned' = [warned EXCEPT ![n] = IF Len(bus) < BusCap THEN @ + 1 ELSE @]
    BY <1>4 DEF PublishWarning
  <2>2. Pending(m)' = Pending(m) BY <2>1 DEF Pending
  <2>3. CASE n = m
    <3>1. Firing(m) = 1 /\ Firing(m)' = 0 BY <2>1, <2>3 DEF Firing
    <3>2. warned'[m] \in {warned[m], warned[m] + 1} BY <1>1, <2>1, <2>3
    <3> QED BY <1>1, <2>1, <2>2, <3>1, <3>2
  <2>4. CASE n # m
    <3>1. Firing(m)' = Firing(m) /\ warned'[m] = warned[m] BY <1>1, <2>1, <2>4 DEF Firing
    <3> QED BY <1>1, <2>1, <2>2, <3>1
  <2> QED BY <2>3, <2>4
<1>5. ASSUME ~ CheckExpiry,
             \A n \in Markets : ~ RegisterMarketExpiry(n) /\ ~ PublishWarning(n)
      PROVE  (warned[m] + Firing(m) + Pending(m) <= registered[m])'
  <2>1. UNCHANGED expiryVars BY <1>5, ExpiryFrame
  <2> QED BY <1>1, <2>1 DEF Firing, Pending, expiryVars
<1> QED BY <1>2, <1>3, <1>4, <1>5

\* However the expiry loop and registrations interleave, and whether or not the
\* bus takes them: no market is warned of more often than it was registered.
THEOREM MarketWarnedOnce == Spec => []WarnedOncePerRegistration
<1>1. Init => WarnInv BY DEF Init, WarnInv, Firing, Pending
<1>2. TypeOK /\ WarnInv => WarnedOncePerRegistration
  <2> SUFFICES ASSUME TypeOK, WarnInv, NEW m \in Markets
               PROVE  warned[m] + Firing(m) <= registered[m]
    BY DEF WarnedOncePerRegistration, Firing
  <2>1. warned[m] \in Nat /\ registered[m] \in Nat BY DEF TypeOK
  <2> QED BY <2>1 DEF WarnInv, Firing, Pending
<1> QED BY <1>1, <1>2, StepWarn, MarketType, PTL DEF Spec
=============================================================================
