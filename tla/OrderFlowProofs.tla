-------------------------- MODULE OrderFlowProofs --------------------------
(***************************************************************************)
(* Proofs about OrderFlow, for every set of orders, every plan and every   *)
(* size of the channels.                                                   *)
(***************************************************************************)
EXTENDS OrderFlow, ReservedProofs, SequenceTheorems

-----------------------------------------------------------------------------
(* Sequences.                                                              *)

\* What every prefix of s leaves of itself.
Kept(k, s, S, m) == \A n \in 0 .. m :
    k[n] = IF n = 0 THEN << >> ELSE IF s[n] \in S THEN Append(k[n - 1], s[n]) ELSE k[n - 1]

\* The loop of Among has a result at every step.
LEMMA KeptExists ==
    ASSUME NEW T, NEW s \in Seq(T), NEW S
    PROVE  \E k \in [0 .. Len(s) -> Seq(T \cap S)] : Kept(k, s, S, Len(s))
<1> DEFINE D == 0 .. Len(s)
           R == [D -> Seq(T \cap S)]
           M == {m \in Nat : m <= Len(s) => \E k \in R : Kept(k, s, S, m)}
<1>0. Len(s) \in Nat OBVIOUS
<1>1. 0 \in M
  <2> DEFINE k == [n \in D |-> << >>]
  <2>1. k \in R /\ Kept(k, s, S, 0) BY <1>0 DEF Kept
  <2> HIDE DEF k, R
  <2>2. \E x \in R : Kept(x, s, S, 0) BY <2>1
  <2> QED BY <2>2
<1>2. ASSUME NEW m \in Nat, m \in M PROVE m + 1 \in M
  <2> SUFFICES ASSUME m + 1 <= Len(s) PROVE \E x \in R : Kept(x, s, S, m + 1)
    OBVIOUS
  <2>1. PICK k \in R : Kept(k, s, S, m) BY <1>0, <1>2
  <2> DEFINE next == IF s[m + 1] \in S THEN Append(k[m], s[m + 1]) ELSE k[m]
             h == [k EXCEPT ![m + 1] = next]
  <2>2. k[m] \in Seq(T \cap S) /\ s[m + 1] \in T
    <3>1. m \in D /\ m + 1 \in 1 .. Len(s) BY <1>0
    <3> QED BY <3>1, ElementOfSeq
  <2>3. next \in Seq(T \cap S) BY <2>2
  <2> HIDE DEF next
  <2>4. h \in R BY <2>3
  <2>5. h[m + 1] = next /\ \A n \in 0 .. m : h[n] = k[n] BY <1>0
  <2> HIDE DEF h, R
  <2>6. Kept(h, s, S, m + 1) BY <2>1, <2>5 DEF Kept, next
  <2> QED BY <2>4, <2>6
<1>3. \A m \in Nat : m \in M
  <2> HIDE DEF M
  <2> QED BY <1>1, <1>2, NatSetInduction
<1>4. Len(s) \in M BY <1>0, <1>3
<1> QED BY <1>0, <1>4

\* Among takes from the sequence and from the set.
LEMMA AmongType ==
    ASSUME NEW T, NEW s \in Seq(T), NEW S
    PROVE  Among(s, S) \in Seq(T \cap S)
<1> DEFINE Eq(h) == h = [n \in 0 .. Len(s) |->
                            IF n = 0 THEN << >>
                            ELSE IF s[n] \in S THEN Append(h[n - 1], s[n]) ELSE h[n - 1]]
           kept == CHOOSE h : Eq(h)
           M == {m \in Nat : m <= Len(s) => kept[m] \in Seq(T \cap S)}
<1>0. Len(s) \in Nat OBVIOUS
<1>1. Among(s, S) = kept[Len(s)] BY DEF Among
<1>2. PICK k \in [0 .. Len(s) -> Seq(T \cap S)] : Kept(k, s, S, Len(s)) BY KeptExists
<1>3. Eq(k) BY <1>2 DEF Kept
<1>4. Eq(kept)
  <2> HIDE DEF Eq
  <2> QED BY <1>3
<1>5. Kept(kept, s, S, Len(s))
  <2> HIDE DEF kept
  <2> QED BY <1>4 DEF Kept
<1> HIDE DEF kept
<1>6. 0 \in M
  <2>1. kept[0] = << >> BY <1>0, <1>5 DEF Kept
  <2> QED BY <2>1
<1>7. ASSUME NEW m \in Nat, m \in M PROVE m + 1 \in M
  <2> SUFFICES ASSUME m + 1 <= Len(s) PROVE kept[m + 1] \in Seq(T \cap S)
    OBVIOUS
  <2>1. kept[m] \in Seq(T \cap S) /\ s[m + 1] \in T BY <1>0, <1>7
  <2>2. kept[m + 1] = IF s[m + 1] \in S THEN Append(kept[m], s[m + 1]) ELSE kept[m]
    BY <1>0, <1>5 DEF Kept
  <2> QED BY <2>1, <2>2
<1>8. \A m \in Nat : m \in M
  <2> HIDE DEF M
  <2> QED BY <1>6, <1>7, NatSetInduction
<1> QED BY <1>0, <1>1, <1>8

\* A sequence of a smaller set.
LEMMA SubseqType ==
    ASSUME NEW T, NEW S, T \subseteq S, NEW s \in Seq(T)
    PROVE  s \in Seq(S)
BY SeqMonotonic

\* The intents of a batch that are kept are intents of the batch.
LEMMA DoingType ==
    ASSUME NEW T, NEW batch \in Seq(T), NEW actions
    PROVE  Doing(batch, actions) \in Seq({in \in T : in.Action \in actions})
<1> DEFINE S == {in \in Range(batch) : in.Action \in actions}
<1>1. Doing(batch, actions) \in Seq(T \cap S) BY AmongType DEF Doing
<1>2. T \cap S \subseteq {in \in T : in.Action \in actions} OBVIOUS
<1> HIDE DEF S
<1> QED BY <1>1, <1>2, SubseqType

\* The orders of a batch.
LEMMA OrdersOfType ==
    ASSUME NEW T, NEW batch \in Seq(T), NEW action
    PROVE  OrdersOf(batch, action) \in Seq({in.OrderID : in \in {x \in T : x.Action = action}})
<1> DEFINE group == Doing(batch, {action})
           U == {x \in T : x.Action \in {action}}
           V == {in.OrderID : in \in {x \in T : x.Action = action}}
<1>1. group \in Seq(U) BY DoingType
<1>2. OrdersOf(batch, action) = [n \in DOMAIN group |-> group[n].OrderID] BY DEF OrdersOf
<1> HIDE DEF group
<1>3. \A n \in 1 .. Len(group) : group[n] \in U BY <1>1
<1>4. \A n \in 1 .. Len(group) : group[n].OrderID \in V BY <1>3
<1>5. DOMAIN group = 1 .. Len(group) /\ Len(group) \in Nat BY <1>1
<1> HIDE DEF U, V
<1>6. [n \in 1 .. Len(group) |-> group[n].OrderID] \in Seq(V) BY <1>4, <1>5, IsASeq
<1> QED BY <1>2, <1>5, <1>6 DEF V

\* The elements of a sequence.
LEMMA RangeType ==
    ASSUME NEW T, NEW s \in Seq(T)
    PROVE  Range(s) \subseteq T
BY DEF Range

-----------------------------------------------------------------------------
(* The inductive invariant.                                                *)

\* What the engine loop keeps of orders and events.
LoopType ==
    /\ accepted \subseteq Ids /\ finalized \subseteq Ids
    /\ pending \in [Ids -> Seq(Events)]
    /\ loop \in [replay : Seq(Events), closing : Ids \cup {NoOrder}]

\* The engine's subscription.
ChannelType == bus \in Seq(Events) /\ Len(bus) <= BusCap

\* A process that is down, or starting, has nothing in its memory but the ledger
\* and the orders it has just restored.
DownInv ==
    ~ Up => /\ finalized = {} /\ \A o \in Ids : pending[o] = << >>
            /\ LoopFree /\ bus = << >> /\ queue = << >> /\ worker = Idle
            /\ wsOut = << >> /\ ws = << >>

\* Nothing else happens to an order that never enters the book, and a dry run gives
\* its worker no work: it is what keeps the one trade a relayer or a dry run books
\* the only one.
OnceInv ==
    /\ \A o \in Ids : OffBook(o) => exch[o] # "open" /\ Len(trades[o]) <= 1
    /\ plan.dryRun => queue = << >> /\ worker.batch = << >> /\ worker.legs = << >>

\* Reserved covers the reservations, whatever is in flight is well formed, and the
\* three parts above.
Inv ==
    /\ Covers(ledger)
    /\ LoopType /\ TrackingConsistent /\ ChannelType
    /\ asked \subseteq plan.batches /\ harmed \subseteq Ids
    /\ ExecutorType /\ ExchangeType /\ ReconType /\ BootType
    /\ DownInv /\ OnceInv

\* The type invariant is part of it.
LEMMA InvType == Inv => TypeOK
BY DEF Inv, TypeOK, EngineType, LoopType, ChannelType, Covers

-----------------------------------------------------------------------------
(* The steps, by the goroutine that takes them, and what they leave alone. *)

Submit == \E batch \in plan.batches : submitIntents(batch)
EngineStep == Receive \/ Replay \/ CloseFilled
CleanStep ==
    \/ \E S \in SUBSET Ids : cleanupExpiredPending(S) \/ cleanupExpiredFinalized(S)
    \/ cleanupExpiredProvisional \/ Tick
WorkerStep ==
    \/ WorkerTake \/ WorkerPost \/ WorkerCancel \/ WorkerLegs
    \/ \E ok \in BOOLEAN : WorkerRelay(ok)
    \/ WorkerTrack \/ WorkerPublish
SocketStep == (\E n \in DOMAIN ws : Deliver(n)) \/ WSPublish
ExchangeStep ==
    \/ \E o \in Ids : OpenByHand(o) \/ CancelByExchange(o)
    \/ \E o \in Ids : \E size \in 1 .. (Order[o].RequestedSize + plan.overmatch) :
            \E price \in TradePrices : Match(o, size, price)
    \/ \E o \in Ids : \E n \in DOMAIN trades[o] :
            \/ \E outcome \in {"MINED", "FAILED"} : Settle(o, n, outcome)
            \/ Redeliver(o, n)
ReconStep ==
    \/ GetOpenOrders \/ GetPositions \/ GetPositionsFails
    \/ ReconcileOrders \/ ReconcilePositions
StartStep ==
    \/ \E ok \in BOOLEAN : \/ ReadOnchainBalance(ok) \/ BootOpenOrders(ok) \/ BootPositions(ok)
    \/ SyncBalance \/ BootBalance \/ BootRestore \/ BootLoops

\* Every step is one of these.
LEMMA StepKinds ==
    ASSUME [Next]_vars
    PROVE  \/ Submit \/ EngineStep \/ CleanStep \/ WorkerStep \/ SocketStep \/ ExchangeStep
           \/ ReconStep \/ Crash \/ StartStep \/ UNCHANGED vars
<1>1. CASE UNCHANGED vars BY <1>1
<1>2. CASE Next
  BY <1>2, Zenon DEF Next, Submit, EngineStep, CleanStep, WorkerStep, SocketStep, ExchangeStep,
     ReconStep, StartStep
<1> QED BY <1>1, <1>2

\* What each of them leaves alone.
LEMMA SubmitFrame ==
    Submit => UNCHANGED <<engineVars, tracked, worker, wsOut, ws, dups, recon, bootVars>>
BY DEF Submit, submitIntents

\* An event, a replay, a close.
LEMMA EngineFrame == EngineStep => UNCHANGED <<executorVars, exchangeVars, recon, bootVars, asked>>
BY DEF EngineStep, Receive, Replay, CloseFilled

\* The cleanup ticker, and time.
LEMMA CleanFrame ==
    CleanStep => UNCHANGED <<accepted, loop, executorVars, bus, exchangeVars, recon, bootVars, asked>>
BY DEF CleanStep, cleanupExpiredPending, cleanupExpiredFinalized, cleanupExpiredProvisional,
       Tick, engineVars

\* The executor's worker.
LEMMA WorkerFrame ==
    WorkerStep => UNCHANGED <<ledger, engineVars, wsOut, dups, recon, bootVars, asked>>
BY DEF WorkerStep, WorkerTake, WorkerPost, WorkerCancel, WorkerLegs, WorkerRelay, WorkerTrack,
       WorkerPublish, exchangeVars

\* The WebSocket consumer.
LEMMA SocketFrame ==
    SocketStep => UNCHANGED <<ledger, engineVars, queue, worker, exch, trades, dups, recon,
                              bootVars, asked>>
BY DEF SocketStep, Deliver, WSPublish, exchangeVars

\* The exchange.
LEMMA ExchangeFrame ==
    ExchangeStep => UNCHANGED <<ledger, engineVars, executorVars, bus, recon, bootVars, asked>>
BY DEF ExchangeStep, OpenByHand, CancelByExchange, Match, Settle, Redeliver

\* The reconcile loop.
LEMMA ReconFrame ==
    ReconStep => UNCHANGED <<engineVars, executorVars, bus, exchangeVars, bootVars, asked, harmed>>
BY DEF ReconStep, GetOpenOrders, GetPositions, GetPositionsFails, ReconcileOrders,
       ReconcilePositions

\* Engine.Start.
LEMMA StartFrame ==
    StartStep => UNCHANGED <<finalized, pending, loop, executorVars, bus, exchangeVars, recon,
                             crashes, plan, asked, harmed>>
BY DEF StartStep, BootStep, ReadOnchainBalance, BootOpenOrders, BootPositions, SyncBalance,
       BootBalance, BootRestore, BootLoops, engineVars

-----------------------------------------------------------------------------
(* Orders, intents, events.                                                *)

\* What the assumptions say of an order's terms.
LEMMA OrderParts ==
    ASSUME NEW o \in Ids
    PROVE  /\ Order[o].TokenID \in Tokens /\ Order[o].Side \in Sides
           /\ Order[o].Price \in Prices /\ Order[o].Price \in Nat /\ Order[o].Price > 0
           /\ Order[o].RequestedSize \in Nat \ {0}
           /\ WithinLimit(o, 0) /\ WithinLimit(o, Order[o].Price)
<1>1. /\ Order[o].TokenID \in Tokens /\ Order[o].Side \in Sides
      /\ Order[o].Price \in Prices /\ Order[o].RequestedSize \in Nat \ {0}
  BY OrderAssumption DEF Terms
<1>2. Order[o].Price \in Nat /\ Order[o].Price > 0 BY <1>1, OneAssumption DEF Prices
<1> QED BY <1>1, <1>2 DEF WithinLimit, TradePrice

\* The legs of a SPLIT or MERGE are orders.
LEMMA LegParts ==
    /\ LegIds \subseteq Ids
    /\ \A p \in DOMAIN Legs : Legs[p] \in LegIds \X LegIds
<1>1. \A p \in DOMAIN Legs : Legs[p] \in Ids \X Ids BY OrderFlowAssumption
<1>2. LegIds \subseteq Ids BY <1>1 DEF LegIds
<1>3. ASSUME NEW p \in DOMAIN Legs PROVE Legs[p] \in LegIds \X LegIds
  <2>1. Legs[p][1] \in LegIds /\ Legs[p][2] \in LegIds BY DEF LegIds
  <2> QED BY <1>1, <2>1
<1> QED BY <1>2, <1>3

\* An intent names an order, or a pair of legs.
LEMMA IntentParts ==
    ASSUME NEW in \in Intents
    PROVE  /\ in.Action \in Actions
           /\ in.Action \in {"PLACE", "CANCEL"} => in.OrderID \in Ids /\ in.OrderID \notin LegIds
           /\ in.Action \in {"SPLIT", "MERGE"} => in.OrderID \in DOMAIN Legs
BY DEF Intents, Actions

\* The batches of a plan.
LEMMA PlanParts ==
    ASSUME NEW p \in Plans
    PROVE  /\ p.batches \subseteq Seq(Intents) /\ p.byHand \subseteq External
           /\ p.dryRun \in BOOLEAN /\ p.crashes \in Nat
           /\ \A batch \in p.batches : \A in \in Range(batch) :
                /\ in.Action = "PLACE" => in.OrderID \notin External
                /\ p.dryRun => in.Action \in {"PLACE", "CANCEL"}
<1>1. p \in Plan BY OrderFlowAssumption
<1>2. /\ p.batches \subseteq Seq(Intents) /\ p.byHand \subseteq External
      /\ p.dryRun \in BOOLEAN /\ p.crashes \in Nat
  BY <1>1 DEF Plan
<1> QED BY <1>2, OrderFlowAssumption

\* The events the executor builds.
LEMMA EventType ==
    ASSUME NEW st \in Statuses, NEW o \in Ids, NEW i \in {o, NoIntent}, NEW size \in Nat,
           NEW price \in Nat, WithinLimit(o, price)
    PROVE  Event(st, o, i, size, price) \in Events
<1> DEFINE e == Event(st, o, i, size, price)
<1>1. /\ e.Status = st /\ e.OrderID = o /\ e.ParentOrderID = i
      /\ e.FilledSize = size /\ e.Price = price
  BY DEF Event
<1>2. e \in [Status : Statuses, OrderID : Ids, ParentOrderID : Ids \cup {NoIntent},
             FilledSize : Nat, Price : Nat]
  BY DEF Event
<1> HIDE DEF e
<1>3. e \in Events BY <1>1, <1>2 DEF Events
<1> QED BY <1>3 DEF e

\* The rejection of an intent.
LEMMA RejectedIntentType ==
    ASSUME NEW i \in Ids \cup {NoIntent}
    PROVE  RejectedIntent(i) \in Events
BY DEF RejectedIntent, Event, Events

\* An event the engine receives names an order, or rejects an intent.
LEMMA EventParts ==
    ASSUME NEW e \in Events
    PROVE  /\ e.Status \in Statuses
           /\ e.Status # "Rejected" => e.OrderID # NoOrder
           /\ e.OrderID # NoOrder =>
                /\ e.OrderID \in Ids /\ e.ParentOrderID \in {e.OrderID, NoIntent}
                /\ e.FilledSize \in Nat /\ e.Price \in Nat /\ WithinLimit(e.OrderID, e.Price)
<1>1. CASE e.OrderID = NoOrder BY <1>1, OrderFlowAssumption DEF Events, Statuses
<1>2. CASE e.OrderID # NoOrder BY <1>2 DEF Events
<1> QED BY <1>1, <1>2

\* Events that fill nothing.
Silent(q) == \A n \in DOMAIN q : q[n].FilledSize = 0

\* Events without a size, one by one or none.
LEMMA SilentOne ==
    /\ Silent(<< >>)
    /\ \A st, o, i, price : Silent(<<Event(st, o, i, 0, price)>>)
<1>1. \A e : DOMAIN <<e>> = {1} /\ <<e>>[1] = e OBVIOUS
<1>2. \A st, o, i, price : Event(st, o, i, 0, price).FilledSize = 0 BY DEF Event
<1>3. DOMAIN << >> = {} OBVIOUS
<1> QED BY <1>1, <1>2, <1>3 DEF Silent

\* Two sequences of such events make one.
LEMMA SilentConcat ==
    ASSUME NEW p \in Seq(Events), NEW q \in Seq(Events), Silent(p), Silent(q)
    PROVE  Silent(p \o q)
<1> SUFFICES ASSUME NEW n \in DOMAIN (p \o q) PROVE (p \o q)[n].FilledSize = 0 BY DEF Silent
<1>1. n \in 1 .. (Len(p) + Len(q)) OBVIOUS
<1>2. CASE n \in DOMAIN p
  <2>1. (p \o q)[n] = p[n] BY <1>2
  <2> QED BY <1>2, <2>1 DEF Silent
<1>3. CASE n \notin DOMAIN p
  <2>1. n - Len(p) \in DOMAIN q /\ (p \o q)[n] = q[n - Len(p)] BY <1>1, <1>3
  <2> QED BY <2>1 DEF Silent
<1> QED BY <1>2, <1>3

\* The rejections of a batch.
LEMMA RejectBatchType ==
    ASSUME NEW batch \in Seq(Intents)
    PROVE  rejectBatch(batch) \in Seq(Events) /\ Silent(rejectBatch(batch))
<1> DEFINE ev(n) == CASE batch[n].Action = "PLACE"  -> RejectedIntent(batch[n].OrderID)
                      [] batch[n].Action = "CANCEL" -> Event("Rejected", batch[n].OrderID, NoIntent, 0, 0)
                      [] OTHER                      -> RejectedIntent(NoIntent)
<1>1. DOMAIN batch = 1 .. Len(batch) /\ Len(batch) \in Nat OBVIOUS
<1>2. ASSUME NEW n \in 1 .. Len(batch) PROVE ev(n) \in Events
  <2>1. batch[n] \in Intents BY <1>1
  <2>2. batch[n].Action \in {"PLACE", "CANCEL"} => batch[n].OrderID \in Ids
    BY <2>1, IntentParts
  <2>3. CASE batch[n].Action = "PLACE" BY <2>2, <2>3, RejectedIntentType
  <2>4. CASE batch[n].Action = "CANCEL"
    <3>1. batch[n].OrderID \in Ids BY <2>2, <2>4
    <3>2. WithinLimit(batch[n].OrderID, 0) BY <3>1, OrderParts
    <3>3. "Rejected" \in Statuses /\ 0 \in Nat BY DEF Statuses
    <3>4. Event("Rejected", batch[n].OrderID, NoIntent, 0, 0) \in Events
      BY <3>1, <3>2, <3>3, EventType
    <3> QED BY <2>4, <3>4
  <2>5. CASE batch[n].Action \notin {"PLACE", "CANCEL"}
    <3>1. RejectedIntent(NoIntent) \in Events BY RejectedIntentType
    <3> QED BY <2>5, <3>1
  <2> QED BY <2>3, <2>4, <2>5
<1>3. rejectBatch(batch) = [n \in DOMAIN batch |-> ev(n)] BY DEF rejectBatch
<1>4. \A n \in DOMAIN batch : ev(n).FilledSize = 0 BY DEF RejectedIntent, Event
<1> HIDE DEF ev
<1>5. [n \in 1 .. Len(batch) |-> ev(n)] \in Seq(Events) BY <1>1, <1>2, IsASeq
<1> QED BY <1>1, <1>3, <1>4, <1>5 DEF Silent

-----------------------------------------------------------------------------
(* The loop of submitIntents.                                              *)

\* Each intent of the batch takes the ledger from one of L to one of L, and what
\* is submitted comes from the batch.
LEMMA SubmitLoop ==
    ASSUME NEW L, NEW s \in L, NEW batch \in Seq(Intents),
           \A v \in L : \A i \in Ids :
                TryReserveProvisional(v, i, Order[i].TokenID, Order[i].Side, Order[i].Price,
                                      Order[i].RequestedSize).st \in L
    PROVE  FoldLeft(reserveIntent, [st |-> s, submit |-> << >>], batch)
                \in [st : L, submit : Seq(Range(batch))]
<1> DEFINE A == [st : L, submit : Seq(Range(batch))]
           base == [st |-> s, submit |-> << >>]
           D == DOMAIN batch
           F == [p \in D \X A |-> reserveIntent(p[2], batch[p[1]])]
           top == [T \in SUBSET D |-> Max(T)]
           Eq(h) == h = [T \in SUBSET D |-> IF T = {} THEN base
                                            ELSE reserveIntent(h[T \ {Max(T)}], batch[Max(T)])]
           iter == CHOOSE h : Eq(h)
<1>1. FoldLeft(reserveIntent, base, batch) = iter[D]
  BY DEF FoldLeft, MapThenFoldSet
<1>2. D = 1 .. Len(batch) /\ Len(batch) \in Nat OBVIOUS
<1>3. IsFiniteSet(D) BY <1>2, FS_Interval
<1>4. \A T \in SUBSET D : T # {} => Max(T) \in T /\ top[T] = Max(T) BY <1>2, MaxIndex
<1>5. base \in A
  <2>1. << >> \in Seq(Range(batch)) OBVIOUS
  <2> QED BY <2>1
<1>6. ASSUME NEW n \in D, NEW v \in A PROVE reserveIntent(v, batch[n]) \in A
  <2> DEFINE in == batch[n]
             q == Order[in.OrderID]
             r == TryReserveProvisional(v.st, in.OrderID, q.TokenID, q.Side, q.Price, q.RequestedSize)
  <2>1. in \in Intents /\ in \in Range(batch) BY <1>2 DEF Range
  <2>2. v.st \in L /\ v.submit \in Seq(Range(batch)) /\ v = [st |-> v.st, submit |-> v.submit]
    OBVIOUS
  <2>3. Append(v.submit, in) \in Seq(Range(batch)) BY <2>1, <2>2, AppendProperties
  <2>4. CASE in.Action # "PLACE"
    <3>1. reserveIntent(v, in) = [v EXCEPT !.submit = Append(v.submit, in)]
      BY <2>4 DEF reserveIntent
    <3> HIDE DEF in
    <3>2. reserveIntent(v, in) = [st |-> v.st, submit |-> Append(v.submit, in)] BY <2>2, <3>1
    <3> QED BY <2>2, <2>3, <3>2 DEF in
  <2>5. CASE in.Action = "PLACE"
    <3>1. in.OrderID \in Ids BY <2>1, <2>5, IntentParts
    <3>2. r.st \in L BY <2>2, <3>1
    <3>3. \/ reserveIntent(v, in) = v
          \/ reserveIntent(v, in) = [st |-> r.st, submit |-> Append(v.submit, in)]
      BY <2>5 DEF reserveIntent
    <3> HIDE DEF r, in
    <3>4. [st |-> r.st, submit |-> Append(v.submit, in)] \in A BY <2>3, <3>2
    <3> HIDE DEF A
    <3>5. reserveIntent(v, in) \in A BY <3>3, <3>4
    <3> QED BY <3>5 DEF in
  <2> QED BY <2>4, <2>5
<1> HIDE DEF A, base, D
<1>7. \A n \in D : \A v \in A : F[<<n, v>>] = reserveIntent(v, batch[n]) OBVIOUS
<1>8. \A n \in D : \A v \in A : F[<<n, v>>] \in A BY <1>6, <1>7
<1>9. \A T \in SUBSET D : T # {} => top[T] \in T BY <1>4
<1> HIDE DEF F, top
<1>10. PICK g \in [SUBSET D -> A] : Loops(g, D, top, base, F) BY <1>3, <1>5, <1>8, <1>9, LoopExists
<1>11. Eq(g)
  <2>1. ASSUME NEW T \in SUBSET D, T # {}
        PROVE  g[T] = reserveIntent(g[T \ {Max(T)}], batch[Max(T)])
    <3>1. top[T] = Max(T) /\ Max(T) \in D BY <1>4, <2>1
    <3>2. g[T \ {Max(T)}] \in A BY <2>1
    <3>3. g[T] = F[<<top[T], g[T \ {top[T]}]>>] BY <1>10, <2>1 DEF Loops
    <3> QED BY <1>7, <3>1, <3>2, <3>3
  <2>2. g[{}] = base BY <1>10 DEF Loops
  <2> QED BY <2>1, <2>2
<1>12. Eq(iter)
  <2> HIDE DEF Eq
  <2> QED BY <1>11
<1>13. \A T \in SUBSET D :
            iter[T] = IF T = {} THEN base ELSE reserveIntent(iter[T \ {Max(T)}], batch[Max(T)])
  <2> HIDE DEF iter
  <2> QED BY <1>12
<1> HIDE DEF iter
<1>14. iter[{}] \in A BY <1>5, <1>13
<1>15. \A T \in SUBSET D : T # {} /\ iter[T \ {top[T]}] \in A => iter[T] \in A
  <2> SUFFICES ASSUME NEW T \in SUBSET D, T # {}, iter[T \ {top[T]}] \in A
               PROVE  iter[T] \in A
    OBVIOUS
  <2>1. top[T] = Max(T) /\ Max(T) \in D BY <1>4
  <2>2. iter[T] = reserveIntent(iter[T \ {Max(T)}], batch[Max(T)]) BY <1>13
  <2> QED BY <1>6, <2>1, <2>2
<1>16. iter[D] \in A BY <1>3, <1>9, <1>14, <1>15, LoopStays
<1> QED BY <1>1, <1>16 DEF A, base

-----------------------------------------------------------------------------
(* The balance covers the reservations.                                    *)

\* One event of the engine loop.
LEMMA HandleCovers ==
    ASSUME Covers(ledger), NEW e \in Events, NEW rest, handleExecutionEvent(e, rest)
    PROVE  Covers(ledger')
<1> DEFINE o == e.OrderID
           q == Order[o]
<1>1. CASE ledger' = ledger BY <1>1
<1>2. CASE HandleRejectedIntent(e, rest)
  BY <1>2, ReleaseProvisionalCovers DEF HandleRejectedIntent
<1>3. ASSUME o # NoOrder, HandleAccepted(e, rest) PROVE Covers(ledger')
  <2>1. o \in Ids BY <1>3, EventParts
  <2> DEFINE r == AttachOrder(ledger, e.ParentOrderID, o, q.TokenID, q.Side, q.Price,
                              q.RequestedSize)
  <2>2. ledger' = r.st BY <1>3 DEF HandleAccepted
  <2>3. Covers(r.st) BY <2>1, AttachCovers
  <2> QED BY <2>2, <2>3
<1>4. ASSUME o # NoOrder, HandleFill(e, rest) PROVE Covers(ledger')
  <2>1. o \in Ids /\ e.FilledSize \in Nat /\ e.Price \in Nat /\ 1 \in Nat BY <1>4, EventParts
  <2>2. q.TokenID \in Tokens /\ q.Side \in Sides BY <2>1, OrderParts
  <2>3. ledger' = ApplyFill(ledger, o, q.TokenID, q.Side, e.FilledSize, e.Price, 1)
    BY <1>4 DEF HandleFill
  <2> HIDE DEF o, q
  <2> QED BY <2>1, <2>2, <2>3, ApplyFillCovers
<1>5. CASE HandleEnd(e, rest)
  <2> DEFINE freed == IF e.Status = "Rejected" THEN ReleaseProvisional(ledger, e.ParentOrderID)
                                               ELSE ledger
  <2>1. ledger' = IF o \in accepted THEN ReleaseOrder(freed, o) ELSE freed
    BY <1>5 DEF HandleEnd
  <2>2. Covers(freed) BY ReleaseProvisionalCovers
  <2> HIDE DEF freed
  <2> QED BY <2>1, <2>2, ReleaseOrderCovers
<1>6. \/ ledger' = ledger \/ HandleRejectedIntent(e, rest) \/ HandleEnd(e, rest)
      \/ o # NoOrder /\ (HandleAccepted(e, rest) \/ HandleFill(e, rest))
  BY DEF handleExecutionEvent, Ignore, bufferExecution
<1> QED BY <1>1, <1>2, <1>3, <1>4, <1>5, <1>6

\* The batch's placements are reserved one after the other, and buy nothing.
LEMMA SubmitUnder ==
    ASSUME Inv, NEW batch \in plan.batches, submitIntents(batch), NEW B, Bounded(ledger, B)
    PROVE  /\ ledger' \in Under(B)
           /\ \E out \in Seq(Range(batch)) : Execute(out)
<1> DEFINE r == FoldLeft(reserveIntent, [st |-> ledger, submit |-> << >>], batch)
<1>1. ledger' = r.st /\ Execute(r.submit) BY DEF submitIntents
<1>2. batch \in Seq(Intents) BY PlanParts DEF Inv, BootType
<1>3. ledger \in Under(B) BY InUnder DEF Inv
<1>4. \A v \in Under(B) : \A i \in Ids :
            TryReserveProvisional(v, i, Order[i].TokenID, Order[i].Side, Order[i].Price,
                                  Order[i].RequestedSize).st \in Under(B)
  BY InUnder, TryReserveCovers, TryReserveBounded
<1>5. r \in [st : Under(B), submit : Seq(Range(batch))] BY <1>2, <1>3, <1>4, SubmitLoop
<1> HIDE DEF r
<1>6. r.st \in Under(B) /\ r.submit \in Seq(Range(batch)) BY <1>5
<1> QED BY <1>1, <1>6

\* So the reservations stay covered.
LEMMA SubmitCovers ==
    ASSUME Inv, NEW batch \in plan.batches, submitIntents(batch)
    PROVE  /\ Covers(ledger')
           /\ \E out \in Seq(Range(batch)) : Execute(out)
<1>1. Bounded(ledger, Own(ledger)) BY UnderOwn, InUnder DEF Inv
<1>2. ledger' \in Under(Own(ledger)) /\ \E out \in Seq(Range(batch)) : Execute(out)
  BY <1>1, SubmitUnder
<1> QED BY <1>2, InUnder

\* Every step keeps the reservations covered.
LEMMA StepCovers == Inv /\ [Next]_vars => Covers(ledger)'
<1> SUFFICES ASSUME Inv, [Next]_vars PROVE Covers(ledger')
  OBVIOUS
<1>0. /\ Covers(ledger) /\ LoopType /\ ChannelType /\ ReconType /\ BootType /\ IsFiniteSet(Ids)
  BY OrderFlowAssumption DEF Inv
<1>1. CASE Submit BY <1>1, SubmitCovers DEF Submit
<1>2. CASE EngineStep
  <2>1. CASE Receive
    <3>1. bus # << >> /\ handleExecutionEvent(Head(bus), << >>) BY <2>1 DEF Receive
    <3>2. Head(bus) \in Events BY <1>0, <3>1 DEF ChannelType
    <3> QED BY <1>0, <3>1, <3>2, HandleCovers
  <2>2. CASE Replay
    <3>1. loop.replay # << >> /\ handleExecutionEvent(Head(loop.replay), Tail(loop.replay))
      BY <2>2 DEF Replay
    <3>2. Head(loop.replay) \in Events BY <1>0, <3>1 DEF LoopType
    <3> QED BY <1>0, <3>1, <3>2, HandleCovers
  <2>3. CASE CloseFilled BY <1>0, <2>3, ReleaseOrderCovers DEF CloseFilled
  <2> QED BY <1>2, <2>1, <2>2, <2>3 DEF EngineStep
<1>3. CASE CleanStep
  <2>1. CASE ledger' = ledger BY <1>0, <2>1
  <2>2. CASE cleanupExpiredProvisional BY <1>0, <2>2, CleanupCovers DEF cleanupExpiredProvisional
  <2>3. CASE Tick BY <1>0, <2>3, ElapseCovers DEF Tick
  <2> QED BY <1>3, <2>1, <2>2, <2>3 DEF CleanStep, cleanupExpiredPending, cleanupExpiredFinalized
<1>4. CASE WorkerStep BY <1>0, <1>4, WorkerFrame
<1>5. CASE SocketStep BY <1>0, <1>5, SocketFrame
<1>6. CASE ExchangeStep BY <1>0, <1>6, ExchangeFrame
<1>7. CASE ReconStep
  <2>1. CASE ledger' = ledger BY <1>0, <2>1
  <2>2. CASE ReconcileOrders
    <3>1. IsMap(recon.orders, Ids, Remotes) BY <1>0 DEF ReconType, IsAnswer, Remotes
    <3>2. IsFiniteSet(DOMAIN recon.orders) BY <1>0, <3>1, FS_Subset DEF IsMap
    <3> QED BY <1>0, <2>2, <3>1, <3>2, ReconcileOrdersCovers DEF ReconcileOrders
  <2>3. CASE ReconcilePositions
    <3>1. IsMap(recon.positions, Tokens, Nat) BY <1>0 DEF ReconType, IsAnswer
    <3> QED BY <1>0, <2>3, <3>1, ReconcilePositionsCovers DEF ReconcilePositions
  <2> QED BY <1>7, <2>1, <2>2, <2>3 DEF ReconStep, GetOpenOrders, GetPositions, GetPositionsFails
<1>8. CASE Crash BY <1>8, NewStateCovers DEF Crash
<1>9. CASE StartStep
  <2>1. CASE ledger' = ledger BY <1>0, <2>1
  <2>2. CASE SyncBalance BY <1>0, <2>2, SyncCovers DEF SyncBalance, BootType
  <2>3. CASE BootRestore
    <3>1. IsMap(boot.orders, Ids, Remotes) /\ IsMap(boot.positions, Tokens, Nat)
          /\ boot.balance \in Int \X Nat
      BY <1>0 DEF BootType, IsAnswer, Remotes
    <3>2. IsFiniteSet(DOMAIN boot.orders) BY <1>0, <3>1, FS_Subset DEF IsMap
    <3> QED BY <1>0, <2>3, <3>1, <3>2, RestoreCovers DEF BootRestore
  <2> QED BY <1>9, <2>1, <2>2, <2>3
       DEF StartStep, BootStep, ReadOnchainBalance, BootOpenOrders, BootPositions, BootBalance,
           BootLoops
<1>10. CASE UNCHANGED vars BY <1>0, <1>10 DEF vars
<1> QED BY <1>1, <1>2, <1>3, <1>4, <1>5, <1>6, <1>7, <1>8, <1>9, <1>10, StepKinds

-----------------------------------------------------------------------------
(* The engine loop's own state.                                            *)

\* finalizeOrder forgets whatever else is known of the order.
LEMMA FinalizeKeeps ==
    ASSUME LoopType, TrackingConsistent, NEW o \in Ids, finalizeOrder(o)
    PROVE  /\ accepted' \subseteq Ids /\ finalized' \subseteq Ids
           /\ pending' \in [Ids -> Seq(Events)]
           /\ TrackingConsistent'
<1>1. accepted' = accepted \ {o} /\ finalized' = finalized \cup {o}
      /\ pending' = [pending EXCEPT ![o] = << >>]
  BY DEF finalizeOrder
<1>2. << >> \in Seq(Events) OBVIOUS
<1>3. accepted' \subseteq Ids /\ finalized' \subseteq Ids /\ pending' \in [Ids -> Seq(Events)]
  BY <1>1, <1>2 DEF LoopType
<1>4. \A x \in Ids : pending'[x] = IF x = o THEN << >> ELSE pending[x]
  BY <1>1 DEF LoopType
<1> QED BY <1>1, <1>3, <1>4 DEF TrackingConsistent, LoopType

\* One event of the engine loop.
LEMMA HandleTracks ==
    ASSUME LoopType, TrackingConsistent, NEW e \in Events, NEW rest \in Seq(Events),
           handleExecutionEvent(e, rest)
    PROVE  LoopType' /\ TrackingConsistent'
<1> DEFINE o == e.OrderID
           L == [replay : Seq(Events), closing : Ids \cup {NoOrder}]
<1>1. \A s \in Seq(Events) : \A c \in Ids \cup {NoOrder} : [replay |-> s, closing |-> c] \in L
  OBVIOUS
<1>2. << >> \in Seq(Events) OBVIOUS
<1>3. ASSUME UNCHANGED <<accepted, finalized, pending>>, loop' \in L
      PROVE  LoopType' /\ TrackingConsistent'
  BY <1>3 DEF LoopType, TrackingConsistent
<1>4. CASE HandleRejectedIntent(e, rest) \/ Ignore(rest)
  <2>1. loop' \in L /\ UNCHANGED <<accepted, finalized, pending>>
    BY <1>1, <1>4 DEF HandleRejectedIntent, Ignore
  <2> QED BY <1>3, <2>1
<1>5. ASSUME o # NoOrder, HandleFill(e, rest) PROVE LoopType' /\ TrackingConsistent'
  <2>1. o \in Ids BY <1>5, EventParts
  <2>2. loop' \in L /\ UNCHANGED <<accepted, finalized, pending>>
    BY <1>1, <1>5, <2>1 DEF HandleFill
  <2> QED BY <1>3, <2>2
<1>6. ASSUME o # NoOrder, o \notin finalized, HandleAccepted(e, rest)
      PROVE  LoopType' /\ TrackingConsistent'
  <2>1. o \in Ids BY <1>6, EventParts
  <2>2. /\ accepted' = accepted \cup {o} /\ finalized' = finalized
        /\ pending' = [pending EXCEPT ![o] = << >>]
        /\ loop' = [replay |-> pending[o] \o rest, closing |-> NoOrder]
    BY <1>6 DEF HandleAccepted
  <2>3. pending[o] \o rest \in Seq(Events) BY <2>1 DEF LoopType
  <2>4. loop' \in L BY <1>1, <2>2, <2>3
  <2>5. pending' \in [Ids -> Seq(Events)] BY <1>2, <2>2 DEF LoopType
  <2>6. \A x \in Ids : pending'[x] = IF x = o THEN << >> ELSE pending[x]
    BY <2>2 DEF LoopType
  <2>7. LoopType' BY <2>1, <2>2, <2>4, <2>5 DEF LoopType
  <2> HIDE DEF o
  <2>8. TrackingConsistent' BY <1>6, <2>1, <2>2, <2>6 DEF TrackingConsistent
  <2> QED BY <2>7, <2>8
<1>7. ASSUME o # NoOrder, o \notin finalized, o \notin accepted, bufferExecution(e, rest)
      PROVE  LoopType' /\ TrackingConsistent'
  <2>1. o \in Ids BY <1>7, EventParts
  <2>2. /\ accepted' = accepted /\ finalized' = finalized
        /\ pending' = [pending EXCEPT ![o] = Append(pending[o], e)]
        /\ loop' = [replay |-> rest, closing |-> NoOrder]
    BY <1>7 DEF bufferExecution
  <2>3. Append(pending[o], e) \in Seq(Events) BY <2>1 DEF LoopType
  <2>4. loop' \in L BY <1>1, <2>2
  <2>5. pending' \in [Ids -> Seq(Events)] BY <2>2, <2>3 DEF LoopType
  <2>6. \A x \in Ids : x # o => pending'[x] = pending[x]
    BY <2>2 DEF LoopType
  <2>7. LoopType' BY <2>2, <2>4, <2>5 DEF LoopType
  <2> HIDE DEF o
  <2>8. TrackingConsistent' BY <1>7, <2>1, <2>2, <2>6 DEF TrackingConsistent
  <2> QED BY <2>7, <2>8
<1>8. ASSUME o # NoOrder, HandleEnd(e, rest) PROVE LoopType' /\ TrackingConsistent'
  <2>1. o \in Ids BY <1>8, EventParts
  <2>2. finalizeOrder(o) /\ loop' = [replay |-> rest, closing |-> NoOrder]
    BY <1>8 DEF HandleEnd
  <2>3. loop' \in L BY <1>1, <2>2
  <2> QED BY <2>1, <2>2, <2>3, FinalizeKeeps DEF LoopType
<1>9. \/ HandleRejectedIntent(e, rest) \/ Ignore(rest)
      \/ o # NoOrder /\ HandleFill(e, rest)
      \/ o # NoOrder /\ o \notin finalized /\ HandleAccepted(e, rest)
      \/ o # NoOrder /\ o \notin finalized /\ o \notin accepted /\ bufferExecution(e, rest)
      \/ o # NoOrder /\ HandleEnd(e, rest)
  BY DEF handleExecutionEvent
<1> QED BY <1>4, <1>5, <1>6, <1>7, <1>8, <1>9

\* Every step keeps what the engine knows of orders consistent.
LEMMA StepTracks == Inv /\ [Next]_vars => LoopType' /\ TrackingConsistent'
<1> SUFFICES ASSUME Inv, [Next]_vars PROVE LoopType' /\ TrackingConsistent'
  OBVIOUS
<1>0. LoopType /\ TrackingConsistent /\ ChannelType /\ BootType /\ DownInv BY DEF Inv
<1>k. ASSUME UNCHANGED engineVars PROVE LoopType' /\ TrackingConsistent'
  BY <1>0, <1>k DEF engineVars, LoopType, TrackingConsistent
<1>1. CASE Submit BY <1>1, <1>k, SubmitFrame
<1>2. CASE EngineStep
  <2>1. CASE Receive
    <3>1. bus # << >> /\ handleExecutionEvent(Head(bus), << >>) BY <2>1 DEF Receive
    <3>2. Head(bus) \in Events /\ << >> \in Seq(Events) BY <1>0, <3>1 DEF ChannelType
    <3> QED BY <1>0, <3>1, <3>2, HandleTracks
  <2>2. CASE Replay
    <3>1. loop.replay # << >> /\ handleExecutionEvent(Head(loop.replay), Tail(loop.replay))
      BY <2>2 DEF Replay
    <3>2. Head(loop.replay) \in Events /\ Tail(loop.replay) \in Seq(Events)
      BY <1>0, <3>1 DEF LoopType
    <3> QED BY <1>0, <3>1, <3>2, HandleTracks
  <2>3. CASE CloseFilled
    <3>1. loop.closing \in Ids BY <1>0, <2>3 DEF CloseFilled, LoopType
    <3>2. finalizeOrder(loop.closing) /\ loop' = [loop EXCEPT !.closing = NoOrder]
      BY <2>3 DEF CloseFilled
    <3>3. loop' \in [replay : Seq(Events), closing : Ids \cup {NoOrder}]
      BY <1>0, <3>2 DEF LoopType
    <3> QED BY <1>0, <3>1, <3>2, <3>3, FinalizeKeeps DEF LoopType
  <2> QED BY <1>2, <2>1, <2>2, <2>3 DEF EngineStep
<1>3. CASE CleanStep
  <2>1. CASE UNCHANGED engineVars BY <1>k, <2>1
  <2>2. ASSUME NEW S \in SUBSET Ids, cleanupExpiredPending(S)
        PROVE  LoopType' /\ TrackingConsistent'
    <3>1. /\ pending' = [o \in Ids |-> IF o \in S THEN << >> ELSE pending[o]]
          /\ UNCHANGED <<accepted, finalized, loop>>
      BY <2>2 DEF cleanupExpiredPending
    <3>2. \A o \in Ids : pending'[o] \in {<< >>, pending[o]} BY <3>1
    <3>3. pending' \in [Ids -> Seq(Events)] BY <1>0, <3>1 DEF LoopType
    <3>4. LoopType' BY <1>0, <3>1, <3>3 DEF LoopType
    <3>5. TrackingConsistent' BY <1>0, <3>1, <3>2 DEF TrackingConsistent
    <3> QED BY <3>4, <3>5
  <2>3. ASSUME NEW S \in SUBSET Ids, cleanupExpiredFinalized(S)
        PROVE  LoopType' /\ TrackingConsistent'
    BY <1>0, <2>3 DEF cleanupExpiredFinalized, LoopType, TrackingConsistent
  <2> QED BY <1>3, <2>1, <2>2, <2>3 DEF CleanStep, cleanupExpiredProvisional, Tick
<1>4. CASE WorkerStep BY <1>4, <1>k, WorkerFrame
<1>5. CASE SocketStep BY <1>5, <1>k, SocketFrame
<1>6. CASE ExchangeStep BY <1>6, <1>k, ExchangeFrame
<1>7. CASE ReconStep BY <1>7, <1>k, ReconFrame
<1>8. CASE Crash
  <2>1. /\ accepted' = {} /\ finalized' = {} /\ pending' = [o \in Ids |-> << >>]
        /\ loop' = [replay |-> << >>, closing |-> NoOrder]
    BY <1>8 DEF Crash
  <2>2. << >> \in Seq(Events) OBVIOUS
  <2>3. LoopType' BY <2>1, <2>2 DEF LoopType
  <2>4. TrackingConsistent' BY <2>1 DEF TrackingConsistent
  <2> QED BY <2>3, <2>4
<1>9. CASE StartStep
  <2>1. CASE accepted' = accepted
    <3>1. UNCHANGED engineVars BY <1>9, <2>1, StartFrame DEF engineVars
    <3> QED BY <1>k, <3>1
  <2>2. CASE BootRestore
    <3>1. accepted' = accepted \cup DOMAIN boot.orders /\ UNCHANGED <<finalized, pending, loop>>
          /\ boot.at = "ready"
      BY <2>2 DEF BootRestore
    <3>2. DOMAIN boot.orders \subseteq Ids BY <1>0 DEF BootType, IsAnswer, IsMap
    <3>3. finalized = {} /\ \A o \in Ids : pending[o] = << >> BY <1>0, <3>1 DEF DownInv, Up
    <3>4. LoopType' BY <1>0, <3>1, <3>2 DEF LoopType
    <3>5. TrackingConsistent' BY <3>1, <3>3 DEF TrackingConsistent
    <3> QED BY <3>4, <3>5
  <2> QED BY <1>9, <2>1, <2>2
       DEF StartStep, BootStep, ReadOnchainBalance, BootOpenOrders, BootPositions, BootBalance,
           BootLoops, SyncBalance, engineVars
<1>10. CASE UNCHANGED vars BY <1>k, <1>10 DEF vars
<1> QED BY <1>1, <1>2, <1>3, <1>4, <1>5, <1>6, <1>7, <1>8, <1>9, <1>10, StepKinds

-----------------------------------------------------------------------------
(* The channels, and what is known to have gone wrong.                     *)

\* What a full channel does not take is dropped.
LEMMA PublishType ==
    ASSUME ChannelType, harmed \subseteq Ids, NEW out \in Seq(Events), NEW refused \in SUBSET Ids,
           Publish(out, refused)
    PROVE  ChannelType' /\ harmed' \subseteq Ids
<1> DEFINE room == BusCap - Len(bus)
           m == IF Len(out) <= room THEN Len(out) ELSE room
           sent == SubSeq(out, 1, m)
<1>1. bus' = bus \o sent BY DEF Publish
<1>2. room \in Nat /\ m \in Nat /\ m <= Len(out) /\ m <= room /\ Len(bus) \in Nat
  BY OrderFlowAssumption DEF ChannelType
<1> HIDE DEF m
<1>3. sent \in Seq(Events) /\ Len(sent) = m
  <2>1. 1 \in 1 .. (Len(out) + 1) /\ m \in (1 - 1) .. Len(out) BY <1>2
  <2>2. \A i \in 1 .. m : i \in 1 .. Len(out) BY <1>2
  <2>3. sent \in Seq(Events) /\ Len(sent) = m - 1 + 1 BY <1>2, <2>1, SubSeqProperties
  <2> QED BY <1>2, <2>3
<1> HIDE DEF sent
<1>4. ChannelType' BY <1>1, <1>2, <1>3, OrderFlowAssumption DEF ChannelType
<1>5. harmed' \subseteq Ids BY DEF Publish
<1> QED BY <1>4, <1>5

\* A dry run answers at once, on paper.
Paper(o) == <<[size |-> Order[o].RequestedSize, price |-> Order[o].Price, st |-> "MINED"]>>

Booked(closed, paid) ==
    /\ exch' = [o \in Ids |-> IF o \in closed THEN "closed" ELSE exch[o]]
    /\ trades' = [o \in Ids |-> IF o \in paid THEN Paper(o) ELSE trades[o]]

\* The events it publishes: an Accepted and a Filled for every placement.
PaperEvent(o, k) ==
    IF k % 2 = 1 THEN Event("Accepted", o, o, 0, Order[o].Price)
    ELSE Event("Filled", o, o, Order[o].RequestedSize, Order[o].Price)
PaperEvents(placed) == [k \in 1 .. (2 * Len(placed)) |-> PaperEvent(placed[(k + 1) \div 2], k)]

\* A dry run publishes well-formed events and books new orders on paper.
LEMMA DryRunParts ==
    ASSUME Inv, NEW batch \in plan.batches, NEW out \in Seq(Range(batch)), ExecuteDryRun(out)
    PROVE  /\ ChannelType' /\ harmed' \subseteq Ids /\ queue' = queue
           /\ \E S \in SUBSET (Ids \ External) : Booked(S, S)
           /\ \E placed \in Seq(Ids \ External) :
                /\ Fresh(placed) /\ Booked(Range(placed), Range(placed))
                /\ PaperEvents(placed) \in Seq(Events) /\ Publish(PaperEvents(placed), {})
<1> DEFINE placed == OrdersOf(out, "PLACE")
           at(k) == placed[(k + 1) \div 2]
           ev(k) == PaperEvent(at(k), k)
           paper == PaperEvents(placed)
           T == {in.OrderID : in \in {x \in Range(batch) : x.Action = "PLACE"}}
<1>1. /\ Publish(paper, {}) /\ queue' = queue /\ Fresh(placed)
      /\ exch' = [o \in Ids |-> IF o \in Range(placed) THEN "closed" ELSE exch[o]]
      /\ trades' = [o \in Ids |-> IF o \notin Range(placed) THEN trades[o] ELSE Paper(o)]
  BY DEF ExecuteDryRun, Paper, PaperEvents, PaperEvent
<1>2. T \subseteq Ids \ External
  <2>1. batch \in Seq(Intents) /\ \A in \in Range(batch) : in.Action = "PLACE" => in.OrderID \notin External
    BY PlanParts DEF Inv, BootType
  <2>2. Range(batch) \subseteq Intents BY <2>1, RangeType
  <2> QED BY <2>1, <2>2, IntentParts
<1>3. placed \in Seq(T) BY OrdersOfType
<1>4. Range(placed) \subseteq T BY <1>3, RangeType
<1> HIDE DEF T, placed
<1>5. Len(placed) \in Nat BY <1>3
<1>6. ASSUME NEW k \in 1 .. (2 * Len(placed)) PROVE ev(k) \in Events
  <2>1. (k + 1) \div 2 \in 1 .. Len(placed) BY <1>5
  <2>2. at(k) \in Ids BY <1>2, <1>3, <2>1, ElementOfSeq
  <2> HIDE DEF at
  <2>3. /\ Order[at(k)].Price \in Nat /\ WithinLimit(at(k), Order[at(k)].Price)
        /\ Order[at(k)].RequestedSize \in Nat /\ 0 \in Nat
    BY <2>2, OrderParts
  <2>4. "Accepted" \in Statuses /\ "Filled" \in Statuses /\ at(k) \in {at(k), NoIntent}
    BY DEF Statuses
  <2>5. /\ Event("Accepted", at(k), at(k), 0, Order[at(k)].Price) \in Events
        /\ Event("Filled", at(k), at(k), Order[at(k)].RequestedSize, Order[at(k)].Price) \in Events
    BY <2>2, <2>3, <2>4, EventType
  <2> QED BY <2>5 DEF PaperEvent
<1>7. paper \in Seq(Events)
  <2>1. 2 * Len(placed) \in Nat BY <1>5
  <2>2. paper = [k \in 1 .. (2 * Len(placed)) |-> ev(k)] BY DEF PaperEvents
  <2> HIDE DEF ev, paper
  <2> QED BY <1>6, <2>1, <2>2, IsASeq
<1> HIDE DEF paper
<1>8. ChannelType' /\ harmed' \subseteq Ids BY <1>1, <1>7, PublishType DEF Inv
<1>9. Range(placed) \in SUBSET (Ids \ External) BY <1>2, <1>4
<1>10. Booked(Range(placed), Range(placed)) BY <1>1 DEF Booked
<1>11. placed \in Seq(Ids \ External) BY <1>2, <1>3, SubseqType
<1> QED BY <1>1, <1>7, <1>8, <1>9, <1>10, <1>11 DEF paper

\* A live executor queues the batch, or rejects it.
LEMMA LiveParts ==
    ASSUME Inv, NEW batch \in plan.batches, NEW out \in Seq(Range(batch)), ExecuteLive(out)
    PROVE  /\ ChannelType' /\ harmed' \subseteq Ids /\ UNCHANGED <<exch, trades>>
           /\ queue' \in Seq(Seq(Intents)) /\ Len(queue') <= QueueCap
           /\ \E told \in Seq(Events) : \E refused : Silent(told) /\ Publish(told, refused)
<1> DEFINE malformed == {in \in Range(out) : in.Action = "PLACE" /\ in.OrderID \in Malformed}
           validated == Among(out, Range(out) \ malformed)
           invalid   == Among(out, malformed)
           full      == validated # << >> /\ Len(queue) >= QueueCap
           refused   == IF full THEN Range(OrdersOf(validated, "CANCEL")) ELSE {}
           told      == rejectBatch(invalid) \o (IF full THEN rejectBatch(validated) ELSE << >>)
<1>1. /\ queue' = IF full \/ validated = << >> THEN queue ELSE Append(queue, validated)
      /\ Publish(told, refused) /\ UNCHANGED <<exch, trades>>
  BY DEF ExecuteLive
<1>2. out \in Seq(Intents)
  <2>1. batch \in Seq(Intents) BY PlanParts DEF Inv, BootType
  <2>2. Range(batch) \subseteq Intents BY <2>1, RangeType
  <2> QED BY <2>2, SubseqType
<1>3. validated \in Seq(Intents) /\ invalid \in Seq(Intents)
  <2>1. \A S : Among(out, S) \in Seq(Intents \cap S) BY <1>2, AmongType
  <2>2. \A S : Among(out, S) \in Seq(Intents) BY <2>1, SubseqType
  <2> HIDE DEF malformed
  <2> QED BY <2>2
<1> HIDE DEF validated, invalid
<1>4. refused \in SUBSET Ids
  <2>1. OrdersOf(validated, "CANCEL") \in
            Seq({in.OrderID : in \in {x \in Intents : x.Action = "CANCEL"}})
    BY <1>3, OrdersOfType
  <2>2. {in.OrderID : in \in {x \in Intents : x.Action = "CANCEL"}} \subseteq Ids BY IntentParts
  <2>3. Range(OrdersOf(validated, "CANCEL")) \subseteq Ids BY <2>1, <2>2, RangeType
  <2> QED BY <2>3
<1>5. told \in Seq(Events)
  <2>1. rejectBatch(invalid) \in Seq(Events) /\ rejectBatch(validated) \in Seq(Events)
        /\ << >> \in Seq(Events)
    BY <1>3, RejectBatchType
  <2> HIDE DEF full
  <2> QED BY <2>1
<1>9. Silent(told)
  <2>1. Silent(rejectBatch(invalid)) /\ Silent(rejectBatch(validated)) /\ Silent(<< >>)
    BY <1>3, RejectBatchType, SilentOne
  <2>2. rejectBatch(invalid) \in Seq(Events) /\ rejectBatch(validated) \in Seq(Events)
        /\ << >> \in Seq(Events)
    BY <1>3, RejectBatchType
  <2> HIDE DEF full
  <2> QED BY <2>1, <2>2, SilentConcat
<1> HIDE DEF told, refused
<1>6. ChannelType' /\ harmed' \subseteq Ids BY <1>1, <1>4, <1>5, PublishType DEF Inv
<1>7. queue \in Seq(Seq(Intents)) /\ Len(queue) <= QueueCap BY DEF Inv, ExecutorType
<1>8. queue' \in Seq(Seq(Intents)) /\ Len(queue') <= QueueCap
  <2>1. CASE queue' = queue BY <1>7, <2>1
  <2>2. CASE queue' # queue
    <3>1. queue' = Append(queue, validated) /\ ~ (Len(queue) >= QueueCap) BY <1>1, <2>2
    <3>2. queue' \in Seq(Seq(Intents)) /\ Len(queue') = Len(queue) + 1
      BY <1>3, <1>7, <3>1, AppendProperties
    <3> QED BY <1>7, <3>1, <3>2, OrderFlowAssumption
  <2> QED BY <2>1, <2>2
<1> QED BY <1>1, <1>5, <1>6, <1>8, <1>9

\* A cancel on the exchange.
LEMMA CancelParts ==
    ASSUME NEW orders \in Seq(Ids), CancelOnExchange(orders)
    PROVE  \E gone \in Seq({o \in Ids : exch[o] = "open"}) :
             /\ exch' = [o \in Ids |-> IF o \in Range(gone) THEN "closed" ELSE exch[o]]
             /\ Send([n \in DOMAIN gone |-> OrderMsg(gone[n], "CANCELED")])
<1> DEFINE S == {o \in Ids : exch[o] = "open"}
           gone == Among(orders, S)
<1>1. /\ exch' = [o \in Ids |-> IF o \in Range(gone) THEN "closed" ELSE exch[o]]
      /\ Send([n \in DOMAIN gone |-> OrderMsg(gone[n], "CANCELED")])
  BY DEF CancelOnExchange
<1>2. gone \in Seq(Ids \cap S) BY AmongType
<1>3. Ids \cap S \subseteq S OBVIOUS
<1> HIDE DEF gone, S
<1>4. gone \in Seq(S) BY <1>2, <1>3, SubseqType
<1> QED BY <1>1, <1>4 DEF S

\* The orders the worker cancels.
LEMMA CancelledOrders ==
    ASSUME NEW batch \in Seq(Intents)
    PROVE  OrdersOf(batch, "CANCEL") \in Seq(Ids)
<1>1. OrdersOf(batch, "CANCEL") \in Seq({in.OrderID : in \in {x \in Intents : x.Action = "CANCEL"}})
  BY OrdersOfType
<1>2. {in.OrderID : in \in {x \in Intents : x.Action = "CANCEL"}} \subseteq Ids BY IntentParts
<1> QED BY <1>1, <1>2, SubseqType

\* What the worker holds.
LEMMA WorkerParts ==
    ASSUME NEW w \in Workers
    PROVE  /\ w.batch \in Seq(Intents) /\ w.todo \in Seq(Events) /\ w.tracked \in BOOLEAN
           /\ w.legs = << >> \/ w.legs \in LegIds \X LegIds
           /\ w = [batch |-> w.batch, todo |-> w.todo, tracked |-> w.tracked, legs |-> w.legs]
BY DEF Workers

\* The orders harmed by a dropped event are orders.
LEMMA HarmedByEvent ==
    ASSUME harmed \subseteq Ids, NEW e \in Events, NEW rest, handleExecutionEvent(e, rest)
    PROVE  harmed' \subseteq Ids
<1>1. \/ harmed' = harmed
      \/ e.OrderID # NoOrder /\ (HandleAccepted(e, rest) \/ HandleFill(e, rest))
  BY DEF handleExecutionEvent, Ignore, bufferExecution, HandleRejectedIntent, HandleEnd
<1>2. ASSUME e.OrderID # NoOrder, HandleAccepted(e, rest) \/ HandleFill(e, rest)
      PROVE  harmed' \subseteq Ids
  <2>1. e.OrderID \in Ids BY <1>2, EventParts
  <2>2. harmed' = harmed \/ harmed' = harmed \cup {e.OrderID}
    BY <1>2 DEF HandleAccepted, HandleFill
  <2> QED BY <2>1, <2>2
<1> QED BY <1>1, <1>2

\* Every step keeps the bus within its capacity.
LEMMA StepChannel ==
    Inv /\ [Next]_vars => ChannelType' /\ harmed' \subseteq Ids /\ (asked \subseteq plan.batches)'
<1> SUFFICES ASSUME Inv, [Next]_vars
             PROVE  ChannelType' /\ harmed' \subseteq Ids /\ asked' \subseteq plan'.batches
  OBVIOUS
<1>0. /\ LoopType /\ ChannelType /\ harmed \subseteq Ids /\ asked \subseteq plan.batches
      /\ ExecutorType /\ ExchangeType
  BY DEF Inv
<1>k. ASSUME UNCHANGED <<bus, harmed, asked, plan>>
      PROVE  ChannelType' /\ harmed' \subseteq Ids /\ asked' \subseteq plan'.batches
  BY <1>0, <1>k DEF ChannelType
<1>1. CASE Submit
  <2>1. PICK batch \in plan.batches : submitIntents(batch) BY <1>1 DEF Submit
  <2>2. PICK out \in Seq(Range(batch)) : Execute(out) BY <2>1, SubmitCovers
  <2>3. ChannelType' /\ harmed' \subseteq Ids BY <2>2, DryRunParts, LiveParts DEF Execute
  <2>4. asked' = asked \cup {batch} /\ plan' = plan BY <2>1 DEF submitIntents, bootVars
  <2> QED BY <1>0, <2>3, <2>4
<1>2. CASE EngineStep
  <2>1. asked' = asked /\ plan' = plan BY <1>2, EngineFrame DEF bootVars
  <2>2. CASE Receive
    <3>1. bus # << >> /\ handleExecutionEvent(Head(bus), << >>) /\ bus' = Tail(bus)
      BY <2>2 DEF Receive
    <3>2. Head(bus) \in Events /\ bus' \in Seq(Events) /\ Len(bus') = Len(bus) - 1
      BY <1>0, <3>1 DEF ChannelType
    <3>3. ChannelType' BY <1>0, <3>2, OrderFlowAssumption DEF ChannelType
    <3>4. harmed' \subseteq Ids BY <1>0, <3>1, <3>2, HarmedByEvent
    <3> QED BY <1>0, <2>1, <3>3, <3>4
  <2>3. CASE Replay
    <3>1. loop.replay # << >> /\ handleExecutionEvent(Head(loop.replay), Tail(loop.replay))
          /\ bus' = bus
      BY <2>3 DEF Replay
    <3>2. Head(loop.replay) \in Events BY <1>0, <3>1 DEF LoopType
    <3>3. harmed' \subseteq Ids BY <1>0, <3>1, <3>2, HarmedByEvent
    <3> QED BY <1>0, <2>1, <3>1, <3>3 DEF ChannelType
  <2>4. CASE CloseFilled BY <1>k, <2>1, <2>4 DEF CloseFilled
  <2> QED BY <1>2, <2>2, <2>3, <2>4 DEF EngineStep
<1>3. CASE CleanStep
  <2>1. bus' = bus /\ asked' = asked /\ plan' = plan BY <1>3, CleanFrame DEF bootVars
  <2>2. harmed' \subseteq Ids
    BY <1>0, <1>3 DEF CleanStep, cleanupExpiredPending, cleanupExpiredFinalized,
                      cleanupExpiredProvisional, Tick
  <2> QED BY <1>0, <2>1, <2>2 DEF ChannelType
<1>4. CASE WorkerStep
  <2>1. asked' = asked /\ plan' = plan BY <1>4, WorkerFrame DEF bootVars
  <2>2. CASE UNCHANGED <<bus, harmed>> BY <1>k, <2>1, <2>2
  <2>3. CASE WorkerPublish
    <3>1. worker.todo # << >> /\ Publish(<<Head(worker.todo)>>, {}) BY <2>3 DEF WorkerPublish
    <3>2. worker.todo \in Seq(Events) BY <1>0, WorkerParts DEF ExecutorType
    <3> DEFINE out == <<Head(worker.todo)>>
    <3>3. out \in Seq(Events) /\ Publish(out, {}) BY <3>1, <3>2
    <3> HIDE DEF out
    <3>4. ChannelType' /\ harmed' \subseteq Ids BY <1>0, <3>3, PublishType
    <3> QED BY <1>0, <2>1, <3>4
  <2>4. UNCHANGED <<bus, harmed>> \/ WorkerPublish
    BY <1>4 DEF WorkerStep, WorkerTake, WorkerPost, WorkerLegs, WorkerRelay, WorkerTrack,
                WorkerCancel
  <2> QED BY <2>2, <2>3, <2>4
<1>5. CASE SocketStep
  <2>1. asked' = asked /\ plan' = plan BY <1>5, SocketFrame DEF bootVars
  <2>2. CASE UNCHANGED <<bus, harmed>> BY <1>k, <2>1, <2>2
  <2>3. CASE WSPublish
    <3>1. wsOut \in Seq(Events) /\ Publish(wsOut, {}) BY <1>0, <2>3 DEF WSPublish, ExecutorType
    <3> QED BY <1>0, <2>1, <3>1, PublishType
  <2>4. ASSUME NEW n, Deliver(n) PROVE ChannelType' /\ harmed' \subseteq Ids
    <3>1. bus' = bus /\ n \in DOMAIN ws BY <2>4 DEF Deliver
    <3>2. ws[n].order \in Ids BY <1>0, <3>1 DEF ExchangeType, Messages
    <3>3. harmed' = harmed \/ harmed' = harmed \cup {ws[n].order} BY <2>4 DEF Deliver
    <3> QED BY <1>0, <3>1, <3>2, <3>3 DEF ChannelType
  <2>5. \/ UNCHANGED <<bus, harmed>> \/ WSPublish
        \/ ChannelType' /\ harmed' \subseteq Ids
    BY <1>5, <2>4 DEF SocketStep
  <2> QED BY <1>0, <2>1, <2>2, <2>3, <2>5
<1>6. CASE ExchangeStep
  <2>1. asked' = asked /\ plan' = plan /\ bus' = bus BY <1>6, ExchangeFrame DEF bootVars
  <2>2. CASE UNCHANGED harmed BY <1>k, <2>1, <2>2
  <2>3. ASSUME NEW o \in Ids, NEW n, NEW outcome, Settle(o, n, outcome) PROVE harmed' \subseteq Ids
    BY <1>0, <2>3 DEF Settle
  <2>4. \/ UNCHANGED harmed
        \/ \E o \in Ids : \E n \in DOMAIN trades[o] : \E outcome \in {"MINED", "FAILED"} :
                Settle(o, n, outcome)
    BY <1>6 DEF ExchangeStep, OpenByHand, CancelByExchange, Match, Redeliver
  <2>5. harmed' \subseteq Ids BY <1>0, <2>3, <2>4
  <2> QED BY <1>0, <2>1, <2>5 DEF ChannelType
<1>7. CASE ReconStep BY <1>k, <1>7, ReconFrame DEF bootVars
<1>8. CASE Crash
  <2>1. bus' = << >> /\ asked' = asked /\ plan' = plan BY <1>8 DEF Crash
  <2>2. harmed' \subseteq Ids BY <1>0, <1>8 DEF Crash
  <2>3. << >> \in Seq(Events) /\ Len(<< >>) = 0 /\ 0 <= BusCap BY OrderFlowAssumption
  <2>4. ChannelType' BY <2>1, <2>3 DEF ChannelType
  <2> QED BY <1>0, <2>1, <2>2, <2>4
<1>9. CASE StartStep BY <1>k, <1>9, StartFrame
<1>10. CASE UNCHANGED vars BY <1>k, <1>10 DEF vars, bootVars
<1> QED BY <1>1, <1>2, <1>3, <1>4, <1>5, <1>6, <1>7, <1>8, <1>9, <1>10, StepKinds

-----------------------------------------------------------------------------
(* What the executor remembers of an order.                                *)

\* A tracked order never has a price beyond the order's limit; neither has an
\* event that a message is answered with.
TrackedOf(t, o) == t \in TrackedOrders /\ WithinLimit(o, t.Price)
AnswerOf(r, o) == TrackedOf(r.t, o) /\ r.out \in Seq(Events)

\* The fields of a tracked order.
LEMMA TrackedParts ==
    ASSUME NEW t \in TrackedOrders
    PROVE  /\ t.Price \in Nat /\ t.RequestedSize \in Nat /\ t.FilledSize \in Nat
           /\ t.Accepted \in BOOLEAN /\ t.Finalized \in BOOLEAN
           /\ t.SeenTradeIDs \in SUBSET Nat
           /\ t = [Price |-> t.Price, RequestedSize |-> t.RequestedSize,
                   FilledSize |-> t.FilledSize, Accepted |-> t.Accepted,
                   Finalized |-> t.Finalized, SeenTradeIDs |-> t.SeenTradeIDs]
BY DEF TrackedOrders

\* A tracked order is found or new.
LEMMA GetOrCreateType ==
    ASSUME ExecutorType, NEW o \in Ids
    PROVE  TrackedOf(getOrCreateTracked(tracked, o), o)
<1>1. CASE o \in DOMAIN tracked
  BY <1>1 DEF getOrCreateTracked, ExecutorType, IsMap, TrackedOf
<1>2. CASE o \notin DOMAIN tracked
  <2>1. NewTracked \in TrackedOrders /\ NewTracked.Price = 0 BY DEF NewTracked, TrackedOrders
  <2>2. WithinLimit(o, 0) BY OrderParts
  <2> QED BY <1>2, <2>1, <2>2 DEF getOrCreateTracked, TrackedOf
<1> QED BY <1>1, <1>2

\* trackPostedOrder keeps a tracked order well formed.
LEMMA TrackPostedType ==
    ASSUME NEW o \in Ids, NEW t, TrackedOf(t, o)
    PROVE  TrackedOf(trackPostedOrder(t, Order[o]), o)
<1>1. Order[o].Price \in Nat /\ Order[o].RequestedSize \in Nat /\ WithinLimit(o, Order[o].Price)
  BY OrderParts
<1>2. trackPostedOrder(t, Order[o]) \in TrackedOrders
      /\ trackPostedOrder(t, Order[o]).Price = Order[o].Price
  BY <1>1 DEF trackPostedOrder, TrackedOf, TrackedOrders
<1> QED BY <1>1, <1>2 DEF TrackedOf

\* A sequence of one event about an order.
LEMMA OneEvent ==
    ASSUME NEW st \in Statuses, NEW o \in Ids, NEW i \in {o, NoIntent}, NEW size \in Nat,
           NEW price \in Nat, WithinLimit(o, price)
    PROVE  <<Event(st, o, i, size, price)>> \in Seq(Events)
<1>1. Event(st, o, i, size, price) \in Events BY EventType
<1> QED BY <1>1

\* onOrderEvent keeps a tracked order well formed, and answers with events.
LEMMA OnOrderType ==
    ASSUME NEW o \in Ids, NEW t, TrackedOf(t, o), NEW status
    PROVE  AnswerOf(onOrderEvent(t, o, status, Order[o]), o)
<1> DEFINE seen == [t EXCEPT !.Price = Order[o].Price, !.RequestedSize = Order[o].RequestedSize]
<1>1. Order[o].Price \in Nat /\ Order[o].RequestedSize \in Nat /\ WithinLimit(o, Order[o].Price)
      /\ WithinLimit(o, 0) /\ 0 \in Nat /\ NoIntent \in {o, NoIntent}
  BY OrderParts
<1>2. seen \in TrackedOrders /\ seen.Price = Order[o].Price BY <1>1 DEF TrackedOf, TrackedOrders
<1>3. [seen EXCEPT !.Accepted = TRUE] \in TrackedOrders
      /\ [seen EXCEPT !.Accepted = TRUE].Price = Order[o].Price
      /\ [seen EXCEPT !.Finalized = TRUE] \in TrackedOrders
      /\ [seen EXCEPT !.Finalized = TRUE].Price = Order[o].Price
  <2> HIDE DEF seen
  <2> QED BY <1>2 DEF TrackedOrders
<1>4. <<Event("Accepted", o, NoIntent, 0, 0)>> \in Seq(Events)
      /\ <<Event("Cancelled", o, NoIntent, 0, 0)>> \in Seq(Events)
  <2>1. "Accepted" \in Statuses /\ "Cancelled" \in Statuses BY DEF Statuses
  <2> QED BY <1>1, <2>1, OneEvent
<1>5. << >> \in Seq(Events) OBVIOUS
<1>6. onOrderEvent(t, o, status, Order[o]) \in
        {Tracked([seen EXCEPT !.Accepted = TRUE], <<Event("Accepted", o, NoIntent, 0, 0)>>),
         Tracked([seen EXCEPT !.Finalized = TRUE], <<Event("Cancelled", o, NoIntent, 0, 0)>>),
         Tracked(seen, << >>)}
  BY DEF onOrderEvent
<1>7. \A x, out : TrackedOf(x, o) /\ out \in Seq(Events) => AnswerOf(Tracked(x, out), o)
  BY DEF AnswerOf, Tracked
<1> HIDE DEF seen
<1>8. TrackedOf([seen EXCEPT !.Accepted = TRUE], o) /\ TrackedOf([seen EXCEPT !.Finalized = TRUE], o)
      /\ TrackedOf(seen, o)
  BY <1>1, <1>2, <1>3 DEF TrackedOf
<1> QED BY <1>4, <1>5, <1>6, <1>7, <1>8

\* buildFillEventsFromDelta answers with fills within the limit.
LEMMA BuildFillType ==
    ASSUME NEW o \in Ids, NEW t, TrackedOf(t, o), NEW delta \in Nat
    PROVE  AnswerOf(buildFillEventsFromDelta(t, o, delta), o)
<1> DEFINE cumulative == t.FilledSize + delta
           full == t.RequestedSize > 0 /\ cumulative >= t.RequestedSize
           status == IF full THEN "Filled" ELSE "PartiallyFilled"
           x == [t EXCEPT !.FilledSize = cumulative, !.Finalized = full \/ t.Finalized]
<1>1. /\ t \in TrackedOrders /\ t.Price \in Nat /\ WithinLimit(o, t.Price)
      /\ cumulative \in Nat /\ t.RequestedSize \in Nat /\ t.Finalized \in BOOLEAN
  BY TrackedParts DEF TrackedOf
<1>2. status \in Statuses /\ NoIntent \in {o, NoIntent} BY DEF Statuses
<1>3. (full \/ t.Finalized) \in BOOLEAN BY <1>1
<1>4. x \in TrackedOrders /\ x.Price = t.Price
  <2> HIDE DEF cumulative, full
  <2> QED BY <1>1, <1>3 DEF TrackedOrders
<1>5. buildFillEventsFromDelta(t, o, delta) \in
        {Tracked(t, << >>), Tracked(x, <<Event(status, o, NoIntent, delta, t.Price)>>)}
  BY DEF buildFillEventsFromDelta
<1> HIDE DEF status, x
<1>6. <<Event(status, o, NoIntent, delta, t.Price)>> \in Seq(Events) BY <1>1, <1>2, OneEvent
<1>7. TrackedOf(x, o) BY <1>1, <1>4 DEF TrackedOf
<1>8. \A y, out : TrackedOf(y, o) /\ out \in Seq(Events) => AnswerOf(Tracked(y, out), o)
  BY DEF AnswerOf, Tracked
<1>9. << >> \in Seq(Events) OBVIOUS
<1> QED BY <1>5, <1>6, <1>7, <1>8, <1>9

\* onTradeEvent keeps a tracked order well formed, and answers with events.
LEMMA OnTradeType ==
    ASSUME NEW o \in Ids, NEW t, TrackedOf(t, o), NEW status, NEW id \in Nat, NEW size \in Nat,
           NEW price \in Nat, WithinLimit(o, price)
    PROVE  AnswerOf(onTradeEvent(t, o, status, id, size, price), o)
<1> DEFINE p == IF price > 0 THEN price ELSE t.Price
           priced == [t EXCEPT !.Price = p]
           seen == [priced EXCEPT !.SeenTradeIDs = priced.SeenTradeIDs \cup {id}]
           ended == [priced EXCEPT !.Finalized = TRUE]
<1>1. t \in TrackedOrders /\ p \in Nat /\ WithinLimit(o, p) BY TrackedParts DEF TrackedOf
<1> HIDE DEF p
<1>2. priced \in TrackedOrders /\ priced.Price = p BY <1>1 DEF TrackedOrders
<1>3. onTradeEvent(t, o, status, id, size, price) \in
        {Tracked(t, << >>), Tracked(priced, << >>), buildFillEventsFromDelta(seen, o, size),
         Tracked(ended, <<Event("Rejected", o, NoIntent, 0, 0)>>)}
  BY DEF onTradeEvent, p
<1> HIDE DEF priced
<1>4. priced.SeenTradeIDs \cup {id} \in SUBSET Nat BY <1>2, TrackedParts
<1>5. seen \in TrackedOrders /\ seen.Price = p BY <1>2, <1>4 DEF TrackedOrders
<1>6. ended \in TrackedOrders /\ ended.Price = p BY <1>2 DEF TrackedOrders
<1> HIDE DEF seen, ended
<1>7. TrackedOf(priced, o) /\ TrackedOf(seen, o) /\ TrackedOf(ended, o)
  BY <1>1, <1>2, <1>5, <1>6 DEF TrackedOf
<1>8. <<Event("Rejected", o, NoIntent, 0, 0)>> \in Seq(Events)
  <2>1. "Rejected" \in Statuses /\ 0 \in Nat /\ WithinLimit(o, 0) /\ NoIntent \in {o, NoIntent}
    BY OrderParts DEF Statuses
  <2> QED BY <2>1, OneEvent
<1>9. \A y, out : TrackedOf(y, o) /\ out \in Seq(Events) => AnswerOf(Tracked(y, out), o)
  BY DEF AnswerOf, Tracked
<1>10. AnswerOf(buildFillEventsFromDelta(seen, o, size), o) BY <1>7, BuildFillType
<1>11. << >> \in Seq(Events) OBVIOUS
<1> QED BY <1>3, <1>7, <1>8, <1>9, <1>10, <1>11

\* One order's entry is replaced.
LEMMA TrackedPut ==
    ASSUME ExecutorType, NEW o \in Ids, NEW t, TrackedOf(t, o), NEW r, r = Put(tracked, o, t)
    PROVE  /\ IsMap(r, Ids, TrackedOrders)
           /\ \A x \in DOMAIN r : WithinLimit(x, r[x].Price)
<1>1. IsMap(r, Ids, TrackedOrders) BY PutMap DEF ExecutorType, TrackedOf
<1>2. DOMAIN r = DOMAIN tracked \cup {o}
      /\ \A x \in DOMAIN r : r[x] = IF x = o THEN t ELSE tracked[x]
  BY DEF Put
<1> QED BY <1>1, <1>2 DEF ExecutorType, TrackedOf

\* A message of the exchange.
LEMMA MessageParts ==
    ASSUME ExchangeType, NEW n \in DOMAIN ws
    PROVE  /\ ws[n] \in Messages /\ ws[n].order \in Ids
           /\ ws[n].kind \in {"order", "trade"}
           /\ ws[n].kind = "trade" => /\ ws[n].id \in Nat
                                      /\ ws[n].id \in DOMAIN trades[ws[n].order]
<1>1. ws \in Seq(Messages) BY DEF ExchangeType
<1>2. ws[n] \in Messages BY <1>1
<1>3. /\ ws[n].order \in Ids /\ ws[n].kind \in {"order", "trade"}
      /\ ws[n].kind = "trade" => ws[n].id \in Nat
  BY <1>2 DEF Messages
<1> QED BY <1>2, <1>3 DEF ExchangeType

\* A trade of an order.
LEMMA TradeParts ==
    ASSUME ExchangeType, NEW o \in Ids, NEW n \in DOMAIN trades[o]
    PROVE  /\ trades[o][n] \in Trades
           /\ trades[o][n].size \in Nat \ {0} /\ trades[o][n].size \in Nat
           /\ trades[o][n].price \in Nat
           /\ WithinLimit(o, trades[o][n].price)
<1>1. trades[o] \in Seq(Trades) BY DEF ExchangeType
<1>2. trades[o][n] \in Trades BY <1>1
<1> QED BY <1>2, OneAssumption DEF ExchangeType, Trades, Prices

-----------------------------------------------------------------------------
(* The worker and the WebSocket consumer.                                  *)

\* The worker goes on with the rest of its batch.
LEMMA RestType ==
    ASSUME ExecutorType, NEW action
    PROVE  Rest(action) \in Seq(Intents)
<1>1. worker.batch \in Seq(Intents) BY WorkerParts DEF ExecutorType
<1>2. Doing(worker.batch, Actions \ {action})
        \in Seq({in \in Intents : in.Action \in Actions \ {action}})
  BY <1>1, DoingType
<1> QED BY <1>2, SubseqType DEF Rest

\* What a step of the worker makes of it.
WorkerIs(b, todo, tr, legs) ==
    worker' = [batch |-> b, todo |-> todo, tracked |-> tr, legs |-> legs]

\* The fields of the worker.
LEMMA WorkerFields ==
    ASSUME ExecutorType
    PROVE  /\ \A b, todo, tr, legs :
                 worker' = [worker EXCEPT !.batch = b, !.todo = todo, !.tracked = tr,
                                          !.legs = legs]
                    => WorkerIs(b, todo, tr, legs)
           /\ worker = [batch |-> worker.batch, todo |-> worker.todo,
                        tracked |-> worker.tracked, legs |-> worker.legs]
<1>1. worker = [batch |-> worker.batch, todo |-> worker.todo,
                tracked |-> worker.tracked, legs |-> worker.legs]
  BY WorkerParts DEF ExecutorType
<1> QED BY <1>1 DEF WorkerIs

\* A worker built from well-formed parts is well formed.
LEMMA WorkerIsType ==
    ASSUME NEW b \in Seq(Intents), NEW todo \in Seq(Events), NEW tr \in BOOLEAN,
           NEW legs, legs = << >> \/ legs \in LegIds \X LegIds, WorkerIs(b, todo, tr, legs)
    PROVE  worker' \in Workers
BY DEF WorkerIs, Workers

\* A batch is taken from the queue.
LEMMA TakeType ==
    ASSUME ExecutorType, WorkerTake
    PROVE  /\ queue # << >> /\ queue' = Tail(queue) /\ tracked' = tracked
           /\ worker' \in Workers
<1> DEFINE pick(action) == Doing(Head(queue), {action})
           b == pick("PLACE") \o pick("CANCEL") \o pick("SPLIT") \o pick("MERGE")
<1>1. queue # << >> /\ queue' = Tail(queue) /\ tracked' = tracked
      /\ worker' = [Idle EXCEPT !.batch = b]
  BY DEF WorkerTake
<1>2. Head(queue) \in Seq(Intents) BY <1>1 DEF ExecutorType
<1>3. \A action : pick(action) \in Seq(Intents)
  <2>1. \A action : pick(action) \in Seq({in \in Intents : in.Action \in {action}})
    BY <1>2, DoingType
  <2> HIDE DEF pick
  <2> QED BY <2>1, SubseqType
<1>4. b \in Seq(Intents)
  <2> HIDE DEF pick
  <2> QED BY <1>3
<1> HIDE DEF b
<1>5. WorkerIs(b, << >>, FALSE, << >>) BY <1>1 DEF WorkerIs, Idle
<1>6. << >> \in Seq(Events) OBVIOUS
<1>7. worker' \in Workers BY <1>4, <1>5, <1>6, WorkerIsType
<1> QED BY <1>1, <1>7

\* The batch's placements are posted.
LEMMA PostType ==
    ASSUME ExecutorType, WorkerPost
    PROVE  worker' \in Workers
<1> DEFINE placed == OrdersOf(worker.batch, "PLACE")
           T == {in.OrderID : in \in {x \in Intents : x.Action = "PLACE"}}
<1>0. worker.tracked \in BOOLEAN /\ (worker.legs = << >> \/ worker.legs \in LegIds \X LegIds)
      /\ worker.batch \in Seq(Intents)
  BY WorkerParts DEF ExecutorType
<1>1. PICK told \in SUBSET Range(placed) :
        worker' = [worker EXCEPT
                    !.batch = Rest("PLACE"),
                    !.todo  = [n \in DOMAIN placed |->
                                  IF placed[n] \in told
                                  THEN publishAcceptedFromPost(placed[n], placed[n])
                                  ELSE RejectedIntent(placed[n])]]
  BY DEF WorkerPost
<1> DEFINE ev(n) == IF placed[n] \in told THEN publishAcceptedFromPost(placed[n], placed[n])
                    ELSE RejectedIntent(placed[n])
           todo == [n \in DOMAIN placed |-> ev(n)]
<1>2. placed \in Seq(T) /\ T \subseteq Ids BY <1>0, OrdersOfType, IntentParts
<1> HIDE DEF placed, T
<1>3. DOMAIN placed = 1 .. Len(placed) /\ Len(placed) \in Nat BY <1>2
<1>4. ASSUME NEW n \in 1 .. Len(placed) PROVE ev(n) \in Events
  <2>1. placed[n] \in Ids BY <1>2
  <2>2. "Accepted" \in Statuses /\ 0 \in Nat /\ WithinLimit(placed[n], 0)
    BY <2>1, OrderParts DEF Statuses
  <2>3. Event("Accepted", placed[n], placed[n], 0, 0) \in Events BY <2>1, <2>2, EventType
  <2>4. RejectedIntent(placed[n]) \in Events BY <2>1, RejectedIntentType
  <2> QED BY <2>3, <2>4 DEF publishAcceptedFromPost
<1>5. todo \in Seq(Events)
  <2> HIDE DEF ev
  <2>1. [n \in 1 .. Len(placed) |-> ev(n)] \in Seq(Events) BY <1>3, <1>4, IsASeq
  <2> QED BY <1>3, <2>1
<1>6. WorkerIs(Rest("PLACE"), todo, worker.tracked, worker.legs)
  <2> HIDE DEF ev
  <2>1. worker' = [worker EXCEPT !.batch = Rest("PLACE"), !.todo = todo] BY <1>1 DEF ev
  <2> HIDE DEF todo
  <2> QED BY <2>1, WorkerFields DEF WorkerIs
<1> HIDE DEF todo
<1> QED BY <1>0, <1>5, <1>6, RestType, WorkerIsType

\* Its cancels.
LEMMA CancelType ==
    ASSUME ExecutorType, WorkerCancel
    PROVE  worker' \in Workers
<1> DEFINE orders == OrdersOf(worker.batch, "CANCEL")
           told == [n \in DOMAIN orders |-> RejectedIntent(NoIntent)]
<1>0. worker.tracked \in BOOLEAN /\ (worker.legs = << >> \/ worker.legs \in LegIds \X LegIds)
      /\ worker.batch \in Seq(Intents) /\ worker.todo \in Seq(Events)
  BY WorkerParts DEF ExecutorType
<1>1. \/ worker' = [worker EXCEPT !.batch = Rest("CANCEL")]
      \/ worker' = [worker EXCEPT !.batch = Rest("CANCEL"), !.todo = told]
  BY DEF WorkerCancel
<1>2. orders \in Seq(Ids) BY <1>0, CancelledOrders
<1> HIDE DEF orders
<1>3. told \in Seq(Events)
  <2>1. RejectedIntent(NoIntent) \in Events BY RejectedIntentType
  <2>2. [n \in 1 .. Len(orders) |-> RejectedIntent(NoIntent)] \in Seq(Events)
    BY <1>2, <2>1, IsASeq
  <2>3. DOMAIN orders = 1 .. Len(orders) BY <1>2
  <2> QED BY <2>2, <2>3
<1> HIDE DEF told
<1>4. \/ WorkerIs(Rest("CANCEL"), worker.todo, worker.tracked, worker.legs)
      \/ WorkerIs(Rest("CANCEL"), told, worker.tracked, worker.legs)
  BY <1>1, WorkerFields DEF WorkerIs
<1> QED BY <1>0, <1>3, <1>4, RestType, WorkerIsType

\* A pair of events, one per leg.
LEMMA PairType ==
    ASSUME NEW f, \A n \in 1 .. 2 : f[n] \in Events
    PROVE  [n \in 1 .. 2 |-> f[n]] \in Seq(Events)
BY IsASeq

\* A SPLIT or MERGE is booked.
LEMMA LegsType ==
    ASSUME ExecutorType, WorkerLegs
    PROVE  worker' \in Workers
<1> DEFINE legs == Legs[Head(worker.batch).OrderID]
           todo == [n \in 1 .. 2 |-> publishAcceptedFromPost(NoIntent, legs[n])]
<1>0. worker.tracked \in BOOLEAN /\ worker.batch \in Seq(Intents)
  BY WorkerParts DEF ExecutorType
<1>1. /\ worker.batch # << >> /\ Head(worker.batch).Action \in {"SPLIT", "MERGE"}
      /\ worker' = [worker EXCEPT !.batch = Tail(worker.batch), !.todo = todo, !.legs = legs]
  BY DEF WorkerLegs, WorkerAt
<1>2. Head(worker.batch) \in Intents /\ Tail(worker.batch) \in Seq(Intents) BY <1>0, <1>1
<1>3. legs \in LegIds \X LegIds BY <1>1, <1>2, IntentParts, LegParts
<1> HIDE DEF legs
<1>4. ASSUME NEW n \in 1 .. 2 PROVE todo[n] \in Events
  <2>1. legs[n] \in Ids
    <3>1. legs[1] \in LegIds /\ legs[2] \in LegIds /\ n \in {1, 2} BY <1>3
    <3> QED BY <3>1, LegParts
  <2>2. "Accepted" \in Statuses /\ 0 \in Nat /\ WithinLimit(legs[n], 0)
        /\ NoIntent \in {legs[n], NoIntent}
    BY <2>1, OrderParts DEF Statuses
  <2>3. Event("Accepted", legs[n], NoIntent, 0, 0) \in Events BY <2>1, <2>2, EventType
  <2> QED BY <2>3 DEF publishAcceptedFromPost
<1>5. todo \in Seq(Events)
  <2>1. todo = [n \in 1 .. 2 |-> todo[n]] OBVIOUS
  <2> HIDE DEF todo
  <2> QED BY <1>4, <2>1, PairType
<1> HIDE DEF todo
<1>6. WorkerIs(Tail(worker.batch), todo, worker.tracked, legs)
  BY <1>1, WorkerFields DEF WorkerIs
<1> QED BY <1>0, <1>2, <1>3, <1>5, <1>6, WorkerIsType

\* The relayer's answer.
LEMMA RelayType ==
    ASSUME ExecutorType, NEW ok \in BOOLEAN, WorkerRelay(ok)
    PROVE  /\ worker' \in Workers
           /\ \E S, paid \in SUBSET LegIds :
                /\ worker.legs # << >> /\ S = {worker.legs[1], worker.legs[2]}
                /\ paid \subseteq S /\ Booked(S, paid)
<1> DEFINE legs == worker.legs
           ev(n) == IF ok THEN Event("Filled", legs[n], NoIntent, Order[legs[n]].RequestedSize,
                                     Order[legs[n]].Price)
                    ELSE Event("Rejected", legs[n], NoIntent, 0, 0)
           todo == [n \in 1 .. 2 |-> ev(n)]
<1>0. /\ worker.tracked \in BOOLEAN /\ worker.batch \in Seq(Intents)
      /\ (worker.legs = << >> \/ worker.legs \in LegIds \X LegIds)
  BY WorkerParts DEF ExecutorType
<1>1. /\ legs # << >>
      /\ exch' = [o \in Ids |-> IF o \in Range(legs) THEN "closed" ELSE exch[o]]
      /\ trades' = [o \in Ids |-> IF ok /\ o \in Range(legs) THEN Paper(o) ELSE trades[o]]
      /\ worker' = [worker EXCEPT !.legs = << >>, !.todo = todo]
  BY DEF WorkerRelay, Paper
<1>2. legs \in LegIds \X LegIds BY <1>0, <1>1
<1>3. legs[1] \in LegIds /\ legs[2] \in LegIds /\ Range(legs) = {legs[1], legs[2]}
  BY <1>2 DEF Range
<1>4. ASSUME NEW n \in 1 .. 2 PROVE todo[n] \in Events
  <2>1. legs[n] \in Ids
    <3>1. n \in {1, 2} OBVIOUS
    <3> QED BY <1>3, <3>1, LegParts
  <2>2. /\ "Filled" \in Statuses /\ "Rejected" \in Statuses /\ 0 \in Nat
        /\ NoIntent \in {legs[n], NoIntent}
        /\ WithinLimit(legs[n], 0) /\ WithinLimit(legs[n], Order[legs[n]].Price)
        /\ Order[legs[n]].Price \in Nat /\ Order[legs[n]].RequestedSize \in Nat
    BY <2>1, OrderParts DEF Statuses
  <2> HIDE DEF legs
  <2>3. /\ Event("Filled", legs[n], NoIntent, Order[legs[n]].RequestedSize, Order[legs[n]].Price)
                \in Events
        /\ Event("Rejected", legs[n], NoIntent, 0, 0) \in Events
    BY <2>1, <2>2, EventType
  <2> QED BY <2>3
<1>5. todo \in Seq(Events)
  <2>1. todo = [n \in 1 .. 2 |-> todo[n]] OBVIOUS
  <2> HIDE DEF todo
  <2> QED BY <1>4, <2>1, PairType
<1> HIDE DEF todo
<1>6. WorkerIs(worker.batch, todo, worker.tracked, << >>)
  BY <1>1, WorkerFields DEF WorkerIs
<1>7. worker' \in Workers BY <1>0, <1>5, <1>6, WorkerIsType
<1> DEFINE S == {legs[1], legs[2]}
           paid == IF ok THEN S ELSE {}
<1>8. S \in SUBSET LegIds /\ paid \in SUBSET LegIds /\ paid \subseteq S BY <1>3
<1>9. Booked(S, paid) BY <1>1, <1>3 DEF Booked
<1> QED BY <1>1, <1>7, <1>8, <1>9

\* An Accepted is tracked before it is published.
LEMMA TrackType ==
    ASSUME ExecutorType, WorkerTrack
    PROVE  /\ IsMap(tracked', Ids, TrackedOrders)
           /\ \A x \in DOMAIN tracked' : WithinLimit(x, tracked'[x].Price)
           /\ worker' \in Workers
<1> DEFINE e == Head(worker.todo)
           o == e.OrderID
           t == trackPostedOrder(getOrCreateTracked(tracked, o), Order[o])
<1>1. /\ worker.todo # << >> /\ e.Status = "Accepted"
      /\ tracked' = Put(tracked, o, t) /\ worker' = [worker EXCEPT !.tracked = TRUE]
  BY DEF WorkerTrack
<1>2. worker.todo \in Seq(Events) /\ worker.batch \in Seq(Intents)
      /\ (worker.legs = << >> \/ worker.legs \in LegIds \X LegIds)
  BY WorkerParts DEF ExecutorType
<1>3. e \in Events BY <1>1, <1>2
<1> HIDE DEF e
<1>4. o \in Ids BY <1>1, <1>3, EventParts
<1> HIDE DEF o
<1>5. TrackedOf(t, o) BY <1>4, GetOrCreateType, TrackPostedType
<1> HIDE DEF t
<1>6. WorkerIs(worker.batch, worker.todo, TRUE, worker.legs)
  BY <1>1, WorkerFields DEF WorkerIs
<1>7. worker' \in Workers BY <1>2, <1>6, WorkerIsType
<1> QED BY <1>1, <1>4, <1>5, <1>7, TrackedPut

\* A message of the exchange is handled.
LEMMA DeliverType ==
    ASSUME ExecutorType, ExchangeType, NEW n \in DOMAIN ws, Deliver(n)
    PROVE  /\ IsMap(tracked', Ids, TrackedOrders)
           /\ \A x \in DOMAIN tracked' : WithinLimit(x, tracked'[x].Price)
           /\ wsOut' \in Seq(Events)
<1> DEFINE m == ws[n]
           o == m.order
           t == getOrCreateTracked(tracked, o)
           s == trades[o][m.id].size
           p == trades[o][m.id].price
           r == IF m.kind = "order" THEN onOrderEvent(t, o, m.status, Order[o])
                ELSE onTradeEvent(t, o, m.status, m.id, s, p)
<1>1. tracked' = Put(tracked, o, r.t) /\ wsOut' = r.out BY DEF Deliver
<1>2. /\ o \in Ids /\ m.kind \in {"order", "trade"}
      /\ m.kind = "trade" => m.id \in Nat /\ m.id \in DOMAIN trades[o]
  BY MessageParts
<1>3. m.kind = "trade" => s \in Nat /\ p \in Nat /\ WithinLimit(o, p) BY <1>2, TradeParts
<1> HIDE DEF m, o, s, p
<1>4. TrackedOf(t, o) BY <1>2, GetOrCreateType
<1> HIDE DEF t
<1>5. AnswerOf(r, o)
  <2>1. CASE m.kind = "order" BY <1>2, <1>4, <2>1, OnOrderType
  <2>2. CASE m.kind = "trade" BY <1>2, <1>3, <1>4, <2>2, OnTradeType
  <2> QED BY <1>2, <2>1, <2>2
<1> HIDE DEF r
<1>6. TrackedOf(r.t, o) /\ r.out \in Seq(Events) BY <1>5 DEF AnswerOf
<1> QED BY <1>1, <1>2, <1>6, TrackedPut

\* Every step keeps the executor well formed.
LEMMA StepExecutor == Inv /\ [Next]_vars => ExecutorType'
<1> SUFFICES ASSUME Inv, [Next]_vars PROVE ExecutorType'
  OBVIOUS
<1>0. ExecutorType /\ ExchangeType /\ BootType BY DEF Inv
<1>k. ASSUME UNCHANGED executorVars PROVE ExecutorType'
  BY <1>0, <1>k DEF executorVars, ExecutorType
<1>1. CASE Submit
  <2>1. PICK batch \in plan.batches : submitIntents(batch) BY <1>1 DEF Submit
  <2>2. PICK out \in Seq(Range(batch)) : Execute(out) BY <2>1, SubmitCovers
  <2>3. queue' = queue \/ (queue' \in Seq(Seq(Intents)) /\ Len(queue') <= QueueCap)
    BY <2>2, DryRunParts, LiveParts DEF Execute
  <2>4. UNCHANGED <<tracked, worker, wsOut>> BY <1>1, SubmitFrame
  <2> QED BY <1>0, <2>3, <2>4 DEF ExecutorType
<1>2. CASE EngineStep BY <1>2, <1>k, EngineFrame
<1>3. CASE CleanStep BY <1>3, <1>k, CleanFrame
<1>4. CASE WorkerStep
  <2>0. wsOut' = wsOut BY <1>4, WorkerFrame
  <2>1. CASE WorkerTake
    <3>1. queue # << >> /\ queue' = Tail(queue) /\ tracked' = tracked /\ worker' \in Workers
      BY <1>0, <2>1, TakeType
    <3>2. queue' \in Seq(Seq(Intents)) /\ Len(queue') = Len(queue) - 1 /\ Len(queue) \in Nat
      BY <1>0, <3>1 DEF ExecutorType
    <3>3. Len(queue') <= QueueCap BY <1>0, <3>2, OrderFlowAssumption DEF ExecutorType
    <3> QED BY <1>0, <2>0, <3>1, <3>2, <3>3 DEF ExecutorType
  <2>2. CASE WorkerTrack
    <3>1. queue' = queue BY <2>2 DEF WorkerTrack
    <3> QED BY <1>0, <2>0, <2>2, <3>1, TrackType DEF ExecutorType
  <2>3. ASSUME UNCHANGED <<tracked, queue>>, worker' \in Workers PROVE ExecutorType'
    BY <1>0, <2>0, <2>3 DEF ExecutorType
  <2>4. CASE WorkerPost BY <1>0, <2>3, <2>4, PostType DEF WorkerPost
  <2>5. CASE WorkerCancel BY <1>0, <2>3, <2>5, CancelType DEF WorkerCancel
  <2>6. CASE WorkerLegs BY <1>0, <2>3, <2>6, LegsType DEF WorkerLegs
  <2>7. ASSUME NEW ok \in BOOLEAN, WorkerRelay(ok) PROVE ExecutorType'
    <3>1. UNCHANGED <<tracked, queue>> BY <2>7 DEF WorkerRelay
    <3> QED BY <1>0, <2>3, <2>7, <3>1, RelayType
  <2>8. CASE WorkerPublish
    <3>1. worker.todo # << >> /\ UNCHANGED <<tracked, queue>>
          /\ worker' = [worker EXCEPT !.todo = Tail(worker.todo), !.tracked = FALSE]
      BY <2>8 DEF WorkerPublish
    <3>2. /\ worker.batch \in Seq(Intents) /\ worker.todo \in Seq(Events)
          /\ (worker.legs = << >> \/ worker.legs \in LegIds \X LegIds)
      BY <1>0, WorkerParts DEF ExecutorType
    <3>3. Tail(worker.todo) \in Seq(Events) BY <3>1, <3>2
    <3>4. WorkerIs(worker.batch, Tail(worker.todo), FALSE, worker.legs)
      BY <1>0, <3>1, WorkerFields DEF WorkerIs
    <3>5. worker' \in Workers BY <3>2, <3>3, <3>4, WorkerIsType
    <3> QED BY <2>3, <3>1, <3>5
  <2> QED BY <1>4, <2>1, <2>2, <2>4, <2>5, <2>6, <2>7, <2>8 DEF WorkerStep
<1>5. CASE SocketStep
  <2>0. UNCHANGED <<queue, worker>> BY <1>5, SocketFrame
  <2>1. CASE WSPublish
    <3>1. tracked' = tracked /\ wsOut' = << >> BY <2>1 DEF WSPublish
    <3>2. << >> \in Seq(Events) OBVIOUS
    <3> QED BY <1>0, <2>0, <3>1, <3>2 DEF ExecutorType
  <2>2. ASSUME NEW n \in DOMAIN ws, Deliver(n) PROVE ExecutorType'
    BY <1>0, <2>0, <2>2, DeliverType DEF ExecutorType
  <2> QED BY <1>5, <2>1, <2>2 DEF SocketStep
<1>6. CASE ExchangeStep BY <1>6, <1>k, ExchangeFrame
<1>7. CASE ReconStep BY <1>7, <1>k, ReconFrame
<1>8. CASE Crash
  <2>1. tracked' = << >> /\ queue' = << >> /\ worker' = Idle /\ wsOut' = << >> BY <1>8 DEF Crash
  <2>2. << >> \in Seq(Intents) /\ << >> \in Seq(Events) /\ << >> \in Seq(Seq(Intents))
        /\ Len(<< >>) = 0 /\ 0 <= QueueCap
    BY OrderFlowAssumption
  <2>3. Idle \in Workers BY <2>2 DEF Idle, Workers
  <2>4. IsMap(<< >>, Ids, TrackedOrders) /\ DOMAIN << >> = {} BY DEF IsMap
  <2> QED BY <2>1, <2>2, <2>3, <2>4 DEF ExecutorType
<1>9. CASE StartStep BY <1>9, <1>k, StartFrame
<1>10. CASE UNCHANGED vars BY <1>k, <1>10 DEF vars
<1> QED BY <1>1, <1>2, <1>3, <1>4, <1>5, <1>6, <1>7, <1>8, <1>9, <1>10, StepKinds

-----------------------------------------------------------------------------
(* The exchange.                                                           *)

ExchStates == {"none", "open", "closed"}

BookType(ex, tr) ==
    /\ ex \in [Ids -> ExchStates] /\ tr \in [Ids -> Seq(Trades)]
    /\ \A o \in Ids : \A n \in DOMAIN tr[o] : WithinLimit(o, tr[o][n].price)

\* Messages about trades that there are.
MessagesOf(msgs, tr) ==
    /\ msgs \in Seq(Messages)
    /\ \A n \in DOMAIN msgs : msgs[n].kind = "trade" => msgs[n].id \in DOMAIN tr[msgs[n].order]

\* Off the book, an order has one trade at most.
OnceOnly(ex, tr) == \A o \in Ids : OffBook(o) => ex[o] # "open" /\ Len(tr[o]) <= 1

\* ExchangeType, by what it says of the book and of the messages.
LEMMA ExchangeParts ==
    /\ ExchangeType <=> BookType(exch, trades) /\ MessagesOf(ws, trades) /\ dups \in Nat
    /\ ExchangeType' <=> BookType(exch', trades') /\ MessagesOf(ws', trades') /\ dups' \in Nat
BY DEF ExchangeType, BookType, MessagesOf, ExchStates

\* Trades are added, not taken away.
LEMMA MessagesStay ==
    ASSUME NEW msgs, NEW f, NEW g, MessagesOf(msgs, f),
           \A o \in Ids : DOMAIN f[o] \subseteq DOMAIN g[o]
    PROVE  MessagesOf(msgs, g)
<1>1. \A n \in DOMAIN msgs : msgs[n].order \in Ids
  <2>1. \A n \in DOMAIN msgs : msgs[n] \in Messages BY DEF MessagesOf
  <2> QED BY <2>1 DEF Messages
<1> QED BY <1>1 DEF MessagesOf

\* What is sent joins the messages under way.
LEMMA SendType ==
    ASSUME MessagesOf(ws, trades'), NEW msgs, MessagesOf(msgs, trades'), Send(msgs)
    PROVE  MessagesOf(ws', trades')
<1>1. CASE ws' = ws BY <1>1
<1>2. CASE ws' = ws \o msgs
  <2>1. ws \in Seq(Messages) /\ msgs \in Seq(Messages) BY DEF MessagesOf
  <2>2. ws' \in Seq(Messages) BY <1>2, <2>1
  <2>3. ASSUME NEW n \in DOMAIN ws', ws'[n].kind = "trade"
        PROVE  ws'[n].id \in DOMAIN trades'[ws'[n].order]
    <3>1. n \in 1 .. (Len(ws) + Len(msgs)) BY <1>2, <2>1
    <3>2. CASE n <= Len(ws)
      <4>1. ws'[n] = ws[n] /\ n \in DOMAIN ws BY <1>2, <2>1, <3>1, <3>2
      <4> QED BY <2>3, <4>1 DEF MessagesOf
    <3>3. CASE n > Len(ws)
      <4>1. ws'[n] = msgs[n - Len(ws)] /\ n - Len(ws) \in DOMAIN msgs
        BY <1>2, <2>1, <3>1, <3>3
      <4> QED BY <2>3, <4>1 DEF MessagesOf
    <3> QED BY <2>1, <3>1, <3>2, <3>3
  <2> QED BY <2>2, <2>3 DEF MessagesOf
<1> QED BY <1>1, <1>2 DEF Send

\* Messages about orders say nothing of trades.
LEMMA OrderMessages ==
    ASSUME NEW os \in Seq(Ids), NEW st, \A n \in DOMAIN os : st[n] \in {"LIVE", "MATCHED", "CANCELED"},
           NEW tr
    PROVE  MessagesOf([n \in DOMAIN os |-> OrderMsg(os[n], st[n])], tr)
<1> DEFINE ms == [n \in DOMAIN os |-> OrderMsg(os[n], st[n])]
<1>1. DOMAIN os = 1 .. Len(os) /\ Len(os) \in Nat OBVIOUS
<1>2. ASSUME NEW n \in DOMAIN os
      PROVE  OrderMsg(os[n], st[n]) \in Messages /\ OrderMsg(os[n], st[n]).kind = "order"
  BY DEF OrderMsg, Messages
<1>3. ms \in Seq(Messages)
  <2>1. [n \in 1 .. Len(os) |-> OrderMsg(os[n], st[n])] \in Seq(Messages) BY <1>1, <1>2, IsASeq
  <2> QED BY <1>1, <2>1
<1>4. \A n \in DOMAIN ms : ms[n].kind = "order" BY <1>2
<1> QED BY <1>3, <1>4 DEF MessagesOf

\* A message about a trade.
LEMMA TradeMessage ==
    ASSUME NEW o \in Ids, NEW tr, tr[o] \in Seq(Trades), NEW n \in DOMAIN tr[o],
           NEW st \in {"MINED", "FAILED"}
    PROVE  MessagesOf(<<TradeMsg(o, st, n)>>, tr)
<1> DEFINE m == TradeMsg(o, st, n)
<1>1. n \in Nat \ {0} OBVIOUS
<1>2. m \in Messages /\ m.order = o /\ m.id = n BY <1>1 DEF TradeMsg, Messages
<1> HIDE DEF m
<1>3. <<m>> \in Seq(Messages) /\ \A k \in DOMAIN <<m>> : <<m>>[k] = m BY <1>2
<1>4. MessagesOf(<<m>>, tr) BY <1>2, <1>3 DEF MessagesOf
<1> QED BY <1>4 DEF m

\* What an order off the book is given at once.
LEMMA PaperType ==
    ASSUME NEW o \in Ids
    PROVE  /\ Paper(o) \in Seq(Trades) /\ Len(Paper(o)) = 1 /\ DOMAIN Paper(o) = {1}
           /\ WithinLimit(o, Paper(o)[1].price)
<1> DEFINE t == [size |-> Order[o].RequestedSize, price |-> Order[o].Price, st |-> "MINED"]
<1>1. t \in Trades /\ t.price = Order[o].Price BY OrderParts DEF Trades
<1>2. Paper(o) = <<t>> BY DEF Paper
<1> HIDE DEF t
<1> QED BY <1>1, <1>2, OrderParts

\* Orders booked on paper, or by the relayer, keep the book well formed.
LEMMA BookedType ==
    ASSUME ExchangeType, OnceOnly(exch, trades), NEW S \in SUBSET Ids, NEW paid \in SUBSET S,
           \A o \in S : OffBook(o), Booked(S, paid), UNCHANGED <<ws, dups>>
    PROVE  ExchangeType' /\ OnceOnly(exch', trades')
<1>1. /\ exch' = [o \in Ids |-> IF o \in S THEN "closed" ELSE exch[o]]
      /\ trades' = [o \in Ids |-> IF o \in paid THEN Paper(o) ELSE trades[o]]
  BY DEF Booked
<1>2. BookType(exch, trades) /\ MessagesOf(ws, trades) BY ExchangeParts
<1>3. BookType(exch', trades') BY <1>1, <1>2, PaperType DEF BookType, ExchStates
<1>4. ASSUME NEW o \in Ids PROVE DOMAIN trades[o] \subseteq DOMAIN trades'[o]
  <2>1. CASE o \notin paid BY <1>1, <2>1
  <2>2. CASE o \in paid
    <3>1. trades'[o] = Paper(o) /\ DOMAIN Paper(o) = {1} BY <1>1, <2>2, PaperType
    <3>2. trades[o] \in Seq(Trades) /\ Len(trades[o]) <= 1 BY <1>2, <2>2 DEF OnceOnly, BookType
    <3>3. DOMAIN trades[o] \subseteq {1} BY <3>2
    <3> QED BY <3>1, <3>3
  <2> QED BY <2>1, <2>2
<1>5. MessagesOf(ws, trades') BY <1>2, <1>4, MessagesStay
<1>6. ASSUME NEW o \in Ids, OffBook(o) PROVE exch'[o] # "open" /\ Len(trades'[o]) <= 1
  <2>1. exch[o] # "open" /\ Len(trades[o]) <= 1 BY <1>6 DEF OnceOnly
  <2>2. exch'[o] # "open" BY <1>1, <2>1
  <2>3. Len(Paper(o)) = 1 BY PaperType
  <2>4. trades'[o] = Paper(o) \/ trades'[o] = trades[o] BY <1>1
  <2>5. CASE trades'[o] = Paper(o)
    <3>1. Len(trades'[o]) = 1 BY <2>3, <2>5
    <3> QED BY <2>2, <3>1
  <2>6. CASE trades'[o] = trades[o] BY <2>1, <2>2, <2>6
  <2> QED BY <2>4, <2>5, <2>6
<1>7. OnceOnly(exch', trades') BY <1>6 DEF OnceOnly
<1> QED BY <1>3, <1>5, <1>7, ExchangeParts

\* Orders enter the book.
LEMMA OpenType ==
    ASSUME ExchangeType, OnceOnly(exch, trades), NEW orders \in Seq(Ids), Open(orders),
           \A o \in Range(orders) : ~ OffBook(o), UNCHANGED <<trades, dups>>
    PROVE  ExchangeType' /\ OnceOnly(exch', trades')
<1>1. PICK st \in [DOMAIN orders -> {"LIVE", "MATCHED"}] :
            Send([n \in DOMAIN orders |-> OrderMsg(orders[n], st[n])])
  BY DEF Open
<1>2. exch' = [o \in Ids |-> IF o \in Range(orders) THEN "open" ELSE exch[o]] BY DEF Open
<1>3. BookType(exch, trades) /\ MessagesOf(ws, trades') BY ExchangeParts
<1>4. BookType(exch', trades') BY <1>2, <1>3 DEF BookType, ExchStates
<1>5. \A n \in DOMAIN orders : st[n] \in {"LIVE", "MATCHED", "CANCELED"} OBVIOUS
<1> DEFINE msgs == [n \in DOMAIN orders |-> OrderMsg(orders[n], st[n])]
<1>6. MessagesOf(msgs, trades') BY <1>5, OrderMessages
<1>7. Send(msgs) BY <1>1
<1> HIDE DEF msgs
<1>8. MessagesOf(ws', trades') BY <1>3, <1>6, <1>7, SendType
<1>9. OnceOnly(exch', trades') BY <1>2 DEF OnceOnly
<1> QED BY <1>4, <1>8, <1>9, ExchangeParts

\* Orders leave it.
LEMMA CloseType ==
    ASSUME ExchangeType, OnceOnly(exch, trades), NEW orders \in Seq(Ids),
           CancelOnExchange(orders), UNCHANGED <<trades, dups>>
    PROVE  ExchangeType' /\ OnceOnly(exch', trades')
<1>1. PICK gone \in Seq({o \in Ids : exch[o] = "open"}) :
                /\ exch' = [o \in Ids |-> IF o \in Range(gone) THEN "closed" ELSE exch[o]]
                /\ Send([n \in DOMAIN gone |-> OrderMsg(gone[n], "CANCELED")])
  BY CancelParts
<1>2. gone \in Seq(Ids)
  <2>1. {o \in Ids : exch[o] = "open"} \subseteq Ids OBVIOUS
  <2> QED BY <2>1, SubseqType
<1>3. BookType(exch, trades) /\ MessagesOf(ws, trades') BY ExchangeParts
<1>4. BookType(exch', trades') BY <1>1, <1>3 DEF BookType, ExchStates
<1> DEFINE st == [n \in DOMAIN gone |-> "CANCELED"]
           msgs == [n \in DOMAIN gone |-> OrderMsg(gone[n], st[n])]
<1>5. \A n \in DOMAIN gone : st[n] \in {"LIVE", "MATCHED", "CANCELED"} OBVIOUS
<1>6. Send(msgs)
  <2>1. msgs = [n \in DOMAIN gone |-> OrderMsg(gone[n], "CANCELED")] OBVIOUS
  <2> HIDE DEF msgs
  <2> QED BY <1>1, <2>1
<1> HIDE DEF st
<1>7. MessagesOf(msgs, trades') BY <1>2, <1>5, OrderMessages
<1> HIDE DEF msgs
<1>8. MessagesOf(ws', trades') BY <1>3, <1>6, <1>7, SendType
<1>9. OnceOnly(exch', trades') BY <1>1 DEF OnceOnly
<1> QED BY <1>4, <1>8, <1>9, ExchangeParts

\* A match is one more trade.
LEMMA MatchType ==
    ASSUME ExchangeType, OnceOnly(exch, trades), NEW o \in Ids,
           NEW size \in 1 .. (Order[o].RequestedSize + plan.overmatch), NEW price \in TradePrices, Match(o, size, price)
    PROVE  ExchangeType' /\ OnceOnly(exch', trades')
<1> DEFINE t == [size |-> size, price |-> price, st |-> "matched"]
<1>1. /\ exch[o] = "open" /\ WithinLimit(o, price) /\ UNCHANGED <<ws, dups>>
      /\ trades' = [trades EXCEPT ![o] = Append(trades[o], t)]
      /\ exch' = [exch EXCEPT ![o] = IF size >= Left(o) THEN "closed" ELSE exch[o]]
  BY DEF Match
<1>2. BookType(exch, trades) /\ MessagesOf(ws, trades) BY ExchangeParts
<1>3. price \in Prices BY OrderFlowAssumption
<1>4. t \in Trades /\ t.price = price
  <2>1. size \in Nat \ {0} BY OrderParts
  <2> QED BY <1>3, <2>1 DEF Trades
<1> HIDE DEF t
<1>5. trades[o] \in Seq(Trades) BY <1>2 DEF BookType
<1> DEFINE app == Append(trades[o], t)
<1>6. /\ app \in Seq(Trades) /\ Len(app) = Len(trades[o]) + 1
      /\ \A n \in 1 .. Len(trades[o]) : app[n] = trades[o][n]
      /\ app[Len(trades[o]) + 1] = t
  BY <1>4, <1>5, AppendProperties
<1>7. DOMAIN app = 1 .. (Len(trades[o]) + 1) /\ DOMAIN trades[o] = 1 .. Len(trades[o])
      /\ Len(trades[o]) \in Nat
  BY <1>5, <1>6
<1>8. \A n \in DOMAIN app : WithinLimit(o, app[n].price)
  BY <1>1, <1>2, <1>4, <1>6, <1>7 DEF BookType
<1> HIDE DEF app
<1>9. /\ trades' \in [Ids -> Seq(Trades)]
      /\ \A x \in Ids : trades'[x] = IF x = o THEN app ELSE trades[x]
  BY <1>1, <1>2, <1>6 DEF BookType, app
<1>10. /\ exch' \in [Ids -> ExchStates]
       /\ \A x \in Ids : x # o => exch'[x] = exch[x]
  <2> DEFINE e == IF size >= Left(o) THEN "closed" ELSE exch[o]
  <2>1. e \in ExchStates BY <1>2 DEF BookType, ExchStates
  <2>2. exch' = [exch EXCEPT ![o] = e] BY <1>1
  <2> HIDE DEF e
  <2> QED BY <1>2, <2>1, <2>2 DEF BookType
<1>11. BookType(exch', trades') BY <1>2, <1>8, <1>9, <1>10 DEF BookType
<1>12. \A x \in Ids : DOMAIN trades[x] \subseteq DOMAIN trades'[x] BY <1>7, <1>9
<1>13. MessagesOf(ws, trades') BY <1>2, <1>12, MessagesStay
<1>14. ~ OffBook(o) BY <1>1 DEF OnceOnly
<1>15. OnceOnly(exch', trades') BY <1>9, <1>10, <1>14 DEF OnceOnly
<1> QED BY <1>1, <1>11, <1>13, <1>15, ExchangeParts

\* A trade settles, or fails to.
LEMMA SettleType ==
    ASSUME ExchangeType, OnceOnly(exch, trades), NEW o \in Ids, NEW n \in DOMAIN trades[o],
           NEW outcome \in {"MINED", "FAILED"}, Settle(o, n, outcome)
    PROVE  ExchangeType' /\ OnceOnly(exch', trades')
<1> DEFINE t == trades[o][n]
           done == [t EXCEPT !.st = outcome]
           seq == [trades[o] EXCEPT ![n] = done]
<1>1. /\ UNCHANGED <<exch, dups>> /\ trades' = [trades EXCEPT ![o] = seq]
      /\ Send(<<TradeMsg(o, outcome, n)>>)
  BY DEF Settle
<1>2. BookType(exch, trades) /\ MessagesOf(ws, trades) BY ExchangeParts
<1>3. t \in Trades /\ WithinLimit(o, t.price) /\ trades[o] \in Seq(Trades)
  BY <1>2, TradeParts DEF BookType
<1> HIDE DEF t
<1>4. done \in Trades /\ done.price = t.price BY <1>3 DEF Trades
<1> HIDE DEF done
<1>5. /\ seq \in Seq(Trades) /\ Len(seq) = Len(trades[o]) /\ DOMAIN seq = DOMAIN trades[o]
      /\ \A k \in DOMAIN seq : seq[k] = IF k = n THEN done ELSE trades[o][k]
  BY <1>3, <1>4
<1> HIDE DEF seq
<1>6. /\ trades' \in [Ids -> Seq(Trades)]
      /\ \A x \in Ids : trades'[x] = IF x = o THEN seq ELSE trades[x]
  BY <1>1, <1>2, <1>5 DEF BookType
<1>7. \A k \in DOMAIN seq : WithinLimit(o, seq[k].price)
  BY <1>2, <1>3, <1>4, <1>5 DEF BookType
<1>8. BookType(exch', trades') BY <1>1, <1>2, <1>6, <1>7 DEF BookType
<1>9. \A x \in Ids : DOMAIN trades[x] \subseteq DOMAIN trades'[x] BY <1>5, <1>6
<1>10. MessagesOf(ws, trades') BY <1>2, <1>9, MessagesStay
<1> DEFINE msgs == <<TradeMsg(o, outcome, n)>>
<1>11. MessagesOf(msgs, trades')
  <2>1. trades'[o] \in Seq(Trades) /\ n \in DOMAIN trades'[o] BY <1>5, <1>6
  <2> QED BY <2>1, TradeMessage
<1>12. Send(msgs) BY <1>1
<1> HIDE DEF msgs
<1>13. MessagesOf(ws', trades') BY <1>10, <1>11, <1>12, SendType
<1>14. OnceOnly(exch', trades') BY <1>1, <1>5, <1>6 DEF OnceOnly
<1>15. dups' \in Nat BY <1>1, ExchangeParts
<1> QED BY <1>8, <1>13, <1>14, <1>15, ExchangeParts

\* One message is taken out: what stays are messages that were there.
LEMMA RemoveParts ==
    ASSUME ws \in Seq(Messages), NEW n \in DOMAIN ws, NEW r, r = RemoveAt(ws, n)
    PROVE  /\ r \in Seq(Messages) /\ Len(r) = Len(ws) - 1
           /\ \A k \in DOMAIN r : \E j \in DOMAIN ws : r[k] = ws[j]
<1> DEFINE a == SubSeq(ws, 1, n - 1)
           b == SubSeq(ws, n + 1, Len(ws))
<1>1. ws \in Seq(Messages) /\ DOMAIN ws = 1 .. Len(ws) /\ Len(ws) \in Nat /\ n \in 1 .. Len(ws)
  OBVIOUS
<1>2. r = a \o b BY DEF RemoveAt
<1>3. a \in Seq(Messages) /\ Len(a) = n - 1 /\ \A k \in 1 .. (n - 1) : a[k] = ws[k]
  BY <1>1
<1>4. /\ b \in Seq(Messages) /\ Len(b) = Len(ws) - n
      /\ \A k \in 1 .. (Len(ws) - n) : b[k] = ws[n + k]
  BY <1>1
<1> HIDE DEF a, b
<1>5. r \in Seq(Messages) /\ Len(r) = Len(ws) - 1
  <2>1. r \in Seq(Messages) /\ Len(r) = Len(a) + Len(b) BY <1>2, <1>3, <1>4, ConcatProperties
  <2> QED BY <1>1, <1>3, <1>4, <2>1
<1>6. \A k \in DOMAIN r : \E j \in DOMAIN ws : r[k] = ws[j]
  <2> SUFFICES ASSUME NEW k \in DOMAIN r PROVE \E j \in DOMAIN ws : r[k] = ws[j] OBVIOUS
  <2>1. k \in 1 .. (Len(ws) - 1) BY <1>5
  <2>2. CASE k <= n - 1
    <3>1. r[k] = a[k] /\ k \in 1 .. (n - 1) BY <1>1, <1>2, <1>3, <1>4, <2>1, <2>2
    <3>2. r[k] = ws[k] /\ k \in DOMAIN ws BY <1>1, <1>3, <2>1, <3>1
    <3> QED BY <3>2
  <2>3. CASE k > n - 1
    <3>1. r[k] = b[k - (n - 1)] /\ k - (n - 1) \in 1 .. (Len(ws) - n)
      BY <1>1, <1>2, <1>3, <1>4, <2>1, <2>3
    <3>2. r[k] = ws[n + (k - (n - 1))] /\ n + (k - (n - 1)) \in DOMAIN ws BY <1>1, <1>4, <2>1, <3>1
    <3> QED BY <3>2
  <2> QED BY <1>1, <2>1, <2>2, <2>3
<1> QED BY <1>5, <1>6

\* ... so they are still of trades that there are.
LEMMA RemoveType ==
    ASSUME MessagesOf(ws, trades), NEW n \in DOMAIN ws, NEW r, r = RemoveAt(ws, n)
    PROVE  MessagesOf(r, trades)
BY RemoveParts DEF MessagesOf

\* The orders a worker posts are not legs.
LEMMA PostedOrders ==
    ASSUME NEW batch \in Seq(Intents), NEW reached
    PROVE  Among(OrdersOf(batch, "PLACE"), reached) \in Seq(Ids \ LegIds)
<1> DEFINE T == {in.OrderID : in \in {x \in Intents : x.Action = "PLACE"}}
           placed == OrdersOf(batch, "PLACE")
<1>1. placed \in Seq(T) BY OrdersOfType
<1>2. T \cap reached \subseteq Ids \ LegIds BY IntentParts
<1> HIDE DEF T, placed
<1>3. Among(placed, reached) \in Seq(T \cap reached) BY <1>1, AmongType
<1>4. Among(placed, reached) \in Seq(Ids \ LegIds) BY <1>2, <1>3, SubseqType
<1> QED BY <1>4 DEF placed

\* Every step keeps the exchange well formed, and off its book what never enters it.
LEMMA StepExchange == Inv /\ [Next]_vars => ExchangeType' /\ OnceOnly(exch', trades')
<1> SUFFICES ASSUME Inv, [Next]_vars PROVE ExchangeType' /\ OnceOnly(exch', trades')
  OBVIOUS
<1>0. /\ ExecutorType /\ ExchangeType /\ BootType /\ OnceInv /\ harmed \subseteq Ids
      /\ OnceOnly(exch, trades)
  BY DEF Inv, OnceInv, OnceOnly
<1>k. ASSUME UNCHANGED exchangeVars PROVE ExchangeType' /\ OnceOnly(exch', trades')
  BY <1>0, <1>k DEF exchangeVars, ExchangeType
<1>a. worker.batch \in Seq(Intents) /\ (worker.legs = << >> \/ worker.legs \in LegIds \X LegIds)
  BY <1>0, WorkerParts DEF ExecutorType
<1>1. CASE Submit
  <2>1. PICK batch \in plan.batches : submitIntents(batch) BY <1>1 DEF Submit
  <2>2. PICK out \in Seq(Range(batch)) : Execute(out) BY <2>1, SubmitCovers
  <2>3. UNCHANGED <<ws, dups>> BY <1>1, SubmitFrame
  <2>4. CASE plan.dryRun
    <3>1. ExecuteDryRun(out) BY <2>2, <2>4 DEF Execute
    <3>2. PICK S \in SUBSET (Ids \ External) : Booked(S, S) BY <3>1, DryRunParts
    <3>3. \A o \in S : OffBook(o) BY <2>4, <3>2 DEF OffBook
    <3>4. S \in SUBSET Ids /\ S \in SUBSET S BY <3>2
    <3> QED BY <1>0, <2>3, <3>2, <3>3, <3>4, BookedType
  <2>5. CASE ~ plan.dryRun
    <3>1. ExecuteLive(out) BY <2>2, <2>5 DEF Execute
    <3>2. UNCHANGED <<exch, trades>> BY <3>1, LiveParts
    <3> QED BY <1>k, <2>3, <3>2 DEF exchangeVars
  <2> QED BY <2>4, <2>5
<1>2. CASE EngineStep BY <1>2, <1>k, EngineFrame
<1>3. CASE CleanStep BY <1>3, <1>k, CleanFrame
<1>4. CASE WorkerStep
  <2>1. CASE UNCHANGED exchangeVars BY <1>k, <2>1
  <2>2. CASE WorkerPost
    <3>1. PICK reached : Open(Among(OrdersOf(worker.batch, "PLACE"), reached))
      BY <2>2 DEF WorkerPost
    <3> DEFINE os == Among(OrdersOf(worker.batch, "PLACE"), reached)
    <3>2. os \in Seq(Ids \ LegIds) BY <1>a, PostedOrders
    <3>3. Open(os) BY <3>1
    <3> HIDE DEF os
    <3>4. os \in Seq(Ids) /\ Range(os) \subseteq Ids \ LegIds
      <4>1. Ids \ LegIds \subseteq Ids OBVIOUS
      <4> QED BY <3>2, <4>1, SubseqType, RangeType
    <3>5. ~ plan.dryRun
      <4>1. worker.batch # << >> BY <2>2 DEF WorkerPost, WorkerAt
      <4> QED BY <1>0, <4>1 DEF OnceInv
    <3>6. \A o \in Range(os) : ~ OffBook(o) BY <3>4, <3>5 DEF OffBook
    <3>7. UNCHANGED <<trades, dups>> BY <2>2 DEF WorkerPost
    <3> QED BY <1>0, <3>3, <3>4, <3>6, <3>7, OpenType
  <2>3. CASE WorkerCancel
    <3>1. UNCHANGED <<trades, dups>> BY <2>3 DEF WorkerCancel
    <3>2. \/ CancelOnExchange(OrdersOf(worker.batch, "CANCEL"))
          \/ UNCHANGED <<exch, ws>>
      BY <2>3 DEF WorkerCancel
    <3>3. CASE UNCHANGED <<exch, ws>> BY <1>k, <3>1, <3>3 DEF exchangeVars
    <3>4. ASSUME CancelOnExchange(OrdersOf(worker.batch, "CANCEL"))
          PROVE  ExchangeType' /\ OnceOnly(exch', trades')
      <4> DEFINE os == OrdersOf(worker.batch, "CANCEL")
      <4>1. os \in Seq(Ids) /\ CancelOnExchange(os) BY <1>a, <3>4, CancelledOrders
      <4> HIDE DEF os
      <4> QED BY <1>0, <3>1, <4>1, CloseType
    <3> QED BY <3>2, <3>3, <3>4
  <2>4. ASSUME NEW ok \in BOOLEAN, WorkerRelay(ok) PROVE ExchangeType' /\ OnceOnly(exch', trades')
    <3>1. PICK S, paid \in SUBSET LegIds : paid \subseteq S /\ Booked(S, paid)
      BY <1>0, <2>4, RelayType
    <3>2. UNCHANGED <<ws, dups>> BY <2>4 DEF WorkerRelay
    <3>3. S \in SUBSET Ids /\ paid \in SUBSET S /\ \A o \in S : OffBook(o)
      BY <3>1, LegParts DEF OffBook
    <3> QED BY <1>0, <3>1, <3>2, <3>3, BookedType
  <2>5. \/ UNCHANGED exchangeVars \/ WorkerPost \/ WorkerCancel
        \/ \E ok \in BOOLEAN : WorkerRelay(ok)
    BY <1>4 DEF WorkerStep, WorkerTake, WorkerLegs, WorkerTrack, WorkerPublish
  <2> QED BY <2>1, <2>2, <2>3, <2>4, <2>5
<1>5. CASE SocketStep
  <2>1. CASE WSPublish BY <1>k, <2>1 DEF WSPublish
  <2>2. ASSUME NEW n \in DOMAIN ws, Deliver(n) PROVE ExchangeType' /\ OnceOnly(exch', trades')
    <3>1. ws' = RemoveAt(ws, n) /\ UNCHANGED <<exch, trades, dups>> BY <2>2 DEF Deliver
    <3>2. BookType(exch, trades) /\ MessagesOf(ws, trades) /\ dups \in Nat BY <1>0, ExchangeParts
    <3>3. MessagesOf(ws', trades) BY <2>2, <3>1, <3>2, RemoveType
    <3>4. BookType(exch', trades') /\ MessagesOf(ws', trades') /\ dups' \in Nat
      BY <3>1, <3>2, <3>3
    <3> QED BY <1>0, <3>1, <3>4, ExchangeParts
  <2> QED BY <1>5, <2>1, <2>2 DEF SocketStep
<1>6. CASE ExchangeStep
  <2>1. ASSUME NEW o \in Ids, OpenByHand(o) PROVE ExchangeType' /\ OnceOnly(exch', trades')
    <3>1. o \in plan.byHand /\ Open(<<o>>) /\ UNCHANGED <<trades, dups>> BY <2>1 DEF OpenByHand
    <3>2. o \in External BY <1>0, <3>1, PlanParts DEF BootType
    <3>3. ~ OffBook(o) BY <3>2, OrderFlowAssumption DEF OffBook
    <3>4. <<o>> \in Seq(Ids) /\ Range(<<o>>) = {o} BY DEF Range
    <3> DEFINE os == <<o>>
    <3>5. os \in Seq(Ids) /\ Open(os) /\ \A x \in Range(os) : ~ OffBook(x) BY <3>1, <3>3, <3>4
    <3> HIDE DEF os
    <3> QED BY <1>0, <3>1, <3>5, OpenType
  <2>2. ASSUME NEW o \in Ids, CancelByExchange(o) PROVE ExchangeType' /\ OnceOnly(exch', trades')
    <3> DEFINE os == <<o>>
    <3>1. os \in Seq(Ids) /\ CancelOnExchange(os) /\ UNCHANGED <<trades, dups>>
      BY <2>2 DEF CancelByExchange
    <3> HIDE DEF os
    <3> QED BY <1>0, <3>1, CloseType
  <2>3. ASSUME NEW o \in Ids, NEW n \in DOMAIN trades[o], Redeliver(o, n)
        PROVE  ExchangeType' /\ OnceOnly(exch', trades')
    <3> DEFINE msgs == <<TradeMsg(o, "MINED", n)>>
    <3>1. Send(msgs) /\ dups' = dups + 1 /\ UNCHANGED <<exch, trades>> BY <2>3 DEF Redeliver
    <3>2. BookType(exch, trades) /\ MessagesOf(ws, trades) /\ dups \in Nat BY <1>0, ExchangeParts
    <3>3. trades[o] \in Seq(Trades) BY <3>2 DEF BookType
    <3>4. MessagesOf(msgs, trades) BY <2>3, <3>3, TradeMessage
    <3> HIDE DEF msgs
    <3>5. MessagesOf(ws', trades') BY <3>1, <3>2, <3>4, SendType
    <3>6. BookType(exch', trades') /\ dups' \in Nat BY <3>1, <3>2
    <3> QED BY <1>0, <3>1, <3>5, <3>6, ExchangeParts
  <2> QED BY <1>0, <1>6, <2>1, <2>2, <2>3, MatchType, SettleType DEF ExchangeStep
<1>7. CASE ReconStep BY <1>7, <1>k, ReconFrame
<1>8. CASE Crash
  <2>1. UNCHANGED <<exch, trades, dups>> /\ ws' = << >> BY <1>8 DEF Crash
  <2>2. BookType(exch, trades) /\ dups \in Nat BY <1>0, ExchangeParts
  <2>3. MessagesOf(ws', trades') BY <2>1 DEF MessagesOf
  <2>4. BookType(exch', trades') /\ dups' \in Nat BY <2>1, <2>2
  <2> QED BY <1>0, <2>1, <2>3, <2>4, ExchangeParts
<1>9. CASE StartStep BY <1>9, <1>k, StartFrame
<1>10. CASE UNCHANGED vars BY <1>k, <1>10 DEF vars
<1> QED BY <1>1, <1>2, <1>3, <1>4, <1>5, <1>6, <1>7, <1>8, <1>9, <1>10, StepKinds

-----------------------------------------------------------------------------
(* What the exchange and the chain answer.                                 *)

\* The sizes of an order's trades add up.
LEMMA TradeSums ==
    ASSUME ExchangeType, NEW o \in Ids
    PROVE  Matched(o) \in Nat /\ Mined(o) \in Nat /\ Flow(o) \in Int
<1> DEFINE D == DOMAIN trades[o]
           sizes == [n \in D |-> trades[o][n].size]
           mined == [n \in D |-> IF trades[o][n].st = "MINED" THEN trades[o][n].size ELSE 0]
           M == {n \in D : trades[o][n].st = "MINED"}
           cash == [n \in M |-> trades[o][n].size * trades[o][n].price]
<1>1. trades[o] \in Seq(Trades) BY DEF ExchangeType
<1>2. D = 1 .. Len(trades[o]) /\ Len(trades[o]) \in Nat BY <1>1
<1>3. IsFiniteSet(D) /\ IsFiniteSet(M)
  <2>1. IsFiniteSet(1 .. Len(trades[o])) BY <1>2, FS_Interval
  <2>2. IsFiniteSet(D) BY <1>2, <2>1
  <2>3. M \subseteq D OBVIOUS
  <2> QED BY <2>2, <2>3, FS_Subset
<1>4. \A n \in D : trades[o][n].size \in Nat /\ trades[o][n].price \in Nat BY TradeParts
<1>5. \A n \in D : sizes[n] \in Nat /\ sizes[n] \in Int BY <1>4
<1>6. \A n \in D : mined[n] \in Nat /\ mined[n] \in Int BY <1>4
<1>7. \A n \in M : cash[n] \in Nat /\ cash[n] \in Int BY <1>4
<1>8. Matched(o) = SumOver(sizes, D) BY DEF Matched
<1>9. Mined(o) = SumOver(mined, D) BY DEF Mined
<1>10. Flow(o) = (IF Order[o].Side = "BUY" THEN -1 ELSE 1) * SumOver(cash, M) BY DEF Flow
<1> HIDE DEF D, sizes, mined, M, cash
<1>11. SumOver(sizes, D) \in Nat BY <1>3, <1>5, SumType
<1>12. SumOver(mined, D) \in Nat BY <1>3, <1>6, SumType
<1>13. SumOver(cash, M) \in Nat BY <1>3, <1>7, SumType
<1>14. Flow(o) \in Int BY <1>10, <1>13
<1> QED BY <1>8, <1>9, <1>11, <1>12, <1>14

\* A position on chain is an integer.
LEMMA PositionType ==
    ASSUME ExchangeType, NEW t \in Tokens
    PROVE  PositionOf(t) \in Int
<1>1. ASSUME NEW side PROVE MinedOn(t, side) \in Nat
  <2> DEFINE f == [o \in Ids |-> Mined(o)]
             S == {o \in Ids : Order[o].TokenID = t /\ Order[o].Side = side}
  <2>1. \A o \in S : f[o] \in Nat /\ f[o] \in Int BY TradeSums
  <2>2. IsFiniteSet(S)
    <3>1. S \subseteq Ids OBVIOUS
    <3> QED BY <3>1, OrderFlowAssumption, FS_Subset
  <2>3. MinedOn(t, side) = SumOver(f, S) BY DEF MinedOn
  <2> HIDE DEF f, S
  <2> QED BY <2>1, <2>2, <2>3, SumType
<1>2. Holdings[t] \in Nat BY OrderAssumption
<1> QED BY <1>1, <1>2 DEF PositionOf

\* The wallet on chain is an integer.
LEMMA WalletType ==
    ASSUME ExchangeType
    PROVE  Wallet \in Int
<1> DEFINE f == [o \in Ids |-> Flow(o)]
<1>1. \A o \in Ids : f[o] \in Int BY TradeSums
<1>2. Wallet = Cash + SumOver(f, Ids) BY DEF Wallet
<1> HIDE DEF f
<1>3. SumOver(f, Ids) \in Int BY <1>1, OrderFlowAssumption, SumType
<1> QED BY <1>2, <1>3, OrderAssumption

RemoteOrders == [TokenID : Tokens, Side : Sides, Price : Prices, Remaining : Int]

\* What the exchange answers is well formed.
LEMMA AnswerTypes ==
    ASSUME ExchangeType
    PROVE  IsMap(OpenOrders, Ids, RemoteOrders) /\ IsMap(Positions, Tokens, Nat)
<1>1. ASSUME NEW o \in Ids
      PROVE  [TokenID |-> Order[o].TokenID, Side |-> Order[o].Side,
              Price |-> Order[o].Price, Remaining |-> Left(o)] \in RemoteOrders
  <2>1. Left(o) \in Int BY TradeSums, OrderParts DEF Left, Max0
  <2> QED BY <2>1, OrderParts DEF RemoteOrders
<1>2. IsMap(OpenOrders, Ids, RemoteOrders) BY <1>1 DEF OpenOrders, IsMap
<1>3. \A t \in {u \in Tokens : PositionOf(u) > 0} : PositionOf(t) \in Nat BY PositionType
<1>4. IsMap(Positions, Tokens, Nat) BY <1>3 DEF Positions, IsMap
<1> QED BY <1>2, <1>4

\* So is no answer.
LEMMA NoAnswer ==
    IsMap(<< >>, Ids, RemoteOrders) /\ IsMap(<< >>, Tokens, Nat)
BY DEF IsMap

\* The records of a fetch and of a start.
FetchIs(r, at, os, ps) == r = [at |-> at, orders |-> os, positions |-> ps]
FetchType(r) ==
    /\ r = [at |-> r.at, orders |-> r.orders, positions |-> r.positions]
    /\ r.at \in {"idle", "orders", "fetched", "half"}
    /\ IsMap(r.orders, Ids, RemoteOrders) /\ IsMap(r.positions, Tokens, Nat)

\* A fetch built from well-formed answers is well formed.
LEMMA FetchIsType ==
    ASSUME NEW r, NEW at \in {"idle", "orders", "fetched", "half"},
           NEW os, IsMap(os, Ids, RemoteOrders), NEW ps, IsMap(ps, Tokens, Nat),
           FetchIs(r, at, os, ps)
    PROVE  FetchType(r)
BY DEF FetchIs, FetchType

\* ReconType is FetchType of the reconcile loop.
LEMMA ReconParts ==
    (ReconType <=> FetchType(recon)) /\ (ReconType' <=> FetchType(recon'))
BY DEF ReconType, FetchType, IsAnswer, RemoteOrders

\* Every step keeps the reconcile loop's fetch well formed.
LEMMA StepRecon == Inv /\ [Next]_vars => ReconType'
<1> SUFFICES ASSUME Inv, [Next]_vars PROVE FetchType(recon')
  BY ReconParts
<1>0. FetchType(recon) /\ ExchangeType BY ReconParts DEF Inv
<1>a. /\ recon = [at |-> recon.at, orders |-> recon.orders, positions |-> recon.positions]
      /\ IsMap(recon.orders, Ids, RemoteOrders) /\ IsMap(recon.positions, Tokens, Nat)
  BY <1>0 DEF FetchType
<1>k. ASSUME UNCHANGED recon PROVE FetchType(recon') BY <1>0, <1>k
<1>f. FetchType(NoFetch) BY NoAnswer DEF NoFetch, FetchType
<1>1. CASE Submit BY <1>1, <1>k, SubmitFrame
<1>2. CASE EngineStep BY <1>2, <1>k, EngineFrame
<1>3. CASE CleanStep BY <1>3, <1>k, CleanFrame
<1>4. CASE WorkerStep BY <1>4, <1>k, WorkerFrame
<1>5. CASE SocketStep BY <1>5, <1>k, SocketFrame
<1>6. CASE ExchangeStep BY <1>6, <1>k, ExchangeFrame
<1>7. CASE ReconStep
  <2>1. CASE recon' = NoFetch BY <1>f, <2>1
  <2>2. CASE GetOpenOrders
    <3>1. FetchIs(recon', "orders", OpenOrders, << >>)
      BY <2>2 DEF GetOpenOrders, NoFetch, FetchIs
    <3> QED BY <1>0, <3>1, AnswerTypes, NoAnswer, FetchIsType
  <2>3. CASE GetPositions
    <3>1. FetchIs(recon', "fetched", recon.orders, Positions)
      <4>1. recon' = [recon EXCEPT !.at = "fetched", !.positions = Positions]
        BY <2>3 DEF GetPositions
      <4> QED BY <1>a, <4>1 DEF FetchIs
    <3> QED BY <1>0, <1>a, <3>1, AnswerTypes, FetchIsType
  <2>4. CASE ReconcileOrders
    <3>1. FetchIs(recon', "half", << >>, recon.positions)
      <4>1. recon' = [recon EXCEPT !.at = "half", !.orders = << >>]
        BY <2>4 DEF ReconcileOrders
      <4> QED BY <1>a, <4>1 DEF FetchIs
    <3> QED BY <1>a, <3>1, NoAnswer, FetchIsType
  <2> QED BY <1>7, <2>1, <2>2, <2>3, <2>4 DEF ReconStep, GetPositionsFails, ReconcilePositions
<1>8. CASE Crash BY <1>8, <1>f DEF Crash
<1>9. CASE StartStep BY <1>9, <1>k, StartFrame
<1>10. CASE UNCHANGED vars BY <1>k, <1>10 DEF vars
<1> QED BY <1>1, <1>2, <1>3, <1>4, <1>5, <1>6, <1>7, <1>8, <1>9, <1>10, StepKinds

-----------------------------------------------------------------------------
(* The start of the process.                                               *)

Starts == {"down", "balance", "synced", "orders", "fetched", "ready", "restored", "up"}
Misses == {"nothing", "exchange", "funds"}

StartIs(b, at, cash, os, ps, bal, missed) ==
    b = [at |-> at, cash |-> cash, orders |-> os, positions |-> ps, balance |-> bal,
         missed |-> missed]
StartType(b) ==
    /\ b = [at |-> b.at, cash |-> b.cash, orders |-> b.orders, positions |-> b.positions,
            balance |-> b.balance, missed |-> b.missed]
    /\ b.at \in Starts /\ b.missed \in Misses /\ b.cash \in Int /\ b.balance \in Int \X Nat
    /\ IsMap(b.orders, Ids, RemoteOrders) /\ IsMap(b.positions, Tokens, Nat)

\* A start built from well-formed parts is well formed.
LEMMA StartIsType ==
    ASSUME NEW b, NEW at \in Starts, NEW cash \in Int, NEW os, IsMap(os, Ids, RemoteOrders),
           NEW ps, IsMap(ps, Tokens, Nat), NEW bal \in Int \X Nat, NEW missed \in Misses,
           StartIs(b, at, cash, os, ps, bal, missed)
    PROVE  StartType(b)
BY DEF StartIs, StartType

\* BootType, by its parts.
LEMMA StartParts ==
    /\ BootType <=> StartType(boot) /\ crashes \in Nat /\ plan \in Plans
    /\ BootType' <=> StartType(boot') /\ crashes' \in Nat /\ plan' \in Plans
BY DEF BootType, StartType, IsAnswer, RemoteOrders, Starts, Misses

\* Every step keeps the start well formed.
LEMMA StepBoot == Inv /\ [Next]_vars => BootType'
<1> SUFFICES ASSUME Inv, [Next]_vars PROVE BootType'
  OBVIOUS
<1>0. StartType(boot) /\ crashes \in Nat /\ plan \in Plans /\ ExchangeType /\ Covers(ledger)
  BY StartParts DEF Inv
<1>a. /\ boot = [at |-> boot.at, cash |-> boot.cash, orders |-> boot.orders,
                 positions |-> boot.positions, balance |-> boot.balance, missed |-> boot.missed]
      /\ boot.at \in Starts /\ boot.missed \in Misses /\ boot.cash \in Int
      /\ boot.balance \in Int \X Nat
      /\ IsMap(boot.orders, Ids, RemoteOrders) /\ IsMap(boot.positions, Tokens, Nat)
  BY <1>0 DEF StartType
<1>k. ASSUME UNCHANGED bootVars PROVE BootType' BY <1>0, <1>k, StartParts DEF bootVars
<1>1. CASE Submit BY <1>1, <1>k, SubmitFrame
<1>2. CASE EngineStep BY <1>2, <1>k, EngineFrame
<1>3. CASE CleanStep BY <1>3, <1>k, CleanFrame
<1>4. CASE WorkerStep BY <1>4, <1>k, WorkerFrame
<1>5. CASE SocketStep BY <1>5, <1>k, SocketFrame
<1>6. CASE ExchangeStep BY <1>6, <1>k, ExchangeFrame
<1>7. CASE ReconStep BY <1>7, <1>k, ReconFrame
<1>z. 0 \in Int /\ <<0, 0>> \in Int \X Nat /\ "nothing" \in Misses /\ Starts = Starts \cup {"down", "up"}
  BY DEF Misses, Starts
<1>8. CASE Crash
  <2>1. /\ StartIs(boot', "down", 0, << >>, << >>, <<0, 0>>, "nothing")
        /\ crashes' = crashes + 1 /\ plan' = plan
    BY <1>8 DEF Crash, Booted, StartIs
  <2>2. StartType(boot') BY <1>z, <2>1, NoAnswer, StartIsType
  <2> QED BY <1>0, <2>1, <2>2, StartParts
<1>9. CASE StartStep
  <2>0. UNCHANGED <<crashes, plan>> BY <1>9, StartFrame
  <2> SUFFICES StartType(boot') BY <1>0, <2>0, StartParts
  <2>m. \A what \in Misses : Missing(what) \in Misses BY <1>a DEF Missing
  <2>u. StartType(Unfetched)
    <3> DEFINE missed == Missing("exchange")
    <3>0. Unfetched = [Booted EXCEPT !.at = "restored", !.missed = missed] BY DEF Unfetched
    <3> HIDE DEF missed
    <3>1. StartIs(Unfetched, "restored", 0, << >>, << >>, <<0, 0>>, missed)
      BY <3>0 DEF Booted, StartIs
    <3>2. "exchange" \in Misses /\ "restored" \in Starts BY DEF Misses, Starts
    <3>3. missed \in Misses BY <2>m, <3>2 DEF missed
    <3> QED BY <1>z, <3>1, <3>2, <3>3, NoAnswer, StartIsType
  <2>1. ASSUME NEW ok \in BOOLEAN, ReadOnchainBalance(ok) PROVE StartType(boot')
    <3>1. boot' = [boot EXCEPT !.at = "balance", !.cash = Wallet]
          \/ boot' = [boot EXCEPT !.at = "synced", !.missed = Missing("funds")]
      BY <2>1 DEF ReadOnchainBalance, BootStep
    <3>2. \/ StartIs(boot', "balance", Wallet, boot.orders, boot.positions, boot.balance, boot.missed)
          \/ StartIs(boot', "synced", boot.cash, boot.orders, boot.positions, boot.balance,
                     Missing("funds"))
      BY <1>a, <3>1 DEF StartIs
    <3>3. "funds" \in Misses /\ "synced" \in Starts /\ "balance" \in Starts BY DEF Misses, Starts
    <3> QED BY <1>0, <1>a, <2>m, <3>2, <3>3, WalletType, StartIsType
  <2>2. CASE SyncBalance
    <3>1. boot' = [boot EXCEPT !.at = "synced", !.cash = 0] BY <2>2 DEF SyncBalance
    <3>2. StartIs(boot', "synced", 0, boot.orders, boot.positions, boot.balance, boot.missed)
      BY <1>a, <3>1 DEF StartIs
    <3>3. "synced" \in Starts BY DEF Starts
    <3> QED BY <1>a, <1>z, <3>2, <3>3, StartIsType
  <2>3. ASSUME NEW ok \in BOOLEAN, BootOpenOrders(ok) PROVE StartType(boot')
    <3>1. boot' = [boot EXCEPT !.at = "orders", !.orders = OpenOrders] \/ boot' = Unfetched
      BY <2>3 DEF BootOpenOrders, BootStep
    <3>2. CASE boot' = [boot EXCEPT !.at = "orders", !.orders = OpenOrders]
      <4>1. StartIs(boot', "orders", boot.cash, OpenOrders, boot.positions, boot.balance, boot.missed)
        BY <1>a, <3>2 DEF StartIs
      <4>2. "orders" \in Starts BY DEF Starts
      <4> QED BY <1>0, <1>a, <4>1, <4>2, AnswerTypes, StartIsType
    <3> QED BY <2>u, <3>1, <3>2
  <2>4. ASSUME NEW ok \in BOOLEAN, BootPositions(ok) PROVE StartType(boot')
    <3> DEFINE missed == IF boot.orders = OpenOrders THEN boot.missed ELSE Missing("funds")
    <3>1. boot' = [boot EXCEPT !.at = "fetched", !.positions = Positions, !.missed = missed]
          \/ boot' = Unfetched
      BY <2>4 DEF BootPositions, BootStep
    <3>2. CASE boot' = [boot EXCEPT !.at = "fetched", !.positions = Positions, !.missed = missed]
      <4>1. missed \in Misses BY <1>a, <2>m DEF Misses
      <4> HIDE DEF missed
      <4>2. StartIs(boot', "fetched", boot.cash, boot.orders, Positions, boot.balance, missed)
        BY <1>a, <3>2 DEF StartIs
      <4>3. "fetched" \in Starts BY DEF Starts
      <4> QED BY <1>0, <1>a, <4>1, <4>2, <4>3, AnswerTypes, StartIsType
    <3> QED BY <2>u, <3>1, <3>2
  <2>5. CASE BootBalance
    <3> DEFINE bal == <<ledger.Available, ledger.Reserved>>
    <3>1. boot' = [boot EXCEPT !.at = "ready", !.balance = bal] BY <2>5 DEF BootBalance, BootStep
    <3>2. bal \in Int \X Nat BY <1>0, LedgerParts DEF Covers
    <3> HIDE DEF bal
    <3>3. StartIs(boot', "ready", boot.cash, boot.orders, boot.positions, bal, boot.missed)
      BY <1>a, <3>1 DEF StartIs
    <3>4. "ready" \in Starts BY DEF Starts
    <3> QED BY <1>a, <3>2, <3>3, <3>4, StartIsType
  <2>6. CASE BootRestore
    <3>1. StartIs(boot', "restored", 0, << >>, << >>, <<0, 0>>, boot.missed)
      BY <2>6 DEF BootRestore, Booted, StartIs
    <3>2. "restored" \in Starts BY DEF Starts
    <3> QED BY <1>a, <1>z, <3>1, <3>2, NoAnswer, StartIsType
  <2>7. CASE BootLoops
    <3>1. boot' = [boot EXCEPT !.at = "up"] BY <2>7 DEF BootLoops, BootStep
    <3>2. StartIs(boot', "up", boot.cash, boot.orders, boot.positions, boot.balance, boot.missed)
      BY <1>a, <3>1 DEF StartIs
    <3>3. "up" \in Starts BY DEF Starts
    <3> QED BY <1>a, <3>2, <3>3, StartIsType
  <2> QED BY <1>9, <2>1, <2>2, <2>3, <2>4, <2>5, <2>6, <2>7 DEF StartStep
<1>10. CASE UNCHANGED vars BY <1>k, <1>10 DEF vars
<1> QED BY <1>1, <1>2, <1>3, <1>4, <1>5, <1>6, <1>7, <1>8, <1>9, <1>10, StepKinds

-----------------------------------------------------------------------------
(* Orders off the book, and a process that is not up.                      *)

\* The plan never changes.
LEMMA PlanStays == [Next]_vars => plan' = plan
<1>1. CASE Submit BY <1>1, SubmitFrame DEF bootVars
<1>2. CASE EngineStep BY <1>2, EngineFrame DEF bootVars
<1>3. CASE CleanStep BY <1>3, CleanFrame DEF bootVars
<1>4. CASE WorkerStep BY <1>4, WorkerFrame DEF bootVars
<1>5. CASE SocketStep BY <1>5, SocketFrame DEF bootVars
<1>6. CASE ExchangeStep BY <1>6, ExchangeFrame DEF bootVars
<1>7. CASE ReconStep BY <1>7, ReconFrame DEF bootVars
<1>8. CASE Crash BY <1>8 DEF Crash
<1>9. CASE StartStep BY <1>9, StartFrame
<1>10. CASE UNCHANGED vars BY <1>10 DEF vars, bootVars
<1> QED BY <1>1, <1>2, <1>3, <1>4, <1>5, <1>6, <1>7, <1>8, <1>9, <1>10, StepKinds

\* A dry run gives its worker nothing to do.
Lazy == queue = << >> /\ worker.batch = << >> /\ worker.legs = << >>

\* Every step of a dry run leaves its worker idle.
LEMMA StepLazy ==
    ASSUME Inv, [Next]_vars, plan.dryRun
    PROVE  Lazy'
<1>0. Lazy BY DEF Inv, OnceInv, Lazy
<1>k. ASSUME UNCHANGED <<queue, worker>> PROVE Lazy' BY <1>0, <1>k DEF Lazy
<1>1. CASE Submit
  <2>1. queue' = queue BY <1>1 DEF Submit, submitIntents, Execute, ExecuteDryRun
  <2> QED BY <1>1, <1>k, <2>1, SubmitFrame
<1>2. CASE EngineStep BY <1>2, <1>k, EngineFrame DEF executorVars
<1>3. CASE CleanStep BY <1>3, <1>k, CleanFrame DEF executorVars
<1>4. CASE WorkerStep
  <2>1. ~ WorkerTake BY <1>0 DEF WorkerTake, Lazy
  <2>2. ~ WorkerPost /\ ~ WorkerCancel /\ ~ WorkerLegs
    BY <1>0 DEF WorkerPost, WorkerCancel, WorkerLegs, WorkerAt, Lazy
  <2>3. \A ok \in BOOLEAN : ~ WorkerRelay(ok) BY <1>0 DEF WorkerRelay, Lazy
  <2>4. CASE WorkerTrack
    <3>1. worker' = [worker EXCEPT !.tracked = TRUE] /\ queue' = queue BY <2>4 DEF WorkerTrack
    <3> QED BY <1>0, <3>1, WorkerParts DEF Lazy, Inv
  <2>5. CASE WorkerPublish
    <3>1. worker' = [worker EXCEPT !.todo = Tail(@), !.tracked = FALSE] /\ queue' = queue
      BY <2>5 DEF WorkerPublish
    <3> QED BY <1>0, <3>1, WorkerParts DEF Lazy, Inv
  <2> QED BY <1>4, <2>1, <2>2, <2>3, <2>4, <2>5 DEF WorkerStep
<1>5. CASE SocketStep BY <1>5, <1>k, SocketFrame
<1>6. CASE ExchangeStep BY <1>6, <1>k, ExchangeFrame DEF executorVars
<1>7. CASE ReconStep BY <1>7, <1>k, ReconFrame DEF executorVars
<1>8. CASE Crash BY <1>8 DEF Crash, Idle, Lazy
<1>9. CASE StartStep BY <1>9, <1>k, StartFrame DEF executorVars
<1>10. CASE UNCHANGED vars BY <1>10, <1>k DEF vars, executorVars
<1> QED BY <1>1, <1>2, <1>3, <1>4, <1>5, <1>6, <1>7, <1>8, <1>9, <1>10, StepKinds

\* Every step keeps OnceInv.
LEMMA StepOnce == Inv /\ [Next]_vars => OnceInv'
<1> SUFFICES ASSUME Inv, [Next]_vars PROVE OnceInv'
  OBVIOUS
<1>1. plan' = plan BY PlanStays
<1>2. OnceOnly(exch', trades') BY StepExchange
<1>3. \A o \in Ids : OffBook(o)' <=> OffBook(o) BY <1>1 DEF OffBook
<1>4. plan.dryRun => Lazy' BY StepLazy
<1> QED BY <1>1, <1>2, <1>3, <1>4 DEF OnceInv, OnceOnly, Lazy

\* What a process has in its memory, but for the ledger and the accepted orders.
Empty ==
    /\ finalized = {} /\ \A o \in Ids : pending[o] = << >>
    /\ LoopFree /\ bus = << >> /\ queue = << >> /\ worker = Idle /\ wsOut = << >> /\ ws = << >>

\* Every step keeps the memory of a process that is not up empty.
LEMMA StepDown == Inv /\ [Next]_vars => DownInv'
<1> SUFFICES ASSUME Inv, [Next]_vars, ~ Up' PROVE Empty'
  BY DEF DownInv, Empty
<1>e. ~ Up => Empty BY DEF Inv, DownInv, Empty
<1>b. ASSUME UNCHANGED bootVars PROVE ~ Up /\ Empty BY <1>b, <1>e DEF bootVars, Up
<1>k. ASSUME Empty, UNCHANGED <<finalized, pending, loop, bus, queue, worker, wsOut, ws>>
      PROVE  Empty'
  BY <1>k DEF Empty, LoopFree
<1>1. ~ Submit
  <2> SUFFICES ASSUME Submit PROVE FALSE OBVIOUS
  <2>1. Up /\ UNCHANGED bootVars BY SubmitFrame DEF Submit, submitIntents
  <2> QED BY <1>b, <2>1
<1>2. ~ EngineStep
  <2> SUFFICES ASSUME EngineStep PROVE FALSE OBVIOUS
  <2>1. Empty BY <1>b, EngineFrame
  <2> QED BY <2>1 DEF Empty, LoopFree, EngineStep, Receive, Replay, CloseFilled
<1>3. CASE CleanStep
  <2>1. Empty BY <1>3, <1>b, CleanFrame
  <2>2. UNCHANGED <<loop, executorVars, bus, exchangeVars>> BY <1>3, CleanFrame
  <2>3. UNCHANGED <<finalized, pending>>
    <3>1. ASSUME NEW S \in SUBSET Ids PROVE ~ cleanupExpiredPending(S)
      BY <2>1 DEF Empty, cleanupExpiredPending
    <3>2. ASSUME NEW S \in SUBSET Ids PROVE ~ cleanupExpiredFinalized(S)
      BY <2>1 DEF Empty, cleanupExpiredFinalized
    <3>3. cleanupExpiredProvisional \/ Tick BY <1>3, <3>1, <3>2 DEF CleanStep
    <3> QED BY <3>3 DEF cleanupExpiredProvisional, Tick, engineVars
  <2> QED BY <1>k, <2>1, <2>2, <2>3 DEF executorVars, exchangeVars
<1>4. ~ WorkerStep
  <2> SUFFICES ASSUME WorkerStep PROVE FALSE OBVIOUS
  <2>1. Empty BY <1>b, WorkerFrame
  <2>2. ~ WorkerTake BY <2>1 DEF WorkerTake, Empty
  <2>3. ~ WorkerPost /\ ~ WorkerCancel /\ ~ WorkerLegs
    BY <2>1 DEF WorkerPost, WorkerCancel, WorkerLegs, WorkerAt, Empty, Idle
  <2>4. \A ok \in BOOLEAN : ~ WorkerRelay(ok) BY <2>1 DEF WorkerRelay, Empty, Idle
  <2>5. ~ WorkerTrack /\ ~ WorkerPublish BY <2>1 DEF WorkerTrack, WorkerPublish, Empty, Idle
  <2> QED BY <2>2, <2>3, <2>4, <2>5 DEF WorkerStep
<1>5. ~ SocketStep
  <2> SUFFICES ASSUME SocketStep PROVE FALSE OBVIOUS
  <2>1. Empty BY <1>b, SocketFrame
  <2> QED BY <2>1 DEF Empty, SocketStep, Deliver, WSPublish
<1>6. CASE ExchangeStep
  <2>1. ~ Up /\ Empty BY <1>6, <1>b, ExchangeFrame
  <2>2. ws' = ws
    <3>1. ASSUME NEW o \in Ids, OpenByHand(o) \/ CancelByExchange(o) PROVE ws' = ws
      BY <2>1, <3>1 DEF OpenByHand, CancelByExchange, Open, CancelOnExchange, Send
    <3>2. ASSUME NEW o \in Ids, NEW size, NEW price, Match(o, size, price) PROVE ws' = ws
      BY <3>2 DEF Match
    <3>3. ASSUME NEW o \in Ids, NEW n, NEW outcome, Settle(o, n, outcome) PROVE ws' = ws
      BY <2>1, <3>3 DEF Settle, Send
    <3>4. ASSUME NEW o \in Ids, NEW n, Redeliver(o, n) PROVE ws' = ws
      BY <2>1, <3>4 DEF Redeliver, Send
    <3> QED BY <1>6, <3>1, <3>2, <3>3, <3>4 DEF ExchangeStep
  <2> QED BY <1>6, <1>k, <2>1, <2>2, ExchangeFrame DEF engineVars, executorVars
<1>7. CASE ReconStep BY <1>7, <1>b, <1>k, ReconFrame DEF engineVars, executorVars, exchangeVars
<1>8. CASE Crash BY <1>8 DEF Crash, Empty, LoopFree
<1>9. CASE StartStep
  <2>1. boot.at # "up"
    <3>1. BootLoops => Up' BY DEF BootLoops, BootStep, Up, Inv, BootType
    <3>2. ASSUME NEW ok \in BOOLEAN
          PROVE  ReadOnchainBalance(ok) \/ BootOpenOrders(ok) \/ BootPositions(ok) => boot.at # "up"
      BY DEF ReadOnchainBalance, BootOpenOrders, BootPositions, BootStep
    <3>3. SyncBalance \/ BootBalance \/ BootRestore => boot.at # "up"
      BY DEF SyncBalance, BootBalance, BootRestore, BootStep
    <3> QED BY <1>9, <3>1, <3>2, <3>3 DEF StartStep
  <2> QED BY <1>9, <1>e, <1>k, <2>1, StartFrame DEF Up, executorVars, exchangeVars
<1>10. CASE UNCHANGED vars BY <1>10, <1>b, <1>k DEF vars, engineVars, executorVars, exchangeVars
<1> QED BY <1>1, <1>2, <1>3, <1>4, <1>5, <1>6, <1>7, <1>8, <1>9, <1>10, StepKinds

-----------------------------------------------------------------------------
(* What holds in every reachable state.                                    *)

\* The first state satisfies the invariant.
LEMMA InitInv == Init => Inv
<1> SUFFICES ASSUME Init PROVE Inv
  OBVIOUS
<1>1. Covers(ledger)
  <2>1. ledger = OpeningLedger BY DEF Init
  <2>2. Sound(OpeningLedger) /\ HeldBy(OpeningLedger, Balance) = 0 /\ OpeningLedger.Reserved = 0
    BY OpeningSound
  <2>3. IsLedger(OpeningLedger, Ids, Tokens) BY <2>2 DEF Sound
  <2>4. Funded(OpeningLedger.Orders) /\ Funded(OpeningLedger.Provisionals) BY <2>2, SoundFunded
  <2> QED BY <2>1, <2>2, <2>3, <2>4 DEF Covers
<1>2. << >> \in Seq(Events) /\ << >> \in Seq(Seq(Intents)) /\ << >> \in Seq(Intents)
      /\ << >> \in Seq(Trades) /\ << >> \in Seq(Messages)
      /\ \A T : Len(<< >>) = 0 /\ DOMAIN << >> = {}
  OBVIOUS
<1>3. LoopType /\ TrackingConsistent BY <1>2 DEF Init, LoopType, TrackingConsistent
<1>4. ChannelType /\ asked \subseteq plan.batches /\ harmed \subseteq Ids
  BY <1>2, OrderFlowAssumption DEF Init, ChannelType
<1>5. ExecutorType
  <2>1. tracked = << >> /\ queue = << >> /\ worker = Idle /\ wsOut = << >> BY DEF Init
  <2>2. Idle \in Workers BY <1>2 DEF Idle, Workers
  <2>3. Len(queue) <= QueueCap BY <1>2, <2>1, OrderFlowAssumption
  <2>4. IsMap(tracked, Ids, TrackedOrders) /\ DOMAIN tracked = {} BY <1>2, <2>1 DEF IsMap
  <2> QED BY <1>2, <2>1, <2>2, <2>3, <2>4 DEF ExecutorType
<1>6. ExchangeType BY <1>2 DEF Init, ExchangeType
<1>7. ReconType
  <2>1. recon = NoFetch BY DEF Init
  <2>2. FetchIs(recon, "idle", << >>, << >>) BY <2>1 DEF NoFetch, FetchIs
  <2> QED BY <2>2, NoAnswer, FetchIsType, ReconParts
<1>8. BootType
  <2>1. boot = Booted /\ crashes \in Nat /\ plan \in Plans BY DEF Init
  <2>2. StartIs(boot, "up", 0, << >>, << >>, <<0, 0>>, "nothing") BY <2>1 DEF Booted, StartIs
  <2>3. "up" \in Starts /\ "nothing" \in Misses /\ <<0, 0>> \in Int \X Nat BY DEF Starts, Misses
  <2>4. StartType(boot) BY <2>2, <2>3, NoAnswer, StartIsType
  <2> QED BY <2>1, <2>4, StartParts
<1>9. DownInv BY DEF Init, DownInv, Up, Booted
<1>10. OnceInv BY <1>2 DEF Init, OnceInv, Idle
<1> QED BY <1>1, <1>3, <1>4, <1>5, <1>6, <1>7, <1>8, <1>9, <1>10 DEF Inv

\* Every step preserves the invariant.
LEMMA StepInv == Inv /\ [Next]_vars => Inv'
<1> SUFFICES ASSUME Inv, [Next]_vars PROVE Inv'
  OBVIOUS
<1>1. Covers(ledger)' /\ LoopType' /\ TrackingConsistent' BY StepCovers, StepTracks
<1>2. ChannelType' /\ (asked \subseteq plan.batches)' /\ (harmed \subseteq Ids)' BY StepChannel
<1>3. ExecutorType' /\ ExchangeType' BY StepExecutor, StepExchange
<1>4. ReconType' /\ BootType' BY StepRecon, StepBoot
<1>5. DownInv' /\ OnceInv' BY StepDown, StepOnce
<1> QED BY <1>1, <1>2, <1>3, <1>4, <1>5 DEF Inv

\* The invariant holds in every reachable state.
LEMMA OrderFlowInv == Spec => []Inv
BY InitInv, StepInv, PTL DEF Spec

\* Every goroutine's memory and every channel stay well formed through submission,
\* confirmation, fills, expiry, crashes and restarts, the two bounded channels keep
\* their capacity, and a price stays within its order's limit on every way from the
\* exchange to the engine.
THEOREM OrderFlowType == Spec => []TypeOK
BY OrderFlowInv, InvType, PTL

\* No order of events revives an order that finalizeOrder has ended, and
\* bufferExecution holds events only of orders neither accepted nor ended.
THEOREM OrderFlowTracking == Spec => []TrackingConsistent
<1>1. Inv => TrackingConsistent BY DEF Inv
<1> QED BY <1>1, OrderFlowInv, PTL

\* The balance's Reserved covers the BUY reservations across crashes, Restore and
\* reconcile passes, none of which checks for funds: the clamp at zero in
\* releaseReservedLocked never mints money.
THEOREM OrderFlowReservedCovers == Spec => []ReservedCovers
<1>1. Inv => ReservedCovers
  <2> SUFFICES ASSUME Inv PROVE ReservedCovers OBVIOUS
  <2>1. Covers(ledger) BY DEF Inv
  <2> QED BY <2>1, CoversNumbers DEF HeldBy, ReservedCovers
<1> QED BY <1>1, OrderFlowInv, PTL

-----------------------------------------------------------------------------
(* The first life of a process without a reconcile loop: no operation that *)
(* reserves without a funds check runs.                                    *)

FirstLife == ~ Reconciling /\ crashes = 0

SoundInv == FirstLife => boot.at = "up" /\ recon.at = "idle" /\ Sound(ledger)

\* One event of the engine loop.
LEMMA HandleSound ==
    ASSUME Sound(ledger), NEW e \in Events, NEW rest, handleExecutionEvent(e, rest)
    PROVE  Sound(ledger')
<1> DEFINE o == e.OrderID
           q == Order[o]
<1>1. CASE ledger' = ledger BY <1>1
<1>2. CASE HandleRejectedIntent(e, rest)
  BY <1>2, ReleaseProvisionalSound DEF HandleRejectedIntent
<1>3. ASSUME o # NoOrder, HandleAccepted(e, rest) PROVE Sound(ledger')
  <2>1. o \in Ids /\ e.ParentOrderID \in {o, NoIntent} BY <1>3, EventParts
  <2>2. e.ParentOrderID = o \/ e.ParentOrderID \notin Ids BY <2>1, OrderFlowAssumption
  <2> DEFINE r == AttachOrder(ledger, e.ParentOrderID, o, q.TokenID, q.Side, q.Price,
                              q.RequestedSize)
  <2>3. ledger' = r.st BY <1>3 DEF HandleAccepted
  <2>4. Sound(r.st) BY <2>1, <2>2, AttachSound
  <2> QED BY <2>3, <2>4
<1>4. ASSUME o # NoOrder, HandleFill(e, rest) PROVE Sound(ledger')
  <2>1. /\ o \in Ids /\ e.FilledSize \in Nat /\ e.Price \in Nat /\ 1 \in Nat
        /\ WithinLimit(o, e.Price)
    BY <1>4, EventParts
  <2>2. ledger' = ApplyFill(ledger, o, q.TokenID, q.Side, e.FilledSize, e.Price, 1)
    BY <1>4 DEF HandleFill
  <2> HIDE DEF o
  <2> QED BY <2>1, <2>2, ApplyFillSound
<1>5. CASE HandleEnd(e, rest)
  <2> DEFINE freed == IF e.Status = "Rejected" THEN ReleaseProvisional(ledger, e.ParentOrderID)
                                               ELSE ledger
  <2>1. ledger' = IF o \in accepted THEN ReleaseOrder(freed, o) ELSE freed
    BY <1>5 DEF HandleEnd
  <2>2. Sound(freed) BY ReleaseProvisionalSound
  <2> HIDE DEF freed
  <2> QED BY <2>1, <2>2, ReleaseOrderSound
<1>6. \/ ledger' = ledger \/ HandleRejectedIntent(e, rest) \/ HandleEnd(e, rest)
      \/ (o # NoOrder /\ HandleAccepted(e, rest))
      \/ (o # NoOrder /\ HandleFill(e, rest))
  BY DEF handleExecutionEvent, Ignore, bufferExecution
<1> QED BY <1>1, <1>2, <1>3, <1>4, <1>5, <1>6

\* A batch of intents.
LEMMA SubmitSound ==
    ASSUME Inv, Sound(ledger), NEW batch \in plan.batches, submitIntents(batch)
    PROVE  Sound(ledger')
<1> DEFINE r == FoldLeft(reserveIntent, [st |-> ledger, submit |-> << >>], batch)
           L == {s \in Ledgers : Sound(s)}
<1>1. ledger' = r.st BY DEF submitIntents
<1>2. batch \in Seq(Intents) BY PlanParts DEF Inv, BootType
<1>3. \A s : Sound(s) => s \in L
  <2> SUFFICES ASSUME NEW s, Sound(s) PROVE s \in Ledgers OBVIOUS
  <2> QED BY LedgerInSet DEF Sound
<1>4. \A v \in L : \A i \in Ids :
            TryReserveProvisional(v, i, Order[i].TokenID, Order[i].Side, Order[i].Price,
                                  Order[i].RequestedSize).st \in L
  <2> SUFFICES ASSUME NEW v \in L, NEW i \in Ids
               PROVE  Sound(TryReserveProvisional(v, i, Order[i].TokenID, Order[i].Side,
                                                  Order[i].Price, Order[i].RequestedSize).st)
    BY <1>3
  <2> QED BY TryReserveSound
<1>5. ledger \in L BY <1>3
<1>6. \A s \in L : Sound(s) OBVIOUS
<1> HIDE DEF L
<1>7. r \in [st : L, submit : Seq(Range(batch))] BY <1>2, <1>4, <1>5, SubmitLoop
<1> HIDE DEF r
<1> QED BY <1>1, <1>6, <1>7

\* Every step of a first life keeps the ledger sound.
LEMMA StepSound == Inv /\ SoundInv /\ [Next]_vars => SoundInv'
<1> SUFFICES ASSUME Inv, SoundInv, [Next]_vars, FirstLife'
             PROVE  boot'.at = "up" /\ recon'.at = "idle" /\ Sound(ledger')
  BY DEF SoundInv
<1>1. ~ Crash BY DEF Crash, FirstLife, Inv, BootType
<1>2. crashes' = crashes
  BY <1>1, StepKinds, SubmitFrame, EngineFrame, CleanFrame, WorkerFrame, SocketFrame,
     ExchangeFrame, ReconFrame, StartFrame DEF bootVars, vars
<1>3. ~ Reconciling /\ boot.at = "up" /\ recon.at = "idle" /\ Sound(ledger)
  BY <1>2 DEF FirstLife, SoundInv
<1>4. ~ ReconStep
  BY <1>3 DEF ReconStep, GetOpenOrders, GetPositions, GetPositionsFails, ReconcileOrders,
     ReconcilePositions
<1>5. ~ StartStep
  BY <1>3 DEF StartStep, BootStep, ReadOnchainBalance, BootOpenOrders, BootPositions, SyncBalance,
     BootBalance, BootRestore, BootLoops
<1>6. UNCHANGED <<boot, recon>>
  BY <1>1, <1>4, <1>5, StepKinds, SubmitFrame, EngineFrame, CleanFrame, WorkerFrame, SocketFrame,
     ExchangeFrame DEF bootVars, vars
<1> SUFFICES Sound(ledger') BY <1>3, <1>6
<1>7. LoopType /\ ChannelType BY DEF Inv
<1>8. CASE Submit BY <1>3, <1>8, SubmitSound DEF Submit
<1>9. CASE EngineStep
  <2>1. CASE Receive
    <3>1. bus # << >> /\ handleExecutionEvent(Head(bus), << >>) BY <2>1 DEF Receive
    <3>2. Head(bus) \in Events BY <1>7, <3>1 DEF ChannelType
    <3> QED BY <1>3, <3>1, <3>2, HandleSound
  <2>2. CASE Replay
    <3>1. loop.replay # << >> /\ handleExecutionEvent(Head(loop.replay), Tail(loop.replay))
      BY <2>2 DEF Replay
    <3>2. Head(loop.replay) \in Events BY <1>7, <3>1 DEF LoopType
    <3> QED BY <1>3, <3>1, <3>2, HandleSound
  <2>3. CASE CloseFilled BY <1>3, <2>3, ReleaseOrderSound DEF CloseFilled
  <2> QED BY <1>9, <2>1, <2>2, <2>3 DEF EngineStep
<1>10. CASE CleanStep
  <2>1. CASE ledger' = ledger BY <1>3, <2>1
  <2>2. CASE cleanupExpiredProvisional BY <1>3, <2>2, CleanupSound DEF cleanupExpiredProvisional
  <2>3. CASE Tick BY <1>3, <2>3, ElapseSound DEF Tick
  <2> QED BY <1>10, <2>1, <2>2, <2>3 DEF CleanStep, cleanupExpiredPending, cleanupExpiredFinalized
<1>11. CASE WorkerStep BY <1>3, <1>11, WorkerFrame
<1>12. CASE SocketStep BY <1>3, <1>12, SocketFrame
<1>13. CASE ExchangeStep BY <1>3, <1>13, ExchangeFrame
<1>14. CASE UNCHANGED vars BY <1>3, <1>14 DEF vars
<1> QED BY <1>1, <1>4, <1>5, <1>8, <1>9, <1>10, <1>11, <1>12, <1>13, <1>14, StepKinds

\* From the start of the process to its first crash, without reconcile, no
\* interleaving of submissions, confirmations, fills, expiries and cancels (in any
\* order the messages take) spends money or tokens twice, and every reservation
\* still pays for what remains of its order.
THEOREM OrderFlowFirstLife ==
    Spec => []((~ Reconciling /\ crashes = 0) =>
                    /\ Solvent(ledger)
                    /\ FullyCollateralised(ledger.Orders)
                    /\ FullyCollateralised(ledger.Provisionals))
<1>1. Init => SoundInv
  BY OpeningSound DEF Init, SoundInv, Booted, NoFetch
<1>2. Inv /\ SoundInv /\ [Next]_vars => SoundInv' BY StepSound
<1>3. SoundInv => ((~ Reconciling /\ crashes = 0) =>
                    /\ Solvent(ledger)
                    /\ FullyCollateralised(ledger.Orders)
                    /\ FullyCollateralised(ledger.Provisionals))
  BY DEF SoundInv, FirstLife, Sound, Backed
<1> QED BY <1>1, <1>2, <1>3, OrderFlowInv, PTL DEF Spec

-----------------------------------------------------------------------------
(* Every trade is booked once.  The account: what was booked as bought is  *)
(* at most what the settled trades were told of, less what waits between   *)
(* there and the ledger.                                                   *)

\* What an event says was filled of o, and what the events of q say together.
AmountOf(e, o) == IF e.OrderID = o THEN e.FilledSize ELSE 0
Amounts(q, o) == [n \in DOMAIN q |-> AmountOf(q[n], o)]
Coming(q, o) == SumOver(Amounts(q, o), DOMAIN q)

\* All the places where events wait.
InFlight(o) ==
    Coming(bus, o) + Coming(wsOut, o) + Coming(worker.todo, o) + Coming(loop.replay, o)
        + Coming(pending[o], o)

\* The settled trades of o that were made into events: the relayer's and the paper
\* ones when they happened, the others when the WebSocket consumer met their id.
Heard(o) == IF OffBook(o) THEN DOMAIN trades[o]
            ELSE getOrCreateTracked(tracked, o).SeenTradeIDs

\* What those of the trades tr settled for whose number is in S.
Settled(tr, S) ==
    SumOver([n \in DOMAIN tr |-> IF tr[n].st = "MINED" /\ n \in S THEN tr[n].size ELSE 0],
            DOMAIN tr)

Told(o) == Settled(trades[o], Heard(o))

\* What the ledger may have booked of o, and of a token's purchases.
Due(o) == Told(o) - InFlight(o)
Purchases(t) == {o \in Ids : Order[o].TokenID = t /\ Order[o].Side = "BUY"}
TallyOf(f) == [t \in Tokens |-> SumOver(f, Purchases(t))]
Tally == TallyOf([o \in Ids |-> Due(o)])

\* No more was booked as bought than was told and is not on its way any more.
BookedOnce == Bounded(ledger, Tally)

\* Messages of trades speak of orders in the book, and of trades that settled.
MessagesTrue ==
    \A n \in DOMAIN ws : ws[n].kind = "trade" =>
        /\ ~ OffBook(ws[n].order)
        /\ ws[n].status = "MINED" => trades[ws[n].order][ws[n].id].st = "MINED"

\* An order that was not opened has no trade, nor have the legs the relayer is asked
\* about; the trade of an order outside the book is settled.
NothingYet ==
    /\ \A o \in Ids : exch[o] = "none" => trades[o] = << >>
    /\ worker.legs # << >> => Fresh(worker.legs)
    /\ \A o \in Ids : OffBook(o) => \A n \in DOMAIN trades[o] : trades[o][n].st = "MINED"

\* What is buffered for an order are its own events.
BufferedOwn == \A o \in Ids : \A n \in DOMAIN pending[o] : pending[o][n].OrderID = o

OnceOnlyInv == BookedOnce /\ MessagesTrue /\ NothingYet /\ BufferedOwn

\* The amounts are natural numbers.
LEMMA AmountType ==
    ASSUME NEW e \in Events, NEW o \in Ids
    PROVE  AmountOf(e, o) \in Nat
<1>1. e.OrderID = o => e.OrderID # NoOrder BY OrderFlowAssumption
<1> QED BY <1>1, EventParts DEF AmountOf

\* ... and so are their sums.
LEMMA ComingType ==
    ASSUME NEW q \in Seq(Events), NEW o \in Ids
    PROVE  /\ Amounts(q, o) \in Seq(Int) /\ DOMAIN Amounts(q, o) = DOMAIN q
           /\ DOMAIN q = 1 .. Len(q) /\ IsFiniteSet(DOMAIN q)
           /\ \A n \in DOMAIN q : Amounts(q, o)[n] = AmountOf(q[n], o) /\ Amounts(q, o)[n] \in Nat
           /\ Coming(q, o) \in Nat
<1>1. DOMAIN q = 1 .. Len(q) /\ Len(q) \in Nat OBVIOUS
<1>2. \A n \in 1 .. Len(q) : AmountOf(q[n], o) \in Nat BY AmountType
<1>3. \A n \in 1 .. Len(q) : AmountOf(q[n], o) \in Int BY <1>2
<1>4. [n \in 1 .. Len(q) |-> AmountOf(q[n], o)] \in Seq(Int) BY <1>1, <1>3, IsASeq
<1>5. IsFiniteSet(DOMAIN q) BY <1>1, FS_Interval
<1>6. \A n \in DOMAIN q : Amounts(q, o)[n] = AmountOf(q[n], o) /\ Amounts(q, o)[n] \in Nat
  BY <1>1, <1>2 DEF Amounts
<1>7. Coming(q, o) \in Nat
  <2>1. \A n \in DOMAIN q : Amounts(q, o)[n] \in Int /\ Amounts(q, o)[n] \in Nat BY <1>6
  <2> QED BY <1>5, <2>1, SumType DEF Coming
<1> QED BY <1>1, <1>4, <1>5, <1>6, <1>7 DEF Amounts

\* Events that say nothing of o.
LEMMA ComingNothing ==
    ASSUME NEW q \in Seq(Events), NEW o \in Ids, \A n \in DOMAIN q : AmountOf(q[n], o) = 0
    PROVE  Coming(q, o) = 0
<1>1. \A n \in DOMAIN q : Amounts(q, o)[n] = 0 BY ComingType
<1>2. IsFiniteSet(DOMAIN q) BY ComingType
<1> QED BY <1>1, <1>2, SumZero DEF Coming

\* No events.
LEMMA ComingEmpty ==
    ASSUME NEW o
    PROVE  Coming(<< >>, o) = 0
<1>1. DOMAIN << >> = {} OBVIOUS
<1> QED BY <1>1, SumEmpty DEF Coming

\* Two sequences, one after the other, are known by their parts.
LEMMA ConcatIs ==
    ASSUME NEW a \in Seq(Int), NEW b \in Seq(Int), NEW c \in Seq(Int),
           Len(c) = Len(a) + Len(b),
           \A n \in 1 .. Len(a) : c[n] = a[n],
           \A n \in 1 .. Len(b) : c[Len(a) + n] = b[n]
    PROVE  c = a \o b
<1> DEFINE d == a \o b
<1>1. d \in Seq(Int) /\ Len(d) = Len(c) OBVIOUS
<1>2. ASSUME NEW n \in 1 .. Len(c) PROVE c[n] = d[n]
  <2>1. CASE n \in 1 .. Len(a)
    <3>1. d[n] = a[n] BY <2>1
    <3> QED BY <2>1, <3>1
  <2>2. CASE n \notin 1 .. Len(a)
    <3>1. n - Len(a) \in 1 .. Len(b) /\ n = Len(a) + (n - Len(a)) BY <2>2
    <3>2. d[n] = b[n - Len(a)] BY <2>2
    <3> QED BY <3>1, <3>2
  <2> QED BY <2>1, <2>2
<1> HIDE DEF d
<1>3. c = d BY <1>1, <1>2, SeqEqual
<1> QED BY <1>3 DEF d

\* One sequence after another.
LEMMA ComingConcat ==
    ASSUME NEW p \in Seq(Events), NEW q \in Seq(Events), NEW o \in Ids
    PROVE  Coming(p \o q, o) = Coming(p, o) + Coming(q, o)
<1> DEFINE r == p \o q
           a == Amounts(p, o)
           b == Amounts(q, o)
           c == Amounts(r, o)
<1>1. r \in Seq(Events) /\ Len(r) = Len(p) + Len(q) OBVIOUS
<1>2. \A n \in 1 .. Len(p) : n \in 1 .. Len(r) /\ r[n] = p[n] OBVIOUS
<1>3. \A n \in 1 .. Len(q) : Len(p) + n \in 1 .. Len(r) /\ r[Len(p) + n] = q[n] OBVIOUS
<1> HIDE DEF r
<1>4. a \in Seq(Int) /\ DOMAIN a = 1 .. Len(p) /\ Len(p) \in Nat BY ComingType
<1>5. b \in Seq(Int) /\ DOMAIN b = 1 .. Len(q) /\ Len(q) \in Nat BY ComingType
<1>6. c \in Seq(Int) /\ DOMAIN c = 1 .. Len(r) /\ Len(r) \in Nat BY <1>1, ComingType
<1>7. \A n \in 1 .. Len(r) : c[n] = AmountOf(r[n], o) BY <1>1, ComingType
<1>8. \A n \in 1 .. Len(p) : a[n] = AmountOf(p[n], o) BY ComingType
<1>9. \A n \in 1 .. Len(q) : b[n] = AmountOf(q[n], o) BY ComingType
<1>10. Coming(r, o) = SumOver(c, DOMAIN c) BY <1>1, ComingType DEF Coming
<1>11. Coming(p, o) = SumOver(a, DOMAIN a) /\ Coming(q, o) = SumOver(b, DOMAIN b)
  BY ComingType DEF Coming
<1> HIDE DEF a, b, c
<1>12. Len(a) = Len(p) /\ Len(b) = Len(q) /\ Len(c) = Len(r) BY <1>4, <1>5, <1>6
<1>13. \A n \in 1 .. Len(a) : c[n] = a[n] BY <1>2, <1>7, <1>8, <1>12
<1>14. \A n \in 1 .. Len(b) : c[Len(a) + n] = b[n] BY <1>3, <1>7, <1>9, <1>12
<1>15. c = a \o b BY <1>1, <1>4, <1>5, <1>6, <1>12, <1>13, <1>14, ConcatIs
<1> QED BY <1>4, <1>5, <1>10, <1>11, <1>15, SumConcat DEF r

\* One event.
LEMMA ComingOne ==
    ASSUME NEW e \in Events, NEW o \in Ids
    PROVE  <<e>> \in Seq(Events) /\ Coming(<<e>>, o) = AmountOf(e, o)
<1> DEFINE q == <<e>>
<1>1. q \in Seq(Events) /\ DOMAIN q = {1} /\ q[1] = e OBVIOUS
<1> HIDE DEF q
<1>2. /\ IsFiniteSet(DOMAIN q)
      /\ \A n \in DOMAIN q : Amounts(q, o)[n] = AmountOf(q[n], o) /\ Amounts(q, o)[n] \in Nat
  BY <1>1, ComingType
<1>3. \A n \in DOMAIN q : Amounts(q, o)[n] \in Int BY <1>2
<1>4. Coming(q, o) = Amounts(q, o)[1] + SumOver(Amounts(q, o), DOMAIN q \ {1})
  BY <1>1, <1>2, <1>3, SumRemove DEF Coming
<1>5. SumOver(Amounts(q, o), DOMAIN q \ {1}) = 0
  <2>1. DOMAIN q \ {1} = {} BY <1>1
  <2> QED BY <2>1, SumEmpty
<1>6. Amounts(q, o)[1] = AmountOf(e, o) /\ AmountOf(e, o) \in Nat BY <1>1, <1>2
<1>7. Coming(q, o) = AmountOf(e, o) BY <1>4, <1>5, <1>6
<1> QED BY <1>1, <1>7 DEF q

\* One event more at the end ...
LEMMA ComingAppend ==
    ASSUME NEW q \in Seq(Events), NEW e \in Events, NEW o \in Ids
    PROVE  Coming(Append(q, e), o) = Coming(q, o) + AmountOf(e, o)
<1>1. Append(q, e) = q \o <<e>> OBVIOUS
<1> QED BY <1>1, ComingOne, ComingConcat

\* ... or at the beginning.
LEMMA ComingTail ==
    ASSUME NEW q \in Seq(Events), q # << >>, NEW o \in Ids
    PROVE  /\ Head(q) \in Events /\ Tail(q) \in Seq(Events)
           /\ Coming(q, o) = AmountOf(Head(q), o) + Coming(Tail(q), o)
<1>1. Head(q) \in Events /\ Tail(q) \in Seq(Events) /\ q = <<Head(q)>> \o Tail(q) OBVIOUS
<1> DEFINE h == Head(q)
           t == Tail(q)
<1> HIDE DEF h, t
<1>2. Coming(<<h>> \o t, o) = AmountOf(h, o) + Coming(t, o)
  BY <1>1, ComingOne, ComingConcat DEF h, t
<1> QED BY <1>1, <1>2 DEF h, t

\* What is published arrives, or a part of it does.
LEMMA ComingPublish ==
    ASSUME ChannelType, NEW out \in Seq(Events), NEW refused, Publish(out, refused), NEW o \in Ids
    PROVE  Coming(bus', o) <= Coming(bus, o) + Coming(out, o)
<1> DEFINE room == BusCap - Len(bus)
           m == IF Len(out) <= room THEN Len(out) ELSE room
           sent == SubSeq(out, 1, m)
<1>1. bus' = bus \o sent BY DEF Publish
<1>2. m \in Nat /\ m <= Len(out) /\ bus \in Seq(Events)
  BY OrderFlowAssumption DEF ChannelType
<1> HIDE DEF m
<1>3. /\ sent \in Seq(Events) /\ Len(sent) = m
      /\ \A n \in 1 .. m : sent[n] = out[n]
  <2>1. 1 \in 1 .. (Len(out) + 1) /\ m \in (1 - 1) .. Len(out) BY <1>2
  <2>2. sent \in Seq(Events) /\ Len(sent) = m - 1 + 1
        /\ \A n \in 1 .. (m - 1 + 1) : sent[n] = out[1 + n - 1]
    BY <2>1, SubSeqProperties
  <2> QED BY <1>2, <2>2
<1> HIDE DEF sent
<1>4. DOMAIN sent = 1 .. m /\ DOMAIN sent \subseteq DOMAIN out BY <1>2, <1>3
<1>5. Coming(sent, o) <= Coming(out, o)
  <2> DEFINE f == Amounts(out, o)
  <2>1. IsFiniteSet(DOMAIN out) /\ \A n \in DOMAIN out : f[n] \in Nat BY ComingType
  <2>2. IsFiniteSet(DOMAIN sent) /\ \A n \in DOMAIN sent : Amounts(sent, o)[n] \in Nat
    BY <1>3, ComingType
  <2>3. \A n \in DOMAIN sent : Amounts(sent, o)[n] \in Int /\ Amounts(sent, o)[n] = f[n]
    BY <1>3, <1>4, <2>2 DEF Amounts
  <2> HIDE DEF f
  <2>4. SumOver(Amounts(sent, o), DOMAIN sent) = SumOver(f, DOMAIN sent)
    BY <2>2, <2>3, SumCong
  <2>5. SumOver(f, DOMAIN sent) <= SumOver(f, DOMAIN out) BY <1>4, <2>1, SumPart
  <2> QED BY <2>4, <2>5 DEF Coming, f
<1>6. Coming(bus', o) = Coming(bus, o) + Coming(sent, o) BY <1>1, <1>2, <1>3, ComingConcat
<1>7. Coming(bus, o) \in Nat /\ Coming(sent, o) \in Nat /\ Coming(out, o) \in Nat
  BY <1>2, <1>3, ComingType
<1> QED BY <1>5, <1>6, <1>7

\* The trades of an order, and the part of them that counts.
LEMMA SettledParts ==
    ASSUME NEW tr \in Seq(Trades), NEW S
    PROVE  /\ IsFiniteSet(DOMAIN tr)
           /\ \A n \in DOMAIN tr : tr[n].size \in Nat
           /\ Settled(tr, S) \in Nat
<1> DEFINE f == [n \in DOMAIN tr |-> IF tr[n].st = "MINED" /\ n \in S THEN tr[n].size ELSE 0]
<1>1. DOMAIN tr = 1 .. Len(tr) /\ Len(tr) \in Nat OBVIOUS
<1>2. IsFiniteSet(DOMAIN tr) BY <1>1, FS_Interval
<1>3. \A n \in DOMAIN tr : tr[n] \in Trades OBVIOUS
<1>4. \A n \in DOMAIN tr : tr[n].size \in Nat BY <1>3 DEF Trades
<1>5. \A n \in DOMAIN tr : f[n] \in Nat /\ f[n] \in Int BY <1>4
<1>6. Settled(tr, S) = SumOver(f, DOMAIN tr) BY DEF Settled
<1> HIDE DEF f
<1>7. SumOver(f, DOMAIN tr) \in Nat BY <1>2, <1>5, SumType
<1> QED BY <1>2, <1>4, <1>6, <1>7

\* No trade, nothing settled.
LEMMA SettledNone == \A S : Settled(<< >>, S) = 0
<1>1. DOMAIN << >> = {} OBVIOUS
<1> QED BY <1>1, SumEmpty DEF Settled

\* Trades that count keep counting when trades are added, settle, or are heard of.
LEMMA SettledGrows ==
    ASSUME NEW tr \in Seq(Trades), NEW new \in Seq(Trades), NEW S, NEW T,
           DOMAIN tr \subseteq DOMAIN new,
           \A n \in DOMAIN tr : tr[n].st = "MINED" /\ n \in S => new[n] = tr[n] /\ n \in T
    PROVE  Settled(tr, S) <= Settled(new, T)
<1> DEFINE f == [n \in DOMAIN tr |-> IF tr[n].st = "MINED" /\ n \in S THEN tr[n].size ELSE 0]
           g == [n \in DOMAIN new |-> IF new[n].st = "MINED" /\ n \in T THEN new[n].size ELSE 0]
<1>1. /\ IsFiniteSet(DOMAIN tr) /\ IsFiniteSet(DOMAIN new)
      /\ \A n \in DOMAIN tr : tr[n].size \in Nat
      /\ \A n \in DOMAIN new : new[n].size \in Nat
  BY SettledParts
<1>2. \A n \in DOMAIN tr : f[n] \in Int /\ g[n] \in Int /\ f[n] <= g[n]
  <2> TAKE n \in DOMAIN tr
  <2>1. n \in DOMAIN new BY Zenon
  <2>2. CASE tr[n].st = "MINED" /\ n \in S
    <3>1. new[n] = tr[n] /\ n \in T BY <2>2
    <3>2. f[n] = tr[n].size /\ g[n] = tr[n].size BY <2>1, <2>2, <3>1
    <3> QED BY <1>1, <3>2
  <2>3. CASE ~ (tr[n].st = "MINED" /\ n \in S)
    <3>1. f[n] = 0 BY <2>3
    <3>2. g[n] = new[n].size \/ g[n] = 0 BY <2>1
    <3> QED BY <1>1, <2>1, <3>1, <3>2
  <2> QED BY <2>2, <2>3
<1>3. \A n \in DOMAIN new : g[n] \in Nat BY <1>1
<1>4. Settled(tr, S) = SumOver(f, DOMAIN tr) /\ Settled(new, T) = SumOver(g, DOMAIN new)
  BY DEF Settled
<1> HIDE DEF f, g
<1>5. SumOver(f, DOMAIN tr) <= SumOver(g, DOMAIN tr) /\ SumOver(f, DOMAIN tr) \in Int
  BY <1>1, <1>2, SumMono
<1>6. SumOver(g, DOMAIN tr) <= SumOver(g, DOMAIN new) /\ SumOver(g, DOMAIN tr) \in Nat
      /\ SumOver(g, DOMAIN new) \in Nat
  BY <1>1, <1>3, SumPart
<1> QED BY <1>4, <1>5, <1>6

\* One trade more is heard of.
LEMMA SettledOne ==
    ASSUME NEW tr \in Seq(Trades), NEW S, NEW n \in DOMAIN tr, n \notin S, tr[n].st = "MINED"
    PROVE  Settled(tr, S \cup {n}) = Settled(tr, S) + tr[n].size
<1> DEFINE D == DOMAIN tr
           T == S \cup {n}
           f == [k \in D |-> IF tr[k].st = "MINED" /\ k \in S THEN tr[k].size ELSE 0]
           g == [k \in D |-> IF tr[k].st = "MINED" /\ k \in T THEN tr[k].size ELSE 0]
<1>1. IsFiniteSet(D) /\ \A k \in D : tr[k].size \in Nat BY SettledParts
<1>2. \A k \in D : f[k] \in Int /\ g[k] \in Int BY <1>1
<1>3. \A k \in D \ {n} : f[k] = g[k] OBVIOUS
<1>4. f[n] = 0 /\ g[n] = tr[n].size /\ tr[n].size \in Nat BY <1>1
<1>5. Settled(tr, S) = SumOver(f, D) /\ Settled(tr, T) = SumOver(g, D) BY DEF Settled
<1> HIDE DEF f, g, D
<1>6. n \in D BY DEF D
<1>7. SumOver(f, D) = f[n] + SumOver(f, D \ {n}) BY <1>1, <1>2, <1>6, SumRemove
<1>8. SumOver(g, D) = g[n] + SumOver(g, D \ {n}) /\ SumOver(g, D \ {n}) \in Int
  BY <1>1, <1>2, <1>6, SumRemove
<1>9. SumOver(f, D \ {n}) = SumOver(g, D \ {n})
  <2>1. IsFiniteSet(D \ {n}) BY <1>1, FS_Subset
  <2> QED BY <1>2, <1>3, <2>1, SumCong
<1> QED BY <1>4, <1>5, <1>7, <1>8, <1>9

\* A trade on paper, or of the relayer.
LEMMA SettledPaper ==
    ASSUME NEW o \in Ids
    PROVE  Settled(Paper(o), DOMAIN Paper(o)) = Order[o].RequestedSize
<1> DEFINE p == Paper(o)
<1>1. p \in Seq(Trades) /\ DOMAIN p = {1} BY PaperType
<1>2. p[1].size = Order[o].RequestedSize /\ p[1].st = "MINED" BY DEF Paper
<1> HIDE DEF p
<1>3. Settled(p, {} \cup {1}) = Settled(p, {}) + p[1].size BY <1>1, <1>2, SettledOne
<1>4. Settled(p, {}) = 0
  <2> DEFINE f == [n \in DOMAIN p |-> IF p[n].st = "MINED" /\ n \in {} THEN p[n].size ELSE 0]
  <2>1. \A n \in DOMAIN p : f[n] = 0 OBVIOUS
  <2>2. Settled(p, {}) = SumOver(f, DOMAIN p) BY DEF Settled
  <2>3. IsFiniteSet(DOMAIN p) BY <1>1, SettledParts
  <2> HIDE DEF f
  <2> QED BY <2>1, <2>2, <2>3, SumZero
<1>5. {} \cup {1} = DOMAIN p BY <1>1
<1>6. Order[o].RequestedSize \in Nat BY OrderParts
<1> QED BY <1>2, <1>3, <1>4, <1>5, <1>6 DEF p

\* No more is told of an order than settled.
LEMMA ToldMined ==
    ASSUME ExchangeType, NEW o \in Ids
    PROVE  Told(o) \in Nat /\ Mined(o) \in Nat /\ Told(o) <= Mined(o)
<1> DEFINE tr == trades[o]
           D == DOMAIN tr
           f == [n \in D |-> IF tr[n].st = "MINED" /\ n \in Heard(o) THEN tr[n].size ELSE 0]
           g == [n \in D |-> IF tr[n].st = "MINED" THEN tr[n].size ELSE 0]
<1>1. tr \in Seq(Trades) BY DEF ExchangeType
<1>2. IsFiniteSet(D) /\ Told(o) \in Nat /\ \A n \in D : tr[n].size \in Nat
  BY <1>1, SettledParts DEF Told
<1>3. Mined(o) \in Nat BY TradeSums
<1>4. \A n \in D : f[n] \in Int /\ g[n] \in Int /\ f[n] <= g[n] BY <1>2
<1>5. Told(o) = SumOver(f, D) /\ Mined(o) = SumOver(g, D) BY DEF Told, Settled, Mined
<1> HIDE DEF f, g, D
<1>6. SumOver(f, D) <= SumOver(g, D) BY <1>2, <1>4, SumMono
<1> QED BY <1>2, <1>3, <1>5, <1>6

\* The purchases of a token, added up.
LEMMA TallyMono ==
    ASSUME NEW f, NEW g, \A o \in Ids : f[o] \in Int /\ g[o] \in Int /\ f[o] <= g[o]
    PROVE  \A t \in Tokens : /\ TallyOf(f)[t] \in Int /\ TallyOf(g)[t] \in Int
                             /\ TallyOf(f)[t] <= TallyOf(g)[t]
<1> TAKE t \in Tokens
<1>1. IsFiniteSet(Purchases(t)) /\ Purchases(t) \subseteq Ids
  BY OrderFlowAssumption, FS_Subset DEF Purchases
<1>2. \A o \in Purchases(t) : f[o] \in Int /\ g[o] \in Int /\ f[o] <= g[o] BY <1>1
<1>3. /\ SumOver(f, Purchases(t)) \in Int /\ SumOver(g, Purchases(t)) \in Int
      /\ SumOver(f, Purchases(t)) <= SumOver(g, Purchases(t))
  BY <1>1, <1>2, SumMono
<1> QED BY <1>3 DEF TallyOf

\* A purchase of size raises its token's tally by as much.
LEMMA TallyFill ==
    ASSUME NEW f, NEW g, \A o \in Ids : f[o] \in Int /\ g[o] \in Int /\ f[o] <= g[o],
           NEW o \in Ids, Order[o].Side = "BUY", NEW size \in Nat, f[o] + size <= g[o]
    PROVE  TallyOf(f)[Order[o].TokenID] + size <= TallyOf(g)[Order[o].TokenID]
<1> DEFINE t == Order[o].TokenID
           S == Purchases(t)
<1>1. t \in Tokens BY OrderParts
<1>2. IsFiniteSet(S) /\ S \subseteq Ids /\ IsFiniteSet(S \ {o})
  BY OrderFlowAssumption, FS_Subset DEF Purchases
<1>3. o \in S BY DEF Purchases
<1> HIDE DEF t, S
<1>4. \A x \in S : f[x] \in Int /\ g[x] \in Int /\ f[x] <= g[x] BY <1>2
<1>5. SumOver(f, S) = f[o] + SumOver(f, S \ {o}) BY <1>2, <1>3, <1>4, SumRemove
<1>6. SumOver(g, S) = g[o] + SumOver(g, S \ {o}) BY <1>2, <1>3, <1>4, SumRemove
<1>7. \A x \in S \ {o} : f[x] \in Int /\ g[x] \in Int /\ f[x] <= g[x] BY <1>4
<1>8. SumOver(f, S \ {o}) \in Int /\ SumOver(g, S \ {o}) \in Int
      /\ SumOver(f, S \ {o}) <= SumOver(g, S \ {o})
  BY <1>2, <1>7, SumMono
<1>9. SumOver(f, S) + size <= SumOver(g, S) BY <1>5, <1>6, <1>8
<1>10. TallyOf(f)[t] = SumOver(f, S) /\ TallyOf(g)[t] = SumOver(g, S) BY <1>1 DEF TallyOf, S
<1> QED BY <1>9, <1>10 DEF t

\* All amounts are natural numbers, before and after a step.
AmountsOf(o) ==
    /\ Coming(bus, o) \in Nat /\ Coming(wsOut, o) \in Nat /\ Coming(worker.todo, o) \in Nat
    /\ Coming(loop.replay, o) \in Nat /\ Coming(pending[o], o) \in Nat
    /\ InFlight(o) \in Nat /\ Told(o) \in Nat /\ Mined(o) \in Nat
    /\ Due(o) \in Int /\ Due(o) <= Mined(o)
AmountsType == \A o \in Ids : AmountsOf(o)

\* The invariant makes them so,
LEMMA AmountsAreTyped == Inv => AmountsType
<1> SUFFICES ASSUME Inv, NEW o \in Ids PROVE AmountsOf(o) BY DEF AmountsType
<1>1. bus \in Seq(Events) /\ loop.replay \in Seq(Events) /\ pending[o] \in Seq(Events)
  BY DEF Inv, LoopType, ChannelType
<1>2. wsOut \in Seq(Events) /\ worker.todo \in Seq(Events)
  BY WorkerParts DEF Inv, ExecutorType
<1>3. /\ Coming(bus, o) \in Nat /\ Coming(wsOut, o) \in Nat /\ Coming(worker.todo, o) \in Nat
      /\ Coming(loop.replay, o) \in Nat /\ Coming(pending[o], o) \in Nat
  BY <1>1, <1>2, ComingType
<1>4. InFlight(o) \in Nat BY <1>3 DEF InFlight
<1>5. Told(o) \in Nat /\ Mined(o) \in Nat /\ Told(o) <= Mined(o) BY ToldMined DEF Inv
<1>6. Due(o) \in Int /\ Due(o) <= Mined(o) BY <1>4, <1>5 DEF Due
<1> QED BY <1>3, <1>4, <1>5, <1>6 DEF AmountsOf

\* ... and they stay so.
LEMMA AmountsStayTyped == Inv' => AmountsType'
BY AmountsAreTyped, PTL

\* Nothing on its way to the ledger becomes more than what was told.
DueGrows == \A o \in Ids : Due(o) <= Due(o)'

\* A step that buys nothing keeps the account when what is due does not fall.
LEMMA BookedKept ==
    ASSUME Inv, Inv', BookedOnce, DueGrows, Bounded(ledger', Tally)
    PROVE  BookedOnce'
<1> DEFINE f == [o \in Ids |-> Due(o)]
           g == [o \in Ids |-> Due(o)']
<1>1. \A o \in Ids : AmountsOf(o) /\ AmountsOf(o)'
  BY AmountsAreTyped, AmountsStayTyped DEF AmountsType
<1>2. \A o \in Ids : Due(o) \in Int /\ Due(o)' \in Int BY <1>1 DEF AmountsOf
<1>3. \A o \in Ids : f[o] \in Int /\ g[o] \in Int /\ f[o] <= g[o] BY <1>2 DEF DueGrows
<1>4. Tally = TallyOf(f) /\ Tally' = TallyOf(g) BY DEF Tally, TallyOf, Purchases
<1> HIDE DEF f, g
<1>5. \A t \in Tokens : /\ TallyOf(f)[t] \in Int /\ TallyOf(g)[t] \in Int
                        /\ TallyOf(f)[t] <= TallyOf(g)[t]
  BY <1>3, TallyMono
<1>6. \A t \in Tokens : TokenAt(ledger', t).TotalBought \in Nat
  BY TokenAtType DEF Inv, Covers, TokenPosition
<1>7. \A t \in Tokens : TokenAt(ledger', t).TotalBought <= Tally[t] BY DEF Bounded
<1>8. \A t \in Tokens : TokenAt(ledger', t).TotalBought <= Tally'[t]
  BY <1>4, <1>5, <1>6, <1>7
<1> QED BY <1>8 DEF BookedOnce, Bounded

\* What was told of an order does not fall when its trades stay, are added to or settle.
LEMMA ToldGrows ==
    ASSUME ExchangeType, ExchangeType', plan' = plan, NEW o \in Ids,
           DOMAIN trades[o] \subseteq DOMAIN trades'[o],
           \A n \in DOMAIN trades[o] : trades[o][n].st = "MINED" => trades'[o][n] = trades[o][n],
           getOrCreateTracked(tracked, o).SeenTradeIDs
                \subseteq getOrCreateTracked(tracked', o).SeenTradeIDs
    PROVE  Told(o) <= Told(o)'
<1>1. trades[o] \in Seq(Trades) /\ trades'[o] \in Seq(Trades) BY DEF ExchangeType
<1>2. OffBook(o)' <=> OffBook(o) BY DEF OffBook
<1>3. \A n \in DOMAIN trades[o] : n \in Heard(o) => n \in Heard(o)' BY <1>2 DEF Heard
<1>4. Settled(trades[o], Heard(o)) <= Settled(trades'[o], Heard(o)')
  <2> DEFINE S == Heard(o)
             T == Heard(o)'
  <2> HIDE DEF S, T
  <2>1. \A n \in DOMAIN trades[o] : n \in S => n \in T BY <1>3 DEF S, T
  <2>2. Settled(trades[o], S) <= Settled(trades'[o], T) BY <1>1, <2>1, SettledGrows
  <2> QED BY <2>2 DEF S, T
<1> QED BY <1>4 DEF Told, Settled

\* ... and stays the same while they and what was heard of them do.
LEMMA ToldStays ==
    ASSUME NEW o \in Ids, plan' = plan, trades' = trades, tracked' = tracked
    PROVE  Told(o)' = Told(o)
BY DEF Told, Settled, Heard, OffBook

\* A step after which no more is under way, and no less was told.
LEMMA DueOf ==
    ASSUME Inv, Inv', NEW o \in Ids, Told(o) <= Told(o)', InFlight(o)' <= InFlight(o)
    PROVE  Due(o) <= Due(o)'
<1>1. AmountsOf(o) /\ AmountsOf(o)' BY AmountsAreTyped, AmountsStayTyped DEF AmountsType
<1>2. Told(o) \in Nat /\ InFlight(o) \in Nat /\ Told(o)' \in Nat /\ InFlight(o)' \in Nat
  BY <1>1 DEF AmountsOf
<1>3. Due(o)' = Told(o)' - InFlight(o)' BY DEF Due
<1> QED BY <1>2, <1>3 DEF Due

\* The engine's loop, the cleanup ticker and what has nothing to do with events.
LEMMA DueOfEngine ==
    ASSUME Inv, Inv', UNCHANGED <<plan, trades, tracked, bus, wsOut, worker>>,
           loop'.replay = loop.replay,
           \A o \in Ids : pending'[o] = pending[o] \/ pending'[o] = << >>
    PROVE  DueGrows
<1> SUFFICES ASSUME NEW o \in Ids PROVE Due(o) <= Due(o)' BY DEF DueGrows
<1>1. AmountsOf(o) /\ AmountsOf(o)' BY AmountsAreTyped, AmountsStayTyped DEF AmountsType
<1>2. Coming(pending'[o], o) <= Coming(pending[o], o)
  <2>1. Coming(<< >>, o) = 0 BY ComingEmpty
  <2>2. Coming(pending[o], o) \in Nat BY <1>1 DEF AmountsOf
  <2> QED BY <2>1, <2>2
<1>3. InFlight(o)' <= InFlight(o)
  <2>1. InFlight(o)' = Coming(bus, o) + Coming(wsOut, o) + Coming(worker.todo, o)
                         + Coming(loop.replay, o) + Coming(pending'[o], o)
    BY DEF InFlight
  <2>2. Coming(pending'[o], o) \in Nat BY <1>1 DEF AmountsOf
  <2> QED BY <1>1, <1>2, <2>1, <2>2 DEF InFlight, AmountsOf
<1>4. Told(o)' = Told(o) BY ToldStays
<1>5. Told(o) <= Told(o)' BY <1>1, <1>4 DEF AmountsOf
<1> QED BY <1>3, <1>5, DueOf

\* The exchange's steps: trades are made and settle.
LEMMA ExchangeTrades ==
    ASSUME Inv, ExchangeStep, NEW o \in Ids
    PROVE  /\ DOMAIN trades[o] \subseteq DOMAIN trades'[o]
           /\ \A n \in DOMAIN trades[o] :
                trades[o][n].st = "MINED" => trades'[o][n] = trades[o][n]
<1>0. trades \in [Ids -> Seq(Trades)] BY DEF Inv, ExchangeType
<1>k. CASE trades' = trades BY <1>k
<1>1. ASSUME NEW x \in Ids, NEW t, trades' = [trades EXCEPT ![x] = Append(trades[x], t)]
      PROVE  /\ DOMAIN trades[o] \subseteq DOMAIN trades'[o]
             /\ \A n \in DOMAIN trades[o] : trades'[o][n] = trades[o][n]
  <2>1. CASE x # o
    <3>1. trades'[o] = trades[o] BY <1>0, <1>1, <2>1
    <3> QED BY <3>1
  <2>2. CASE x = o
    <3>1. trades'[o] = Append(trades[o], t) /\ trades[o] \in Seq(Trades) BY <1>0, <1>1, <2>2
    <3>2. DOMAIN trades[o] = 1 .. Len(trades[o]) /\ Len(trades[o]) \in Nat BY <3>1
    <3>3. DOMAIN Append(trades[o], t) = 1 .. (Len(trades[o]) + 1) BY <3>1
    <3>4. \A n \in 1 .. Len(trades[o]) : Append(trades[o], t)[n] = trades[o][n] BY <3>1
    <3> QED BY <3>1, <3>2, <3>3, <3>4
  <2> QED BY <2>1, <2>2
<1>2. ASSUME NEW x \in Ids, NEW size, NEW price, Match(x, size, price)
      PROVE  /\ DOMAIN trades[o] \subseteq DOMAIN trades'[o]
             /\ \A n \in DOMAIN trades[o] : trades'[o][n] = trades[o][n]
  BY <1>1, <1>2 DEF Match
<1>3. ASSUME NEW x \in Ids, NEW m \in DOMAIN trades[x], NEW outcome, Settle(x, m, outcome)
      PROVE  /\ DOMAIN trades[o] \subseteq DOMAIN trades'[o]
             /\ \A n \in DOMAIN trades[o] :
                  trades[o][n].st = "MINED" => trades'[o][n] = trades[o][n]
  <2>1. trades[x][m].st # "MINED" /\ trades' = [trades EXCEPT ![x][m].st = outcome]
    BY <1>3 DEF Settle
  <2>2. CASE x # o BY <1>0, <2>1, <2>2
  <2>3. CASE x = o
    <3>1. trades'[o] = [trades[o] EXCEPT ![m].st = outcome] BY <1>0, <2>1, <2>3
    <3>2. DOMAIN trades'[o] = DOMAIN trades[o] BY <3>1
    <3>3. \A n \in DOMAIN trades[o] : n # m => trades'[o][n] = trades[o][n] BY <3>1
    <3> QED BY <2>1, <2>3, <3>2, <3>3
  <2> QED BY <2>2, <2>3
<1> QED BY <1>k, <1>2, <1>3, Zenon DEF ExchangeStep, OpenByHand, CancelByExchange, Redeliver

\* ... so that nothing is lost of what was told.
LEMMA DueOfExchange ==
    ASSUME Inv, Inv', ExchangeStep
    PROVE  DueGrows
<1> SUFFICES ASSUME NEW o \in Ids PROVE Due(o) <= Due(o)' BY DEF DueGrows
<1>1. UNCHANGED <<pending, loop, tracked, worker, wsOut, bus, plan>>
  BY ExchangeFrame DEF engineVars, executorVars, bootVars
<1>2. Told(o) <= Told(o)' BY <1>1, ExchangeTrades, ToldGrows DEF Inv
<1>3. AmountsOf(o) /\ InFlight(o)' = InFlight(o)
  BY <1>1, AmountsAreTyped DEF InFlight, AmountsType
<1>4. InFlight(o)' <= InFlight(o) BY <1>3 DEF AmountsOf
<1> QED BY <1>2, <1>4, DueOf

\* Events that fill nothing bring nothing.
LEMMA SilentComing ==
    ASSUME NEW q \in Seq(Events), Silent(q), NEW o \in Ids
    PROVE  Coming(q, o) = 0
<1>1. \A n \in DOMAIN q : AmountOf(q[n], o) = 0 BY DEF Silent, AmountOf
<1> QED BY <1>1, ComingNothing

\* What a message makes of a tracked order: nothing more was heard, or one trade more.
SaysNothing(r, t) == r.t.SeenTradeIDs = t.SeenTradeIDs /\ Silent(r.out)
SaysFill(r, t, o, status, id, size) ==
    /\ status = "MINED" /\ id \notin t.SeenTradeIDs
    /\ r.t.SeenTradeIDs = t.SeenTradeIDs \cup {id}
    /\ r.out = << >> \/ \E e : r.out = <<e>> /\ e.OrderID = o /\ e.FilledSize = size

\* A message about an order leaves the trades heard of alone, and fills nothing.
LEMMA OnOrderSays ==
    ASSUME NEW o \in Ids, NEW t \in TrackedOrders, NEW status,
           NEW r, r = onOrderEvent(t, o, status, Order[o])
    PROVE  SaysNothing(r, t)
<1> DEFINE seen == [t EXCEPT !.Price = Order[o].Price, !.RequestedSize = Order[o].RequestedSize]
           live == [seen EXCEPT !.Accepted = TRUE]
           ended == [seen EXCEPT !.Finalized = TRUE]
           a == <<Event("Accepted", o, NoIntent, 0, 0)>>
           c == <<Event("Cancelled", o, NoIntent, 0, 0)>>
<1>1. /\ seen.SeenTradeIDs = t.SeenTradeIDs /\ live.SeenTradeIDs = t.SeenTradeIDs
      /\ ended.SeenTradeIDs = t.SeenTradeIDs
  BY DEF TrackedOrders
<1>2. r \in {Tracked(live, a), Tracked(ended, c), Tracked(seen, << >>)} BY DEF onOrderEvent
<1>3. Silent(a) /\ Silent(c) /\ Silent(<< >>) BY SilentOne
<1>4. \A x, out : Tracked(x, out).t = x /\ Tracked(x, out).out = out BY DEF Tracked
<1> HIDE DEF seen, live, ended, a, c
<1> QED BY <1>1, <1>2, <1>3, <1>4 DEF SaysNothing

\* A message about a trade that settled is answered with its size when its id is new,
\* and remembered; any other one is answered with no fill.
LEMMA OnTradeSays ==
    ASSUME NEW o \in Ids, NEW t \in TrackedOrders, NEW status, NEW id \in Nat, NEW size \in Nat,
           NEW price \in Nat, NEW r, r = onTradeEvent(t, o, status, id, size, price)
    PROVE  SaysNothing(r, t) \/ SaysFill(r, t, o, status, id, size)
<1> DEFINE p == IF price > 0 THEN price ELSE t.Price
           priced == [t EXCEPT !.Price = p]
           seen == [priced EXCEPT !.SeenTradeIDs = priced.SeenTradeIDs \cup {id}]
           ended == [priced EXCEPT !.Finalized = TRUE]
           rejected == <<Event("Rejected", o, NoIntent, 0, 0)>>
<1>1. /\ priced.SeenTradeIDs = t.SeenTradeIDs /\ ended.SeenTradeIDs = t.SeenTradeIDs
      /\ seen.SeenTradeIDs = t.SeenTradeIDs \cup {id}
  <2> HIDE DEF p
  <2> QED BY DEF TrackedOrders
<1>2. \/ r = Tracked(t, << >>) \/ r = Tracked(priced, << >>) \/ r = Tracked(ended, rejected)
      \/ /\ status = "MINED" /\ id \notin t.SeenTradeIDs
         /\ r = buildFillEventsFromDelta(seen, o, size)
  <2>1. priced.SeenTradeIDs = t.SeenTradeIDs BY <1>1
  <2>2. r = IF t.Finalized THEN Tracked(t, << >>)
            ELSE IF status = "MINED"
            THEN IF id \in t.SeenTradeIDs THEN Tracked(priced, << >>)
                 ELSE buildFillEventsFromDelta(seen, o, size)
            ELSE IF status = "FAILED" THEN Tracked(ended, rejected)
            ELSE Tracked(priced, << >>)
    BY DEF onTradeEvent
  <2> HIDE DEF priced, seen, ended, rejected
  <2> QED BY <2>2
<1>3. \A x, out : Tracked(x, out).t = x /\ Tracked(x, out).out = out BY DEF Tracked
<1>4. Silent(rejected) /\ Silent(<< >>) BY SilentOne
<1>5. seen \in [Price : Nat, RequestedSize : Nat, FilledSize : Nat, Accepted : BOOLEAN,
                Finalized : BOOLEAN, SeenTradeIDs : SUBSET Nat]
  <2>1. p \in Nat BY TrackedParts
  <2> HIDE DEF p
  <2> QED BY <2>1 DEF TrackedOrders
<1> HIDE DEF priced, seen, ended, rejected
<1>6. ASSUME status = "MINED", id \notin t.SeenTradeIDs,
             r = buildFillEventsFromDelta(seen, o, size)
      PROVE  SaysFill(r, t, o, status, id, size)
  <2> DEFINE full == seen.RequestedSize > 0 /\ seen.FilledSize + size >= seen.RequestedSize
             status1 == IF full THEN "Filled" ELSE "PartiallyFilled"
             done == [seen EXCEPT !.FilledSize = seen.FilledSize + size,
                                  !.Finalized = full \/ seen.Finalized]
             e == Event(status1, o, NoIntent, size, seen.Price)
  <2>1. r = Tracked(seen, << >>) \/ r = Tracked(done, <<e>>)
    BY <1>6 DEF buildFillEventsFromDelta
  <2>2. done.SeenTradeIDs = seen.SeenTradeIDs
    <3> HIDE DEF full
    <3> QED BY <1>5
  <2>3. e.OrderID = o /\ e.FilledSize = size BY DEF Event
  <2> HIDE DEF done, e
  <2>4. CASE r = Tracked(seen, << >>) BY <1>1, <1>3, <1>6, <2>4 DEF SaysFill
  <2>5. CASE r = Tracked(done, <<e>>)
    <3>1. r.t = done /\ r.out = <<e>> BY <1>3, <2>5
    <3> QED BY <1>1, <1>6, <2>2, <2>3, <3>1 DEF SaysFill
  <2> QED BY <2>1, <2>4, <2>5
<1>7. CASE r = Tracked(t, << >>) BY <1>3, <1>4, <1>7 DEF SaysNothing
<1>8. CASE r = Tracked(priced, << >>) BY <1>1, <1>3, <1>4, <1>8 DEF SaysNothing
<1>9. CASE r = Tracked(ended, rejected) BY <1>1, <1>3, <1>4, <1>9 DEF SaysNothing
<1> QED BY <1>2, <1>6, <1>7, <1>8, <1>9

\* What was remembered of one order changes.
LEMMA TrackedPutIs ==
    ASSUME NEW r, NEW x, NEW t, r = Put(tracked, x, t), NEW o
    PROVE  getOrCreateTracked(r, o) = IF o = x THEN t ELSE getOrCreateTracked(tracked, o)
BY DEF Put, getOrCreateTracked

\* The WebSocket consumer answers a message with no more than it was told.
LEMMA DeliverTold ==
    ASSUME Inv, Inv', MessagesTrue, plan' = plan, trades' = trades, NEW n \in DOMAIN ws, Deliver(n),
           NEW o \in Ids
    PROVE  Told(o) + Coming(wsOut', o) <= Told(o)'
<1> DEFINE m == ws[n]
           x == m.order
           t == getOrCreateTracked(tracked, x)
           s == trades[x][m.id].size
           p == trades[x][m.id].price
           r == IF m.kind = "order" THEN onOrderEvent(t, x, m.status, Order[x])
                ELSE onTradeEvent(t, x, m.status, m.id, s, p)
<1>0. ExecutorType /\ ExchangeType BY DEF Inv
<1>1. tracked' = Put(tracked, x, r.t) /\ wsOut' = r.out BY DEF Deliver
<1>2. /\ x \in Ids /\ m.kind \in {"order", "trade"}
      /\ m.kind = "trade" => m.id \in Nat /\ m.id \in DOMAIN trades[x]
  BY <1>0, MessageParts
<1>3. m.kind = "trade" => s \in Nat /\ p \in Nat BY <1>0, <1>2, TradeParts
<1>4. m.kind = "trade" => /\ ~ OffBook(x)
                          /\ m.status = "MINED" => trades[x][m.id].st = "MINED"
  BY DEF MessagesTrue
<1>5. t \in TrackedOrders BY <1>0, <1>2, GetOrCreateType DEF TrackedOf
<1>6. wsOut' \in Seq(Events) BY DEF Inv, ExecutorType
<1>7. Told(o) \in Nat /\ Told(o)' \in Nat
  BY AmountsAreTyped, AmountsStayTyped DEF AmountsType, AmountsOf
<1>8. OffBook(o)' <=> OffBook(o) BY DEF OffBook
<1>9. \/ SaysNothing(r, t)
      \/ m.kind = "trade" /\ SaysFill(r, t, x, m.status, m.id, s)
  <2> HIDE DEF m, x, t, s, p
  <2>1. CASE m.kind = "order"
    <3>1. r = onOrderEvent(t, x, m.status, Order[x]) BY <2>1
    <3> HIDE DEF r
    <3> QED BY <1>2, <1>5, <3>1, OnOrderSays
  <2>2. CASE m.kind = "trade"
    <3> DEFINE st == m.status
               id == m.id
    <3>1. r = onTradeEvent(t, x, st, id, s, p) BY <2>2
    <3>2. id \in Nat /\ s \in Nat /\ p \in Nat BY <1>2, <1>3, <2>2
    <3> HIDE DEF r, st, id
    <3>3. SaysNothing(r, t) \/ SaysFill(r, t, x, st, id, s)
      BY <1>2, <1>5, <3>1, <3>2, OnTradeSays
    <3> QED BY <2>2, <3>3 DEF st, id
  <2> QED BY <1>2, <2>1, <2>2
<1> HIDE DEF r
<1>10. getOrCreateTracked(tracked', o) = IF o = x THEN r.t ELSE getOrCreateTracked(tracked, o)
  BY <1>1, TrackedPutIs
<1>11. CASE SaysNothing(r, t)
  <2>1. getOrCreateTracked(tracked', o).SeenTradeIDs = getOrCreateTracked(tracked, o).SeenTradeIDs
    BY <1>10, <1>11 DEF SaysNothing
  <2>2. Told(o)' = Told(o) BY <1>8, <2>1 DEF Told, Settled, Heard
  <2>3. Coming(wsOut', o) = 0 BY <1>1, <1>6, <1>11, SilentComing DEF SaysNothing
  <2> QED BY <1>7, <2>2, <2>3
<1>12. CASE m.kind = "trade" /\ SaysFill(r, t, x, m.status, m.id, s)
  <2>0. /\ m.kind = "trade" /\ m.status = "MINED" /\ m.id \notin t.SeenTradeIDs
        /\ r.t.SeenTradeIDs = t.SeenTradeIDs \cup {m.id}
        /\ r.out = << >> \/ \E e : r.out = <<e>> /\ e.OrderID = x /\ e.FilledSize = s
    BY <1>12 DEF SaysFill
  <2>1. /\ m.id \in DOMAIN trades[x] /\ s \in Nat /\ ~ OffBook(x)
        /\ trades[x][m.id].st = "MINED"
    BY <1>2, <1>3, <1>4, <2>0
  <2>2. CASE o # x
    <3>1. getOrCreateTracked(tracked', o) = getOrCreateTracked(tracked, o) BY <1>10, <2>2
    <3>2. Told(o)' = Told(o) BY <1>8, <3>1 DEF Told, Settled, Heard
    <3>3. Coming(wsOut', o) = 0
      <4>1. CASE wsOut' = << >> BY <4>1, ComingEmpty
      <4>2. ASSUME NEW e, wsOut' = <<e>>, e.OrderID = x PROVE Coming(wsOut', o) = 0
        <5>1. e \in Events BY <1>6, <4>2
        <5>2. AmountOf(e, o) = 0 BY <2>2, <4>2 DEF AmountOf
        <5> QED BY <4>2, <5>1, <5>2, ComingOne
      <4> QED BY <1>1, <2>0, <4>1, <4>2
    <3> QED BY <1>7, <3>2, <3>3
  <2>3. CASE o = x
    <3>1. Heard(o) = t.SeenTradeIDs /\ Heard(o)' = t.SeenTradeIDs \cup {m.id}
      BY <1>8, <1>10, <2>0, <2>1, <2>3 DEF Heard
    <3>2. Settled(trades[o], t.SeenTradeIDs \cup {m.id}) = Settled(trades[o], t.SeenTradeIDs) + s
      <4>1. trades[o] \in Seq(Trades) BY <1>0 DEF ExchangeType
      <4> HIDE DEF t
      <4> QED BY <2>0, <2>1, <2>3, <4>1, SettledOne
    <3>3. Told(o) = Settled(trades[o], t.SeenTradeIDs)
          /\ Told(o)' = Settled(trades[o], t.SeenTradeIDs \cup {m.id})
      BY <3>1 DEF Told, Settled
    <3>4. Told(o)' = Told(o) + s BY <3>2, <3>3
    <3>5. Coming(wsOut', o) = 0 \/ Coming(wsOut', o) = s
      <4>1. CASE wsOut' = << >> BY <4>1, ComingEmpty
      <4>2. ASSUME NEW e, wsOut' = <<e>>, e.OrderID = x, e.FilledSize = s
            PROVE  Coming(wsOut', o) = s
        <5>1. e \in Events BY <1>6, <4>2
        <5>2. AmountOf(e, o) = s BY <2>3, <4>2 DEF AmountOf
        <5> QED BY <4>2, <5>1, <5>2, ComingOne
      <4> QED BY <1>1, <2>0, <4>1, <4>2
    <3> QED BY <1>7, <2>1, <3>4, <3>5
  <2> QED BY <2>2, <2>3
<1> QED BY <1>9, <1>11, <1>12

\* So what is due does not change before the consumer's events reach the ledger.
LEMMA DueOfSocket ==
    ASSUME Inv, Inv', MessagesTrue, SocketStep
    PROVE  DueGrows
<1> SUFFICES ASSUME NEW o \in Ids PROVE Due(o) <= Due(o)' BY DEF DueGrows
<1>1. UNCHANGED <<pending, loop, worker, trades, plan>>
  BY SocketFrame DEF engineVars, bootVars
<1>2. AmountsOf(o) /\ AmountsOf(o)' BY AmountsAreTyped, AmountsStayTyped DEF AmountsType
<1>3. InFlight(o)' = Coming(bus', o) + Coming(wsOut', o) + Coming(worker.todo, o)
                       + Coming(loop.replay, o) + Coming(pending[o], o)
  BY <1>1 DEF InFlight
<1>4. ASSUME NEW n \in DOMAIN ws, Deliver(n) PROVE Due(o) <= Due(o)'
  <2>1. bus' = bus /\ wsOut = << >> BY <1>4 DEF Deliver
  <2>2. Told(o) + Coming(wsOut', o) <= Told(o)' BY <1>1, <1>4, DeliverTold
  <2>3. Coming(wsOut, o) = 0 BY <2>1, ComingEmpty
  <2>4. InFlight(o)' = InFlight(o) + Coming(wsOut', o)
    <3>1. InFlight(o)' = Coming(bus, o) + Coming(wsOut', o) + Coming(worker.todo, o)
                           + Coming(loop.replay, o) + Coming(pending[o], o)
      BY <1>3, <2>1
    <3>2. /\ Coming(bus, o) \in Nat /\ Coming(worker.todo, o) \in Nat
          /\ Coming(loop.replay, o) \in Nat /\ Coming(pending[o], o) \in Nat
          /\ Coming(wsOut', o) \in Nat
      BY <1>2 DEF AmountsOf
    <3> QED BY <2>3, <3>1, <3>2 DEF InFlight
  <2>5. Due(o)' = Told(o)' - InFlight(o)' BY DEF Due
  <2>6. Coming(wsOut', o) \in Nat /\ Told(o)' \in Nat /\ InFlight(o)' \in Nat BY <1>2 DEF AmountsOf
  <2> QED BY <1>2, <2>2, <2>4, <2>5, <2>6 DEF Due, AmountsOf
<1>5. CASE WSPublish
  <2>1. Publish(wsOut, {}) /\ wsOut' = << >> /\ tracked' = tracked BY <1>5 DEF WSPublish
  <2>2. wsOut \in Seq(Events) BY DEF Inv, ExecutorType
  <2>3. Coming(bus', o) <= Coming(bus, o) + Coming(wsOut, o)
    BY <2>1, <2>2, ComingPublish DEF Inv
  <2>4. Coming(wsOut', o) = 0 BY <2>1, ComingEmpty
  <2>5. Coming(bus', o) \in Nat BY <1>2 DEF AmountsOf
  <2>6. InFlight(o)' <= InFlight(o) BY <1>2, <1>3, <2>3, <2>4, <2>5 DEF InFlight, AmountsOf
  <2>7. Told(o)' = Told(o) BY <1>1, <2>1, ToldStays
  <2>8. Told(o) <= Told(o)' BY <1>2, <2>7 DEF AmountsOf
  <2> QED BY <2>6, <2>8, DueOf
<1> QED BY <1>4, <1>5 DEF SocketStep

\* What the worker takes up, posts, cancels and books fills nothing yet.
LEMMA WorkerSilent ==
    ASSUME Inv, WorkerTake \/ WorkerPost \/ WorkerCancel \/ WorkerLegs
    PROVE  /\ Silent(worker'.todo)
           /\ UNCHANGED <<tracked, wsOut, bus, trades>>
<1>0. worker \in Workers BY DEF Inv, ExecutorType
<1>1. ASSUME NEW b, NEW todo, worker' = [worker EXCEPT !.batch = b, !.todo = todo]
      PROVE  worker'.todo = todo
  BY <1>0, <1>1 DEF Workers
<1>2. /\ \A i : RejectedIntent(i).FilledSize = 0
      /\ \A i, o : publishAcceptedFromPost(i, o).FilledSize = 0
  BY DEF RejectedIntent, publishAcceptedFromPost, Event
<1>3. CASE WorkerTake
  <2>1. worker'.todo = << >> BY <1>3 DEF WorkerTake, Idle
  <2> QED BY <1>3, <2>1, SilentOne DEF WorkerTake, exchangeVars
<1>4. CASE WorkerPost
  <2> DEFINE placed == OrdersOf(worker.batch, "PLACE")
             answer(told) == [n \in DOMAIN placed |->
                                IF placed[n] \in told
                                THEN publishAcceptedFromPost(placed[n], placed[n])
                                ELSE RejectedIntent(placed[n])]
  <2>1. PICK told : worker' = [worker EXCEPT !.batch = Rest("PLACE"), !.todo = answer(told)]
    BY <1>4 DEF WorkerPost
  <2>2. worker'.todo = answer(told) BY <1>1, <2>1
  <2>3. Silent(answer(told)) BY <1>2 DEF Silent
  <2> QED BY <1>4, <2>2, <2>3 DEF WorkerPost
<1>5. CASE WorkerCancel
  <2> DEFINE orders == OrdersOf(worker.batch, "CANCEL")
             answer == [n \in DOMAIN orders |-> RejectedIntent(NoIntent)]
  <2>1. \/ worker' = [worker EXCEPT !.batch = Rest("CANCEL")] /\ worker.todo = << >>
        \/ worker' = [worker EXCEPT !.batch = Rest("CANCEL"), !.todo = answer]
    BY <1>5 DEF WorkerCancel, WorkerAt
  <2>2. Silent(answer) BY <1>2 DEF Silent
  <2>3. CASE worker' = [worker EXCEPT !.batch = Rest("CANCEL")] /\ worker.todo = << >>
    <3>1. worker'.todo = << >> BY <1>0, <2>3 DEF Workers
    <3> QED BY <1>5, <3>1, SilentOne DEF WorkerCancel
  <2>4. CASE worker' = [worker EXCEPT !.batch = Rest("CANCEL"), !.todo = answer]
    <3>1. worker'.todo = answer BY <1>1, <2>4
    <3> QED BY <1>5, <2>2, <3>1 DEF WorkerCancel
  <2> QED BY <2>1, <2>3, <2>4
<1>6. CASE WorkerLegs
  <2> DEFINE legs == Legs[Head(worker.batch).OrderID]
             answer == [n \in 1 .. 2 |-> publishAcceptedFromPost(NoIntent, legs[n])]
  <2>1. worker' = [worker EXCEPT !.batch = Tail(worker.batch), !.todo = answer, !.legs = legs]
    BY <1>6 DEF WorkerLegs
  <2>2. Silent(answer) BY <1>2 DEF Silent
  <2> HIDE DEF answer
  <2>3. worker'.todo = answer BY <1>0, <2>1 DEF Workers
  <2> QED BY <1>6, <2>2, <2>3 DEF WorkerLegs, exchangeVars
<1> QED BY <1>3, <1>4, <1>5, <1>6

\* An Accepted that is tracked leaves the trades heard of alone.
LEMMA TrackHeard ==
    ASSUME Inv, WorkerTrack, NEW o \in Ids
    PROVE  getOrCreateTracked(tracked', o).SeenTradeIDs = getOrCreateTracked(tracked, o).SeenTradeIDs
<1> DEFINE x == Head(worker.todo).OrderID
           old == getOrCreateTracked(tracked, x)
           t == trackPostedOrder(old, Order[x])
<1>1. tracked' = Put(tracked, x, t) BY DEF WorkerTrack
<1>2. getOrCreateTracked(tracked', o) = IF o = x THEN t ELSE getOrCreateTracked(tracked, o)
  BY <1>1, TrackedPutIs
<1>3. CASE o # x BY <1>2, <1>3
<1>4. CASE o = x
  <2>1. old \in TrackedOrders BY <1>4, GetOrCreateType DEF Inv, TrackedOf
  <2> HIDE DEF old
  <2>2. t.SeenTradeIDs = old.SeenTradeIDs BY <2>1 DEF trackPostedOrder, TrackedOrders
  <2> QED BY <1>2, <1>4, <2>2 DEF old
<1> QED BY <1>3, <1>4

\* The events for the legs of a SPLIT or MERGE fill each leg once.
LEMMA RelayFills ==
    ASSUME Inv, Inv', NEW ok \in BOOLEAN, WorkerRelay(ok), Fresh(worker.legs), NEW o \in Ids,
           trades[o] = << >> \/ o \notin Range(worker.legs)
    PROVE  Told(o) + Coming(worker'.todo, o) <= Told(o)'
<1> DEFINE legs == worker.legs
           ev(x) == IF ok THEN Event("Filled", x, NoIntent, Order[x].RequestedSize, Order[x].Price)
                    ELSE Event("Rejected", x, NoIntent, 0, 0)
           todo == [n \in 1 .. 2 |-> ev(legs[n])]
<1>1. /\ legs # << >> /\ tracked' = tracked
      /\ trades' = [x \in Ids |-> IF ok /\ x \in Range(legs) THEN Paper(x) ELSE trades[x]]
      /\ worker' = [worker EXCEPT !.legs = << >>, !.todo = todo]
  BY DEF WorkerRelay, Paper
<1>2. legs \in LegIds \X LegIds BY <1>1, WorkerParts DEF Inv, ExecutorType
<1>3. /\ legs[1] \in Ids /\ legs[2] \in Ids /\ Range(legs) = {legs[1], legs[2]}
      /\ DOMAIN legs = {1, 2}
  BY <1>2, LegParts DEF Range
<1>4. legs[1] # legs[2] BY <1>3 DEF Fresh
<1>5. plan' = plan BY WorkerFrame DEF WorkerStep, bootVars
<1>6. OffBook(o)' <=> OffBook(o) BY <1>5 DEF OffBook
<1>7. AmountsOf(o) /\ AmountsOf(o)' BY AmountsAreTyped, AmountsStayTyped DEF AmountsType
<1>8. worker'.todo = todo
  <2> HIDE DEF todo
  <2> QED BY <1>1, WorkerParts DEF Inv, ExecutorType
<1>9. todo = <<ev(legs[1]), ev(legs[2])>> OBVIOUS
<1>10. Coming(todo, o) = AmountOf(ev(legs[1]), o) + AmountOf(ev(legs[2]), o)
  <2> DEFINE e1 == ev(legs[1])
             e2 == ev(legs[2])
  <2>1. worker'.todo \in Seq(Events) BY WorkerParts DEF Inv, ExecutorType
  <2>2. todo = <<e1, e2>> /\ todo \in Seq(Events) BY <1>8, <1>9, <2>1
  <2> HIDE DEF e1, e2, ev, todo
  <2>3. e1 \in Events /\ e2 \in Events
    <3>1. Len(todo) = 2 /\ todo[1] = e1 /\ todo[2] = e2 BY <2>2
    <3> QED BY <2>2, <3>1, ElementOfSeq
  <2>4. <<e1>> \in Seq(Events) /\ Coming(<<e1>>, o) = AmountOf(e1, o) BY <2>3, ComingOne
  <2>5. todo = Append(<<e1>>, e2) BY <2>2
  <2>6. Coming(todo, o) = AmountOf(e1, o) + AmountOf(e2, o) BY <2>3, <2>4, <2>5, ComingAppend
  <2> QED BY <2>6 DEF e1, e2
<1>11. \A x : AmountOf(ev(x), o) = IF ok /\ x = o THEN Order[o].RequestedSize ELSE 0
  BY DEF AmountOf, Event
<1> HIDE DEF ev, todo
<1>12. Order[o].RequestedSize \in Nat BY OrderParts
<1>13. CASE ~ ok \/ o \notin Range(legs)
  <2>1. Coming(todo, o) = 0
    <3>1. ~ ok \/ (o # legs[1] /\ o # legs[2]) BY <1>3, <1>13
    <3> QED BY <1>10, <1>11, <3>1
  <2>2. trades'[o] = trades[o] BY <1>1, <1>13
  <2>3. Told(o)' = Told(o) BY <1>1, <1>6, <2>2 DEF Told, Settled, Heard
  <2> QED BY <1>7, <1>8, <2>1, <2>3 DEF AmountsOf
<1>14. CASE ok /\ o \in Range(legs)
  <2>1. Coming(todo, o) = Order[o].RequestedSize
    <3>1. AmountOf(ev(legs[1]), o) = (IF legs[1] = o THEN Order[o].RequestedSize ELSE 0)
          /\ AmountOf(ev(legs[2]), o) = (IF legs[2] = o THEN Order[o].RequestedSize ELSE 0)
      BY <1>11, <1>14
    <3>2. (legs[1] = o /\ legs[2] # o) \/ (legs[1] # o /\ legs[2] = o) BY <1>3, <1>4, <1>14
    <3> QED BY <1>10, <1>12, <3>1, <3>2
  <2>2. trades[o] = << >> /\ trades'[o] = Paper(o) BY <1>1, <1>14
  <2>3. OffBook(o)
    <3>1. o \in LegIds BY <1>2, <1>3, <1>14
    <3> QED BY <3>1 DEF OffBook
  <2>4. Told(o) = 0 BY <2>2, SettledNone DEF Told
  <2>5. Told(o)' = Order[o].RequestedSize
    <3>1. Heard(o)' = DOMAIN trades'[o] BY <1>6, <2>3 DEF Heard
    <3>2. Told(o)' = Settled(trades'[o], DOMAIN trades'[o]) BY <3>1 DEF Told, Settled
    <3> QED BY <2>2, <3>2, SettledPaper
  <2> QED BY <1>8, <1>12, <2>1, <2>4, <2>5
<1> QED BY <1>13, <1>14

\* The worker sends on what it was told, and no more.
LEMMA DueOfWorker ==
    ASSUME Inv, Inv', NothingYet, WorkerStep
    PROVE  DueGrows
<1> SUFFICES ASSUME NEW o \in Ids PROVE Due(o) <= Due(o)' BY DEF DueGrows
<1>1. UNCHANGED <<pending, loop, wsOut, plan>>
  BY WorkerFrame DEF engineVars, bootVars
<1>2. AmountsOf(o) /\ AmountsOf(o)' BY AmountsAreTyped, AmountsStayTyped DEF AmountsType
<1>3. /\ Coming(bus, o) \in Nat /\ Coming(wsOut, o) \in Nat /\ Coming(worker.todo, o) \in Nat
      /\ Coming(loop.replay, o) \in Nat /\ Coming(pending[o], o) \in Nat
      /\ Coming(bus', o) \in Nat /\ Coming(worker'.todo, o) \in Nat
      /\ Told(o) \in Nat /\ Told(o)' \in Nat
  BY <1>2 DEF AmountsOf
<1>4. /\ InFlight(o) = Coming(bus, o) + Coming(wsOut, o) + Coming(worker.todo, o)
                         + Coming(loop.replay, o) + Coming(pending[o], o)
      /\ InFlight(o)' = Coming(bus', o) + Coming(wsOut, o) + Coming(worker'.todo, o)
                          + Coming(loop.replay, o) + Coming(pending[o], o)
  BY <1>1 DEF InFlight
<1>5. worker.todo \in Seq(Events) /\ worker'.todo \in Seq(Events)
  BY WorkerParts DEF Inv, ExecutorType
<1>6. CASE WorkerTake \/ WorkerPost \/ WorkerCancel \/ WorkerLegs
  <2>1. Silent(worker'.todo) /\ UNCHANGED <<tracked, bus, trades>> BY <1>6, WorkerSilent
  <2>2. Coming(worker'.todo, o) = 0 BY <1>5, <2>1, SilentComing
  <2>3. InFlight(o)' <= InFlight(o) BY <1>3, <1>4, <2>1, <2>2
  <2>4. Told(o)' = Told(o) BY <1>1, <2>1, ToldStays
  <2>5. Told(o) <= Told(o)' BY <1>3, <2>4
  <2> QED BY <2>3, <2>5, DueOf
<1>7. ASSUME NEW ok \in BOOLEAN, WorkerRelay(ok) PROVE Due(o) <= Due(o)'
  <2>1. bus' = bus /\ worker.todo = << >> /\ worker.legs # << >> BY <1>7 DEF WorkerRelay
  <2>2. Fresh(worker.legs) BY <2>1 DEF NothingYet
  <2>3. trades[o] = << >> \/ o \notin Range(worker.legs)
    <3>1. o \in Range(worker.legs) => exch[o] = "none" BY <2>2 DEF Fresh, Range
    <3> QED BY <3>1 DEF NothingYet
  <2>4. Told(o) + Coming(worker'.todo, o) <= Told(o)' BY <1>7, <2>2, <2>3, RelayFills
  <2>5. Coming(worker.todo, o) = 0 BY <2>1, ComingEmpty
  <2>6. InFlight(o)' = InFlight(o) + Coming(worker'.todo, o) BY <1>3, <1>4, <2>1, <2>5
  <2>7. Due(o)' = Told(o)' - InFlight(o)' BY DEF Due
  <2>8. InFlight(o) \in Nat BY <1>3, <1>4
  <2> QED BY <1>3, <2>4, <2>6, <2>7, <2>8 DEF Due
<1>8. CASE WorkerTrack
  <2>1. bus' = bus /\ trades' = trades /\ worker' = [worker EXCEPT !.tracked = TRUE]
    BY <1>8 DEF WorkerTrack, exchangeVars
  <2>2. worker'.todo = worker.todo BY <2>1, WorkerParts DEF Inv, ExecutorType
  <2>3. InFlight(o)' <= InFlight(o) BY <1>3, <1>4, <2>1, <2>2
  <2>4. getOrCreateTracked(tracked', o).SeenTradeIDs = getOrCreateTracked(tracked, o).SeenTradeIDs
    BY <1>8, TrackHeard
  <2>5. Told(o)' = Told(o) BY <1>1, <2>1, <2>4 DEF Told, Settled, Heard, OffBook
  <2>6. Told(o) <= Told(o)' BY <1>3, <2>5
  <2> QED BY <2>3, <2>6, DueOf
<1>9. CASE WorkerPublish
  <2> DEFINE h == Head(worker.todo)
  <2>1. /\ worker.todo # << >> /\ Publish(<<h>>, {})
        /\ worker' = [worker EXCEPT !.todo = Tail(worker.todo), !.tracked = FALSE]
        /\ tracked' = tracked /\ trades' = trades
    BY <1>9 DEF WorkerPublish, exchangeVars
  <2>2. worker'.todo = Tail(worker.todo) BY <2>1, WorkerParts DEF Inv, ExecutorType
  <2>3. /\ h \in Events
        /\ Coming(worker.todo, o) = AmountOf(h, o) + Coming(Tail(worker.todo), o)
    BY <1>5, <2>1, ComingTail
  <2> HIDE DEF h
  <2>4. <<h>> \in Seq(Events) /\ Coming(<<h>>, o) = AmountOf(h, o) BY <2>3, ComingOne
  <2>5. Coming(bus', o) <= Coming(bus, o) + AmountOf(h, o)
    BY <2>1, <2>4, ComingPublish DEF Inv
  <2>6. AmountOf(h, o) \in Nat BY <2>3, AmountType
  <2>7. InFlight(o)' <= InFlight(o) BY <1>3, <1>4, <2>2, <2>3, <2>5, <2>6
  <2>8. Told(o)' = Told(o) BY <1>1, <2>1, ToldStays
  <2>9. Told(o) <= Told(o)' BY <1>3, <2>8
  <2> QED BY <2>7, <2>9, DueOf
<1> QED BY <1>6, <1>7, <1>8, <1>9 DEF WorkerStep

\* The events of the n-th order are the ones numbered 2n - 1 and 2n.
LEMMA EvenEvents ==
    ASSUME NEW n \in Nat
    PROVE  /\ (2 * n) % 2 = 0 /\ (2 * n + 1) \div 2 = n
           /\ \A j \in Nat : j % 2 = 0 /\ (j + 1) \div 2 = n => j = 2 * n
<1>1. (2 * n) % 2 = 0 OBVIOUS
<1>2. (2 * n + 1) \div 2 = n OBVIOUS
<1>3. ASSUME NEW j \in Nat, j % 2 = 0, (j + 1) \div 2 = n PROVE j = 2 * n
  BY <1>3
<1> QED BY <1>1, <1>2, <1>3

\* A dry run's events fill every order placed, once.
LEMMA PaperComing ==
    ASSUME NEW placed \in Seq(Ids \ External), PaperEvents(placed) \in Seq(Events),
           \A m, n \in DOMAIN placed : placed[m] = placed[n] => m = n, NEW o \in Ids
    PROVE  Coming(PaperEvents(placed), o)
                = IF o \in Range(placed) THEN Order[o].RequestedSize ELSE 0
<1> DEFINE q == PaperEvents(placed)
           at(k) == (k + 1) \div 2
           f == Amounts(q, o)
<1>1. DOMAIN placed = 1 .. Len(placed) /\ Len(placed) \in Nat OBVIOUS
<1>2. DOMAIN q = 1 .. (2 * Len(placed)) BY DEF PaperEvents
<1>3. \A k \in DOMAIN q : q[k] = PaperEvent(placed[at(k)], k) BY DEF PaperEvents
<1>4. \A k \in DOMAIN q : at(k) \in DOMAIN placed BY <1>1, <1>2
<1> HIDE DEF q
<1>5. /\ IsFiniteSet(DOMAIN q) /\ Coming(q, o) = SumOver(f, DOMAIN q)
      /\ \A k \in DOMAIN q : f[k] = AmountOf(q[k], o) /\ f[k] \in Int
  BY ComingType DEF q, Coming
<1>6. ASSUME NEW k \in DOMAIN q
      PROVE  f[k] = IF k % 2 = 0 /\ placed[at(k)] = o THEN Order[o].RequestedSize ELSE 0
  <2>1. k \in Nat /\ (k % 2 = 0 \/ k % 2 = 1) BY <1>1, <1>2
  <2> HIDE DEF f, at
  <2>2. f[k] = AmountOf(PaperEvent(placed[at(k)], k), o) BY <1>3, <1>5
  <2>3. CASE k % 2 = 1 BY <2>2, <2>3 DEF AmountOf, PaperEvent, Event
  <2>4. CASE k % 2 = 0 BY <2>2, <2>4 DEF AmountOf, PaperEvent, Event
  <2> QED BY <2>1, <2>3, <2>4
<1> HIDE DEF f
<1>7. CASE o \notin Range(placed)
  <2>1. \A k \in DOMAIN q : placed[at(k)] # o BY <1>4, <1>7 DEF Range
  <2>2. \A k \in DOMAIN q : f[k] = 0 BY <1>6, <2>1
  <2>3. SumOver(f, DOMAIN q) = 0 BY <1>5, <2>2, SumZero
  <2> QED BY <1>5, <1>7, <2>3 DEF q
<1>8. CASE o \in Range(placed)
  <2>1. PICK n \in DOMAIN placed : placed[n] = o BY <1>8 DEF Range
  <2> DEFINE k == 2 * n
  <2>2. k \in DOMAIN q /\ k % 2 = 0 /\ at(k) = n
    <3>1. n \in Nat /\ n >= 1 /\ n <= Len(placed) BY <1>1
    <3>2. k \in DOMAIN q BY <1>1, <1>2, <3>1
    <3>3. (2 * n) % 2 = 0 /\ (2 * n + 1) \div 2 = n BY <3>1, EvenEvents
    <3> QED BY <3>2, <3>3
  <2>3. \A j \in DOMAIN q : j % 2 = 0 /\ at(j) = n => j = k
    <3>1. n \in Nat /\ \A j \in DOMAIN q : j \in Nat BY <1>1, <1>2
    <3>2. \A j \in Nat : j % 2 = 0 /\ (j + 1) \div 2 = n => j = 2 * n BY <3>1, EvenEvents
    <3> QED BY <3>1, <3>2
  <2> HIDE DEF k
  <2>4. f[k] = Order[o].RequestedSize BY <1>6, <2>1, <2>2
  <2>5. ASSUME NEW j \in DOMAIN q \ {k} PROVE f[j] = 0
    <3>1. j % 2 # 0 \/ at(j) # n BY <2>3
    <3>2. at(j) \in DOMAIN placed BY <1>4
    <3> HIDE DEF at
    <3>3. at(j) # n => placed[at(j)] # o BY <2>1, <3>2
    <3> QED BY <1>6, <3>1, <3>3
  <2>6. SumOver(f, DOMAIN q) = f[k] + SumOver(f, DOMAIN q \ {k}) BY <1>5, <2>2, SumRemove
  <2>7. SumOver(f, DOMAIN q \ {k}) = 0
    <3>1. IsFiniteSet(DOMAIN q \ {k}) BY <1>5, FS_Subset
    <3> QED BY <2>5, <3>1, SumZero
  <2>8. Order[o].RequestedSize \in Nat BY OrderParts
  <2> QED BY <1>5, <1>8, <2>4, <2>6, <2>7, <2>8 DEF q
<1> QED BY <1>7, <1>8

\* A batch that is submitted brings nothing that was not told: rejections fill nothing,
\* and a dry run's trades are made with the events that tell of them.
LEMMA DueOfSubmit ==
    ASSUME Inv, Inv', NothingYet, Submit
    PROVE  DueGrows
<1> SUFFICES ASSUME NEW o \in Ids PROVE Due(o) <= Due(o)' BY DEF DueGrows
<1>1. UNCHANGED <<pending, loop, tracked, worker, wsOut, plan>>
  BY SubmitFrame DEF engineVars, bootVars
<1>2. AmountsOf(o) /\ AmountsOf(o)' BY AmountsAreTyped, AmountsStayTyped DEF AmountsType
<1>3. /\ Coming(bus, o) \in Nat /\ Coming(wsOut, o) \in Nat /\ Coming(worker.todo, o) \in Nat
      /\ Coming(loop.replay, o) \in Nat /\ Coming(pending[o], o) \in Nat
      /\ Coming(bus', o) \in Nat /\ Told(o) \in Nat /\ Told(o)' \in Nat
  BY <1>2 DEF AmountsOf
<1>4. /\ InFlight(o) = Coming(bus, o) + Coming(wsOut, o) + Coming(worker.todo, o)
                         + Coming(loop.replay, o) + Coming(pending[o], o)
      /\ InFlight(o)' = Coming(bus', o) + Coming(wsOut, o) + Coming(worker.todo, o)
                          + Coming(loop.replay, o) + Coming(pending[o], o)
  BY <1>1 DEF InFlight
<1>5. /\ InFlight(o) \in Nat /\ InFlight(o)' \in Nat
       /\ \A d \in Nat : Coming(bus', o) <= Coming(bus, o) + d => InFlight(o)' <= InFlight(o) + d
  BY <1>3, <1>4
<1>6. OffBook(o)' <=> OffBook(o) BY <1>1 DEF OffBook
<1>7. PICK batch \in plan.batches : submitIntents(batch) BY DEF Submit
<1>8. PICK out \in Seq(Range(batch)) : Execute(out)
  <2>1. Bounded(ledger, Own(ledger)) BY UnderOwn, InUnder DEF Inv
  <2> QED BY <1>7, <2>1, SubmitUnder
<1>9. CASE ~ plan.dryRun
  <2>1. ExecuteLive(out) BY <1>8, <1>9 DEF Execute
  <2>2. UNCHANGED trades BY <2>1, LiveParts
  <2>3. PICK told \in Seq(Events) : \E refused : Silent(told) /\ Publish(told, refused)
    BY <2>1, LiveParts
  <2>4. Coming(bus', o) <= Coming(bus, o) + Coming(told, o) BY <2>3, ComingPublish DEF Inv
  <2>5. Coming(told, o) = 0 BY <2>3, SilentComing
  <2>6. InFlight(o)' <= InFlight(o) BY <1>3, <1>4, <2>4, <2>5
  <2>7. Told(o)' = Told(o) BY <1>1, <2>2, ToldStays
  <2>8. Told(o) <= Told(o)' BY <1>3, <2>7
  <2> QED BY <2>6, <2>8, DueOf
<1>10. CASE plan.dryRun
  <2>1. ExecuteDryRun(out) BY <1>8, <1>10 DEF Execute
  <2>2. PICK placed \in Seq(Ids \ External) :
            /\ Fresh(placed) /\ Booked(Range(placed), Range(placed))
            /\ PaperEvents(placed) \in Seq(Events) /\ Publish(PaperEvents(placed), {})
    BY <2>1, DryRunParts
  <2> DEFINE paper == PaperEvents(placed)
             size == Order[o].RequestedSize
  <2>3. Coming(bus', o) <= Coming(bus, o) + Coming(paper, o) BY <2>2, ComingPublish DEF Inv
  <2>4. Coming(paper, o) = IF o \in Range(placed) THEN size ELSE 0
    BY <2>2, PaperComing DEF Fresh
  <2> HIDE DEF paper
  <2>5. size \in Nat BY OrderParts
  <2>6. Told(o)' = Told(o) + Coming(paper, o)
    <3>1. trades'[o] = IF o \in Range(placed) THEN Paper(o) ELSE trades[o] BY <2>2 DEF Booked
    <3>2. CASE o \notin Range(placed)
      <4>1. trades'[o] = trades[o] BY <3>1, <3>2
      <4>2. Told(o)' = Told(o) BY <1>1, <1>6, <4>1 DEF Told, Settled, Heard
      <4> QED BY <1>3, <2>4, <3>2, <4>2
    <3>3. CASE o \in Range(placed)
      <4>1. exch[o] = "none" BY <2>2, <3>3 DEF Fresh, Range
      <4>2. trades[o] = << >> BY <4>1 DEF NothingYet
      <4>3. Told(o) = 0 BY <4>2, SettledNone DEF Told
      <4>4. OffBook(o) BY <1>10, <2>2, <3>3, RangeType DEF OffBook
      <4>5. Told(o)' = Settled(trades'[o], DOMAIN trades'[o])
        <5>1. Heard(o)' = DOMAIN trades'[o] BY <1>6, <4>4 DEF Heard
        <5> QED BY <5>1 DEF Told, Settled
      <4>6. Told(o)' = size BY <3>1, <3>3, <4>5, SettledPaper
      <4> QED BY <2>4, <2>5, <3>3, <4>3, <4>6
    <3> QED BY <3>2, <3>3
  <2>7. Coming(paper, o) \in Nat BY <2>4, <2>5
  <2>8. InFlight(o)' <= InFlight(o) + Coming(paper, o) BY <1>5, <2>3, <2>7
  <2>9. Due(o)' = Told(o)' - InFlight(o)' BY DEF Due
  <2> QED BY <1>3, <1>5, <2>6, <2>7, <2>8, <2>9 DEF Due
<1> QED BY <1>9, <1>10

\* An event is handled, kept for later, or dropped: what then waits in the loop and in
\* the buffer is at most what waited, and the event itself only if it was kept.
LEMMA HandleWaits ==
    ASSUME Inv, BufferedOwn, NEW e \in Events, NEW rest \in Seq(Events),
           handleExecutionEvent(e, rest), NEW o \in Ids
    PROVE  LET waits == Coming(loop'.replay, o) + Coming(pending'[o], o)
               kept  == Coming(rest, o) + Coming(pending[o], o)
           IN  IF e.OrderID # NoOrder /\ HandleFill(e, rest) THEN waits = kept
               ELSE waits <= kept + AmountOf(e, o)
<1> DEFINE x == e.OrderID
<1>1. pending \in [Ids -> Seq(Events)] BY DEF Inv, LoopType
<1>2. pending[o] \in Seq(Events) /\ << >> \in Seq(Events) BY <1>1
<1>3. Coming(rest, o) \in Nat /\ Coming(pending[o], o) \in Nat /\ AmountOf(e, o) \in Nat
  BY <1>2, ComingType, AmountType
<1>4. Coming(<< >>, o) = 0 BY ComingEmpty
<1>5. CASE x # NoOrder /\ HandleFill(e, rest)
  <2>1. loop'.replay = rest /\ pending' = pending BY <1>5 DEF HandleFill
  <2> QED BY <1>3, <1>5, <2>1
<1>6. ASSUME ~ (x # NoOrder /\ HandleFill(e, rest))
      PROVE  Coming(loop'.replay, o) + Coming(pending'[o], o)
                <= Coming(rest, o) + Coming(pending[o], o) + AmountOf(e, o)
  <2>1. \/ HandleRejectedIntent(e, rest) \/ Ignore(rest)
        \/ /\ x # NoOrder
           /\ HandleAccepted(e, rest) \/ bufferExecution(e, rest) \/ HandleEnd(e, rest)
    BY <1>6 DEF handleExecutionEvent
  <2>2. CASE HandleRejectedIntent(e, rest) \/ Ignore(rest)
    <3>1. loop'.replay = rest /\ pending' = pending BY <2>2 DEF HandleRejectedIntent, Ignore
    <3> QED BY <1>3, <3>1
  <2>3. ASSUME x # NoOrder, HandleAccepted(e, rest)
        PROVE  Coming(loop'.replay, o) + Coming(pending'[o], o)
                  <= Coming(rest, o) + Coming(pending[o], o) + AmountOf(e, o)
    <3>1. x \in Ids BY <2>3, EventParts
    <3>2. loop'.replay = pending[x] \o rest /\ pending' = [pending EXCEPT ![x] = << >>]
      BY <2>3 DEF HandleAccepted
    <3>3. pending[x] \in Seq(Events) BY <1>1, <3>1
    <3>4. Coming(loop'.replay, o) = Coming(pending[x], o) + Coming(rest, o)
      BY <3>2, <3>3, ComingConcat
    <3>5. CASE x = o
      <4>1. pending'[o] = << >> BY <1>1, <3>2, <3>5
      <4> QED BY <1>3, <1>4, <3>4, <3>5, <4>1
    <3>6. CASE x # o
      <4>1. pending'[o] = pending[o] BY <1>1, <3>2, <3>6
      <4>2. \A n \in DOMAIN pending[x] : AmountOf(pending[x][n], o) = 0
        BY <3>1, <3>6 DEF BufferedOwn, AmountOf
      <4>3. Coming(pending[x], o) = 0 BY <3>3, <4>2, ComingNothing
      <4> QED BY <1>3, <3>4, <4>1, <4>3
    <3> QED BY <3>5, <3>6
  <2>4. ASSUME x # NoOrder, bufferExecution(e, rest)
        PROVE  Coming(loop'.replay, o) + Coming(pending'[o], o)
                  <= Coming(rest, o) + Coming(pending[o], o) + AmountOf(e, o)
    <3>1. x \in Ids BY <2>4, EventParts
    <3>2. loop'.replay = rest /\ pending' = [pending EXCEPT ![x] = Append(pending[x], e)]
      BY <2>4 DEF bufferExecution
    <3>3. CASE x = o
      <4>1. pending'[o] = Append(pending[o], e) BY <1>1, <3>2, <3>3
      <4>2. Coming(pending'[o], o) = Coming(pending[o], o) + AmountOf(e, o)
        BY <1>2, <4>1, ComingAppend
      <4> QED BY <1>3, <3>2, <4>2
    <3>4. CASE x # o
      <4>1. pending'[o] = pending[o] BY <1>1, <3>2, <3>4
      <4> QED BY <1>3, <3>2, <4>1
    <3> QED BY <3>3, <3>4
  <2>5. ASSUME x # NoOrder, HandleEnd(e, rest)
        PROVE  Coming(loop'.replay, o) + Coming(pending'[o], o)
                  <= Coming(rest, o) + Coming(pending[o], o) + AmountOf(e, o)
    <3>1. x \in Ids BY <2>5, EventParts
    <3>2. loop'.replay = rest /\ pending' = [pending EXCEPT ![x] = << >>]
      BY <2>5 DEF HandleEnd, finalizeOrder
    <3>3. pending'[o] = pending[o] \/ pending'[o] = << >> BY <1>1, <3>2
    <3> QED BY <1>3, <1>4, <3>2, <3>3
  <2> QED BY <2>1, <2>2, <2>3, <2>4, <2>5
<1> QED BY <1>5, <1>6

\* Only a fill buys anything.
LEMMA HandleBounded ==
    ASSUME Covers(ledger), NEW B, Bounded(ledger, B), NEW e \in Events, NEW rest,
           handleExecutionEvent(e, rest), ~ (e.OrderID # NoOrder /\ HandleFill(e, rest))
    PROVE  Bounded(ledger', B)
<1> DEFINE o == e.OrderID
           q == Order[o]
<1>1. CASE ledger' = ledger BY <1>1
<1>2. CASE HandleRejectedIntent(e, rest)
  BY <1>2, ReleaseBounded DEF HandleRejectedIntent
<1>3. ASSUME o # NoOrder, HandleAccepted(e, rest) PROVE Bounded(ledger', B)
  <2>1. o \in Ids BY <1>3, EventParts
  <2> DEFINE r == AttachOrder(ledger, e.ParentOrderID, o, q.TokenID, q.Side, q.Price,
                              q.RequestedSize)
  <2>2. ledger' = r.st BY <1>3 DEF HandleAccepted
  <2>3. Bounded(r.st, B) BY <2>1, AttachBounded
  <2> QED BY <2>2, <2>3
<1>4. CASE HandleEnd(e, rest)
  <2> DEFINE freed == IF e.Status = "Rejected" THEN ReleaseProvisional(ledger, e.ParentOrderID)
                                               ELSE ledger
  <2>1. ledger' = IF o \in accepted THEN ReleaseOrder(freed, o) ELSE freed
    BY <1>4 DEF HandleEnd
  <2>2. Covers(freed) /\ Bounded(freed, B) BY ReleaseProvisionalCovers, ReleaseBounded
  <2> HIDE DEF freed
  <2> QED BY <2>1, <2>2, ReleaseBounded
<1>5. \/ ledger' = ledger \/ HandleRejectedIntent(e, rest) \/ HandleEnd(e, rest)
      \/ o # NoOrder /\ HandleAccepted(e, rest)
  BY DEF handleExecutionEvent, Ignore, bufferExecution
<1> QED BY <1>1, <1>2, <1>3, <1>4, <1>5

\* Handling an event moves what it says from what waits to what is booked.
LEMMA HandleDue ==
    ASSUME Inv, Inv', BufferedOwn, NEW e \in Events, NEW rest \in Seq(Events),
           handleExecutionEvent(e, rest), UNCHANGED <<plan, trades, tracked, worker, wsOut>>,
           NEW o \in Ids, Coming(bus', o) + Coming(rest, o) + AmountOf(e, o)
                             <= Coming(bus, o) + Coming(loop.replay, o)
    PROVE  IF e.OrderID # NoOrder /\ HandleFill(e, rest) THEN Due(o) + AmountOf(e, o) <= Due(o)'
           ELSE Due(o) <= Due(o)'
<1> DEFINE fill == e.OrderID # NoOrder /\ HandleFill(e, rest)
           more == IF fill THEN AmountOf(e, o) ELSE 0
           amount == AmountOf(e, o)
           b == Coming(bus, o)
           w == Coming(wsOut, o)
           d == Coming(worker.todo, o)
           r == Coming(loop.replay, o)
           p == Coming(pending[o], o)
           k == Coming(rest, o)
           b1 == Coming(bus', o)
           r1 == Coming(loop'.replay, o)
           p1 == Coming(pending'[o], o)
           told == Told(o)
<1>1. AmountsOf(o) /\ AmountsOf(o)' BY AmountsAreTyped, AmountsStayTyped DEF AmountsType
<1>2. /\ b \in Nat /\ w \in Nat /\ d \in Nat /\ r \in Nat /\ p \in Nat /\ k \in Nat
      /\ b1 \in Nat /\ r1 \in Nat /\ p1 \in Nat /\ amount \in Nat /\ told \in Nat
  BY <1>1, ComingType, AmountType DEF AmountsOf
<1>3. Told(o)' = told BY ToldStays
<1>4. /\ Due(o) = told - (b + w + d + r + p)
      /\ Due(o)' = Told(o)' - (b1 + w + d + r1 + p1)
  BY DEF Due, InFlight
<1>5. IF fill THEN r1 + p1 = k + p ELSE r1 + p1 <= k + p + amount BY HandleWaits
<1>6. more = (IF fill THEN amount ELSE 0) /\ b1 + k + amount <= b + r OBVIOUS
<1> HIDE DEF fill, more, amount, b, w, d, r, p, k, b1, r1, p1, told
<1>7. more \in Nat /\ r1 + p1 + more <= k + p + amount BY <1>2, <1>5, <1>6
<1>8. b1 + k + amount + r1 + p1 + more <= b + r + k + p + amount BY <1>2, <1>6, <1>7
<1>9. b1 + w + d + r1 + p1 + more <= b + w + d + r + p BY <1>2, <1>7, <1>8
<1>10. Due(o) + more <= Due(o)' /\ Due(o) \in Int BY <1>2, <1>3, <1>4, <1>7, <1>9
<1> QED BY <1>6, <1>10 DEF fill, amount

\* So no fill is booked that was not told, and none twice.
LEMMA HandleBooked ==
    ASSUME Inv, Inv', BufferedOwn, BookedOnce, NEW e \in Events, NEW rest \in Seq(Events),
           handleExecutionEvent(e, rest), UNCHANGED <<plan, trades, tracked, worker, wsOut>>,
           \A o \in Ids : Coming(bus', o) + Coming(rest, o) + AmountOf(e, o)
                            <= Coming(bus, o) + Coming(loop.replay, o)
    PROVE  BookedOnce'
<1>1. \A o \in Ids : Due(o) \in Int /\ Due(o)' \in Int /\ AmountOf(e, o) \in Nat
  BY AmountsAreTyped, AmountsStayTyped, AmountType DEF AmountsType, AmountsOf
<1>2. CASE ~ (e.OrderID # NoOrder /\ HandleFill(e, rest))
  <2>1. DueGrows BY <1>2, HandleDue DEF DueGrows
  <2>2. Bounded(ledger', Tally) BY <1>2, HandleBounded DEF BookedOnce, Inv
  <2> QED BY <2>1, <2>2, BookedKept
<1>3. CASE e.OrderID # NoOrder /\ HandleFill(e, rest)
  <2> DEFINE x == e.OrderID
             q == Order[x]
             f == [o \in Ids |-> Due(o)]
             g == [o \in Ids |-> Due(o)']
  <2>1. \A o \in Ids : Due(o) + AmountOf(e, o) <= Due(o)' BY <1>3, HandleDue
  <2>2. x \in Ids /\ e.FilledSize \in Nat /\ e.Price \in Nat /\ 1 \in Nat BY <1>3, EventParts
  <2>3. q.TokenID \in Tokens /\ q.Side \in Sides BY <2>2, OrderParts
  <2>4. ledger' = ApplyFill(ledger, x, q.TokenID, q.Side, e.FilledSize, e.Price, 1)
    BY <1>3 DEF HandleFill
  <2>5. AmountOf(e, x) = e.FilledSize BY DEF AmountOf
  <2>6. \A o \in Ids : f[o] \in Int /\ g[o] \in Int /\ f[o] <= g[o] BY <1>1, <2>1
  <2>7. f[x] + e.FilledSize <= g[x] BY <2>1, <2>2, <2>5
  <2>8. Tally = TallyOf(f) /\ Tally' = TallyOf(g) BY DEF Tally, TallyOf, Purchases
  <2>9. Covers(ledger) /\ Bounded(ledger, TallyOf(f)) BY <2>8 DEF Inv, BookedOnce
  <2> HIDE DEF f, g, x
  <2>10. \A t \in Tokens : /\ TallyOf(f)[t] \in Int /\ TallyOf(g)[t] \in Int
                           /\ TallyOf(f)[t] <= TallyOf(g)[t]
    BY <2>6, TallyMono
  <2>11. q.Side = "BUY" => TallyOf(f)[q.TokenID] + e.FilledSize <= TallyOf(g)[q.TokenID]
    BY <2>2, <2>6, <2>7, TallyFill
  <2> HIDE DEF q
  <2> DEFINE B == TallyOf(f)
             C == TallyOf(g)
  <2>12. /\ Bounded(ledger, B)
         /\ \A t \in Tokens : B[t] \in Int /\ C[t] \in Int /\ B[t] <= C[t]
         /\ q.Side = "BUY" => B[q.TokenID] + e.FilledSize <= C[q.TokenID]
    BY <2>9, <2>10, <2>11
  <2> HIDE DEF B, C
  <2>13. Bounded(ledger', C) BY <2>2, <2>3, <2>4, <2>9, <2>12, ApplyFillBounded
  <2> QED BY <2>8, <2>13 DEF BookedOnce, C, Bounded
<1> QED BY <1>2, <1>3

\* The engine loop, one turn.
LEMMA EngineBooked ==
    ASSUME Inv, Inv', BufferedOwn, BookedOnce, EngineStep
    PROVE  BookedOnce'
<1>0. UNCHANGED <<plan, trades, tracked, worker, wsOut>>
  BY EngineFrame DEF executorVars, exchangeVars, bootVars
<1>1. bus \in Seq(Events) /\ loop.replay \in Seq(Events) /\ << >> \in Seq(Events)
  BY DEF Inv, LoopType, ChannelType
<1>2. \A o \in Ids : Coming(<< >>, o) = 0 BY ComingEmpty
<1>3. CASE Receive
  <2>1. /\ bus # << >> /\ loop.replay = << >> /\ bus' = Tail(bus)
        /\ handleExecutionEvent(Head(bus), << >>)
    BY <1>3 DEF Receive, LoopFree
  <2>2. Head(bus) \in Events BY <1>1, <2>1
  <2>3. ASSUME NEW o \in Ids
        PROVE  Coming(bus', o) + Coming(<< >>, o) + AmountOf(Head(bus), o)
                 <= Coming(bus, o) + Coming(loop.replay, o)
    <3>1. Coming(bus, o) = AmountOf(Head(bus), o) + Coming(bus', o) /\ bus' \in Seq(Events)
      BY <1>1, <2>1, ComingTail
    <3>2. Coming(bus', o) \in Nat /\ AmountOf(Head(bus), o) \in Nat
      BY <2>2, <3>1, ComingType, AmountType
    <3> QED BY <1>2, <2>1, <3>1, <3>2
  <2> QED BY <1>0, <1>1, <2>1, <2>2, <2>3, HandleBooked
<1>4. CASE Replay
  <2> DEFINE e == Head(loop.replay)
             rest == Tail(loop.replay)
  <2>1. loop.replay # << >> /\ bus' = bus /\ handleExecutionEvent(e, rest)
    BY <1>4 DEF Replay
  <2>2. e \in Events /\ rest \in Seq(Events) BY <1>1, <2>1
  <2>3. ASSUME NEW o \in Ids
        PROVE  Coming(bus', o) + Coming(rest, o) + AmountOf(e, o)
                 <= Coming(bus, o) + Coming(loop.replay, o)
    <3>1. Coming(loop.replay, o) = AmountOf(e, o) + Coming(rest, o)
      BY <1>1, <2>1, ComingTail
    <3>2. Coming(bus, o) \in Nat /\ Coming(rest, o) \in Nat /\ AmountOf(e, o) \in Nat
      BY <1>1, <2>2, ComingType, AmountType
    <3> HIDE DEF e, rest
    <3> QED BY <2>1, <3>1, <3>2
  <2> HIDE DEF e, rest
  <2> QED BY <1>0, <2>1, <2>2, <2>3, HandleBooked
<1>5. CASE CloseFilled
  <2>1. /\ ledger' = ReleaseOrder(ledger, loop.closing) /\ bus' = bus
        /\ loop' = [loop EXCEPT !.closing = NoOrder]
        /\ pending' = [pending EXCEPT ![loop.closing] = << >>]
    BY <1>5 DEF CloseFilled, finalizeOrder
  <2>2. loop'.replay = loop.replay BY <2>1 DEF Inv, LoopType
  <2>3. \A o \in Ids : pending'[o] = pending[o] \/ pending'[o] = << >>
    BY <2>1 DEF Inv, LoopType
  <2>4. DueGrows BY <1>0, <2>1, <2>2, <2>3, DueOfEngine
  <2>5. Bounded(ledger', Tally) BY <2>1, ReleaseBounded DEF Inv, BookedOnce
  <2> QED BY <2>4, <2>5, BookedKept
<1> QED BY <1>3, <1>4, <1>5 DEF EngineStep

\* The account survives a step that leaves the ledger's purchases alone.
LEMMA SameBooked ==
    ASSUME Inv, Inv', BookedOnce, DueGrows, ledger' = ledger
    PROVE  BookedOnce'
<1>1. Bounded(ledger', Tally) BY DEF BookedOnce
<1> QED BY <1>1, BookedKept

\* What is due covers at least nothing.
LEMMA TallyNat ==
    ASSUME Inv, BookedOnce
    PROVE  \A t \in Tokens : Tally[t] \in Nat
<1> TAKE t \in Tokens
<1> DEFINE f == [o \in Ids |-> Due(o)]
<1>1. \A o \in Ids : f[o] \in Int BY AmountsAreTyped DEF AmountsType, AmountsOf
<1>2. Tally = TallyOf(f) BY DEF Tally
<1> HIDE DEF f
<1>3. Tally[t] \in Int BY <1>1, <1>2, TallyMono
<1>4. TokenAt(ledger, t).TotalBought \in Nat BY TokenAtType DEF Inv, Covers, TokenPosition
<1>5. TokenAt(ledger, t).TotalBought <= Tally[t] BY DEF BookedOnce, Bounded
<1> QED BY <1>3, <1>4, <1>5

\* A ledger that has bought nothing, with nothing on its way to it.
LEMMA EmptyBooked ==
    ASSUME Inv, \A t \in Tokens : TokenAt(ledger, t).TotalBought = 0, bus = << >>, wsOut = << >>, worker.todo = << >>,
           loop.replay = << >>, \A o \in Ids : pending[o] = << >>
    PROVE  BookedOnce
<1> DEFINE f == [o \in Ids |-> Due(o)]
           z == [o \in Ids |-> 0]
<1>1. ASSUME NEW o \in Ids PROVE Due(o) \in Nat
  <2>1. Coming(<< >>, o) = 0 BY ComingEmpty
  <2>2. InFlight(o) = 0 BY <2>1 DEF InFlight
  <2>3. Told(o) \in Nat BY AmountsAreTyped DEF AmountsType, AmountsOf
  <2> QED BY <2>2, <2>3 DEF Due
<1>2. \A o \in Ids : f[o] \in Nat BY <1>1
<1>3. Tally = TallyOf(f) BY DEF Tally
<1> HIDE DEF f
<1>4. ASSUME NEW t \in Tokens PROVE TokenAt(ledger, t).TotalBought <= Tally[t]
  <2>1. IsFiniteSet(Purchases(t)) /\ Purchases(t) \subseteq Ids
    BY OrderFlowAssumption, FS_Subset DEF Purchases
  <2>2. \A o \in Purchases(t) : f[o] \in Nat /\ f[o] \in Int BY <1>2, <2>1
  <2>3. SumOver(f, Purchases(t)) \in Nat BY <2>1, <2>2, SumType
  <2>4. Tally[t] \in Nat BY <1>3, <2>3 DEF TallyOf
  <2> QED BY <2>4
<1> QED BY <1>4 DEF BookedOnce, Bounded

\* ... after a crash.
LEMMA CrashBooked == Inv' /\ Crash => BookedOnce'
<1> SUFFICES ASSUME Inv', Crash PROVE BookedOnce' OBVIOUS
<1>1. /\ bus' = << >> /\ wsOut' = << >> /\ worker'.todo = << >>
      /\ loop'.replay = << >> /\ \A o \in Ids : pending'[o] = << >>
      /\ \A t \in Tokens : TokenAt(ledger', t).TotalBought = 0
  BY DEF Crash, NewState, Idle, TokenAt, ZeroPosition
<1>2. (/\ Inv /\ (\A t \in Tokens : TokenAt(ledger, t).TotalBought = 0)
       /\ bus = << >> /\ wsOut = << >> /\ worker.todo = << >>
       /\ loop.replay = << >> /\ \A o \in Ids : pending[o] = << >>)' => BookedOnce'
  BY EmptyBooked, PTL
<1> QED BY <1>1, <1>2

\* Every step keeps the account.
LEMMA StepBooked ==
    ASSUME Inv, Inv', OnceOnlyInv, [Next]_vars
    PROVE  BookedOnce'
<1>0. BookedOnce /\ MessagesTrue /\ NothingYet /\ BufferedOwn BY DEF OnceOnlyInv
<1>1. CASE Submit
  <2>1. DueGrows BY <1>0, <1>1, DueOfSubmit
  <2>2. ledger' \in Under(Tally) BY <1>0, <1>1, SubmitUnder DEF Submit, BookedOnce
  <2>3. Bounded(ledger', Tally) BY <2>2, InUnder
  <2> QED BY <1>0, <2>1, <2>3, BookedKept
<1>2. CASE EngineStep BY <1>0, <1>2, EngineBooked
<1>3. CASE CleanStep
  <2>1. UNCHANGED <<plan, trades, tracked, bus, wsOut, worker, loop>>
    BY <1>3, CleanFrame DEF executorVars, exchangeVars, bootVars
  <2>2. /\ ledger' \in {ledger, Elapse(ledger), CleanupExpiredProvisional(ledger)}
        /\ \A o \in Ids : pending'[o] = pending[o] \/ pending'[o] = << >>
    BY <1>3 DEF CleanStep, cleanupExpiredPending, cleanupExpiredFinalized,
                cleanupExpiredProvisional, Tick, engineVars
  <2>3. DueGrows BY <2>1, <2>2, DueOfEngine
  <2>4. Bounded(ledger, Tally) /\ Covers(ledger) BY <1>0 DEF BookedOnce, Inv
  <2>5. Bounded(ledger', Tally) BY <2>2, <2>4, CleanupBounded
  <2> QED BY <1>0, <2>3, <2>5, BookedKept
<1>4. CASE WorkerStep BY <1>0, <1>4, WorkerFrame, DueOfWorker, SameBooked
<1>5. CASE SocketStep BY <1>0, <1>5, SocketFrame, DueOfSocket, SameBooked
<1>6. CASE ExchangeStep BY <1>0, <1>6, ExchangeFrame, DueOfExchange, SameBooked
<1>7. CASE ReconStep
  <2>1. UNCHANGED <<plan, trades, tracked, bus, wsOut, worker, loop, pending>>
    BY <1>7, ReconFrame DEF engineVars, executorVars, exchangeVars, bootVars
  <2>2. DueGrows BY <2>1, DueOfEngine
  <2>3. Bounded(ledger, Tally) /\ Covers(ledger) /\ \A t \in Tokens : Tally[t] \in Nat
    BY <1>0, TallyNat DEF BookedOnce, Inv
  <2>4. CASE ledger' = ledger BY <1>0, <2>2, <2>4, SameBooked
  <2>5. CASE ReconcileOrders
    <3>1. IsMap(recon.orders, Ids, Remotes) BY DEF Inv, ReconType, IsAnswer, Remotes
    <3>2. IsFiniteSet(DOMAIN recon.orders) BY <3>1, OrderFlowAssumption, FS_Subset DEF IsMap
    <3>3. ledger \in Under(Tally) BY <2>3, InUnder
    <3>4. reconcileOrders(ledger, recon.orders) \in Under(Tally)
      BY <3>1, <3>2, <3>3, ReconcileOrdersUnder
    <3>5. Bounded(ledger', Tally) BY <2>5, <3>4, InUnder DEF ReconcileOrders
    <3> QED BY <1>0, <2>2, <3>5, BookedKept
  <2>6. CASE ReconcilePositions
    <3>1. IsMap(recon.positions, Tokens, Nat) BY DEF Inv, ReconType, IsAnswer
    <3>2. Bounded(reconcilePositions(ledger, recon.positions), Tally)
      BY <2>3, <3>1, ReconcilePositionsBounded
    <3>3. Bounded(ledger', Tally) BY <2>6, <3>2 DEF ReconcilePositions
    <3> QED BY <1>0, <2>2, <3>3, BookedKept
  <2> QED BY <1>7, <2>4, <2>5, <2>6
       DEF ReconStep, GetOpenOrders, GetPositions, GetPositionsFails
<1>8. CASE Crash BY <1>8, CrashBooked
<1>9. CASE StartStep
  <2>1. UNCHANGED <<plan, trades, tracked, bus, wsOut, worker, loop, pending>>
    BY <1>9, StartFrame DEF executorVars, exchangeVars
  <2>2. DueGrows BY <2>1, DueOfEngine
  <2>3. Bounded(ledger, Tally) /\ Covers(ledger) /\ \A t \in Tokens : Tally[t] \in Nat
    BY <1>0, TallyNat DEF BookedOnce, Inv
  <2>4. CASE ledger' = ledger BY <1>0, <2>2, <2>4, SameBooked
  <2>5. CASE SyncBalance
    <3>1. Bounded(ledger', Tally) BY <2>3, <2>5, SyncBounded DEF SyncBalance
    <3> QED BY <1>0, <2>2, <3>1, BookedKept
  <2>6. CASE BootRestore
    <3>1. IsMap(boot.orders, Ids, Remotes) /\ IsMap(boot.positions, Tokens, Nat)
          /\ boot.balance \in Int \X Nat
      BY DEF Inv, BootType, IsAnswer, Remotes
    <3>2. IsFiniteSet(DOMAIN boot.orders) BY <3>1, OrderFlowAssumption, FS_Subset DEF IsMap
    <3>3. Restore(ledger, boot.balance, boot.orders, boot.positions) \in Under(Tally)
      BY <2>3, <3>1, <3>2, RestoreUnder
    <3>4. Bounded(ledger', Tally) BY <2>6, <3>3, InUnder DEF BootRestore
    <3> QED BY <1>0, <2>2, <3>4, BookedKept
  <2> QED BY <1>9, <2>4, <2>5, <2>6
       DEF StartStep, BootStep, ReadOnchainBalance, BootOpenOrders, BootPositions, BootBalance,
           BootLoops
<1>10. CASE UNCHANGED vars
  <2>1. UNCHANGED <<ledger, plan, trades, tracked, bus, wsOut, worker, loop, pending>>
    BY <1>10 DEF vars, engineVars, executorVars, exchangeVars, bootVars
  <2> QED BY <1>0, <2>1, DueOfEngine, SameBooked
<1> QED BY <1>1, <1>2, <1>3, <1>4, <1>5, <1>6, <1>7, <1>8, <1>9, <1>10, StepKinds

\* The ways an event is handled.
LEMMA HandleKinds ==
    ASSUME NEW e, NEW rest, handleExecutionEvent(e, rest)
    PROVE  \/ HandleRejectedIntent(e, rest) \/ Ignore(rest)
           \/ e.OrderID # NoOrder /\ HandleAccepted(e, rest)
           \/ e.OrderID # NoOrder /\ bufferExecution(e, rest)
           \/ e.OrderID # NoOrder /\ HandleFill(e, rest)
           \/ e.OrderID # NoOrder /\ HandleEnd(e, rest)
BY DEF handleExecutionEvent

\* What is buffered for an order stays its own.
LEMMA StepBuffered ==
    ASSUME Inv, BufferedOwn, [Next]_vars
    PROVE  BufferedOwn'
<1>0. pending \in [Ids -> Seq(Events)] BY DEF Inv, LoopType
<1>1. ASSUME \A o \in Ids : pending'[o] = pending[o] \/ pending'[o] = << >> PROVE BufferedOwn'
  <2> SUFFICES ASSUME NEW o \in Ids, NEW n \in DOMAIN pending'[o]
               PROVE  pending'[o][n].OrderID = o
    BY DEF BufferedOwn
  <2>1. DOMAIN << >> = {} OBVIOUS
  <2>2. pending'[o] = pending[o] BY <1>1, <2>1
  <2> QED BY <2>2 DEF BufferedOwn
<1>2. ASSUME NEW e \in Events, NEW rest, handleExecutionEvent(e, rest) PROVE BufferedOwn'
  <2> DEFINE x == e.OrderID
  <2>1. CASE x # NoOrder /\ bufferExecution(e, rest)
    <3>1. x \in Ids BY <2>1, EventParts
    <3>2. pending' = [pending EXCEPT ![x] = Append(pending[x], e)] BY <2>1 DEF bufferExecution
    <3> SUFFICES ASSUME NEW o \in Ids, NEW n \in DOMAIN pending'[o]
                 PROVE  pending'[o][n].OrderID = o
      BY DEF BufferedOwn
    <3>3. CASE o # x
      <4>1. pending'[o] = pending[o] BY <1>0, <3>2, <3>3
      <4> QED BY <4>1 DEF BufferedOwn
    <3>4. CASE o = x
      <4> DEFINE q == pending[x]
                 r == Append(q, e)
      <4>1. pending'[o] = r /\ q \in Seq(Events) BY <1>0, <3>1, <3>2, <3>4
      <4>2. /\ Len(q) \in Nat /\ DOMAIN q = 1 .. Len(q) /\ DOMAIN r = 1 .. (Len(q) + 1)
            /\ r[Len(q) + 1] = e /\ \A k \in 1 .. Len(q) : r[k] = q[k]
        BY <4>1
      <4>3. \A k \in DOMAIN q : q[k].OrderID = x BY <3>1 DEF BufferedOwn
      <4> HIDE DEF q, r
      <4>4. n \in 1 .. Len(q) \/ n = Len(q) + 1 BY <4>1, <4>2
      <4> QED BY <3>4, <4>1, <4>2, <4>3, <4>4
    <3> QED BY <3>3, <3>4
  <2>2. CASE ~ (x # NoOrder /\ bufferExecution(e, rest))
    <3>1. \/ HandleRejectedIntent(e, rest) \/ Ignore(rest)
          \/ x # NoOrder /\ HandleAccepted(e, rest)
          \/ x # NoOrder /\ HandleFill(e, rest)
          \/ x # NoOrder /\ HandleEnd(e, rest)
      BY <1>2, <2>2, HandleKinds
    <3>2. CASE pending' = pending BY <1>1, <3>2
    <3>3. ASSUME x # NoOrder, pending' = [pending EXCEPT ![x] = << >>] PROVE BufferedOwn'
      <4>1. \A o \in Ids : pending'[o] = pending[o] \/ pending'[o] = << >> BY <1>0, <3>3
      <4> QED BY <1>1, <4>1
    <3>4. HandleRejectedIntent(e, rest) \/ Ignore(rest) \/ HandleFill(e, rest)
            => pending' = pending
      BY DEF HandleRejectedIntent, Ignore, HandleFill
    <3>5. HandleAccepted(e, rest) \/ HandleEnd(e, rest) => pending' = [pending EXCEPT ![x] = << >>]
      BY DEF HandleAccepted, HandleEnd, finalizeOrder
    <3> QED BY <3>1, <3>2, <3>3, <3>4, <3>5
  <2> QED BY <2>1, <2>2
<1>3. CASE pending' = pending BY <1>1, <1>3
<1>4. CASE EngineStep
  <2>1. CASE Receive
    <3>1. bus # << >> /\ handleExecutionEvent(Head(bus), << >>) BY <2>1 DEF Receive
    <3>2. Head(bus) \in Events BY <3>1 DEF Inv, ChannelType
    <3> QED BY <1>2, <3>1, <3>2
  <2>2. CASE Replay
    <3>1. loop.replay # << >> /\ handleExecutionEvent(Head(loop.replay), Tail(loop.replay))
      BY <2>2 DEF Replay
    <3>2. Head(loop.replay) \in Events BY <3>1 DEF Inv, LoopType
    <3> QED BY <1>2, <3>1, <3>2
  <2>3. CASE CloseFilled
    <3>1. \A o \in Ids : pending'[o] = pending[o] \/ pending'[o] = << >>
      BY <1>0, <2>3 DEF CloseFilled, finalizeOrder
    <3> QED BY <1>1, <3>1
  <2> QED BY <1>4, <2>1, <2>2, <2>3 DEF EngineStep
<1>5. CASE CleanStep
  <2>1. \A o \in Ids : pending'[o] = pending[o] \/ pending'[o] = << >>
    BY <1>5 DEF CleanStep, cleanupExpiredPending, cleanupExpiredFinalized,
                cleanupExpiredProvisional, Tick, engineVars
  <2> QED BY <1>1, <2>1
<1>6. CASE Crash
  <2>1. \A o \in Ids : pending'[o] = << >> BY <1>6 DEF Crash
  <2> QED BY <1>1, <2>1
<1>7. CASE Submit \/ WorkerStep \/ SocketStep \/ ExchangeStep \/ ReconStep \/ StartStep
  <2>1. pending' = pending
    BY <1>7, SubmitFrame, WorkerFrame, SocketFrame, ExchangeFrame, ReconFrame, StartFrame
       DEF engineVars
  <2> QED BY <1>3, <2>1
<1>8. CASE UNCHANGED vars BY <1>3, <1>8 DEF vars, engineVars
<1> QED BY <1>4, <1>5, <1>6, <1>7, <1>8, StepKinds

\* What a step may do to an order on the exchange: leave its trades alone, book its only
\* one off the book, or, in the book, add one or settle one.
Befell(o) ==
    \/ trades'[o] = trades[o] /\ (exch'[o] = "none" => exch[o] = "none")
    \/ OffBook(o) /\ exch'[o] = "closed" /\ trades'[o] = Paper(o)
    \/ /\ ~ OffBook(o) /\ exch[o] # "none" /\ exch'[o] # "none"
       /\ \A n \in DOMAIN trades[o] :
            trades[o][n].st = "MINED" => trades'[o][n] = trades[o][n]

\* Orders off the book are booked.
LEMMA BookedMoved ==
    ASSUME NEW S, NEW paid, paid \subseteq S, \A o \in S : OffBook(o), Booked(S, paid), NEW o \in Ids
    PROVE  Befell(o)
BY DEF Booked, Befell

\* Orders that leave the book.
LEMMA CancelMoved ==
    ASSUME ExchangeType, NEW orders \in Seq(Ids), CancelOnExchange(orders),
           trades' = trades, NEW o \in Ids
    PROVE  Befell(o)
<1>1. PICK gone : exch' = [x \in Ids |-> IF x \in Range(gone) THEN "closed" ELSE exch[x]]
  BY CancelParts
<1> QED BY <1>1 DEF Befell

\* The worker.
LEMMA WorkerMoved ==
    ASSUME Inv, WorkerStep, NEW o \in Ids
    PROVE  Befell(o)
<1>0. ExchangeType /\ ExecutorType /\ worker.batch \in Seq(Intents)
  BY WorkerParts DEF Inv, ExecutorType
<1>1. CASE UNCHANGED exchangeVars BY <1>1 DEF exchangeVars, Befell
<1>2. CASE WorkerPost
  <2>1. PICK os : Open(os) BY <1>2 DEF WorkerPost
  <2>2. trades' = trades BY <1>2 DEF WorkerPost
  <2> QED BY <2>1, <2>2 DEF Open, Befell
<1>3. CASE WorkerCancel
  <2>1. trades' = trades /\ (CancelOnExchange(OrdersOf(worker.batch, "CANCEL")) \/ exch' = exch)
    BY <1>3 DEF WorkerCancel
  <2>2. CASE exch' = exch BY <2>1, <2>2 DEF Befell
  <2>3. CASE CancelOnExchange(OrdersOf(worker.batch, "CANCEL"))
    <3>1. OrdersOf(worker.batch, "CANCEL") \in Seq(Ids) BY <1>0, CancelledOrders
    <3> QED BY <1>0, <2>1, <2>3, <3>1, CancelMoved DEF Inv
  <2> QED BY <2>1, <2>2, <2>3
<1>4. ASSUME NEW ok \in BOOLEAN, WorkerRelay(ok) PROVE Befell(o)
  <2>1. PICK S, paid \in SUBSET LegIds : paid \subseteq S /\ Booked(S, paid)
    BY <1>0, <1>4, RelayType
  <2>2. \A x \in S : OffBook(x) BY DEF OffBook
  <2> QED BY <2>1, <2>2, BookedMoved
<1> QED BY <1>1, <1>2, <1>3, <1>4
     DEF WorkerStep, WorkerTake, WorkerLegs, WorkerTrack, WorkerPublish

\* The exchange itself.
LEMMA ExchangeMoved ==
    ASSUME Inv, NothingYet, ExchangeStep, NEW o \in Ids
    PROVE  Befell(o)
<1>0. ExchangeType /\ trades \in [Ids -> Seq(Trades)] /\ exch \in [Ids -> {"none", "open", "closed"}]
  BY DEF Inv, ExchangeType
<1>1. \A n \in DOMAIN trades[o] : trades[o][n].st = "MINED" => trades'[o][n] = trades[o][n]
  BY ExchangeTrades
<1>2. ASSUME NEW x \in Ids, OpenByHand(x) PROVE Befell(o)
  BY <1>2 DEF OpenByHand, Open, Befell
<1>3. ASSUME NEW x \in Ids, CancelByExchange(x) PROVE Befell(o)
  <2>1. <<x>> \in Seq(Ids) /\ CancelOnExchange(<<x>>) /\ trades' = trades
    BY <1>3 DEF CancelByExchange
  <2> QED BY <1>0, <2>1, CancelMoved DEF Inv
<1>4. ASSUME NEW x \in Ids, NEW size, NEW price, Match(x, size, price) PROVE Befell(o)
  <2> DEFINE t == [size |-> size, price |-> price, st |-> "matched"]
             e == IF size >= Left(x) THEN "closed" ELSE exch[x]
  <2>1. /\ exch[x] = "open" /\ e \in {"open", "closed"} /\ exch' = [exch EXCEPT ![x] = e]
        /\ trades' = [trades EXCEPT ![x] = Append(trades[x], t)]
    BY <1>4 DEF Match
  <2> HIDE DEF t, e
  <2>2. CASE x # o
    <3>1. exch'[o] = exch[o] /\ trades'[o] = trades[o] BY <1>0, <2>1, <2>2
    <3> QED BY <3>1 DEF Befell
  <2>3. CASE x = o
    <3>1. exch[o] # "none" /\ exch'[o] # "none" BY <1>0, <2>1, <2>3
    <3>2. ~ OffBook(o) BY <2>1, <2>3 DEF Inv, OnceInv
    <3> QED BY <1>1, <3>1, <3>2 DEF Befell
  <2> QED BY <2>2, <2>3
<1>5. ASSUME NEW x \in Ids, NEW n \in DOMAIN trades[x], NEW outcome, Settle(x, n, outcome)
      PROVE  Befell(o)
  <2>1. /\ trades[x][n].st = "matched" /\ exch' = exch
        /\ trades' = [trades EXCEPT ![x][n].st = outcome]
    BY <1>5 DEF Settle
  <2>2. CASE x # o
    <3>1. trades'[o] = trades[o] BY <1>0, <2>1, <2>2
    <3> QED BY <2>1, <3>1 DEF Befell
  <2>3. CASE x = o
    <3>1. ~ OffBook(o) BY <2>1, <2>3 DEF NothingYet
    <3>2. trades[o] # << >> BY <2>3
    <3>3. exch[o] # "none" BY <3>2 DEF NothingYet
    <3> QED BY <1>1, <2>1, <3>1, <3>3 DEF Befell
  <2> QED BY <2>2, <2>3
<1>6. ASSUME NEW x \in Ids, NEW n, Redeliver(x, n) PROVE Befell(o)
  BY <1>6 DEF Redeliver, Befell
<1> QED BY <1>2, <1>3, <1>4, <1>5, <1>6, Zenon DEF ExchangeStep

\* What a step does to an order on the exchange.
LEMMA StepMoved ==
    ASSUME Inv, NothingYet, [Next]_vars, NEW o \in Ids
    PROVE  Befell(o)
<1>k. CASE UNCHANGED <<exch, trades>> BY <1>k DEF Befell
<1>1. CASE Submit
  <2>1. PICK batch \in plan.batches : submitIntents(batch) BY <1>1 DEF Submit
  <2>2. PICK out \in Seq(Range(batch)) : Execute(out) BY <2>1, SubmitCovers DEF Inv
  <2>3. CASE ~ plan.dryRun
    <3>1. ExecuteLive(out) BY <2>2, <2>3 DEF Execute
    <3> QED BY <1>k, <3>1, LiveParts
  <2>4. CASE plan.dryRun
    <3>1. ExecuteDryRun(out) BY <2>2, <2>4 DEF Execute
    <3>2. PICK S \in SUBSET (Ids \ External) : Booked(S, S) BY <3>1, DryRunParts
    <3>3. \A x \in S : OffBook(x) BY <2>4, <3>2 DEF OffBook
    <3>4. S \subseteq S OBVIOUS
    <3> QED BY <3>2, <3>3, <3>4, BookedMoved
  <2> QED BY <2>3, <2>4
<1>2. CASE EngineStep BY <1>2, <1>k, EngineFrame DEF exchangeVars
<1>3. CASE CleanStep BY <1>3, <1>k, CleanFrame DEF exchangeVars
<1>4. CASE WorkerStep BY <1>4, WorkerMoved
<1>5. CASE SocketStep BY <1>5, <1>k, SocketFrame
<1>6. CASE ExchangeStep BY <1>6, ExchangeMoved
<1>7. CASE ReconStep BY <1>7, <1>k, ReconFrame DEF exchangeVars
<1>8. CASE Crash BY <1>8, <1>k DEF Crash
<1>9. CASE StartStep BY <1>9, <1>k, StartFrame DEF exchangeVars
<1>10. CASE UNCHANGED vars BY <1>10, <1>k DEF vars, exchangeVars
<1> QED BY <1>1, <1>2, <1>3, <1>4, <1>5, <1>6, <1>7, <1>8, <1>9, <1>10, StepKinds

\* The exchange opens no leg.
LEMMA LegsUnopened ==
    ASSUME Inv, ExchangeStep, NEW o \in LegIds, exch[o] = "none"
    PROVE  exch'[o] = "none"
<1>0. o \in Ids /\ exch \in [Ids -> {"none", "open", "closed"}]
  BY LegParts DEF Inv, ExchangeType
<1>1. ASSUME NEW x \in Ids, OpenByHand(x) PROVE exch'[o] = "none"
  <2>1. x \in External BY <1>1, PlanParts DEF OpenByHand, Inv, BootType
  <2>2. o \notin External BY OrderFlowAssumption
  <2>3. Range(<<x>>) = {x} BY DEF Range
  <2>4. exch' = [z \in Ids |-> IF z \in Range(<<x>>) THEN "open" ELSE exch[z]]
    BY <1>1 DEF OpenByHand, Open
  <2> QED BY <1>0, <2>1, <2>2, <2>3, <2>4
<1>2. ASSUME NEW x \in Ids, CancelByExchange(x) PROVE exch'[o] = "none"
  <2>1. <<x>> \in Seq(Ids) /\ CancelOnExchange(<<x>>) BY <1>2 DEF CancelByExchange
  <2> DEFINE one == <<x>>
  <2>2. one \in Seq(Ids) /\ CancelOnExchange(one) BY <2>1
  <2> HIDE DEF one
  <2>3. PICK gone \in Seq({z \in Ids : exch[z] = "open"}) :
            exch' = [z \in Ids |-> IF z \in Range(gone) THEN "closed" ELSE exch[z]]
    BY <2>2, CancelParts DEF Inv
  <2>4. o \notin Range(gone) BY RangeType
  <2> QED BY <1>0, <2>3, <2>4
<1>3. ASSUME NEW x \in Ids, NEW size, NEW price, Match(x, size, price) PROVE exch'[o] = "none"
  BY <1>0, <1>3 DEF Match
<1>4. ASSUME NEW x \in Ids, NEW n, NEW outcome, Settle(x, n, outcome) PROVE exch'[o] = "none"
  BY <1>4 DEF Settle
<1>5. ASSUME NEW x \in Ids, NEW n, Redeliver(x, n) PROVE exch'[o] = "none"
  BY <1>5 DEF Redeliver
<1> QED BY <1>1, <1>2, <1>3, <1>4, <1>5, Zenon DEF ExchangeStep

\* The legs the relayer is asked about stay new until it answers.
LEMMA LegsStayNew ==
    ASSUME Inv, NothingYet, [Next]_vars, worker'.legs # << >>
    PROVE  Fresh(worker.legs)'
<1>0. worker \in Workers BY DEF Inv, ExecutorType
<1>k. ASSUME worker'.legs = worker.legs, exch' = exch PROVE Fresh(worker.legs)'
  <2>1. Fresh(worker.legs) BY <1>k DEF NothingYet
  <2> QED BY <1>k, <2>1 DEF Fresh
<1>1. CASE Submit
  <2>1. worker' = worker BY <1>1, SubmitFrame
  <2>2. ~ plan.dryRun BY <2>1 DEF Inv, OnceInv
  <2>3. PICK batch \in plan.batches : submitIntents(batch) BY <1>1 DEF Submit
  <2>4. PICK out \in Seq(Range(batch)) : Execute(out) BY <2>3, SubmitCovers DEF Inv
  <2>5. ExecuteLive(out) BY <2>2, <2>4 DEF Execute
  <2>6. exch' = exch BY <2>5, LiveParts
  <2> QED BY <1>k, <2>1, <2>6
<1>2. CASE EngineStep BY <1>2, <1>k, EngineFrame DEF executorVars, exchangeVars
<1>3. CASE CleanStep BY <1>3, <1>k, CleanFrame DEF executorVars, exchangeVars
<1>4. CASE WorkerStep
  <2>1. CASE WorkerTake
    <3>1. worker'.legs = << >> BY <2>1 DEF WorkerTake, Idle
    <3> QED BY <3>1
  <2>2. CASE WorkerPost
    <3>1. worker'.legs = worker.legs /\ worker.legs = << >>
      BY <1>0, <2>2 DEF WorkerPost, WorkerAt, Workers
    <3> QED BY <3>1
  <2>3. CASE WorkerCancel
    <3>1. worker'.legs = worker.legs /\ worker.legs = << >>
      BY <1>0, <2>3 DEF WorkerCancel, WorkerAt, Workers
    <3> QED BY <3>1
  <2>4. CASE WorkerLegs
    <3> DEFINE legs == Legs[Head(worker.batch).OrderID]
    <3>1. Fresh(legs) /\ exch' = exch BY <2>4 DEF WorkerLegs, exchangeVars
    <3>2. worker'.legs = legs
      <4> DEFINE todo == [n \in 1 .. 2 |-> publishAcceptedFromPost(NoIntent, legs[n])]
      <4>1. worker' = [worker EXCEPT !.batch = Tail(worker.batch), !.todo = todo, !.legs = legs]
        BY <2>4 DEF WorkerLegs
      <4> HIDE DEF legs, todo
      <4> QED BY <1>0, <4>1 DEF Workers
    <3> HIDE DEF legs
    <3> QED BY <3>1, <3>2 DEF Fresh
  <2>5. ASSUME NEW ok \in BOOLEAN, WorkerRelay(ok) PROVE FALSE
    <3>1. PICK todo : worker' = [worker EXCEPT !.legs = << >>, !.todo = todo]
      BY <2>5 DEF WorkerRelay
    <3> QED BY <1>0, <3>1 DEF Workers
  <2>6. CASE WorkerTrack \/ WorkerPublish
    <3>1. worker'.legs = worker.legs /\ exch' = exch
      BY <1>0, <2>6 DEF WorkerTrack, WorkerPublish, Workers, exchangeVars
    <3> QED BY <1>k, <3>1
  <2> QED BY <1>4, <2>1, <2>2, <2>3, <2>4, <2>5, <2>6 DEF WorkerStep
<1>5. CASE SocketStep BY <1>5, <1>k, SocketFrame
<1>6. CASE ExchangeStep
  <2>1. worker' = worker BY <1>6, ExchangeFrame DEF executorVars
  <2>2. Fresh(worker.legs) /\ worker.legs # << >> BY <2>1 DEF NothingYet
  <2>3. \A n \in DOMAIN worker.legs : worker.legs[n] \in LegIds
    BY <1>0, <2>2, WorkerParts
  <2>4. \A n \in DOMAIN worker.legs : exch[worker.legs[n]] = "none" BY <2>2 DEF Fresh
  <2>5. \A n \in DOMAIN worker.legs : exch'[worker.legs[n]] = "none"
    BY <1>6, <2>3, <2>4, LegsUnopened
  <2> QED BY <2>1, <2>2, <2>5 DEF Fresh
<1>7. CASE ReconStep BY <1>7, <1>k, ReconFrame DEF executorVars, exchangeVars
<1>8. CASE Crash
  <2>1. worker'.legs = << >> BY <1>8 DEF Crash, Idle
  <2> QED BY <2>1
<1>9. CASE StartStep BY <1>9, <1>k, StartFrame DEF executorVars, exchangeVars
<1>10. CASE UNCHANGED vars BY <1>10, <1>k DEF vars, executorVars, exchangeVars
<1> QED BY <1>1, <1>2, <1>3, <1>4, <1>5, <1>6, <1>7, <1>8, <1>9, <1>10, StepKinds

\* Every step keeps what is said of orders that were not opened.
LEMMA StepNothing ==
    ASSUME Inv, NothingYet, [Next]_vars
    PROVE  NothingYet'
<1>1. \A o \in Ids : Befell(o) BY StepMoved
<1>2. plan' = plan BY PlanStays
<1>3. \A o \in Ids : OffBook(o)' <=> OffBook(o) BY <1>2 DEF OffBook
<1>4. ASSUME NEW o \in Ids, exch'[o] = "none" PROVE trades'[o] = << >>
  <2>1. trades'[o] = trades[o] /\ exch[o] = "none" BY <1>1, <1>4 DEF Befell
  <2> QED BY <2>1 DEF NothingYet
<1>5. ASSUME NEW o \in Ids, OffBook(o), NEW n \in DOMAIN trades'[o]
      PROVE  trades'[o][n].st = "MINED"
  <2>1. trades'[o] = trades[o] \/ trades'[o] = Paper(o) BY <1>1, <1>5 DEF Befell
  <2>2. CASE trades'[o] = trades[o] BY <1>5, <2>2 DEF NothingYet
  <2>3. CASE trades'[o] = Paper(o)
    <3>1. DOMAIN Paper(o) = {1} /\ Paper(o)[1].st = "MINED" BY PaperType DEF Paper
    <3> QED BY <2>3, <3>1
  <2> QED BY <2>1, <2>2, <2>3
<1>6. worker'.legs # << >> => Fresh(worker.legs)' BY LegsStayNew
<1> QED BY <1>3, <1>4, <1>5, <1>6 DEF NothingYet

\* What a message of a trade says is true of the trades tr.
Tells(m, tr) ==
    m.kind = "trade" => /\ ~ OffBook(m.order)
                        /\ m.status = "MINED" => tr[m.order][m.id].st = "MINED"
AllTell(msgs, tr) == \A n \in DOMAIN msgs : Tells(msgs[n], tr)

\* Messages about orders say nothing of trades.
LEMMA OrdersTell ==
    ASSUME NEW os, NEW st, NEW tr
    PROVE  AllTell([n \in DOMAIN os |-> OrderMsg(os[n], st[n])], tr)
BY DEF AllTell, Tells, OrderMsg

\* A message about a trade in the book that settled.
LEMMA TradeTells ==
    ASSUME NEW o, NEW st, NEW n, NEW tr, ~ OffBook(o), st = "MINED" => tr[o][n].st = "MINED"
    PROVE  AllTell(<<TradeMsg(o, st, n)>>, tr)
<1> DEFINE m == TradeMsg(o, st, n)
<1>1. Tells(m, tr) BY DEF Tells, TradeMsg
<1> HIDE DEF m
<1>2. \A k \in DOMAIN <<m>> : <<m>>[k] = m OBVIOUS
<1>3. AllTell(<<m>>, tr) BY <1>1, <1>2 DEF AllTell
<1> QED BY <1>3 DEF m

\* What is sent joins the messages under way.
LEMMA SendTells ==
    ASSUME ws \in Seq(Messages), NEW msgs \in Seq(Messages), NEW tr,
           AllTell(ws, tr), AllTell(msgs, tr), Send(msgs)
    PROVE  AllTell(ws', tr)
<1>1. CASE ws' = ws BY <1>1
<1>2. CASE ws' = ws \o msgs
  <2> SUFFICES ASSUME NEW n \in DOMAIN ws' PROVE Tells(ws'[n], tr) BY DEF AllTell
  <2>1. /\ n \in 1 .. (Len(ws) + Len(msgs)) /\ Len(ws) \in Nat /\ Len(msgs) \in Nat
        /\ DOMAIN ws = 1 .. Len(ws) /\ DOMAIN msgs = 1 .. Len(msgs)
    BY <1>2
  <2>2. CASE n <= Len(ws)
    <3>1. ws'[n] = ws[n] /\ n \in DOMAIN ws BY <1>2, <2>1, <2>2
    <3> QED BY <3>1 DEF AllTell
  <2>3. CASE n > Len(ws)
    <3>1. ws'[n] = msgs[n - Len(ws)] /\ n - Len(ws) \in DOMAIN msgs BY <1>2, <2>1, <2>3
    <3> QED BY <3>1 DEF AllTell
  <2> QED BY <2>1, <2>2, <2>3
<1> QED BY <1>1, <1>2 DEF Send

\* A message that is taken out leaves the others.
LEMMA RemoveTells ==
    ASSUME ws \in Seq(Messages), NEW n \in DOMAIN ws, NEW tr, AllTell(ws, tr)
    PROVE  AllTell(RemoveAt(ws, n), tr)
<1> DEFINE r == RemoveAt(ws, n)
<1>1. \A k \in DOMAIN r : \E j \in DOMAIN ws : r[k] = ws[j] BY RemoveParts
<1> HIDE DEF r
<1>2. AllTell(r, tr) BY <1>1 DEF AllTell
<1> QED BY <1>2 DEF r

\* The orders that enter the book, and those that leave it.
LEMMA OpenTells ==
    ASSUME ws \in Seq(Messages), NEW os \in Seq(Ids), Open(os), AllTell(ws, trades')
    PROVE  AllTell(ws', trades')
<1>1. PICK st \in [DOMAIN os -> {"LIVE", "MATCHED"}] :
            Send([n \in DOMAIN os |-> OrderMsg(os[n], st[n])])
  BY DEF Open
<1> DEFINE msgs == [n \in DOMAIN os |-> OrderMsg(os[n], st[n])]
<1>2. AllTell(msgs, trades') BY OrdersTell
<1>3. msgs \in Seq(Messages)
  <2>1. \A n \in DOMAIN os : st[n] \in {"LIVE", "MATCHED", "CANCELED"} OBVIOUS
  <2>2. MessagesOf(msgs, trades) BY <2>1, OrderMessages
  <2> QED BY <2>2 DEF MessagesOf
<1>4. Send(msgs) BY <1>1
<1> HIDE DEF msgs
<1> QED BY <1>2, <1>3, <1>4, SendTells

\* ... by a cancel.
LEMMA CancelTells ==
    ASSUME ExchangeType, ws \in Seq(Messages), NEW os \in Seq(Ids),
           CancelOnExchange(os), AllTell(ws, trades')
    PROVE  AllTell(ws', trades')
<1>1. PICK gone \in Seq({o \in Ids : exch[o] = "open"}) :
            Send([n \in DOMAIN gone |-> OrderMsg(gone[n], "CANCELED")])
  BY CancelParts
<1>2. gone \in Seq(Ids)
  <2>1. {o \in Ids : exch[o] = "open"} \subseteq Ids OBVIOUS
  <2> QED BY <2>1, SubseqType
<1> DEFINE st == [n \in DOMAIN gone |-> "CANCELED"]
           msgs == [n \in DOMAIN gone |-> OrderMsg(gone[n], st[n])]
<1>3. \A n \in DOMAIN gone : st[n] \in {"LIVE", "MATCHED", "CANCELED"} OBVIOUS
<1>4. Send(msgs)
  <2>1. msgs = [n \in DOMAIN gone |-> OrderMsg(gone[n], "CANCELED")] OBVIOUS
  <2> HIDE DEF msgs
  <2> QED BY <1>1, <2>1
<1> HIDE DEF st
<1>5. AllTell(msgs, trades') BY OrdersTell
<1>6. MessagesOf(msgs, trades) BY <1>2, <1>3, OrderMessages
<1>7. msgs \in Seq(Messages) BY <1>6 DEF MessagesOf
<1> HIDE DEF msgs
<1> QED BY <1>4, <1>5, <1>7, SendTells

\* What the exchange sends is true.
LEMMA ExchangeTells ==
    ASSUME Inv, NothingYet, ExchangeStep, ws \in Seq(Messages), AllTell(ws, trades')
    PROVE  AllTell(ws', trades')
<1>0. ExchangeType /\ BookType(exch, trades) /\ harmed \subseteq Ids
  BY ExchangeParts DEF Inv
<1>1. ASSUME NEW o \in Ids, OpenByHand(o) PROVE AllTell(ws', trades')
  <2> DEFINE os == <<o>>
  <2>1. Open(os) /\ os \in Seq(Ids) BY <1>1 DEF OpenByHand
  <2> HIDE DEF os
  <2> QED BY <2>1, OpenTells
<1>2. ASSUME NEW o \in Ids, CancelByExchange(o) PROVE AllTell(ws', trades')
  <2> DEFINE os == <<o>>
  <2>1. os \in Seq(Ids) /\ CancelOnExchange(os) BY <1>2 DEF CancelByExchange
  <2> HIDE DEF os
  <2> QED BY <1>0, <2>1, CancelTells
<1>3. ASSUME NEW o \in Ids, NEW size, NEW price, Match(o, size, price) PROVE AllTell(ws', trades')
  BY <1>3 DEF Match
<1>4. ASSUME NEW o \in Ids, NEW n \in DOMAIN trades[o], NEW outcome \in {"MINED", "FAILED"},
             Settle(o, n, outcome)
      PROVE  AllTell(ws', trades')
  <2> DEFINE msgs == <<TradeMsg(o, outcome, n)>>
  <2>1. /\ trades[o][n].st = "matched" /\ Send(msgs)
        /\ trades' = [trades EXCEPT ![o][n].st = outcome]
    BY <1>4 DEF Settle
  <2>2. ~ OffBook(o) BY <2>1 DEF NothingYet
  <2>3. trades[o] \in Seq(Trades) /\ trades \in [Ids -> Seq(Trades)] BY <1>0 DEF BookType
  <2>4. trades[o][n] \in Trades BY <2>3
  <2>5. trades'[o][n].st = outcome BY <2>1, <2>3, <2>4 DEF Trades
  <2>6. AllTell(msgs, trades') BY <2>2, <2>5, TradeTells
  <2>7. msgs \in Seq(Messages)
    <3>1. MessagesOf(<<TradeMsg(o, outcome, n)>>, trades) BY <2>3, TradeMessage
    <3> QED BY <3>1 DEF MessagesOf
  <2> HIDE DEF msgs
  <2> QED BY <2>1, <2>6, <2>7, SendTells
<1>5. ASSUME NEW o \in Ids, NEW n \in DOMAIN trades[o], Redeliver(o, n)
      PROVE  AllTell(ws', trades')
  <2> DEFINE msgs == <<TradeMsg(o, "MINED", n)>>
  <2>1. ~ OffBook(o) /\ trades'[o][n].st = "MINED" /\ Send(msgs) BY <1>5 DEF Redeliver
  <2>2. AllTell(msgs, trades') BY <2>1, TradeTells
  <2>3. msgs \in Seq(Messages)
    <3>1. trades[o] \in Seq(Trades) BY <1>0 DEF BookType
    <3>2. MessagesOf(<<TradeMsg(o, "MINED", n)>>, trades) BY <3>1, TradeMessage
    <3> QED BY <3>2 DEF MessagesOf
  <2> HIDE DEF msgs
  <2> QED BY <2>1, <2>2, <2>3, SendTells
<1> QED BY <1>1, <1>2, <1>3, <1>4, <1>5, Zenon DEF ExchangeStep

\* Every step keeps the messages true.
LEMMA StepMessages ==
    ASSUME Inv, NothingYet, MessagesTrue, [Next]_vars
    PROVE  MessagesTrue'
<1>0. /\ ExchangeType /\ ExecutorType /\ harmed \subseteq Ids /\ ws \in Seq(Messages)
      /\ worker.batch \in Seq(Intents)
  BY WorkerParts DEF Inv, ExchangeType, ExecutorType
<1>1. plan' = plan BY PlanStays
<1>2. \A o \in Ids : OffBook(o)' <=> OffBook(o) BY <1>1 DEF OffBook
<1>3. AllTell(ws, trades')
  <2> SUFFICES ASSUME NEW n \in DOMAIN ws, ws[n].kind = "trade"
               PROVE  /\ ~ OffBook(ws[n].order)
                      /\ ws[n].status = "MINED" => trades'[ws[n].order][ws[n].id].st = "MINED"
    BY DEF AllTell, Tells
  <2> DEFINE o == ws[n].order
             k == ws[n].id
  <2>1. o \in Ids /\ k \in DOMAIN trades[o] BY <1>0, MessageParts
  <2>2. ~ OffBook(o) /\ (ws[n].status = "MINED" => trades[o][k].st = "MINED") BY DEF MessagesTrue
  <2> HIDE DEF o, k
  <2>3. trades[o][k].st = "MINED" => trades'[o][k].st = "MINED"
    BY <2>1, <2>2, StepMoved DEF Befell
  <2> QED BY <2>2, <2>3 DEF o, k
<1>4. SUFFICES AllTell(ws', trades')
  <2>1. ExchangeType' BY StepExchange
  <2>2. \A n \in DOMAIN ws' : ws'[n].order \in Ids
    <3>1. ws' \in Seq(Messages) BY <2>1 DEF ExchangeType
    <3>2. \A n \in DOMAIN ws' : ws'[n] \in Messages BY <3>1
    <3> QED BY <3>2 DEF Messages
  <2> QED BY <1>2, <2>2 DEF AllTell, Tells, MessagesTrue
<1>k. CASE ws' = ws BY <1>3, <1>k
<1>5. CASE Submit BY <1>5, <1>k, SubmitFrame
<1>6. CASE EngineStep BY <1>6, <1>k, EngineFrame DEF exchangeVars
<1>7. CASE CleanStep BY <1>7, <1>k, CleanFrame DEF exchangeVars
<1>8. CASE WorkerStep
  <2>1. CASE WorkerPost
    <3>1. PICK reached : Open(Among(OrdersOf(worker.batch, "PLACE"), reached))
      BY <2>1 DEF WorkerPost
    <3> DEFINE os == Among(OrdersOf(worker.batch, "PLACE"), reached)
    <3>2. os \in Seq(Ids \ LegIds) /\ Open(os) BY <1>0, <3>1, PostedOrders
    <3>3. Ids \ LegIds \subseteq Ids OBVIOUS
    <3> HIDE DEF os
    <3>4. os \in Seq(Ids) BY <3>2, <3>3, SubseqType
    <3> QED BY <1>0, <1>3, <3>2, <3>4, OpenTells
  <2>2. ASSUME CancelOnExchange(OrdersOf(worker.batch, "CANCEL")) PROVE AllTell(ws', trades')
    <3> DEFINE os == OrdersOf(worker.batch, "CANCEL")
    <3>1. os \in Seq(Ids) /\ CancelOnExchange(os) BY <1>0, <2>2, CancelledOrders
    <3> HIDE DEF os
    <3> QED BY <1>0, <1>3, <3>1, CancelTells
  <2>3. \/ ws' = ws \/ WorkerPost \/ CancelOnExchange(OrdersOf(worker.batch, "CANCEL"))
    BY <1>8 DEF WorkerStep, WorkerTake, WorkerCancel, WorkerLegs, WorkerRelay, WorkerTrack,
                WorkerPublish, exchangeVars
  <2> QED BY <1>k, <2>1, <2>2, <2>3
<1>9. CASE SocketStep
  <2>1. CASE WSPublish BY <1>k, <2>1 DEF WSPublish, exchangeVars
  <2>2. ASSUME NEW n \in DOMAIN ws, Deliver(n) PROVE AllTell(ws', trades')
    <3>1. ws' = RemoveAt(ws, n) BY <2>2 DEF Deliver
    <3> QED BY <1>0, <1>3, <3>1, RemoveTells
  <2> QED BY <1>9, <2>1, <2>2 DEF SocketStep
<1>10. CASE ExchangeStep BY <1>0, <1>3, <1>10, ExchangeTells
<1>11. CASE ReconStep BY <1>11, <1>k, ReconFrame DEF exchangeVars
<1>12. CASE Crash
  <2>1. ws' = << >> /\ DOMAIN << >> = {} BY <1>12 DEF Crash
  <2> QED BY <2>1 DEF AllTell
<1>13. CASE StartStep BY <1>13, <1>k, StartFrame DEF exchangeVars
<1>14. CASE UNCHANGED vars BY <1>14, <1>k DEF vars, exchangeVars
<1> QED BY <1>5, <1>6, <1>7, <1>8, <1>9, <1>10, <1>11, <1>12, <1>13, <1>14, StepKinds

\* The account holds at first,
LEMMA InitOnce == Init => OnceOnlyInv
<1> SUFFICES ASSUME Init PROVE OnceOnlyInv OBVIOUS
<1>1. DOMAIN << >> = {} OBVIOUS
<1>2. /\ \A o \in Ids : pending[o] = << >> /\ exch[o] = "none" /\ trades[o] = << >>
      /\ ws = << >> /\ worker.legs = << >>
  BY DEF Init, Idle
<1>3. MessagesTrue /\ NothingYet /\ BufferedOwn
  BY <1>1, <1>2 DEF MessagesTrue, NothingYet, BufferedOwn
<1>4. BookedOnce
  <2>1. /\ Inv /\ bus = << >> /\ wsOut = << >> /\ worker.todo = << >> /\ loop.replay = << >>
    BY InitInv DEF Init, Idle
  <2>2. \A t \in Tokens : TokenAt(ledger, t).TotalBought = 0
    BY DEF Init, OpeningLedger, NewState, TokenAt, ZeroPosition
  <2> QED BY <1>2, <2>1, <2>2, EmptyBooked
<1> QED BY <1>3, <1>4 DEF OnceOnlyInv

\* ... and every step keeps it.
LEMMA StepOnceOnly == Inv /\ OnceOnlyInv /\ [Next]_vars => OnceOnlyInv'
<1> SUFFICES ASSUME Inv, OnceOnlyInv, [Next]_vars PROVE OnceOnlyInv' OBVIOUS
<1>1. MessagesTrue /\ NothingYet /\ BufferedOwn BY DEF OnceOnlyInv
<1>2. Inv' BY StepInv
<1>3. BookedOnce' BY <1>2, StepBooked
<1>4. MessagesTrue' /\ NothingYet' /\ BufferedOwn'
  BY <1>1, StepMessages, StepNothing, StepBuffered
<1> QED BY <1>3, <1>4 DEF OnceOnlyInv

\* What is due is at most what settled.
LEMMA DueMined ==
    ASSUME Inv, NEW t \in Tokens
    PROVE  Tally[t] \in Int /\ MinedOn(t, "BUY") \in Int /\ Tally[t] <= MinedOn(t, "BUY")
<1> DEFINE f == [o \in Ids |-> Due(o)]
           g == [o \in Ids |-> Mined(o)]
<1>1. \A o \in Ids : f[o] \in Int /\ g[o] \in Int /\ f[o] <= g[o]
  BY AmountsAreTyped DEF AmountsType, AmountsOf
<1>2. Tally = TallyOf(f) BY DEF Tally
<1>3. TallyOf(g)[t] = MinedOn(t, "BUY") BY DEF TallyOf, MinedOn, Purchases
<1> HIDE DEF f, g
<1>4. /\ TallyOf(f)[t] \in Int /\ TallyOf(g)[t] \in Int /\ TallyOf(f)[t] <= TallyOf(g)[t]
  BY <1>1, TallyMono
<1> QED BY <1>2, <1>3, <1>4

\* No trade is booked twice: however often its message is delivered, in whatever order
\* with the HTTP answer, buffered, replayed, dropped or swept away by a crash, the
\* deduplication by trade id in onTradeEvent, and that handleExecutionEvent books, buffers
\* or drops an event but never two of these, keep ApplyFill from counting more tokens
\* bought than the exchange settled.
THEOREM OrderFlowBookedOnce == Spec => []NeverOverbooked
<1>1. Inv /\ OnceOnlyInv => NeverOverbooked
  <2> SUFFICES ASSUME Inv, OnceOnlyInv, NEW t \in Tokens
               PROVE  TokenAt(ledger, t).TotalBought <= MinedOn(t, "BUY")
    BY DEF NeverOverbooked
  <2>1. TokenAt(ledger, t).TotalBought <= Tally[t] BY DEF OnceOnlyInv, BookedOnce, Bounded
  <2>2. TokenAt(ledger, t).TotalBought \in Nat BY TokenAtType DEF Inv, Covers, TokenPosition
  <2>3. Tally[t] \in Int /\ MinedOn(t, "BUY") \in Int /\ Tally[t] <= MinedOn(t, "BUY")
    BY DueMined
  <2> QED BY <2>1, <2>2, <2>3
<1>2. Spec => []OnceOnlyInv
  BY OrderFlowInv, InitOnce, StepOnceOnly, PTL DEF Spec
<1> QED BY <1>1, <1>2, OrderFlowInv, PTL

=============================================================================
