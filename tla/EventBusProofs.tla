--------------------------- MODULE EventBusProofs ---------------------------
(***************************************************************************)
(* Safety of the event bus for any number of publishers, subscriptions and *)
(* events, any capacity and any threshold.                                 *)
(***************************************************************************)
EXTENDS EventBus, SequenceTheorems, TLAPS

\* Read-write locking, as far as it matters: what a publisher has still to
\* visit is subscribed; an open bus has closed no channel, a closed one has no
\* subscriber.  Writers run only when no publisher is inside, so they cannot
\* break the first part.
LockInv ==
    /\ \A p \in Readers : todo[p] \subseteq subs
    /\ IF closed THEN subs = {} ELSE chClosed = {}

-----------------------------------------------------------------------------
\* The type invariant holds in the initial state.
LEMMA InitType == Init => TypeOK
<1> SUFFICES ASSUME Init PROVE TypeOK OBVIOUS
<1>1. chan \in [Subs -> Seq(Events)] /\ got \in [Subs -> Seq(Events)] /\ warned \in Seq(Nat)
  BY DEF Init
<1>2. \A s \in Subs : Len(chan[s]) <= Cap
  BY EventBusAssumption DEF Init
<1>3. /\ pc \in [Publishers -> {"idle", "lock"} \cup Holding]
      /\ sent \in [Publishers -> 0 .. MaxPublish]
      /\ todo \in [Publishers -> SUBSET Subs]
      /\ total \in [Publishers -> Nat] /\ last \in [Publishers -> Nat]
  BY EventBusAssumption DEF Init
<1> QED BY <1>1, <1>2, <1>3 DEF Init, TypeOK

\* No step of the bus breaks the type invariant.
LEMMA StepType == TypeOK /\ [Next]_vars => TypeOK'
<1> SUFFICES ASSUME TypeOK, [Next]_vars PROVE TypeOK' OBVIOUS
<1> USE EventBusAssumption
<1>1. ASSUME NEW p \in Publishers, PublishCount(p) PROVE TypeOK'
  BY <1>1 DEF PublishCount, TypeOK, busVars, locals
<1>2. ASSUME NEW p \in Publishers, PublishLock(p) PROVE TypeOK'
  BY <1>2 DEF PublishLock, TypeOK, Holding, busVars, counters, locals
<1>3. ASSUME NEW p \in Publishers, NEW s \in Subs, PublishSend(p, s) PROVE TypeOK'
  <2>1. <<p, sent[p]>> \in Events
    BY <1>3, SMT DEF PublishSend, TypeOK, Events
  <2>2. chan' \in [Subs -> Seq(Events)] /\ \A t \in Subs : Len(chan'[t]) <= Cap
    BY <1>3, <2>1 DEF PublishSend, TypeOK
  <2> QED BY <1>3, <2>2 DEF PublishSend, TypeOK, busVars, counters, locals
<1>4. ASSUME NEW p \in Publishers, NEW s \in Subs, PublishDrop(p, s) PROVE TypeOK'
  BY <1>4 DEF PublishDrop, TypeOK, Holding, busVars, locals
<1>5. ASSUME NEW p \in Publishers, LoadTotal(p) PROVE TypeOK'
  BY <1>5 DEF LoadTotal, TypeOK, Holding, busVars, counters, locals
<1>6. ASSUME NEW p \in Publishers, LoadLast(p) PROVE TypeOK'
  <2>1. pc' \in [Publishers -> {"idle", "lock"} \cup Holding]
    BY <1>6 DEF LoadLast, TypeOK, Holding
  <2>2. last' \in [Publishers -> Nat]
    BY <1>6 DEF LoadLast, TypeOK
  <2> QED BY <1>6, <2>1, <2>2 DEF LoadLast, TypeOK, busVars, counters
<1>7. ASSUME NEW p \in Publishers, Warn(p) PROVE TypeOK'
  <2>1. pc' \in [Publishers -> {"idle", "lock"} \cup Holding]
    BY <1>7 DEF Warn, TypeOK, Holding
  <2>2. total[p] \in Nat
    BY DEF TypeOK
  <2>3. lastWarned' \in Nat /\ warned' \in Seq(Nat)
    <3>1. CASE lastWarned = last[p]
      <4>1. lastWarned' = total[p] /\ warned' = Append(warned, total[p])
        BY <1>7, <3>1 DEF Warn
      <4>2. warned \in Seq(Nat)
        BY DEF TypeOK
      <4> QED BY <2>2, <4>1, <4>2
    <3>2. CASE lastWarned # last[p]
      BY <1>7, <3>2 DEF Warn, TypeOK
    <3> QED BY <3>1, <3>2
  <2> QED BY <1>7, <2>1, <2>3 DEF Warn, TypeOK, busVars, locals
<1>8. ASSUME NEW p \in Publishers, PublishUnlock(p) PROVE TypeOK'
  BY <1>8 DEF PublishUnlock, TypeOK, Holding, busVars, counters, locals
<1>9. ASSUME NEW w \in Writers, Call(w) PROVE TypeOK'
  BY <1>9 DEF Call, TypeOK, busVars, counters, locals
<1>10. CASE Write
  <2>1. ASSUME NEW w, Granted(w) PROVE
            /\ UNCHANGED <<chan, published, dropped, lastWarned, warned, pc, sent, todo,
                           total, last, got>>
            /\ waiting' \subseteq Writers /\ done' \subseteq Writers
    BY <2>1 DEF Granted, TypeOK, counters, locals
  <2>2. CASE Close
    BY <2>1, <2>2 DEF Close, TypeOK
  <2>3. ASSUME NEW s \in Subs, SubscribeWithCancel(s) PROVE TypeOK'
    BY <2>1, <2>3 DEF SubscribeWithCancel, TypeOK
  <2>4. ASSUME NEW s \in Subs, Cancel(s) PROVE TypeOK'
    BY <2>1, <2>4 DEF Cancel, TypeOK
  <2> QED BY <1>10, <2>2, <2>3, <2>4 DEF Write
<1>11. ASSUME NEW s \in Subs, Receive(s) PROVE TypeOK'
  <2>1. Head(chan[s]) \in Events /\ Tail(chan[s]) \in Seq(Events)
        /\ Len(Tail(chan[s])) <= Cap
    BY <1>11 DEF Receive, TypeOK
  <2> QED BY <1>11, <2>1 DEF Receive, TypeOK, busVars, counters, locals
<1>12. CASE UNCHANGED vars
  BY <1>12 DEF vars, TypeOK
<1> QED
  BY <1>1, <1>2, <1>3, <1>4, <1>5, <1>6, <1>7, <1>8, <1>9, <1>10, <1>11, <1>12
     DEF Next, PublishStep

\* The bus is always well formed, its channels within their capacity.
THEOREM BusType == Spec => []TypeOK
BY InitType, StepType, PTL DEF Spec

-----------------------------------------------------------------------------
\* Writers never run while a publisher is inside, so the lock invariant is kept.
LEMMA StepLock == TypeOK /\ LockInv /\ [Next]_vars => LockInv'
<1> SUFFICES ASSUME TypeOK, LockInv, [Next]_vars PROVE LockInv' OBVIOUS
<1>1. ASSUME NEW p \in Publishers, PublishCount(p) PROVE LockInv'
  BY <1>1 DEF PublishCount, TypeOK, LockInv, Readers, Holding, busVars, locals
<1>2. ASSUME NEW p \in Publishers, PublishLock(p) PROVE LockInv'
  BY <1>2 DEF PublishLock, TypeOK, LockInv, Readers, Holding, busVars, locals
<1>3. ASSUME NEW p \in Publishers, NEW s \in Subs, PublishSend(p, s) PROVE LockInv'
  BY <1>3 DEF PublishSend, TypeOK, LockInv, Readers, Holding, busVars, locals
<1>4. ASSUME NEW p \in Publishers, NEW s \in Subs, PublishDrop(p, s) PROVE LockInv'
  BY <1>4 DEF PublishDrop, TypeOK, LockInv, Readers, Holding, busVars, locals
<1>5. ASSUME NEW p \in Publishers, LoadTotal(p) \/ LoadLast(p) \/ Warn(p) PROVE LockInv'
  <2>1. pc[p] \in Holding /\ \A q \in Publishers \ {p} : pc'[q] = pc[q]
    BY <1>5 DEF LoadTotal, LoadLast, Warn, TypeOK, Holding
  <2>2. UNCHANGED <<busVars, todo>>
    BY <1>5 DEF LoadTotal, LoadLast, Warn
  <2> QED BY <2>1, <2>2 DEF LockInv, Readers, busVars
<1>6. ASSUME NEW p \in Publishers, PublishUnlock(p) PROVE LockInv'
  BY <1>6 DEF PublishUnlock, TypeOK, LockInv, Readers, Holding, busVars, locals
<1>7. CASE Write
  <2>1. ASSUME NEW w, Granted(w) PROVE Readers' = {}
    BY <2>1 DEF Granted, Readers
  <2>2. CASE Close
    BY <2>1, <2>2 DEF Close, LockInv
  <2>3. ASSUME NEW s \in Subs, SubscribeWithCancel(s) PROVE LockInv'
    BY <2>1, <2>3 DEF SubscribeWithCancel, LockInv
  <2>4. ASSUME NEW s \in Subs, Cancel(s) PROVE LockInv'
    BY <2>1, <2>4 DEF Cancel, LockInv
  <2> QED BY <1>7, <2>2, <2>3, <2>4 DEF Write
<1>8. CASE \/ \E w \in Writers : Call(w)
           \/ \E s \in Subs : Receive(s)
           \/ UNCHANGED vars
  <2>1. UNCHANGED <<subs, closed, chClosed, pc, todo>>
    BY <1>8 DEF Call, Receive, vars, busVars
  <2> QED BY <2>1 DEF LockInv, Readers
<1> QED
  BY <1>1, <1>2, <1>3, <1>4, <1>5, <1>6, <1>7, <1>8 DEF Next, PublishStep

\* Publish never sends on a closed channel, whatever is subscribed, cancelled
\* or closed meanwhile.
THEOREM BusNeverSendsOnClosed == Spec => []NoSendOnClosed
<1>1. Init => LockInv
  BY DEF Init, LockInv, Readers, Holding
<1>2. LockInv => NoSendOnClosed
  BY DEF LockInv, NoSendOnClosed
<1> QED BY <1>1, <1>2, BusType, StepLock, PTL DEF Spec

-----------------------------------------------------------------------------
Boundary(n) == n \div DropThreshold

\* Every warning so far lies at or below the boundary of lastWarned, and a
\* publisher about to compare-and-swap holds a total beyond the boundary of
\* the value it expects.
WarnInv ==
    /\ \A i \in 1 .. Len(warned) : Boundary(warned[i]) <= Boundary(lastWarned)
    /\ \A p \in Publishers : /\ pc[p] \in {"total", "last", "cas"} => DropThreshold > 0
                             /\ pc[p] = "cas" => Boundary(last[p]) < Boundary(total[p])
    /\ \A i, j \in 1 .. Len(warned) : i < j => Boundary(warned[i]) < Boundary(warned[j])

\* A boundary is a number.
LEMMA BoundaryType == ASSUME DropThreshold > 0, NEW n \in Nat PROVE Boundary(n) \in Nat
BY EventBusAssumption DEF Boundary

\* The compare-and-swap is what keeps two droppers from warning twice.
LEMMA StepWarn == TypeOK /\ WarnInv /\ [Next]_vars => WarnInv'
<1> SUFFICES ASSUME TypeOK, WarnInv, [Next]_vars PROVE WarnInv' OBVIOUS
<1>1. ASSUME NEW p \in Publishers, Warn(p), lastWarned = last[p] PROVE WarnInv'
  <2>1. /\ DropThreshold > 0 /\ Boundary(lastWarned) < Boundary(total[p])
        /\ lastWarned' = total[p] /\ warned' = Append(warned, total[p])
        /\ pc' = [pc EXCEPT ![p] = "loop"] /\ UNCHANGED <<total, last>>
    BY <1>1 DEF Warn, WarnInv, locals
  <2>2. /\ Boundary(lastWarned) \in Nat /\ Boundary(total[p]) \in Nat
        /\ \A i \in 1 .. Len(warned) : warned[i] \in Nat /\ Boundary(warned[i]) \in Nat
    <3>1. /\ lastWarned \in Nat /\ total[p] \in Nat
          /\ \A i \in 1 .. Len(warned) : warned[i] \in Nat
      BY DEF TypeOK
    <3>2. \A n \in Nat : Boundary(n) \in Nat
      BY <2>1, BoundaryType
    <3> QED BY <3>1, <3>2
  <2>3. /\ Len(warned') = Len(warned) + 1 /\ Len(warned) \in Nat
        /\ warned'[Len(warned) + 1] = total[p]
        /\ \A i \in 1 .. Len(warned) : warned'[i] = warned[i]
    BY <2>1 DEF TypeOK
  <2>4. \A i \in 1 .. Len(warned) : Boundary(warned[i]) < Boundary(total[p])
    BY <2>1, <2>2 DEF WarnInv
  <2>5. \A i \in 1 .. Len(warned') : Boundary(warned'[i]) <= Boundary(lastWarned')
    BY <2>1, <2>2, <2>3, <2>4
  <2>6. \A i, j \in 1 .. Len(warned') : i < j => Boundary(warned'[i]) < Boundary(warned'[j])
    BY <2>3, <2>4 DEF WarnInv
  <2>7. \A q \in Publishers : /\ pc'[q] \in {"total", "last", "cas"} => DropThreshold > 0
                              /\ pc'[q] = "cas" => Boundary(last'[q]) < Boundary(total'[q])
    BY <2>1 DEF WarnInv, TypeOK
  <2> QED BY <2>5, <2>6, <2>7 DEF WarnInv, Boundary
<1>2. ASSUME NEW p \in Publishers, Warn(p), lastWarned # last[p] PROVE WarnInv'
  BY <1>2 DEF Warn, WarnInv, TypeOK, locals, Boundary
<1>3. ASSUME NEW p \in Publishers, LoadLast(p) PROVE WarnInv'
  <2>1. last'[p] = lastWarned /\ \A q \in Publishers \ {p} : last'[q] = last[q]
    BY <1>3 DEF LoadLast, TypeOK
  <2>2. /\ pc'[p] = "cas" => Boundary(lastWarned) < Boundary(total[p])
        /\ pc'[p] \in {"total", "last", "cas"} => DropThreshold > 0
    <3>1. DropThreshold > 0 BY <1>3 DEF LoadLast, WarnInv
    <3>2. total[p] \in Nat /\ lastWarned \in Nat BY DEF TypeOK
    <3>3. Boundary(total[p]) \in Nat /\ Boundary(lastWarned) \in Nat
      BY <3>1, <3>2, BoundaryType
    <3>4. pc'[p] = "cas" => NewBoundary(total[p], lastWarned)
      BY <1>3 DEF LoadLast, TypeOK
    <3> QED BY <3>1, <3>3, <3>4 DEF NewBoundary, Boundary
  <2>3. \A q \in Publishers \ {p} : pc'[q] = pc[q]
    BY <1>3 DEF LoadLast, TypeOK
  <2>4. UNCHANGED <<total, lastWarned, warned>>
    BY <1>3 DEF LoadLast, counters
  <2> QED BY <2>1, <2>2, <2>3, <2>4 DEF WarnInv, Boundary
<1>4. ASSUME NEW p \in Publishers, LoadTotal(p) PROVE WarnInv'
  BY <1>4 DEF LoadTotal, WarnInv, TypeOK, counters, Boundary
<1>5. ASSUME NEW p \in Publishers, NEW s \in Subs, PublishDrop(p, s) PROVE WarnInv'
  BY <1>5 DEF PublishDrop, WarnInv, TypeOK, locals, Boundary
<1>6. ASSUME NEW p \in Publishers,
             PublishCount(p) \/ PublishLock(p) \/ PublishUnlock(p) PROVE WarnInv'
  <2>1. /\ UNCHANGED <<total, last, lastWarned, warned>>
        /\ pc'[p] \notin {"total", "last", "cas"}
        /\ \A q \in Publishers \ {p} : pc'[q] = pc[q]
    BY <1>6 DEF PublishCount, PublishLock, PublishUnlock, TypeOK, locals, counters
  <2> QED BY <2>1 DEF WarnInv, Boundary
<1>7. CASE \/ \E p \in Publishers, s \in Subs : PublishSend(p, s)
           \/ \E w \in Writers : Call(w)
           \/ Write
           \/ \E s \in Subs : Receive(s)
           \/ UNCHANGED vars
  <2>1. UNCHANGED <<pc, total, last, lastWarned, warned>>
    BY <1>7 DEF PublishSend, Call, Write, Close, SubscribeWithCancel, Cancel, Granted,
                Receive, vars, locals, counters
  <2> QED BY <2>1 DEF WarnInv, Boundary
<1> QED
  BY <1>1, <1>2, <1>3, <1>4, <1>5, <1>6, <1>7 DEF Next, PublishStep

\* However many publishers drop at once, each boundary of the drop count is
\* warned of at most once, in increasing order.
THEOREM BusWarnsOncePerBoundary == Spec => []OneWarningPerBoundary
<1>1. Init => WarnInv
  BY DEF Init, WarnInv
<1>2. TypeOK /\ WarnInv => OneWarningPerBoundary
  <2>1. TypeOK => DOMAIN warned = 1 .. Len(warned)
    BY DEF TypeOK
  <2> QED BY <2>1 DEF WarnInv, OneWarningPerBoundary, Boundary
<1> QED BY <1>1, <1>2, BusType, StepWarn, PTL DEF Spec
-----------------------------------------------------------------------------
\* Seen[s]: what subscriber s has received or will, if nothing more is sent to it.
Seen == [s \in Subs |-> got[s] \o chan[s]]

\* The events of each publisher appear in q with increasing numbers.
InOrder(q) ==
    \A i, j \in 1 .. Len(q) : (i < j /\ q[i][1] = q[j][1]) => q[i][2] < q[j][2]

\* Underway[s]: the publishers with an event under way that may still be sent to s.
Underway ==
    [s \in Subs |-> {p \in Publishers : \/ pc[p] = "lock"
                                        \/ pc[p] \in Holding /\ s \in todo[p]}]

\* What a subscriber has seen of a publisher is no later than the event the
\* publisher is at, and earlier while that event may still be sent to it.
OrderInv ==
    \A s \in Subs :
        /\ InOrder(Seen[s])
        /\ \A i \in 1 .. Len(Seen[s]) :
                /\ Seen[s][i][2] <= sent[Seen[s][i][1]]
                /\ Seen[s][i][1] \in Underway[s] => Seen[s][i][2] < sent[Seen[s][i][1]]

\* An element added to a channel is added to what its subscriber sees, and one
\* moved from the channel to the subscriber leaves that as it was.
LEMMA AppendToSeen ==
    ASSUME NEW S, NEW g \in Seq(S), NEW c \in Seq(S), NEW e \in S
    PROVE  g \o Append(c, e) = Append(g \o c, e)
<1>1. /\ Append(c, e) \in Seq(S) /\ Len(Append(c, e)) = Len(c) + 1
      /\ \A i \in 1 .. Len(c) : Append(c, e)[i] = c[i]
      /\ Append(c, e)[Len(c) + 1] = e
  BY AppendProperties
<1>2. g \o c \in Seq(S) /\ g \o Append(c, e) \in Seq(S)
  BY <1>1, ConcatProperties
<1>3. Append(g \o c, e) \in Seq(S)
  BY <1>2, AppendProperties
<1>4. Len(g \o Append(c, e)) = Len(g) + Len(c) + 1
  BY <1>1, ConcatProperties, LenProperties
<1>5. Len(Append(g \o c, e)) = Len(g) + Len(c) + 1
  BY <1>2, AppendProperties, ConcatProperties
<1>6. ASSUME NEW i \in 1 .. Len(g) + Len(c) + 1
      PROVE  (g \o Append(c, e))[i] = Append(g \o c, e)[i]
  BY <1>1, <1>2
<1> QED BY <1>2, <1>3, <1>4, <1>5, <1>6, SeqEqual

\* An event received leaves what the subscriber has seen as it was.
LEMMA MoveToSeen ==
    ASSUME NEW S, NEW g \in Seq(S), NEW c \in Seq(S), c # << >>
    PROVE  Append(g, Head(c)) \o Tail(c) = g \o c
<1>1. /\ Head(c) \in S /\ Tail(c) \in Seq(S) /\ Len(Tail(c)) = Len(c) - 1
      /\ \A i \in 1 .. Len(c) - 1 : Tail(c)[i] = c[i + 1]
      /\ Head(c) = c[1] /\ Len(c) \in Nat \ {0} /\ Len(g) \in Nat
  BY HeadTailProperties, EmptySeq, LenProperties
<1>2. /\ Append(g, Head(c)) \in Seq(S) /\ Len(Append(g, Head(c))) = Len(g) + 1
      /\ \A i \in 1 .. Len(g) : Append(g, Head(c))[i] = g[i]
      /\ Append(g, Head(c))[Len(g) + 1] = c[1]
  BY <1>1, AppendProperties
<1>3. /\ Append(g, Head(c)) \o Tail(c) \in Seq(S)
      /\ Len(Append(g, Head(c)) \o Tail(c)) = Len(g) + Len(c)
      /\ \A i \in 1 .. Len(g) + Len(c) :
            (Append(g, Head(c)) \o Tail(c))[i] =
                IF i <= Len(g) + 1 THEN Append(g, Head(c))[i] ELSE Tail(c)[i - (Len(g) + 1)]
  <2>1. Len(Append(g, Head(c))) + Len(Tail(c)) = Len(g) + Len(c)
    BY <1>1, <1>2
  <2> QED BY <1>1, <1>2, <2>1, ConcatProperties
<1>4. /\ g \o c \in Seq(S) /\ Len(g \o c) = Len(g) + Len(c)
      /\ \A i \in 1 .. Len(g) + Len(c) :
            (g \o c)[i] = IF i <= Len(g) THEN g[i] ELSE c[i - Len(g)]
  BY ConcatProperties
<1>5. ASSUME NEW i \in 1 .. Len(g) + Len(c)
      PROVE  (Append(g, Head(c)) \o Tail(c))[i] = (g \o c)[i]
  <2>1. CASE i <= Len(g) + 1
    BY <1>1, <1>2, <1>3, <1>4, <2>1
  <2>2. CASE i > Len(g) + 1
    <3>1. i - (Len(g) + 1) \in 1 .. Len(c) - 1 /\ (i - (Len(g) + 1)) + 1 = i - Len(g)
      BY <1>1, <2>2
    <3>2. Tail(c)[i - (Len(g) + 1)] = c[i - Len(g)]
      BY <1>1, <3>1
    <3> QED BY <1>1, <1>3, <1>4, <2>2, <3>2
  <2> QED BY <1>1, <2>1, <2>2
<1> QED BY <1>3, <1>4, <1>5, SeqEqual

\* What is seen is a sequence of events; events are pairs.
LEMMA SeenType ==
    ASSUME TypeOK, NEW s \in Subs
    PROVE  /\ Seen[s] \in Seq(Events) /\ Len(Seen[s]) \in Nat
           /\ \A i \in 1 .. Len(Seen[s]) :
                /\ Seen[s][i][1] \in Publishers /\ Seen[s][i][2] \in Nat
                /\ sent[Seen[s][i][1]] \in Nat
<1>1. got[s] \in Seq(Events) /\ chan[s] \in Seq(Events)
  BY DEF TypeOK
<1>2. Seen[s] \in Seq(Events)
  BY <1>1 DEF Seen
<1>3. \A i \in 1 .. Len(Seen[s]) : Seen[s][i] \in Events
  BY <1>2
<1>4. \A e \in Events : e[1] \in Publishers /\ e[2] \in Nat
  BY DEF Events
<1>5. \A p \in Publishers : sent[p] \in Nat
  BY EventBusAssumption DEF TypeOK
<1> QED BY <1>2, <1>3, <1>4, <1>5

\* A step after which the subscribers have seen the same, and no more events
\* are under way, keeps the order.
LEMMA SameOrder ==
    ASSUME OrderInv, sent' = sent,
           \A s \in Subs : Seen'[s] = Seen[s],
           \A p \in Publishers, s \in Subs : p \in Underway'[s] => p \in Underway[s],
           TypeOK
    PROVE  OrderInv'
<1> SUFFICES ASSUME NEW s \in Subs
             PROVE  /\ InOrder(Seen'[s])
                    /\ \A i \in 1 .. Len(Seen'[s]) :
                        /\ Seen'[s][i][2] <= sent'[Seen'[s][i][1]]
                        /\ Seen'[s][i][1] \in Underway'[s]
                                => Seen'[s][i][2] < sent'[Seen'[s][i][1]]
  BY DEF OrderInv, InOrder
<1>1. Seen'[s] = Seen[s] /\ InOrder(Seen[s])
  BY DEF OrderInv
<1>2. ASSUME NEW i \in 1 .. Len(Seen[s])
      PROVE  /\ Seen[s][i][1] \in Publishers
             /\ Seen[s][i][2] <= sent[Seen[s][i][1]]
             /\ Seen[s][i][1] \in Underway[s] => Seen[s][i][2] < sent[Seen[s][i][1]]
  BY SeenType DEF OrderInv
<1> QED BY <1>1, <1>2

\* Publishers number their events before they take the lock and visit each
\* subscriber at most once per event, so nobody sees them out of order.
LEMMA StepOrder == TypeOK /\ OrderInv /\ [Next]_vars => OrderInv'
<1> SUFFICES ASSUME TypeOK, OrderInv, [Next]_vars PROVE OrderInv' OBVIOUS
<1>1. ASSUME NEW p \in Publishers, PublishCount(p) PROVE OrderInv'
  <2>1. /\ UNCHANGED <<chan, got, todo>>
        /\ \A q \in Publishers : sent'[q] >= sent[q] /\ sent[q] \in Nat /\ sent'[q] \in Nat
        /\ sent'[p] > sent[p]
        /\ \A q \in Publishers \ {p} : sent'[q] = sent[q] /\ pc'[q] = pc[q]
    BY <1>1, EventBusAssumption DEF PublishCount, TypeOK
  <2> SUFFICES ASSUME NEW s \in Subs
               PROVE  /\ InOrder(Seen'[s])
                      /\ \A i \in 1 .. Len(Seen'[s]) :
                            /\ Seen'[s][i][2] <= sent'[Seen'[s][i][1]]
                            /\ Seen'[s][i][1] \in Underway'[s]
                                    => Seen'[s][i][2] < sent'[Seen'[s][i][1]]
    BY DEF OrderInv, InOrder
  <2>2. Seen'[s] = Seen[s] /\ InOrder(Seen[s])
    BY <2>1 DEF Seen, OrderInv
  <2>3. ASSUME NEW i \in 1 .. Len(Seen[s])
        PROVE  /\ Seen[s][i][2] <= sent'[Seen[s][i][1]]
               /\ Seen[s][i][1] \in Underway'[s] => Seen[s][i][2] < sent'[Seen[s][i][1]]
    <3> DEFINE q == Seen[s][i][1]
               n == Seen[s][i][2]
    <3>1. q \in Publishers /\ n \in Nat /\ n <= sent[q]
          /\ (q \in Underway[s] => n < sent[q])
      BY SeenType DEF OrderInv
    <3> HIDE DEF q, n
    <3>2. CASE q = p
      BY <3>1, <3>2, <2>1 DEF q, n
    <3>3. CASE q # p
      <4>1. q \in Underway'[s] => q \in Underway[s]
        BY <3>1, <3>3, <2>1 DEF Underway
      <4>2. sent'[q] = sent[q]
        BY <3>1, <3>3, <2>1
      <4> QED BY <3>1, <4>1, <4>2 DEF q, n
    <3> QED BY <3>2, <3>3
  <2> QED BY <2>2, <2>3
<1>2. ASSUME NEW p \in Publishers,
             \/ PublishLock(p) \/ LoadTotal(p) \/ LoadLast(p) \/ Warn(p) \/ PublishUnlock(p)
             \/ \E s \in Subs : PublishDrop(p, s)
      PROVE  OrderInv'
  <2>1. /\ UNCHANGED <<chan, got, sent>>
        /\ \A q \in Publishers \ {p} : pc'[q] = pc[q] /\ todo'[q] = todo[q]
        /\ \A s \in Subs : p \in Underway'[s] => p \in Underway[s]
    BY <1>2 DEF PublishLock, LoadTotal, LoadLast, Warn, PublishUnlock, PublishDrop,
                TypeOK, Underway, Holding
  <2> QED BY <2>1, SameOrder DEF Seen, Underway
<1>3. ASSUME NEW p \in Publishers, NEW t \in Subs, PublishSend(p, t) PROVE OrderInv'
  <2> DEFINE e == <<p, sent[p]>>
  <2>1. /\ UNCHANGED <<sent, got, pc>> /\ pc[p] \in Holding /\ t \in todo[p]
        /\ chan'[t] = Append(chan[t], e)
        /\ \A s \in Subs \ {t} : chan'[s] = chan[s]
        /\ todo'[p] = todo[p] \ {t}
        /\ \A q \in Publishers \ {p} : todo'[q] = todo[q]
    BY <1>3 DEF PublishSend, TypeOK, Holding
  <2>2. \A q \in Publishers, s \in Subs : q \in Underway'[s] => q \in Underway[s]
    BY <2>1 DEF Underway
  <2> SUFFICES ASSUME NEW s \in Subs
               PROVE  /\ InOrder(Seen'[s])
                      /\ \A i \in 1 .. Len(Seen'[s]) :
                            /\ Seen'[s][i][2] <= sent'[Seen'[s][i][1]]
                            /\ Seen'[s][i][1] \in Underway'[s]
                                    => Seen'[s][i][2] < sent'[Seen'[s][i][1]]
    BY DEF OrderInv, InOrder
  <2>3. ASSUME NEW i \in 1 .. Len(Seen[s])
        PROVE  /\ Seen[s][i][1] \in Publishers
               /\ Seen[s][i][2] <= sent[Seen[s][i][1]]
               /\ Seen[s][i][1] \in Underway[s] => Seen[s][i][2] < sent[Seen[s][i][1]]
    BY SeenType DEF OrderInv
  <2>4. InOrder(Seen[s]) /\ Len(Seen[s]) \in Nat
    BY SeenType DEF OrderInv
  <2>5. CASE s # t
    <3>1. Seen'[s] = Seen[s]
      BY <2>1, <2>5 DEF Seen
    <3> QED BY <3>1, <2>1, <2>2, <2>3, <2>4
  <2>6. CASE s = t
    <3>1. e \in Events /\ got[s] \in Seq(Events) /\ chan[s] \in Seq(Events)
      <4>1. sent[p] \in Nat
        BY EventBusAssumption DEF TypeOK
      <4> QED BY <4>1 DEF TypeOK, Events
    <3>2. Seen'[s] = Append(Seen[s], e)
      <4>1. Seen'[s] = got[s] \o Append(chan[s], e)
        BY <2>1, <2>6 DEF Seen
      <4> HIDE DEF e
      <4>2. \A g, c \in Seq(Events) : \A x \in Events :
                g \o Append(c, x) = Append(g \o c, x)
        BY AppendToSeen
      <4>3. got[s] \o Append(chan[s], e) = Append(got[s] \o chan[s], e)
        BY <3>1, <4>2, Zenon
      <4> QED BY <4>1, <4>3 DEF Seen
    <3>3. /\ Len(Seen'[s]) = Len(Seen[s]) + 1
          /\ Seen'[s][Len(Seen[s]) + 1] = e
          /\ \A i \in 1 .. Len(Seen[s]) : Seen'[s][i] = Seen[s][i]
      <4> HIDE DEF e
      <4>1. Seen[s] \in Seq(Events)
        BY SeenType
      <4> QED BY <3>1, <3>2, <4>1
    <3>4. e[1] = p /\ e[2] = sent[p] /\ sent[p] \in Nat
      BY EventBusAssumption DEF TypeOK
    <3>5. \A i \in 1 .. Len(Seen[s]) : Seen[s][i][1] = p => Seen[s][i][2] < sent[p]
      BY <2>1, <2>3, <2>6 DEF Underway
    <3>6. p \notin Underway'[s]
      BY <2>1, <2>6 DEF Underway, Holding
    <3> HIDE DEF e
    <3>7. InOrder(Seen'[s])
      <4> SUFFICES ASSUME NEW i \in 1 .. Len(Seen'[s]), NEW j \in 1 .. Len(Seen'[s]),
                          i < j, Seen'[s][i][1] = Seen'[s][j][1]
                   PROVE  Seen'[s][i][2] < Seen'[s][j][2]
        BY DEF InOrder
      <4>1. i \in 1 .. Len(Seen[s]) /\ Seen'[s][i] = Seen[s][i]
        BY <2>4, <3>3
      <4>2. CASE j = Len(Seen[s]) + 1
        BY <3>3, <3>4, <3>5, <4>1, <4>2
      <4>3. CASE j # Len(Seen[s]) + 1
        <5>1. j \in 1 .. Len(Seen[s]) /\ Seen'[s][j] = Seen[s][j]
          BY <2>4, <3>3, <4>3
        <5> QED BY <2>4, <4>1, <5>1 DEF InOrder
      <4> QED BY <4>2, <4>3
    <3>8. ASSUME NEW i \in 1 .. Len(Seen'[s])
          PROVE  /\ Seen'[s][i][2] <= sent'[Seen'[s][i][1]]
                 /\ Seen'[s][i][1] \in Underway'[s]
                        => Seen'[s][i][2] < sent'[Seen'[s][i][1]]
      <4>1. CASE i = Len(Seen[s]) + 1
        BY <2>1, <3>3, <3>4, <3>6, <4>1
      <4>2. CASE i # Len(Seen[s]) + 1
        <5>1. i \in 1 .. Len(Seen[s]) /\ Seen'[s][i] = Seen[s][i]
          BY <2>4, <3>3, <4>2
        <5> QED BY <2>1, <2>2, <2>3, <5>1
      <4> QED BY <4>1, <4>2
    <3> QED BY <3>7, <3>8
  <2> QED BY <2>5, <2>6
<1>4. ASSUME NEW t \in Subs, Receive(t) PROVE OrderInv'
  <2>1. /\ UNCHANGED <<sent, pc, todo>> /\ chan[t] # << >>
        /\ got'[t] = Append(got[t], Head(chan[t])) /\ chan'[t] = Tail(chan[t])
        /\ \A s \in Subs \ {t} : got'[s] = got[s] /\ chan'[s] = chan[s]
    BY <1>4 DEF Receive, TypeOK
  <2>2. got[t] \in Seq(Events) /\ chan[t] \in Seq(Events)
    BY DEF TypeOK
  <2>3. Append(got[t], Head(chan[t])) \o Tail(chan[t]) = got[t] \o chan[t]
    BY <2>1, <2>2, MoveToSeen
  <2>4. \A s \in Subs : Seen'[s] = Seen[s]
    BY <2>1, <2>3 DEF Seen
  <2> QED BY <2>1, <2>4, SameOrder DEF Underway
<1>5. CASE \/ \E w \in Writers : Call(w)
           \/ Write
           \/ UNCHANGED vars
  <2>1. UNCHANGED <<chan, got, sent, pc, todo>>
    BY <1>5 DEF Call, Write, Close, SubscribeWithCancel, Cancel, Granted, vars
  <2> QED BY <2>1, SameOrder DEF Seen, Underway
<1> QED
  BY <1>1, <1>2, <1>3, <1>4, <1>5 DEF Next, PublishStep

\* Every subscriber sees the events of one publisher in the order they were
\* published, whatever is dropped, subscribed and cancelled.
THEOREM BusPublisherOrder == Spec => []PublisherOrder
<1>1. Init => OrderInv
  <2> SUFFICES ASSUME Init PROVE OrderInv OBVIOUS
  <2>1. \A s \in Subs : Seen[s] = << >>
    BY DEF Init, Seen
  <2> QED BY <2>1 DEF OrderInv, InOrder
<1>2. TypeOK /\ OrderInv => PublisherOrder
  <2> SUFFICES ASSUME TypeOK, OrderInv, NEW s \in Subs
               PROVE  \A i, j \in DOMAIN Seen[s] :
                        (i < j /\ Seen[s][i][1] = Seen[s][j][1]) => Seen[s][i][2] < Seen[s][j][2]
    BY DEF PublisherOrder, Seen
  <2>1. DOMAIN Seen[s] = 1 .. Len(Seen[s]) /\ InOrder(Seen[s])
    BY SeenType DEF OrderInv
  <2> QED BY <2>1 DEF InOrder
<1> QED BY <1>1, <1>2, BusType, StepOrder, PTL DEF Spec
=============================================================================
