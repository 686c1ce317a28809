----------------------------- MODULE ExecutorOps -----------------------------
(***************************************************************************)
(* Package execution: what the executor remembers of an order              *)
(* (trackedOrder) and how the exchange's WebSocket messages turn into      *)
(* execution events.  Every operator is one critical section of            *)
(* Executor.mu; it returns the tracked order and the events to publish.    *)
(*                                                                         *)
(* An order's market, token and side never change between messages, so     *)
(* they are left to the order's terms.                                     *)
(* Every trade carries an id: one without an id (the code would not        *)
(* deduplicate it) has no counterpart here.                                *)
(***************************************************************************)
EXTENDS Integers, Sequences

CONSTANTS
    NoIntent,   \* ParentOrderID = ""
    NoOrder     \* OrderID = ""

Statuses == {"Accepted", "PartiallyFilled", "Filled", "Cancelled", "Rejected"}

\* core.ExecutionEvent
Event(status, o, parent, size, price) ==
    [Status |-> status, OrderID |-> o, ParentOrderID |-> parent,
     FilledSize |-> size, Price |-> price]

RejectedIntent(i) == Event("Rejected", NoOrder, i, 0, 0)

NewTracked ==
    [Price |-> 0, RequestedSize |-> 0, FilledSize |-> 0,
     Accepted |-> FALSE, Finalized |-> FALSE, SeenTradeIDs |-> {}]

getOrCreateTracked(tracked, o) ==
    IF o \in DOMAIN tracked THEN tracked[o] ELSE NewTracked

Tracked(t, out) == [t |-> t, out |-> out]

\* The HTTP answer: the order's terms become known and it counts as accepted.
trackPostedOrder(t, q) ==
    [t EXCEPT !.Price = q.Price, !.RequestedSize = q.RequestedSize, !.Accepted = TRUE]

publishAcceptedFromPost(i, o) == Event("Accepted", o, i, 0, 0)

\* A WebSocket order message carries the order's own price and size.
onOrderEvent(t, o, status, q) ==
    LET seen == [t EXCEPT !.Price = q.Price, !.RequestedSize = q.RequestedSize]
    IN  IF status = "LIVE" /\ ~ t.Accepted
        THEN Tracked([seen EXCEPT !.Accepted = TRUE],
                     <<Event("Accepted", o, NoIntent, 0, 0)>>)
        ELSE IF status = "CANCELED" /\ ~ t.Finalized
        THEN Tracked([seen EXCEPT !.Finalized = TRUE],
                     <<Event("Cancelled", o, NoIntent, 0, 0)>>)
        ELSE Tracked(seen, << >>)

buildFillEventsFromDelta(t, o, delta) ==
    LET cumulative == t.FilledSize + delta
        full       == t.RequestedSize > 0 /\ cumulative >= t.RequestedSize
        status     == IF full THEN "Filled" ELSE "PartiallyFilled"
    IN  IF delta <= 0 THEN Tracked(t, << >>)
        ELSE Tracked([t EXCEPT !.FilledSize = cumulative,
                               !.Finalized = full \/ @],
                     <<Event(status, o, NoIntent, delta, t.Price)>>)

\* Mutant: a trade that was seen before counts again.
TradeCountedAgain(t, o, status, id, size, price) ==
    LET priced == [t EXCEPT !.Price = IF price > 0 THEN price ELSE @]
    IN  IF t.Finalized \/ status \notin {"MINED", "FAILED"} THEN Tracked(t, << >>)
        ELSE IF status = "MINED" THEN buildFillEventsFromDelta(priced, o, size)
        ELSE Tracked([priced EXCEPT !.Finalized = TRUE],
                     <<Event("Rejected", o, NoIntent, 0, 0)>>)

\* A trade message for one of our orders; trades are told apart by their id.
onTradeEvent(t, o, status, id, size, price) ==
    LET priced == [t EXCEPT !.Price = IF price > 0 THEN price ELSE @]
    IN  IF t.Finalized THEN Tracked(t, << >>)
        ELSE IF status = "MINED"
        THEN IF id \in t.SeenTradeIDs THEN Tracked(priced, << >>)
             ELSE buildFillEventsFromDelta(
                    [priced EXCEPT !.SeenTradeIDs = @ \cup {id}], o, size)
        ELSE IF status = "FAILED"
        THEN Tracked([priced EXCEPT !.Finalized = TRUE],
                     <<Event("Rejected", o, NoIntent, 0, 0)>>)
        ELSE Tracked(priced, << >>)
=============================================================================
