----------------------------- MODULE RingBuffer -----------------------------
(***************************************************************************)
(* internal/buffer/ring_buffer.go: a ring as a value, and each critical    *)
(* section of RingBuffer.mu as an operator.  buf has the indices           *)
(* 0 .. Size - 1 of the Go slice; idx is the next one to be written.       *)
(***************************************************************************)
EXTENDS Integers

CONSTANTS
    Size,       \* the capacity, NewRingBuffer's argument: at least 1
    Data        \* the values written

IsRing(r) ==
    /\ r = [buf |-> r.buf, idx |-> r.idx, count |-> r.count]
    /\ r.buf \in [0 .. (Size - 1) -> Data]
    /\ r.idx \in 0 .. (Size - 1)
    /\ r.count \in 0 .. Size

\* The slice is made with zero values.
NewRing(zero) == [buf |-> [k \in 0 .. (Size - 1) |-> zero], idx |-> 0, count |-> 0]

Add(r, v) ==
    [buf   |-> [r.buf EXCEPT ![r.idx] = v],
     idx   |-> (r.idx + 1) % Size,
     count |-> IF r.count < Size THEN r.count + 1 ELSE r.count]

\* Mutant: the old values stay.
ResetIndex(r) == [r EXCEPT !.idx = 0]

Reset(r) == [buf |-> r.buf, idx |-> 0, count |-> 0]

\* The newest n values, oldest first.
Last(r, n) ==
    LET m == IF n > r.count THEN r.count ELSE n
    IN  [i \in 1 .. m |-> r.buf[(r.idx - m + (i - 1) + Size) % Size]]

Values(r) == Last(r, r.count)
=============================================================================
