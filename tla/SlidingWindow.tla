---------------------------- MODULE SlidingWindow ----------------------------
(***************************************************************************)
(* What a window of recent values promises its readers: the last Size      *)
(* values written since the last reset, oldest first.                      *)
(***************************************************************************)
EXTENDS Naturals, Sequences

CONSTANTS
    Size,       \* how many values are kept, at least 1
    Data        \* the values

VARIABLE window

Newest(s) == IF Len(s) <= Size THEN s ELSE Tail(s)

Init == window = << >>

Write(v) == window' = Newest(Append(window, v))

Clear == window' = << >>

Next == Clear \/ \E v \in Data : Write(v)

Spec == Init /\ [][Next]_window
=============================================================================
