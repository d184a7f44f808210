---------------------------- MODULE BoundedWindow ----------------------------
(***************************************************************************)
(* What every rolling statistic relies on: the last Capacity samples since *)
(* the last reset, newest first.                                           *)
(***************************************************************************)
EXTENDS Integers, Sequences

CONSTANTS Capacity, Samples

VARIABLE window

Slide(w, x) ==
    [i \in 1..(IF Len(w) < Capacity THEN Len(w) + 1 ELSE Capacity) |->
        IF i = 1 THEN x ELSE w[i - 1]]

Init == window = <<>>

Next ==
    \/ \E x \in Samples : window' = Slide(window, x)
    \/ window' = <<>>

Spec == Init /\ [][Next]_window
==============================================================================
