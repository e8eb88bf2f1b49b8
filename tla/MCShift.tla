------------------------------ MODULE MCShift ------------------------------
(* Instance of Shift: a day of four minutes and a cycle of two days, with  *)
(* one schedule of each shape.                                             *)
EXTENDS Shift

Calendar(days, windows) == [kind |-> "calendar", days |-> days, windows |-> windows]
Interval(every, length, anchor) ==
    [kind |-> "interval", every |-> every, length |-> length, anchor |-> anchor]

MCSpecs == {
    Calendar({0}, {<<1, 2>>, <<2, 4>>}),   \* touching windows, a day between
    Calendar({0}, {<<3, 1>>}),             \* overnight
    Calendar({0}, {<<3, 1>>, <<0, 2>>}),   \* refused: overlaps its own night
    Interval(2, 2, 1)}                     \* rotation
MCWarns == {<<1, 0>>, <<0, 1>>}
=============================================================================
