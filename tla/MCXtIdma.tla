------------------------------ MODULE MCXtIdma ------------------------------
(* XtIdma for TLC: two tasks on one core and one on another, two channels.   *)
(* The slots are enough for two of the three tasks at a time.  The tasks of   *)
(* the first core can be exchanged, and so can the channels.                 *)
EXTENDS XtIdma, TLC
CONSTANTS t1, t2, t3, ch0, ch1, b
MCTasks == {t1, t2, t3}
MCCore == [t \in MCTasks |-> IF t = t3 THEN 1 ELSE 0]
\* What follows a second mutex is not explored: the properties end there.
MCOnce == ~Twice
MCSymmetry == Permutations({t1, t2}) \cup Permutations({ch0, ch1})
=============================================================================
