------------------------------ MODULE MCXtTick ------------------------------
(* A counter of five bits, with ticks of five or ten cycles.               *)
EXTENDS XtTick

MCPeriods == {5, 10}
MCBoot == {10}

\* The theorems of XtTickProofs take Timing as a hypothesis; this instance meets it.
ASSUME MCTiming == Timing

\* Once a change has left a deadline as it was, nothing is promised any more.
MCAdapted == ~unadapted
=============================================================================
