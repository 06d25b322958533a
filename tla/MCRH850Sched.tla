---------------------------- MODULE MCRH850Sched ----------------------------
(* Two cores that share three tasks; core 0 starts the scheduler.  An       *)
(* interrupt is interrupted on core 1 only: with both the graph is too large *)
(* for the liveness checks.                                                *)
EXTENDS RH850Sched

CONSTANTS t1, t2, t3

MCCores == {0, 1}
MCTasks == {t1, t2, t3}
MCFirstTask == [c \in MCCores |-> IF c = 0 THEN t1 ELSE t2]
MCMaxNest == [c \in MCCores |-> c + 1]
=============================================================================
