----------------------------- MODULE MCA53Sched -----------------------------
(* Two cores that share three tasks, two of which use the FPU.            *)
EXTENDS A53Sched

CONSTANTS t1, t2, t3

MCCores == {0, 1}
MCTasks == {t1, t2, t3}
MCFpuTasks == {t1, t2}
MCFirstTask == [c \in MCCores |-> IF c = 0 THEN t1 ELSE t2]
=============================================================================
