------------------------------ MODULE A53Cores ------------------------------
(***************************************************************************)
(* What the models of the AM64 Cortex-A53 SMP port share: its cores.  They *)
(* take the kernel's locks (A53Lock) and run its tasks (A53Sched).         *)
(***************************************************************************)
CONSTANT Cores  \* core ids, 0 .. configNUMBER_OF_CORES - 1
=============================================================================
