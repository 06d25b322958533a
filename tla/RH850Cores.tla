----------------------------- MODULE RH850Cores -----------------------------
(***************************************************************************)
(* What the models of the RH850/U2x port share.  The cores take the locks  *)
(* of the kernel (RH850Lock) and run its tasks (RH850Sched).               *)
(***************************************************************************)
CONSTANT Cores  \* core ids

VARIABLES
  id,    \* id[c]: PSW.ID, TRUE while core c masks interrupts
  holds  \* holds[c][l]: acquisitions of lock l that the callers on core c have
=============================================================================
