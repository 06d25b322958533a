---------------------------- MODULE MCRH850Lock -----------------------------
(* Two cores, the task lock (bit 0) and the ISR lock (bit 1).              *)
EXTENDS RH850Lock

MCCores == {0, 1}
MCLocks == {0, 1}
=============================================================================
