------------------------------ MODULE MCA53Lock -----------------------------
(* Two cores, the ISR lock (0) and the task lock (1).                      *)
EXTENDS A53Lock

MCCores == {0, 1}
MCLocks == {0, 1}
=============================================================================
