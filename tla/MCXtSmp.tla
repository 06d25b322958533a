------------------------------- MODULE MCXtSmp ------------------------------
(* Two cores that share three tasks; core 1 has the tick, core 0 a device    *)
(* that interrupts main() as well, and handlers of core 1's requests.       *)
EXTENDS XtSmp

CONSTANTS t1, t2, t3

MCCores == {0, 1}
MCTasks == {t1, t2, t3}
MCDevices == [c \in MCCores |-> IF c = 0 THEN {9} ELSE {8}]
MCLevel == [n \in MCCores \cup {8, 9} |-> IF n = 9 THEN 2 ELSE 1]
MCFirst == [c \in MCCores |-> IF c = 0 THEN t1 ELSE t2]
=============================================================================
