----------------------------- MODULE MCAurixCsa -----------------------------
(* A task that stays and one that is created and deleted again and again,  *)
(* and that calls; with just as many areas as they need.                   *)
EXTENDS AurixCsa

CONSTANTS idle, worker

MCTasks == {idle, worker}
MCMaxCalls == [t \in MCTasks |-> IF t = worker THEN 1 ELSE 0]
MCAreas == 1 .. 6
=============================================================================
