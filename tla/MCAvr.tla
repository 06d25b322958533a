------------------------------- MODULE MCAvr -------------------------------
(* AvrSleep for TLC: the idle task and one other; the preemptive kernel of   *)
(* Mega0, the cooperative one of AVR Dx, and tickless idle, with times that  *)
(* fit in one period of the counter and one that does not.                   *)
EXTENDS AvrSleep
CONSTANTS idle, a
MCTasks == {idle, a}
Build(p, y, t, n) ==
  [preemption |-> p, yieldFromISR |-> y, tickless |-> t, nest |-> n]
MCBuilds == {Build(TRUE, TRUE, FALSE, 2), Build(FALSE, FALSE, FALSE, 1),
             Build(TRUE, FALSE, TRUE, 0)}
MCExpected == {2, 3, 5, 6}
=============================================================================
