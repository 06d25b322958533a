------------------------------ MODULE CoreLock ------------------------------
(***************************************************************************)
(* What the FreeRTOS SMP kernel expects of portGET_TASK_LOCK,              *)
(* portGET_ISR_LOCK and their releases: a set of locks, each of which one  *)
(* core may hold any number of times, and no two cores hold together.      *)
(*                                                                         *)
(* The state is the kernel's own view: how many acquisitions of each lock  *)
(* have returned to the core and have not yet been given back.  The        *)
(* spin locks of the SMP ports are shown to implement this specification.  *)
(***************************************************************************)
EXTENDS Naturals

CONSTANTS Cores,   \* the cores that run the kernel
          Locks    \* the kernel's locks (the task lock and the ISR lock)

VARIABLE holds     \* holds[c][l]: nested acquisitions of l that core c has

FreeFor(c, l) == \A d \in Cores \ {c} : holds[d][l] = 0

\* A core gets a lock that no other core holds; its own holdings never block it.
Acquire(c, l) ==
  /\ FreeFor(c, l)
  /\ holds' = [holds EXCEPT ![c][l] = @ + 1]

\* A core gives back one of the acquisitions it has.
Release(c, l) ==
  /\ holds[c][l] > 0
  /\ holds' = [holds EXCEPT ![c][l] = @ - 1]

Init == holds = [c \in Cores |-> [l \in Locks |-> 0]]

Next == \E c \in Cores, l \in Locks : Acquire(c, l) \/ Release(c, l)

Spec == Init /\ [][Next]_holds

TypeOK == holds \in [Cores -> [Locks -> Nat]]

\* No two cores hold the same lock, however deeply either has nested it.
MutualExclusion ==
  \A l \in Locks : \A c, d \in Cores :
    c # d => holds[c][l] = 0 \/ holds[d][l] = 0
=============================================================================
