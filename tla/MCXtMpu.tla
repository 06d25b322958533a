------------------------------- MODULE MCXtMpu ------------------------------
(* Two tasks and one configurable region, in addresses that are aligned at  *)
(* even numbers: kernel code at 2, kernel data at 4, legacy stacks at 6,     *)
(* the stacks' range at 10, the regions' at 14, shared data at 18.          *)
EXTENDS XtMpu

CONSTANTS t1, t2

MCUserTasks == {t1, t2}
R(a, b) == [start |-> a, end |-> b]
Region(a, b, rights) == <<[range |-> R(a, b), ar |-> rights]>>

MCFixed == <<[start |-> 2, end |-> 4, ar |-> AR_rx],
             [start |-> 4, end |-> 6, ar |-> AR_none],
             [start |-> 18, end |-> 20, ar |-> AR_rw]>>
MCLegacy == R(6, 10)

\* The ranges in either order, next to each other and to fixed regions, or no
\* region.
MCSetups ==
  {[stack |-> R(10, 14), regions |-> Region(14, 18, AR_rw)],
   [stack |-> R(14, 18), regions |-> Region(10, 14, AR_rw)],
   [stack |-> R(10, 18), regions |-> Region(0, 0, AR_none)]}

MCStacks == {R(10, 12), R(12, 14), R(10, 14), R(14, 16), R(11, 13), R(8, 12)}
MCRegions == {Region(14, 16, AR_rw), Region(10, 12, AR_rx),
              Region(16, 20, AR_rw), Region(14, 18, AR_rw),
              Region(15, 17, AR_rw), Region(0, 0, AR_none)}

\* Tasks with a stack and a region, tasks whose regions are changed, for which
\* the kernel passes no stack, and tasks without regions.
MCRequests ==
  [stack : MCStacks \cup {Empty}, regions : MCRegions]
    \cup [stack : {R(6, 8), R(7, 10)}, regions : {<<>>}]

\* The hypothesis of the theorems about XtMpu holds of these.
ASSUME MCLayout == Layout
=============================================================================
