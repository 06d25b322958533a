----------------------------- MODULE MCXtCoproc -----------------------------
(* Two tasks that use one coprocessor on two cores, or two coprocessors on *)
(* one core.  A run that has met a freed owner or a late change of an      *)
(* affinity is not followed further.                                       *)
EXTENDS XtCoproc, TLC

CONSTANTS c0, c1, cp, dp, t1, t2

MCCores == {c0, c1}
MCBuilds == {{c0}, {c0, c1}}
MCTasks == {t1, t2}
MCMayUse == [t \in MCTasks |-> {cp, dp}]
MCSmall ==
  /\ Undisturbed
  /\ Cardinality({t \in Tasks : life[t] = "deleted"}) <= 1
  /\ \A c \in Cores : owner[c][dp] # Null =>
       /\ ~SMP
       /\ \A t \in Tasks : life[t] = "ready"
       /\ \A t \in Tasks : owner[c][dp] # t =>
            frame[t] # "solicited" /\ \A n \in CPs : need[t][n] = "nothing"
Symmetry == Permutations(MCTasks)
=============================================================================
