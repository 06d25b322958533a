------------------------------ MODULE XtCoproc ------------------------------
(***************************************************************************)
(* Coprocessor state in the Xtensa port (xtensa_coproc_handler.S,          *)
(* portasm.S).  A task keeps a coprocessor when it loses the core; the     *)
(* state moves to its save area only when another task uses the            *)
(* coprocessor, which raises an exception because CPENABLE has the bit     *)
(* clear.  Two things modify this: a task that yields by itself saves the  *)
(* callee-saved registers alone, and a task that may run on several cores  *)
(* saves everything when it is preempted.                                  *)
(*                                                                         *)
(* The contents of a coprocessor or of a save area are modelled by whose   *)
(* latest state they are, for the callee-saved and the other registers.    *)
(* The choice of the next task is the kernel's.  Interrupts are disabled   *)
(* in each of the port's steps; cores interleave.  XEA2, with              *)
(* configUSE_CORE_AFFINITY 1.                                              *)
(***************************************************************************)
EXTENDS Naturals, FiniteSets

CONSTANTS Cores,          \* core ids
          Core0,          \* the one that is 0
          Builds,         \* the sets of cores the port is built for
          CPs,            \* coprocessors
          Tasks,          \* tasks that may exist
          Idle,           \* the idle tasks, one for each core
          Null,           \* no owner
          Junk,           \* contents that are no task's latest state
          MayUse          \* the coprocessors each task uses

ASSUME CoprocAssumption ==
  /\ Core0 \in Cores
  /\ Builds \subseteq {cores \in SUBSET Cores : Core0 \in cores}
  /\ MayUse \in [Tasks -> SUBSET CPs]
  /\ Idle \notin Tasks /\ Null \notin Tasks /\ Junk \notin Tasks

VARIABLES
  built,         \* the cores of this build, configNUMBER_OF_CORES of them
  CPENABLE,      \* CPENABLE[c]: the coprocessors enabled on core c
  owner,         \* _xt_coproc_owner_sa[c][n]
  reg,           \* reg[c][n]: the contents of coprocessor n of core c
  XT_CPENABLE,   \* of each task: coprocessors it keeps while it does not run
  XT_CPSTORED,   \* of each task: coprocessors whose state is in the save area
  XT_CP_CS_ST,   \* of each task: the same for callee-saved state alone
  area,          \* area[t][n]: the contents of the save area of task t
  pxCurrentTCBs, \* the task of each core
  pc,            \* what each core does
  frame,         \* how each task was switched out
  need,          \* need[t][n]: the state of n that task t counts on
  affinity,      \* uxCoreAffinityMask of each task
  life,          \* what the kernel knows of each task
  \* What has happened that the port does not allow for:
  torn,          \* tasks whose deletion found them running on another core
  dangled,       \* a task's memory was freed with an owner entry that names it
  slipped,       \* an affinity changed after its task left its state in a core
  forgotten      \* <<t, n>>: the mask with n's callee-saved state was overwritten

saVars == <<XT_CPENABLE, XT_CPSTORED, XT_CP_CS_ST, area>>
cpVars == <<CPENABLE, owner, reg, need>>
history == <<torn, dangled, slipped, forgotten>>
vars == <<built, cpVars, saVars, pxCurrentTCBs, pc, frame, affinity, life, history>>

SMP == built # {Core0}

Contents == [callee : Tasks \cup {Junk}, caller : Tasks \cup {Junk}]
Of(t) == [callee |-> t, caller |-> t]

Holds(contents, t, what) ==
  /\ what # "nothing" => contents.callee = t
  /\ what = "full" => contents.caller = t

\* What is left of contents when the state of t becomes another.
Outdate(contents, t) ==
  [callee |-> IF contents.callee = t THEN Junk ELSE contents.callee,
   caller |-> IF contents.caller = t THEN Junk ELSE contents.caller]

\* The coprocessors start disabled and without owners, and each core in the
\* dispatcher for its first task.
Init ==
  /\ built \in Builds
  /\ CPENABLE = [c \in Cores |-> {}]
  /\ owner = [c \in Cores |-> [n \in CPs |-> Null]]
  /\ reg = [c \in Cores |-> [n \in CPs |-> Of(Junk)]]
  /\ XT_CPENABLE = [t \in Tasks |-> {}]
  /\ XT_CPSTORED = [t \in Tasks |-> {}]
  /\ XT_CP_CS_ST = [t \in Tasks |-> {}]
  /\ area = [t \in Tasks |-> [n \in CPs |-> Of(Junk)]]
  /\ pxCurrentTCBs = [c \in Cores |-> Idle]
  /\ pc = [c \in Cores |-> "dispatch"]
  /\ frame = [t \in Tasks |-> "start"]
  /\ need = [t \in Tasks |-> [n \in CPs |-> "nothing"]]
  /\ affinity = [t \in Tasks |-> built]
  /\ life = [t \in Tasks |-> "none"]
  /\ torn = {} /\ dangled = FALSE /\ slipped = FALSE /\ forgotten = {}

Runs(t, c) == pxCurrentTCBs[c] = t
Running(t) == \E c \in Cores : Runs(t, c)

-----------------------------------------------------------------------------
(* Tasks compute                                                           *)

\* An instruction of coprocessor n, which is enabled.
Compute(c, n) ==
  LET t == pxCurrentTCBs[c]
  IN  /\ pc[c] = "task"
      /\ n \in CPENABLE[c]
      /\ reg' = [d \in Cores |-> [m \in CPs |->
                   IF m # n THEN reg[d][m]
                   ELSE IF d = c THEN Of(t) ELSE Outdate(reg[d][m], t)]]
      /\ area' = [u \in Tasks |-> [m \in CPs |->
                   IF m # n THEN area[u][m] ELSE Outdate(area[u][m], t)]]
      /\ need' = [need EXCEPT ![t][n] = "full"]
      /\ forgotten' = forgotten \ {<<t, n>>}
      /\ UNCHANGED <<CPENABLE, owner, XT_CPENABLE, XT_CPSTORED, XT_CP_CS_ST,
                     pxCurrentTCBs, pc, frame, affinity, life, torn, dangled,
                     slipped>>

\* _xt_coproc_handler, where coprocessor n has the owner that is to go on: the
\* bits are not changed.
Reclaim(c, n) ==
  /\ pc[c] = "task"
  /\ pxCurrentTCBs[c] # Idle
  /\ n \in MayUse[pxCurrentTCBs[c]] \ CPENABLE[c]
  /\ owner[c][n] = pxCurrentTCBs[c]
  /\ CPENABLE' = [CPENABLE EXCEPT ![c] = @ \cup {n}]
  /\ UNCHANGED <<owner, reg, need, saVars, pxCurrentTCBs, pc, frame, affinity,
                 life, history>>

\* The owner is saved if it still needs the state, ...
SaveOld(old, n) == old # Null /\ n \in XT_CPENABLE[old]

\* Mutant: the coprocessor stays enabled for the task it was taken from.
ReleaseNothing(old, n) == XT_CPENABLE' = XT_CPENABLE

ReleaseOld(old, n) ==
  XT_CPENABLE' = IF SaveOld(old, n)
                   THEN [XT_CPENABLE EXCEPT ![old] = @ \ {n}]
                   ELSE XT_CPENABLE

\* ... and what the task stored last is restored: all, or what
\* _xt_coproc_restorecs finds.
RestoreAll(t, n) == n \in XT_CPSTORED[t]
RestoreCallee(t, n) == ~RestoreAll(t, n) /\ n \in XT_CP_CS_ST[t]

Restored(c, t, n) ==
  [callee |-> IF RestoreAll(t, n) \/ RestoreCallee(t, n)
                THEN area[t][n].callee ELSE reg[c][n].callee,
   caller |-> IF RestoreAll(t, n) THEN area[t][n].caller ELSE reg[c][n].caller]

_xt_coproc_handler(c, n) ==
  LET t == pxCurrentTCBs[c]
      old == owner[c][n]
  IN  /\ pc[c] = "task"
      /\ t # Idle
      /\ n \in MayUse[t] \ CPENABLE[c]
      /\ old # t
      /\ CPENABLE' = [CPENABLE EXCEPT ![c] = @ \cup {n}]
      /\ owner' = [owner EXCEPT ![c][n] = t]
      /\ ReleaseOld(old, n)
      /\ area' = IF SaveOld(old, n) THEN [area EXCEPT ![old][n] = reg[c][n]]
                 ELSE area
      /\ XT_CPSTORED' = [u \in Tasks |->
           IF u = t THEN XT_CPSTORED[u] \ {n}
           ELSE IF u = old /\ SaveOld(old, n) THEN XT_CPSTORED[u] \cup {n}
           ELSE XT_CPSTORED[u]]
      /\ XT_CP_CS_ST' = IF RestoreCallee(t, n)
                        THEN [XT_CP_CS_ST EXCEPT ![t] = @ \ {n}]
                        ELSE XT_CP_CS_ST
      /\ reg' = [reg EXCEPT ![c][n] = Restored(c, t, n)]
      /\ UNCHANGED <<need, pxCurrentTCBs, pc, frame, affinity, life, history>>

-----------------------------------------------------------------------------
(* Switching out and in                                                    *)

GiveUp(c, cps) ==
  owner' = [owner EXCEPT ![c] = [n \in CPs |-> IF n \in cps THEN Null ELSE @[n]]]

\* CPENABLE, XT_CPENABLE and the way to the dispatcher.
Leave(c, cpenable, exit) ==
  LET t == pxCurrentTCBs[c]
  IN  /\ pc[c] \in {"task", "leave"}
      /\ CPENABLE' = [CPENABLE EXCEPT ![c] = {}]
      /\ XT_CPENABLE' = IF t = Idle THEN XT_CPENABLE
                        ELSE [XT_CPENABLE EXCEPT ![t] = cpenable]
      /\ frame' = IF t = Idle THEN frame ELSE [frame EXCEPT ![t] = exit]
      /\ pc' = [pc EXCEPT ![c] = "dispatch"]
      /\ UNCHANGED <<pxCurrentTCBs, affinity, life, torn, dangled, slipped>>

\* The compiler has saved what else the task needs, so the rest of its state
\* means nothing any more.
Solicited(contents, t) ==
  IF contents.caller = t THEN [contents EXCEPT !.caller = Junk] ELSE contents

\* _xt_coproc_savecs stores the callee-saved state of what is enabled, and the
\* mask of it in the place of the mask before.
StoreCallee(c, t, n) ==
  Solicited(IF n \in CPENABLE[c]
              THEN [area[t][n] EXCEPT !.callee = reg[c][n].callee]
              ELSE area[t][n], t)

_xt_coproc_savecs(c) ==
  LET t == pxCurrentTCBs[c]
  IN  /\ XT_CP_CS_ST' = IF CPENABLE[c] = {} THEN XT_CP_CS_ST
                        ELSE [XT_CP_CS_ST EXCEPT ![t] = CPENABLE[c]]
      /\ forgotten' = forgotten \cup
           (IF CPENABLE[c] = {} THEN {}
            ELSE {t} \X (XT_CP_CS_ST[t] \ (CPENABLE[c] \cup XT_CPSTORED[t])))
      /\ area' = [u \in Tasks |-> [n \in CPs |->
                    IF u = t THEN StoreCallee(c, t, n)
                    ELSE Solicited(area[u][n], t)]]
      /\ IF SMP THEN GiveUp(c, CPENABLE[c]) ELSE UNCHANGED owner

vPortYield(c) ==
  LET t == pxCurrentTCBs[c]
  IN  /\ Leave(c, {}, "solicited")
      /\ _xt_coproc_savecs(c)
      /\ reg' = [d \in Cores |-> [n \in CPs |-> Solicited(reg[d][n], t)]]
      /\ need' = IF t = Idle THEN need
                 ELSE [need EXCEPT ![t] = [n \in CPs |->
                         IF @[n] = "full" THEN "callee" ELSE @[n]]]
      /\ UNCHANGED XT_CPSTORED

\* Mutant: the task's state stays in the core.
NeverMigrates(c) == FALSE

\* A task that may run elsewhere cannot leave its state in the core.
Migrates(c) ==
  /\ SMP /\ CPENABLE[c] # {}
  /\ affinity[pxCurrentTCBs[c]] \ {c} # {}

\* vPortYieldFromInt, with _xt_coproc_saveall.
SaveAll(c) ==
  LET t == pxCurrentTCBs[c]
      cps == CPENABLE[c]
  IN  /\ Migrates(c)
      /\ Leave(c, {}, "interrupt")
      /\ GiveUp(c, cps)
      /\ XT_CPSTORED' = [XT_CPSTORED EXCEPT ![t] = @ \cup cps]
      /\ area' = [area EXCEPT ![t] = [n \in CPs |->
                    IF n \in cps THEN reg[c][n] ELSE @[n]]]
      /\ UNCHANGED <<reg, XT_CP_CS_ST, need, forgotten>>

\* vPortYieldFromInt where the state stays in the core.
KeepAll(c) ==
  /\ ~Migrates(c)
  /\ Leave(c, CPENABLE[c], "interrupt")
  /\ UNCHANGED <<reg, owner, XT_CPSTORED, XT_CP_CS_ST, area, need, forgotten>>

vPortYieldFromInt(c) == SaveAll(c) \/ KeepAll(c)

\* The kernel leaves a task to its core until vTaskSwitchContext.
vTaskSwitchContext(c, t) ==
  \/ t = Idle
  \/ /\ t \in Tasks
     /\ life[t] = "ready"
     /\ c \in affinity[t]
     /\ \A d \in Cores \ {c} : ~Runs(t, d)

\* A solicited frame leaves CPENABLE clear and so does _xt_task_start.
_frxt_dispatch(c, t) ==
  /\ pc[c] = "dispatch"
  /\ vTaskSwitchContext(c, t)
  /\ pxCurrentTCBs' = [pxCurrentTCBs EXCEPT ![c] = t]
  /\ CPENABLE' = [CPENABLE EXCEPT ![c] =
       IF t \in Tasks /\ frame[t] = "interrupt" THEN XT_CPENABLE[t] ELSE @]
  /\ pc' = [pc EXCEPT ![c] = "task"]
  /\ UNCHANGED <<owner, reg, need, saVars, frame, affinity, life, history>>

-----------------------------------------------------------------------------
(* Tasks are created, deleted and moved                                    *)

\* xTaskCreateAffinitySet; pxPortInitialiseStack clears the save area.
CreateTask(t, cores) ==
  /\ life[t] = "none"
  /\ life' = [life EXCEPT ![t] = "ready"]
  /\ affinity' = [affinity EXCEPT ![t] = cores]
  /\ UNCHANGED <<cpVars, saVars, pxCurrentTCBs, pc, frame, history>>

\* Mutant: no owner is cleared.
HookForgotten(t) == UNCHANGED owner

\* The hook looks at the first XCHAL_CP_MAX entries, those of core 0.
portTaskDeleteHook(t) ==
  owner' = [owner EXCEPT ![Core0] =
              [n \in CPs |-> IF @[n] = t THEN Null ELSE @[n]]]

\* vTaskDelete of the calling task, which runs no code of its own afterwards
\* and waits for the interrupt or the call that switches it out.
DeleteSelf(c) ==
  LET t == pxCurrentTCBs[c]
  IN  /\ pc[c] = "task"
      /\ t # Idle /\ life[t] = "ready"
      /\ life' = [life EXCEPT ![t] = "deleted"]
      /\ portTaskDeleteHook(t)
      /\ pc' = [pc EXCEPT ![c] = "leave"]
      /\ torn' = torn \ {t}
      /\ UNCHANGED <<CPENABLE, reg, need, saVars, pxCurrentTCBs, frame, affinity,
                     dangled, slipped, forgotten>>

\* vTaskDelete of another task.  One that runs on another core goes on until
\* the interrupt of that core, and may use coprocessors until then.
DeleteOther(t) ==
  /\ \E c \in Cores : pc[c] = "task" /\ ~Runs(t, c)
  /\ life[t] = "ready"
  /\ life' = [life EXCEPT ![t] = "deleted"]
  /\ portTaskDeleteHook(t)
  /\ torn' = IF Running(t) THEN torn \cup {t} ELSE torn \ {t}
  /\ UNCHANGED <<CPENABLE, reg, need, saVars, pxCurrentTCBs, pc, frame, affinity,
                 dangled, slipped, forgotten>>

\* prvDeleteTCB, once the task does not run.  What is in its memory, and what
\* is left of its state elsewhere, means nothing any more.
FreeTask(t) ==
  /\ life[t] = "deleted" /\ ~Running(t)
  /\ life' = [life EXCEPT ![t] = "none"]
  /\ affinity' = [affinity EXCEPT ![t] = built]
  /\ XT_CPENABLE' = [XT_CPENABLE EXCEPT ![t] = {}]
  /\ XT_CPSTORED' = [XT_CPSTORED EXCEPT ![t] = {}]
  /\ XT_CP_CS_ST' = [XT_CP_CS_ST EXCEPT ![t] = {}]
  /\ frame' = [frame EXCEPT ![t] = "start"]
  /\ need' = [need EXCEPT ![t] = [n \in CPs |-> "nothing"]]
  /\ reg' = [c \in Cores |-> [n \in CPs |-> Outdate(reg[c][n], t)]]
  /\ area' = [u \in Tasks |-> [n \in CPs |->
                IF u = t THEN Of(Junk) ELSE Outdate(area[u][n], t)]]
  /\ dangled' = (dangled \/ \E c \in Cores, n \in CPs : owner[c][n] = t)
  /\ torn' = IF \E n \in CPs : owner[Core0][n] = t THEN torn ELSE torn \ {t}
  /\ forgotten' = {p \in forgotten : p[1] # t}
  /\ UNCHANGED <<CPENABLE, owner, pxCurrentTCBs, pc, slipped>>

\* xtensa_context.h: affinity masks are only to be changed "on the currently-
\* running task or on a task that has fully saved/released its coprocessors".
MayPin(t) == Running(t) \/ XT_CPENABLE[t] = {}

\* The running task may be on its way out: its core has tested the mask, and
\* left its state where it is.
LeftBehind(t) ==
  /\ XT_CPENABLE[t] # {}
  /\ \E c \in Cores : Runs(t, c) /\ pc[c] # "task"

vTaskCoreAffinitySet(t, cores) ==
  /\ \E c \in Cores : pc[c] = "task"
  /\ life[t] = "ready"
  /\ MayPin(t)
  /\ affinity[t] # cores
  /\ affinity' = [affinity EXCEPT ![t] = cores]
  /\ slipped' = (slipped \/ LeftBehind(t))
  /\ UNCHANGED <<cpVars, saVars, pxCurrentTCBs, pc, frame, life, torn, dangled,
                 forgotten>>

-----------------------------------------------------------------------------
CoreStep(c) ==
  \/ \E n \in CPs : Compute(c, n) \/ Reclaim(c, n) \/ _xt_coproc_handler(c, n)
  \/ vPortYield(c) \/ vPortYieldFromInt(c)
  \/ \E t \in Tasks \cup {Idle} : _frxt_dispatch(c, t)
  \/ DeleteSelf(c)

KernelStep(t) ==
  \/ DeleteOther(t)
  \/ FreeTask(t)
  \/ \E cores \in (SUBSET built) \ {{}} :
       CreateTask(t, cores) \/ vTaskCoreAffinitySet(t, cores)

Next ==
  /\ (\E c \in built : CoreStep(c)) \/ (\E t \in Tasks : KernelStep(t))
  /\ UNCHANGED built

Spec == Init /\ [][Next]_vars

-----------------------------------------------------------------------------
\* An idle task uses no coprocessor and has none enabled.
TypeOK ==
  /\ built \in Builds
  /\ CPENABLE \in [Cores -> SUBSET CPs]
  /\ owner \in [Cores -> [CPs -> Tasks \cup {Null}]]
  /\ reg \in [Cores -> [CPs -> Contents]]
  /\ XT_CPENABLE \in [Tasks -> SUBSET CPs]
  /\ XT_CPSTORED \in [Tasks -> SUBSET CPs]
  /\ XT_CP_CS_ST \in [Tasks -> SUBSET CPs]
  /\ area \in [Tasks -> [CPs -> Contents]]
  /\ pxCurrentTCBs \in [Cores -> Tasks \cup {Idle}]
  /\ pc \in [Cores -> {"task", "leave", "dispatch"}]
  /\ frame \in [Tasks -> {"start", "solicited", "interrupt"}]
  /\ need \in [Tasks -> [CPs -> {"nothing", "callee", "full"}]]
  /\ affinity \in [Tasks -> SUBSET Cores]
  /\ life \in [Tasks -> {"none", "ready", "deleted"}]
  /\ torn \subseteq Tasks /\ dangled \in BOOLEAN /\ slipped \in BOOLEAN
  /\ forgotten \subseteq Tasks \X CPs
  /\ \A c \in Cores : pxCurrentTCBs[c] = Idle => CPENABLE[c] = {}

\* Task t executes on core c, and has not been deleted.
Executes(t, c) == Runs(t, c) /\ t # Idle /\ pc[c] = "task" /\ life[t] = "ready"

\* Neither has memory been freed that an owner entry names, nor an affinity been
\* changed behind a core's back.
Undisturbed == ~dangled /\ ~slipped

\* A task finds in a coprocessor that is enabled for it the state it left
\* there, however often and wherever it was switched out since, and whoever
\* used the coprocessor meanwhile: everything after it was preempted, the
\* callee-saved registers after it yielded, unless a second yield, without the
\* coprocessor, has overwritten the mask that says that they were stored.
StateKept ==
  Undisturbed =>
    \A c \in Cores, t \in Tasks : Executes(t, c) =>
      \A n \in CPENABLE[c] :
        <<t, n>> \notin forgotten => Holds(reg[c][n], t, need[t][n])

\* A coprocessor that is enabled, or that will be when a preempted task runs
\* again, belongs to the task; so no two tasks use it without an exception
\* between them.
EnabledIsOwned ==
  ~slipped =>
    /\ \A c \in Cores, t \in Tasks : Executes(t, c) =>
         \A n \in CPENABLE[c] : owner[c][n] = t
    /\ \A t \in Tasks : ~Running(t) /\ life[t] = "ready" =>
         \A n \in XT_CPENABLE[t] :
           \E c \in Cores : owner[c][n] = t /\ affinity[t] = {c}

\* The comment of portTaskDeleteHook, "Release any owned coprocessors": no
\* coprocessor of core 0, so none of a port built for one core, has an owner
\* whose memory the kernel has freed, where the handler would read and store;
\* unless the task went on after its deletion.
OwnersExist ==
  \A n \in CPs :
    LET t == owner[Core0][n]
    IN  t # Null /\ t \notin torn => life[t] # "none"
=============================================================================
