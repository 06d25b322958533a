------------------------------ MODULE A53Sched ------------------------------
(***************************************************************************)
(* Context switching in the AM64 Cortex-A53 SMP port: the start of the     *)
(* scheduler on each core, the IRQ and SVC handlers, ullPortYieldRequired, *)
(* by which handlers ask the outermost of them for a switch, and the       *)
(* floating point context, which a task has from the moment it called      *)
(* vPortTaskUsesFPU and carries with it from core to core.                 *)
(*                                                                         *)
(* Kernel code between lock and unlock is one step here: the locks are the *)
(* subject of A53Lock.                                                     *)
(***************************************************************************)
EXTENDS A53Cores, Naturals

CONSTANTS Primary,    \* core 0, which takes the tick
          Tasks,      \* tasks the kernel has created
          FpuTasks,   \* those that use floating point
          Main,       \* the start-up code of a core, which is no task
          Live,       \* saved context of a task that is running: out of date
          NoData,     \* FPU registers with nobody's values
          FirstTask,  \* FirstTask[c]: pxCurrentTCBs[c] before the start
          MaxNest     \* bound: interrupts nested on one core

ASSUME A53SchedAssumption ==
  /\ Primary \in Cores
  /\ FpuTasks \subseteq Tasks
  /\ Main \notin Tasks /\ Live \notin Tasks /\ NoData \notin Tasks
  /\ Live # Main
  /\ FirstTask \in [Cores -> Tasks]
  /\ \A c, d \in Cores : FirstTask[c] = FirstTask[d] => c = d
  /\ MaxNest \in Nat

VARIABLES
  ullPortSchedularRunning,
  ullPortYieldRequired,     \* ullPortYieldRequired[c]
  ullPortInterruptNesting,  \* ullPortInterruptNesting[c]
  ullPortTaskHasFPUContext, \* ullPortTaskHasFPUContext[c]
  pxCurrentTCBs,            \* pxCurrentTCBs[c]
  sgi,      \* sgi[c]: the yield interrupt of core c is pending
  masked,   \* masked[c]: DAIF.I, core c takes no interrupt
  depth,    \* depth[c]: interrupt frames on the stack of core c
  frame,    \* frame[c][k]: the k-th of them
  at,       \* at[c]: where core c is below its interrupt frames
  cpu,      \* cpu[c]: whose code that is
  fpu,      \* fpu[c]: whose values the FPU registers of core c hold
  context,  \* context[t]: what the stack of task t holds
  step,     \* step[t]: how far task t is with its floating point
  core,     \* core[t]: the core id that vPortTaskUsesFPU has read
  astray    \* history: tasks whose call set the flag of another core than theirs

vars == <<ullPortSchedularRunning, ullPortYieldRequired,
          ullPortInterruptNesting, ullPortTaskHasFPUContext, pxCurrentTCBs,
          sgi, masked, depth, frame, at, cpu, fpu, context, step, core,
          astray>>

Kinds == {"sgi", "tick", "app"}
Frames == [isr : Kinds, done : BOOLEAN, old : Nat]
NoFrame == [isr |-> "app", done |-> TRUE, old |-> 0]
Contexts == [of : Tasks \cup {Live, Main}, flag : BOOLEAN,
             fpu : Tasks \cup {NoData}]
Dead == [of |-> Live, flag |-> FALSE, fpu |-> NoData]

isrVars == <<ullPortInterruptNesting, depth, frame>>
fpuVars == <<ullPortTaskHasFPUContext, fpu>>
taskVars == <<cpu, pxCurrentTCBs, context>>
progVars == <<step, core, astray>>

\* pxPortInitialiseStack: a new task has its own context, and no FPU context.
Init ==
  /\ ullPortSchedularRunning = FALSE
  /\ ullPortYieldRequired = [c \in Cores |-> FALSE]
  /\ ullPortInterruptNesting = [c \in Cores |-> 0]
  /\ ullPortTaskHasFPUContext = [c \in Cores |-> FALSE]
  /\ pxCurrentTCBs = FirstTask
  /\ sgi = [c \in Cores |-> FALSE]
  /\ masked = [c \in Cores |-> FALSE]
  /\ depth = [c \in Cores |-> 0]
  /\ frame = [c \in Cores |-> [k \in 1 .. MaxNest |-> NoFrame]]
  /\ at = [c \in Cores |-> "boot"]
  /\ cpu = [c \in Cores |-> Main]
  /\ fpu = [c \in Cores |-> NoData]
  /\ context = [t \in Tasks |-> [of |-> t, flag |-> FALSE, fpu |-> NoData]]
  /\ step = [t \in Tasks |-> "new"]
  /\ core = [t \in Tasks |-> Primary]
  /\ astray = {}

Started(c) == cpu[c] # Main
AtTaskLevel(c, p) == at[c] = p /\ depth[c] = 0

-----------------------------------------------------------------------------
(* Contexts and the start of the scheduler                                 *)

\* xPortStartScheduler, which every core calls.
xPortStartScheduler(c) ==
  /\ AtTaskLevel(c, "boot")
  /\ masked' = [masked EXCEPT ![c] = TRUE]
  /\ ullPortSchedularRunning' = (ullPortSchedularRunning \/ c = Primary)
  /\ at' = [at EXCEPT ![c] = "restore"]
  /\ UNCHANGED <<ullPortYieldRequired, isrVars, fpuVars, sgi, taskVars,
                 progVars>>

\* Mutant: the TCB of core 0 whatever the core.
SaveInPrimary(c) ==
  context' = [context EXCEPT ![pxCurrentTCBs[Primary]] =
    [of   |-> cpu[c],
     flag |-> ullPortTaskHasFPUContext[c],
     fpu  |-> IF ullPortTaskHasFPUContext[c] THEN fpu[c] ELSE NoData]]

\* portSAVE_CONTEXT: the FPU registers are part of it if the flag is set.
Save(c) ==
  context' = [context EXCEPT ![pxCurrentTCBs[c]] =
    [of   |-> cpu[c],
     flag |-> ullPortTaskHasFPUContext[c],
     fpu  |-> IF ullPortTaskHasFPUContext[c] THEN fpu[c] ELSE NoData]]

\* Mutant: the popped FPU context indicator is not stored for the core.
RestoreContextKeepingFlag(c) ==
  LET saved == context[pxCurrentTCBs[c]]
  IN  /\ at[c] = "restore"
      /\ cpu' = [cpu EXCEPT ![c] = saved.of]
      /\ fpu' = [fpu EXCEPT ![c] = IF saved.flag THEN saved.fpu ELSE @]
      /\ context' = [context EXCEPT ![pxCurrentTCBs[c]] = Dead]
      /\ masked' = [masked EXCEPT ![c] = FALSE]
      /\ at' = [at EXCEPT ![c] = "run"]
      /\ UNCHANGED <<ullPortSchedularRunning, ullPortYieldRequired, isrVars,
                     ullPortTaskHasFPUContext, pxCurrentTCBs, sgi, progVars>>

\* portRESTORE_CONTEXT, from the switch and from vPortRestoreTaskContext.
RestoreContext(c) ==
  LET saved == context[pxCurrentTCBs[c]]
  IN  /\ at[c] = "restore"
      /\ cpu' = [cpu EXCEPT ![c] = saved.of]
      /\ ullPortTaskHasFPUContext' =
           [ullPortTaskHasFPUContext EXCEPT ![c] = saved.flag]
      /\ fpu' = [fpu EXCEPT ![c] = IF saved.flag THEN saved.fpu ELSE @]
      /\ context' = [context EXCEPT ![pxCurrentTCBs[c]] = Dead]
      /\ masked' = [masked EXCEPT ![c] = FALSE]
      /\ at' = [at EXCEPT ![c] = "run"]
      /\ UNCHANGED <<ullPortSchedularRunning, ullPortYieldRequired, isrVars,
                     pxCurrentTCBs, sgi, progVars>>

\* HwiP_SVC_Handler: portYIELD of a task, which is not in vPortTaskUsesFPU.
Yield(c) ==
  /\ AtTaskLevel(c, "run")
  /\ step[cpu[c]] # "called"
  /\ Save(c)
  /\ masked' = [masked EXCEPT ![c] = TRUE]
  /\ at' = [at EXCEPT ![c] = "pick"]
  /\ UNCHANGED <<ullPortSchedularRunning, ullPortYieldRequired, isrVars,
                 fpuVars, pxCurrentTCBs, sgi, cpu, progVars>>

\* The kernel's choice: any task that is not another core's.
vTaskSwitchContext(c) ==
  /\ at[c] = "pick"
  /\ \E t \in Tasks :
       /\ \A d \in Cores \ {c} : pxCurrentTCBs[d] # t
       /\ pxCurrentTCBs' = [pxCurrentTCBs EXCEPT ![c] = t]
  /\ at' = [at EXCEPT ![c] = "restore"]
  /\ UNCHANGED <<ullPortSchedularRunning, ullPortYieldRequired, isrVars,
                 fpuVars, sgi, masked, cpu, context, progVars>>

-----------------------------------------------------------------------------
(* HwiP_IRQ_Handler                                                        *)

Top(c) == frame[c][depth[c]]

\* Core 0 ticks from the start, and a core may be signalled before its own.
Pending(c, isr) ==
  \/ isr = "tick" /\ c = Primary
  \/ isr = "sgi" /\ sgi[c]
  \/ isr = "app"

\* Count the nesting up and call the C handler, which lets other interrupts in.
IrqEnter(c, isr) ==
  /\ ~masked[c]
  /\ depth[c] < MaxNest
  /\ Pending(c, isr)
  /\ \A k \in 1 .. depth[c] : frame[c][k].isr # isr
  /\ depth' = [depth EXCEPT ![c] = @ + 1]
  /\ frame' = [frame EXCEPT ![c][depth[c] + 1] =
       [isr |-> isr, done |-> FALSE, old |-> ullPortInterruptNesting[c]]]
  /\ ullPortInterruptNesting' = [ullPortInterruptNesting EXCEPT ![c] = @ + 1]
  /\ sgi' = [sgi EXCEPT ![c] = @ /\ isr # "sgi"]
  /\ UNCHANGED <<ullPortSchedularRunning, ullPortYieldRequired, masked, at,
                 fpuVars, taskVars, progVars>>

Handler(c, isr) ==
  /\ depth[c] > 0
  /\ Top(c).isr = isr /\ ~Top(c).done
  /\ frame' = [frame EXCEPT ![c][depth[c]].done = TRUE]
  /\ UNCHANGED <<ullPortSchedularRunning, ullPortInterruptNesting, depth, masked,
                 at, fpuVars, taskVars, progVars>>

RequireYield(c) ==
  ullPortYieldRequired' = [ullPortYieldRequired EXCEPT ![c] = TRUE]

\* Signal_coreIntr: portYIELD_CORE of another core.
SignalCore(x) == sgi' = [sgi EXCEPT ![x] = TRUE]

\* The kernel may yield another core, in a handler or from a task.
MaySignal(c) == UNCHANGED sgi \/ \E x \in Cores \ {c} : SignalCore(x)

vPortTimerTickHandler(c) ==
  /\ Handler(c, "tick")
  /\ IF ullPortSchedularRunning
       THEN /\ RequireYield(c) \/ UNCHANGED ullPortYieldRequired
            /\ MaySignal(c)
       ELSE UNCHANGED <<ullPortYieldRequired, sgi>>

\* External: the SDK's handler for the yield interrupt.  It asks for a switch;
\* on a core that has no task to switch from yet it is assumed not to.
YieldHandler(c) ==
  /\ Handler(c, "sgi")
  /\ IF Started(c) THEN RequireYield(c) ELSE UNCHANGED ullPortYieldRequired
  /\ UNCHANGED sgi

\* An application handler that ends with portEND_SWITCHING_ISR, once the
\* kernel runs on its core.
EndSwitchingISR(c) ==
  /\ Handler(c, "app")
  /\ \/ Started(c) /\ RequireYield(c)
     \/ UNCHANGED ullPortYieldRequired
  /\ UNCHANGED sgi

\* Interrupts are masked again and the old nesting count is put back.
IrqLeave(c) ==
  /\ depth[c] > 0
  /\ Top(c).done
  /\ ullPortInterruptNesting' =
       [ullPortInterruptNesting EXCEPT ![c] = Top(c).old]
  /\ depth' = [depth EXCEPT ![c] = @ - 1]
  /\ frame' = [frame EXCEPT ![c][depth[c]] = NoFrame]

\* Exit_IRQ_No_Context_Switch
IrqResume(c) ==
  /\ IrqLeave(c)
  /\ Top(c).old # 0 \/ ~ullPortYieldRequired[c]
  /\ masked' = [masked EXCEPT ![c] = FALSE]
  /\ UNCHANGED <<ullPortSchedularRunning, ullPortYieldRequired, fpuVars, sgi, at,
                 taskVars, progVars>>

\* Mutant: the nesting count is not compared with 0.
IrqSwitchNested(c) ==
  /\ IrqLeave(c)
  /\ ullPortYieldRequired[c]
  /\ ullPortYieldRequired' = [ullPortYieldRequired EXCEPT ![c] = FALSE]
  /\ Save(c)
  /\ masked' = [masked EXCEPT ![c] = TRUE]
  /\ at' = [at EXCEPT ![c] = "pick"]
  /\ UNCHANGED <<ullPortSchedularRunning, fpuVars, sgi, cpu, pxCurrentTCBs,
                 progVars>>

IrqSwitch(c) ==
  /\ IrqLeave(c)
  /\ Top(c).old = 0 /\ ullPortYieldRequired[c]
  /\ ullPortYieldRequired' = [ullPortYieldRequired EXCEPT ![c] = FALSE]
  /\ Save(c)
  /\ masked' = [masked EXCEPT ![c] = TRUE]
  /\ at' = [at EXCEPT ![c] = "pick"]
  /\ UNCHANGED <<ullPortSchedularRunning, fpuVars, sgi, cpu, pxCurrentTCBs,
                 progVars>>

-----------------------------------------------------------------------------
(* Tasks                                                                   *)

TaskStep(c, from, to) ==
  /\ AtTaskLevel(c, "run")
  /\ step[cpu[c]] = from
  /\ step' = [step EXCEPT ![cpu[c]] = to]
  /\ UNCHANGED <<ullPortSchedularRunning, ullPortYieldRequired, isrVars, sgi, at,
                 taskVars>>

\* vPortTaskUsesFPU: the core id, then the flag of the core with that id.  An
\* interrupt may come between and move the task to another core.
UsesFPUCore(c) ==
  /\ cpu[c] \in FpuTasks
  /\ TaskStep(c, "new", "called")
  /\ core' = [core EXCEPT ![cpu[c]] = c]
  /\ UNCHANGED <<masked, fpuVars, astray>>

UsesFPUFlag(c) ==
  /\ TaskStep(c, "called", "registered")
  /\ ullPortTaskHasFPUContext' =
       [ullPortTaskHasFPUContext EXCEPT ![core[cpu[c]]] = TRUE]
  /\ core' = [core EXCEPT ![cpu[c]] = Primary]
  /\ astray' = IF core[cpu[c]] = c THEN astray ELSE astray \cup {cpu[c]}
  /\ UNCHANGED <<masked, fpu>>

\* A floating point instruction of a task that has registered.
Compute(c) ==
  /\ TaskStep(c, "registered", "computing")
  /\ fpu' = [fpu EXCEPT ![c] = cpu[c]]
  /\ UNCHANGED <<ullPortTaskHasFPUContext, masked, core, astray>>

TaskYieldsCore(c) ==
  /\ AtTaskLevel(c, "run")
  /\ step[cpu[c]] # "called"
  /\ \E x \in Cores \ {c} : SignalCore(x)
  /\ UNCHANGED <<ullPortSchedularRunning, ullPortYieldRequired, isrVars, fpuVars,
                 masked, at, taskVars, progVars>>

-----------------------------------------------------------------------------
Next ==
  \E c \in Cores :
    \/ xPortStartScheduler(c)
    \/ Yield(c) \/ vTaskSwitchContext(c) \/ RestoreContext(c)
    \/ \E isr \in Kinds : IrqEnter(c, isr)
    \/ vPortTimerTickHandler(c) \/ YieldHandler(c) \/ EndSwitchingISR(c)
    \/ IrqResume(c) \/ IrqSwitch(c)
    \/ UsesFPUCore(c) \/ UsesFPUFlag(c) \/ Compute(c) \/ TaskYieldsCore(c)

Spec == Init /\ [][Next]_vars

-----------------------------------------------------------------------------
TypeOK ==
  /\ ullPortSchedularRunning \in BOOLEAN
  /\ ullPortYieldRequired \in [Cores -> BOOLEAN]
  /\ ullPortInterruptNesting \in [Cores -> Nat]
  /\ ullPortTaskHasFPUContext \in [Cores -> BOOLEAN]
  /\ pxCurrentTCBs \in [Cores -> Tasks]
  /\ sgi \in [Cores -> BOOLEAN]
  /\ masked \in [Cores -> BOOLEAN]
  /\ depth \in [Cores -> 0 .. MaxNest]
  /\ frame \in [Cores -> [1 .. MaxNest -> Frames]]
  /\ at \in [Cores -> {"boot", "run", "pick", "restore"}]
  /\ cpu \in [Cores -> Tasks \cup {Main}]
  /\ fpu \in [Cores -> Tasks \cup {NoData}]
  /\ context \in [Tasks -> Contexts]
  /\ step \in [Tasks -> {"new", "called", "registered", "computing"}]
  /\ core \in [Tasks -> Cores]
  /\ astray \subseteq Tasks

\* No interrupt frame is left on a core that switches ("A context switch is
\* only performed if if the nesting depth is 0", port.c:109), and no core
\* switches away from its start-up code ("flag to control tick ISR handling",
\* port.c:113), which would be saved over a task's first context.
SwitchSafe ==
  \A c \in Cores :
    /\ at[c] \in {"pick", "restore"} =>
         depth[c] = 0 /\ ullPortInterruptNesting[c] = 0
    /\ at[c] = "pick" => Started(c)

\* Every task resumes from its own, latest context, on whichever core.
ContextsIntact ==
  /\ \A c \in Cores : at[c] = "run" => cpu[c] = pxCurrentTCBs[c]
  /\ \A t \in Tasks :
       \/ context[t].of = t
       \/ context[t].of = Live /\ \E c \in Cores : at[c] = "run" /\ cpu[c] = t

\* A task that called vPortTaskUsesFPU before its first floating point
\* instruction (portmacro.h:151) never runs with another task's values in the
\* FPU registers, however it is switched and moved between cores; except a task
\* that was moved inside vPortTaskUsesFPU, between the core id and the store
\* (port.c:264).  The flag such a task sets on the core it left harms no other.
FPUContextKept ==
  \A c \in Cores :
    at[c] = "run" /\ cpu[c] \notin astray /\ step[cpu[c]] = "computing" =>
      fpu[c] = cpu[c]
=============================================================================
