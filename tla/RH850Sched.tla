----------------------------- MODULE RH850Sched -----------------------------
(***************************************************************************)
(* Context switching in the SMP port for RH850/U2x: the start of the       *)
(* scheduler on every core, the trap and interrupt wrappers of the         *)
(* assembler file, the tick and inter-processor interrupt handlers, and    *)
(* xPortScheduleStatus, by which handlers ask the outermost interrupt      *)
(* wrapper for a switch or for the first task.                             *)
(*                                                                         *)
(* Kernel sections run under the ISR lock, taken here from CoreLock, the   *)
(* abstract lock that the port's spin locks implement (see RH850Lock).     *)
(***************************************************************************)
EXTENDS RH850Cores, Naturals

CONSTANTS Primary,   \* the core that calls xPortStartScheduler
          Tasks,     \* tasks the kernel has created
          Main,      \* the start-up code of a core, which is no task
          Live,      \* saved context of a task that is running: out of date
          FirstTask, \* FirstTask[c]: pxCurrentTCBs[c] before the start
          MaxNest    \* bound: MaxNest[c], interrupts nested on core c

ASSUME SchedAssumption ==
  /\ Primary \in Cores
  /\ Main \notin Tasks
  /\ Live \notin Tasks
  /\ Live # Main
  /\ FirstTask \in [Cores -> Tasks]
  /\ \A c, d \in Cores : FirstTask[c] = FirstTask[d] => c = d
  /\ MaxNest \in [Cores -> Nat]

NOREQUEST == 0
TASKSWITCH == 1
STARTFIRSTTASK == 2

IsrLock == "ISR"

VARIABLES
  xPortScheduleStatus, \* xPortScheduleStatus[c]
  uxInterruptNesting,  \* uxInterruptNesting[c]
  flags,   \* flags[c]: cores whose inter-processor request to c is pending
  depth,   \* depth[c]: interrupt frames on the stacks of core c
  frame,   \* frame[c][k]: the k-th of them
  at,      \* at[c]: where core c is below its interrupt frames
  cpu,     \* cpu[c]: whose code that is
  pxCurrentTCBs, \* pxCurrentTCBs[c]
  saved,   \* saved[t]: whose context the stack of task t holds
  todo,    \* cores that the loop of xPortStartScheduler has not reached
  target,  \* the core that loop is working on
  owed,    \* cores marked taskTASK_SCHEDULED_TO_YIELD after they started
  early    \* cores marked so before they started

vars == <<xPortScheduleStatus, uxInterruptNesting, flags, id, depth, frame, at,
          cpu, pxCurrentTCBs, saved, todo, target, owed, early, holds>>

Lock == INSTANCE CoreLock WITH Locks <- {IsrLock}

Kinds == {"ipi", "tick", "app"}
FramePoints == {"handler", "lock", "body", "clear", "exit", "return"}
BasePoints == {"loop", "send", "wait", "first", "run", "lock", "section",
               "pick", "restore"}
Frames == [isr : Kinds, at : FramePoints, old : Nat, seen : SUBSET Cores]
NoFrame == [isr |-> "app", at |-> "return", old |-> 0, seen |-> {}]

bootVars == <<todo, target>>
taskVars == <<cpu, pxCurrentTCBs, saved>>
yieldVars == <<owed, early>>
isrVars == <<uxInterruptNesting, depth, frame>>

\* The frame that a new task starts from holds its own registers, with PSW.ID
\* clear (see Restore).
pxPortInitialiseStack(t) == t

Init ==
  /\ xPortScheduleStatus = [c \in Cores |-> NOREQUEST]
  /\ uxInterruptNesting = [c \in Cores |-> 0]
  /\ flags = [c \in Cores |-> {}]
  /\ id = [c \in Cores |-> c = Primary]
  /\ depth = [c \in Cores |-> 0]
  /\ frame = [c \in Cores |-> [k \in 1 .. MaxNest[c] |-> NoFrame]]
  /\ at = [c \in Cores |-> IF c = Primary THEN "loop" ELSE "wait"]
  /\ cpu = [c \in Cores |-> Main]
  /\ pxCurrentTCBs = FirstTask
  /\ saved = [t \in Tasks |-> pxPortInitialiseStack(t)]
  /\ todo = Cores
  /\ target = Primary
  /\ owed = {}
  /\ early = {}
  /\ Lock!Init

Started(c) == cpu[c] # Main

-----------------------------------------------------------------------------
(* xPortStartScheduler                                                     *)

\* One turn of the loop: mark another core for its first task, or clear the
\* own status.
MarkCore(x) ==
  /\ at[Primary] = "loop"
  /\ x \in todo
  /\ todo' = todo \ {x}
  /\ xPortScheduleStatus' = [xPortScheduleStatus EXCEPT
       ![x] = IF x = Primary THEN NOREQUEST ELSE STARTFIRSTTASK]
  /\ target' = x
  /\ at' = [at EXCEPT ![Primary] = IF x = Primary THEN "loop" ELSE "send"]
  /\ UNCHANGED <<flags, id, isrVars, taskVars, yieldVars, holds>>

\* vPortYieldCore for another core: raise its inter-processor interrupt.
Request(c, x) == flags' = [flags EXCEPT ![x] = @ \cup {c}]

SendStart ==
  /\ at[Primary] = "send"
  /\ Request(Primary, target)
  /\ at' = [at EXCEPT ![Primary] = "loop"]
  /\ UNCHANGED <<xPortScheduleStatus, id, isrVars, taskVars, bootVars,
                 yieldVars, holds>>

LoopDone ==
  /\ at[Primary] = "loop"
  /\ todo = {}
  /\ at' = [at EXCEPT ![Primary] = "first"]
  /\ UNCHANGED <<xPortScheduleStatus, flags, id, isrVars, taskVars, bootVars,
                 yieldVars, holds>>

-----------------------------------------------------------------------------
(* Contexts: portSAVE_CONTEXT, portRESTORE_CONTEXT, vTaskSwitchContext     *)

\* Mutant: pvPortGetCurrentTCB without the core id.
SaveInPrimary(c) ==
  saved' = [saved EXCEPT ![pxCurrentTCBs[Primary]] = cpu[c]]

Save(c) == saved' = [saved EXCEPT ![pxCurrentTCBs[c]] = cpu[c]]

\* The initial frame of a task, and any context saved at task level, has
\* PSW.ID clear.
Restore(c) ==
  /\ cpu' = [cpu EXCEPT ![c] = saved[pxCurrentTCBs[c]]]
  /\ saved' = [saved EXCEPT ![pxCurrentTCBs[c]] = Live]
  /\ id' = [id EXCEPT ![c] = FALSE]
  /\ at' = [at EXCEPT ![c] = "run"]

\* vPortStartFirstTask: leave the start-up code for the task the kernel chose.
StartFirstTask(c) ==
  /\ at[c] = "first"
  /\ Restore(c)
  /\ UNCHANGED <<xPortScheduleStatus, flags, isrVars, pxCurrentTCBs, bootVars,
                 yieldVars, holds>>

\* _vTRAP0_Handler at task level (portYIELD).
TrapFromTask(c) ==
  /\ at[c] = "run"
  /\ depth[c] = 0
  /\ uxInterruptNesting[c] = 0
  /\ Save(c)
  /\ id' = [id EXCEPT ![c] = TRUE]
  /\ at' = [at EXCEPT ![c] = "pick"]
  /\ UNCHANGED <<xPortScheduleStatus, flags, isrVars, cpu, pxCurrentTCBs,
                 bootVars, yieldVars, holds>>

\* The kernel's vTaskSwitchContext, under its locks: any task that no other
\* core runs may be next, and a yield the core was marked for is done.
vTaskSwitchContext(c) ==
  /\ at[c] = "pick"
  /\ Lock!FreeFor(c, IsrLock)
  /\ \E t \in Tasks :
       /\ \A d \in Cores \ {c} : pxCurrentTCBs[d] # t
       /\ pxCurrentTCBs' = [pxCurrentTCBs EXCEPT ![c] = t]
  /\ owed' = owed \ {c}
  /\ early' = early \ {c}
  /\ at' = [at EXCEPT ![c] = "restore"]
  /\ UNCHANGED <<xPortScheduleStatus, flags, id, isrVars, cpu, saved, bootVars,
                 holds>>

RestoreContext(c) ==
  /\ at[c] = "restore"
  /\ Restore(c)
  /\ UNCHANGED <<xPortScheduleStatus, flags, isrVars, pxCurrentTCBs, bootVars,
                 yieldVars, holds>>

-----------------------------------------------------------------------------
(* The interrupt wrapper _vIrq_Handler                                     *)

Top(c) == frame[c][depth[c]]
InHandler(c, isr, p) == depth[c] > 0 /\ Top(c).isr = isr /\ Top(c).at = p
FrameGoto(c, p) == frame' = [frame EXCEPT ![c][depth[c]].at = p]

\* The OSTM of the primary core ticks; an application has other interrupts.
Pending(c, isr) ==
  \/ isr = "ipi" /\ flags[c] # {}
  \/ isr = "tick" /\ c = Primary
  \/ isr = "app"

\* Save the registers, count the nesting up and enable interrupts for the
\* handler.  The hardware holds back an interrupt that is being handled.
IrqEnter(c, isr) ==
  /\ ~id[c]
  /\ depth[c] < MaxNest[c]
  /\ Pending(c, isr)
  /\ \A k \in 1 .. depth[c] : frame[c][k].isr # isr
  /\ depth' = [depth EXCEPT ![c] = @ + 1]
  /\ frame' = [frame EXCEPT ![c][depth[c] + 1] =
       [isr |-> isr, at |-> "handler", old |-> uxInterruptNesting[c], seen |-> {}]]
  /\ uxInterruptNesting' = [uxInterruptNesting EXCEPT ![c] = @ + 1]
  /\ UNCHANGED <<xPortScheduleStatus, flags, id, at, taskVars, bootVars,
                 yieldVars, holds>>

\* Disable interrupts, put the old nesting count back and drop the frame.
IrqLeave(c) ==
  /\ depth[c] > 0
  /\ Top(c).at = "return"
  /\ uxInterruptNesting' = [uxInterruptNesting EXCEPT ![c] = Top(c).old]
  /\ depth' = [depth EXCEPT ![c] = @ - 1]
  /\ frame' = [frame EXCEPT ![c][depth[c]] = NoFrame]

\* _vIrq_Handler_NotSwitchContext
IrqResume(c) ==
  /\ IrqLeave(c)
  /\ Top(c).old # 0 \/ xPortScheduleStatus[c] = NOREQUEST
  /\ id' = [id EXCEPT ![c] = FALSE]
  /\ UNCHANGED <<xPortScheduleStatus, flags, at, taskVars, bootVars, yieldVars,
                 holds>>

\* _vIrq_Handler_SwitchContext: the request is taken, the interrupted task's
\* context saved.
IrqSwitch(c) ==
  /\ IrqLeave(c)
  /\ Top(c).old = 0 /\ xPortScheduleStatus[c] = TASKSWITCH
  /\ xPortScheduleStatus' = [xPortScheduleStatus EXCEPT ![c] = NOREQUEST]
  /\ Save(c)
  /\ id' = [id EXCEPT ![c] = TRUE]
  /\ at' = [at EXCEPT ![c] = "pick"]
  /\ UNCHANGED <<flags, cpu, pxCurrentTCBs, bootVars, yieldVars, holds>>

\* _vIrq_Handler_StartFirstTask: nothing of the start-up code is saved.
IrqStart(c) ==
  /\ IrqLeave(c)
  /\ Top(c).old = 0 /\ xPortScheduleStatus[c] = STARTFIRSTTASK
  /\ xPortScheduleStatus' = [xPortScheduleStatus EXCEPT ![c] = NOREQUEST]
  /\ id' = [id EXCEPT ![c] = TRUE]
  /\ at' = [at EXCEPT ![c] = "first"]
  /\ UNCHANGED <<flags, taskVars, bootVars, yieldVars, holds>>

-----------------------------------------------------------------------------
(* The handlers                                                            *)

\* portENTER_CRITICAL_FROM_ISR masks interrupts and then takes the ISR lock.
EnterCriticalFromISR(c, isr) ==
  /\ InHandler(c, isr, "handler")
  /\ id' = [id EXCEPT ![c] = TRUE]
  /\ FrameGoto(c, "lock")
  /\ UNCHANGED <<xPortScheduleStatus, flags, uxInterruptNesting, depth, at,
                 taskVars, bootVars, yieldVars, holds>>

GetISRLock(c, isr) ==
  /\ InHandler(c, isr, "lock")
  /\ Lock!Acquire(c, IsrLock)
  /\ FrameGoto(c, "body")
  /\ UNCHANGED <<xPortScheduleStatus, flags, id, uxInterruptNesting, depth, at,
                 taskVars, bootVars, yieldVars>>

\* portEXIT_CRITICAL_FROM_ISR
ExitCriticalFromISR(c, isr) ==
  /\ InHandler(c, isr, "exit")
  /\ Lock!Release(c, IsrLock)
  /\ id' = [id EXCEPT ![c] = FALSE]
  /\ FrameGoto(c, "return")
  /\ UNCHANGED <<xPortScheduleStatus, flags, uxInterruptNesting, depth, at,
                 taskVars, bootVars, yieldVars>>

RequestSwitch(c) ==
  xPortScheduleStatus' = [xPortScheduleStatus EXCEPT ![c] = TASKSWITCH]

\* Mutant: a start request is overwritten.
IPIBodyOverwriting(c) ==
  /\ InHandler(c, "ipi", "body")
  /\ RequestSwitch(c)
  /\ frame' = [frame EXCEPT ![c][depth[c]].at = "clear",
                            ![c][depth[c]].seen = flags[c]]
  /\ UNCHANGED <<flags, id, uxInterruptNesting, depth, at, taskVars, bootVars,
                 yieldVars, holds>>

\* Mutant: only a pending switch request is renewed.
IPIBodyRenewing(c) ==
  /\ InHandler(c, "ipi", "body")
  /\ UNCHANGED xPortScheduleStatus
  /\ frame' = [frame EXCEPT ![c][depth[c]].at = "clear",
                            ![c][depth[c]].seen = flags[c]]
  /\ UNCHANGED <<flags, id, uxInterruptNesting, depth, at, taskVars, bootVars,
                 yieldVars, holds>>

\* vPortIPIHander up to the read of the request flags: a start request stays
\* a start request.
IPIBody(c) ==
  /\ InHandler(c, "ipi", "body")
  /\ IF xPortScheduleStatus[c] # STARTFIRSTTASK
       THEN RequestSwitch(c)
       ELSE UNCHANGED xPortScheduleStatus
  /\ frame' = [frame EXCEPT ![c][depth[c]].at = "clear",
                            ![c][depth[c]].seen = flags[c]]
  /\ UNCHANGED <<flags, id, uxInterruptNesting, depth, at, taskVars, bootVars,
                 yieldVars, holds>>

\* vPortIPIRClearRequest: clear the requests that were read.
IPIClear(c) ==
  /\ InHandler(c, "ipi", "clear")
  /\ flags' = [flags EXCEPT ![c] = @ \ Top(c).seen]
  /\ frame' = [frame EXCEPT ![c][depth[c]].at = "exit",
                            ![c][depth[c]].seen = {}]
  /\ UNCHANGED <<xPortScheduleStatus, id, uxInterruptNesting, depth, at,
                 taskVars, bootVars, yieldVars, holds>>

\* The kernel's prvYieldCore: one request to a core until that core switches.
YieldOther(c, x) ==
  /\ x # c
  /\ x \notin owed \cup early
  /\ Request(c, x)
  /\ IF Started(x) THEN owed' = owed \cup {x} /\ UNCHANGED early
                   ELSE early' = early \cup {x} /\ UNCHANGED owed

\* vPortTickISR: xTaskIncrementTick may ask for a switch of this core, and
\* may yield other cores.
TickBody(c) ==
  /\ InHandler(c, "tick", "body")
  /\ RequestSwitch(c) \/ UNCHANGED xPortScheduleStatus
  /\ \/ \E x \in Cores : YieldOther(c, x)
     \/ UNCHANGED <<flags, owed, early>>
  /\ FrameGoto(c, "exit")
  /\ UNCHANGED <<id, uxInterruptNesting, depth, at, taskVars, bootVars, holds>>

\* An application handler: it may end with portYIELD_FROM_ISR, which is
\* vPortSetSwitch, once the kernel runs on its core.
SetSwitch(c) ==
  /\ InHandler(c, "app", "handler")
  /\ \/ Started(c) /\ RequestSwitch(c)
     \/ UNCHANGED xPortScheduleStatus
  /\ FrameGoto(c, "return")
  /\ UNCHANGED <<flags, id, uxInterruptNesting, depth, at, taskVars, bootVars,
                 yieldVars, holds>>

\* _vTRAP0_Handler below an interrupt: the frame saved over the task's is
\* restored at once, and the switch is left to the outermost wrapper.
TrapFromIsr(c) ==
  /\ InHandler(c, "app", "handler")
  /\ Started(c)
  /\ uxInterruptNesting[c] # 0
  /\ RequestSwitch(c)
  /\ FrameGoto(c, "return")
  /\ UNCHANGED <<flags, id, uxInterruptNesting, depth, at, taskVars, bootVars,
                 yieldVars, holds>>

-----------------------------------------------------------------------------
(* A task's critical section: mask, lock, perhaps yield a core, unlock.    *)

TaskMask(c) ==
  /\ at[c] = "run" /\ depth[c] = 0
  /\ id' = [id EXCEPT ![c] = TRUE]
  /\ at' = [at EXCEPT ![c] = "lock"]
  /\ UNCHANGED <<xPortScheduleStatus, flags, isrVars, taskVars, bootVars,
                 yieldVars, holds>>

TaskLock(c) ==
  /\ at[c] = "lock"
  /\ Lock!Acquire(c, IsrLock)
  /\ at' = [at EXCEPT ![c] = "section"]
  /\ UNCHANGED <<xPortScheduleStatus, flags, id, isrVars, taskVars, bootVars,
                 yieldVars>>

TaskYieldsCore(c, x) ==
  /\ at[c] = "section"
  /\ YieldOther(c, x)
  /\ UNCHANGED <<xPortScheduleStatus, id, isrVars, at, taskVars, bootVars,
                 holds>>

TaskUnlock(c) ==
  /\ at[c] = "section"
  /\ Lock!Release(c, IsrLock)
  /\ id' = [id EXCEPT ![c] = FALSE]
  /\ at' = [at EXCEPT ![c] = "run"]
  /\ UNCHANGED <<xPortScheduleStatus, flags, isrVars, taskVars, bootVars,
                 yieldVars>>

-----------------------------------------------------------------------------
\* What a core does once it has begun it: no choice, no waiting.
Straight(c) ==
  \/ StartFirstTask(c) \/ RestoreContext(c)
  \/ IrqResume(c) \/ IrqSwitch(c) \/ IrqStart(c)
  \/ \E isr \in {"ipi", "tick"} :
       EnterCriticalFromISR(c, isr) \/ ExitCriticalFromISR(c, isr)
  \/ IPIBody(c) \/ IPIClear(c) \/ TickBody(c)
  \/ SetSwitch(c) \/ TrapFromIsr(c)
  \/ TaskUnlock(c)

Locking(c) ==
  \/ \E isr \in {"ipi", "tick"} : GetISRLock(c, isr)
  \/ TaskLock(c)
  \/ vTaskSwitchContext(c)

Boot == SendStart \/ LoopDone \/ \E x \in Cores : MarkCore(x)

Next ==
  \/ Boot
  \/ \E c \in Cores :
       \/ Straight(c)
       \/ Locking(c)
       \/ \E isr \in Kinds : IrqEnter(c, isr)
       \/ TrapFromTask(c)
       \/ TaskMask(c)
       \/ \E x \in Cores : TaskYieldsCore(c, x)

Spec == Init /\ [][Next]_vars

\* A core executes its code, also the part that interrupts interrupt again
\* and again (their load leaves it some time); it gets the ISR lock, which
\* every holder gives back; a pending inter-processor interrupt is taken.
\* Nothing interrupts a core between two task-level steps of Straight, which
\* are taken with interrupts masked, nor in the deepest frame: there weak
\* fairness is as much as strong fairness.
StraightAt(c, k) == depth[c] = k /\ Straight(c)

Fairness ==
  /\ WF_vars(Boot)
  /\ \A c \in Cores :
       /\ \A k \in 1 .. MaxNest[c] - 1 : SF_vars(StraightAt(c, k))
       /\ WF_vars(StraightAt(c, 0))
       /\ WF_vars(StraightAt(c, MaxNest[c]))
       /\ SF_vars(Locking(c))
       /\ SF_vars(IrqEnter(c, "ipi"))

FairSpec == Spec /\ Fairness

-----------------------------------------------------------------------------
Running(c) == at[c] \in {"run", "lock", "section"}

TypeOK ==
  /\ xPortScheduleStatus \in [Cores -> {NOREQUEST, TASKSWITCH, STARTFIRSTTASK}]
  /\ uxInterruptNesting \in [Cores -> Nat]
  /\ flags \in [Cores -> SUBSET Cores]
  /\ id \in [Cores -> BOOLEAN]
  /\ \A c \in Cores :
       /\ depth[c] \in 0 .. MaxNest[c]
       /\ frame[c] \in [1 .. MaxNest[c] -> Frames]
  /\ at \in [Cores -> BasePoints]
  /\ cpu \in [Cores -> Tasks \cup {Main}]
  /\ pxCurrentTCBs \in [Cores -> Tasks]
  /\ saved \in [Tasks -> Tasks \cup {Live}]
  /\ todo \subseteq Cores
  /\ target \in Cores
  /\ owed \subseteq Cores
  /\ early \subseteq Cores
  /\ Lock!TypeOK

\* A core switches or starts a task only with no interrupt frame left on it
\* ("A context switch is only performed if the nesting depth is 0",
\* port.c:175), and switches only after it has started its first task ("1st
\* execution starts 1st task, TaskSwitchContext is not executed", port.c:552).
\* With more than two cores a request may come too early for that.
SwitchSafe ==
  \A c \in Cores :
    /\ at[c] \in {"pick", "restore", "first"} =>
         depth[c] = 0 /\ uxInterruptNesting[c] = 0
    /\ at[c] \in {"pick", "restore"} => Started(c)

\* Every task resumes from its own, latest context: a core at task level runs
\* its pxCurrentTCB, no task executes on two cores, and the stack of a task
\* that no core runs holds that task's context and nobody else's (not that of
\* start-up code, either).
ContextsIntact ==
  /\ \A c \in Cores : Running(c) => cpu[c] = pxCurrentTCBs[c]
  /\ \A c, d \in Cores : c # d /\ Running(c) /\ Running(d) => cpu[c] # cpu[d]
  /\ \A t \in Tasks :
       \/ saved[t] = t
       \/ saved[t] = Live /\ \E c \in Cores : Running(c) /\ cpu[c] = t

\* Every core starts its first task, and one that portYIELD_CORE asked to
\* yield after it had started does ("vTaskSwitchContext() is invoked to switch
\* tasks", port.c:538).  A yield that comes before the start is merged with
\* the start request (port.c:553): the cores in early are promised nothing.
RequestsServed ==
  \A c \in Cores : (<>Started(c)) /\ (c \in owed ~> c \notin owed)
=============================================================================
