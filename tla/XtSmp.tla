------------------------------- MODULE XtSmp --------------------------------
(***************************************************************************)
(* The SMP kernel on Xtensa cores (Cadence/Xtensa): the start of the       *)
(* cores, the two mutexes that the kernel's sections take, and the         *)
(* dispatcher behind vPortYield, interrupts and inter-processor requests.  *)
(*                                                                         *)
(* What a core executes with interrupts masked is a list of steps, todo[c]; *)
(* other cores run between any two of them.  With no step left it runs its *)
(* task, or the handlers of hand[c] above it, and can be interrupted.      *)
(* A call of xt_mutex_lock or xt_mutex_unlock is one of the steps, and     *)
(* inside[c] says how far the core is in it.                               *)
(***************************************************************************)
EXTENDS Naturals, Sequences, FiniteSets

CONSTANTS Cores,     \* configNUMBER_OF_CORES: 0, 1, ...
          Tasks,
          TickCore,  \* configTICK_CORE
          XT_TIMER_INTNUM, \* the interrupt of the tick timer
          Devices,   \* of each core: its interrupts apart from those of cores
          Level,     \* the priority level of an interrupt
          First,     \* pxCurrentTCBs when the scheduler starts
          MaxDepth   \* bound: nested critical sections

ISR == "_xt_mutex_ISR"
TASK == "_xt_mutex_task"
Mutexes == {ISR, TASK}

\* The interrupt numbers: a core's number is that of requests it makes.
Interrupts == Cores \cup UNION {Devices[c] : c \in Cores}

ASSUME XtSmpAssumption ==
  /\ 0 \in Cores /\ Cores \subseteq Nat /\ TickCore \in Cores
  /\ First \in [Cores -> Tasks]
  /\ \A c, d \in Cores : First[c] = First[d] => c = d
  /\ Devices \in [Cores -> SUBSET (Nat \ Cores)] /\ XT_TIMER_INTNUM \in Devices[TickCore]
  /\ Level \in [Interrupts -> Nat \ {0}]
  /\ MaxDepth \in Nat

VARIABLES
  port_xSchedulerRunning, xt_smp_sync,
  handlers,     \* the interrupts that have a handler in the shared table
  xt_intenable, \* of each core: the interrupts it has enabled
  owner, count, \* of each mutex: core id + 1 or 0, and how often it is locked
  inside,       \* of each core: the access to a mutex that it makes next
  todo,         \* of each core: the steps it has yet to execute
  depth,        \* of each core: uxCriticalNestings
  suspended,    \* the cores whose task has suspended the scheduler
  yields,       \* cores that owe themselves a switch (xYieldPendings)
  pend,         \* of each core: the interrupts that wait
  hand,         \* of each core: the handlers it is in, the last one innermost
  port_interruptNesting, port_switch_flag,
  pxCurrentTCBs,
  frames        \* tasks whose stack pointer leads to a frame to restore

start == <<port_xSchedulerRunning, xt_smp_sync, handlers, xt_intenable>>
mutexes == <<owner, count, inside>>
kernel == <<depth, suspended, yields>>
ints == <<pend, hand, port_interruptNesting, port_switch_flag>>
tasks == <<pxCurrentTCBs, frames>>
vars == <<start, mutexes, todo, kernel, ints, tasks>>

Id(c) == c + 1

Op(d) == [do |-> d, on |-> TASK]
On(d, m) == [do |-> d, on |-> m]

\* Core 0 runs main(), which calls xPortStartScheduler; ...
StartFirst == <<Op("main"), Op("coproc"), Op("mutexes"), Op("ipis"), Op("tick"),
                Op("running"), Op("sync"), Op("dispatch")>>

\* ... __memmap_init of the other cores waits for it and then calls it as well.
StartOther == <<Op("wait"), Op("coproc"), Op("assert"), Op("ipis"), Op("tick"),
                Op("running"), Op("dispatch")>>

\* Mutant: a core does not wait for core 0.
NoWait(c) == IF c = 0 THEN StartFirst ELSE Tail(StartOther)

Boot(c) == IF c = 0 THEN StartFirst ELSE StartOther

Init ==
  /\ port_xSchedulerRunning = FALSE
  /\ xt_smp_sync = FALSE
  /\ handlers = UNION {Devices[c] : c \in Cores}
  /\ xt_intenable = [c \in Cores |-> Devices[c] \ {XT_TIMER_INTNUM}]
  /\ owner = [m \in Mutexes |-> 0]
  /\ count = [m \in Mutexes |-> 0]
  /\ inside = [c \in Cores |-> "test"]
  /\ todo = [c \in Cores |-> Boot(c)]
  /\ depth = [c \in Cores |-> 0]
  /\ suspended = {} /\ yields = {}
  /\ pend = [c \in Cores |-> {}]
  /\ hand = [c \in Cores |-> <<>>]
  /\ port_interruptNesting = [c \in Cores |-> 0]
  /\ port_switch_flag = [c \in Cores |-> FALSE]
  /\ pxCurrentTCBs = First
  /\ frames = Tasks   \* pxPortInitialiseStack has made each task's first

Left(c) == todo[c] # <<>>
Does(c, d) == Left(c) /\ Head(todo[c]).do = d
Goes(c, steps) == todo' = [todo EXCEPT ![c] = steps]
Done(c) == Goes(c, Tail(todo[c]))
Runs(c, steps) == ~Left(c) /\ Goes(c, steps)
-----------------------------------------------------------------------------
(* Start                                                                   *)

\* vTaskStartScheduler masks interrupts; a handler of main() ends first.
StartScheduler(c) ==
  /\ Does(c, "main") /\ hand[c] = <<>>
  /\ Done(c)
  /\ UNCHANGED <<start, mutexes, kernel, ints, tasks>>

__memmap_init(c) ==
  /\ Does(c, "wait") /\ xt_smp_sync
  /\ Done(c)
  /\ UNCHANGED <<start, mutexes, kernel, ints, tasks>>

xt_mutex_init(c) ==
  /\ Does(c, "mutexes")
  /\ owner' = [m \in Mutexes |-> 0]
  /\ count' = [m \in Mutexes |-> 0]
  /\ Done(c)
  /\ UNCHANGED <<start, inside, kernel, ints, tasks>>

xt_set_interrupt_handler(ns) == handlers' = handlers \cup ns

\* The calling core's own enables.
xt_interrupt_enable(c, ns) ==
  xt_intenable' = [xt_intenable EXCEPT ![c] = @ \cup ns]

\* The requests of every other core get their handler and are enabled.
EnableRequests(c) ==
  /\ Does(c, "ipis")
  /\ xt_set_interrupt_handler(Cores \ {c})
  /\ xt_interrupt_enable(c, Cores \ {c})
  /\ Done(c)
  /\ UNCHANGED <<port_xSchedulerRunning, xt_smp_sync, mutexes, kernel, ints, tasks>>

EnableTick(c) ==
  /\ Does(c, "tick")
  /\ xt_interrupt_enable(c, {n \in {XT_TIMER_INTNUM} : c = TickCore})
  /\ Done(c)
  /\ UNCHANGED <<port_xSchedulerRunning, xt_smp_sync, handlers, mutexes, kernel,
                 ints, tasks>>

\* What the start does apart: coprocessors (see XtCoproc), assertions, flags.
StartStep(c) ==
  /\ Does(c, "coproc") \/ Does(c, "assert") \/ Does(c, "running") \/ Does(c, "sync")
  /\ port_xSchedulerRunning' = (port_xSchedulerRunning \/ Does(c, "running"))
  /\ xt_smp_sync' = (xt_smp_sync \/ Does(c, "sync"))
  /\ Done(c)
  /\ UNCHANGED <<handlers, xt_intenable, mutexes, kernel, ints, tasks>>

-----------------------------------------------------------------------------
(* Mutexes                                                                 *)

M(c) == Head(todo[c]).on
Count(c, n) == count' = [count EXCEPT ![M(c)] = n]
Own(c, id) == owner' = [owner EXCEPT ![M(c)] = id]

\* Core c is about to make access a of a call of d.
In(c, d, a) == Does(c, d) /\ inside[c] = a

\* The call goes on with access a, or is over.
To(c, a) == inside' = [inside EXCEPT ![c] = a] /\ UNCHANGED todo
Returns(c) == inside' = [inside EXCEPT ![c] = "test"] /\ Done(c)

MutexStep == UNCHANGED <<start, kernel, ints, tasks>>

\* A core that has the mutex counts one more.
LockTest(c) ==
  /\ In(c, "lock", "test")
  /\ IF owner[M(c)] = Id(c)
       THEN Count(c, count[M(c)] + 1) /\ Returns(c)
       ELSE To(c, "take") /\ UNCHANGED count
  /\ UNCHANGED owner
  /\ MutexStep

\* Mutant: the store is not exclusive with the load.
TakeBlind(c) ==
  /\ In(c, "lock", "take")
  /\ Own(c, Id(c)) /\ To(c, "count")
  /\ UNCHANGED count
  /\ MutexStep

\* l32ex and s32ex: the test and the store are one.
Take(c) ==
  /\ In(c, "lock", "take") /\ owner[M(c)] = 0
  /\ Own(c, Id(c)) /\ To(c, "count")
  /\ UNCHANGED count
  /\ MutexStep

SetCount(c) ==
  /\ In(c, "lock", "count")
  /\ Count(c, 1) /\ Returns(c)
  /\ UNCHANGED owner
  /\ MutexStep

\* xt_mutex_unlock of a core without the mutex does nothing.
xt_mutex_unlock(c) ==
  /\ In(c, "unlock", "test")
  /\ IF owner[M(c)] # Id(c) THEN Returns(c) /\ UNCHANGED count
     ELSE /\ Count(c, count[M(c)] - 1)
          /\ IF count[M(c)] = 1 THEN To(c, "free") ELSE Returns(c)
  /\ UNCHANGED owner
  /\ MutexStep

Free(c) ==
  /\ In(c, "unlock", "free")
  /\ Own(c, 0) /\ Returns(c)
  /\ UNCHANGED count
  /\ MutexStep

xt_mutex_lock(c) == LockTest(c) \/ Take(c) \/ SetCount(c)

-----------------------------------------------------------------------------
(* The kernel's sections                                                   *)

\* A task's section takes both mutexes, a handler's the ISR mutex.
Enter(c) ==
  IF depth[c] > 0 THEN <<Op("deeper"), Op("kernel")>>
  ELSE IF hand[c] # <<>> THEN <<On("lock", ISR), Op("deeper"), Op("kernel")>>
  ELSE <<On("lock", TASK), On("lock", ISR), Op("deeper"), Op("kernel")>>

Leave(c) ==
  IF depth[c] > 1 THEN <<Op("shallower"), Op("kernel")>>
  ELSE IF hand[c] # <<>> THEN <<Op("shallower"), On("unlock", ISR)>>
  ELSE <<Op("shallower"), On("unlock", ISR), On("unlock", TASK), Op("unmask")>>

Unhurried == UNCHANGED <<start, mutexes, ints, tasks>>

\* vTaskEnterCritical; in a section the core stays masked, at step "kernel".
EnterCritical(c) ==
  /\ ~Left(c) /\ hand[c] = <<>>
  /\ Runs(c, Enter(c))
  /\ Unhurried /\ UNCHANGED kernel

Deeper(c) ==
  /\ Does(c, "deeper")
  /\ depth' = [depth EXCEPT ![c] = @ + 1]
  /\ Done(c)
  /\ Unhurried /\ UNCHANGED <<suspended, yields>>

Shallower(c) ==
  /\ Does(c, "shallower")
  /\ depth' = [depth EXCEPT ![c] = @ - 1]
  /\ Done(c)
  /\ Unhurried /\ UNCHANGED <<suspended, yields>>

Nest(c) ==
  /\ Does(c, "kernel") /\ depth[c] < MaxDepth
  /\ Goes(c, Enter(c))
  /\ Unhurried /\ UNCHANGED kernel

\* vTaskExitCritical, vTaskExitCriticalFromISR
ExitCritical(c) ==
  /\ Does(c, "kernel")
  /\ Goes(c, Leave(c))
  /\ Unhurried /\ UNCHANGED kernel

\* A section has core d switch: it asks another core, owes it to itself, or,
\* in a handler, sets the flag that the end of the handler looks at.
portYIELD_CORE(c, d) ==
  /\ Does(c, "kernel")
  /\ IF d # c
       THEN /\ pend' = [pend EXCEPT ![d] = @ \cup {c}]
            /\ UNCHANGED <<yields, port_switch_flag>>
     ELSE IF hand[c] = <<>>
       THEN yields' = yields \cup {c} /\ UNCHANGED <<pend, port_switch_flag>>
       ELSE /\ port_switch_flag' = [port_switch_flag EXCEPT ![c] = TRUE]
            /\ UNCHANGED <<pend, yields>>
  /\ UNCHANGED <<start, mutexes, todo, depth, suspended, hand,
                 port_interruptNesting, tasks>>

\* vTaskSuspendAll keeps the task mutex, with interrupts enabled.
SuspendAll(c) ==
  /\ hand[c] = <<>> /\ c \notin suspended
  /\ Runs(c, <<On("lock", TASK), On("lock", ISR), Op("suspend"), On("unlock", ISR)>>)
  /\ Unhurried /\ UNCHANGED kernel

\* xTaskResumeAll gives the task mutex back in a section of its own.
ResumeAll(c) ==
  /\ hand[c] = <<>> /\ c \in suspended
  /\ Runs(c, <<On("lock", TASK), On("lock", ISR), Op("deeper"), Op("resume"), On("unlock", TASK),
               Op("shallower"), On("unlock", ISR), On("unlock", TASK), Op("unmask")>>)
  /\ Unhurried /\ UNCHANGED kernel

Suspend(c) ==
  /\ Does(c, "suspend") \/ Does(c, "resume")
  /\ suspended' = IF Does(c, "suspend") THEN suspended \cup {c} ELSE suspended \ {c}
  /\ Done(c)
  /\ Unhurried /\ UNCHANGED <<depth, yields>>

-----------------------------------------------------------------------------
(* Dispatcher                                                              *)

\* vTaskSwitchContext, called by _frxt_dispatch, and what follows it.
Switch == <<On("lock", TASK), On("lock", ISR), Op("select"),
            On("unlock", ISR), On("unlock", TASK), Op("restore")>>

Saves(c) == frames' = frames \cup {pxCurrentTCBs[c]}
Resumes(c) == frames' = frames \ {pxCurrentTCBs[c]}

\* Mutant: the frame is stored after the dispatcher has chosen.
YieldUnsaved(c) == UNCHANGED frames

\* vPortYield: the task's frame is stored before the dispatcher is called.
SaveSolicited(c) == Saves(c)

vPortYield(c) ==
  /\ hand[c] = <<>> /\ c \notin suspended
  /\ \/ Runs(c, Switch)
     \/ Does(c, "unmask") /\ c \in yields /\ Goes(c, Switch)
  /\ SaveSolicited(c)
  /\ UNCHANGED <<start, mutexes, kernel, ints, pxCurrentTCBs>>

\* The end of a section that owes no switch, or must not make it.
Unmask(c) ==
  /\ Does(c, "unmask") /\ (c \in yields => c \in suspended)
  /\ Done(c)
  /\ Unhurried /\ UNCHANGED kernel

Dispatch(c) ==
  /\ Does(c, "dispatch")
  /\ Goes(c, Switch)
  /\ Unhurried /\ UNCHANGED kernel

\* Any task that no other core runs; none other while this one has suspended
\* the scheduler.
Select(c) ==
  /\ Does(c, "select")
  /\ IF c \in suspended
       THEN yields' = yields \cup {c} /\ UNCHANGED pxCurrentTCBs
       ELSE /\ yields' = yields \ {c}
            /\ \E t \in Tasks \ {pxCurrentTCBs[d] : d \in Cores \ {c}} :
                 pxCurrentTCBs' = [pxCurrentTCBs EXCEPT ![c] = t]
  /\ Done(c)
  /\ UNCHANGED <<start, mutexes, depth, suspended, ints, frames>>

\* _frxt_dispatch restores either kind of frame; the stack pointer is the task's.
Restore(c) ==
  /\ Does(c, "restore")
  /\ Resumes(c)
  /\ Done(c)
  /\ UNCHANGED <<start, mutexes, kernel, ints, pxCurrentTCBs>>

-----------------------------------------------------------------------------
(* Interrupts                                                              *)

Above(c, n) == \A i \in DOMAIN hand[c] : Level[n] > Level[hand[c][i].n]

Unmasked(c) == ~Left(c) \/ Does(c, "main")

Raise(c, n) ==
  /\ n \in Devices[c] \cap xt_intenable[c]
  /\ n \notin pend[c] /\ \A i \in DOMAIN hand[c] : hand[c][i].n # n
  /\ pend' = [pend EXCEPT ![c] = @ \cup {n}]
  /\ UNCHANGED <<start, mutexes, todo, kernel, hand, port_interruptNesting,
                 port_switch_flag, tasks>>

\* Mutant: the nesting is counted before the scheduler runs as well.
CountsAlways == TRUE

\* Before port_xSchedulerRunning there is no task whose stack could be left.
Counts == port_xSchedulerRunning

\* _frxt_int_enter: the outermost handler leaves the task's stack.
_frxt_int_enter(c, n) ==
  /\ Unmasked(c) /\ n \in pend[c] \cap xt_intenable[c] /\ Above(c, n)
  /\ pend' = [pend EXCEPT ![c] = @ \ {n}]
  /\ hand' = [hand EXCEPT ![c] = Append(@, [n |-> n, ran |-> FALSE])]
  /\ IF Counts
       THEN /\ port_interruptNesting' = [port_interruptNesting EXCEPT ![c] = @ + 1]
            /\ IF port_interruptNesting[c] = 0 THEN Saves(c)
               ELSE UNCHANGED frames
       ELSE UNCHANGED <<port_interruptNesting, frames>>
  /\ UNCHANGED <<start, mutexes, todo, kernel, port_switch_flag, pxCurrentTCBs>>

Inner(c) == hand[c][Len(hand[c])]

\* xt_ipi_yield_wrapper sets the flag; other handlers have a section if the
\* scheduler runs.
Handle(c) ==
  /\ hand[c] # <<>> /\ ~Inner(c).ran
  /\ hand' = [hand EXCEPT ![c][Len(hand[c])].ran = TRUE]
  /\ \/ /\ Inner(c).n \in Cores /\ ~Left(c)
        /\ port_switch_flag' = [port_switch_flag EXCEPT ![c] = TRUE]
        /\ UNCHANGED todo
     \/ /\ Inner(c).n \notin Cores /\ port_xSchedulerRunning
        /\ Runs(c, Enter(c))
        /\ UNCHANGED port_switch_flag
     \/ /\ Inner(c).n \notin Cores /\ ~port_xSchedulerRunning
        /\ UNCHANGED <<todo, port_switch_flag>>
  /\ UNCHANGED <<start, mutexes, kernel, pend, port_interruptNesting, tasks>>

\* Mutant: the end of any handler looks at the flag.
SwitchInside(c) == port_switch_flag[c]

\* Only the outermost handler ends in a switch.
SwitchDue(c) == port_interruptNesting[c] = 1 /\ port_switch_flag[c]

\* _frxt_int_exit
_frxt_int_exit(c) ==
  /\ hand[c] # <<>> /\ Inner(c).ran /\ Unmasked(c)
  /\ hand' = [hand EXCEPT ![c] = SubSeq(@, 1, Len(@) - 1)]
  /\ IF ~Counts
       THEN UNCHANGED <<port_interruptNesting, port_switch_flag, todo, frames>>
       ELSE /\ port_interruptNesting' = [port_interruptNesting EXCEPT ![c] = @ - 1]
            /\ IF SwitchDue(c)
                 THEN /\ port_switch_flag' = [port_switch_flag EXCEPT ![c] = FALSE]
                      /\ Runs(c, Switch)
                      /\ UNCHANGED frames
                 ELSE /\ IF port_interruptNesting[c] = 1 THEN Resumes(c)
                         ELSE UNCHANGED frames
                      /\ UNCHANGED <<port_switch_flag, todo>>
  /\ UNCHANGED <<start, mutexes, kernel, pend, pxCurrentTCBs>>

-----------------------------------------------------------------------------
\* Steps that a core makes by itself, once something has led to them.
Step(c) ==
  \/ StartScheduler(c) \/ __memmap_init(c) \/ xt_mutex_init(c)
  \/ EnableRequests(c) \/ EnableTick(c) \/ StartStep(c)
  \/ xt_mutex_lock(c) \/ xt_mutex_unlock(c) \/ Free(c)
  \/ Deeper(c) \/ Shallower(c) \/ Suspend(c) \/ Unmask(c)
  \/ Dispatch(c) \/ Select(c) \/ Restore(c)
  \/ Handle(c) \/ _frxt_int_exit(c)

Next ==
  \E c \in Cores :
    \/ Step(c)
    \/ EnterCritical(c) \/ Nest(c) \/ ExitCritical(c)
    \/ SuspendAll(c) \/ ResumeAll(c) \/ vPortYield(c)
    \/ \E d \in Cores : portYIELD_CORE(c, d)
    \/ \E n \in Devices[c] : Raise(c, n)
    \/ \E n \in Interrupts : _frxt_int_enter(c, n)

Spec == Init /\ [][Next]_vars

-----------------------------------------------------------------------------
TypeOK ==
  /\ port_xSchedulerRunning \in BOOLEAN /\ xt_smp_sync \in BOOLEAN
  /\ handlers \subseteq Interrupts /\ xt_intenable \in [Cores -> SUBSET Interrupts]
  /\ owner \in [Mutexes -> {0} \cup {Id(c) : c \in Cores}] /\ count \in [Mutexes -> Nat]
  /\ inside \in [Cores -> {"test", "take", "count", "free"}]
  /\ depth \in [Cores -> 0..MaxDepth]
  /\ suspended \subseteq Cores /\ yields \subseteq Cores
  /\ pend \in [Cores -> SUBSET Interrupts]
  /\ port_interruptNesting \in [Cores -> Nat]
  /\ port_switch_flag \in [Cores -> BOOLEAN]
  /\ pxCurrentTCBs \in [Cores -> Tasks] /\ frames \subseteq Tasks

\* A core has a mutex as often as the count says, from the store that takes it.
Holds ==
  [c \in Cores |-> [m \in Mutexes |->
     IF owner[m] # Id(c) THEN 0
     ELSE IF In(c, "lock", "count") /\ M(c) = m THEN 1 ELSE count[m]]]

Abstract == INSTANCE CoreLock WITH Locks <- Mutexes, holds <- Holds

\* xt_mutex implements the kernel's abstract lock, though the count is written
\* apart from the owner and core 0 clears both when it starts.
ImplementsCoreLock == Abstract!Spec

\* A task's context is stored when a core gives the task up, before any core can
\* choose it, and nothing is stored over it: what is restored is what was stored
\* last.
ContextsIntact ==
  \A c \in Cores :
    /\ Does(c, "restore") => pxCurrentTCBs[c] \in frames
    /\ ~Left(c) /\ hand[c] = <<>> => pxCurrentTCBs[c] \notin frames

\* No core switches tasks inside a handler or a section, or before it has
\* started; and then it holds the task mutex, also against itself when the
\* scheduler is suspended.
SwitchSafe ==
  \A c \in Cores : Does(c, "select") =>
    /\ hand[c] = <<>> /\ depth[c] = 0
    /\ \A m \in Mutexes : Holds[c][m] = IF m = TASK /\ c \in suspended THEN 2 ELSE 1

\* The stack a core is on is the interrupt stack as long as it is in a handler
\* that interrupted a task, so that the handler's return finds its frame.
NestingMatches ==
  \A c \in Cores :
    port_interruptNesting[c] =
      IF port_xSchedulerRunning THEN Len(hand[c]) ELSE 0

\* The cores start in order: core 0 is done with what they share when another
\* core comes to its assertion (port.c:453), and no core comes to its tasks
\* without having enabled the requests of all others, with their handler.
StartInOrder ==
  \A c \in Cores : (Does(c, "assert") => port_xSchedulerRunning) /\ \A d \in Cores \ {c} :
    /\ d \in xt_intenable[c] => d \in handlers
    /\ ~Left(c) => d \in xt_intenable[c]
=============================================================================
