# TLA+ models of the FreeRTOS partner-supported ports

The repository holds ports of the FreeRTOS kernel to processors that the kernel's own tree does not
support. The kernel is not in it. A port supplies what the kernel cannot write in portable C: the
first context of a task, saving and restoring contexts, yielding, the tick, critical sections and, on
several cores, the two kernel locks and the interrupt by which one core makes another switch. Little of
this can be tested: what matters is which instruction an interrupt or another core comes between. These
models cover that.

Everything is translated from the code under `src/`. Kernel functions and hardware are modelled from
how the ports use them; `PROJECT.json` marks them external.

## Inventory

| Part (directory) | State | Operations | Talks to | Hard | Correct when |
|---|---|---|---|---|---|
| RH850/U2x locks (`CCRH/U2x`, `GHS/U2x`) | bit per lock in `mev_address`, `uxLockNesting[core][lock]`, PSW.ID | `vPortRecursiveLockAcquire/Release`, `xPortSetInterruptMask`, `vPortClearInterruptMask` | kernel critical sections in tasks and handlers | cores interleave; a handler comes between two calls of its own core | implements `CoreLock`; counts and masks survive nesting; a contended lock is freed |
| RH850/U2x scheduling | `xPortScheduleStatus`, `uxInterruptNesting`, IPI flags, stacks | `xPortStartScheduler`, trap 0, `_vIrq_Handler`, `vPortIPIHander`, `vPortTickISR`, `vPortSetSwitch`, `vPortYieldCore` | locks, kernel, other cores by IPI | start and yield requests share one interrupt; nested interrupts; requests read and cleared in two steps | switch only at nesting 0 and after the first task; no context lost or run twice; requests served |
| AM64 Cortex-A53 locks (`TI/...`) | `GateWord`, `ucOwnedByCore`, `ucRecursionCountByLock` | `vPortRecursiveLock`, `GateSmp_tryLock/unlock` | kernel critical sections | one count per lock for all cores, set outside the exclusive access | implements `CoreLock`; the assertions never fail |
| AM64 Cortex-A53 scheduling | `ullPortYieldRequired`, `ullPortInterruptNesting`, `ullPortTaskHasFPUContext`, contexts, FPU registers | `xPortStartScheduler`, SVC and IRQ handlers, tick, `Signal_coreIntr`, `vPortTaskUsesFPU` | TI SDK interrupt dispatcher, other core | signals before the start; a task changes core with FPU state | as for RH850; a task keeps its FPU registers |
| AURIX TC4xx (`GCC/AURIX_TC4xx`), TC3xx (`Tasking/AURIX_TC3xx`) | FCX and PCXI lists of context save areas, `uxCriticalNesting`, ICR.CCPN, the context interrupt's request bit | `pxPortInitialiseStack`, `vPortSaveContext/LoadContext`, syscall and context handlers, `vPortEnter/ExitCritical`, `vPortReclaimCSA` | hardware, which moves areas on every call | list surgery around calls and interrupts; one nesting count for all tasks | no area lost or in two lists; own calls and own mask back; requested switches made |
| Xtensa coprocessors (`Cadence/Xtensa`) | CPENABLE, `_xt_coproc_owner_sa`, save areas with `XT_CPENABLE`, `XT_CPSTORED`, `XT_CP_CS_ST` | exception handler, `vPortYield`, `vPortYieldFromInt`, `_frxt_dispatch`, delete hook | kernel (affinity), other cores | state saved lazily, by another task, perhaps after migration or deletion | a task finds its state; owners exist |
| Xtensa start, kernel mutexes, interrupt entry, exit and dispatch | `xt_smp_sync`, `port_xSchedulerRunning`, `xt_mutex` owner and count, `port_interruptNesting`, `port_switch_flag`, frames | `xPortStartScheduler`, `__memmap_init`, `xt_mutex_lock/unlock`, `_frxt_int_enter/exit`, `_frxt_dispatch`, `vPortYield`, `portYIELD_CORE` | kernel, all cores, all handlers | start order; recursive locks with interrupts enabled; interrupts that straddle the start | implements `CoreLock`; switch outside handlers and sections only |
| Xtensa tick and tickless idle | CCOUNT, CCOMPARE, `xt_tick_cycles`, `xt_skip_tick`, `xMaxSuppressedTicks` | `xt_tick_handler`, `vPortSuppressTicksAndSleep`, `xt_update_clock_frequency` | kernel tick | arithmetic modulo 2^32; wake-up races the timer | ticks equal elapsed time; the next deadline is near; no due tick is stepped over |
| Xtensa MPU (`portmpu.c`) | the table of entries, ranges for tasks, each task's pairs of entries | `setupMPU`, `init_private_mpu_regions`, `init_task_mpu`, `_xt_mpu_restore` | task creation and switching | merging regions in any order; refusals halfway | table in order; a task has its own memory |
| Xtensa C library and iDMA (`portclib.c`, `xtensa_idma.c`) | recursive lock, break; a slot of buffers and a semaphore per task | `__malloc_lock`, `_sbrk_r`, `idma_chan_buf_set/get/clear`, `idma_thread_block/unblock` | kernel objects, heap | locks with the scheduler suspended; the done interrupt races the wait | the break is handed out once; buffers and wake-ups kept |
| Xtensa interrupt tables | handlers, INTENABLE | `xt_set_interrupt_handler`, `xt_interrupt_enable` | start sequence | a core enables what has no handler yet | handlers are there first |
| AVR Dx, Mega0 (`GCC/AVR_*`) | stacks, SREG, tick timer, RTC count and overflow count | yield, tick, critical sections, tickless sleep | kernel tick | a switch leaves the I flag and the interrupt level; 32-bit time from two reads | each task its own flag and context; tick equals elapsed time |
| C29x (`CCS/...`) | `ulCriticalNesting`, contexts | start, tick ISR, yield ISR | kernel | tick before the first context; one global count | as above |

## Modules

| Module | Models |
|---|---|
| `CoreLock` | what the SMP kernel expects of its locks: each held by one core, any number of times |
| `RH850Lock` | the RH850 spin locks and interrupt masks, one step per access to shared words; refines `CoreLock` |
| `RH850Sched` | start, wrappers, handlers and switching of the RH850 port; takes the ISR lock as `CoreLock` (`INSTANCE`) |
| `RH850Cores`, `RH850Proofs` | the state both models of the port share; theorems about both |
| `A53Lock` | the A53 spin locks, which refine `CoreLock` |
| `A53Sched` | start, handlers, switching and the FPU context of the A53 port |
| `A53Cores`, `A53Proofs` | what both models of the port share; theorems about both |
| `AurixCsa` | context save areas, critical sections and switching of both AURIX ports |
| `AurixCsaProofs` | theorems about it |
| `XtCoproc` | coprocessor ownership on Xtensa |
| `XtSmp` | start of the Xtensa cores, `xt_mutex`, handlers and dispatcher in one composition; `xt_mutex` refines `CoreLock` |
| `XtSmpProofs` | theorems about it |
| `XtTick` | the Xtensa tick, sleep and frequency change on a wrapping counter |
| `XtTickProofs` | theorems about it |
| `XtMpu` | the MPU table and its swap between tasks |
| `XtContextProofs` | theorems about `XtCoproc` and `XtMpu` |
| `XtClib` | the C library's lock and the break |
| `XtIdma` | iDMA buffers and semaphores, which `XtClib` allocates (`EXTENDS`) |
| `XtIdmaProofs` | theorems about both |
| `Avr` | context switch, critical sections and tick of both AVR ports |
| `AvrSleep` | tickless sleep on top of `Avr` (`EXTENDS`) |
| `AvrSleepProofs` | theorems about both |
| `MC...` | the sets TLC uses |

How state and actions correspond to the code:

* Variables keep the names of the C variables, indexed by core where the code indexes by core.
  `call`, `at`, `pc`, `todo`, `frame`, `hand` say where a core is in a function or which interrupt frames
  its stack has. `holds`, `wants`, `need`, `cpu`, `owed`, `set`, `woken`, `blocks`, `lag`, `given` are
  history: what callers believe or time has done, against which the code's own state is judged. `astray`,
  `torn`, `dangled`, `slipped`, `forgotten` and `unadapted` are history too: each is set by the step of the code
  that breaks a promise (see findings), and the property says what still holds then.
* Where interrupts are enabled, or another core can see the word, every access is an action. Where the
  code runs with interrupts masked on words of its own core, it is one action.
* A context is modelled by whose it is. `Live` marks the stack of a task that runs: restoring it would
  be resuming an out-of-date context. Likewise the contents of a coprocessor or of FPU registers are the
  task whose latest values they are, or junk. In `Avr` a stack is the sequence of what was pushed, since
  critical sections and switching functions push too.
* `XtCoproc` splits the contents into callee-saved registers and the rest, because a task that yields
  keeps only the former.
* `AurixCsa` has the actual linked lists: `link[a]` is the first word of area `a`, the hardware's push
  and pop are `Push` and `Pop`, `vPortSaveContext` and `vPortLoadContext` relink as the code does.
* `XtTick` measures time in parts of a tick, so that frequencies can change; cycles pass between any two
  steps of the code. `AvrSleep` counts RTC counts, scaled: `Wide` stands for 65536.
* CCRH and GHS are the same program for two compilers, and the two AVR ports differ in
  `vPortYieldFromISR` alone; the map points at either copy.

## Runs

| Run | Question | Instance and why it is enough |
|---|---|---|
| `rh850_lock` | counts, masks, refinement (hence mutual exclusion), a contended lock is freed | 2 cores, 2 locks, one interrupt level, 2 acquisitions per level: a core nests one lock, holds both, and is interrupted between any two calls while the other spins. The proofs remove the bounds for all but liveness |
| `rh850_sched` | no switch in nested interrupts or before the start; contexts intact; every core starts and a yield asked of a started core is served | 2 cores, 3 tasks, so that one waits and can move; on core 1 interrupts nest two deep, so that a request is made below another frame (one deep on core 0, to keep the liveness graph small). The proofs remove the bounds for the invariants |
| `a53_lock` | assertions, refinement, a waited-for lock is freed | 2 cores, 2 locks, depth 3. Proved for all |
| `a53_sched` | as `rh850_sched`, and FPU registers kept across cores | 2 cores, 3 tasks, 2 of them with FPU; nesting 2; interrupts and moves inside `vPortTaskUsesFPU`; signals to a core that has not started. Proved for all |
| `aurix_csa` | areas conserved, own calls and mask, requests served | a resident task and one that comes and goes, 6 areas, which is exactly what they need, so that every area is reused; critical nesting 2; handlers nest between the test and the write of the request. Proved for all but liveness |
| `xt_coproc` | state kept, ownership consistent, owners exist | builds for 1 and for 2 cores (`built` is chosen at the start), 2 tasks that contend for a coprocessor, migrate, change their affinity, are deleted by themselves and by each other, running or not, and created. With 1 core a yielding task stays the owner, with 2 it gives the coprocessor up. In the build for 1 core tasks may use a second coprocessor while both are ready. Proved for all |
| `xt_smp` | contexts, switching points, nesting counts, start order, refinement of `CoreLock` | 2 cores, 3 tasks, a tick on core 1, a device of a higher level on core 0 that interrupts `main` too, sections with the ISR mutex inside the task mutex. Proved for all |
| `xt_tick` | the count is the time passed, the next deadline is near, no due tick passed over | counter of 32 values, ticks of 5 or 10 cycles, sleeps of up to 5 ticks (longer than a wrap at one frequency, so that `xMaxSuppressedTicks` cuts them), 2 frequency changes at any cycle, in and outside sleeps, interrupts masked for up to 5 cycles, as long as the shorter tick. Proved for all that satisfy `Timing`, which the run does |
| `xt_mpu` | table in order, fixed regions kept, a task has its own memory only | 3 fixed regions, legacy stacks, a stack range and a region range in either order; stacks and regions inside, outside, across, misaligned and empty; 2 tasks. Proved for all that satisfy `Layout`, which the run does |
| `xt_libs` | the break is handed out once; buffers and wake-ups kept | 3 tasks on 2 cores, 2 slots, so that slots are freed and reused by another task, 2 channels, room for 2 blocks. Proved for all |
| `avr` | own flag and context, wake-up in time, step equals sleep | idle task and one other; preemptive with `vPortYieldFromISR`, cooperative, tickless; 2 nested sections; sleeps within one period of the counter, beyond it, and of more ticks than a `uint16_t` holds (5 and 6 ticks, which are taken as 0 and 1). Proved for all |
| `avr_torn` | the step never exceeds the sleep | violated, see findings |

Bounds are constants: `MaxLevel` and `MaxCalls` (RH850Lock), `MaxCount` (A53Lock), `MaxNest`
(schedulers), `MaxCalls`, `MaxNesting`, `Areas` (AurixCsa), `MaxDepth` (XtSmp), `MaxIdle`, `MaxChanges`,
`MaxLate`, `MaxStep`, `W` (XtTick), `heap_sentry`, `MAX_THREADS` (XtIdma), `MaxStack`, `MaxNow`, `Wide`
(Avr). Three runs follow a behaviour no further than its properties go: `xt_coproc` while `Undisturbed`, `xt_tick`
while `~unadapted`, `xt_libs` while `~Twice` (their `CONSTRAINT`s); the states that break the limit are reached and
checked, and the proofs have none. `xt_coproc` also keeps to one deleted task at a time, and to tasks that are only
preempted while the second coprocessor is in use. Symmetry is used in `xt_coproc` (tasks) and `xt_libs` (tasks of
one core, channels), with invariants only.

Deadlock is checked except in three runs. `avr` and `avr_torn` end at `MaxNow`. In `xt_libs` the program
itself may stop: `configASSERT(0)` when no slot is free, and malloc's poll with the scheduler suspended
(below).

## Findings

`avr_torn`: `ulGetExternalTime` adds `RTC_OVF_Count` to `RTC.CNT` although an overflow may be pending that
its handler has not counted, or be served between the two reads. The step given to `vTaskStepTick` is
then wrong by a whole period of the counter, upwards by weeks when the time after the sleep is the one
read too small.

The following disagreements were met as well. The first needs another constant. In the others the model lets the
code do what it does, a history variable records it, and the property has an exception for exactly that; without the
exception TLC finds the property violated by the run's own model.

| Module, exception | Property | What the code does |
|---|---|---|
| `RH850Sched`, three `Cores` | `SwitchSafe` | see below (`GHS/U2x/port.c:426`) |
| `A53Sched`, `astray` | `FPUContextKept` | `vPortTaskUsesFPU` reads the core id and sets that core's flag later; a task that is moved between sets the flag of the core it has left (`port.c:264`), and its registers are not saved |
| `XtCoproc`, `forgotten` | `StateKept` | `_xt_coproc_savecs` overwrites `XT_CP_CS_ST`, so callee-saved state of a coprocessor not used since the previous yield is lost (`xtensa_coproc_handler.S:362`) |
| `XtCoproc`, `dangled` | `StateKept` | `portTaskDeleteHook` clears the ownership entries of core 0 only (`portmacro.h:619`); the entries of other cores name memory that is freed and given to another task |
| `XtCoproc`, `torn` | `OwnersExist` | a task that another one deletes while it runs goes on until its core is interrupted, and may become owner again after the hook (`portmacro.h:607-634`) |
| `XtCoproc`, `slipped` | `StateKept`, `EnabledIsOwned` | `vPortYieldFromInt` reads an affinity that may change before the kernel takes the task off its core (`portasm.S:625`), or while the task waits |
| `XtTick`, `unadapted` | `TicksExact`, `DeadlineNear`, `NeverPastUnblock` | `update_tick_remainder` scales a deadline less than a tick ahead only (`port.c:872`). A deadline that is farther away, because `xt_update_clock_frequency` took one more than 2^31 cycles ahead for passed (`port.c:905`) or because a tick that ended during the change put it off, stays in cycles of the old frequency |
| `XtIdma`, `Twice` | `BuffersKept`, `WakeKept` | the mutex's handle is tested and created without a lock: two tasks create it and take one slot (`xtensa_idma.c:208`) |

RH850 with three cores: `xPortStartScheduler` marks and interrupts the other cores one at a time. The first of
them runs tasks at once, and a kernel call there may yield a core that the loop has not marked. That core takes
the request for an ordinary one, although the comment in `vPortIPIHander` says "1st execution starts 1st task,
TaskSwitchContext is not executed" (`GHS/U2x/port.c:552`): it saves its start-up code over its first task and
calls `vTaskSwitchContext`; later the loop marks a running core for its first task. With two cores the only one
that can be asked too early is asked by the core that runs the loop, and `SwitchSafe` holds (`SchedTwoCores`).

Without a run or a parameter:

* AURIX: `vPortSyscallHandler` compares the id with 0, not with `configYIELD_SYSCALL_ID`
  (`GCC/AURIX_TC4xx/port.c:243`; its README says it is matched).
* RH850: a `portYIELD_CORE` that comes between a core's start request and the interrupt that serves it is
  merged with the start, and no switch follows (`GHS/U2x/port.c:553`); `RequestsServed` promises a switch to
  started cores only.
* Xtensa: `_xt_coproc_init` of a core that starts later clears the ownership of all cores
  (`xtensa_context.S:372` says it is called before any thread runs); `XtSmp` has the call after core 0's
  start, `XtCoproc` starts with all cores past it.
* Xtensa tick: `xMaxSuppressedTicks` is not adapted to a new frequency (`port.c:353`). A longest sleep takes all
  of the counter's range but `(2^32 - 1) % xt_tick_cycles` cycles. If something else ends it just before its
  deadline, and that remainder is smaller than the few cycles until the code has read the counter, the counter
  has wrapped when the elapsed ticks are computed, and a whole turn of ticks is lost (`port.c:780`); TLC shows
  it with a remainder of 0. `Timing` excludes such periods.
* Xtensa MPU: the unused region (0, 0) of a restricted task is refused, though the comment at
  `portmpu.c:144-147` means to skip it; a task that was refused keeps cleared pairs, so the previous task's
  memory stays mapped while it runs; `mpu_init_done` is set before the set-up has succeeded.
* Xtensa C library: with heap_3, malloc polls its lock with the scheduler suspended (`portclib.c:203`). If
  another task has the lock the poll never ends, since that task cannot run (same core) or cannot get
  through a kernel call (another core). `_Mtxinit` turns locking off for all tasks while it allocates
  (`portclib.c:70`), and `__getreent` may use the core id of a core the task has left (`portclib.c:306`).
* iDMA: `idma_thread_unblock` calls `xSemaphoreGive` in a handler (`xtensa_idma.c:190`).
* AVR: after a switch the rest of a handler runs with the level cleared, so handlers nest on a task's stack
  without bound (`MaxStack`); Dx has no `portYIELD_FROM_ISR`.

## Fairness

* RH850Lock: weak fairness of a core's steps inside a lock function, where interrupts are masked. Strong
  fairness of the return of a handler and of a caller giving its lock back at each level, since both can
  be interrupted any number of times: kernel sections are finite. Nothing is assumed of callers that
  acquire, and none that a particular core wins a contended bit.
* A53Lock: the same for its functions; the kernel's sections end at every depth.
* RH850Sched: fairness of straight-line code at each interrupt depth (interrupt load leaves the core some
  time): strong where interrupts can come between, weak at task level and in the deepest frame, where they
  cannot. Strong fairness of obtaining the lock and of taking a pending IPI; none of ticks, application
  interrupts or yields.
* AurixCsa: a handler finishes its request (weak, nothing disables it). The core takes the context switch interrupt
  and finishes it, and a task leaves its critical sections: strong, since other handlers come between.

The other modules state safety only. That a sleep ends in time is an invariant over the modelled time
(`WakesInTime`, `DeadlineNear`), which needs no fairness.

## Proofs

The theorems hold for any sets of cores, locks and tasks and any bounds, from the assumptions that the
modules make of their constants. Most say only which set a constant is in. Beyond that:

* `A53LockAssumption` requires nesting below 255, the value the code's assertion excludes.
* `SchedAssumption`, `A53SchedAssumption` and `XtSmpAssumption`: the first tasks of cores are distinct and
  start-up code is no task; on Xtensa core ids are numbers, one of them 0, the tick is a device of its core,
  and levels are positive (0 is the level of tasks).
* `AvrSleepAssumption`: sleeps are of 2 ticks at least (`configEXPECTED_IDLE_TIME_BEFORE_SLEEP`, which the
  kernel requires to be 2 or more), and the time stays below `Wide * Wide`, where the code's 32 bits end.
* `XtClibAssumption`, `XtIdmaAssumption`: None stands for no task, buffer or channel; sizes are positive.
* `CsaAssumption`: the application has provided areas for the calls and the saved context of every task and for
  the handlers. Without them the hardware traps, which the model leaves out.

Two modules have a definition instead of an assumption, which their theorems name as a hypothesis and which TLC
evaluates of the run's constants (`MCTiming`, `MCLayout`).

* `Timing` (`XtTick`): how slow the code may be. A tick is at least five of its steps long, so that the code gets
  through a sleep's end within a tick. The time for which interrupts may be masked, and what changes of
  frequency add to it, is below half the range of the counter, so that the signed differences the handler takes
  are right, and below two ticks at any frequency; the part that the changes add, as if they all came while the
  interrupt is pending, is below one. The core starts at the frequency with the longest ticks, because
  `xMaxSuppressedTicks` is computed then and never again; a sleep of that length leaves a few cycles of the
  counter's range. All of these are about hardware and interrupt load, which the code cannot check.
* `Layout` (`XtMpu`): what the configuration asks for is well formed, and the table that is built of it is in
  order, has a pair of entries for each private range and the fixed regions where they belong. What the builder
  makes of regions in general is a fold over them, hence an induction over data that the provers cannot do; the
  theorems are about everything that follows, when tasks are given settings, refused, switched and deleted.

### Locks

The properties are not inductive. From mutual exclusion of holdings alone a step from SET1 to the count
proves nothing, because in that window a core has the bit and no count. The invariants therefore say
who *owns* a lock at each point, windows included:

* RH850: `Owns` is a positive count, or a place between SET1 and the count, or between the count and
  CLR1. `BitHasOwner` (the bit is set exactly while some core owns) and `OneOwner` give exclusion:
  SET1 succeeds only with no owner. `Counts` ties the count to the callers' holdings, one ahead
  until the return; `OneCall` says that only the running level is in a function, with interrupts masked,
  and `Masks` what it will restore; `ZeroAtBit` that the bit is touched only at count 0.
* A53: the gate and the shared count change hands at different points, so `Has` (from the exclusive
  store to the clearing of the gate) and `Counted` (from the count to the last decrement) differ.
  `GateHasOwner`, `OneOwner` and `CountHasOwner` together show that the core that gets the gate finds the
  count at 0, which is the assertion in the code. `Knows` is what a core may rely on at each point,
  `Room` keeps the count below 255.

From each invariant follow the type invariant, mutual exclusion, the code's assertions, and the refinement
of `CoreLock`: each step maps to an `Acquire` or a `Release`, or changes no holdings. The lemmas have one
step per conjunct of the invariant, the theorems one lemma per action.

### Scheduling

That contexts are intact is not inductive either: whether a core may save its task depends on what it is
in the middle of. Both proofs have the same parts.

* `Nesting`: the nesting count is the number of interrupt frames, and each frame puts back the count it
  found, so the outermost wrapper alone sees 0.
* `Masked` (RH850) or `Stages` (A53): from saving a context to restoring another, interrupts are masked and no
  frame is on the core, hence no handler comes between.
* `OneCore`: no task is current on two cores, which the kernel's choice preserves.
* `ContextsIntact` itself: what a core saves is its current task, and what it restores is nobody's `Live`.
* RH850, `Starting`: what `xPortScheduleStatus` says of a core's start. A core the loop has reached has
  STARTFIRSTTASK until it leaves for its first task, and TASKSWITCH is set on started cores only. This needs
  `NoneUnreached` (no request reaches a core before the loop does), a hypothesis of `SchedSwitchSafe` and
  `SchedContextsIntact` that three cores show to be necessary (see findings). `SchedTwoCores` proves it for two
  cores from `LoopState`: the primary core runs no task while the loop has cores left.
* A53, `FpuFollows`: once a task has called `vPortTaskUsesFPU`, the flag is set wherever the task is, on its
  core or in its context, and its values are in the registers or the context likewise. A task that was moved inside
  the call is `astray` from then on, and the flag that it sets on the core it left saves and restores the registers
  of another task needlessly, but harms nothing.

### Xtensa start, mutexes and switching

`XtSmpProofs` has one invariant for all five theorems. What a core has yet to do is a list of steps, and the
invariant is an outline of the lists: `Working`, `Switching` and `Starting` name every point that a core can be
at in a section, in the dispatcher and in the start. At each of them they say how often the core has each
mutex (`At`), how deep it is in sections, whether it is in a handler and whether its task's frame is stored.
`MutexInv` says what the two words of a mutex mean while a call is between them: `Held` counts the calls
that have returned, and `Amid` is the window in which the owner is stored and the count is still to follow.
`SwitchSafe` is then the entry for the point where `vTaskSwitchContext` is called, `ContextsIntact` those where
a frame is stored or used, and the refinement of `CoreLock` follows from `Held`, which only the last step of a
call changes. The outline is needed because a step of the list is safe only where it comes in its list: that
the ISR mutex is released once before the task mutex cannot be seen from the words of the mutexes.

### Coprocessors

The first part of `XtContextProofs` has four layers, each on top of the one below. None has a hypothesis about how
the port is used: a layer says up to which recorded event it holds.

* `LifeInv`: tasks that run and owner entries of core 0 have not been deleted, but for tasks that were `torn`. This
  holds always and gives `OwnersExist`.
* `OwnerInv`: what is enabled on a core belongs to its current task, or to nobody once that was deleted; and a
  coprocessor that a task keeps while it does not execute is its own, on the one core it may run on. It holds until
  an affinity `slipped`, whatever is freed, and gives `EnabledIsOwned`.
* `TraceInv`: every owner entry, of any core, names a task that exists, and on a port for several cores one that
  runs there with the coprocessor enabled or keeps it for when it does. It holds while `Undisturbed`: this is what a
  freed owner breaks.
* `StateInv`: the state is in the core whose coprocessor the task owns, and otherwise in the save area, whole or
  callee-saved as the flags in `XT_CPSTORED` and `XT_CP_CS_ST` say, unless it was `forgotten`. It gives `StateKept`.

### C library and iDMA

In `XtIdmaProofs` what a task has yet to do, again a list of steps, says what the task holds. A plan is one of
seven whole calls without its first steps (`Wholes`, `Rest`); the lemmas about plans say in which order steps
are left, and the two layers say what that means.

* `LockInv`: the owner of the recursive mutex, and nobody else, is between a take and its unlock, and its
  count is the depth of its plan (`Locked`). So the break that a task has read is still the heap's when the
  task advances it, and the blocks tile the heap below the break (`Tiled`), which is `BlocksApart`.
* `IdmaInv`: the mutex exists once and belongs to the task between taking and giving it (`MutexInv`); a task
  that has set buffers has one slot, with these buffers (`SlotInv`); what a search has found stays true until
  the slot is filled, and no semaphore is missing or about to be created for a task whose transfer has ended
  (`CallInv`). `BuffersKept` alone is not inductive: two tasks that have each found the same free slot satisfy
  it. Two first calls that overlap are no exception as long as one of them creates the mutex; the layer holds until a
  second one is created (`Twice`).

### AVR

`AvrSleepProofs` has no hypotheses.

* `StackInv`: the shape of every stack. Status registers of critical sections are lowest, the lowest of them
  with the flag that the task had; return addresses above; registers on top of the stack of a task that
  does not run, where its TCB says (`Shape`, `Place`). What a task's flag will be is thus written on its stack,
  and `InterruptsFollowTask` and `ContextsIntact` are read off.
* `TimeInv`: where the idle task is in its sleep, if only underneath handlers (`Sleeping`), and at each of these
  places what the two halves of the time that was read say of the time then and now. The scheduler is
  suspended, so that handlers alone come between (`SleepAlone`). It bounds the step by `PerTick`, unless a read
  was torn. `WakeSet` says that a count matches before the kernel needs to run: the wake-up time itself, or, when the
  ticks were too many for a `uint16_t`, any count of the next period (`InTime`, `LongWait`).

### Context save areas

`AurixCsaProofs` gives every area an owner, the list it is in, and a rank, its height above the end of that
list. That these two functions exist and fit the links (`Layout`) is the part of the invariant that survives
list surgery: a push or pop moves one area (`MovedOwn`, `MovedRank`), a switch puts another task's list under
the contexts of the handlers (`SwapOwn`, `SwapRank`), reclaiming joins one to another (`JoinedOwn`,
`JoinedRank`), and none needs a walk along a list. The walks that the properties speak of are read off at the
end: the k-th area of a list has its length minus k as rank (`DownWalk`, `EveryRank`), so each list ends, and no
area is in two.

* `Lengths`: a list is as long as the calls of its task and the contexts that are on top of them, which is `OwnCalls`.
* `Returns`: the context to which a task returns, next above its calls, has the mask of the task's own section.
* `Held`: the areas that the code has in variables of its own, to fill a new task's or to join a deleted task's to
  the free list, are where it believes them to be.
* `Counts`: the nesting count is that of the running task, and interrupts are masked accordingly, also in the two
  windows between the mask and the count; this is `MaskFollowsTask`.
* `Lives`: which tasks have a context, which one runs and which one is to be cleaned up.

That the free list is not empty when an area is taken comes from counting: the lengths of the other lists are
bounded by the terms of `CsaAssumption`.

### Xtensa tick

`Exact` says of every point in the code that there is an `age`, the cycles since the last tick that was counted,
such that the deadline is `period - age` cycles ahead, further by the ticks to skip (`InTask`, `Suspended`,
`Asleep`, `MovingBack`, `InHandler`), and that says how late the code may be at this point. The time passed less
the ticks counted is then `age` in fractions of a tick, which gives `TicksExact`; `DeadlineNear` and
`NeverPastUnblock` are read off likewise. The properties hold of points outside the code only, and say nothing of
the skipped ticks or of how late an interrupt was, so they are far from inductive.

A change of frequency makes cycles of two lengths. While the port knows a frequency that the core has left,
`Changed` says how many cycles of each there were (`age`, `e`), and `Scaled` where the deadline has gone when it
has been adapted. Each change may be off by the two fast ticks of `TicksExact` (`Within`), and each that comes
while an interrupt is pending delays it by a step (`Delay`).

All of this is modulo the counter's range. `Counter`, `CounterAdds`, `Division` and `Remainder` take the wrapped
differences of the code to distances between -2^31 and 2^31; `Scale` and `Drift` bound the quotient of products
that the port scales the rest of a tick with. A change may come at any cycle. All of this holds until one leaves a
deadline of a tick or more as it was (`unadapted`): `Exact` says of a change that has begun where the deadline is and
whether it will, so that the step that records it is the one that ends the invariant.

### MPU

The second part of `XtContextProofs` follows the table after it is set up. `Narrowed`: a swap leaves each pair of
entries within its private range, in order, and every other entry as built, which gives `TableInOrder` and, with
`Layout`, `FixedKept`. `TaskHas`: the pairs kept for a task are cleared, or exactly those of the settings that it
was granted; `TableHas`: so are those in the table, for the task that runs. `OwnMemoryOnly` follows by comparing
rights address by address (`PairGives`, `GivesTo`). A search in the table for an address has one result, by
`Searchable`.

### Only model-checked

* Liveness (`ContendedLockIsFreed`, `WaitedLockIsFreed`, `RequestsServed`, `RequestServed`), which like ENABLED is
  out of the prover's reach.
* How the MPU table is built of the regions (`Layout`, above): TLC evaluates it for the run's configurations.
* The type invariants of `AurixCsa`, `XtTick` and `XtMpu` as they are stated there (`TypeOK`, `MpuTypeOK`); TLC
  checked them with the same instances. The inductive invariants contain the types that they need.

## Not modelled

* C29x: a single-core port of the same shape as the AVR and AURIX ones; its hazards are listed.
* Register-level code: frames, window spills, vectors, exception tables, `xtensa_intr_wrapper.c` and XEA3;
  timer and interrupt controller set-up; hooks for stack overflow and memory; debug and trace headers;
  build files. FPSR and FPCR on A53.
* In `RH850Sched` a yield raised again inside `vTaskSwitchContext` (one step of the model), in `AurixCsa`
  depletion of areas, which traps and never returns, in `XtSmp` `vPortEndScheduler` (with another core in a
  handler the nesting count of that core is unbalanced, `portasm.S:185-188`).
* In `XtIdma` tasks that change core (the code asserts they do not) and builds with static allocation,
  whose semaphores take no memory.
* Memory is sequentially consistent: the barriers in the code are taken to do what they are for.

Hardware is taken as follows for AVR: CPUINT does not clear the I flag but raises the level until RETI, the
processor executes one instruction after RETI, and handlers are entered within one RTC count of their
interrupt when nothing holds them back. RTC.CMP is busy for less than a tick after a write (it is two or three
counts).

For A53, the SDK's handler of the inter-core signal is outside the repository. It asks for a switch; on a core that
has not started its first task it is assumed not to. For AURIX, interrupts of handlers that ask for a switch have a
higher priority than the context switch interrupt, which is configured as the lowest.

## Plan

1. C29x start, nesting and yield interrupt.
2. `_Mtxinit` and `__getreent` of the xclib build; the XEA3 dispatcher.
