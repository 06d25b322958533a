-------------------------------- MODULE Avr --------------------------------
(***************************************************************************)
(* Context switching and the tick interrupt of the AVR Mega0 and AVR Dx     *)
(* ports: GCC/AVR_Mega0/{port.c,portmacro.h} and GCC/AVR_AVRDx/.  The two   *)
(* are the same but for vPortYieldFromISR, which only Mega0 has.            *)
(*                                                                         *)
(* A stack is the sequence of what was pushed on it, the top last: the      *)
(* status register of a critical section, a return address (of a call or    *)
(* of an interrupt), or the registers portSAVE_CONTEXT stores.  pc is the   *)
(* code that runs: "task" is the code of the current task, "Ret" and "Reti" *)
(* the instruction that ends a function or a handler, "Yield", "FromTick"   *)
(* and "FromISR" the three switching functions after their save.            *)
(*                                                                         *)
(* The processor is external: it clears nothing in the status register on   *)
(* an interrupt, but raises the level bit of CPUINT, which holds further    *)
(* interrupts back until a RETI.  The kernel is external too: the choice    *)
(* of vTaskSwitchContext is any task.                                       *)
(***************************************************************************)
EXTENDS Naturals, Sequences, FiniteSets

CONSTANTS Tasks,     \* the tasks, the idle task among them
          Builds,    \* configurations: [preemption, yieldFromISR, tickless],
                     \* and nest, a bound: the critical sections of one task
          MaxStack   \* bound: interrupts are taken below this stack height

ASSUME AvrAssumption ==
  /\ Tasks # {}
  /\ Builds \subseteq [preemption : BOOLEAN, yieldFromISR : BOOLEAN,
                       tickless : BOOLEAN, nest : Nat]
  /\ MaxStack \in Nat

VARIABLES build,         \* the configuration, fixed
          pc,            \* the code that runs
          pxCurrentTCB,
          stack,         \* stack[t]: what is on the stack of t
          topOfStack,    \* topOfStack[t]: the stack pointer in t's TCB
          iflag,         \* bit I of SREG
          level,         \* bit LVL0EX of CPUINT.STATUS
          tickFlag,      \* INT_FLAGS & INT_MASK
          suspended,     \* kernel: the scheduler is suspended
          pended,        \* kernel: xPendedTicks # 0
          yieldPending   \* kernel: xYieldPending

cpu == <<pc, pxCurrentTCB, stack, topOfStack, iflag, level>>
kernel == <<suspended, pended, yieldPending>>
avrVars == <<build, cpu, tickFlag, kernel>>
-----------------------------------------------------------------------------
Sreg(i) == [kind |-> "sreg", to |-> "none", i |-> i]
Ret(l) == [kind |-> "ret", to |-> l, i |-> FALSE]
Registers(i) == [kind |-> "registers", to |-> "none", i |-> i]

\* Where the stack of t has frames of kind k.
Frames(t, k) == {n \in 1 .. Len(stack[t]) : stack[t][n].kind = k}

Mine == stack[pxCurrentTCB]
Top == Mine[Len(Mine)]
SetMine(s) == stack' = [stack EXCEPT ![pxCurrentTCB] = s]
Drop(s) == SubSeq(s, 1, Len(s) - 1)

\* pxPortInitialiseStack: the entry point, then registers with I set.
pxPortInitialiseStack == <<Ret("task"), Registers(TRUE)>>

Init ==
  /\ build \in Builds
  /\ pc = "Start"
  /\ pxCurrentTCB \in Tasks
  /\ stack = [t \in Tasks |-> pxPortInitialiseStack]
  /\ topOfStack = [t \in Tasks |-> Len(pxPortInitialiseStack)]
  /\ iflag = FALSE /\ level = FALSE
  /\ tickFlag = FALSE
  /\ suspended = FALSE /\ pended = FALSE /\ yieldPending = FALSE
-----------------------------------------------------------------------------
\* Mutant: the flags are read after CLI.
SaveAfterCli(below) ==
  LET s == Mine \o below \o <<Registers(FALSE)>>
  IN  /\ SetMine(s)
      /\ topOfStack' = [topOfStack EXCEPT ![pxCurrentTCB] = Len(s)]
      /\ iflag' = FALSE

\* Mutant: interrupts are left as they were.
SaveEnabled(below) ==
  LET s == Mine \o below \o <<Registers(iflag)>>
  IN  /\ SetMine(s)
      /\ topOfStack' = [topOfStack EXCEPT ![pxCurrentTCB] = Len(s)]
      /\ UNCHANGED iflag

\* portSAVE_CONTEXT, after the pushes of `below`: the registers with the I
\* flag as it was, interrupts disabled, the stack pointer into the TCB.
portSAVE_CONTEXT(below) ==
  LET s == Mine \o below \o <<Registers(iflag)>>
  IN  /\ SetMine(s)
      /\ topOfStack' = [topOfStack EXCEPT ![pxCurrentTCB] = Len(s)]
      /\ iflag' = FALSE

\* portRESTORE_CONTEXT of task t: the stack pointer from its TCB, then its
\* registers and its I flag.
portRESTORE_CONTEXT(t) ==
  LET s == SubSeq(stack[t], 1, topOfStack[t])
  IN  /\ stack' = [stack EXCEPT ![t] = Drop(s)]
      /\ iflag' = s[Len(s)].i
      /\ UNCHANGED topOfStack

\* vTaskSwitchContext: any task, or none when the scheduler is suspended.
vTaskSwitchContext(t) ==
  /\ t \in (IF suspended THEN {pxCurrentTCB} ELSE Tasks)
  /\ pxCurrentTCB' = t
  /\ yieldPending' = suspended

\* xTaskIncrementTick: pends the tick when the scheduler is suspended, else
\* may ask for a switch.
xTaskIncrementTick(switch) ==
  /\ pended' = (pended \/ suspended)
  /\ suspended => ~switch
  /\ UNCHANGED suspended

\* A pop of a return address by RET, and by RETI, which lowers the level.
Return ==
  /\ pc' = Top.to
  /\ SetMine(Drop(Mine))
  /\ UNCHANGED <<build, pxCurrentTCB, topOfStack, iflag, tickFlag, kernel>>
-----------------------------------------------------------------------------
xPortStartScheduler ==
  /\ pc = "Start"
  /\ portRESTORE_CONTEXT(pxCurrentTCB)
  /\ pc' = "Ret"
  /\ UNCHANGED <<build, pxCurrentTCB, level, tickFlag, kernel>>

portENTER_CRITICAL ==
  /\ pc = "task"
  /\ Cardinality(Frames(pxCurrentTCB, "sreg")) < build.nest
  /\ SetMine(Append(Mine, Sreg(iflag)))
  /\ iflag' = FALSE
  /\ UNCHANGED <<build, pc, pxCurrentTCB, topOfStack, level, tickFlag, kernel>>

portEXIT_CRITICAL ==
  /\ pc = "task"
  /\ Frames(pxCurrentTCB, "sreg") # {}
  /\ iflag' = Top.i
  /\ SetMine(Drop(Mine))
  /\ UNCHANGED <<build, pc, pxCurrentTCB, topOfStack, level, tickFlag, kernel>>

\* portYIELD(), in a critical section or outside: vPortYield up to the call
\* of vTaskSwitchContext, then the rest.
vPortYield ==
  /\ pc = "task"
  /\ portSAVE_CONTEXT(<<Ret("task")>>)
  /\ pc' = "Yield"
  /\ UNCHANGED <<build, pxCurrentTCB, level, tickFlag, kernel>>

vPortYieldSwitch ==
  /\ pc = "Yield"
  /\ \E t \in Tasks : vTaskSwitchContext(t) /\ portRESTORE_CONTEXT(t)
  /\ pc' = "Ret"
  /\ UNCHANGED <<build, level, tickFlag, suspended, pended>>

\* The RET of vPortYield and of xPortStartScheduler.
FunctionEnds == pc = "Ret" /\ Return /\ UNCHANGED level

\* The RETI of the handlers, of vPortYieldFromTick and vPortYieldFromISR.
HandlerEnds == pc = "Reti" /\ Return /\ level' = FALSE
-----------------------------------------------------------------------------
\* Where an interrupt returns to: behind SLEEP, if that is where it came.
Resumes(l) == CASE l = "Asleep" -> "Woke"
                [] l = "PoweredDown" -> "PowerUp"
                [] OTHER -> l

\* The processor takes an interrupt and enters handler h.
Interrupt(h) ==
  /\ iflag /\ ~level
  /\ Len(Mine) < MaxStack
  /\ SetMine(Append(Mine, Ret(Resumes(pc))))
  /\ level' = TRUE
  /\ pc' = h
  /\ UNCHANGED <<build, pxCurrentTCB, topOfStack, iflag, tickFlag, kernel>>

TakeTick == tickFlag /\ Interrupt("Tick")
\* An application interrupt comes at any time.
TakeApp == Interrupt("App")

\* ISR(TICK_INT_vect) of the preemptive kernel: clears the flag and calls
\* vPortYieldFromTick, which saves the context; a RETI follows the call.
TickPreemptive ==
  /\ pc = "Tick" /\ build.preemption
  /\ tickFlag' = FALSE
  /\ portSAVE_CONTEXT(<<Ret("Reti")>>)
  /\ pc' = "FromTick"
  /\ UNCHANGED <<build, pxCurrentTCB, level, kernel>>

vPortYieldFromTick ==
  /\ pc = "FromTick"
  /\ \E t \in Tasks, switch \in BOOLEAN :
       /\ xTaskIncrementTick(switch)
       /\ IF switch THEN vTaskSwitchContext(t)
          ELSE t = pxCurrentTCB /\ UNCHANGED <<pxCurrentTCB, yieldPending>>
       /\ portRESTORE_CONTEXT(t)
  /\ pc' = "Reti"
  /\ UNCHANGED <<build, level, tickFlag>>

\* ISR(TICK_INT_vect) of the cooperative kernel: counts the tick.
TickCooperative ==
  /\ pc = "Tick" /\ ~build.preemption
  /\ tickFlag' = FALSE
  /\ \E switch \in BOOLEAN : xTaskIncrementTick(switch)
  /\ pc' = "Reti"
  /\ UNCHANGED <<build, pxCurrentTCB, stack, topOfStack, iflag, level,
                 yieldPending>>

\* Its handler may end with portYIELD_FROM_ISR(), which Mega0 defines as
\* vPortYieldFromISR().
AppReturns ==
  /\ pc = "App"
  /\ pc' = "Reti"
  /\ UNCHANGED <<build, pxCurrentTCB, stack, topOfStack, iflag, level, tickFlag,
                 kernel>>

AppYields ==
  /\ pc = "App" /\ build.yieldFromISR
  /\ portSAVE_CONTEXT(<<Ret("Reti")>>)
  /\ pc' = "FromISR"
  /\ UNCHANGED <<build, pxCurrentTCB, level, tickFlag, kernel>>

vPortYieldFromISR ==
  /\ pc = "FromISR"
  /\ \E t \in Tasks : vTaskSwitchContext(t) /\ portRESTORE_CONTEXT(t)
  /\ pc' = "Reti"
  /\ UNCHANGED <<build, level, tickFlag, suspended, pended>>

\* External: the tick timer comes round.  With tickless idle it is counted, in
\* AvrSleep.
TickComes ==
  /\ ~build.tickless /\ pc # "Start"
  /\ tickFlag' = TRUE
  /\ UNCHANGED <<build, cpu, kernel>>

\* Every step but the start of the scheduler, which also starts the timers.
Switching ==
  \/ portENTER_CRITICAL \/ portEXIT_CRITICAL
  \/ vPortYield \/ vPortYieldSwitch \/ FunctionEnds \/ HandlerEnds
  \/ TakeTick \/ TakeApp \/ TickPreemptive \/ TickCooperative
  \/ vPortYieldFromTick \/ AppReturns \/ AppYields
  \/ vPortYieldFromISR \/ TickComes
-----------------------------------------------------------------------------
Codes == {"Start", "task", "Ret", "Reti", "Yield", "FromTick", "FromISR",
          "Tick", "App"}

AvrTypeOK(codes) ==
  /\ build \in Builds
  /\ pc \in codes
  /\ pxCurrentTCB \in Tasks
  /\ \A t \in Tasks :
       \A n \in 1 .. Len(stack[t]) :
         stack[t][n] \in [kind : {"sreg", "ret", "registers"},
                          to : codes \cup {"none"}, i : BOOLEAN]
  /\ topOfStack \in [Tasks -> 1 .. MaxStack + 3]
  /\ {iflag, level, tickFlag, suspended, pended, yieldPending}
       \subseteq BOOLEAN

\* The code of a task finds interrupts as the task left them, whichever task
\* and whichever of the three switching functions ran in between: enabled
\* unless it is in a critical section, and never held back by the level of a
\* handler that was left by a switch (AVR_Mega0/port.c:147-193,
\* AVR_Mega0/portmacro.h:74-81).
InterruptsFollowTask ==
  pc = "task" => /\ iflag = (Frames(pxCurrentTCB, "sreg") = {})
                 /\ ~level

\* The stack of a task that does not run ends with its registers, where its
\* TCB says (AVR_Mega0/portmacro.h:195-201), and no stack ever holds the
\* registers twice: AVR_Mega0/portmacro.h:145-148 says the flags are saved and
\* interrupts disabled first for that reason.
ContextsIntact ==
  \A t \in Tasks :
    /\ \A m, n \in Frames(t, "registers") : m = n
    /\ t # pxCurrentTCB =>
         /\ Len(stack[t]) = topOfStack[t]
         /\ stack[t][topOfStack[t]].kind = "registers"
=============================================================================
