------------------------------ MODULE AvrSleep ------------------------------
(***************************************************************************)
(* Tickless idle of the AVR Dx and Mega0 ports, on top of the context       *)
(* switch and the tick of module Avr: GCC/AVR_AVRDx/port.c                  *)
(* (vPortSuppressTicksAndSleep, ulGetExternalTime, vSetWakeTimeInterrupt,   *)
(* the RTC handler) and porthardware.h (the two timers).                    *)
(*                                                                         *)
(* Time is counted in RTC counts.  RTC.CNT is time modulo Wide, the 16-bit  *)
(* period of the counter scaled down; RTC_OVF_Count is the software's upper *)
(* part.  The tick timer runs PerTick counts to a tick.  `now` stops at     *)
(* MaxNow, a bound of the model below the range of the 32-bit time.         *)
(***************************************************************************)
EXTENDS Avr

CONSTANTS Idle,      \* the idle task, which sleeps
          Wide,      \* values of 16 bits: a period of RTC.CNT, and a uint16_t (65536)
          PerTick,   \* counts of one tick
          Expected,  \* values of xExpectedIdleTime, in ticks, of which the kernel
                     \* demands two (configEXPECTED_IDLE_TIME_BEFORE_SLEEP)
          MaxNow     \* bound: the counts in a behaviour

ASSUME AvrSleepAssumption ==
  /\ Idle \in Tasks
  /\ Wide \in Nat \ {0} /\ PerTick \in Nat \ {0} /\ MaxNow \in Nat
  /\ Expected \subseteq Nat \ {0, 1}
  /\ MaxNow < Wide * Wide

VARIABLES now,            \* the time, in counts since RTC_INIT
          tick,           \* the tick timer: [on, cnt]
          RTC,            \* [CMP, ovf, cmp, cmpInt]: flags and compare enable
          RTC_OVF_Count,
          sleep           \* locals of vPortSuppressTicksAndSleep, and when:
                          \* [idle, low, lowAt, before, stopAt, wakeBy, step, torn]

sleepVars == <<now, tick, RTC, RTC_OVF_Count, sleep>>
vars == <<avrVars, sleepVars>>
-----------------------------------------------------------------------------
\* 32-bit arithmetic, scaled: the upper half counts Wide periods.
Range32 == Wide * Wide
CNT == now % Wide

\* The conversions truncate, towards zero; the first subtracts 0.5 before.
RTC_TICKS_TO_COUNTS(n) == IF n = 0 THEN 0 ELSE n * PerTick - 1
RTC_COUNTS_TO_TICKS(c) == c \div PerTick

NoSleep == [idle |-> 0, low |-> 0, lowAt |-> 0, before |-> 0,
            stopAt |-> 0, wakeBy |-> 0, step |-> 0, torn |-> FALSE]

SleepInit ==
  /\ Init
  /\ now = 0
  /\ tick = [on |-> FALSE, cnt |-> 0]
  /\ RTC = [CMP |-> 0, ovf |-> FALSE, cmp |-> FALSE, cmpInt |-> FALSE]
  /\ RTC_OVF_Count = 0
  /\ sleep = NoSleep

\* The places in vPortSuppressTicksAndSleep.
SleepCodes == {"BeforeLow", "BeforeHigh", "Stop", "Disable", "Confirm",
               "AbortEnable", "SetCompare", "Sleep", "Asleep", "Woke", "PoweredDown", "PowerUp",
               "PowerEnable", "AfterLow", "AfterHigh", "Enable", "Restart", "ResumeAll"}

\* Where a count can pass: in tasks, in handlers of any length and all along
\* the sleep function, while the instructions that save, switch and restore
\* take less than one.  The RTC stands still in power-down.
TimeRuns == pc \in ({"task", "App", "Rtc"} \cup SleepCodes) \ {"PoweredDown"}

\* An interrupt whose source is enabled.
Pending == tickFlag \/ RTC.ovf \/ (RTC.cmp /\ RTC.cmpInt)

\* External: one count passes.  A handler that may run is entered before the
\* next count, and one that may not is not held back for a whole tick or a
\* whole RTC period.  RTC.STATUS shows CMPBUSY for a few counts, less than a
\* tick.
Count ==
  LET next == (now + 1) % Wide
      wraps == tick.on /\ tick.cnt = PerTick - 1
  IN  /\ build.tickless /\ TimeRuns /\ now < MaxNow
      /\ ~(Pending /\ iflag /\ ~level)
      /\ ~(RTC.ovf /\ next = 0) /\ ~(tickFlag /\ wraps)
      /\ pc = "SetCompare" => now + 1 < sleep.lowAt + PerTick
      /\ now' = now + 1
      /\ RTC' = [RTC EXCEPT !.ovf = @ \/ next = 0,
                            !.cmp = @ \/ next = RTC.CMP]
      /\ tick' = IF tick.on THEN [tick EXCEPT !.cnt = (@ + 1) % PerTick]
                 ELSE tick
      /\ tickFlag' = (tickFlag \/ wraps)
      /\ UNCHANGED <<build, cpu, kernel, RTC_OVF_Count, sleep>>
-----------------------------------------------------------------------------
\* TICK_TMR_START clears the flag of the tick and enables the timer.
TICK_TMR_STOP == tick' = [tick EXCEPT !.on = FALSE]
TICK_TMR_START == /\ tick' = [tick EXCEPT !.on = TRUE]
                  /\ tickFlag' = FALSE

\* RTC_INIT clears CNT and the flags and enables both interrupts.
RTC_INIT == RTC' = [CMP |-> Wide \div 4, ovf |-> FALSE, cmp |-> FALSE, cmpInt |-> TRUE]
TICK_init == tick' = [tick EXCEPT !.on = TRUE]

prvSetupTimerInterrupt ==
  /\ IF build.tickless THEN RTC_INIT ELSE UNCHANGED RTC
  /\ TICK_init

Start ==
  /\ prvSetupTimerInterrupt
  /\ xPortStartScheduler
  /\ UNCHANGED <<now, RTC_OVF_Count, sleep>>

\* ISR(RTC_CNT_vect): counts an overflow; a compare match disables its own
\* interrupt.
TakeRtc ==
  /\ RTC.ovf \/ (RTC.cmp /\ RTC.cmpInt)
  /\ Interrupt("Rtc")
  /\ UNCHANGED sleepVars

Overflow == IF RTC.ovf THEN (RTC_OVF_Count + Wide) % Range32 ELSE RTC_OVF_Count

RTC_CNT_vect ==
  /\ pc = "Rtc"
  /\ RTC_OVF_Count' = Overflow
  /\ RTC' = [RTC EXCEPT !.ovf = FALSE, !.cmp = FALSE,
                        !.cmpInt = @ /\ ~RTC.cmp]
  /\ pc' = "Reti"
  /\ UNCHANGED <<build, pxCurrentTCB, stack, topOfStack, iflag, level, tickFlag,
                 kernel, now, tick, sleep>>
-----------------------------------------------------------------------------
\* A step of vPortSuppressTicksAndSleep from one place in it to the next.
Goes(l, m) == pc = l /\ pc' = m
CpuKept == UNCHANGED <<build, pxCurrentTCB, stack, topOfStack, level>>

\* The idle task suspends the scheduler and asks for a sleep.
SuspendAll ==
  /\ Goes("task", "BeforeLow")
  /\ build.tickless /\ pxCurrentTCB = Idle /\ iflag
  /\ suspended' = TRUE
  /\ \E n \in Expected : sleep' = [NoSleep EXCEPT !.idle = n]
  /\ CpuKept /\ UNCHANGED <<iflag, tickFlag, pended, yieldPending, now, tick, RTC,
                            RTC_OVF_Count>>

\* ulGetExternalTime reads RTC.CNT and then adds RTC_OVF_Count.
ReadLow(l, m) ==
  /\ Goes(l, m)
  /\ sleep' = [sleep EXCEPT !.low = CNT, !.lowAt = now, !.wakeBy = 0]
  /\ CpuKept /\ UNCHANGED <<iflag, tickFlag, kernel, now, tick, RTC, RTC_OVF_Count>>

\* Mutant: the overflows are forgotten.
LowOnly == sleep.low

ulGetExternalTime == (sleep.low + RTC_OVF_Count) % Range32

\* The two parts of that sum belong to different periods of RTC.CNT.
Torn == RTC_OVF_Count # Wide * (sleep.lowAt \div Wide)

TimeBefore ==
  /\ Goes("BeforeHigh", "Stop")
  /\ sleep' = [sleep EXCEPT !.before = ulGetExternalTime, !.torn = Torn,
                            !.low = 0, !.lowAt = 0]
  /\ CpuKept /\ UNCHANGED <<iflag, tickFlag, kernel, now, tick, RTC, RTC_OVF_Count>>

StopTick ==
  /\ Goes("Stop", "Disable")
  /\ TICK_TMR_STOP
  /\ sleep' = [sleep EXCEPT !.stopAt = now]
  /\ CpuKept /\ UNCHANGED <<iflag, tickFlag, kernel, now, RTC, RTC_OVF_Count>>

\* cli at the end of portSET_MODE_AND_SLEEP, and after TICK_TMR_STOP: there the
\* processor, which runs at most one instruction with an interrupt pending,
\* has taken a tick that came before the timer stopped.
Disable(l, m) ==
  /\ Goes(l, m)
  /\ iflag' = FALSE
  /\ CpuKept /\ UNCHANGED <<tickFlag, kernel, sleepVars>>

\* eTaskConfirmSleepModeStatus: aborts at least when a tick or a yield pends.
Abort ==
  /\ Goes("Confirm", "AbortEnable")
  /\ TICK_TMR_START
  /\ sleep' = NoSleep
  /\ CpuKept /\ UNCHANGED <<iflag, kernel, now, RTC, RTC_OVF_Count>>

MaySleep == ~pended /\ ~yieldPending

\* vSetWakeTimeInterrupt takes the ticks as a uint16_t, and reads the counter ...
Wakeup == (CNT + RTC_TICKS_TO_COUNTS(sleep.idle % Wide)) % Wide

\* When the kernel next needs to run.
NextRun == now + sleep.idle * PerTick

ReadWakeTime ==
  /\ Goes("Confirm", "SetCompare")
  /\ MaySleep
  /\ sleep' = [sleep EXCEPT !.low = Wakeup, !.lowAt = now, !.wakeBy = NextRun, !.idle = 0]
  /\ CpuKept /\ UNCHANGED <<iflag, tickFlag, kernel, now, tick, RTC, RTC_OVF_Count>>

\* Mutant: the compare interrupt is not enabled.
NoCompare ==
  /\ Goes("SetCompare", "Sleep")
  /\ RTC' = [RTC EXCEPT !.CMP = sleep.low]
  /\ sleep' = [sleep EXCEPT !.low = 0, !.lowAt = 0]
  /\ CpuKept /\ UNCHANGED <<iflag, tickFlag, kernel, now, tick, RTC_OVF_Count>>

\* ... and writes the low part of the wake-up time once CMPBUSY is clear.
SetCompare ==
  /\ Goes("SetCompare", "Sleep")
  /\ RTC' = [RTC EXCEPT !.CMP = sleep.low, !.cmpInt = TRUE]
  /\ sleep' = [sleep EXCEPT !.low = 0, !.lowAt = 0]
  /\ CpuKept /\ UNCHANGED <<iflag, tickFlag, kernel, now, tick, RTC_OVF_Count>>

vSetWakeTimeInterrupt == ReadWakeTime \/ SetCompare

\* portSET_MODE_AND_SLEEP: no interrupt is taken between SEI and SLEEP.
portSET_MODE_AND_SLEEP(l, m) ==
  /\ Goes(l, m)
  /\ iflag' = TRUE
  /\ CpuKept /\ UNCHANGED <<tickFlag, kernel, sleepVars>>

\* eNoTasksWaitingTimeout: deep sleep, without a wake-up time.
PowerDown ==
  MaySleep /\ portSET_MODE_AND_SLEEP("Confirm", "PoweredDown")

\* The second read, and vTaskStepTick by the difference.
StepTick ==
  /\ Goes("AfterHigh", "Enable")
  /\ sleep' = [sleep EXCEPT
       !.step = RTC_COUNTS_TO_TICKS(
                  (ulGetExternalTime + Range32 - sleep.before) % Range32),
       !.torn = @ \/ Torn, !.low = 0, !.before = 0]
  /\ CpuKept /\ UNCHANGED <<iflag, tickFlag, kernel, now, tick, RTC, RTC_OVF_Count>>

Enable(l, m) ==
  /\ Goes(l, m)
  /\ iflag' = TRUE
  /\ CpuKept /\ UNCHANGED <<tickFlag, kernel, sleepVars>>

StartTick ==
  /\ Goes("Restart", "ResumeAll")
  /\ TICK_TMR_START
  /\ sleep' = NoSleep
  /\ CpuKept /\ UNCHANGED <<iflag, kernel, now, RTC, RTC_OVF_Count>>

\* xTaskResumeAll counts the pended ticks.
ResumeAll ==
  /\ Goes("ResumeAll", "task")
  /\ suspended' = FALSE /\ pended' = FALSE /\ yieldPending' = FALSE
  /\ CpuKept /\ UNCHANGED <<iflag, tickFlag, sleepVars>>

vPortSuppressTicksAndSleep ==
  \/ SuspendAll
  \/ ReadLow("BeforeLow", "BeforeHigh") \/ TimeBefore
  \/ StopTick
  \/ ~tickFlag /\ Disable("Disable", "Confirm")
  \/ Abort \/ Enable("AbortEnable", "ResumeAll")
  \/ PowerDown \/ Disable("PowerUp", "PowerEnable")
  \/ vSetWakeTimeInterrupt \/ portSET_MODE_AND_SLEEP("Sleep", "Asleep")
  \/ Disable("Woke", "AfterLow")
  \/ ReadLow("AfterLow", "AfterHigh") \/ StepTick
  \/ Enable("PowerEnable", "Restart") \/ Enable("Enable", "Restart")
  \/ StartTick \/ ResumeAll

Next ==
  \/ Start
  \/ (Switching /\ UNCHANGED sleepVars)
  \/ TakeRtc \/ RTC_CNT_vect \/ Count
  \/ vPortSuppressTicksAndSleep

Spec == SleepInit /\ [][Next]_vars
-----------------------------------------------------------------------------
TypeOK ==
  /\ AvrTypeOK(Codes \cup SleepCodes \cup {"Rtc"})
  /\ now \in 0 .. MaxNow
  /\ tick \in [on : BOOLEAN, cnt : 0 .. PerTick - 1]
  /\ RTC \in [CMP : 0 .. Wide - 1, ovf : BOOLEAN, cmp : BOOLEAN, cmpInt : BOOLEAN]
  /\ RTC_OVF_Count \in 0 .. Range32 - 1
  /\ sleep.low \in 0 .. Wide - 1 /\ sleep.before \in 0 .. Range32 - 1

\* The processor is asleep, with no interrupt to wake it, only before the time
\* at which the kernel next needs to execute (AVR_AVRDx/port.c:332-335), though
\* the compare register holds only the low part of a time computed from the low
\* part of the ticks and written counts later, and the flag of an earlier match
\* may be set.
WakesInTime == pc = "Asleep" /\ ~Pending => now < sleep.wakeBy

\* Unless one of the two reads was torn by an overflow, the tick count is
\* corrected by the time the tick timer was stopped, to within one tick
\* (AVR_AVRDx/port.c:363-365), though interrupts are enabled between the first
\* read and the stop.
StepIsSleep ==
  pc = "Enable" /\ ~sleep.torn =>
    LET slept == sleep.lowAt - sleep.stopAt
    IN  /\ sleep.step * PerTick <= slept + PerTick
        /\ slept < (sleep.step + 1) * PerTick

\* The tick count is never advanced by more than a tick beyond the time spent
\* asleep, which is what AVR_AVRDx/port.c:363-364 promises for every sleep.
NeverStepsBeyondSleep ==
  pc = "Enable" =>
    sleep.step * PerTick <= (sleep.lowAt - sleep.stopAt) + PerTick

=============================================================================
