------------------------------- MODULE XtTick -------------------------------
(***************************************************************************)
(* The tick of the Xtensa port (Cadence/Xtensa/port.c): the handler of the *)
(* timer interrupt, the sleep that suppresses ticks, and the change of the *)
(* clock frequency.                                                        *)
(*                                                                         *)
(* The core counts cycles in CCOUNT, which wraps, and raises the timer     *)
(* interrupt when CCOUNT reaches CCOMPARE; a write of CCOMPARE clears the  *)
(* interrupt (XEA2).  Cycles pass between any two steps of the code, at    *)
(* least one from a use of CCOMPARE to the next read of CCOUNT.  How much *)
(* they are depends on the frequency, so time is measured in parts of a    *)
(* tick; lag is what has passed of it less the ticks counted.              *)
(*                                                                         *)
(* One core, with configUSE_TICKLESS_IDLE and                              *)
(* configUSE_VARIABLE_FREQUENCY.                                           *)
(***************************************************************************)
EXTENDS Integers

CONSTANTS W,             \* number of values of CCOUNT, 2^32 in the core
          Tick,          \* parts of a tick in which time is measured
          Periods,       \* cycles of a tick at the frequencies of the core
          BootPeriods,   \* those the core may start with
          MaxIdle,       \* bound of the ticks until a task is due
          MaxChanges,    \* bound of the frequency changes
          MaxLate,       \* cycles that tasks mask the timer interrupt
          MaxStep        \* cycles that a step of the port takes

ASSUME TickAssumption ==
  /\ W \in Nat /\ Tick \in Nat
  /\ BootPeriods \subseteq Periods /\ Periods \subseteq 1..Tick
  /\ \A p \in Periods : Tick % p = 0
  /\ MaxIdle \in Nat /\ MaxIdle > 1
  /\ MaxChanges \in Nat /\ MaxLate \in Nat /\ MaxStep \in Nat

VARIABLES
  CCOUNT, CCOMPARE,    \* the registers
  pending,             \* the timer interrupt is pending
  period,              \* cycles of a tick at the frequency of the core
  xt_tick_cycles,      \* the same as the port knows it
  xMaxSuppressedTicks,
  xt_skip_tick,        \* ticks suppressed and not counted yet
  lag,                 \* parts of a tick that passed and are not counted
  changes,             \* frequency changes
  unadapted,           \* one of them found a deadline that it left as it was
  suspended,           \* uxSchedulerSuspended: the idle task goes to sleep
  xPendedTicks,        \* ticks counted while it is
  toUnblock,           \* xNextTaskUnblockTime - xTickCount, then
  pc,                  \* where the code is ...
  ret,                 \* ... and where it returns to from xt_tick_handler
  uret,                \* ... and from xt_update_clock_frequency
  ulOldCCompare, first_blocked_tick, ccompare, now,  \* locals of the code
  spent                \* cycles since the last step

timer == <<CCOUNT, CCOMPARE, pending>>
counts == <<lag, toUnblock, xPendedTicks>>
clock == <<period, xt_tick_cycles, changes, unadapted>>
locals == <<ulOldCCompare, first_blocked_tick, ccompare, now>>
vars == <<timer, counts, clock, locals, xMaxSuppressedTicks, xt_skip_tick,
          suspended, pc, ret, uret, spent>>

INT32_MAX == W \div 2 - 1
Minus(a, b) == (a - b) % W
Plus(a, b) == (a + b) % W

Max2(a, b) == IF a > b THEN a ELSE b

\* update_xt_tick_cycles and xt_tick_timer_init, one cycle later.
Init ==
  /\ CCOUNT = 1
  /\ period \in BootPeriods
  /\ xt_tick_cycles = period
  /\ xMaxSuppressedTicks = (W - 1) \div period
  /\ CCOMPARE = period
  /\ pending = FALSE
  /\ xt_skip_tick = 0
  /\ lag = Tick \div period /\ changes = 0 /\ unadapted = FALSE
  /\ suspended = FALSE /\ xPendedTicks = 0 /\ toUnblock = 0
  /\ pc = "task" /\ ret = "task" /\ uret = "task"
  /\ ulOldCCompare = 0 /\ first_blocked_tick = 0 /\ ccompare = 0 /\ now = 0
  /\ spent = 0

-----------------------------------------------------------------------------
(* The core                                                                *)

\* Where the timer interrupt is enabled.
Open == {"task", "suspended", "asleep", "woken", "resume"}

\* How long the code stays where it is.
MayStay ==
  CASE pc = "ended"  -> TRUE
    [] pc = "task"   -> pending => spent < MaxLate
    [] pc = "asleep" -> ~pending
    [] OTHER         -> spent < MaxStep

Cycle ==
  /\ MayStay
  /\ CCOUNT' = Plus(CCOUNT, 1)
  /\ pending' = (pending \/ CCOUNT' = CCOMPARE)
  /\ lag' = IF pc = "ended" THEN lag ELSE lag + Tick \div period
  /\ spent' = IF pc = "ended" \/ (pc \in {"task", "asleep"} /\ ~pending')
                THEN 0 ELSE spent + 1
  /\ UNCHANGED <<CCOMPARE, toUnblock, xPendedTicks, clock, locals,
                 xMaxSuppressedTicks, xt_skip_tick, suspended, pc, ret, uret>>

\* A write of CCOMPARE.
xt_set_ccompare(v) == CCOMPARE' = v /\ pending' = FALSE /\ UNCHANGED CCOUNT

\* The code goes on; a pending interrupt is taken where it becomes enabled.
Go(label) ==
  /\ pc' = label
  /\ spent' = IF label = "task" /\ pending THEN MaxLate ELSE 0

-----------------------------------------------------------------------------
(* Ticks the kernel counts                                                 *)

\* vTaskStepTick.
Step(n) ==
  /\ lag' = lag - n * Tick
  /\ toUnblock' = toUnblock - n
  /\ UNCHANGED xPendedTicks

\* xTaskIncrementTick; the kernel keeps the tick while it is suspended.
xTaskIncrementTick ==
  /\ lag' = lag - Tick
  /\ xPendedTicks' = IF suspended THEN xPendedTicks + 1 ELSE xPendedTicks
  /\ UNCHANGED toUnblock

-----------------------------------------------------------------------------
(* xt_tick_handler                                                         *)

\* The handler starts: the suppressed ticks first.
EnterHandler(from) ==
  /\ Step(xt_skip_tick)
  /\ xt_skip_tick' = 0
  /\ ret' = from
  /\ Go("handler")

Interrupt ==
  /\ pc \in Open /\ pending
  /\ EnterHandler(IF pc = "asleep" THEN "woken" ELSE pc)
  /\ UNCHANGED <<timer, clock, locals, xMaxSuppressedTicks, suspended, uret>>

\* CCOMPARE is set for the next tick ...
SetNextTick ==
  /\ pc = "handler"
  /\ ulOldCCompare' = CCOMPARE
  /\ xt_set_ccompare(Plus(CCOMPARE, xt_tick_cycles))
  /\ Go("count_tick")
  /\ UNCHANGED <<counts, clock, first_blocked_tick, ccompare, now,
                 xMaxSuppressedTicks, xt_skip_tick, suspended, ret, uret>>

\* Mutant: a tick that passed meanwhile is not noticed.
NeverBehind == FALSE

\* diff > xt_tick_cycles, as signed numbers.
Behind ==
  LET diff == Minus(CCOUNT, ulOldCCompare)
  IN  diff <= INT32_MAX /\ diff > xt_tick_cycles

\* ... and again if it has passed already.
CountTick ==
  /\ pc = "count_tick" /\ spent > 0
  /\ xTaskIncrementTick
  /\ Go(IF Behind THEN "handler" ELSE ret)
  /\ ulOldCCompare' = 0
  /\ UNCHANGED <<timer, clock, first_blocked_tick, ccompare, now,
                 xMaxSuppressedTicks, xt_skip_tick, suspended, ret, uret>>

-----------------------------------------------------------------------------
(* vPortSuppressTicksAndSleep, which the idle task calls                   *)

\* The idle task suspends the scheduler and computes how long it may sleep.
Suspend(xExpectedIdleTime) ==
  /\ pc = "task" /\ ~pending
  /\ suspended' = TRUE
  /\ toUnblock' = xExpectedIdleTime
  /\ Go("suspended")
  /\ UNCHANGED <<timer, lag, xPendedTicks, clock, locals, xMaxSuppressedTicks,
                 xt_skip_tick, ret, uret>>

\* portENTER_CRITICAL and eTaskConfirmSleepModeStatus: the sleep is aborted if
\* a tick came, or if an interrupt made a task ready.
Confirm ==
  /\ pc = "suspended" /\ ~pending
  /\ Go("sleep") \/ Go("resume")
  /\ xPendedTicks > 0 => pc' = "resume"
  /\ UNCHANGED <<timer, counts, clock, locals, xMaxSuppressedTicks,
                 xt_skip_tick, suspended, ret, uret>>

\* Mutant: the current tick is counted as a whole one.
SkipAll(xExpectedIdleTime) == xExpectedIdleTime

\* One less than the ticks until a task is due, because the current tick ends
\* first, and no more than CCOUNT can count.
SkipTicks(xExpectedIdleTime) ==
  IF xExpectedIdleTime > xMaxSuppressedTicks THEN xMaxSuppressedTicks - 1
  ELSE xExpectedIdleTime - 1

Sleep ==
  LET skip == SkipTicks(toUnblock)
  IN  /\ pc = "sleep"
      /\ first_blocked_tick' = CCOMPARE
      /\ ccompare' = Plus(CCOMPARE, xt_tick_cycles * skip)
      /\ xt_set_ccompare(ccompare')
      /\ xt_skip_tick' = skip
      /\ Go("asleep")
      /\ UNCHANGED <<counts, clock, ulOldCCompare, now, xMaxSuppressedTicks,
                     suspended, ret, uret>>

\* Another interrupt ends the sleep.
OtherInterrupt ==
  /\ pc = "asleep"
  /\ Go("woken")
  /\ UNCHANGED <<timer, counts, clock, locals, xMaxSuppressedTicks,
                 xt_skip_tick, suspended, ret, uret>>

\* portENTER_CRITICAL_NESTED.
Mask ==
  /\ pc = "woken" /\ ~pending
  /\ Go("wake")
  /\ UNCHANGED <<timer, counts, clock, locals, xMaxSuppressedTicks,
                 xt_skip_tick, suspended, ret, uret>>

\* Mutant: the tick in which the sleep began is not counted.
TicksFromFirst(first, at) == Minus(at, first) \div xt_tick_cycles

\* Ticks that have passed at a time since the one before the first suppressed.
TicksPassed(first, at) ==
  Minus(at, Minus(first, xt_tick_cycles)) \div xt_tick_cycles

\* The deadline moves back to the next tick: the ticks that have passed are
\* counted at once, then CCOMPARE is set.
CutShort(first, at, label) ==
  LET ticks == TicksPassed(first, at)
  IN  /\ Step(ticks)
      /\ ccompare' = Plus(first, ticks * xt_tick_cycles)
      /\ Go(label)
      /\ UNCHANGED xt_skip_tick

\* The deadline is the next tick, or has just passed.
KeepDeadline(label) ==
  /\ Step(xt_skip_tick)
  /\ xt_skip_tick' = 0
  /\ ccompare' = 0
  /\ Go(label)

Wake ==
  /\ pc = "wake"
  /\ IF xt_skip_tick = 0
       THEN /\ Go("resume") /\ ccompare' = 0
            /\ UNCHANGED <<lag, toUnblock, xPendedTicks, xt_skip_tick>>
       ELSE IF Minus(ccompare, CCOUNT) > xt_tick_cycles
         THEN CutShort(first_blocked_tick, CCOUNT, "set")
         ELSE KeepDeadline("resume")
  /\ first_blocked_tick' = 0
  /\ UNCHANGED <<timer, clock, ulOldCCompare, now, xMaxSuppressedTicks,
                 suspended, ret, uret>>

\* The loop of both functions: CCOMPARE is set ...
SetDeadline(label, next) ==
  /\ pc = label
  /\ xt_set_ccompare(ccompare)
  /\ Go(next)
  /\ UNCHANGED <<counts, clock, locals, xMaxSuppressedTicks, xt_skip_tick,
                 suspended, ret, uret>>

\* ... and set again, one tick later, if it has passed.
Passed == Minus(CCOUNT, ccompare) <= INT32_MAX

CheckDeadline(label, again, done) ==
  /\ pc = label /\ spent > 0
  /\ IF Passed
       THEN /\ Step(1)
            /\ ccompare' = Plus(ccompare, xt_tick_cycles)
            /\ Go(again)
            /\ UNCHANGED xt_skip_tick
       ELSE /\ xt_skip_tick' = 0
            /\ ccompare' = 0
            /\ Go(done)
            /\ UNCHANGED <<lag, toUnblock, xPendedTicks>>
  /\ UNCHANGED <<timer, clock, ulOldCCompare, first_blocked_tick, now,
                 xMaxSuppressedTicks, suspended, ret, uret>>

\* xTaskResumeAll, after the critical section has ended.
Resume ==
  /\ pc = "resume" /\ ~pending /\ spent > 0
  /\ suspended' = FALSE
  /\ xPendedTicks' = 0
  /\ toUnblock' = 0
  /\ Go("task")
  /\ first_blocked_tick' = 0
  /\ UNCHANGED <<timer, lag, clock, ulOldCCompare, ccompare, now,
                 xMaxSuppressedTicks, xt_skip_tick, ret, uret>>

-----------------------------------------------------------------------------
(* xt_update_clock_frequency                                               *)

\* The deadline moves back if it is more than a tick ahead, and no more than half
\* the counter's range.
CallsOff ==
  LET left == Minus(CCOMPARE, CCOUNT)
  IN  left > xt_tick_cycles /\ left <= INT32_MAX

\* Tasks call the function as soon as the frequency has changed, and so do
\* handlers that end a sleep.
xt_update_clock_frequency(p) ==
  /\ changes < MaxChanges
  /\ pc \in {"task", "woken"}
  /\ period' = p /\ p # period
  /\ changes' = changes + 1
  /\ uret' = pc
  /\ now' = CCOUNT
  /\ IF xt_skip_tick = 0
       THEN /\ Go("remainder")
            /\ UNCHANGED <<counts, xt_skip_tick, ccompare>>
       ELSE IF CallsOff
         THEN CutShort(Minus(CCOMPARE, xt_tick_cycles * xt_skip_tick), CCOUNT,
                       "update_set")
         ELSE KeepDeadline("remainder")
  /\ UNCHANGED <<timer, xt_tick_cycles, unadapted, ulOldCCompare,
                 first_blocked_tick, xMaxSuppressedTicks, suspended, ret>>

\* update_tick_remainder.  A deadline a tick away or more is left as it was;
\* "otherwise timer interrupt must be pending", unadapted records that it is not.
update_tick_remainder ==
  LET left == Minus(CCOMPARE, now)
      new_ccompare == Plus(now, (left * period) \div xt_tick_cycles)
  IN  /\ pc = "remainder"
      /\ xt_tick_cycles' = period
      /\ now' = 0
      /\ IF left < xt_tick_cycles
           THEN /\ xt_set_ccompare(new_ccompare)
                /\ Go("check_remainder")
           ELSE Go(uret) /\ UNCHANGED timer
      /\ unadapted' = (unadapted \/ (left >= xt_tick_cycles /\ ~pending))
      /\ UNCHANGED <<counts, period, changes, ulOldCCompare, ccompare,
                     first_blocked_tick, xMaxSuppressedTicks, xt_skip_tick,
                     suspended, ret, uret>>

\* The new deadline may have passed: the handler is called for it.
CheckRemainder ==
  /\ pc = "check_remainder" /\ spent > 0
  /\ IF Minus(CCOMPARE, CCOUNT) > xt_tick_cycles
       THEN EnterHandler(uret)
       ELSE Go(uret) /\ UNCHANGED <<counts, xt_skip_tick, ret>>
  /\ UNCHANGED <<timer, clock, locals, xMaxSuppressedTicks, suspended, uret>>

-----------------------------------------------------------------------------
\* vPortEndScheduler: xt_tick_timer_stop disables the interrupt.
vPortEndScheduler ==
  /\ pc = "task"
  /\ xt_set_ccompare(0)
  /\ Go("ended")
  /\ UNCHANGED <<counts, clock, locals, xMaxSuppressedTicks, xt_skip_tick,
                 suspended, ret, uret>>

Code ==
  \/ Interrupt \/ SetNextTick \/ CountTick
  \/ \E e \in 2..MaxIdle : Suspend(e)
  \/ Confirm \/ Sleep \/ OtherInterrupt \/ Mask \/ Wake \/ Resume
  \/ SetDeadline("set", "check") \/ CheckDeadline("check", "set", "resume")
  \/ SetDeadline("update_set", "update_check")
  \/ CheckDeadline("update_check", "update_set", "remainder")
  \/ \E p \in Periods : xt_update_clock_frequency(p)
  \/ update_tick_remainder \/ CheckRemainder
  \/ vPortEndScheduler

Next == Cycle \/ Code

Spec == Init /\ [][Next]_vars

-----------------------------------------------------------------------------
Labels == Open \cup {"handler", "count_tick", "sleep", "wake", "set", "check",
                     "update_set", "update_check", "remainder",
                     "check_remainder", "ended"}

\* Ticks are suppressed only while the idle task has the scheduler suspended.
TypeOK ==
  /\ CCOUNT \in 0..W-1 /\ CCOMPARE \in 0..W-1 /\ pending \in BOOLEAN
  /\ period \in Periods /\ xt_tick_cycles \in Periods
  /\ xMaxSuppressedTicks \in 1..W-1
  /\ xt_skip_tick \in 0..xMaxSuppressedTicks
  /\ lag \in Int /\ toUnblock \in Int /\ xPendedTicks \in Nat
  /\ changes \in 0..MaxChanges /\ unadapted \in BOOLEAN
  /\ suspended \in BOOLEAN
  /\ pc \in Labels /\ ret \in Open /\ uret \in Open
  /\ ulOldCCompare \in 0..W-1 /\ first_blocked_tick \in 0..W-1
  /\ ccompare \in 0..W-1 /\ now \in 0..W-1
  /\ spent \in 0..Max2(MaxLate, MaxStep)
  /\ ~suspended => xt_skip_tick = 0 /\ xPendedTicks = 0

\* What the code takes for granted of its clock.  A tick is longer than a few of
\* the port's steps, and half the counter's range longer than a tick and than
\* the timer interrupt is ever late: that is two ticks at most, with the steps of
\* as many frequency changes as there may be.  After the longest sleep, CCOUNT has
\* cycles left before it wraps for the steps until the code reads it: if the
\* deadline passes in these and the counter wraps, a whole turn of it is lost.
\* The core starts at the fastest of its frequencies, for which the port computes
\* that sleep.
Timing ==
  /\ MaxStep > 0 /\ MaxLate + MaxStep * (2 * MaxChanges + 6) <= INT32_MAX
  /\ \A p \in Periods :
       /\ p <= INT32_MAX /\ 5 * MaxStep <= p
       /\ MaxLate + MaxStep * MaxChanges <= 2 * p /\ MaxStep * MaxChanges <= p
  /\ \A b \in BootPeriods : MaxStep <= (W - 1) % b /\ \A p \in Periods : p <= b

Quiet == pc = "task" /\ ~pending

\* The kernel's tick count is the time that has passed, whatever was slept,
\* whatever ended a sleep and however close to a tick it ended: no tick is lost
\* or counted twice.  A change of the frequency may be off by two ticks, for the
\* cycles that the timer interrupt is late at it.  This holds until a change
\* leaves a deadline unscaled, and so do the next two.
TicksExact ==
  LET off == 2 * Tick * changes
  IN  Quiet /\ ~unadapted => lag \in -off .. Tick - 1 + off

\* xt_update_clock_frequency "will update deadline of the internal tick timer"
\* (xtensa_api.h), and so does the end of a sleep: while tasks run the next tick
\* is no more than a tick ahead, at the frequency of the core, and it was not
\* missed.
DeadlineNear ==
  Quiet /\ ~unadapted => Minus(CCOMPARE, CCOUNT) \in 1..period

\* The ticks counted at the end of a sleep do not pass the tick at which a task
\* is due, which vTaskStepTick asserts.
NeverPastUnblock == ~unadapted => toUnblock >= 0
=============================================================================
