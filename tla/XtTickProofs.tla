---------------------------- MODULE XtTickProofs ----------------------------
(***************************************************************************)
(* The tick of the Xtensa port, for a counter of any width, ticks of any   *)
(* length, sleeps of any length, interrupts and changes of the frequency   *)
(* at any moment: the ticks counted are the time that has passed, but for  *)
(* what the changes may be off, the next deadline is no more than a tick   *)
(* ahead, and a sleep never counts past the tick at which a task is due,   *)
(* until a change leaves a deadline that has not come as it was.           *)
(***************************************************************************)
EXTENDS XtTick, TLAPS

\* The deadline is ahead cycles away, and the interrupt is pending once it has
\* come; or, after a write of CCOMPARE, once it has come since.
Timer(ahead) ==
  CCOMPARE = Plus(CCOUNT, ahead) /\ (pending <=> ahead <= 0)

TimerSet(ahead) ==
  /\ CCOMPARE = Plus(CCOUNT, ahead)
  /\ pending <=> ahead <= 0 /\ 0 < ahead + spent

\* Here the port knows a frequency that the core has left.
Adapting == {"update_set", "update_check", "remainder"}

Typed ==
  /\ CCOUNT \in 0 .. W - 1 /\ pending \in BOOLEAN /\ lag \in Int
  /\ period \in Periods /\ xt_tick_cycles \in Periods
  /\ pc \notin Adapting => xt_tick_cycles = period
  /\ changes \in 0 .. MaxChanges
  /\ \E b \in BootPeriods : xMaxSuppressedTicks = (W - 1) \div b
  /\ xt_skip_tick \in Nat /\ xt_skip_tick < xMaxSuppressedTicks
  /\ toUnblock \in Nat /\ spent \in Nat
  /\ \/ pc \in Open \cup Adapting
     \/ pc \in {"sleep", "wake", "set", "check", "handler", "count_tick",
                "check_remainder", "ended"}
  /\ ret \in Open \ {"asleep"}
  /\ pc \in Adapting \cup {"check_remainder"} =>
       changes > 0 /\ uret \in {"task", "woken"}

\* Every change of frequency while the interrupt is pending delays it by a step,
\* and by two while the idle task waits for it.
Delay == MaxStep * changes

\* Each part says where the deadline is and how late the code may be, age cycles
\* after the last tick that was counted.
InTask(age) ==
  pc = "task" =>
    /\ xt_skip_tick = 0 /\ toUnblock = 0
    /\ Timer(period - age)
    /\ age - period <= MaxLate + Delay /\ age - period <= spent + Delay

Suspended(age) ==
  pc \in {"suspended", "sleep", "resume"} =>
    /\ xt_skip_tick = 0
    /\ pc # "resume" => toUnblock >= 2
    /\ Timer(period - age)
    /\ age - period <= MaxStep + spent /\ spent <= MaxStep

\* The deadline is put off by the ticks to skip, until the handler runs.
Asleep(age) ==
  pc \in {"asleep", "woken", "wake"} =>
    LET due == period * xt_skip_tick + period
    IN  /\ Timer(due - age)
        /\ age - due <= spent \/ (pc = "woken" /\ age - due <= spent + 2 * Delay)
        /\ IF pc = "asleep" THEN age <= due ELSE spent <= MaxStep
        /\ xt_skip_tick > 0 =>
             /\ xt_skip_tick < toUnblock
             /\ age - due <= spent
             /\ ccompare = CCOMPARE
             /\ first_blocked_tick = Plus(CCOUNT, period - age)

\* The deadline moves back; one more tick may pass before it is set, if the task
\* that is due leaves room for it.
MovingBack(age) ==
  /\ pc = "set" =>
       /\ ccompare = Plus(CCOUNT, period - age)
       /\ spent <= MaxStep
       /\ \/ age < 2 * MaxStep + spent
          \/ toUnblock >= 1 /\ age < period + spent
  /\ pc = "check" =>
       /\ ccompare = CCOMPARE
       /\ TimerSet(period - age)
       /\ spent <= MaxStep
       /\ \/ age < 3 * MaxStep + spent
          \/ toUnblock >= 1 /\ age < period + MaxStep + spent

InHandler(age) ==
  /\ pc = "handler" =>
       /\ CCOMPARE = Plus(CCOUNT, period - age)
       /\ age - period <= MaxLate + 2 * Delay + 4 * MaxStep + spent
  /\ pc = "count_tick" =>
       /\ ulOldCCompare = Plus(CCOUNT, period - age)
       /\ TimerSet(2 * period - age)
       /\ age - period <= MaxLate + 2 * Delay + 5 * MaxStep + spent
  /\ pc \in {"handler", "count_tick"} =>
       /\ xt_skip_tick = 0
       /\ period <= age /\ spent <= MaxStep
       /\ ret = "task" => toUnblock = 0
       /\ ret = "suspended" => toUnblock >= 2

\* The deadline has been scaled to the new frequency.
Scaled(age) ==
  pc = "check_remainder" =>
    /\ xt_skip_tick = 0
    /\ uret = "task" => toUnblock = 0
    /\ TimerSet(period - age)
    /\ age > 0 /\ age - period <= 3 * MaxStep + spent /\ spent <= MaxStep

\* When the frequency changes the deadline is less than a tick ahead, or further
\* by the ticks to skip.
Begun(age) ==
  /\ pc \in {"task", "suspended", "sleep"} => age > 0
  /\ pc \in {"asleep", "woken", "wake"} => age > 0 \/ xt_skip_tick > 0
  /\ pc \in {"resume", "check"} => age > 0 \/ spent = 0
  /\ pc = "count_tick" => age > period \/ spent = 0

\* What the count may be off, as in TicksExact.
Within(off, n) == off \in -(2 * Tick * n) .. 2 * Tick * n

Aged(age) ==
  /\ Within(lag - (Tick \div period) * age, changes)
  /\ InTask(age) /\ Suspended(age) /\ Asleep(age) /\ MovingBack(age) /\ InHandler(age)
  /\ Scaled(age) /\ Begun(age)

\* The frequency changed e cycles ago, age of the slower or faster ones before
\* after the last tick that was counted; the deadline will be scaled, or has come.
Changed(age, e) ==
  /\ Within(lag - (Tick \div xt_tick_cycles) * age - (Tick \div period) * e, changes - 1)
  /\ now \in 0 .. W - 1 /\ CCOUNT = Plus(now, e)
  /\ age > 0 /\ spent <= MaxStep
  /\ uret = "task" => toUnblock = 0
  /\ pc = "update_set" =>
       /\ uret = "woken" /\ toUnblock >= 1 /\ e <= spent
       /\ ccompare = Plus(now, xt_tick_cycles - age)
       /\ age < xt_tick_cycles
  /\ pc = "update_check" =>
       /\ uret = "woken" /\ toUnblock >= 1 /\ e <= MaxStep + spent
       /\ pending => xt_tick_cycles - age - e <= 0
       /\ CCOMPARE = Plus(now, xt_tick_cycles - age) /\ ccompare = CCOMPARE
       /\ age < xt_tick_cycles
  /\ pc = "remainder" =>
       /\ xt_skip_tick = 0
       /\ CCOMPARE = Plus(now, xt_tick_cycles - age)
       /\ pending <=> xt_tick_cycles - age - e <= 0
       /\ e <= 2 * MaxStep + spent
       /\ age > xt_tick_cycles => e <= spent
       /\ uret = "task" => age - xt_tick_cycles <= MaxLate + (Delay - MaxStep)
       /\ uret = "woken" => age - xt_tick_cycles <= 2 * Delay - MaxStep

\* The frequency changed e cycles ago, and the deadline will be left as it is, d
\* cycles after the change.
Unscaled(d, e) ==
  /\ now \in 0 .. W - 1 /\ CCOUNT = Plus(now, e) /\ spent <= MaxStep
  /\ xt_tick_cycles <= d /\ d < W
  /\ pc = "update_set" =>
       /\ ccompare = Plus(now, d) /\ d <= xt_tick_cycles + e
       /\ e + xt_tick_cycles < d + 2 * MaxStep + spent
  /\ pc = "update_check" =>
       /\ CCOMPARE = Plus(now, d) /\ ccompare = CCOMPARE /\ ~pending
       /\ d <= xt_tick_cycles + e
       /\ e + xt_tick_cycles < d + 3 * MaxStep + spent
  /\ pc = "remainder" =>
       /\ CCOMPARE = Plus(now, d) /\ ~pending
       /\ e + xt_tick_cycles < d + 4 * MaxStep + spent

\* Where the code is at work on a tick, and while no change has left one as it was.
Exact ==
  /\ Typed
  /\ pc # "ended" =>
       IF pc \in Adapting
         THEN \/ \E age \in Nat, e \in Nat : Changed(age, e)
              \/ \E d \in Nat, e \in Nat : Unscaled(d, e)
         ELSE \E age \in Nat : Aged(age)

Adapted == ~unadapted => Exact

-----------------------------------------------------------------------------
(* Arithmetic                                                              *)

LEMMA Distribute ==
  ASSUME NEW n \in Int, NEW a \in Int, NEW b \in Int
  PROVE  n * (a + b) = n * a + n * b /\ n * (a - b) = n * a - n * b
OBVIOUS

LEMMA Division ==
  ASSUME NEW n \in Nat \ {0}, NEW a \in Int
  PROVE  \E q \in Int, r \in 0 .. n - 1 : a \div n = q /\ a % n = r /\ a = n * q + r
<1>1. PICK q \in Int, r \in Int : q = a \div n /\ r = a % n /\ r >= 0 /\ r < n
  OBVIOUS
<1>2. a = n * q + r
  BY <1>1
<1> QED BY <1>1, <1>2

LEMMA Remainder ==
  ASSUME NEW n \in Nat \ {0}, NEW a \in Int, NEW k \in Int, NEW r \in 0 .. n - 1,
         a = n * k + r
  PROVE  a % n = r /\ a \div n = k
<1>1. PICK q \in Int, s \in 0 .. n - 1 : a \div n = q /\ a % n = s /\ a = n * q + s
  BY Division
<1>2. n * (q - k) = r - s
  BY <1>1, Distribute
<1>3. r - s < n /\ r - s > -n
  BY <1>1
<1>4. q - k \in Int /\ n * (q - k) < n /\ n * (q - k) > -n
  BY <1>1, <1>2, <1>3
<1>5. q - k = 0
  <2>1. CASE q - k >= 1
    BY <2>1, <1>4
  <2>2. CASE q - k <= -1
    BY <2>2, <1>4
  <2> QED BY <2>1, <2>2, <1>4
<1> QED BY <1>1, <1>2, <1>5

LEMMA ModPlus ==
  ASSUME NEW n \in Nat \ {0}, NEW a \in Int, NEW b \in Int
  PROVE  ((a % n) + b) % n = (a + b) % n
<1>1. PICK q \in Int, r \in 0 .. n - 1 : a % n = r /\ a = n * q + r
  BY Division
<1>0. PICK d \in Int : d = r + b
  OBVIOUS
<1>2. PICK k \in Int, s \in 0 .. n - 1 : (r + b) % n = s /\ r + b = n * k + s
  <2>1. PICK k \in Int, s \in 0 .. n - 1 : d % n = s /\ d = n * k + s
    BY ONLY n \in Nat \ {0}, d \in Int, Division, ZenonT(60)
  <2> QED BY <1>0, <2>1
<1>3. a + b = n * (q + k) + s
  <2>1. n \in Int /\ q \in Int /\ k \in Int
    BY <1>1, <1>2
  <2>3. n * (q + k) = n * q + n * k
    BY ONLY <2>1, Distribute
  <2>2. n * q \in Int /\ n * k \in Int
    BY <1>1, <1>2
  <2> QED BY <1>1, <1>2, <2>3, <2>2
<1>4. (a + b) % n = s
  <2>1. a + b \in Int /\ q + k \in Int
    BY <1>1, <1>2
  <2> QED BY <1>3, <2>1, Remainder
<1> QED BY <1>1, <1>2, <1>4

LEMMA ModMinus ==
  ASSUME NEW n \in Nat \ {0}, NEW a \in Int, NEW b \in Int
  PROVE  (b - (a % n)) % n = (b - a) % n
<1>1. PICK q \in Int, r \in 0 .. n - 1 : a % n = r /\ a = n * q + r
  BY Division
<1>0. PICK d \in Int : d = b - r
  OBVIOUS
<1>2. PICK k \in Int, s \in 0 .. n - 1 : (b - r) % n = s /\ b - r = n * k + s
  <2>1. PICK k \in Int, s \in 0 .. n - 1 : d % n = s /\ d = n * k + s
    BY ONLY n \in Nat \ {0}, d \in Int, Division, ZenonT(60)
  <2> QED BY <1>0, <2>1
<1>3. b - a = n * (k - q) + s
  <2>1. n \in Int /\ q \in Int /\ k \in Int
    BY <1>1, <1>2
  <2>3. n * (k - q) = n * k - n * q
    BY ONLY <2>1, Distribute
  <2>2. n * q \in Int /\ n * k \in Int
    BY <1>1, <1>2
  <2> QED BY <1>1, <1>2, <2>3, <2>2
<1>4. (b - a) % n = s
  <2>1. b - a \in Int /\ k - q \in Int
    BY <1>1, <1>2
  <2> QED BY <1>3, <2>1, Remainder
<1> QED BY <1>1, <1>2, <1>4

\* Deadlines as distances from the counter, which wraps.
LEMMA Counter ==
  ASSUME NEW n \in Nat \ {0}, n = W, NEW c \in 0 .. W - 1, NEW e \in Int
  PROVE  /\ Plus(c, e) \in 0 .. W - 1
         /\ Plus(Plus(c, 1), e - 1) = Plus(c, e)
         /\ 0 <= e /\ e < W => Minus(Plus(c, e), c) = e
         /\ -W <= e /\ e < 0 => Minus(Plus(c, e), c) = e + W
         /\ -W < e /\ e <= 0 => Minus(c, Plus(c, e)) = -e
         /\ 0 < e /\ e <= W => Minus(c, Plus(c, e)) = W - e
<1>1. \A a \in Int, r \in 0 .. n - 1 : a = r => a % n = r
  <2>1. \A a \in Int, r \in 0 .. n - 1 : a = r => a = n * 0 + r
    OBVIOUS
  <2> QED BY <2>1, Remainder
<1>2. \A a \in Int, r \in 0 .. n - 1 : a = r - n => a % n = r
  <2>1. \A a \in Int, r \in 0 .. n - 1 : a = r - n => a = n * (-1) + r
    OBVIOUS
  <2>2. -1 \in Int
    OBVIOUS
  <2> QED BY <2>1, <2>2, Remainder
<1>3. \A a \in Int, r \in 0 .. n - 1 : a = r + n => a % n = r
  <2>1. \A a \in Int, r \in 0 .. n - 1 : a = r + n => a = n * 1 + r
    OBVIOUS
  <2> QED BY <2>1, Remainder
<1>4. Plus(c, e) \in 0 .. n - 1
  <2>1. PICK r \in 0 .. n - 1 : (c + e) % n = r
    <3>1. c + e \in Int
      OBVIOUS
    <3> QED BY <3>1, Division
  <2> QED BY <2>1 DEF Plus
<1>5. Plus(Plus(c, 1), e - 1) = Plus(c, e)
  <2>1. c + 1 \in Int /\ e - 1 \in Int /\ (c + 1) + (e - 1) = c + e
    OBVIOUS
  <2>2. (((c + 1) % n) + (e - 1)) % n = ((c + 1) + (e - 1)) % n
    BY <2>1, ModPlus
  <2> QED BY <2>1, <2>2 DEF Plus
<1>6. Minus(Plus(c, e), c) = e % n
  <2>1. c + e \in Int /\ -c \in Int /\ (c + e) + (-c) = e
    OBVIOUS
  <2>2. (((c + e) % n) + (-c)) % n = ((c + e) + (-c)) % n
    BY <2>1, ModPlus
  <2>3. PICK r \in 0 .. n - 1 : (c + e) % n = r
    BY <2>1, Division
  <2>4. ((c + e) % n) + (-c) = ((c + e) % n) - c
    BY <2>3
  <2> QED BY <2>1, <2>2, <2>4 DEF Plus, Minus
<1>7. Minus(c, Plus(c, e)) = (-e) % n
  <2>1. c + e \in Int /\ c \in Int /\ c - (c + e) = -e
    OBVIOUS
  <2>2. (c - ((c + e) % n)) % n = (c - (c + e)) % n
    BY <2>1, ModMinus
  <2> QED BY <2>1, <2>2 DEF Plus, Minus
<1>8. /\ 0 <= e /\ e < n => e % n = e
      /\ -n <= e /\ e < 0 => e % n = e + n
  <2>1. -n <= e /\ e < 0 => e + n \in 0 .. n - 1 /\ e = (e + n) - n
    OBVIOUS
  <2> QED BY <1>1, <1>2, <2>1
<1>9. /\ -n < e /\ e <= 0 => (-e) % n = -e
      /\ 0 < e /\ e <= n => (-e) % n = n - e
  <2>1. 0 < e /\ e <= n => n - e \in 0 .. n - 1 /\ -e = (n - e) - n
    OBVIOUS
  <2>2. -n < e /\ e <= 0 => -e \in 0 .. n - 1
    OBVIOUS
  <2>3. -e \in Int
    OBVIOUS
  <2> QED BY <1>1, <1>2, <2>1, <2>2, <2>3
<1> QED BY <1>4, <1>5, <1>6, <1>7, <1>8, <1>9

LEMMA CounterAdds ==
  ASSUME NEW n \in Nat \ {0}, n = W, NEW c \in 0 .. W - 1, NEW e \in Int, NEW d \in Int
  PROVE  /\ Plus(Plus(c, e), d) = Plus(c, e + d)
         /\ Minus(Plus(c, e), d) = Plus(c, e - d)
<1>1. c + e \in Int /\ -d \in Int
  OBVIOUS
<1>2. (((c + e) % n) + d) % n = ((c + e) + d) % n
  BY <1>1, ModPlus
<1>3. (((c + e) % n) + (-d)) % n = ((c + e) + (-d)) % n
  BY <1>1, ModPlus
<1>4. PICK r \in 0 .. n - 1 : (c + e) % n = r
  BY <1>1, Division
<1>5. (c + e) + d = c + (e + d) /\ (c + e) + (-d) = c + (e - d)
      /\ ((c + e) % n) + (-d) = ((c + e) % n) - d
  BY <1>4
<1> QED BY <1>2, <1>3, <1>5 DEF Plus, Minus

-----------------------------------------------------------------------------
(* The constants                                                           *)

\* CCOUNT has cycles left after the longest sleep that starts at a frequency.
Fits(b, p) ==
  \A k \in Nat : k < (W - 1) \div b => p * k \in Nat /\ p * k + p + MaxStep <= W - 1

LEMMA Constants ==
  ASSUME Timing, NEW p \in Periods
  PROVE  /\ W \in Nat \ {0} /\ INT32_MAX \in Nat /\ 2 * INT32_MAX + 2 <= W
         /\ p \in Nat \ {0} /\ p <= INT32_MAX
         /\ MaxStep \in Nat /\ MaxStep > 0 /\ MaxLate \in Nat
         /\ 4 * MaxStep <= p /\ 5 * MaxStep <= p
<1>1. W \in Nat /\ Tick \in Nat /\ MaxStep \in Nat /\ MaxLate \in Nat /\ p \in 1 .. Tick
  BY TickAssumption
<1>2. p \in Nat \ {0}
  BY <1>1
<1>3. p <= INT32_MAX /\ MaxStep > 0 /\ 5 * MaxStep <= p
  BY DEF Timing
<1>4. INT32_MAX \in Int /\ 2 * INT32_MAX + 2 <= W
  BY <1>1 DEF INT32_MAX
<1>5. W # 0 /\ INT32_MAX \in Nat
  BY <1>1, <1>2, <1>3, <1>4
<1> QED BY <1>1, <1>2, <1>3, <1>4, <1>5

\* The interrupt is late by no more than half the counter's range, and by two ticks.
LEMMA Delayed ==
  ASSUME Timing, changes \in 0 .. MaxChanges
  PROVE  /\ Delay \in Nat /\ MaxLate + 2 * Delay + 6 * MaxStep <= INT32_MAX
         /\ changes > 0 => Delay - MaxStep \in Nat
         /\ \A p \in Periods : MaxLate + Delay <= 2 * p /\ Delay <= p
<1>1. MaxStep \in Nat /\ MaxChanges \in Nat /\ MaxLate \in Nat /\ W \in Nat
      /\ Periods \subseteq Nat
  BY TickAssumption
<1>2. PICK m \in Nat : m = MaxStep * MaxChanges
  BY <1>1
<1>3. MaxStep * (2 * MaxChanges + 6) = 2 * m + 6 * MaxStep
  BY <1>1, <1>2
<1>4. Delay \in Nat /\ Delay <= m
  <2>1. changes \in Nat /\ changes <= MaxChanges
    BY <1>1
  <2>2. MaxStep * changes \in Nat /\ MaxStep * changes <= MaxStep * MaxChanges
    BY <1>1, <2>1
  <2> QED BY <1>2, <2>2 DEF Delay
<1>5. changes > 0 => Delay - MaxStep \in Nat
  <2>1. changes > 0 => changes - 1 \in Nat
    BY <1>1
  <2>2. MaxStep * (changes - 1) = MaxStep * changes - MaxStep * 1
    BY ONLY <1>1, changes \in 0 .. MaxChanges, 1 \in Int, Distribute
  <2>3. changes > 0 => MaxStep * (changes - 1) \in Nat
    BY <1>1, <2>1
  <2>4. MaxStep * 1 = MaxStep
    BY <1>1
  <2> QED BY <2>2, <2>3, <2>4 DEF Delay
<1>6. INT32_MAX \in Int /\ MaxLate + MaxStep * (2 * MaxChanges + 6) <= INT32_MAX
      /\ \A p \in Periods : MaxLate + m <= 2 * p /\ m <= p
  BY <1>1, <1>2 DEF Timing, INT32_MAX
<1>7. \A p \in Periods : MaxLate + Delay <= 2 * p /\ Delay <= p
  BY <1>1, <1>2, <1>4, <1>6
<1>8. MaxLate + 2 * Delay + 6 * MaxStep <= INT32_MAX
  BY <1>1, <1>2, <1>3, <1>4, <1>6
<1> QED BY <1>4, <1>5, <1>7, <1>8

LEMMA Unit ==
  ASSUME NEW p \in Periods
  PROVE  \E u \in Nat \ {0} : Tick \div p = u /\ Tick = u * p
<1>1. Tick \in Nat /\ p \in 1 .. Tick /\ Tick % p = 0
  BY TickAssumption
<1>2. PICK q \in Int, r \in 0 .. p - 1 : Tick \div p = q /\ Tick % p = r /\ Tick = p * q + r
  BY <1>1, Division
<1>3. Tick = p * q /\ p * q = q * p
  <2>1. p * q \in Int /\ r = 0 /\ p * q = q * p
    BY <1>1, <1>2
  <2> QED BY <1>2, <2>1
<1>4. q > 0
  <2>1. CASE q <= 0
    <3>1. p * q <= 0
      BY <1>1, <2>1
    <3> QED BY <1>1, <1>3, <3>1
  <2> QED BY <2>1, <1>2
<1> QED BY <1>2, <1>3, <1>4

LEMMA Room ==
  ASSUME Timing, NEW b \in BootPeriods, NEW p \in Periods
  PROVE  /\ (W - 1) \div b \in Nat /\ (W - 1) \div b >= 2
         /\ Fits(b, p)
<1>0. b \in Periods
  BY TickAssumption
<1>1. /\ W \in Nat \ {0} /\ b \in Nat \ {0} /\ MaxStep \in Nat
      /\ 2 * b + 2 <= W /\ MaxStep <= (W - 1) % b
      /\ p \in Nat \ {0} /\ p <= b
  BY <1>0, Constants DEF Timing
<1>2. PICK q \in Int, r \in 0 .. b - 1 :
        (W - 1) \div b = q /\ (W - 1) % b = r /\ W - 1 = b * q + r
  <2>1. W - 1 \in Int
    BY <1>1
  <2> QED BY ONLY <1>1, <2>1, Division
<1>3. q >= 2
  <2>1. CASE q <= 1
    <3>1. b * q <= b
      BY <1>1, <2>1
    <3>2. b * q \in Int
      BY <1>1
    <3> QED BY <1>1, <1>2, <3>1, <3>2
  <2> QED BY <2>1
<1>4. ASSUME NEW k \in Nat, k < q
      PROVE  p * k \in Nat /\ p * k + p + MaxStep <= W - 1
  <2>1. p * k \in Nat /\ b * k \in Nat /\ b * q \in Int /\ p * k <= b * k
    BY <1>1
  <2>2. b * k + b <= b * q
    <3>1. b * (k + 1) = b * k + b * 1
      BY ONLY <1>1, <1>4, k \in Nat, Distribute
    <3>2. b * (k + 1) <= b * q
      BY <1>1, <1>4
    <3> QED BY <1>1, <2>1, <3>1, <3>2
  <2>3. b * q + MaxStep <= W - 1
    BY <1>1, <1>2, <2>1
  <2> QED BY <1>1, <2>1, <2>2, <2>3
<1> QED BY <1>2, <1>3, <1>4 DEF Fits

\* Age and ticks in parts of a tick.
LEMMA Counted ==
  ASSUME NEW p \in Int, NEW u \in Int, Tick = u * p, NEW age \in Int, NEW k \in Int,
         NEW off \in Int
  PROVE  (u * age + off) - k * Tick = u * (age - p * k) + off
<1>1. p * k \in Int /\ u * (p * k) = k * (u * p)
  OBVIOUS
<1>2. u * (age - p * k) = u * age - u * (p * k)
  BY ONLY <1>1, u \in Int, age \in Int, Distribute
<1>3. u * age \in Int /\ k * (u * p) \in Int
  OBVIOUS
<1> QED BY <1>1, <1>2, <1>3

LEMMA Reached ==
  ASSUME NEW n \in Nat \ {0}, n = W, NEW c \in 0 .. W - 1, NEW e \in Int,
         -W < e, e < W
  PROVE  c = Plus(c, e) <=> e = 0
<1>1. Plus(c, 0) = c
  <2>1. c + 0 = n * 0 + c /\ c + 0 \in Int
    OBVIOUS
  <2> QED BY <2>1, Remainder DEF Plus
<1>2. Minus(c, c) = 0
  <2>1. Minus(Plus(c, 0), c) = 0
    BY Counter
  <2> QED BY <1>1, <2>1
<1>3. Minus(Plus(c, e), c) = e \/ Minus(Plus(c, e), c) = e + W
  BY Counter
<1>4. e + W # 0
  OBVIOUS
<1> QED BY <1>1, <1>2, <1>3, <1>4

-----------------------------------------------------------------------------
(* The invariant, step by step                                             *)

LEMMA InitInv == ASSUME Timing PROVE Init => Exact
<1> SUFFICES ASSUME Init PROVE Exact
  OBVIOUS
<1>p. PICK p \in Periods : p = period /\ p \in BootPeriods
  BY TickAssumption DEF Init
<1>1. /\ W \in Nat \ {0} /\ p \in Nat \ {0} /\ MaxLate \in Nat /\ MaxStep \in Nat
      /\ 2 * p + 2 <= W /\ p > 1
  BY Constants
<1>2. (W - 1) \div p \in Nat /\ (W - 1) \div p >= 2
  BY <1>p, Room
<1>u. PICK u \in Nat \ {0} : Tick \div p = u
  BY Unit
<1>d. changes = 0 /\ Delay \in Nat
  <2>1. changes = 0 /\ changes \in 0 .. MaxChanges
    BY TickAssumption DEF Init
  <2> QED BY <2>1, Delayed
<1>3. Typed
  <2>1. PICK m \in Nat : m = (W - 1) \div p /\ m >= 2
    BY <1>2
  <2>2. xMaxSuppressedTicks = (W - 1) \div period /\ 0 < xMaxSuppressedTicks
    BY <1>p, <2>1 DEF Init
  <2>3. 1 \in 0 .. W - 1
    BY <1>1
  <2>4. changes \in 0 .. MaxChanges /\ lag \in Int
    BY <1>p, <1>u, <1>d, TickAssumption DEF Init
  <2> QED BY <1>p, <2>2, <2>3, <2>4 DEF Init, Typed, Open, Adapting
<1>4. CCOMPARE = Plus(CCOUNT, p - 1)
  <2>1. p \in Int /\ p \in 0 .. W - 1 /\ 1 + (p - 1) = p /\ p = W * 0 + p
    BY <1>1
  <2>2. p % W = p
    BY ONLY <1>1, <2>1, 0 \in Int, Remainder
  <2> QED BY <1>p, <2>1, <2>2 DEF Init, Plus
<1>5. Within(lag - (Tick \div period) * 1, changes)
  <2>1. lag = u /\ u * 1 = u /\ u - u = 0
    BY <1>p, <1>u DEF Init
  <2>2. 2 * Tick * 0 = 0 /\ 0 \in -0 .. 0
    BY TickAssumption
  <2> QED BY <1>p, <1>u, <1>d, <2>1, <2>2 DEF Within
<1>6. InTask(1)
  BY <1>p, <1>d, <1>1, <1>4 DEF InTask, Timer, Init
<1>7. Aged(1)
  BY <1>5, <1>6 DEF Aged, Suspended, Asleep, MovingBack, InHandler, Scaled, Begun, Init
<1> QED BY <1>3, <1>7 DEF Exact, Init, Adapting

\* The timer one cycle later.
LEMMA TimerRuns ==
  ASSUME Timing, Typed, Typed', NEW e \in Int, 1 - W < e, e <= W, NEW s \in Nat,
         CCOUNT' = Plus(CCOUNT, 1), pending' = (pending \/ CCOUNT' = CCOMPARE),
         UNCHANGED CCOMPARE
  PROVE  /\ CCOMPARE = Plus(CCOUNT, e) => CCOMPARE' = Plus(CCOUNT', e - 1)
         /\ CCOMPARE = Plus(CCOUNT, e) /\ (pending <=> e <= 0)
              => (pending' <=> e - 1 <= 0)
         /\ CCOMPARE = Plus(CCOUNT, e) /\ (pending <=> e <= 0 /\ 0 < e + s)
              => (pending' <=> e - 1 <= 0 /\ 0 < (e - 1) + (s + 1))
<1>1. W \in Nat \ {0} /\ CCOUNT \in 0 .. W - 1 /\ CCOUNT' \in 0 .. W - 1
      /\ pending \in BOOLEAN /\ pending' \in BOOLEAN
  BY Constants DEF Typed
<1>2. Plus(CCOUNT', e - 1) = Plus(CCOUNT, e)
  BY <1>1, Counter
<1>3. CCOUNT' = Plus(CCOUNT', e - 1) <=> e - 1 = 0
  <2>1. e - 1 \in Int /\ -W < e - 1 /\ e - 1 < W
    BY <1>1
  <2> QED BY <1>1, <2>1, Reached
<1>4. CCOMPARE = Plus(CCOUNT, e) => CCOMPARE' = Plus(CCOUNT', e - 1)
  BY <1>2
<1>5. CCOMPARE = Plus(CCOUNT, e) => (pending' <=> pending \/ e - 1 = 0)
  BY <1>1, <1>2, <1>3
<1>6. ASSUME CCOMPARE = Plus(CCOUNT, e), pending <=> e <= 0
      PROVE  pending' <=> e - 1 <= 0
  BY <1>5, <1>6
<1>7. ASSUME CCOMPARE = Plus(CCOUNT, e), pending <=> e <= 0 /\ 0 < e + s
      PROVE  pending' <=> e - 1 <= 0 /\ 0 < (e - 1) + (s + 1)
  BY <1>5, <1>7
<1> QED BY <1>4, <1>6, <1>7

\* What the invariant says of a state in which the code is at work.
LEMMA Now ==
  ASSUME Timing, Exact, pc # "ended", pc \notin Adapting
  PROVE  /\ Typed
         /\ \E p \in Periods, u \in Nat \ {0}, k \in Nat, age \in Nat, off \in Int :
              /\ p = period /\ p = xt_tick_cycles /\ Tick \div p = u /\ Tick = u * p
              /\ k = p * xt_skip_tick /\ k + p + MaxStep <= W - 1
              /\ lag = u * age + off /\ Within(off, changes) /\ Aged(age)
<1>1. Typed /\ \E age \in Nat : Aged(age)
  BY DEF Exact
<1>2. PICK age \in Nat : Aged(age)
  BY <1>1
<1>3. PICK p \in Periods : p = period /\ p = xt_tick_cycles
  BY <1>1 DEF Typed
<1>4. PICK u \in Nat \ {0} : Tick \div p = u /\ Tick = u * p
  BY Unit
<1>5. PICK k \in Nat : k = p * xt_skip_tick /\ k + p + MaxStep <= W - 1
  BY <1>1, <1>3, Room DEF Typed, Fits
<1>6. PICK off \in Int : lag = u * age + off /\ Within(off, changes)
  <2>1. lag \in Int /\ u * age \in Int
    BY <1>1 DEF Typed
  <2>2. lag - u * age \in Int /\ lag = u * age + (lag - u * age)
    BY <2>1
  <2>3. Within(lag - u * age, changes)
    BY <1>2, <1>3, <1>4 DEF Aged
  <2> QED BY <2>2, <2>3
<1> QED BY <1>1, <1>2, <1>3, <1>4, <1>5, <1>6

LEMMA Kinds ==
  ASSUME Timing, Typed
  PROVE  /\ CCOUNT \in 0 .. W - 1 /\ pending \in BOOLEAN
         /\ xt_skip_tick \in Nat /\ toUnblock \in Nat /\ spent \in Nat
         /\ xt_skip_tick < xMaxSuppressedTicks
         /\ ret \in Open \ {"asleep"}
         /\ xMaxSuppressedTicks \in Nat /\ xMaxSuppressedTicks >= 2
         /\ Delay \in Nat /\ MaxLate + 2 * Delay + 6 * MaxStep <= INT32_MAX
<1>1. PICK b \in BootPeriods : xMaxSuppressedTicks = (W - 1) \div b
  BY DEF Typed
<1>2. xMaxSuppressedTicks \in Nat /\ xMaxSuppressedTicks >= 2
  <2>1. b \in Periods
    BY TickAssumption
  <2> QED BY <1>1, <2>1, Room
<1>3. Delay \in Nat /\ MaxLate + 2 * Delay + 6 * MaxStep <= INT32_MAX
  BY Delayed DEF Typed
<1> QED BY <1>2, <1>3 DEF Typed

\* The code's steps take no time.
LEMMA Then ==
  ASSUME Timing, Typed, UNCHANGED <<CCOUNT, clock, xMaxSuppressedTicks>>,
         pending' \in BOOLEAN, xt_skip_tick' \in Nat, spent' \in Nat, toUnblock' \in Nat,
         xt_skip_tick' < xMaxSuppressedTicks, ret' \in Open \ {"asleep"},
         pc' \in Open \/ pc' \in {"sleep", "wake", "set", "check", "handler", "count_tick"},
         NEW p \in Periods, NEW u \in Nat \ {0}, NEW a \in Nat, NEW off \in Int,
         p = period, p = xt_tick_cycles, Tick \div p = u,
         lag' = u * a + off, Within(off, changes),
         InTask(a)', Suspended(a)', Asleep(a)', MovingBack(a)', InHandler(a)', Begun(a)'
  PROVE  Exact'
<1>1. period' = period /\ xt_tick_cycles' = xt_tick_cycles /\ changes' = changes
  BY DEF clock
<1>2. pc' \notin Adapting /\ pc' # "check_remainder"
  BY DEF Open, Adapting
<1>3. u * a \in Int /\ lag' \in Int /\ lag' - u * a = off
  OBVIOUS
<1>4. Typed'
  BY <1>1, <1>2, <1>3 DEF Typed
<1>5. Within(lag - (Tick \div period) * a, changes)'
  BY <1>1, <1>3 DEF Within
<1>6. Aged(a)'
  BY <1>2, <1>5 DEF Aged, Scaled
<1> QED BY <1>2, <1>4, <1>6 DEF Exact

LEMMA CycleInv ==
  ASSUME Timing, Exact, Cycle
  PROVE  Exact'
<1>t. Typed
  BY DEF Exact
<1>p. PICK p \in Periods : p = period
  BY <1>t DEF Typed
<1>c. /\ W \in Nat \ {0} /\ p \in Nat \ {0} /\ INT32_MAX \in Nat
      /\ 2 * INT32_MAX + 2 <= W /\ p <= INT32_MAX
      /\ MaxStep \in Nat /\ MaxLate \in Nat /\ MaxStep > 0
      /\ 4 * MaxStep <= p
  BY Constants
<1>k. PICK delay \in Nat : delay = Delay /\ MaxLate + 2 * delay + 6 * MaxStep <= INT32_MAX
  BY <1>t, Kinds
<1>1. /\ CCOUNT' = Plus(CCOUNT, 1) /\ pending' = (pending \/ CCOUNT' = CCOMPARE)
      /\ UNCHANGED <<CCOMPARE, toUnblock, changes, period, xt_tick_cycles, pc, ret,
                     ulOldCCompare, first_blocked_tick, ccompare, now, uret,
                     xMaxSuppressedTicks, xt_skip_tick>>
      /\ spent' \in {0, spent + 1} /\ Delay' = delay
  BY <1>k DEF Cycle, clock, locals, Delay
<1>2. Typed'
  <2>1. Plus(CCOUNT, 1) \in 0 .. W - 1
    <3>1. CCOUNT \in 0 .. W - 1 /\ 1 \in Int
      BY <1>t DEF Typed
    <3> QED BY ONLY <1>c, <3>1, Counter
  <2>2. spent \in Nat /\ spent' \in Nat
    BY <1>t, <1>1 DEF Typed
  <2>3. pending' \in BOOLEAN
    BY <1>t, <1>1 DEF Typed
  <2>4. lag' \in Int
    <3>1. PICK u \in Nat \ {0} : Tick \div p = u
      BY Unit
    <3>2. lag' = lag \/ lag' = lag + u
      BY <1>p, <3>1 DEF Cycle
    <3> QED BY <1>t, <3>2 DEF Typed
  <2> QED BY <1>t, <1>1, <2>1, <2>2, <2>3, <2>4 DEF Typed
<1>s. /\ spent \in Nat /\ spent' \in Nat /\ toUnblock \in Nat /\ xt_skip_tick \in Nat
      /\ pending \in BOOLEAN /\ pending' \in BOOLEAN
  BY <1>t, <1>2 DEF Typed
<1>3. ASSUME pc # "ended", pc \notin Adapting PROVE \E age \in Nat : Aged(age)'
  <2>a. PICK q \in Periods, u \in Nat \ {0}, k \in Nat, age \in Nat, off \in Int :
          /\ q = period /\ Tick \div q = u
          /\ k = q * xt_skip_tick /\ k + q + MaxStep <= W - 1
          /\ lag = u * age + off /\ Within(off, changes) /\ Aged(age)
    BY <1>3, Now
  <2>1. Within(lag - (Tick \div period) * (age + 1), changes)'
    <3>1. lag' = lag + u
      BY <2>a, <1>3 DEF Cycle
    <3>2. u * (age + 1) = u * age + u /\ u * age \in Int
      OBVIOUS
    <3>3. lag' - u * (age + 1) = off
      BY <2>a, <3>1, <3>2
    <3> QED BY <2>a, <1>1, <3>3 DEF Within
  <2>2. \A e \in Int : Plus(CCOUNT, e) = Plus(CCOUNT', e - 1)
    BY <1>t, <1>c, <1>1, Counter DEF Typed
  <2>3. k = p * xt_skip_tick /\ k + p + MaxStep <= W - 1
    BY <2>a, <1>p
  <2>4. InTask(age + 1)'
    <3> SUFFICES ASSUME pc = "task" PROVE InTask(age + 1)'
      BY <1>1, <1>k DEF InTask
    <3>1. /\ xt_skip_tick = 0 /\ toUnblock = 0
          /\ CCOMPARE = Plus(CCOUNT, p - age) /\ (pending <=> p - age <= 0)
          /\ age - p <= MaxLate + delay /\ age - p <= spent + delay
      BY <2>a, <1>p, <1>k DEF Aged, InTask, Timer
    <3>2. 1 - W < p - age /\ p - age <= W
      BY <1>c, <1>k, <3>1
    <3>3. CCOMPARE' = Plus(CCOUNT', (p - age) - 1) /\ (pending' <=> (p - age) - 1 <= 0)
      BY <1>t, <1>1, <1>2, <1>c, <3>1, <3>2, TimerRuns
    <3>4. (p - age) - 1 = p - (age + 1)
      BY <1>c
    <3>5. pending => spent < MaxLate /\ spent' = spent + 1
      BY <1>t, <1>1 DEF Cycle, MayStay, Typed
    <3>6. (age + 1) - p <= MaxLate + delay /\ (age + 1) - p <= spent' + delay
      <4>1. PICK s \in Nat : s = spent'
        BY <1>s
      <4>2. CASE pending
        <5>1. spent < MaxLate /\ s = spent + 1
          BY <3>5, <4>1, <4>2
        <5>2. (age + 1) - p <= MaxLate + delay /\ (age + 1) - p <= s + delay
          BY <1>s, <1>c, <3>1, <5>1
        <5> QED BY <4>1, <5>2
      <4>3. CASE ~pending
        <5>1. age - p <= -1
          BY <1>c, <3>1, <4>3
        <5>2. (age + 1) - p <= MaxLate + delay /\ (age + 1) - p <= s + delay
          BY <1>c, <5>1
        <5> QED BY <4>1, <5>2
      <4> QED BY <1>s, <4>2, <4>3
    <3> QED BY <1>1, <1>p, <3>1, <3>3, <3>4, <3>6, <1>k DEF InTask, Timer
  <2>5. Suspended(age + 1)'
    <3> SUFFICES ASSUME pc \in {"suspended", "sleep", "resume"} PROVE Suspended(age + 1)'
      BY <1>1 DEF Suspended
    <3>1. /\ xt_skip_tick = 0 /\ (pc # "resume" => toUnblock >= 2)
          /\ CCOMPARE = Plus(CCOUNT, p - age) /\ (pending <=> p - age <= 0)
          /\ age - p <= MaxStep + spent /\ spent <= MaxStep
      BY <2>a, <1>p DEF Aged, Suspended, Timer
    <3>2. 1 - W < p - age /\ p - age <= W
      BY <1>s, <1>c, <3>1
    <3>3. CCOMPARE' = Plus(CCOUNT', (p - age) - 1) /\ (pending' <=> (p - age) - 1 <= 0)
      BY <1>t, <1>1, <1>2, <1>c, <3>1, <3>2, TimerRuns
    <3>4. (p - age) - 1 = p - (age + 1)
      BY <1>c
    <3>5. spent < MaxStep /\ spent' = spent + 1
      BY DEF Cycle, MayStay
    <3>7. (age + 1) - p <= MaxStep + spent' /\ spent' <= MaxStep
      BY <1>s, <1>c, <3>1, <3>5
    <3> QED BY <1>1, <1>p, <3>1, <3>3, <3>4, <3>7 DEF Suspended, Timer
  <2>6. Asleep(age + 1)'
    <3> SUFFICES ASSUME pc \in {"asleep", "woken", "wake"} PROVE Asleep(age + 1)'
      BY <1>1, <1>k DEF Asleep
    <3>0. period * xt_skip_tick + period = k + p
      BY <2>3, <1>p
    <3>1. /\ CCOMPARE = Plus(CCOUNT, k + p - age) /\ (pending <=> k + p - age <= 0)
          /\ age - (k + p) <= spent + 2 * delay
          /\ pc = "woken" \/ age - (k + p) <= spent
          /\ xt_skip_tick > 0 => age - (k + p) <= spent
          /\ pc = "asleep" => age <= k + p
          /\ pc # "asleep" => spent <= MaxStep
          /\ xt_skip_tick > 0 =>
               /\ xt_skip_tick < toUnblock /\ ccompare = CCOMPARE
               /\ first_blocked_tick = Plus(CCOUNT, p - age)
      <4>1. Asleep(age)
        BY <2>a DEF Aged
      <4>2. /\ Timer((k + p) - age)
            /\ age - (k + p) <= spent \/ (pc = "woken" /\ age - (k + p) <= spent + 2 * delay)
            /\ xt_skip_tick > 0 => age - (k + p) <= spent
            /\ IF pc = "asleep" THEN age <= k + p ELSE spent <= MaxStep
            /\ xt_skip_tick > 0 =>
                 /\ xt_skip_tick < toUnblock /\ ccompare = CCOMPARE
                 /\ first_blocked_tick = Plus(CCOUNT, p - age)
        BY <4>1, <3>0, <1>p, <1>k DEF Asleep
      <4> QED BY <1>s, <1>c, <1>k, <4>2 DEF Timer
    <3>2. 1 - W < k + p - age /\ k + p - age <= W
      <4>1. CASE xt_skip_tick > 0
        BY <1>s, <1>c, <2>3, <3>1, <4>1
      <4>2. CASE xt_skip_tick = 0
        <5>1. k = 0
          BY <2>3, <1>c, <4>2
        <5>2. spent <= MaxStep \/ age <= k + p
          BY <3>1
        <5> QED BY <1>s, <1>c, <1>k, <3>1, <5>1, <5>2
      <4> QED BY <1>s, <4>1, <4>2
    <3>3. /\ CCOMPARE' = Plus(CCOUNT', (k + p - age) - 1)
          /\ pending' <=> (k + p - age) - 1 <= 0
      BY <1>t, <1>1, <1>2, <1>c, <3>1, <3>2, TimerRuns
    <3>4. (k + p - age) - 1 = k + p - (age + 1) /\ (p - age) - 1 = p - (age + 1)
      BY <1>c
    <3>5. /\ pc # "asleep" => spent < MaxStep /\ spent' = spent + 1
          /\ pc = "asleep" => ~pending
      BY DEF Cycle, MayStay
    <3>6. /\ (age + 1) - (k + p) <= spent' + 2 * delay
          /\ pc = "woken" \/ (age + 1) - (k + p) <= spent'
          /\ xt_skip_tick > 0 => (age + 1) - (k + p) <= spent'
          /\ pc = "asleep" => age + 1 <= k + p
          /\ pc # "asleep" => spent' <= MaxStep
      <4>1. PICK s \in Nat : s = spent'
        BY <1>s
      <4>2. s \in {0, spent + 1} /\ (pc # "asleep" => s = spent + 1)
        BY <1>1, <3>5, <4>1
      <4>3. /\ (age + 1) - (k + p) <= s + 2 * delay
            /\ pc = "woken" \/ (age + 1) - (k + p) <= s
            /\ xt_skip_tick > 0 => (age + 1) - (k + p) <= s
            /\ pc = "asleep" => age + 1 <= k + p
            /\ pc # "asleep" => s <= MaxStep
        BY <1>s, <1>c, <3>1, <3>5, <4>2
      <4> QED BY <4>1, <4>3
    <3>7. first_blocked_tick = Plus(CCOUNT, p - age) =>
            first_blocked_tick = Plus(CCOUNT', p - (age + 1))
      <4>1. p - age \in Int
        BY <1>c
      <4> QED BY <2>2, <3>4, <4>1
    <3>8. period' * xt_skip_tick' + period' = k + p
      BY <1>1, <3>0
    <3>9. Timer((k + p) - (age + 1))'
      BY <1>s, <1>c, <3>3, <3>4 DEF Timer
    <3> QED BY <1>1, <1>p, <3>1, <3>3, <3>4, <3>6, <3>7, <3>8, <3>9, <1>k DEF Asleep
  <2>7. MovingBack(age + 1)'
    <3>1. CASE pc = "set"
      <4>1. /\ ccompare = Plus(CCOUNT, p - age) /\ spent <= MaxStep
            /\ \/ age < 2 * MaxStep + spent
               \/ toUnblock >= 1 /\ age < p + spent
        BY <2>a, <3>1, <1>p DEF Aged, MovingBack
      <4>2. ccompare' = Plus(CCOUNT', p - (age + 1))
        <5>1. p - age \in Int /\ (p - age) - 1 = p - (age + 1)
          BY <1>c
        <5> QED BY <1>1, <2>2, <4>1, <5>1
      <4>3. spent < MaxStep /\ spent' = spent + 1
        BY <3>1 DEF Cycle, MayStay
      <4>4. /\ spent' <= MaxStep
            /\ \/ age + 1 < 2 * MaxStep + spent'
               \/ toUnblock' >= 1 /\ age + 1 < p + spent'
        BY <1>s, <1>1, <1>c, <4>1, <4>3
      <4> QED BY <3>1, <1>1, <1>p, <4>2, <4>4 DEF MovingBack
    <3>2. CASE pc = "check"
      <4>1. /\ ccompare = CCOMPARE /\ spent <= MaxStep
            /\ CCOMPARE = Plus(CCOUNT, p - age)
            /\ pending <=> p - age <= 0 /\ 0 < p - age + spent
            /\ \/ age < 3 * MaxStep + spent
               \/ toUnblock >= 1 /\ age < p + MaxStep + spent
        BY <2>a, <3>2, <1>p DEF Aged, MovingBack, TimerSet
      <4>2. 1 - W < p - age /\ p - age <= W
        BY <1>s, <1>c, <4>1
      <4>3. /\ CCOMPARE' = Plus(CCOUNT', (p - age) - 1)
            /\ pending' <=> (p - age) - 1 <= 0 /\ 0 < ((p - age) - 1) + (spent + 1)
        BY <1>t, <1>2, <1>s, <1>1, <1>c, <4>1, <4>2, TimerRuns
      <4>4. (p - age) - 1 = p - (age + 1)
        BY <1>c
      <4>5. spent < MaxStep /\ spent' = spent + 1
        BY <3>2 DEF Cycle, MayStay
      <4>6. /\ spent' <= MaxStep
            /\ \/ age + 1 < 3 * MaxStep + spent'
               \/ toUnblock' >= 1 /\ age + 1 < p + MaxStep + spent'
        BY <1>s, <1>1, <1>c, <4>1, <4>5
      <4> QED BY <3>2, <1>1, <1>p, <4>1, <4>3, <4>4, <4>5, <4>6 DEF MovingBack, TimerSet
    <3> QED BY <1>1, <3>1, <3>2 DEF MovingBack
  <2>8. InHandler(age + 1)'
    <3> SUFFICES ASSUME pc \in {"handler", "count_tick"} PROVE InHandler(age + 1)'
      BY <1>1, <1>k DEF InHandler
    <3>1. /\ xt_skip_tick = 0 /\ p <= age /\ spent <= MaxStep
          /\ ret = "task" => toUnblock = 0
          /\ ret = "suspended" => toUnblock >= 2
      BY <2>a, <1>p, <1>k DEF Aged, InHandler
    <3>2. spent < MaxStep /\ spent' = spent + 1
      BY DEF Cycle, MayStay
    <3>3. p - age \in Int /\ (p - age) - 1 = p - (age + 1)
      BY <1>c
    <3>4. p <= age + 1 /\ spent' <= MaxStep
      BY <1>s, <1>c, <3>1, <3>2
    <3>5. CASE pc = "handler"
      <4>1. CCOMPARE = Plus(CCOUNT, p - age) /\ age - p <= MaxLate + 2 * delay + 4 * MaxStep + spent
        BY <2>a, <3>5, <1>p, <1>k DEF Aged, InHandler
      <4>2. CCOMPARE' = Plus(CCOUNT', p - (age + 1))
        BY <1>1, <2>2, <3>3, <4>1
      <4>3. (age + 1) - p <= MaxLate + 2 * delay + 4 * MaxStep + spent'
        BY <1>s, <1>c, <1>k, <3>2, <4>1
      <4> QED BY <1>1, <1>p, <3>1, <3>4, <3>5, <4>2, <4>3, <1>k DEF InHandler
    <3>6. CASE pc = "count_tick"
      <4>1. /\ ulOldCCompare = Plus(CCOUNT, p - age)
            /\ CCOMPARE = Plus(CCOUNT, 2 * p - age)
            /\ pending <=> 2 * p - age <= 0 /\ 0 < 2 * p - age + spent
            /\ age - p <= MaxLate + 2 * delay + 5 * MaxStep + spent
        BY <2>a, <3>6, <1>p, <1>k DEF Aged, InHandler, TimerSet
      <4>2. 2 * p - age \in Int /\ 1 - W < 2 * p - age /\ 2 * p - age <= W
        BY <1>s, <1>c, <1>k, <3>1, <4>1
      <4>3. /\ CCOMPARE' = Plus(CCOUNT', (2 * p - age) - 1)
            /\ pending' <=> (2 * p - age) - 1 <= 0
                            /\ 0 < ((2 * p - age) - 1) + (spent + 1)
        BY <1>t, <1>1, <1>2, <1>c, <4>1, <4>2, TimerRuns DEF Typed
      <4>4. (2 * p - age) - 1 = 2 * p - (age + 1)
        BY <1>c
      <4>5. ulOldCCompare' = Plus(CCOUNT', p - (age + 1))
        BY <1>1, <2>2, <3>3, <4>1
      <4>6. (age + 1) - p <= MaxLate + 2 * delay + 5 * MaxStep + spent'
        BY <1>s, <1>c, <1>k, <3>2, <4>1
      <4> QED BY <1>1, <1>p, <3>1, <3>2, <3>4, <3>6, <4>3, <4>4, <4>5, <4>6
              DEF InHandler, TimerSet
    <3> QED BY <3>5, <3>6
  <2>9. Scaled(age + 1)'
    <3> SUFFICES ASSUME pc = "check_remainder" PROVE Scaled(age + 1)'
      BY <1>1 DEF Scaled
    <3>1. /\ xt_skip_tick = 0 /\ (uret = "task" => toUnblock = 0)
          /\ CCOMPARE = Plus(CCOUNT, p - age)
          /\ pending <=> p - age <= 0 /\ 0 < p - age + spent
          /\ age > 0 /\ age - p <= 3 * MaxStep + spent /\ spent <= MaxStep
      BY <2>a, <1>p DEF Aged, Scaled, TimerSet
    <3>2. 1 - W < p - age /\ p - age <= W
      BY <1>s, <1>c, <1>k, <3>1
    <3>3. /\ CCOMPARE' = Plus(CCOUNT', (p - age) - 1)
          /\ pending' <=> (p - age) - 1 <= 0 /\ 0 < ((p - age) - 1) + (spent + 1)
      BY <1>t, <1>2, <1>s, <1>1, <1>c, <3>1, <3>2, TimerRuns
    <3>4. (p - age) - 1 = p - (age + 1)
      BY <1>c
    <3>5. spent < MaxStep /\ spent' = spent + 1
      BY DEF Cycle, MayStay
    <3>6. /\ spent' <= MaxStep /\ age + 1 > 0 /\ (age + 1) - p <= 3 * MaxStep + spent'
      BY <1>s, <1>c, <3>1, <3>5
    <3> QED BY <1>1, <1>p, <3>1, <3>3, <3>4, <3>5, <3>6 DEF Scaled, TimerSet
  <2>10. Begun(age + 1)'
    <3>1. age + 1 > 0
      OBVIOUS
    <3>2. pc = "count_tick" => age + 1 > p
      <4>1. pc = "count_tick" => p <= age
        BY <2>a, <1>p, <1>k DEF Aged, InHandler
      <4> QED BY <4>1, <1>c
    <3> QED BY <1>1, <1>p, <3>1, <3>2 DEF Begun
  <2>11. Aged(age + 1)'
    BY <2>1, <2>4, <2>5, <2>6, <2>7, <2>8, <2>9, <2>10 DEF Aged
  <2>12. age + 1 \in Nat
    OBVIOUS
  <2> QED BY <2>11, <2>12
<1>4. ASSUME pc \in Adapting, NEW age \in Nat, NEW e \in Nat, Changed(age, e)
      PROVE  \E a \in Nat, b \in Nat : Changed(a, b)'
  <2>a. Changed(age, e)
    BY <1>4
  <2>q. PICK q \in Periods : q = xt_tick_cycles
    BY <1>t DEF Typed
  <2>b. q \in Nat \ {0} /\ 4 * MaxStep <= q /\ q <= INT32_MAX
    BY Constants
  <2>1. spent < MaxStep /\ spent' = spent + 1
    BY <1>4 DEF Cycle, MayStay, Adapting
  <2>2. Within(lag - (Tick \div xt_tick_cycles) * age - (Tick \div period) * (e + 1),
               changes - 1)'
    <3>1. PICK u \in Nat \ {0} : Tick \div p = u
      BY Unit
    <3>2. PICK v \in Nat \ {0} : Tick \div q = v
      BY Unit
    <3>3. lag' = lag + u
      BY <1>p, <1>4, <3>1 DEF Cycle, Adapting
    <3>4. u * (e + 1) = u * e + u /\ u * e \in Int /\ v * age \in Int /\ lag \in Int
      BY <1>t DEF Typed
    <3>5. lag' - v * age - u * (e + 1) = lag - v * age - u * e
      BY <3>3, <3>4
    <3>6. Within(lag - v * age - u * e, changes - 1)
      BY <2>a, <2>q, <1>p, <3>1, <3>2, <1>k DEF Changed
    <3> QED BY <1>1, <1>p, <2>q, <3>1, <3>2, <3>5, <3>6 DEF Within
  <2>3. now \in 0 .. W - 1 /\ CCOUNT' = Plus(now, e + 1)
    <3>1. now \in 0 .. W - 1 /\ CCOUNT = Plus(now, e)
      BY <2>a, <1>k DEF Changed
    <3>2. Plus(Plus(now, e), 1) = Plus(now, e + 1)
      BY ONLY <1>c, <3>1, e \in Int, 1 \in Int, CounterAdds
    <3> QED BY <1>1, <3>1, <3>2
  <2>4. age > 0 /\ spent' <= MaxStep /\ (uret = "task" => toUnblock = 0)
    BY <2>a, <2>1, <1>s, <1>c, <1>k DEF Changed
  <2>5. pc = "update_set" =>
          /\ uret = "woken" /\ toUnblock >= 1 /\ e + 1 <= spent'
          /\ ccompare = Plus(now, q - age)
          /\ age < q
    BY <2>a, <2>q, <2>1, <1>s, <1>k DEF Changed
  \* The timer, as far as it is known.
  <2>6. ASSUME NEW d \in Int, d = q - age - e, 1 - W < d, d <= W,
               CCOMPARE = Plus(now, q - age)
        PROVE  /\ (pending <=> d <= 0) => (pending' <=> q - age - (e + 1) <= 0)
               /\ (pending => d <= 0) => (pending' => q - age - (e + 1) <= 0)
    <3>1. CCOMPARE = Plus(CCOUNT, d)
      <4>1. now \in 0 .. W - 1 /\ CCOUNT = Plus(now, e)
        BY <2>a, <1>k DEF Changed
      <4>2. e + d = q - age /\ e \in Int
        BY <2>6, <2>b
      <4>3. Plus(Plus(now, e), d) = Plus(now, e + d)
        BY ONLY <1>c, <4>1, <4>2, d \in Int, CounterAdds
      <4> QED BY <2>6, <4>1, <4>2, <4>3
    <3>2. (pending <=> d <= 0) => (pending' <=> d - 1 <= 0)
      BY <1>t, <1>1, <1>2, <2>6, <3>1, TimerRuns
    <3>3. (pending => d <= 0) => (pending' => d - 1 <= 0)
      <4>1. CASE pending
        BY <4>1
      <4>2. CASE ~pending /\ d <= 0
        BY <4>2
      <4>3. CASE ~pending /\ ~(d <= 0)
        BY <4>3, <3>2
      <4> QED BY <4>1, <4>2, <4>3
    <3> QED BY <2>6, <2>b, <3>2, <3>3
  <2>7. pc = "update_check" =>
          /\ uret = "woken" /\ toUnblock >= 1 /\ e + 1 <= MaxStep + spent'
          /\ pending' => q - age - (e + 1) <= 0
          /\ CCOMPARE = Plus(now, q - age) /\ ccompare = CCOMPARE
          /\ age < q
    <3> SUFFICES ASSUME pc = "update_check"
                 PROVE  /\ uret = "woken" /\ toUnblock >= 1 /\ e + 1 <= MaxStep + spent'
                        /\ pending' => q - age - (e + 1) <= 0
                        /\ CCOMPARE = Plus(now, q - age) /\ ccompare = CCOMPARE
                        /\ age < q
      OBVIOUS
    <3>1. /\ uret = "woken" /\ toUnblock >= 1 /\ e <= MaxStep + spent
          /\ pending => q - age - e <= 0
          /\ CCOMPARE = Plus(now, q - age) /\ ccompare = CCOMPARE
          /\ age < q
      BY <2>a, <2>q, <1>k DEF Changed
    <3>2. q - age - e \in Int /\ 1 - W < q - age - e /\ q - age - e <= W
      BY <1>s, <1>c, <1>k, <2>b, <2>1, <3>1
    <3>3. pending' => q - age - (e + 1) <= 0
      BY <2>6, <3>1, <3>2
    <3> QED BY <1>s, <1>c, <2>1, <3>1, <3>3
  <2>8. pc = "remainder" =>
          /\ xt_skip_tick = 0
          /\ CCOMPARE = Plus(now, q - age)
          /\ pending' <=> q - age - (e + 1) <= 0
          /\ e + 1 <= 2 * MaxStep + spent'
          /\ age > q => e + 1 <= spent'
          /\ uret = "task" => age - q <= MaxLate + (delay - MaxStep)
          /\ uret = "woken" => age - q <= 2 * delay - MaxStep
    <3> SUFFICES ASSUME pc = "remainder"
                 PROVE  /\ xt_skip_tick = 0
                        /\ CCOMPARE = Plus(now, q - age)
                        /\ pending' <=> q - age - (e + 1) <= 0
                        /\ e + 1 <= 2 * MaxStep + spent'
                        /\ age > q => e + 1 <= spent'
                        /\ uret = "task" => age - q <= MaxLate + (delay - MaxStep)
                        /\ uret = "woken" => age - q <= 2 * delay - MaxStep
      OBVIOUS
    <3>1. /\ xt_skip_tick = 0
          /\ CCOMPARE = Plus(now, q - age)
          /\ pending <=> q - age - e <= 0
          /\ e <= 2 * MaxStep + spent
          /\ age > q => e <= spent
          /\ uret = "task" => age - q <= MaxLate + (delay - MaxStep)
          /\ uret = "woken" => age - q <= 2 * delay - MaxStep
      BY <2>a, <2>q, <1>k DEF Changed
    <3>2. uret \in {"task", "woken"}
      BY <1>t, <1>4 DEF Typed
    <3>3. q - age - e \in Int /\ 1 - W < q - age - e /\ q - age - e <= W
      BY <1>s, <1>c, <1>k, <2>b, <2>1, <3>1, <3>2
    <3>4. pending' <=> q - age - (e + 1) <= 0
      BY <2>6, <3>1, <3>3
    <3>5. e + 1 <= 2 * MaxStep + spent' /\ (age > q => e + 1 <= spent')
      BY <1>s, <1>c, <2>1, <2>b, <3>1
    <3> QED BY <3>1, <3>4, <3>5
  <2>9. Changed(age, e + 1)'
    BY <1>1, <2>q, <2>2, <2>3, <2>4, <2>5, <2>7, <2>8, <1>k DEF Changed
  <2> QED BY <2>9
<1>6. ASSUME pc \in Adapting, NEW d \in Nat, NEW e \in Nat, Unscaled(d, e)
      PROVE  \E a \in Nat, b \in Nat : Unscaled(a, b)'
  <2>q. PICK q \in Periods : q = xt_tick_cycles
    BY <1>t DEF Typed
  <2>b. q \in Nat \ {0} /\ 5 * MaxStep <= q /\ q <= INT32_MAX
    BY Constants
  <2>1. spent < MaxStep /\ spent' = spent + 1
    BY <1>6 DEF Cycle, MayStay, Adapting
  <2>2. /\ now \in 0 .. W - 1 /\ CCOUNT = Plus(now, e) /\ q <= d /\ d < W
        /\ pc = "update_set" =>
             /\ ccompare = Plus(now, d) /\ d <= q + e
             /\ e + q < d + 2 * MaxStep + spent
        /\ pc = "update_check" =>
             /\ CCOMPARE = Plus(now, d) /\ ccompare = CCOMPARE /\ ~pending
             /\ d <= q + e
             /\ e + q < d + 3 * MaxStep + spent
        /\ pc = "remainder" =>
             /\ CCOMPARE = Plus(now, d) /\ ~pending
             /\ e + q < d + 4 * MaxStep + spent
    BY <1>6, <2>q DEF Unscaled
  <2>3. CCOUNT' = Plus(now, e + 1)
    <3>1. Plus(Plus(now, e), 1) = Plus(now, e + 1)
      BY ONLY <1>c, <2>2, e \in Int, 1 \in Int, CounterAdds
    <3> QED BY <1>1, <2>2, <3>1
  <2>4. /\ d <= q + e => d <= q + (e + 1)
        /\ e + q < d + 2 * MaxStep + spent => (e + 1) + q < d + 2 * MaxStep + spent'
        /\ e + q < d + 3 * MaxStep + spent => (e + 1) + q < d + 3 * MaxStep + spent'
        /\ e + q < d + 4 * MaxStep + spent => (e + 1) + q < d + 4 * MaxStep + spent'
    BY <2>1, <1>s, <1>c, <2>b
  \* The deadline is still ahead.
  <2>5. pc \in {"update_check", "remainder"} => ~pending'
    <3> SUFFICES ASSUME pc \in {"update_check", "remainder"} PROVE ~pending'
      OBVIOUS
    <3>1. CCOMPARE = Plus(now, d) /\ ~pending /\ e + q < d + 4 * MaxStep + spent
      BY <2>2, <1>s, <1>c, <2>b
    <3>2. e + 1 < d /\ (e + 1) \in Int /\ d - (e + 1) \in Int /\ 0 < d - (e + 1)
          /\ d - (e + 1) < W /\ -W < d - (e + 1) /\ (e + 1) + (d - (e + 1)) = d
      BY <3>1, <2>1, <2>2, <1>s, <1>c, <2>b
    <3>3. CCOMPARE = Plus(CCOUNT', d - (e + 1))
      <4>1. Plus(Plus(now, e + 1), d - (e + 1)) = Plus(now, (e + 1) + (d - (e + 1)))
        BY ONLY <1>c, <2>2, <3>2, CounterAdds
      <4> QED BY <2>3, <3>1, <3>2, <4>1
    <3>4. CCOUNT' # CCOMPARE
      <4>1. CCOUNT' \in 0 .. W - 1
        BY <1>2 DEF Typed
      <4>2. CCOUNT' = Plus(CCOUNT', d - (e + 1)) <=> d - (e + 1) = 0
        BY ONLY <1>c, <3>2, <4>1, Reached
      <4> QED BY <3>2, <3>3, <4>2
    <3> QED BY <1>1, <3>1, <3>4
  <2>6. Unscaled(d, e + 1)'
    <3>1. spent' <= MaxStep
      BY <2>1, <1>s, <1>c
    <3> QED BY <1>1, <2>q, <2>2, <2>3, <2>4, <2>5, <3>1 DEF Unscaled
  <2> QED BY <2>6
<1>5. pc' = pc
  BY <1>1
<1> QED BY <1>2, <1>3, <1>4, <1>5, <1>6 DEF Exact

LEMMA InterruptInv ==
  ASSUME Timing, Exact, Interrupt
  PROVE  Exact'
<1>0. pc \in Open /\ pending
  BY DEF Interrupt
<1>n. PICK p \in Periods, u \in Nat \ {0}, k \in Nat, age \in Nat, off \in Int :
        /\ p = period /\ p = xt_tick_cycles /\ Tick \div p = u /\ Tick = u * p
        /\ k = p * xt_skip_tick /\ k + p + MaxStep <= W - 1
        /\ lag = u * age + off /\ Within(off, changes) /\ Aged(age)
  BY <1>0, Now DEF Open, Adapting
<1>t. Typed
  BY <1>0, Now DEF Open, Adapting
<1>k. /\ CCOUNT \in 0 .. W - 1 /\ pending \in BOOLEAN
      /\ xt_skip_tick \in Nat /\ toUnblock \in Nat /\ spent \in Nat
      /\ xt_skip_tick < xMaxSuppressedTicks
      /\ xMaxSuppressedTicks \in Nat /\ xMaxSuppressedTicks >= 2
  BY <1>t, Kinds
<1>d. PICK delay \in Nat : delay = Delay /\ MaxLate + 2 * delay + 6 * MaxStep <= INT32_MAX
  BY <1>t, Kinds
<1>c. /\ W \in Nat \ {0} /\ p \in Nat \ {0} /\ INT32_MAX \in Nat
      /\ 2 * INT32_MAX + 2 <= W /\ p <= INT32_MAX
      /\ MaxStep \in Nat /\ MaxLate \in Nat /\ MaxStep > 0
      /\ 4 * MaxStep <= p
  BY Constants
<1>1. /\ xt_skip_tick' = 0 /\ spent' = 0 /\ pc' = "handler"
      /\ toUnblock' = toUnblock - xt_skip_tick /\ lag' = lag - xt_skip_tick * Tick
      /\ UNCHANGED <<CCOUNT, CCOMPARE, pending, clock, xMaxSuppressedTicks>>
      /\ Delay' = delay
  BY <1>d DEF Interrupt, EnterHandler, Step, Go, timer, clock, Delay
<1>2. ret' = (IF pc = "asleep" THEN "woken" ELSE pc)
  BY DEF Interrupt, EnterHandler
<1>3. ret' \in Open \ {"asleep"}
  BY <1>0, <1>2 DEF Open
<1>4. /\ CCOMPARE = Plus(CCOUNT, p - (age - k))
      /\ p <= age - k /\ (age - k) - p <= MaxLate + 2 * delay + 4 * MaxStep
      /\ toUnblock' \in Nat
      /\ ret' = "task" => toUnblock' = 0
      /\ ret' = "suspended" => toUnblock' >= 2
  <2>1. CASE pc = "task"
    <3>1. /\ xt_skip_tick = 0 /\ toUnblock = 0
          /\ CCOMPARE = Plus(CCOUNT, p - age) /\ (pending <=> p - age <= 0)
          /\ age - p <= MaxLate + delay
      BY <1>n, <2>1, <1>d DEF Aged, InTask, Timer
    <3>2. k = 0
      BY <1>n, <1>c, <3>1
    <3>3. p - (age - k) = p - age
      BY <1>c, <3>2
    <3>4. p <= age - k /\ (age - k) - p <= MaxLate + 2 * delay + 4 * MaxStep
      BY <1>0, <1>c, <1>k, <3>1, <3>2, <1>d
    <3> QED BY <1>1, <1>2, <2>1, <3>1, <3>3, <3>4
  <2>2. CASE pc \in {"suspended", "resume"}
    <3>1. /\ xt_skip_tick = 0 /\ (pc # "resume" => toUnblock >= 2)
          /\ CCOMPARE = Plus(CCOUNT, p - age) /\ (pending <=> p - age <= 0)
          /\ age - p <= MaxStep + spent /\ spent <= MaxStep
      BY <1>n, <2>2 DEF Aged, Suspended, Timer
    <3>2. k = 0
      BY <1>n, <1>c, <3>1
    <3>3. p - (age - k) = p - age
      BY <1>c, <3>2
    <3>4. p <= age - k /\ (age - k) - p <= MaxLate + 2 * delay + 4 * MaxStep
      BY <1>0, <1>c, <1>k, <3>1, <3>2, <1>d
    <3>5. toUnblock' = toUnblock
      BY <1>1, <1>k, <3>1
    <3> QED BY <1>k, <1>2, <2>2, <3>1, <3>3, <3>4, <3>5
  <2>3. CASE pc \in {"asleep", "woken"}
    <3>0. period * xt_skip_tick + period = k + p
      BY <1>n
    <3>1. Asleep(age)
      BY <1>n DEF Aged
    <3>2. /\ Timer((k + p) - age)
          /\ age - (k + p) <= spent \/ age - (k + p) <= spent + 2 * delay
          /\ IF pc = "asleep" THEN age <= k + p ELSE spent <= MaxStep
          /\ xt_skip_tick > 0 => xt_skip_tick < toUnblock
      BY <2>3, <3>1, <3>0, <1>d DEF Asleep
    <3>3. /\ CCOMPARE = Plus(CCOUNT, (k + p) - age) /\ (pending <=> (k + p) - age <= 0)
      BY <3>2 DEF Timer
    <3>4. (k + p) - age = p - (age - k)
      BY <1>c
    <3>5. p <= age - k /\ (age - k) - p <= MaxLate + 2 * delay + 4 * MaxStep
      BY <1>0, <1>c, <1>k, <3>2, <3>3, <1>d
    <3>6. toUnblock' \in Nat
      BY <1>1, <1>k, <3>2
    <3> QED BY <1>2, <2>3, <3>3, <3>4, <3>5, <3>6
  <2> QED BY <1>0, <2>1, <2>2, <2>3 DEF Open
<1>5. age - k \in Nat
  BY <1>c, <1>4
<1>6. lag' = u * (age - k) + off
  BY <1>n, <1>1, <1>k, <1>c, Counted
<1>7. InHandler(age - k)'
  <2>1. spent' = 0 /\ 0 <= MaxStep /\ period' = p
    <3>1. 0 <= MaxStep
      BY <1>c
    <3> QED BY <1>n, <1>1, <3>1 DEF clock
  <2>2. (age - k) - p <= MaxLate + 2 * delay + 4 * MaxStep + 0
    BY <1>4, <1>c, <1>d
  <2> QED BY <1>1, <1>4, <2>1, <2>2 DEF InHandler
<1>8. /\ InTask(age - k)' /\ Suspended(age - k)' /\ Asleep(age - k)'
      /\ MovingBack(age - k)' /\ Begun(age - k)'
  BY <1>1 DEF InTask, Suspended, Asleep, MovingBack, Begun
<1>9. /\ pending' \in BOOLEAN /\ xt_skip_tick' \in Nat /\ spent' \in Nat
      /\ xt_skip_tick' < xMaxSuppressedTicks
  BY <1>1, <1>k
<1> QED BY <1>n, <1>t, <1>1, <1>3, <1>4, <1>5, <1>6, <1>7, <1>8, <1>9, Then

LEMMA SetNextTickInv ==
  ASSUME Timing, Exact, SetNextTick
  PROVE  Exact'
<1>0. pc = "handler"
  BY DEF SetNextTick
<1>n. PICK p \in Periods, u \in Nat \ {0}, k \in Nat, age \in Nat, off \in Int :
        /\ p = period /\ p = xt_tick_cycles /\ Tick \div p = u /\ Tick = u * p
        /\ k = p * xt_skip_tick /\ k + p + MaxStep <= W - 1
        /\ lag = u * age + off /\ Within(off, changes) /\ Aged(age)
  BY <1>0, Now DEF Open, Adapting
<1>t. Typed
  BY <1>0, Now DEF Open, Adapting
<1>k. /\ CCOUNT \in 0 .. W - 1 /\ pending \in BOOLEAN
      /\ xt_skip_tick \in Nat /\ toUnblock \in Nat /\ spent \in Nat
      /\ xt_skip_tick < xMaxSuppressedTicks
      /\ xMaxSuppressedTicks \in Nat /\ xMaxSuppressedTicks >= 2
      /\ ret \in Open \ {"asleep"}
  BY <1>t, Kinds
<1>d. PICK delay \in Nat : delay = Delay /\ MaxLate + 2 * delay + 6 * MaxStep <= INT32_MAX
  BY <1>t, Kinds
<1>c. /\ W \in Nat \ {0} /\ p \in Nat \ {0} /\ INT32_MAX \in Nat
      /\ 2 * INT32_MAX + 2 <= W /\ p <= INT32_MAX
      /\ MaxStep \in Nat /\ MaxLate \in Nat /\ MaxStep > 0
      /\ 4 * MaxStep <= p
  BY Constants
<1>1. /\ xt_skip_tick' = xt_skip_tick /\ spent' = 0 /\ pc' = "count_tick"
      /\ CCOMPARE' = Plus(CCOMPARE, p) /\ pending' = FALSE /\ ulOldCCompare' = CCOMPARE
      /\ UNCHANGED <<CCOUNT, clock, xMaxSuppressedTicks, lag, toUnblock, ret>>
  BY <1>n DEF SetNextTick, xt_set_ccompare, Go, counts
<1>2. /\ CCOMPARE = Plus(CCOUNT, p - age)
      /\ p <= age /\ age - p <= MaxLate + 2 * delay + 4 * MaxStep + spent
      /\ xt_skip_tick = 0 /\ spent <= MaxStep
      /\ ret = "task" => toUnblock = 0
      /\ ret = "suspended" => toUnblock >= 2
  BY <1>0, <1>n, <1>d DEF Aged, InHandler
<1>3. CCOMPARE' = Plus(CCOUNT, 2 * p - age)
  <2>1. p - age \in Int /\ (p - age) + p = 2 * p - age /\ p \in Int
    BY <1>c
  <2>2. Plus(Plus(CCOUNT, p - age), p) = Plus(CCOUNT, (p - age) + p)
    BY ONLY <1>c, <1>k, <2>1, CounterAdds
  <2> QED BY <1>1, <1>2, <2>1, <2>2
<1>4. TimerSet(2 * p - age)'
  <2>1. ~(2 * p - age <= 0 /\ 0 < (2 * p - age) + 0)
    BY <1>c
  <2> QED BY <1>1, <1>3, <2>1 DEF TimerSet
<1>5. age - p <= MaxLate + 2 * delay + 5 * MaxStep
  BY <1>c, <1>k, <1>2, <1>d
<1>6. InHandler(age)'
  <2>0. period' = p /\ Delay' = delay
    BY <1>n, <1>1, <1>d DEF clock, Delay
  <2>1. spent' <= MaxStep
    BY <1>1, <1>c
  <2>2. age - p <= MaxLate + 2 * delay + 5 * MaxStep + spent'
    BY <1>1, <1>5, <1>c, <1>d
  <2>3. ulOldCCompare' = Plus(CCOUNT', p - age)
    BY <1>1, <1>2
  <2> QED BY <1>1, <1>2, <1>4, <2>0, <2>1, <2>2, <2>3, <1>d DEF InHandler
<1>7. /\ InTask(age)' /\ Suspended(age)' /\ Asleep(age)' /\ MovingBack(age)'
      /\ Begun(age)'
  BY <1>1 DEF InTask, Suspended, Asleep, MovingBack, Begun
<1>8. /\ pending' \in BOOLEAN /\ xt_skip_tick' \in Nat /\ spent' \in Nat
      /\ xt_skip_tick' < xMaxSuppressedTicks /\ toUnblock' \in Nat
      /\ lag' = u * age + off /\ ret' \in Open \ {"asleep"}
  BY <1>n, <1>1, <1>k
<1> QED BY <1>n, <1>t, <1>1, <1>6, <1>7, <1>8, Then

LEMMA CountTickInv ==
  ASSUME Timing, Exact, CountTick
  PROVE  Exact'
<1>0. pc = "count_tick" /\ spent > 0
  BY DEF CountTick
<1>n. PICK p \in Periods, u \in Nat \ {0}, k \in Nat, age \in Nat, off \in Int :
        /\ p = period /\ p = xt_tick_cycles /\ Tick \div p = u /\ Tick = u * p
        /\ k = p * xt_skip_tick /\ k + p + MaxStep <= W - 1
        /\ lag = u * age + off /\ Within(off, changes) /\ Aged(age)
  BY <1>0, Now DEF Open, Adapting
<1>t. Typed
  BY <1>0, Now DEF Open, Adapting
<1>k. /\ CCOUNT \in 0 .. W - 1 /\ pending \in BOOLEAN
      /\ xt_skip_tick \in Nat /\ toUnblock \in Nat /\ spent \in Nat
      /\ xt_skip_tick < xMaxSuppressedTicks
      /\ xMaxSuppressedTicks \in Nat /\ xMaxSuppressedTicks >= 2
      /\ ret \in Open \ {"asleep"}
  BY <1>t, Kinds
<1>d. PICK delay \in Nat : delay = Delay /\ MaxLate + 2 * delay + 6 * MaxStep <= INT32_MAX
  BY <1>t, Kinds
<1>c. /\ W \in Nat \ {0} /\ p \in Nat \ {0} /\ INT32_MAX \in Nat
      /\ 2 * INT32_MAX + 2 <= W /\ p <= INT32_MAX
      /\ MaxStep \in Nat /\ MaxLate \in Nat /\ MaxStep > 0
      /\ 4 * MaxStep <= p
  BY Constants
<1>1. /\ lag' = lag - 1 * Tick /\ pc' = (IF Behind THEN "handler" ELSE ret)
      /\ UNCHANGED <<CCOUNT, CCOMPARE, pending, clock, xMaxSuppressedTicks, toUnblock,
                     xt_skip_tick, ret>>
  <2>1. lag' = lag - Tick
    BY DEF CountTick, xTaskIncrementTick
  <2>2. Tick = 1 * Tick
    BY TickAssumption
  <2> QED BY <2>1, <2>2 DEF CountTick, xTaskIncrementTick, Go, timer
<1>2. /\ ulOldCCompare = Plus(CCOUNT, p - age) /\ CCOMPARE = Plus(CCOUNT, 2 * p - age)
      /\ pending <=> 2 * p - age <= 0 /\ 0 < 2 * p - age + spent
      /\ p < age /\ age - p <= MaxLate + 2 * delay + 5 * MaxStep + spent
      /\ xt_skip_tick = 0 /\ spent <= MaxStep
      /\ ret = "task" => toUnblock = 0
      /\ ret = "suspended" => toUnblock >= 2
  BY <1>0, <1>n, <1>k, <1>d DEF Aged, InHandler, TimerSet, Begun
<1>3. Behind <=> age - p > p
  <2>1. p - age \in Int /\ -W < p - age /\ p - age <= 0 /\ -(p - age) = age - p
    BY <1>c, <1>d, <1>k, <1>2
  <2>2. Minus(CCOUNT, ulOldCCompare) = age - p
    BY <1>c, <1>k, <1>2, <2>1, Counter
  <2>3. age - p <= INT32_MAX
    BY <1>c, <1>k, <1>2, <1>d
  <2> QED BY <1>n, <2>2, <2>3 DEF Behind
<1>4. spent' \in Nat /\ (pc' # "task" => spent' = 0)
  BY <1>1, <1>c DEF CountTick, Go
<1>5. /\ age - p \in Nat /\ age - p > 0 /\ 2 * p - age = p - (age - p)
      /\ lag' = u * (age - p) + off
  <2>1. p * 1 = p
    BY <1>c
  <2> QED BY <1>n, <1>1, <1>2, <1>c, <2>1, Counted
<1>6. CASE age - p > p
  <2>1. pc' = "handler"
    BY <1>1, <1>3, <1>6
  <2>2. (age - p) - p <= MaxLate + 2 * delay + 4 * MaxStep
    BY <1>c, <1>k, <1>2, <1>d
  <2>3. spent' = 0
    BY <1>4, <2>1
  <2>4. InHandler(age - p)'
    <3>0. period' = p /\ Delay' = delay
      BY <1>n, <1>1, <1>d DEF clock, Delay
    <3>1. spent' <= MaxStep /\ p <= age - p
      BY <1>6, <1>c, <2>3
    <3>2. (age - p) - p <= MaxLate + 2 * delay + 4 * MaxStep + spent'
      BY <2>2, <2>3, <1>c, <1>d
    <3>3. CCOMPARE' = Plus(CCOUNT', p - (age - p))
      BY <1>1, <1>2, <1>5
    <3> QED BY <1>1, <1>2, <2>1, <3>0, <3>1, <3>2, <3>3, <1>d DEF InHandler
  <2>5. /\ InTask(age - p)' /\ Suspended(age - p)' /\ Asleep(age - p)'
        /\ MovingBack(age - p)' /\ Begun(age - p)'
    BY <2>1 DEF InTask, Suspended, Asleep, MovingBack, Begun
  <2>6. /\ pending' \in BOOLEAN /\ xt_skip_tick' \in Nat /\ spent' \in Nat
        /\ xt_skip_tick' < xMaxSuppressedTicks /\ toUnblock' \in Nat
        /\ ret' \in Open \ {"asleep"}
    BY <1>1, <1>k, <1>4
  <2> QED BY <1>n, <1>t, <1>1, <1>5, <2>1, <2>4, <2>5, <2>6, Then
<1>7. CASE ~(age - p > p)
  <2>1. pc' = ret /\ ret \in {"task", "suspended", "woken", "resume"}
    BY <1>1, <1>3, <1>7, <1>k DEF Open
  <2>2. Timer(p - (age - p))'
    <3>1. pending <=> 2 * p - age <= 0
      BY <1>0, <1>2, <1>7, <1>c, <1>k
    <3>2. CCOMPARE = Plus(CCOUNT, p - (age - p)) /\ (pending <=> p - (age - p) <= 0)
      BY <1>2, <1>5, <3>1
    <3> QED BY <1>1, <3>2 DEF Timer
  <2>3. (age - p) - p <= 0 /\ 0 <= MaxLate /\ 0 <= spent' /\ 0 <= MaxStep
    BY <1>c, <1>4, <1>7
  <2>4. InTask(age - p)'
    <3>1. (age - p) - p <= MaxLate + delay /\ (age - p) - p <= spent' + delay
      <4>1. PICK s \in Nat : s = spent'
        BY <1>4
      <4>2. (age - p) - p <= MaxLate + delay /\ (age - p) - p <= s + delay
        BY <2>3, <1>c, <1>d
      <4> QED BY <4>1, <4>2
    <3>2. Delay' = delay
      BY <1>1, <1>d DEF clock, Delay
    <3> QED BY <1>n, <1>1, <1>2, <2>1, <2>2, <3>1, <3>2, <1>d DEF InTask, clock
  <2>5. Suspended(age - p)'
    <3>1. pc' # "task" => (age - p) - p <= MaxStep + spent' /\ spent' <= MaxStep
      BY <2>3, <1>c, <1>4
    <3> QED BY <1>n, <1>1, <1>2, <2>1, <2>2, <3>1 DEF Suspended, clock
  <2>6. Asleep(age - p)'
    <3>1. p * 0 + p = p
      BY <1>c
    <3>2. (age - p) - p <= spent' /\ (pc' # "task" => spent' <= MaxStep)
      BY <2>3, <1>c, <1>4
    <3>3. ~(xt_skip_tick' > 0) /\ period' * xt_skip_tick' + period' = p
      <4>1. period' = p /\ xt_skip_tick' = 0
        BY <1>n, <1>1, <1>2 DEF clock
      <4> QED BY <4>1, <3>1
    <3> QED BY <2>1, <2>2, <3>2, <3>3, <1>d DEF Asleep
  <2>7. InHandler(age - p)' /\ MovingBack(age - p)' /\ Begun(age - p)'
    BY <1>5, <2>1 DEF InHandler, MovingBack, Begun
  <2>8. /\ pending' \in BOOLEAN /\ xt_skip_tick' \in Nat /\ spent' \in Nat
        /\ xt_skip_tick' < xMaxSuppressedTicks /\ toUnblock' \in Nat
        /\ ret' \in Open \ {"asleep"} /\ pc' \in Open
    BY <1>1, <1>k, <1>4, <2>1 DEF Open
  <2> QED BY <1>n, <1>t, <1>1, <1>5, <2>4, <2>5, <2>6, <2>7, <2>8, Then
<1> QED BY <1>6, <1>7

LEMMA SuspendInv ==
  ASSUME Timing, Exact, NEW e \in 2 .. MaxIdle, Suspend(e)
  PROVE  Exact'
<1>0. pc = "task" /\ ~pending
  BY DEF Suspend
<1>n. PICK p \in Periods, u \in Nat \ {0}, k \in Nat, age \in Nat, off \in Int :
        /\ p = period /\ p = xt_tick_cycles /\ Tick \div p = u /\ Tick = u * p
        /\ k = p * xt_skip_tick /\ k + p + MaxStep <= W - 1
        /\ lag = u * age + off /\ Within(off, changes) /\ Aged(age)
  BY <1>0, Now DEF Open, Adapting
<1>t. Typed
  BY <1>0, Now DEF Open, Adapting
<1>k. /\ CCOUNT \in 0 .. W - 1 /\ pending \in BOOLEAN
      /\ xt_skip_tick \in Nat /\ toUnblock \in Nat /\ spent \in Nat
      /\ xt_skip_tick < xMaxSuppressedTicks
      /\ xMaxSuppressedTicks \in Nat /\ xMaxSuppressedTicks >= 2
      /\ ret \in Open \ {"asleep"}
  BY <1>t, Kinds
<1>c. /\ W \in Nat \ {0} /\ p \in Nat \ {0} /\ INT32_MAX \in Nat
      /\ 2 * INT32_MAX + 2 <= W /\ p <= INT32_MAX
      /\ MaxStep \in Nat /\ MaxLate \in Nat /\ MaxStep > 0
      /\ 4 * MaxStep <= p
  BY Constants
<1>1. /\ spent' = 0 /\ pc' = "suspended" /\ toUnblock' = e
      /\ UNCHANGED <<CCOUNT, CCOMPARE, pending, xMaxSuppressedTicks, lag, xt_skip_tick, ret>>
  BY DEF Suspend, Go, timer
<1>2. UNCHANGED clock /\ period' = p
  BY <1>n DEF Suspend, clock
<1>3. /\ xt_skip_tick = 0
      /\ CCOMPARE = Plus(CCOUNT, p - age) /\ (pending <=> p - age <= 0)
  BY <1>0, <1>n DEF Aged, InTask, Timer
<1>4. age - p <= MaxStep + 0 /\ 0 <= MaxStep
  BY <1>0, <1>3, <1>c
<1>5. e \in Nat /\ e >= 2
  BY TickAssumption
<1>6. Suspended(age)'
  <2>1. Timer(p - age)'
    BY <1>1, <1>3 DEF Timer
  <2> QED BY <1>1, <1>2, <1>3, <1>4, <1>5, <2>1 DEF Suspended
<1>7. /\ InTask(age)' /\ InHandler(age)' /\ Asleep(age)' /\ MovingBack(age)'
      /\ Begun(age)'
  BY <1>0, <1>n, <1>1 DEF Aged, InTask, InHandler, Asleep, MovingBack, Begun
<1>8. /\ pending' \in BOOLEAN /\ xt_skip_tick' \in Nat /\ spent' \in Nat
      /\ xt_skip_tick' < xMaxSuppressedTicks /\ toUnblock' \in Nat
      /\ lag' = u * age + off /\ ret' \in Open \ {"asleep"} /\ pc' \in Open
  BY <1>n, <1>1, <1>5, <1>k DEF Open
<1> QED BY <1>n, <1>t, <1>1, <1>2, <1>6, <1>7, <1>8, Then

LEMMA ConfirmInv ==
  ASSUME Timing, Exact, Confirm
  PROVE  Exact'
<1>0. pc = "suspended" /\ ~pending
  BY DEF Confirm
<1>n. PICK p \in Periods, u \in Nat \ {0}, k \in Nat, age \in Nat, off \in Int :
        /\ p = period /\ p = xt_tick_cycles /\ Tick \div p = u /\ Tick = u * p
        /\ k = p * xt_skip_tick /\ k + p + MaxStep <= W - 1
        /\ lag = u * age + off /\ Within(off, changes) /\ Aged(age)
  BY <1>0, Now DEF Open, Adapting
<1>t. Typed
  BY <1>0, Now DEF Open, Adapting
<1>k. /\ CCOUNT \in 0 .. W - 1 /\ pending \in BOOLEAN
      /\ xt_skip_tick \in Nat /\ toUnblock \in Nat /\ spent \in Nat
      /\ xt_skip_tick < xMaxSuppressedTicks
      /\ xMaxSuppressedTicks \in Nat /\ xMaxSuppressedTicks >= 2
      /\ ret \in Open \ {"asleep"}
  BY <1>t, Kinds
<1>c. /\ W \in Nat \ {0} /\ p \in Nat \ {0} /\ INT32_MAX \in Nat
      /\ 2 * INT32_MAX + 2 <= W /\ p <= INT32_MAX
      /\ MaxStep \in Nat /\ MaxLate \in Nat /\ MaxStep > 0
      /\ 4 * MaxStep <= p
  BY Constants
<1>1. /\ spent' = 0 /\ pc' \in {"sleep", "resume"}
      /\ UNCHANGED <<CCOUNT, CCOMPARE, pending, xMaxSuppressedTicks, lag, toUnblock,
                     xt_skip_tick, ret>>
  BY DEF Confirm, Go, timer, counts
<1>2. UNCHANGED clock /\ period' = p
  BY <1>n DEF Confirm, clock
<1>3. /\ xt_skip_tick = 0 /\ toUnblock >= 2
      /\ CCOMPARE = Plus(CCOUNT, p - age) /\ (pending <=> p - age <= 0)
  BY <1>0, <1>n DEF Aged, Suspended, Timer
<1>4. age - p <= MaxStep + 0 /\ 0 <= MaxStep
  BY <1>0, <1>3, <1>c
<1>6. Suspended(age)'
  <2>1. Timer(p - age)'
    BY <1>1, <1>3 DEF Timer
  <2> QED BY <1>1, <1>2, <1>3, <1>4, <2>1 DEF Suspended
<1>7. /\ InTask(age)' /\ InHandler(age)' /\ Asleep(age)' /\ MovingBack(age)'
      /\ Begun(age)'
  BY <1>0, <1>n, <1>1 DEF Aged, InTask, InHandler, Asleep, MovingBack, Begun
<1>8. /\ pending' \in BOOLEAN /\ xt_skip_tick' \in Nat /\ spent' \in Nat
      /\ xt_skip_tick' < xMaxSuppressedTicks /\ toUnblock' \in Nat
      /\ lag' = u * age + off /\ ret' \in Open \ {"asleep"}
      /\ pc' \in Open \/ pc' \in {"sleep", "wake", "set", "check", "handler", "count_tick"}
  BY <1>n, <1>1, <1>k DEF Open
<1> QED BY <1>n, <1>t, <1>1, <1>2, <1>6, <1>7, <1>8, Then

LEMMA OtherInterruptInv ==
  ASSUME Timing, Exact, OtherInterrupt
  PROVE  Exact'
<1>0. pc = "asleep"
  BY DEF OtherInterrupt
<1>n. PICK p \in Periods, u \in Nat \ {0}, k \in Nat, age \in Nat, off \in Int :
        /\ p = period /\ p = xt_tick_cycles /\ Tick \div p = u /\ Tick = u * p
        /\ k = p * xt_skip_tick /\ k + p + MaxStep <= W - 1
        /\ lag = u * age + off /\ Within(off, changes) /\ Aged(age)
  BY <1>0, Now DEF Open, Adapting
<1>t. Typed
  BY <1>0, Now DEF Open, Adapting
<1>k. /\ CCOUNT \in 0 .. W - 1 /\ pending \in BOOLEAN
      /\ xt_skip_tick \in Nat /\ toUnblock \in Nat /\ spent \in Nat
      /\ xt_skip_tick < xMaxSuppressedTicks
      /\ xMaxSuppressedTicks \in Nat /\ xMaxSuppressedTicks >= 2
      /\ ret \in Open \ {"asleep"}
  BY <1>t, Kinds
<1>c. /\ W \in Nat \ {0} /\ p \in Nat \ {0} /\ INT32_MAX \in Nat
      /\ 2 * INT32_MAX + 2 <= W /\ p <= INT32_MAX
      /\ MaxStep \in Nat /\ MaxLate \in Nat /\ MaxStep > 0
      /\ 4 * MaxStep <= p
  BY Constants
<1>1. /\ spent' = 0 /\ pc' = "woken"
      /\ UNCHANGED <<CCOUNT, CCOMPARE, pending, xMaxSuppressedTicks, lag, toUnblock,
                     xt_skip_tick, ret, ccompare, first_blocked_tick>>
  BY DEF OtherInterrupt, Go, timer, counts, locals
<1>2. UNCHANGED clock /\ period' = p
  BY <1>n DEF OtherInterrupt, clock
<1>3. period * xt_skip_tick + period = k + p /\ period' * xt_skip_tick' + period' = k + p
  BY <1>n, <1>1, <1>2
<1>4. /\ Timer((k + p) - age)
      /\ age <= k + p
      /\ xt_skip_tick > 0 =>
           /\ xt_skip_tick < toUnblock /\ ccompare = CCOMPARE
           /\ first_blocked_tick = Plus(CCOUNT, p - age)
  <2>1. Asleep(age)
    BY <1>n DEF Aged
  <2> QED BY <1>0, <1>n, <1>3, <2>1 DEF Asleep
<1>5. age - (k + p) <= 0 /\ 0 <= MaxStep
  BY <1>0, <1>4, <1>c, <1>k DEF Timer
<1>6. Asleep(age)'
  <2>1. Timer((k + p) - age)'
    BY <1>1, <1>4 DEF Timer
  <2>2. xt_skip_tick' > 0 => first_blocked_tick' = Plus(CCOUNT', p - age)
    BY <1>1, <1>4
  <2> QED BY <1>1, <1>2, <1>3, <1>4, <1>5, <2>1, <2>2 DEF Asleep
<1>7. /\ InTask(age)' /\ InHandler(age)' /\ Suspended(age)' /\ MovingBack(age)'
      /\ Begun(age)'
  BY <1>0, <1>n, <1>1 DEF Aged, InTask, InHandler, Suspended, MovingBack, Begun
<1>8. /\ pending' \in BOOLEAN /\ xt_skip_tick' \in Nat /\ spent' \in Nat
      /\ xt_skip_tick' < xMaxSuppressedTicks /\ toUnblock' \in Nat
      /\ lag' = u * age + off /\ ret' \in Open \ {"asleep"}
      /\ pc' \in Open \/ pc' \in {"sleep", "wake", "set", "check", "handler", "count_tick"}
  BY <1>n, <1>1, <1>k DEF Open
<1> QED BY <1>n, <1>t, <1>1, <1>2, <1>6, <1>7, <1>8, Then

LEMMA MaskInv ==
  ASSUME Timing, Exact, Mask
  PROVE  Exact'
<1>0. pc = "woken" /\ ~pending
  BY DEF Mask
<1>n. PICK p \in Periods, u \in Nat \ {0}, k \in Nat, age \in Nat, off \in Int :
        /\ p = period /\ p = xt_tick_cycles /\ Tick \div p = u /\ Tick = u * p
        /\ k = p * xt_skip_tick /\ k + p + MaxStep <= W - 1
        /\ lag = u * age + off /\ Within(off, changes) /\ Aged(age)
  BY <1>0, Now DEF Open, Adapting
<1>t. Typed
  BY <1>0, Now DEF Open, Adapting
<1>k. /\ CCOUNT \in 0 .. W - 1 /\ pending \in BOOLEAN
      /\ xt_skip_tick \in Nat /\ toUnblock \in Nat /\ spent \in Nat
      /\ xt_skip_tick < xMaxSuppressedTicks
      /\ xMaxSuppressedTicks \in Nat /\ xMaxSuppressedTicks >= 2
      /\ ret \in Open \ {"asleep"}
  BY <1>t, Kinds
<1>c. /\ W \in Nat \ {0} /\ p \in Nat \ {0} /\ INT32_MAX \in Nat
      /\ 2 * INT32_MAX + 2 <= W /\ p <= INT32_MAX
      /\ MaxStep \in Nat /\ MaxLate \in Nat /\ MaxStep > 0
      /\ 4 * MaxStep <= p
  BY Constants
<1>1. /\ spent' = 0 /\ pc' = "wake"
      /\ UNCHANGED <<CCOUNT, CCOMPARE, pending, xMaxSuppressedTicks, lag, toUnblock,
                     xt_skip_tick, ret, ccompare, first_blocked_tick>>
  BY DEF Mask, Go, timer, counts, locals
<1>2. UNCHANGED clock /\ period' = p
  BY <1>n DEF Mask, clock
<1>3. period * xt_skip_tick + period = k + p /\ period' * xt_skip_tick' + period' = k + p
  BY <1>n, <1>1, <1>2
<1>4. /\ Timer((k + p) - age)
      /\ spent <= MaxStep
      /\ xt_skip_tick > 0 =>
           /\ xt_skip_tick < toUnblock /\ ccompare = CCOMPARE
           /\ first_blocked_tick = Plus(CCOUNT, p - age)
  <2>1. Asleep(age)
    BY <1>n DEF Aged
  <2> QED BY <1>0, <1>n, <1>3, <2>1 DEF Asleep
<1>5. age - (k + p) <= 0 /\ 0 <= MaxStep
  BY <1>0, <1>4, <1>c, <1>k DEF Timer
<1>6. Asleep(age)'
  <2>1. Timer((k + p) - age)'
    BY <1>1, <1>4 DEF Timer
  <2>2. xt_skip_tick' > 0 => first_blocked_tick' = Plus(CCOUNT', p - age)
    BY <1>1, <1>4
  <2> QED BY <1>1, <1>2, <1>3, <1>4, <1>5, <2>1, <2>2 DEF Asleep
<1>7. /\ InTask(age)' /\ InHandler(age)' /\ Suspended(age)' /\ MovingBack(age)'
      /\ Begun(age)'
  BY <1>0, <1>n, <1>1 DEF Aged, InTask, InHandler, Suspended, MovingBack, Begun
<1>8. /\ pending' \in BOOLEAN /\ xt_skip_tick' \in Nat /\ spent' \in Nat
      /\ xt_skip_tick' < xMaxSuppressedTicks /\ toUnblock' \in Nat
      /\ lag' = u * age + off /\ ret' \in Open \ {"asleep"}
      /\ pc' \in Open \/ pc' \in {"sleep", "wake", "set", "check", "handler", "count_tick"}
  BY <1>n, <1>1, <1>k DEF Open
<1> QED BY <1>n, <1>t, <1>1, <1>2, <1>6, <1>7, <1>8, Then

LEMMA ResumeInv ==
  ASSUME Timing, Exact, Resume
  PROVE  Exact'
<1>0. pc = "resume" /\ ~pending /\ spent > 0
  BY DEF Resume
<1>n. PICK p \in Periods, u \in Nat \ {0}, k \in Nat, age \in Nat, off \in Int :
        /\ p = period /\ p = xt_tick_cycles /\ Tick \div p = u /\ Tick = u * p
        /\ k = p * xt_skip_tick /\ k + p + MaxStep <= W - 1
        /\ lag = u * age + off /\ Within(off, changes) /\ Aged(age)
  BY <1>0, Now DEF Open, Adapting
<1>t. Typed
  BY <1>0, Now DEF Open, Adapting
<1>k. /\ CCOUNT \in 0 .. W - 1 /\ pending \in BOOLEAN
      /\ xt_skip_tick \in Nat /\ toUnblock \in Nat /\ spent \in Nat
      /\ xt_skip_tick < xMaxSuppressedTicks
      /\ xMaxSuppressedTicks \in Nat /\ xMaxSuppressedTicks >= 2
      /\ ret \in Open \ {"asleep"}
  BY <1>t, Kinds
<1>d. PICK delay \in Nat : delay = Delay /\ MaxLate + 2 * delay + 6 * MaxStep <= INT32_MAX
  BY <1>t, Kinds
<1>c. /\ W \in Nat \ {0} /\ p \in Nat \ {0} /\ INT32_MAX \in Nat
      /\ 2 * INT32_MAX + 2 <= W /\ p <= INT32_MAX
      /\ MaxStep \in Nat /\ MaxLate \in Nat /\ MaxStep > 0
      /\ 4 * MaxStep <= p
  BY Constants
<1>1. /\ spent' = 0 /\ pc' = "task" /\ toUnblock' = 0
      /\ UNCHANGED <<CCOUNT, CCOMPARE, pending, xMaxSuppressedTicks, lag, xt_skip_tick, ret>>
  BY <1>0 DEF Resume, Go, timer
<1>2. UNCHANGED clock /\ period' = p /\ Delay' = delay
  BY <1>n, <1>d DEF Resume, clock, Delay
<1>3. /\ xt_skip_tick = 0
      /\ CCOMPARE = Plus(CCOUNT, p - age) /\ (pending <=> p - age <= 0)
  BY <1>0, <1>n DEF Aged, Suspended, Timer
<1>4. age - p <= MaxLate + delay /\ age - p <= 0 + delay
  BY <1>0, <1>3, <1>c, <1>k, <1>d
<1>6. InTask(age)'
  <2>1. Timer(p - age)'
    BY <1>1, <1>3 DEF Timer
  <2> QED BY <1>1, <1>2, <1>3, <1>4, <2>1, <1>d DEF InTask
<1>7. /\ Suspended(age)' /\ InHandler(age)' /\ Asleep(age)' /\ MovingBack(age)'
      /\ Begun(age)'
  BY <1>0, <1>n, <1>k, <1>1 DEF Aged, Suspended, InHandler, Asleep, MovingBack, Begun
<1>8. /\ pending' \in BOOLEAN /\ xt_skip_tick' \in Nat /\ spent' \in Nat
      /\ xt_skip_tick' < xMaxSuppressedTicks /\ toUnblock' \in Nat
      /\ lag' = u * age + off /\ ret' \in Open \ {"asleep"} /\ pc' \in Open
  BY <1>n, <1>1, <1>k DEF Open
<1> QED BY <1>n, <1>t, <1>1, <1>2, <1>6, <1>7, <1>8, Then

LEMMA SleepInv ==
  ASSUME Timing, Exact, Sleep
  PROVE  Exact'
<1>0. pc = "sleep"
  BY DEF Sleep
<1>n. PICK p \in Periods, u \in Nat \ {0}, k \in Nat, age \in Nat, off \in Int :
        /\ p = period /\ p = xt_tick_cycles /\ Tick \div p = u /\ Tick = u * p
        /\ k = p * xt_skip_tick /\ k + p + MaxStep <= W - 1
        /\ lag = u * age + off /\ Within(off, changes) /\ Aged(age)
  BY <1>0, Now DEF Open, Adapting
<1>t. Typed
  BY <1>0, Now DEF Open, Adapting
<1>k. /\ CCOUNT \in 0 .. W - 1 /\ pending \in BOOLEAN
      /\ xt_skip_tick \in Nat /\ toUnblock \in Nat /\ spent \in Nat
      /\ xt_skip_tick < xMaxSuppressedTicks
      /\ xMaxSuppressedTicks \in Nat /\ xMaxSuppressedTicks >= 2
      /\ ret \in Open \ {"asleep"}
  BY <1>t, Kinds
<1>c. /\ W \in Nat \ {0} /\ p \in Nat \ {0} /\ INT32_MAX \in Nat
      /\ 2 * INT32_MAX + 2 <= W /\ p <= INT32_MAX
      /\ MaxStep \in Nat /\ MaxLate \in Nat /\ MaxStep > 0
      /\ 4 * MaxStep <= p
  BY Constants
<1>3. /\ xt_skip_tick = 0 /\ toUnblock >= 2
      /\ CCOMPARE = Plus(CCOUNT, p - age)
      /\ age - p <= MaxStep + spent /\ spent <= MaxStep
  BY <1>0, <1>n DEF Aged, Suspended, Timer
<1>s. PICK skip \in Nat :
        /\ skip = SkipTicks(toUnblock)
        /\ skip >= 1 /\ skip < xMaxSuppressedTicks /\ skip < toUnblock
  <2>1. /\ SkipTicks(toUnblock) \in Nat /\ SkipTicks(toUnblock) >= 1
        /\ SkipTicks(toUnblock) < xMaxSuppressedTicks /\ SkipTicks(toUnblock) < toUnblock
    BY <1>k, <1>3 DEF SkipTicks
  <2> QED BY <2>1
<1>1. /\ spent' = 0 /\ pc' = "asleep" /\ xt_skip_tick' = skip
      /\ CCOMPARE' = Plus(CCOMPARE, p * skip) /\ ccompare' = CCOMPARE'
      /\ first_blocked_tick' = CCOMPARE /\ pending' = FALSE
      /\ UNCHANGED <<CCOUNT, xMaxSuppressedTicks, lag, toUnblock, ret>>
  BY <1>n, <1>s DEF Sleep, Go, xt_set_ccompare, counts
<1>2. UNCHANGED clock /\ period' = p
  BY <1>n DEF Sleep, clock
<1>4. PICK j \in Nat : j = p * skip /\ p <= j
  BY <1>c, <1>s
<1>5. CCOMPARE' = Plus(CCOUNT, (j + p) - age)
  <2>1. p - age \in Int /\ j \in Int /\ (p - age) + j = (j + p) - age
    BY <1>c
  <2>2. Plus(Plus(CCOUNT, p - age), j) = Plus(CCOUNT, (p - age) + j)
    BY ONLY <1>c, <1>k, <2>1, CounterAdds
  <2> QED BY <1>1, <1>3, <1>4, <2>1, <2>2
<1>6. age < j + p
  BY <1>3, <1>4, <1>c, <1>k
<1>7. Asleep(age)'
  <2>1. Timer((j + p) - age)'
    <3>1. ~((j + p) - age <= 0)
      BY <1>6, <1>c
    <3> QED BY <1>1, <1>5, <3>1 DEF Timer
  <2>2. period' * xt_skip_tick' + period' = j + p
    BY <1>1, <1>2, <1>4
  <2>3. age <= j + p /\ age - (j + p) <= 0
    BY <1>6, <1>c
  <2>4. first_blocked_tick' = Plus(CCOUNT', p - age)
    BY <1>1, <1>3
  <2> QED BY <1>1, <1>2, <1>s, <2>1, <2>2, <2>3, <2>4 DEF Asleep
<1>8. /\ InTask(age)' /\ InHandler(age)' /\ Suspended(age)' /\ MovingBack(age)'
      /\ Begun(age)'
  BY <1>0, <1>n, <1>1 DEF Aged, InTask, InHandler, Suspended, MovingBack, Begun
<1>9. /\ pending' \in BOOLEAN /\ xt_skip_tick' \in Nat /\ spent' \in Nat
      /\ xt_skip_tick' < xMaxSuppressedTicks /\ toUnblock' \in Nat
      /\ lag' = u * age + off /\ ret' \in Open \ {"asleep"} /\ pc' \in Open
  BY <1>n, <1>1, <1>s, <1>k DEF Open
<1> QED BY <1>n, <1>t, <1>1, <1>2, <1>7, <1>8, <1>9, Then

LEMMA SetDeadlineInv ==
  ASSUME Timing, Exact, SetDeadline("set", "check")
  PROVE  Exact'
<1>0. pc = "set"
  BY DEF SetDeadline
<1>n. PICK p \in Periods, u \in Nat \ {0}, k \in Nat, age \in Nat, off \in Int :
        /\ p = period /\ p = xt_tick_cycles /\ Tick \div p = u /\ Tick = u * p
        /\ k = p * xt_skip_tick /\ k + p + MaxStep <= W - 1
        /\ lag = u * age + off /\ Within(off, changes) /\ Aged(age)
  BY <1>0, Now DEF Open, Adapting
<1>t. Typed
  BY <1>0, Now DEF Open, Adapting
<1>k. /\ CCOUNT \in 0 .. W - 1 /\ pending \in BOOLEAN
      /\ xt_skip_tick \in Nat /\ toUnblock \in Nat /\ spent \in Nat
      /\ xt_skip_tick < xMaxSuppressedTicks
      /\ xMaxSuppressedTicks \in Nat /\ xMaxSuppressedTicks >= 2
      /\ ret \in Open \ {"asleep"}
  BY <1>t, Kinds
<1>c. /\ W \in Nat \ {0} /\ p \in Nat \ {0} /\ INT32_MAX \in Nat
      /\ 2 * INT32_MAX + 2 <= W /\ p <= INT32_MAX
      /\ MaxStep \in Nat /\ MaxLate \in Nat /\ MaxStep > 0
      /\ 4 * MaxStep <= p
  BY Constants
<1>1. /\ spent' = 0 /\ pc' = "check" /\ CCOMPARE' = ccompare /\ pending' = FALSE
      /\ UNCHANGED <<CCOUNT, xMaxSuppressedTicks, lag, toUnblock, ret, xt_skip_tick,
                     ccompare>>
  BY DEF SetDeadline, Go, xt_set_ccompare, counts, locals
<1>2. UNCHANGED clock /\ period' = p
  BY <1>n DEF SetDeadline, clock
<1>3. /\ ccompare = Plus(CCOUNT, p - age) /\ spent <= MaxStep
      /\ \/ age < 2 * MaxStep + spent
         \/ toUnblock >= 1 /\ age < p + spent
  BY <1>0, <1>n DEF Aged, MovingBack
<1>4. MovingBack(age)'
  <2>1. TimerSet(p - age)'
    <3>1. ~(p - age <= 0 /\ 0 < (p - age) + 0)
      BY <1>c
    <3> QED BY <1>1, <1>3, <3>1 DEF TimerSet
  <2>2. 0 <= MaxStep /\ (age < 3 * MaxStep + 0 \/ (toUnblock >= 1 /\ age < p + MaxStep + 0))
    BY <1>3, <1>c, <1>k
  <2> QED BY <1>1, <1>2, <2>1, <2>2 DEF MovingBack
<1>5. /\ InTask(age)' /\ InHandler(age)' /\ Suspended(age)' /\ Asleep(age)'
      /\ Begun(age)'
  BY <1>1 DEF InTask, InHandler, Suspended, Asleep, Begun
<1>6. /\ pending' \in BOOLEAN /\ xt_skip_tick' \in Nat /\ spent' \in Nat
      /\ xt_skip_tick' < xMaxSuppressedTicks /\ toUnblock' \in Nat
      /\ lag' = u * age + off /\ ret' \in Open \ {"asleep"}
  BY <1>n, <1>1, <1>k
<1> QED BY <1>n, <1>t, <1>1, <1>2, <1>4, <1>5, <1>6, Then

LEMMA CheckDeadlineInv ==
  ASSUME Timing, Exact, CheckDeadline("check", "set", "resume")
  PROVE  Exact'
<1>0. pc = "check" /\ spent > 0
  BY DEF CheckDeadline
<1>n. PICK p \in Periods, u \in Nat \ {0}, k \in Nat, age \in Nat, off \in Int :
        /\ p = period /\ p = xt_tick_cycles /\ Tick \div p = u /\ Tick = u * p
        /\ k = p * xt_skip_tick /\ k + p + MaxStep <= W - 1
        /\ lag = u * age + off /\ Within(off, changes) /\ Aged(age)
  BY <1>0, Now DEF Open, Adapting
<1>t. Typed
  BY <1>0, Now DEF Open, Adapting
<1>k. /\ CCOUNT \in 0 .. W - 1 /\ pending \in BOOLEAN
      /\ xt_skip_tick \in Nat /\ toUnblock \in Nat /\ spent \in Nat
      /\ xt_skip_tick < xMaxSuppressedTicks
      /\ xMaxSuppressedTicks \in Nat /\ xMaxSuppressedTicks >= 2
      /\ ret \in Open \ {"asleep"}
  BY <1>t, Kinds
<1>c. /\ W \in Nat \ {0} /\ p \in Nat \ {0} /\ INT32_MAX \in Nat
      /\ 2 * INT32_MAX + 2 <= W /\ p <= INT32_MAX
      /\ MaxStep \in Nat /\ MaxLate \in Nat /\ MaxStep > 0
      /\ 4 * MaxStep <= p
  BY Constants
<1>1. /\ UNCHANGED <<CCOUNT, CCOMPARE, pending, xMaxSuppressedTicks, ret>>
      /\ IF Passed
           THEN /\ lag' = lag - 1 * Tick /\ toUnblock' = toUnblock - 1
                /\ ccompare' = Plus(ccompare, p) /\ spent' = 0 /\ pc' = "set"
                /\ xt_skip_tick' = xt_skip_tick
           ELSE /\ xt_skip_tick' = 0 /\ spent' = 0 /\ pc' = "resume"
                /\ UNCHANGED <<lag, toUnblock>>
  BY <1>n DEF CheckDeadline, Step, Go, timer
<1>2. UNCHANGED clock /\ period' = p
  BY <1>n DEF CheckDeadline, clock
<1>3. /\ ccompare = Plus(CCOUNT, p - age) /\ CCOMPARE = Plus(CCOUNT, p - age)
      /\ pending <=> p - age <= 0 /\ 0 < p - age + spent
      /\ spent <= MaxStep
      /\ \/ age < 3 * MaxStep + spent
         \/ toUnblock >= 1 /\ age < p + MaxStep + spent
  BY <1>0, <1>n DEF Aged, MovingBack, TimerSet
<1>4. Passed <=> p <= age
  <2>1. p - age \in Int /\ -W < p - age /\ p - age <= W
    BY <1>c, <1>k, <1>3
  <2>2. CASE p <= age
    <3>1. p - age <= 0 /\ -(p - age) = age - p /\ age - p <= INT32_MAX
      BY <2>2, <1>c, <1>k, <1>3
    <3>2. Minus(CCOUNT, ccompare) = age - p
      BY <1>c, <1>k, <1>3, <2>1, <3>1, Counter
    <3> QED BY <2>2, <3>1, <3>2 DEF Passed
  <2>3. CASE ~(p <= age)
    <3>1. 0 < p - age /\ ~(W - (p - age) <= INT32_MAX)
      BY <2>3, <1>c
    <3>2. Minus(CCOUNT, ccompare) = W - (p - age)
      BY <1>c, <1>k, <1>3, <2>1, <3>1, Counter
    <3> QED BY <2>3, <3>1, <3>2 DEF Passed
  <2> QED BY <2>2, <2>3
<1>5. CASE p <= age
  <2>1. /\ lag' = lag - 1 * Tick /\ toUnblock' = toUnblock - 1
        /\ ccompare' = Plus(ccompare, p) /\ spent' = 0 /\ pc' = "set"
        /\ xt_skip_tick' = xt_skip_tick
    BY <1>1, <1>4, <1>5
  <2>2. age - p \in Nat /\ age - p < 2 * MaxStep /\ toUnblock >= 1
    BY <1>3, <1>5, <1>c, <1>k
  <2>3. ccompare' = Plus(CCOUNT, p - (age - p))
    <3>1. p - age \in Int /\ p \in Int /\ (p - age) + p = p - (age - p)
      BY <1>c
    <3>2. Plus(Plus(CCOUNT, p - age), p) = Plus(CCOUNT, (p - age) + p)
      BY ONLY <1>c, <1>k, <3>1, CounterAdds
    <3> QED BY <2>1, <1>3, <3>1, <3>2
  <2>4. MovingBack(age - p)'
    <3>1. age - p < 2 * MaxStep + 0 /\ 0 <= MaxStep
      BY <2>2, <1>c
    <3> QED BY <1>1, <1>2, <2>1, <2>3, <3>1 DEF MovingBack
  <2>5. /\ InTask(age - p)' /\ InHandler(age - p)' /\ Suspended(age - p)'
        /\ Asleep(age - p)' /\ Begun(age - p)'
    BY <2>1 DEF InTask, InHandler, Suspended, Asleep, Begun
  <2>6. lag' = u * (age - p) + off
    <3>1. p * 1 = p
      BY <1>c
    <3> QED BY <1>n, <2>1, <1>c, <3>1, Counted
  <2>7. /\ pending' \in BOOLEAN /\ xt_skip_tick' \in Nat /\ spent' \in Nat
        /\ xt_skip_tick' < xMaxSuppressedTicks /\ toUnblock' \in Nat
        /\ ret' \in Open \ {"asleep"}
    BY <1>1, <1>k, <2>1, <2>2
  <2> QED BY <1>n, <1>t, <1>1, <1>2, <2>1, <2>2, <2>4, <2>5, <2>6, <2>7, Then
<1>6. CASE ~(p <= age)
  <2>1. /\ xt_skip_tick' = 0 /\ spent' = 0 /\ pc' = "resume"
        /\ UNCHANGED <<lag, toUnblock>>
    BY <1>1, <1>4, <1>6
  <2>2. ~(p - age <= 0) /\ age - p <= MaxStep + 0 /\ 0 <= MaxStep
    BY <1>6, <1>c
  <2>3. Suspended(age)'
    <3>1. Timer(p - age)'
      BY <1>1, <1>3, <2>2 DEF Timer
    <3> QED BY <1>2, <2>1, <2>2, <3>1 DEF Suspended
  <2>5. /\ InTask(age)' /\ InHandler(age)' /\ MovingBack(age)' /\ Asleep(age)'
        /\ Begun(age)'
    BY <2>1 DEF InTask, InHandler, MovingBack, Asleep, Begun
  <2>7. /\ pending' \in BOOLEAN /\ xt_skip_tick' \in Nat /\ spent' \in Nat
        /\ xt_skip_tick' < xMaxSuppressedTicks /\ toUnblock' \in Nat
        /\ lag' = u * age + off /\ ret' \in Open \ {"asleep"} /\ pc' \in Open
    BY <1>n, <1>1, <1>k, <2>1 DEF Open
  <2> QED BY <1>n, <1>t, <1>1, <1>2, <2>1, <2>3, <2>5, <2>7, Then
<1> QED BY <1>5, <1>6

LEMMA WakeInv ==
  ASSUME Timing, Exact, Wake
  PROVE  Exact'
<1>0. pc = "wake"
  BY DEF Wake
<1>n. PICK p \in Periods, u \in Nat \ {0}, k \in Nat, age \in Nat, off \in Int :
        /\ p = period /\ p = xt_tick_cycles /\ Tick \div p = u /\ Tick = u * p
        /\ k = p * xt_skip_tick /\ k + p + MaxStep <= W - 1
        /\ lag = u * age + off /\ Within(off, changes) /\ Aged(age)
  BY <1>0, Now DEF Open, Adapting
<1>t. Typed
  BY <1>0, Now DEF Open, Adapting
<1>k. /\ CCOUNT \in 0 .. W - 1 /\ pending \in BOOLEAN
      /\ xt_skip_tick \in Nat /\ toUnblock \in Nat /\ spent \in Nat
      /\ xt_skip_tick < xMaxSuppressedTicks
      /\ xMaxSuppressedTicks \in Nat /\ xMaxSuppressedTicks >= 2
      /\ ret \in Open \ {"asleep"}
  BY <1>t, Kinds
<1>c. /\ W \in Nat \ {0} /\ p \in Nat \ {0} /\ INT32_MAX \in Nat
      /\ 2 * INT32_MAX + 2 <= W /\ p <= INT32_MAX
      /\ MaxStep \in Nat /\ MaxLate \in Nat /\ MaxStep > 0
      /\ 4 * MaxStep <= p
  BY Constants
<1>0a. period * xt_skip_tick + period = k + p
  BY <1>n
<1>3. /\ CCOMPARE = Plus(CCOUNT, (k + p) - age) /\ (pending <=> (k + p) - age <= 0)
      /\ age - (k + p) <= spent /\ spent <= MaxStep
      /\ xt_skip_tick > 0 =>
           /\ xt_skip_tick < toUnblock /\ ccompare = CCOMPARE
           /\ first_blocked_tick = Plus(CCOUNT, p - age)
  <2>1. Asleep(age)
    BY <1>n DEF Aged
  <2> QED BY <1>0, <1>n, <1>0a, <2>1 DEF Asleep, Timer
<1>1. /\ UNCHANGED <<CCOUNT, CCOMPARE, pending, xMaxSuppressedTicks, ret>>
      /\ IF xt_skip_tick = 0
           THEN pc' = "resume" /\ spent' = 0 /\ UNCHANGED <<lag, toUnblock, xt_skip_tick>>
           ELSE IF Minus(ccompare, CCOUNT) > p
             THEN CutShort(first_blocked_tick, CCOUNT, "set")
             ELSE KeepDeadline("resume")
  BY <1>n DEF Wake, Go, timer
<1>2. UNCHANGED clock /\ period' = p
  BY <1>n DEF Wake, clock
<1>4. (k + p) - age \in Int /\ -W < (k + p) - age /\ (k + p) - age < W /\ age < W
  BY <1>3, <1>n, <1>c, <1>k
<1>5. CASE xt_skip_tick = 0
  <2>1. /\ pc' = "resume" /\ spent' = 0 /\ xt_skip_tick' = 0
        /\ UNCHANGED <<lag, toUnblock>>
    BY <1>1, <1>5
  <2>2. k = 0
    BY <1>n, <1>c, <1>5
  <2>3. (k + p) - age = p - age /\ age - p <= MaxStep + 0 /\ 0 <= MaxStep
    BY <2>2, <1>3, <1>c, <1>k
  <2>4. Suspended(age)'
    <3>1. Timer(p - age)'
      BY <1>1, <1>3, <2>3 DEF Timer
    <3> QED BY <1>2, <2>1, <2>3, <3>1 DEF Suspended
  <2>5. /\ InTask(age)' /\ InHandler(age)' /\ MovingBack(age)' /\ Asleep(age)'
        /\ Begun(age)'
    BY <2>1 DEF InTask, InHandler, MovingBack, Asleep, Begun
  <2>6. /\ pending' \in BOOLEAN /\ xt_skip_tick' \in Nat /\ spent' \in Nat
        /\ xt_skip_tick' < xMaxSuppressedTicks /\ toUnblock' \in Nat
        /\ lag' = u * age + off /\ ret' \in Open \ {"asleep"} /\ pc' \in Open
    BY <1>n, <1>1, <1>k, <2>1 DEF Open
  <2> QED BY <1>n, <1>t, <1>1, <1>2, <2>1, <2>4, <2>5, <2>6, Then
<1>6. CASE xt_skip_tick # 0 /\ 0 <= (k + p) - age /\ (k + p) - age <= p
  <2>1. Minus(ccompare, CCOUNT) = (k + p) - age
    BY <1>3, <1>4, <1>6, <1>c, <1>k, Counter
  <2>2. KeepDeadline("resume")
    BY <1>1, <1>6, <2>1, <1>c
  <2>3. /\ pc' = "resume" /\ spent' = 0 /\ xt_skip_tick' = 0
        /\ lag' = lag - xt_skip_tick * Tick /\ toUnblock' = toUnblock - xt_skip_tick
    BY <2>2 DEF KeepDeadline, Step, Go
  <2>4. age - k \in Nat /\ (k + p) - age = p - (age - k)
        /\ (age - k) - p <= MaxStep + 0 /\ 0 <= MaxStep
    BY <1>6, <1>c
  <2>5. lag' = u * (age - k) + off
    BY <1>n, <2>3, <1>k, <1>c, Counted
  <2>6. Suspended(age - k)'
    <3>1. Timer(p - (age - k))'
      BY <1>1, <1>3, <2>4 DEF Timer
    <3> QED BY <1>2, <2>3, <2>4, <3>1 DEF Suspended
  <2>7. /\ InTask(age - k)' /\ InHandler(age - k)' /\ MovingBack(age - k)'
        /\ Asleep(age - k)' /\ Begun(age - k)'
    BY <2>3 DEF InTask, InHandler, MovingBack, Asleep, Begun
  <2>8. /\ pending' \in BOOLEAN /\ xt_skip_tick' \in Nat /\ spent' \in Nat
        /\ xt_skip_tick' < xMaxSuppressedTicks /\ toUnblock' \in Nat
        /\ ret' \in Open \ {"asleep"} /\ pc' \in Open
    BY <1>1, <1>3, <1>6, <1>k, <2>3 DEF Open
  <2> QED BY <1>n, <1>t, <1>1, <1>2, <2>3, <2>4, <2>5, <2>6, <2>7, <2>8, Then
<1>7. CASE xt_skip_tick # 0 /\ ((k + p) - age < 0 \/ (k + p) - age > p)
  <2>1. Minus(ccompare, CCOUNT) > p
    <3>1. CASE (k + p) - age < 0
      <4>1. Minus(ccompare, CCOUNT) = ((k + p) - age) + W
        BY <1>3, <1>4, <1>7, <3>1, <1>c, <1>k, Counter
      <4> QED BY <4>1, <1>3, <1>c, <1>k
    <3>2. CASE (k + p) - age > p
      <4>1. 0 <= (k + p) - age
        BY <3>2, <1>c
      <4>2. Minus(ccompare, CCOUNT) = (k + p) - age
        BY <1>3, <1>4, <1>7, <4>1, <1>c, <1>k, Counter
      <4> QED BY <4>2, <3>2
    <3> QED BY <1>7, <3>1, <3>2
  <2>2. CutShort(first_blocked_tick, CCOUNT, "set")
    BY <1>1, <1>7, <2>1
  <2>3. first_blocked_tick = Plus(CCOUNT, p - age) /\ xt_skip_tick < toUnblock
    BY <1>3, <1>7, <1>k
  <2>q. PICK q \in Int, r \in 0 .. p - 1 : age \div p = q /\ age % p = r /\ age = p * q + r
    BY <1>c, Division
  <2>4. TicksPassed(first_blocked_tick, CCOUNT) = q
    <3>1. p - age \in Int /\ p \in Int /\ (p - age) - p = -age /\ -age \in Int
          /\ -W < -age /\ -age <= 0 /\ -(-age) = age
      BY <1>c, <1>4
    <3>2. Minus(Plus(CCOUNT, p - age), p) = Plus(CCOUNT, (p - age) - p)
      BY ONLY <1>c, <1>k, <3>1, CounterAdds
    <3>3. Minus(CCOUNT, Plus(CCOUNT, -age)) = -(-age)
      BY ONLY <1>c, <1>k, <3>1, Counter
    <3>4. Minus(CCOUNT, Minus(first_blocked_tick, p)) = age
      BY <2>3, <3>1, <3>2, <3>3
    <3> QED BY <1>n, <2>q, <3>4 DEF TicksPassed
  <2>5. /\ pc' = "set" /\ spent' = 0 /\ xt_skip_tick' = xt_skip_tick
        /\ lag' = lag - q * Tick /\ toUnblock' = toUnblock - q
        /\ ccompare' = Plus(first_blocked_tick, q * p)
    BY <1>n, <2>2, <2>4 DEF CutShort, Step, Go
  <2>6. PICK s \in Int : s = p * q /\ s = q * p
    BY <1>c
  <2>7. age - s = r /\ r \in Nat
    BY <2>q, <2>6, <1>c
  <2>8. ccompare' = Plus(CCOUNT, p - r)
    <3>1. p - age \in Int /\ (p - age) + s = p - r
      BY <2>6, <2>7, <1>c
    <3>2. Plus(Plus(CCOUNT, p - age), s) = Plus(CCOUNT, (p - age) + s)
      BY ONLY <1>c, <1>k, s \in Int, <3>1, CounterAdds
    <3> QED BY <2>3, <2>5, <2>6, <3>1, <3>2
  <2>9. lag' = u * r + off
    BY <1>n, <2>5, <2>6, <2>7, <1>c, Counted
  <2>10. toUnblock' \in Nat /\ (r < 2 * MaxStep \/ toUnblock' >= 1)
    <3>1. CASE (k + p) - age < 0
      <4>1. p * (xt_skip_tick + 1) = k + p
        <5>1. p * (xt_skip_tick + 1) = p * xt_skip_tick + p * 1
          BY ONLY <1>c, <1>k, 1 \in Int, Distribute
        <5> QED BY <1>n, <1>c, <5>1
      <4>2. age - (k + p) \in 0 .. p - 1 /\ age - (k + p) <= MaxStep
        BY <3>1, <1>3, <1>c, <1>k
      <4>3. PICK j \in Int, d \in 0 .. p - 1 :
              j = xt_skip_tick + 1 /\ d = age - (k + p) /\ p * j = k + p
        BY <4>1, <4>2, <1>k
      <4>4. age = p * j + d /\ age \in Int
        BY <4>3, <1>c
      <4>5. age % p = d /\ age \div p = j
        BY ONLY <1>c, <4>4, Remainder
      <4> QED BY <4>2, <4>3, <4>5, <2>q, <2>5, <2>3, <1>k, <1>c
    <3>2. CASE (k + p) - age > p
      <4>1. p * q < p * xt_skip_tick
        BY <3>2, <1>n, <2>q, <2>6, <1>c
      <4>2. q < xt_skip_tick
        BY <4>1, <1>c, <1>k
      <4> QED BY <4>2, <2>3, <2>5, <1>k
    <3> QED BY <1>7, <3>1, <3>2
  <2>11. MovingBack(r)'
    <3>1. r < p + 0 /\ 0 <= MaxStep /\ (r < 2 * MaxStep => r < 2 * MaxStep + 0)
      BY <2>7, <1>c
    <3> QED BY <1>1, <1>2, <2>5, <2>8, <2>10, <3>1 DEF MovingBack
  <2>12. /\ InTask(r)' /\ InHandler(r)' /\ Suspended(r)' /\ Asleep(r)' /\ Begun(r)'
    BY <2>5 DEF InTask, InHandler, Suspended, Asleep, Begun
  <2>13. /\ pending' \in BOOLEAN /\ xt_skip_tick' \in Nat /\ spent' \in Nat
         /\ xt_skip_tick' < xMaxSuppressedTicks /\ ret' \in Open \ {"asleep"}
    BY <1>1, <1>k, <2>5
  <2> QED BY <1>n, <1>t, <1>1, <1>2, <2>5, <2>7, <2>9, <2>10, <2>11, <2>12, <2>13, Then
<1>8. /\ xt_skip_tick = 0 \/ xt_skip_tick # 0
      /\ \/ 0 <= (k + p) - age /\ (k + p) - age <= p
         \/ (k + p) - age < 0
         \/ (k + p) - age > p
  BY <1>4, <1>c
<1> QED BY <1>5, <1>6, <1>7, <1>8

\* The tick has stopped.
LEMMA EndInv ==
  ASSUME Timing, Exact, vPortEndScheduler
  PROVE  Exact'
<1>1. pc = "task"
  BY DEF vPortEndScheduler
<1>t. Typed
  BY DEF Exact
<1>2. /\ pc' = "ended" /\ spent' = 0 /\ pending' = FALSE
      /\ UNCHANGED <<CCOUNT, changes, period, xt_tick_cycles, xMaxSuppressedTicks,
                     lag, toUnblock, xt_skip_tick, ret>>
  BY DEF vPortEndScheduler, Go, xt_set_ccompare, clock, counts
<1>3. Typed'
  BY <1>t, <1>1, <1>2 DEF Typed, Adapting
<1> QED BY <1>2, <1>3 DEF Exact

\* What the invariant says while the port adapts to a frequency.
LEMMA Between ==
  ASSUME Timing, Typed, NEW age \in Nat, NEW e \in Nat, Changed(age, e)
  PROVE  \E p \in Periods, q \in Periods, u \in Nat \ {0}, v \in Nat \ {0},
            off \in Int :
              /\ p = period /\ q = xt_tick_cycles
              /\ Tick \div p = u /\ Tick = u * p /\ Tick \div q = v /\ Tick = v * q
              /\ lag = v * age + u * e + off /\ Within(off, changes - 1)
<1>1. Typed
  OBVIOUS
<1>2. Changed(age, e)
  OBVIOUS
<1>3. PICK p \in Periods, q \in Periods : p = period /\ q = xt_tick_cycles
  BY <1>1 DEF Typed
<1>4. PICK u \in Nat \ {0} : Tick \div p = u /\ Tick = u * p
  BY Unit
<1>5. PICK v \in Nat \ {0} : Tick \div q = v /\ Tick = v * q
  BY Unit
<1>6. PICK off \in Int : lag = v * age + u * e + off /\ Within(off, changes - 1)
  <2>1. lag \in Int /\ v * age \in Int /\ u * e \in Int
    BY <1>1 DEF Typed
  <2>2. lag - v * age - u * e \in Int /\ lag = v * age + u * e + (lag - v * age - u * e)
    BY <2>1
  <2>3. Within(lag - v * age - u * e, changes - 1)
    BY <1>2, <1>3, <1>4, <1>5 DEF Changed
  <2> QED BY <2>2, <2>3
<1> QED BY <1>1, <1>2, <1>3, <1>4, <1>5, <1>6

LEMMA UpdateSetInv ==
  ASSUME Timing, Exact, SetDeadline("update_set", "update_check")
  PROVE  Exact'
<1>0. pc = "update_set"
  BY DEF SetDeadline
<1>t. Typed
  BY DEF Exact
<1>q. PICK q \in Periods : q = xt_tick_cycles
  BY <1>t DEF Typed
<1>c. MaxStep \in Nat /\ q \in Nat \ {0} /\ spent \in Nat
  BY <1>t, Constants DEF Typed
<1>1. /\ spent' = 0 /\ pc' = "update_check" /\ CCOMPARE' = ccompare /\ pending' = FALSE
      /\ UNCHANGED <<CCOUNT, xMaxSuppressedTicks, lag, toUnblock, ret, uret, xt_skip_tick,
                     ccompare, now, period, xt_tick_cycles, changes>>
  BY DEF SetDeadline, Go, xt_set_ccompare, counts, locals, clock
<1>2. Typed'
  BY <1>t, <1>0, <1>1 DEF Typed, Adapting
<1>3. ASSUME NEW age \in Nat, NEW e \in Nat, Changed(age, e)
      PROVE  Changed(age, e)'
  <2>0. /\ uret = "woken" /\ toUnblock >= 1 /\ e <= spent /\ spent <= MaxStep
        /\ ccompare = Plus(now, q - age) /\ age < q
    BY <1>3, <1>0, <1>q DEF Changed
  <2>1. Within(lag - (Tick \div xt_tick_cycles) * age - (Tick \div period) * e,
               changes - 1)'
    BY <1>3, <1>1 DEF Changed, Within
  <2>2. /\ now' \in 0 .. W - 1 /\ CCOUNT' = Plus(now', e) /\ age > 0
        /\ uret' # "task"
    BY <1>3, <1>1, <2>0 DEF Changed
  <2>3. spent' <= MaxStep /\ e <= MaxStep + spent'
    <3>1. 0 <= MaxStep /\ e <= MaxStep + 0
      BY <2>0, <1>c
    <3> QED BY <1>1, <3>1
  <2> QED BY <1>1, <2>0, <1>q, <2>1, <2>2, <2>3 DEF Changed
<1>4. ASSUME NEW d \in Nat, NEW e \in Nat, Unscaled(d, e)
      PROVE  Unscaled(d, e)'
  <2>0. /\ ccompare = Plus(now, d) /\ d <= q + e /\ e + q < d + 2 * MaxStep + spent
        /\ spent <= MaxStep /\ now \in 0 .. W - 1 /\ CCOUNT = Plus(now, e)
        /\ q <= d /\ d < W
    BY <1>4, <1>0, <1>q DEF Unscaled
  <2>1. 0 <= MaxStep /\ e + q < d + 3 * MaxStep + 0
    BY <2>0, <1>c
  <2> QED BY <1>1, <1>q, <2>0, <2>1 DEF Unscaled
<1>5. \/ \E age \in Nat, e \in Nat : Changed(age, e)
      \/ \E d \in Nat, e \in Nat : Unscaled(d, e)
  BY <1>0 DEF Exact, Adapting
<1> QED BY <1>1, <1>2, <1>3, <1>4, <1>5 DEF Exact, Adapting

\* Both functions look at a deadline that is at most half the counter's range away.
LEMMA PassedBy ==
  ASSUME Timing, NEW p \in Periods, CCOUNT \in 0 .. W - 1,
         NEW d \in Int, -INT32_MAX <= d, d <= INT32_MAX,
         ccompare = Plus(CCOUNT, d)
  PROVE  Passed <=> d <= 0
<1>c. W \in Nat \ {0} /\ INT32_MAX \in Nat /\ 2 * INT32_MAX + 2 <= W
  BY Constants
<1>1. CASE d <= 0
  <2>1. -W < d /\ -d <= INT32_MAX
    BY <1>c
  <2>2. Minus(CCOUNT, Plus(CCOUNT, d)) = -d
    BY ONLY <1>c, CCOUNT \in 0 .. W - 1, d \in Int, <1>1, <2>1, Counter
  <2> QED BY <1>1, <2>1, <2>2 DEF Passed
<1>2. CASE d > 0
  <2>1. d <= W /\ ~(W - d <= INT32_MAX)
    BY <1>c
  <2>2. Minus(CCOUNT, Plus(CCOUNT, d)) = W - d
    BY ONLY <1>c, CCOUNT \in 0 .. W - 1, d \in Int, <1>2, <2>1, Counter
  <2> QED BY <1>2, <2>1, <2>2 DEF Passed
<1> QED BY <1>1, <1>2

LEMMA UpdateCheckInv ==
  ASSUME Timing, Exact, CheckDeadline("update_check", "update_set", "remainder")
  PROVE  Exact'
<1>0. pc = "update_check"
  BY DEF CheckDeadline
<1>t. Typed
  BY DEF Exact
<1>q. PICK q \in Periods : q = xt_tick_cycles
  BY <1>t DEF Typed
<1>c. /\ W \in Nat \ {0} /\ q \in Nat \ {0} /\ INT32_MAX \in Nat
      /\ 2 * INT32_MAX + 2 <= W /\ q <= INT32_MAX /\ 5 * MaxStep <= q
      /\ MaxStep \in Nat /\ MaxLate \in Nat /\ MaxStep > 0
  BY Constants
<1>k. CCOUNT \in 0 .. W - 1 /\ spent \in Nat /\ pending \in BOOLEAN /\ toUnblock \in Nat
      /\ lag \in Int /\ Tick \in Nat /\ xt_skip_tick \in Nat
      /\ xt_skip_tick < xMaxSuppressedTicks
  BY <1>t, Kinds, TickAssumption DEF Typed
<1>d. PICK delay \in Nat : delay = Delay /\ delay - MaxStep \in Nat
                           /\ MaxLate + 2 * delay + 6 * MaxStep <= INT32_MAX
  BY <1>t, <1>0, Delayed DEF Typed, Adapting
<1>1. /\ UNCHANGED <<CCOUNT, CCOMPARE, pending, xMaxSuppressedTicks, ret, uret, now, period,
                     xt_tick_cycles, changes>>
      /\ spent' = 0
      /\ IF Passed
           THEN /\ lag' = lag - 1 * Tick /\ toUnblock' = toUnblock - 1
                /\ ccompare' = Plus(ccompare, q) /\ pc' = "update_set"
                /\ xt_skip_tick' = xt_skip_tick
           ELSE /\ xt_skip_tick' = 0 /\ pc' = "remainder"
                /\ UNCHANGED <<lag, toUnblock>>
  BY <1>q DEF CheckDeadline, Step, Go, timer, clock
<1>2. ~Passed \/ toUnblock >= 1 => Typed'
  <2>1. xt_skip_tick' \in Nat /\ xt_skip_tick' < xMaxSuppressedTicks /\ lag' \in Int
    BY <1>1, <1>k, <1>t, Kinds
  <2>2. ~Passed \/ toUnblock >= 1 => toUnblock' \in Nat
    BY <1>1, <1>k
  <2> QED BY <1>t, <1>0, <1>1, <2>1, <2>2 DEF Typed, Adapting
<1>m. Delay' = delay
  BY <1>1, <1>d DEF Delay
<1>3. ASSUME NEW age \in Nat, NEW e \in Nat, Changed(age, e)
      PROVE  Exact'
  <2>0. /\ uret = "woken" /\ toUnblock >= 1 /\ e <= MaxStep + spent /\ spent <= MaxStep
        /\ pending => q - age - e <= 0
        /\ CCOMPARE = Plus(now, q - age) /\ ccompare = CCOMPARE /\ age < q
        /\ now \in 0 .. W - 1 /\ CCOUNT = Plus(now, e) /\ age > 0
    BY <1>3, <1>0, <1>q DEF Changed
  <2>d. PICK d \in Int : d = q - age - e /\ e + d = q - age /\ d <= INT32_MAX
                         /\ -INT32_MAX <= d
    <3>1. q - age - e \in Int /\ q - age - e <= INT32_MAX /\ -INT32_MAX <= q - age - e
          /\ e + (q - age - e) = q - age
      BY <2>0, <1>c, <1>k, <1>d
    <3> QED BY <3>1
  <2>1. Passed <=> d <= 0
    <3>1. Plus(Plus(now, e), d) = Plus(now, e + d)
      BY ONLY <1>c, <2>0, e \in Int, d \in Int, CounterAdds
    <3>2. ccompare = Plus(CCOUNT, d)
      BY <2>0, <2>d, <3>1
    <3> QED BY <1>k, <1>q, <2>d, <3>2, PassedBy
  \* The tick has ended: the next one is too far away to be scaled.
  <2>2. CASE d <= 0
    <3>1. PICK far \in Nat : /\ far = q + (q - age) /\ far >= q + 1 /\ far <= q + e
                             /\ e <= 2 * MaxStep /\ far < W
      <4>1. e <= 2 * MaxStep /\ q - age <= e /\ q - age >= 1
        BY <2>0, <2>2, <2>d, <1>c, <1>k
      <4>2. /\ q + (q - age) \in Nat /\ q + (q - age) < W
            /\ q + (q - age) >= q + 1 /\ q + (q - age) <= q + e
        BY <4>1, <1>c, <1>d
      <4> QED BY <4>1, <4>2, <1>c
    <3>2. ccompare' = Plus(now, far)
      <4>1. q - age \in Int /\ q \in Int /\ (q - age) + q = far
        BY <3>1, <1>c
      <4>2. Plus(Plus(now, q - age), q) = Plus(now, (q - age) + q)
        BY ONLY <1>c, <2>0, <4>1, CounterAdds
      <4> QED BY <1>1, <2>0, <2>1, <2>2, <4>1, <4>2
    <3>3. 0 <= MaxStep /\ e + q < far + 2 * MaxStep + 0
      BY <3>1, <1>c
    <3>4. Unscaled(far, e)'
      BY <1>1, <1>q, <2>0, <2>1, <2>2, <3>1, <3>2, <3>3, <1>c DEF Unscaled
    <3> QED BY <1>1, <1>2, <2>0, <2>1, <2>2, <3>4 DEF Exact, Adapting
  <2>3. CASE d > 0
    <3>1. Within(lag - (Tick \div xt_tick_cycles) * age - (Tick \div period) * e,
                 changes - 1)'
      BY <1>3, <1>1, <2>1, <2>3 DEF Changed, Within
    <3>2. /\ 0 <= MaxStep /\ e <= 2 * MaxStep + 0
          /\ ~(q - age - e <= 0) /\ ~(age > q)
      BY <2>0, <2>3, <2>d, <1>c, <1>k
    <3>3. age - q <= 2 * delay - MaxStep
      BY <2>0, <1>c, <1>d
    <3>4. Changed(age, e)'
      BY <1>1, <1>m, <1>q, <2>0, <2>1, <2>3, <3>1, <3>2, <3>3 DEF Changed
    <3> QED BY <1>1, <1>2, <2>1, <2>3, <3>4 DEF Exact, Adapting
  <2> QED BY <2>2, <2>3
<1>4. ASSUME NEW d \in Nat, NEW e \in Nat, Unscaled(d, e)
      PROVE  Exact'
  <2>0. /\ CCOMPARE = Plus(now, d) /\ ccompare = CCOMPARE /\ ~pending
        /\ d <= q + e /\ e + q < d + 3 * MaxStep + spent
        /\ spent <= MaxStep /\ now \in 0 .. W - 1 /\ CCOUNT = Plus(now, e)
        /\ q <= d /\ d < W
    BY <1>4, <1>0, <1>q DEF Unscaled
  <2>1. ~Passed
    <3>1. PICK left \in Int : left = d - e /\ e + left = d /\ left > 0 /\ left <= INT32_MAX
      <4>1. d - e \in Int /\ e + (d - e) = d /\ d - e > 0 /\ d - e <= INT32_MAX
        BY <2>0, <1>c, <1>k
      <4> QED BY <4>1
    <3>2. Plus(Plus(now, e), left) = Plus(now, e + left)
      BY ONLY <1>c, <2>0, e \in Int, left \in Int, CounterAdds
    <3>3. ccompare = Plus(CCOUNT, left) /\ -INT32_MAX <= left
      BY <2>0, <3>1, <3>2, <1>c
    <3> QED BY <1>k, <1>q, <3>1, <3>3, PassedBy
  <2>2. 0 <= MaxStep /\ e + q < d + 4 * MaxStep + 0
    BY <2>0, <1>c, <1>k
  <2>3. Unscaled(d, e)'
    BY <1>1, <1>q, <2>0, <2>1, <2>2 DEF Unscaled
  <2> QED BY <1>1, <1>2, <2>1, <2>3 DEF Exact, Adapting
<1>5. \/ \E age \in Nat, e \in Nat : Changed(age, e)
      \/ \E d \in Nat, e \in Nat : Unscaled(d, e)
  BY <1>0 DEF Exact, Adapting
<1> QED BY <1>3, <1>4, <1>5

\* The rest of a tick in cycles of another frequency, and in parts of a tick.
LEMMA Scale ==
  ASSUME NEW p \in Nat \ {0}, NEW q \in Nat \ {0}, NEW u \in Nat \ {0}, NEW v \in Nat \ {0},
         u * p = v * q, NEW left \in 0 .. q - 1
  PROVE  \E f \in 0 .. p - 1 :
           (left * p) \div q = f /\ u * f <= v * left /\ v * left < u * f + u
<1>1. PICK t \in Nat : t = left * p /\ t <= q * p - p
  <2>1. left * p <= (q - 1) * p
    OBVIOUS
  <2>2. (q - 1) * p = q * p - p
    OBVIOUS
  <2> QED BY <2>1, <2>2
<1>2. PICK f \in Int, r \in 0 .. q - 1 : t \div q = f /\ t = q * f + r
  BY Division
<1>3. f >= 0
  <2>1. CASE f <= -1
    <3>1. q * f <= -q
      BY <2>1
    <3>2. q * f \in Int
      OBVIOUS
    <3> QED BY <1>2, <3>1, <3>2
  <2> QED BY <2>1
<1>4. f < p
  <2>1. CASE f >= p
    <3>1. q * f >= q * p
      BY <2>1
    <3>2. q * f \in Int /\ q * p \in Int
      OBVIOUS
    <3> QED BY <1>1, <1>2, <3>1, <3>2
  <2> QED BY <2>1
<1>5. PICK d \in Int : d = v * left - u * f
  OBVIOUS
<1>6. q * d = u * r
  <2>1. q * d = q * (v * left) - q * (u * f)
    <3>1. v * left \in Int /\ u * f \in Int
      OBVIOUS
    <3> QED BY ONLY <1>5, <3>1, q \in Int, Distribute
  <2>2. q * (v * left) = (v * q) * left
    OBVIOUS
  <2>3. (u * p) * left = u * (left * p)
    OBVIOUS
  <2>4. q * (u * f) = u * (q * f)
    OBVIOUS
  <2>5. u * (left * p) = u * (q * f) + u * r
    <3>1. q * f \in Int /\ r \in Int
      OBVIOUS
    <3>2. u * (q * f + r) = u * (q * f) + u * r
      BY ONLY <3>1, u \in Int, Distribute
    <3> QED BY <1>1, <1>2, <3>2
  <2>6. u * (q * f) \in Int /\ u * r \in Int
    OBVIOUS
  <2> QED BY <2>1, <2>2, <2>3, <2>4, <2>5, <2>6
<1>7. 0 <= d
  <2>1. CASE d < 0
    <3>1. q * d < 0
      BY <2>1
    <3>2. u * r >= 0
      OBVIOUS
    <3> QED BY <1>6, <3>1, <3>2
  <2> QED BY <2>1
<1>8. d < u
  <2>1. CASE d >= u
    <3>1. q * d >= q * u
      BY <2>1
    <3>2. u * r < u * q /\ u * q = q * u
      OBVIOUS
    <3>3. q * u \in Int /\ u * r \in Int
      OBVIOUS
    <3> QED BY <1>6, <3>1, <3>2, <3>3
  <2> QED BY <2>1
<1>9. v * left \in Int /\ u * f \in Int
  OBVIOUS
<1> QED BY <1>1, <1>2, <1>3, <1>4, <1>5, <1>7, <1>8, <1>9

\* A change of frequency is off by no more than two ticks.
LEMMA Drift ==
  ASSUME NEW n \in Nat \ {0}, NEW off \in Int, NEW d \in Int,
         Within(off, n - 1), -(2 * Tick) <= d, d <= 2 * Tick
  PROVE  Within(off + d, n)
<1>1. PICK t \in Nat : t = 2 * Tick
  BY TickAssumption
<1>2. PICK m \in Nat : m = t * (n - 1)
  OBVIOUS
<1>3. t * n = m + t
  <2>1. t * (n - 1) = t * n - t
    OBVIOUS
  <2>2. t * n \in Int
    OBVIOUS
  <2> QED BY <1>2, <2>1, <2>2
<1>4. off \in -m .. m
  BY <1>1, <1>2 DEF Within
<1>5. off + d \in -(m + t) .. m + t
  BY <1>1, <1>4
<1> QED BY <1>1, <1>3, <1>5 DEF Within

LEMMA ScaledInv ==
  ASSUME Timing, Typed, update_tick_remainder,
         NEW age \in Nat, NEW e \in Nat, Changed(age, e)
  PROVE  Exact'
<1>0. pc = "remainder"
  BY DEF update_tick_remainder
<1>n. PICK p \in Periods, q \in Periods, u \in Nat \ {0}, v \in Nat \ {0}, off \in Int :
        /\ p = period /\ q = xt_tick_cycles
        /\ Tick \div p = u /\ Tick = u * p /\ Tick \div q = v /\ Tick = v * q
        /\ lag = v * age + u * e + off /\ Within(off, changes - 1)
  BY Between
<1>t. Typed
  OBVIOUS
<1>k. /\ CCOUNT \in 0 .. W - 1 /\ pending \in BOOLEAN /\ spent \in Nat
      /\ toUnblock \in Nat /\ changes \in Nat \ {0} /\ changes \in 0 .. MaxChanges
      /\ uret \in {"task", "woken"}
  BY <1>t, <1>0, TickAssumption DEF Typed, Adapting
<1>d. PICK delay \in Nat :
        /\ delay = Delay /\ delay - MaxStep \in Nat
        /\ MaxLate + 2 * delay + 6 * MaxStep <= INT32_MAX
        /\ \A x \in Periods : MaxLate + delay <= 2 * x /\ delay <= x
  BY <1>t, <1>k, Delayed DEF Typed
<1>c. /\ W \in Nat \ {0} /\ p \in Nat \ {0} /\ q \in Nat \ {0} /\ INT32_MAX \in Nat
      /\ 2 * INT32_MAX + 2 <= W /\ p <= INT32_MAX /\ q <= INT32_MAX
      /\ MaxStep \in Nat /\ MaxLate \in Nat /\ MaxStep > 0
  BY Constants
<1>2. /\ now \in 0 .. W - 1 /\ CCOUNT = Plus(now, e) /\ age > 0 /\ spent <= MaxStep
      /\ (uret = "task" => toUnblock = 0) /\ xt_skip_tick = 0
      /\ CCOMPARE = Plus(now, q - age) /\ (pending <=> q - age - e <= 0)
      /\ e <= 2 * MaxStep + spent /\ (age > q => e <= spent)
      /\ uret = "task" => age - q <= MaxLate + (delay - MaxStep)
      /\ uret = "woken" => age - q <= 2 * delay - MaxStep
  BY <1>0, <1>n, <1>d DEF Changed
<1>1. /\ xt_tick_cycles' = p /\ period' = p /\ Delay' = delay
      /\ UNCHANGED <<CCOUNT, changes, lag, toUnblock, xt_skip_tick, xMaxSuppressedTicks,
                     ret, uret>>
      /\ IF Minus(CCOMPARE, now) < q
           THEN /\ xt_set_ccompare(Plus(now, (Minus(CCOMPARE, now) * p) \div q))
                /\ Go("check_remainder")
           ELSE Go(uret) /\ UNCHANGED <<CCOMPARE, pending>>
  <2>1. /\ xt_tick_cycles' = p /\ period' = p
        /\ UNCHANGED <<changes, lag, toUnblock, xt_skip_tick, xMaxSuppressedTicks,
                       ret, uret>>
    BY <1>n DEF update_tick_remainder, counts
  <2>2. CCOUNT' = CCOUNT
    BY DEF update_tick_remainder, xt_set_ccompare, timer
  <2>3. IF Minus(CCOMPARE, now) < q
          THEN /\ xt_set_ccompare(Plus(now, (Minus(CCOMPARE, now) * p) \div q))
               /\ Go("check_remainder")
          ELSE Go(uret) /\ UNCHANGED <<CCOMPARE, pending>>
    BY <1>n DEF update_tick_remainder, timer
  <2>4. Delay' = delay
    BY <1>d, <2>1 DEF Delay
  <2> QED BY <2>1, <2>2, <2>3, <2>4
<1>3. CASE age <= q
  <2>1. PICK left \in 0 .. q - 1 : left = q - age
    BY <1>2, <1>3, <1>c
  <2>2. Minus(CCOMPARE, now) = left
    <3>1. left \in Int /\ 0 <= left /\ left < W
      BY <1>c
    <3>2. Minus(Plus(now, left), now) = left
      BY ONLY <1>c, <1>2, <3>1, Counter
    <3> QED BY <1>2, <2>1, <3>2
  <2>f. PICK f \in 0 .. p - 1 :
          (left * p) \div q = f /\ u * f <= v * left /\ v * left < u * f + u
    BY <1>n, <1>c, Scale
  <2>3. /\ CCOMPARE' = Plus(now, f) /\ pending' = FALSE
        /\ pc' = "check_remainder" /\ spent' = 0
    BY <1>1, <2>2, <2>f, <1>c DEF xt_set_ccompare, Go
  <2>4. PICK new \in Nat : new = p - f + e /\ new > 0 /\ p - new = f - e
    BY <1>c
  <2>5. Typed'
    <3>1. 0 < xMaxSuppressedTicks
      BY <1>t, Kinds
    <3> QED BY <1>t, <1>0, <1>n, <1>k, <1>1, <1>2, <2>3, <3>1 DEF Typed, Adapting
  <2>6. Scaled(new)'
    <3>1. CCOMPARE' = Plus(CCOUNT', p - new)
      <4>1. f - e \in Int /\ e + (f - e) = f
        OBVIOUS
      <4>2. Plus(Plus(now, e), f - e) = Plus(now, e + (f - e))
        BY ONLY <1>c, <1>2, e \in Int, <4>1, CounterAdds
      <4> QED BY <1>1, <1>2, <2>3, <2>4, <4>1, <4>2
    <3>2. TimerSet(p - new)'
      <4>1. ~(p - new <= 0 /\ 0 < (p - new) + 0)
        BY <1>c
      <4> QED BY <2>3, <3>1, <4>1 DEF TimerSet
    <3>3. new - p <= 3 * MaxStep + 0 /\ 0 <= MaxStep
      BY <1>2, <1>c, <1>k, <2>4
    <3> QED BY <1>1, <1>2, <2>3, <2>4, <3>2, <3>3 DEF Scaled
  <2>7. Within(lag - (Tick \div period) * new, changes)'
    <3>1. PICK x \in Int : x = u * f - v * left /\ -(2 * Tick) <= x /\ x <= 2 * Tick
      <4>1. u <= Tick
        <5>1. u * 1 <= u * p
          BY <1>c
        <5> QED BY <1>n, <5>1
      <4>2. u * f \in Int /\ v * left \in Int /\ Tick \in Nat
        BY TickAssumption
      <4> QED BY <2>f, <4>1, <4>2
    <3>2. lag - u * new = off + x
      <4>1. u * new = u * p - u * f + u * e
        <5>1. u * (p - f + e) = u * p - u * f + u * e
          BY <1>c
        <5> QED BY <2>4, <5>1
      <4>2. v * left = v * q - v * age
        BY ONLY <2>1, <1>c, v \in Int, age \in Int, Distribute
      <4>3. /\ u * p = v * q /\ u * p \in Int /\ u * f \in Int /\ u * e \in Int
            /\ v * age \in Int /\ v * left \in Int
        BY <1>n, <1>c
      <4> QED BY <1>n, <3>1, <4>1, <4>2, <4>3
    <3>3. Within(off + x, changes)
      BY <1>n, <1>k, <3>1, Drift
    <3> QED BY <1>n, <1>1, <3>2, <3>3 DEF Within
  <2>8. /\ InTask(new)' /\ Suspended(new)' /\ Asleep(new)' /\ MovingBack(new)'
        /\ InHandler(new)' /\ Begun(new)'
    BY <2>3 DEF InTask, Suspended, Asleep, MovingBack, InHandler, Begun
  <2>9. Aged(new)'
    BY <2>6, <2>7, <2>8 DEF Aged
  <2> QED BY <2>3, <2>5, <2>9 DEF Exact, Adapting
<1>4. CASE age > q
  <2>1. PICK over \in Nat :
          /\ over = age - q /\ over > 0 /\ over <= INT32_MAX
          /\ \A x \in Periods : over <= 2 * x
          /\ uret = "task" => over + e <= MaxLate + delay
          /\ uret = "woken" => over + e <= 2 * delay
    <3>1. age - q \in Nat /\ age - q > 0
      BY <1>4, <1>c
    <3>2. e <= MaxStep
      BY <1>2, <1>4, <1>c, <1>k
    <3>3. CASE uret = "task"
      <4>1. age - q <= INT32_MAX
        BY <1>2, <1>c, <1>d, <3>3
      <4>2. \A x \in Periods : age - q <= 2 * x
        <5>1. age - q <= MaxLate + delay
          BY <1>2, <1>c, <1>d, <3>3
        <5>2. \A x \in Periods : x \in Nat
          BY TickAssumption
        <5> QED BY <1>c, <1>d, <5>1, <5>2
      <4>3. (age - q) + e <= MaxLate + delay
        BY <1>2, <1>c, <1>d, <3>2, <3>3
      <4> QED BY <3>1, <3>3, <4>1, <4>2, <4>3
    <3>4. CASE uret = "woken"
      <4>1. age - q <= INT32_MAX
        BY <1>2, <1>c, <1>d, <3>4
      <4>2. \A x \in Periods : age - q <= 2 * x
        <5>1. age - q <= 2 * delay
          BY <1>2, <1>c, <1>d, <3>4
        <5>2. \A x \in Periods : x \in Nat
          BY TickAssumption
        <5> QED BY <1>c, <1>d, <5>1, <5>2
      <4>3. (age - q) + e <= 2 * delay
        BY <1>2, <1>c, <1>d, <3>2, <3>4
      <4> QED BY <3>1, <3>4, <4>1, <4>2, <4>3
    <3> QED BY <1>k, <3>3, <3>4
  <2>2. ~(Minus(CCOMPARE, now) < q)
    <3>1. -over \in Int /\ -W <= -over /\ -over < 0 /\ -over = q - age
      BY <2>1, <1>c
    <3>2. Minus(Plus(now, -over), now) = (-over) + W
      BY ONLY <1>c, <1>2, <3>1, Counter
    <3>3. ~((-over) + W < q)
      BY <2>1, <1>c
    <3> QED BY <1>2, <3>1, <3>2, <3>3
  <2>3. /\ pc' = uret /\ UNCHANGED <<CCOMPARE, pending>> /\ pending
        /\ spent' = (IF uret = "task" THEN MaxLate ELSE 0)
    <3>1. pending
      BY <1>2, <2>1, <1>c
    <3> QED BY <1>1, <2>2, <3>1 DEF Go
  <2>4. PICK new \in Nat : new = p + over + e /\ new > 0 /\ new - p = over + e
    BY <2>1, <1>c
  <2>5. Typed'
    <3>1. spent' \in Nat
      BY <2>3, <1>c
    <3>2. 0 < xMaxSuppressedTicks
      BY <1>t, Kinds
    <3> QED BY <1>t, <1>0, <1>n, <1>k, <1>1, <1>2, <2>3, <3>1, <3>2 DEF Typed, Adapting, Open
  <2>6. Timer(p - new)'
    <3>1. q - age \in Int /\ p - new \in Int /\ e + (p - new) = q - age /\ p - new <= 0
      BY <2>1, <2>4, <1>c
    <3>2. Plus(Plus(now, e), p - new) = Plus(now, e + (p - new))
      BY ONLY <1>c, <1>2, e \in Int, <3>1, CounterAdds
    <3> QED BY <1>1, <1>2, <2>3, <3>1, <3>2 DEF Timer
  <2>7. InTask(new)'
    <3> SUFFICES ASSUME uret = "task" PROVE InTask(new)'
      BY <2>3 DEF InTask
    <3>1. spent' = MaxLate /\ new - p <= MaxLate + delay
      BY <2>1, <2>3, <2>4
    <3> QED BY <1>1, <1>2, <2>6, <3>1 DEF InTask
  <2>8. Asleep(new)'
    <3> SUFFICES ASSUME uret = "woken" PROVE Asleep(new)'
      BY <2>3, <1>k DEF Asleep
    <3>1. period' * xt_skip_tick' + period' = p
      <4>1. p * 0 + p = p
        BY <1>c
      <4> QED BY <1>1, <1>2, <4>1
    <3>2. spent' = 0 /\ 0 <= MaxStep /\ new - p <= 0 + 2 * delay
      BY <2>1, <2>3, <2>4, <1>c, <1>d
    <3>3. ~(xt_skip_tick' > 0)
      BY <1>1, <1>2
    <3> QED BY <1>1, <2>3, <2>6, <3>1, <3>2, <3>3 DEF Asleep
  <2>9. Within(lag - (Tick \div period) * new, changes)'
    <3>1. PICK x \in Int : x = v * over - u * over /\ -(2 * Tick) <= x /\ x <= 2 * Tick
      <4>1. over <= 2 * p /\ over <= 2 * q
        BY <2>1
      <4>2. u * over <= 2 * Tick /\ v * over <= 2 * Tick
        <5>1. u * over <= u * (2 * p) /\ v * over <= v * (2 * q)
          BY <4>1, <1>c
        <5>2. u * (2 * p) = 2 * (u * p) /\ v * (2 * q) = 2 * (v * q)
          BY <1>c
        <5> QED BY <1>n, <5>1, <5>2
      <4>3. u * over \in Nat /\ v * over \in Nat /\ Tick \in Nat
        BY TickAssumption
      <4> QED BY <4>2, <4>3
    <3>2. lag - u * new = off + x
      <4>1. u * new = u * p + u * over + u * e
        <5>1. u * (p + over + e) = u * p + u * over + u * e
          BY <1>c
        <5> QED BY <2>4, <5>1
      <4>2. v * over = v * age - v * q
        BY ONLY <2>1, <1>c, v \in Int, age \in Int, Distribute
      <4>3. /\ u * p = v * q /\ u * p \in Int /\ u * over \in Int /\ u * e \in Int
            /\ v * age \in Int /\ v * over \in Int
        BY <1>n, <1>c
      <4> QED BY <1>n, <3>1, <4>1, <4>2, <4>3
    <3>3. Within(off + x, changes)
      BY <1>n, <1>k, <3>1, Drift
    <3> QED BY <1>n, <1>1, <3>2, <3>3 DEF Within
  <2>10. /\ Suspended(new)' /\ MovingBack(new)' /\ InHandler(new)' /\ Scaled(new)'
         /\ Begun(new)'
    BY <1>k, <2>3, <2>4 DEF Suspended, MovingBack, InHandler, Scaled, Begun
  <2>11. Aged(new)'
    BY <2>7, <2>8, <2>9, <2>10 DEF Aged
  <2> QED BY <1>k, <2>3, <2>5, <2>11 DEF Exact, Adapting
<1> QED BY <1>3, <1>4, <1>c

\* A deadline that is a tick away or more, and has not come, is left as it is.
LEMMA RemainderInv ==
  ASSUME Timing, Exact, update_tick_remainder
  PROVE  unadapted' \/ Exact'
<1>0. pc = "remainder"
  BY DEF update_tick_remainder
<1>t. Typed
  BY DEF Exact
<1>1. ASSUME NEW d \in Nat, NEW e \in Nat, Unscaled(d, e)
      PROVE  unadapted'
  <2>1. /\ now \in 0 .. W - 1 /\ CCOMPARE = Plus(now, d) /\ ~pending
        /\ xt_tick_cycles <= d /\ d < W
    BY <1>0, <1>1 DEF Unscaled
  <2>2. W \in Nat \ {0} /\ xt_tick_cycles \in Nat
    BY <1>t, Constants DEF Typed
  <2>3. Minus(Plus(now, d), now) = d
    BY ONLY <2>1, <2>2, d \in Nat, Counter
  <2> QED BY <2>1, <2>2, <2>3 DEF update_tick_remainder
<1>2. \/ \E age \in Nat, e \in Nat : Changed(age, e)
      \/ \E d \in Nat, e \in Nat : Unscaled(d, e)
  BY <1>0 DEF Exact, Adapting
<1> QED BY <1>t, <1>1, <1>2, ScaledInv

LEMMA CheckRemainderInv ==
  ASSUME Timing, Exact, CheckRemainder
  PROVE  Exact'
<1>0. pc = "check_remainder" /\ spent > 0
  BY DEF CheckRemainder
<1>n. PICK p \in Periods, u \in Nat \ {0}, k \in Nat, age \in Nat, off \in Int :
        /\ p = period /\ p = xt_tick_cycles /\ Tick \div p = u /\ Tick = u * p
        /\ k = p * xt_skip_tick /\ k + p + MaxStep <= W - 1
        /\ lag = u * age + off /\ Within(off, changes) /\ Aged(age)
  BY <1>0, Now DEF Open, Adapting
<1>t. Typed
  BY DEF Exact
<1>k. /\ CCOUNT \in 0 .. W - 1 /\ pending \in BOOLEAN
      /\ xt_skip_tick \in Nat /\ toUnblock \in Nat /\ spent \in Nat
      /\ xt_skip_tick < xMaxSuppressedTicks
      /\ xMaxSuppressedTicks \in Nat /\ xMaxSuppressedTicks >= 2
      /\ ret \in Open \ {"asleep"}
  BY <1>t, Kinds
<1>r. uret \in {"task", "woken"}
  BY <1>t, <1>0 DEF Typed
<1>d. PICK delay \in Nat : delay = Delay
  BY <1>t, Kinds
<1>c. /\ W \in Nat \ {0} /\ p \in Nat \ {0} /\ INT32_MAX \in Nat
      /\ 2 * INT32_MAX + 2 <= W /\ p <= INT32_MAX
      /\ MaxStep \in Nat /\ MaxLate \in Nat /\ MaxStep > 0
      /\ 4 * MaxStep <= p
  BY Constants
<1>1. /\ UNCHANGED <<CCOUNT, CCOMPARE, pending, xMaxSuppressedTicks, clock>>
      /\ period' = p /\ Delay' = delay
      /\ IF Minus(CCOMPARE, CCOUNT) > p
           THEN EnterHandler(uret)
           ELSE Go(uret) /\ UNCHANGED <<lag, toUnblock, xt_skip_tick, ret>>
  BY <1>n, <1>d DEF CheckRemainder, timer, counts, clock, Delay
<1>2. /\ xt_skip_tick = 0 /\ (uret = "task" => toUnblock = 0)
      /\ CCOMPARE = Plus(CCOUNT, p - age)
      /\ pending <=> p - age <= 0 /\ 0 < p - age + spent
      /\ age > 0 /\ age - p <= 3 * MaxStep + spent /\ spent <= MaxStep
  BY <1>0, <1>n DEF Aged, Scaled, TimerSet
<1>3. p - age \in Int /\ -W <= p - age /\ p - age < W
  BY <1>2, <1>c, <1>k
<1>4. CASE p < age
  <2>1. Minus(CCOMPARE, CCOUNT) > p
    <3>1. Minus(Plus(CCOUNT, p - age), CCOUNT) = (p - age) + W
      BY <1>3, <1>4, <1>c, <1>k, Counter
    <3>2. (p - age) + W > p
      BY <1>2, <1>c, <1>k
    <3> QED BY <1>2, <3>1, <3>2
  <2>2. /\ pc' = "handler" /\ ret' = uret /\ spent' = 0 /\ xt_skip_tick' = 0
        /\ lag' = lag - 0 * Tick /\ toUnblock' = toUnblock - 0
    BY <1>1, <1>2, <2>1 DEF EnterHandler, Step, Go
  <2>3. lag' = u * age + off /\ toUnblock' = toUnblock
    BY <1>n, <1>t, <1>k, <2>2, TickAssumption DEF Typed
  <2>4. InHandler(age)'
    <3>1. 0 <= MaxStep /\ age - p <= MaxLate + 2 * delay + 4 * MaxStep + 0 /\ p <= age
      BY <1>2, <1>4, <1>c, <1>k
    <3> QED BY <1>1, <1>2, <1>r, <2>2, <2>3, <3>1 DEF InHandler
  <2>5. /\ InTask(age)' /\ Suspended(age)' /\ Asleep(age)' /\ MovingBack(age)'
        /\ Begun(age)'
    BY <2>2 DEF InTask, Suspended, Asleep, MovingBack, Begun
  <2>6. /\ pending' \in BOOLEAN /\ xt_skip_tick' \in Nat /\ spent' \in Nat
        /\ xt_skip_tick' < xMaxSuppressedTicks /\ toUnblock' \in Nat
        /\ ret' \in Open \ {"asleep"}
    BY <1>1, <1>k, <1>r, <2>2, <2>3 DEF Open
  <2> QED BY <1>n, <1>t, <1>1, <2>2, <2>3, <2>4, <2>5, <2>6, Then
<1>5. CASE ~(p < age)
  <2>1. ~(Minus(CCOMPARE, CCOUNT) > p)
    <3>1. Minus(Plus(CCOUNT, p - age), CCOUNT) = p - age
      BY <1>3, <1>5, <1>c, <1>k, Counter
    <3>2. ~(p - age > p)
      BY <1>c
    <3> QED BY <1>2, <3>1, <3>2
  <2>2. /\ pc' = uret /\ UNCHANGED <<lag, toUnblock, xt_skip_tick, ret>>
        /\ spent' = (IF uret = "task" /\ pending THEN MaxLate ELSE 0)
    BY <1>1, <2>1 DEF Go
  <2>3. Timer(p - age)'
    <3>1. pending <=> p - age <= 0
      BY <1>0, <1>2, <1>5, <1>c, <1>k
    <3> QED BY <1>1, <1>2, <3>1 DEF Timer
  <2>4. InTask(age)'
    <3>1. PICK s \in Nat : s = spent'
      BY <2>2, <1>c
    <3>2. age - p <= MaxLate + delay /\ age - p <= s + delay
      BY <1>5, <1>c, <1>d
    <3> QED BY <1>1, <1>2, <2>2, <2>3, <3>1, <3>2 DEF InTask
  <2>5. Asleep(age)'
    <3>1. period' * xt_skip_tick' + period' = p
      <4>1. p * 0 + p = p
        BY <1>c
      <4> QED BY <1>1, <1>2, <2>2, <4>1
    <3>2. uret = "woken" => spent' = 0
      BY <2>2
    <3>3. age - p <= 0 /\ 0 <= MaxStep
      BY <1>5, <1>c
    <3>4. ~(xt_skip_tick' > 0)
      BY <1>2, <2>2
    <3> QED BY <1>r, <2>2, <2>3, <3>1, <3>2, <3>3, <3>4 DEF Asleep
  <2>6. /\ Suspended(age)' /\ MovingBack(age)' /\ InHandler(age)' /\ Begun(age)'
    BY <1>2, <1>r, <2>2 DEF Suspended, MovingBack, InHandler, Begun
  <2>7. /\ pending' \in BOOLEAN /\ xt_skip_tick' \in Nat /\ spent' \in Nat
        /\ xt_skip_tick' < xMaxSuppressedTicks /\ toUnblock' \in Nat
        /\ ret' \in Open \ {"asleep"} /\ pc' \in Open /\ lag' = u * age + off
    BY <1>n, <1>1, <1>k, <1>c, <1>r, <2>2 DEF Open
  <2> QED BY <1>n, <1>t, <1>1, <2>4, <2>5, <2>6, <2>7, Then
<1> QED BY <1>4, <1>5

\* The port begins to adapt to a frequency.
LEMMA Begins ==
  ASSUME Timing, Typed, NEW x \in Periods, period' = x, changes' = changes + 1,
         changes < MaxChanges, pc' \in Adapting, uret' \in {"task", "woken"},
         now' = CCOUNT, spent' = 0,
         UNCHANGED <<CCOUNT, CCOMPARE, pending, xt_tick_cycles, xMaxSuppressedTicks, ret>>,
         xt_skip_tick' \in Nat, xt_skip_tick' < xMaxSuppressedTicks, toUnblock' \in Nat,
         NEW q \in Periods, NEW v \in Nat \ {0}, NEW a \in Nat, NEW off \in Int,
         q = xt_tick_cycles, Tick \div q = v, a > 0,
         lag' = v * a + off, Within(off, changes),
         uret' = "task" => toUnblock' = 0,
         pc' = "update_set" =>
           /\ uret' = "woken" /\ toUnblock' >= 1
           /\ ccompare' = Plus(CCOUNT, q - a) /\ a < q,
         pc' # "update_check",
         pc' = "remainder" =>
           /\ xt_skip_tick' = 0 /\ CCOMPARE = Plus(CCOUNT, q - a)
           /\ pending <=> q - a <= 0
           /\ uret' = "task" => a - q <= MaxLate + Delay
           /\ uret' = "woken" => a - q <= 2 * Delay + MaxStep
  PROVE  Exact'
<1>c. /\ W \in Nat \ {0} /\ MaxStep \in Nat /\ MaxLate \in Nat /\ MaxChanges \in Nat
      /\ CCOUNT \in 0 .. W - 1 /\ changes \in 0 .. MaxChanges
      /\ q \in Nat \ {0}
  BY Constants, TickAssumption DEF Typed
<1>1. changes' \in 0 .. MaxChanges /\ changes' > 0 /\ changes' - 1 = changes
  BY <1>c
<1>u. PICK u \in Nat \ {0} : Tick \div x = u
  BY Unit
<1>2. lag' \in Int /\ lag' - v * a - u * 0 = off
  <2>1. v * a \in Int /\ u * 0 = 0
    OBVIOUS
  <2> QED BY <2>1
<1>3. Typed'
  <2>1. spent' \in Nat /\ pc' \notin Open /\ pc' # "check_remainder"
    BY DEF Open, Adapting
  <2> QED BY <1>1, <1>2, <2>1 DEF Typed
<1>4. CCOUNT' = Plus(now', 0)
  <2>1. CCOUNT = Plus(CCOUNT, 0)
    <3>1. 0 \in Int /\ -W < 0 /\ 0 < W
      BY <1>c
    <3> QED BY ONLY <1>c, <3>1, Reached
  <2> QED BY <2>1
<1>5. Within(lag - (Tick \div xt_tick_cycles) * a - (Tick \div period) * 0, changes - 1)'
  BY <1>1, <1>u, <1>2 DEF Within
<1>6. PICK delay \in Nat : delay = Delay /\ Delay' = delay + MaxStep
  <2>1. Delay \in Nat
    BY <1>c, Delayed
  <2>2. MaxStep * (changes + 1) = MaxStep * changes + MaxStep
    BY <1>c
  <2> QED BY <2>1, <2>2 DEF Delay
<1>7. Changed(a, 0)'
  <2>1. spent' <= MaxStep /\ 0 <= spent' /\ 0 <= 2 * MaxStep + spent'
    <3>1. 0 <= MaxStep /\ 0 <= 2 * MaxStep + 0
      BY <1>c
    <3> QED BY <3>1
  <2>2. q - a - 0 = q - a
    BY <1>c
  <2>3. pc' = "remainder" =>
          /\ uret' = "task" => a - q <= MaxLate + (Delay' - MaxStep)
          /\ uret' = "woken" => a - q <= 2 * Delay' - MaxStep
    <3>1. PICK d \in Nat : d = delay + MaxStep
      BY <1>c
    <3>2. d - MaxStep = delay /\ 2 * d - MaxStep = 2 * delay + MaxStep
      BY <1>c, <3>1
    <3> QED BY <1>6, <3>1, <3>2
  <2> QED BY <1>4, <1>5, <2>1, <2>2, <2>3, <1>c DEF Changed
<1> QED BY <1>3, <1>7 DEF Exact, Adapting

LEMMA BeginsUnscaled ==
  ASSUME Timing, Typed, NEW x \in Periods, period' = x, changes' = changes + 1,
         changes < MaxChanges, pc' \in Adapting, uret' \in {"task", "woken"},
         now' = CCOUNT, spent' = 0,
         UNCHANGED <<CCOUNT, CCOMPARE, pending, xt_tick_cycles, xMaxSuppressedTicks, ret>>,
         xt_skip_tick' \in Nat, xt_skip_tick' < xMaxSuppressedTicks, toUnblock' \in Nat,
         lag' \in Int,
         NEW q \in Periods, NEW d \in Nat, q = xt_tick_cycles, q <= d, d < W,
         pc' = "update_set" => ccompare' = Plus(CCOUNT, d) /\ d = q,
         pc' # "update_check",
         pc' = "remainder" => CCOMPARE = Plus(CCOUNT, d) /\ ~pending
  PROVE  Exact'
<1>c. /\ W \in Nat \ {0} /\ MaxStep \in Nat /\ MaxStep > 0 /\ MaxChanges \in Nat
      /\ CCOUNT \in 0 .. W - 1 /\ changes \in 0 .. MaxChanges
      /\ q \in Nat \ {0}
  BY Constants, TickAssumption DEF Typed
<1>1. changes' \in 0 .. MaxChanges /\ changes' > 0
  BY <1>c
<1>2. Typed'
  <2>1. spent' \in Nat /\ pc' \notin Open /\ pc' # "check_remainder"
    BY DEF Open, Adapting
  <2> QED BY <1>1, <2>1 DEF Typed
<1>3. CCOUNT' = Plus(now', 0)
  <2>1. CCOUNT = Plus(CCOUNT, 0)
    <3>1. 0 \in Int /\ -W < 0 /\ 0 < W
      BY <1>c
    <3> QED BY ONLY <1>c, <3>1, Reached
  <2> QED BY <2>1
<1>4. Unscaled(d, 0)'
  <2>1. /\ 0 <= MaxStep /\ 0 + q < d + 2 * MaxStep + 0 /\ 0 + q < d + 4 * MaxStep + 0
        /\ q <= q + 0
    BY <1>c
  <2> QED BY <1>3, <2>1, <1>c DEF Unscaled
<1> QED BY <1>2, <1>4 DEF Exact, Adapting

LEMMA UpdateInv ==
  ASSUME Timing, Exact, NEW x \in Periods, xt_update_clock_frequency(x)
  PROVE  Exact'
<1>0. pc \in {"task", "woken"} /\ changes < MaxChanges
  BY DEF xt_update_clock_frequency
<1>n. PICK p \in Periods, u \in Nat \ {0}, k \in Nat, age \in Nat, off \in Int :
        /\ p = period /\ p = xt_tick_cycles /\ Tick \div p = u /\ Tick = u * p
        /\ k = p * xt_skip_tick /\ k + p + MaxStep <= W - 1
        /\ lag = u * age + off /\ Within(off, changes) /\ Aged(age)
  BY <1>0, Now DEF Adapting
<1>t. Typed
  BY DEF Exact
<1>k. /\ CCOUNT \in 0 .. W - 1 /\ pending \in BOOLEAN
      /\ xt_skip_tick \in Nat /\ toUnblock \in Nat /\ spent \in Nat
      /\ xt_skip_tick < xMaxSuppressedTicks
      /\ xMaxSuppressedTicks \in Nat /\ xMaxSuppressedTicks >= 2
  BY <1>t, Kinds
<1>d. PICK delay \in Nat : delay = Delay
  BY <1>t, Kinds
<1>c. /\ W \in Nat \ {0} /\ p \in Nat \ {0} /\ INT32_MAX \in Nat
      /\ 2 * INT32_MAX + 2 <= W /\ p <= INT32_MAX
      /\ MaxStep \in Nat /\ MaxLate \in Nat /\ MaxStep > 0
      /\ 4 * MaxStep <= p
  BY Constants
<1>1. /\ period' = x /\ changes' = changes + 1 /\ uret' = pc /\ now' = CCOUNT
      /\ UNCHANGED <<CCOUNT, CCOMPARE, pending, xt_tick_cycles, xMaxSuppressedTicks, ret>>
      /\ IF xt_skip_tick = 0
           THEN Go("remainder") /\ UNCHANGED <<lag, toUnblock, xt_skip_tick>>
           ELSE IF CallsOff
             THEN CutShort(Minus(CCOMPARE, p * xt_skip_tick), CCOUNT, "update_set")
             ELSE KeepDeadline("remainder")
  BY <1>n DEF xt_update_clock_frequency, counts, timer
<1>a. pc = "woken" =>
        /\ CCOMPARE = Plus(CCOUNT, (k + p) - age) /\ (pending <=> (k + p) - age <= 0)
        /\ age - (k + p) <= spent \/ age - (k + p) <= spent + 2 * delay
        /\ spent <= MaxStep
        /\ xt_skip_tick > 0 => xt_skip_tick < toUnblock /\ age - (k + p) <= spent
  <2>0. period * xt_skip_tick + period = k + p
    BY <1>n
  <2>1. Asleep(age)
    BY <1>n DEF Aged
  <2> QED BY <2>0, <2>1, <1>d DEF Asleep, Timer
<1>2. CASE xt_skip_tick = 0
  <2>1. /\ pc' = "remainder" /\ spent' = 0 /\ xt_skip_tick' = 0
        /\ UNCHANGED <<lag, toUnblock>>
    BY <1>1, <1>2 DEF Go
  <2>2. age > 0
    BY <1>0, <1>n, <1>2 DEF Aged, Begun
  <2>3. k = 0
    BY <1>n, <1>c, <1>2
  <2>4. /\ CCOMPARE = Plus(CCOUNT, p - age) /\ (pending <=> p - age <= 0)
        /\ pc = "task" => toUnblock = 0 /\ age - p <= MaxLate + delay
        /\ pc = "woken" => age - p <= 2 * delay + MaxStep
    <3>1. CASE pc = "task"
      BY <1>n, <1>d, <3>1 DEF Aged, InTask, Timer
    <3>2. CASE pc = "woken"
      <4>1. (k + p) - age = p - age /\ age - (k + p) = age - p
        BY <2>3, <1>c
      <4>2. age - p <= 2 * delay + MaxStep
        BY <1>a, <1>c, <1>k, <3>2, <4>1
      <4> QED BY <1>a, <3>2, <4>1, <4>2
    <3> QED BY <1>0, <3>1, <3>2
  <2>5. lag' = u * age + off /\ xt_skip_tick' \in Nat /\ toUnblock' \in Nat
        /\ xt_skip_tick' < xMaxSuppressedTicks
    BY <1>n, <1>k, <2>1
  <2> QED BY <1>0, <1>1, <1>n, <1>t, <1>d, <2>1, <2>2, <2>4, <2>5, Begins DEF Adapting
<1>3. CASE xt_skip_tick # 0
  <2>0. xt_skip_tick > 0 /\ pc = "woken"
    <3>1. pc = "task" => xt_skip_tick = 0
      BY <1>n DEF Aged, InTask
    <3> QED BY <1>0, <1>3, <1>k, <3>1
  <2>d. PICK d \in Int : d = (k + p) - age /\ -MaxStep <= d /\ d < W - 1 /\ -W <= d
    BY <1>a, <1>n, <1>c, <1>k, <2>0
  <2>1. /\ d < 0 => Minus(CCOMPARE, CCOUNT) = d + W
        /\ 0 <= d => Minus(CCOMPARE, CCOUNT) = d
    <3>1. /\ 0 <= d /\ d < W => Minus(Plus(CCOUNT, d), CCOUNT) = d
          /\ -W <= d /\ d < 0 => Minus(Plus(CCOUNT, d), CCOUNT) = d + W
      BY ONLY <1>c, <1>k, d \in Int, Counter
    <3>2. d < W
      BY <2>d, <1>c
    <3> QED BY <1>a, <2>0, <2>d, <3>1, <3>2
  <2>2. CCOMPARE = Plus(CCOUNT, d) /\ (pending <=> d <= 0) /\ xt_skip_tick < toUnblock
    BY <1>a, <2>0, <2>d
  <2>3. CallsOff <=> d > p /\ d <= INT32_MAX
    <3>1. d < 0 => ~(d + W <= INT32_MAX)
      BY <2>d, <1>c
    <3> QED BY <1>n, <1>c, <2>1, <3>1 DEF CallsOff
  <2>6. ~CallsOff =>
          /\ pc' = "remainder" /\ spent' = 0 /\ xt_skip_tick' = 0
          /\ lag' = lag - xt_skip_tick * Tick /\ toUnblock' = toUnblock - xt_skip_tick
    BY <1>1, <1>3 DEF KeepDeadline, Step, Go
  <2>7. ~CallsOff => toUnblock' \in Nat /\ xt_skip_tick' < xMaxSuppressedTicks
    BY <2>2, <2>6, <1>k
  <2>4. CASE d > p /\ d <= INT32_MAX
    <3>1. CutShort(Minus(CCOMPARE, k), CCOUNT, "update_set")
      BY <1>1, <1>3, <1>n, <2>3, <2>4
    <3>2. Minus(CCOMPARE, k) = Plus(CCOUNT, p - age)
      <4>1. d - k = p - age
        BY <2>d, <1>c
      <4>2. Minus(Plus(CCOUNT, d), k) = Plus(CCOUNT, d - k)
        BY ONLY <1>c, <1>k, d \in Int, k \in Int, CounterAdds
      <4> QED BY <2>2, <4>1, <4>2
    <3>q. PICK q \in Int, r \in 0 .. p - 1 : age \div p = q /\ age % p = r /\ age = p * q + r
      BY <1>c, Division
    <3>3. TicksPassed(Plus(CCOUNT, p - age), CCOUNT) = q
      <4>1. p - age \in Int /\ p \in Int /\ (p - age) - p = -age /\ -age \in Int
            /\ -W < -age /\ -age <= 0 /\ -(-age) = age
        BY <1>c, <1>n, <2>d, <2>4
      <4>2. Minus(Plus(CCOUNT, p - age), p) = Plus(CCOUNT, (p - age) - p)
        BY ONLY <1>c, <1>k, <4>1, CounterAdds
      <4>3. Minus(CCOUNT, Plus(CCOUNT, -age)) = -(-age)
        BY ONLY <1>c, <1>k, <4>1, Counter
      <4>4. Minus(CCOUNT, Minus(Plus(CCOUNT, p - age), p)) = age
        BY <4>1, <4>2, <4>3
      <4> QED BY <1>n, <3>q, <4>4 DEF TicksPassed
    <3>4. /\ pc' = "update_set" /\ spent' = 0 /\ xt_skip_tick' = xt_skip_tick
          /\ lag' = lag - q * Tick /\ toUnblock' = toUnblock - q
          /\ ccompare' = Plus(Plus(CCOUNT, p - age), q * p)
      BY <1>n, <3>1, <3>2, <3>3 DEF CutShort, Step, Go
    <3>5. PICK s \in Int : s = p * q /\ s = q * p
      BY <1>c
    <3>6. age - s = r /\ r \in Nat
      BY <3>q, <3>5, <1>c
    <3>7. ccompare' = Plus(CCOUNT, p - r)
      <4>1. p - age \in Int /\ (p - age) + s = p - r
        BY <3>5, <3>6, <1>c
      <4>2. Plus(Plus(CCOUNT, p - age), s) = Plus(CCOUNT, (p - age) + s)
        BY ONLY <1>c, <1>k, s \in Int, <4>1, CounterAdds
      <4> QED BY <3>4, <3>5, <4>1, <4>2
    <3>8. lag' = u * r + off
      BY <1>n, <3>4, <3>5, <3>6, <1>c, Counted
    <3>9. q < xt_skip_tick
      <4>1. p * q < p * xt_skip_tick
        BY <2>d, <2>4, <1>n, <3>5, <3>6, <1>c
      <4> QED BY <4>1, <1>c, <1>k
    <3>10. toUnblock' \in Nat /\ toUnblock' >= 1
      BY <2>2, <3>4, <3>9, <1>k
    <3>12. xt_skip_tick' \in Nat /\ xt_skip_tick' < xMaxSuppressedTicks
      BY <1>k, <3>4
    <3>15. r < p
      BY <1>c
    <3>13. CASE r > 0
      BY <1>0, <1>1, <1>n, <1>t, <2>0, <3>4, <3>6, <3>7, <3>8, <3>10, <3>12, <3>13, <3>15,
         Begins DEF Adapting
    \* A tick has just ended.
    <3>14. CASE r = 0
      <4>1. ccompare' = Plus(CCOUNT, p) /\ p \in Nat /\ p <= p /\ p < W
        BY <3>7, <3>14, <1>c
      <4>2. lag' \in Int
        BY <1>n, <3>8
      <4> QED BY <1>0, <1>1, <1>n, <1>t, <2>0, <3>4, <3>10, <3>12, <4>1, <4>2,
                 BeginsUnscaled DEF Adapting
    <3> QED BY <3>6, <3>13, <3>14
  <2>5. CASE d < p
    <3>1. ~CallsOff
      BY <2>3, <2>5, <1>c
    <3>4. PICK a \in Nat : a = age - k /\ d = p - a /\ a > 0 /\ a - p <= MaxStep
      BY <2>d, <2>5, <1>c
    <3>5. lag' = u * a + off
      BY <1>n, <2>6, <3>1, <3>4, <1>k, <1>c, Counted
    <3>6. xt_skip_tick' \in Nat
      BY <2>6, <3>1
    <3>7. a - p <= 2 * delay + MaxStep
      BY <3>4, <1>c
    <3> QED BY <1>0, <1>1, <1>n, <1>t, <1>d, <2>0, <2>2, <2>6, <2>7, <3>1, <3>4, <3>5, <3>6,
               <3>7, Begins DEF Adapting
  \* The deadline is a tick away, or more than half the counter's range.
  <2>8. CASE d = p \/ d > INT32_MAX
    <3>1. ~CallsOff
      BY <2>3, <2>8, <1>c
    <3>2. d \in Nat /\ p <= d /\ d < W /\ ~pending
      BY <2>2, <2>d, <2>8, <1>c
    <3>3. lag' \in Int /\ xt_skip_tick' \in Nat
      BY <1>n, <1>k, <1>c, <2>6, <3>1, TickAssumption
    <3> QED BY <1>0, <1>1, <1>n, <1>t, <2>0, <2>2, <2>6, <2>7, <3>1, <3>2, <3>3,
               BeginsUnscaled DEF Adapting
  <2> QED BY <2>4, <2>5, <2>8, <1>c
<1> QED BY <1>2, <1>3

LEMMA StepInv == ASSUME Timing, Exact, Next PROVE unadapted' \/ Exact'
<1>1. CASE Cycle
  BY <1>1, CycleInv
<1>2. CASE Interrupt \/ SetNextTick \/ CountTick
  BY <1>2, InterruptInv, SetNextTickInv, CountTickInv
<1>3. CASE \E e \in 2 .. MaxIdle : Suspend(e)
  BY <1>3, SuspendInv
<1>4. CASE Confirm \/ Sleep \/ OtherInterrupt \/ Mask
  BY <1>4, ConfirmInv, SleepInv, OtherInterruptInv, MaskInv
<1>5. CASE Wake \/ Resume \/ vPortEndScheduler
  BY <1>5, WakeInv, ResumeInv, EndInv
<1>6. CASE SetDeadline("set", "check") \/ SetDeadline("update_set", "update_check")
  BY <1>6, SetDeadlineInv, UpdateSetInv
<1>7. CASE \/ CheckDeadline("check", "set", "resume")
           \/ CheckDeadline("update_check", "update_set", "remainder")
  BY <1>7, CheckDeadlineInv, UpdateCheckInv
<1>8. CASE \E x \in Periods : xt_update_clock_frequency(x)
  BY <1>8, UpdateInv
<1>9. CASE update_tick_remainder \/ CheckRemainder
  BY <1>9, RemainderInv, CheckRemainderInv
<1> QED BY <1>1, <1>2, <1>3, <1>4, <1>5, <1>6, <1>7, <1>8, <1>9 DEF Next, Code

LEMMA StutterInv == ASSUME Exact, UNCHANGED vars PROVE Exact'
<1>1. /\ UNCHANGED <<CCOUNT, CCOMPARE, pending, changes, period, xt_tick_cycles, pc, ret,
                     ulOldCCompare, first_blocked_tick, ccompare, now, lag, toUnblock,
                     spent, xMaxSuppressedTicks, xt_skip_tick, uret>>
      /\ Delay' = Delay
  BY DEF vars, timer, counts, clock, locals, Delay
<1>2. Typed => Typed'
  BY <1>1 DEF Typed
<1>3. ASSUME NEW age \in Nat, Aged(age)
      PROVE  Aged(age)'
  <2>1. Within(lag - (Tick \div period) * age, changes)'
    BY <1>1, <1>3 DEF Aged, Within
  <2>2. InTask(age)' /\ Suspended(age)' /\ Begun(age)'
    BY <1>1, <1>3 DEF Aged, InTask, Suspended, Timer, Begun
  <2>3. Asleep(age)' /\ MovingBack(age)' /\ InHandler(age)' /\ Scaled(age)'
    BY <1>1, <1>3 DEF Aged, Asleep, MovingBack, InHandler, Scaled, Timer, TimerSet
  <2> QED BY <2>1, <2>2, <2>3 DEF Aged
<1>4. ASSUME NEW age \in Nat, NEW e \in Nat, Changed(age, e)
      PROVE  Changed(age, e)'
  <2>1. Within(lag - (Tick \div xt_tick_cycles) * age - (Tick \div period) * e,
               changes - 1)'
    BY <1>1, <1>4 DEF Changed, Within
  <2> QED BY <1>1, <1>4, <2>1 DEF Changed
<1>5. ASSUME NEW d \in Nat, NEW e \in Nat, Unscaled(d, e)
      PROVE  Unscaled(d, e)'
  BY <1>1, <1>5 DEF Unscaled
<1> QED BY <1>1, <1>2, <1>3, <1>4, <1>5 DEF Exact

\* What a change of the frequency has left as it was stays recorded.
LEMMA Recorded == ASSUME unadapted, [Next]_vars PROVE unadapted'
<1>1. CASE update_tick_remainder
  BY <1>1 DEF update_tick_remainder
<1>2. ASSUME NEW x \in Periods, xt_update_clock_frequency(x) PROVE unadapted'
  BY <1>2 DEF xt_update_clock_frequency
<1>3. CASE \/ Cycle \/ Interrupt \/ SetNextTick \/ CountTick
           \/ \E e \in 2 .. MaxIdle : Suspend(e)
           \/ Confirm \/ Sleep \/ OtherInterrupt \/ Mask \/ Wake \/ Resume
           \/ CheckRemainder \/ vPortEndScheduler
  BY <1>3 DEF Cycle, Interrupt, SetNextTick, CountTick, Suspend, Confirm, Sleep,
     OtherInterrupt, Mask, Wake, Resume, CheckRemainder, vPortEndScheduler, clock
<1>4. CASE \/ SetDeadline("set", "check") \/ CheckDeadline("check", "set", "resume")
           \/ SetDeadline("update_set", "update_check")
           \/ CheckDeadline("update_check", "update_set", "remainder")
  BY <1>4 DEF SetDeadline, CheckDeadline, clock
<1>5. CASE UNCHANGED vars
  BY <1>5 DEF vars, clock
<1> QED BY <1>1, <1>2, <1>3, <1>4, <1>5 DEF Next, Code

\* The state is that of a clock that no step loses count of, until a change of the
\* frequency has left a deadline as it was.
THEOREM Inductive == ASSUME Timing PROVE Spec => []Adapted
<1>1. Init => Adapted
  BY InitInv DEF Adapted
<1>2. Adapted /\ [Next]_vars => Adapted'
  BY StepInv, StutterInv, Recorded DEF Adapted
<1> QED BY <1>1, <1>2, PTL DEF Spec

LEMMA QuietExact ==
  ASSUME Timing, Adapted
  PROVE  TicksExact /\ DeadlineNear
<1> SUFFICES ASSUME Quiet, ~unadapted, Exact PROVE TicksExact /\ DeadlineNear
  BY DEF TicksExact, DeadlineNear, Adapted
<1>0. pc = "task" /\ ~pending
  BY DEF Quiet
<1>n. PICK p \in Periods, u \in Nat \ {0}, k \in Nat, age \in Nat, off \in Int :
        /\ p = period /\ Tick = u * p
        /\ lag = u * age + off /\ Within(off, changes) /\ Aged(age)
  BY <1>0, Now DEF Adapting
<1>t. Typed
  BY DEF Exact
<1>k. CCOUNT \in 0 .. W - 1 /\ changes \in Nat
  BY <1>t, TickAssumption DEF Typed
<1>c. W \in Nat \ {0} /\ p \in Nat \ {0} /\ p < W
  BY Constants
<1>1. CCOMPARE = Plus(CCOUNT, p - age) /\ age < p
  BY <1>0, <1>n, <1>c DEF Aged, InTask, Timer
<1>2. TicksExact
  <2>1. PICK t \in Nat : t = u * age /\ t + u <= Tick
    <3>1. u * (age + 1) = u * age + u * 1
      BY ONLY u \in Int, age \in Int, 1 \in Int, Distribute
    <3>2. u * (age + 1) <= u * p
      BY <1>1, <1>c
    <3> QED BY <1>n, <3>1, <3>2
  <2>2. PICK m \in Nat : m = 2 * Tick * changes
    BY <1>k, TickAssumption
  <2>3. Tick \in Nat /\ off \in -m .. m
    BY <1>n, <2>2, TickAssumption DEF Within
  <2>4. lag \in -m .. Tick - 1 + m
    BY <1>n, <2>1, <2>3
  <2> QED BY <2>2, <2>4 DEF TicksExact
<1>3. DeadlineNear
  <2>1. p - age \in 1 .. p /\ p - age < W
    BY <1>1, <1>c
  <2>2. Minus(CCOMPARE, CCOUNT) = p - age
    BY <1>1, <1>c, <1>k, <2>1, Counter
  <2> QED BY <1>n, <2>1, <2>2 DEF DeadlineNear
<1> QED BY <1>2, <1>3

\* Whenever tasks run the ticks counted are the time that has passed, but for what
\* the changes of frequency may be off: no tick is lost or counted twice by the
\* handler that catches up, by a sleep of any length or by an interrupt that ends
\* one at any moment, until a change of frequency leaves a deadline unscaled.
THEOREM XtTicksExact ==
  ASSUME Timing
  PROVE  Spec => []TicksExact
<1>1. Adapted => TicksExact
  BY QuietExact
<1> QED BY <1>1, Inductive, PTL

\* Whenever tasks run the next tick is ahead, by no more than a tick of the core's
\* frequency: no path leaves a deadline that CCOUNT has passed, nor does a change of
\* frequency, unless it leaves the deadline as it was.
THEOREM XtDeadlineNear ==
  ASSUME Timing
  PROVE  Spec => []DeadlineNear
<1>1. Adapted => DeadlineNear
  BY QuietExact
<1> QED BY <1>1, Inductive, PTL

\* A sleep never counts the tick at which a task is due, however late it ends and
\* if the frequency changes in it, unless a change has left a deadline as it was:
\* vTaskStepTick's assertion holds.
THEOREM XtNeverPastUnblock ==
  ASSUME Timing
  PROVE  Spec => []NeverPastUnblock
<1>1. Adapted => NeverPastUnblock
  BY DEF Adapted, Exact, Typed, NeverPastUnblock
<1> QED BY <1>1, Inductive, PTL
=============================================================================
