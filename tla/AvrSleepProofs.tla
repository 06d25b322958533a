--------------------------- MODULE AvrSleepProofs ---------------------------
(***************************************************************************)
(* Context switching, the tick and tickless idle of the AVR Dx and Mega0   *)
(* ports, for any tasks, builds, stack heights, clocks and times.          *)
(*                                                                         *)
(* The first layer is about what stacks look like: below, the status        *)
(* registers of critical sections; above them return addresses, the lowest *)
(* of them into the code of the task; on top, when the task does not run,  *)
(* its registers.  The second is about time, from where the idle task is   *)
(* in its sleep, if only underneath handlers.                              *)
(***************************************************************************)
EXTENDS AvrSleep, SequenceTheorems, TLAPS

\* The places in the sleep function where interrupts are enabled.
Open == {"BeforeLow", "BeforeHigh", "Stop", "Disable", "Asleep", "Woke",
         "PoweredDown", "PowerUp", "Restart", "ResumeAll"}

\* Where a handler returns to in it.
Back == {"BeforeLow", "BeforeHigh", "Stop", "Disable", "Woke", "PowerUp", "Restart",
         "ResumeAll"}

Handlers == {"Tick", "App", "Rtc"}

Frame == [kind : {"sreg", "ret", "registers"},
          to : Codes \cup SleepCodes \cup {"Rtc", "none"}, i : BOOLEAN]

-----------------------------------------------------------------------------
(* Stacks                                                                  *)

\* What the frame at n of stack s may be.
SregAt(s, n) == s[n].i = (n = 1) /\ \A m \in 1 .. n : s[m].kind = "sreg"

Lowest(s, n) == n = 1 \/ s[n - 1].kind = "sreg"

RetAt(s, n) ==
  IF Lowest(s, n) THEN s[n].to = "task" \/ (n = 1 /\ s[n].to \in Back)
  ELSE s[n].to \in {"Ret", "Reti"}

RegistersAt(s, n) ==
  n = Len(s) /\ n > 1 /\ s[n - 1].kind = "ret" /\ s[n].i = (s[1].kind # "sreg")

Shape(s) ==
  /\ s \in Seq(Frame)
  /\ \A n \in 1 .. Len(s) :
       /\ s[n].kind = "sreg" => SregAt(s, n)
       /\ s[n].kind = "ret" => RetAt(s, n)
       /\ s[n].kind = "registers" => RegistersAt(s, n)

TopIs(s, k) == s # <<>> /\ s[Len(s)].kind = k
Critical(s) == s # <<>> /\ s[1].kind = "sreg"

Saved(t) == TopIs(stack[t], "registers") /\ topOfStack[t] = Len(stack[t])

\* Interrupts are enabled unless the task is in a critical section.
Follows == iflag <=> ~Critical(Mine)

\* What holds at each place of the program.
AtStart == ~iflag /\ ~level /\ Saved(pxCurrentTCB)
AtTask == Follows /\ ~level /\ (Mine = <<>> \/ TopIs(Mine, "sreg"))
AtSleep == ~level /\ Mine = <<>> /\ (iflag <=> pc \in Open)
AtRet == Follows /\ ~level /\ TopIs(Mine, "ret")
AtReti == Follows /\ TopIs(Mine, "ret")
AtHandler == iflag /\ ~Critical(Mine) /\ level /\ TopIs(Mine, "ret")
AtYield == ~iflag /\ ~level /\ Saved(pxCurrentTCB)
AtFrom == ~iflag /\ Saved(pxCurrentTCB)

Place ==
  /\ pc \in Codes \cup SleepCodes \cup {"Rtc"}
  /\ pc = "Start" => AtStart
  /\ pc = "task" => AtTask
  /\ pc \in SleepCodes => AtSleep
  /\ pc = "Ret" => AtRet
  /\ pc = "Reti" => AtReti
  /\ pc \in Handlers => AtHandler
  /\ pc = "Yield" => AtYield
  /\ pc \in {"FromTick", "FromISR"} => AtFrom

Stacks ==
  /\ pxCurrentTCB \in Tasks
  /\ DOMAIN stack = Tasks /\ DOMAIN topOfStack = Tasks
  /\ \A t \in Tasks : Shape(stack[t]) /\ (t # pxCurrentTCB => Saved(t))

StackInv == Stacks /\ {iflag, level} \subseteq BOOLEAN /\ Place

-----------------------------------------------------------------------------
(* Time                                                                    *)

\* A task was interrupted in the sleep function.
FromSleep(s) == s # <<>> /\ s[1].kind = "ret" /\ s[1].to \in Back

\* Where the idle task is in its sleep, if only underneath handlers.
Sleeping == IF pc \in SleepCodes THEN pc ELSE stack[Idle][1].to

Inside(places) == suspended /\ Sleeping \in places

\* The scheduler is suspended during the sleep, so no other task runs.
SleepAlone ==
  /\ suspended => /\ pxCurrentTCB = Idle /\ build.tickless /\ pc # "Start"
                  /\ pc \notin SleepCodes => FromSleep(stack[Idle])
  /\ pc \in SleepCodes => suspended
  /\ \A t \in Tasks : FromSleep(stack[t]) => suspended /\ t = Idle

\* A tick was or will be pended.
Ticked == tickFlag \/ pended \/ pc = "FromTick"

TimeTypes ==
  /\ now \in 0 .. MaxNow /\ RTC_OVF_Count \in Nat
  /\ tick \in [on : BOOLEAN, cnt : 0 .. PerTick - 1]
  /\ RTC \in [CMP : Nat, ovf : BOOLEAN, cmp : BOOLEAN, cmpInt : BOOLEAN]
  /\ sleep \in [idle : Nat, low : Nat, lowAt : Nat, before : Nat, stopAt : Nat,
                wakeBy : Nat, step : Nat, torn : BOOLEAN]
  /\ Inside({"BeforeLow", "BeforeHigh", "Stop", "Disable", "Confirm"}) => sleep.idle >= 2

\* The tick timer runs but from Stop to where it is started again.
TimerRuns ==
  /\ pc # "Start" /\ ~suspended => tick.on
  /\ Inside({"BeforeLow", "BeforeHigh", "Stop", "AbortEnable", "ResumeAll"}) => tick.on
  /\ Inside({"Disable", "Confirm"}) => ~tick.on
  /\ pc = "Confirm" => ~tickFlag

\* The part read is that of the time lowAt.
Read == sleep.low = sleep.lowAt % Wide /\ sleep.lowAt <= now

\* If no tick came since the first read, less than one tick has passed.
FirstRead == Inside({"BeforeHigh"}) => Read /\ (Ticked \/ now <= sleep.lowAt + tick.cnt)

NotStopped ==
  Inside({"Stop"}) /\ ~sleep.torn =>
    sleep.before <= now /\ (Ticked \/ now <= sleep.before + tick.cnt)

Stopped ==
  Inside({"Disable", "Confirm", "SetCompare", "Sleep", "Asleep", "Woke", "AfterLow", "AfterHigh"})
  /\ ~sleep.torn =>
    /\ sleep.before <= sleep.stopAt /\ sleep.stopAt <= now
    /\ \/ Inside({"Disable", "Confirm"}) /\ Ticked
       \/ sleep.stopAt < sleep.before + PerTick

SecondRead ==
  Inside({"AfterHigh"}) => Read /\ (sleep.torn \/ sleep.stopAt <= sleep.lowAt)

\* The compare value is that of a count ahead, or the kernel needs to run so late
\* that any value matches in time.
InTime ==
  /\ sleep.low \in 0 .. Wide - 1
  /\ sleep.lowAt <= now /\ now < sleep.lowAt + PerTick
  /\ \/ /\ sleep.lowAt + PerTick < sleep.wakeBy
        /\ sleep.low = (sleep.wakeBy - 1) % Wide
     \/ sleep.lowAt + PerTick + Wide <= sleep.wakeBy + 1

\* Count m is ahead, not after the kernel needs to run, and matches.
Match(m) == now < m /\ m <= sleep.wakeBy /\ RTC.CMP = m % Wide

\* The compare interrupt is enabled, and the counter matches in time.
WakeSet ==
  /\ pc = "SetCompare" => InTime
  /\ pc \in {"Sleep", "Asleep"} => RTC.cmpInt /\ (RTC.cmp \/ \E m \in Nat : Match(m))

Timing ==
  /\ TimeTypes /\ TimerRuns /\ FirstRead /\ NotStopped /\ Stopped /\ SecondRead
  /\ WakeSet /\ StepIsSleep

AloneInv == StackInv /\ SleepAlone

TimeInv == AloneInv /\ Timing
-----------------------------------------------------------------------------
(* What a push and a pop do to a stack                                     *)

LEMMA Pushed ==
  ASSUME NEW s \in Seq(Frame), NEW f \in Frame
  PROVE  /\ Append(s, f) \in Seq(Frame) /\ Append(s, f) # <<>>
         /\ Len(s) \in Nat /\ Len(Append(s, f)) = Len(s) + 1
         /\ \A n \in 1 .. Len(s) : Append(s, f)[n] = s[n]
         /\ Append(s, f)[Len(s) + 1] = f
  BY AppendProperties, LenProperties

LEMMA Popped ==
  ASSUME NEW s \in Seq(Frame), s # <<>>
  PROVE  /\ Drop(s) \in Seq(Frame)
         /\ Len(s) \in Nat /\ Len(s) > 0 /\ Len(Drop(s)) = Len(s) - 1
         /\ Drop(s) = <<>> <=> Len(s) = 1
         /\ \A n \in 1 .. Len(s) - 1 : Drop(s)[n] = s[n]
<1>1. Len(s) \in Nat /\ Len(s) > 0
  BY EmptySeq, LenProperties
<1>2. PICK k : k = Len(s) - 1
  OBVIOUS
<1>3. 1 \in 1 .. Len(s) + 1 /\ k \in 1 - 1 .. Len(s) /\ Drop(s) = SubSeq(s, 1, k)
  BY <1>1, <1>2 DEF Drop
<1>4. /\ SubSeq(s, 1, k) \in Seq(Frame)
      /\ Len(SubSeq(s, 1, k)) = IF 1 <= k THEN k - 1 + 1 ELSE 0
      /\ \A n \in 1 .. k - 1 + 1 : SubSeq(s, 1, k)[n] = s[1 + n - 1]
  BY <1>3, SubSeqProperties
<1>5. /\ Drop(s) \in Seq(Frame) /\ Len(Drop(s)) = Len(s) - 1
      /\ \A n \in 1 .. Len(s) - 1 : Drop(s)[n] = s[n]
  BY <1>1, <1>2, <1>3, <1>4
<1>6. Drop(s) = <<>> <=> Len(s) = 1
  BY <1>1, <1>5, EmptySeq
<1> QED
  BY <1>1, <1>5, <1>6

\* A frame that is still there is still what it may be.
LEMMA SameBelow ==
  ASSUME NEW s \in Seq(Frame), NEW z \in Seq(Frame), NEW n \in Nat \ {0},
         n <= Len(s), n <= Len(z), \A m \in 1 .. n : z[m] = s[m]
  PROVE  /\ SregAt(s, n) => SregAt(z, n)
         /\ RetAt(s, n) => RetAt(z, n)
<1>1. z[n] = s[n] /\ (n > 1 => z[n - 1] = s[n - 1])
  OBVIOUS
<1>2. SregAt(s, n) => SregAt(z, n)
  BY <1>1 DEF SregAt
<1>3. Lowest(s, n) <=> Lowest(z, n)
  BY <1>1 DEF Lowest
<1> QED
  BY <1>1, <1>2, <1>3 DEF RetAt

\* A push leaves the shape of a stack that does not end with registers.
LEMMA PushKeepsShape ==
  ASSUME NEW s, Shape(s), ~TopIs(s, "registers"), NEW f \in Frame,
         NEW z, z = Append(s, f),
         f.kind = "sreg" => SregAt(z, Len(s) + 1),
         f.kind = "ret" => RetAt(z, Len(s) + 1),
         f.kind = "registers" => RegistersAt(z, Len(s) + 1)
  PROVE  Shape(z)
<1>1. s \in Seq(Frame)
  BY DEF Shape
<1>2. /\ z \in Seq(Frame) /\ Len(s) \in Nat /\ Len(z) = Len(s) + 1
      /\ \A n \in 1 .. Len(s) : z[n] = s[n]
      /\ z[Len(s) + 1] = f
  BY <1>1, Pushed
<1>3. SUFFICES ASSUME NEW n \in 1 .. Len(z)
               PROVE  /\ z[n].kind = "sreg" => SregAt(z, n)
                      /\ z[n].kind = "ret" => RetAt(z, n)
                      /\ z[n].kind = "registers" => RegistersAt(z, n)
  BY <1>2 DEF Shape
<1>4. CASE n = Len(s) + 1
  BY <1>2, <1>4
<1>5. CASE n \in 1 .. Len(s)
  <2>1. /\ z[n] = s[n] /\ n \in Nat \ {0} /\ n <= Len(s) /\ n <= Len(z)
        /\ \A m \in 1 .. n : z[m] = s[m]
    BY <1>2, <1>5
  <2>2. /\ z[n].kind = "sreg" => SregAt(s, n)
        /\ z[n].kind = "ret" => RetAt(s, n)
        /\ z[n].kind = "registers" => RegistersAt(s, n)
    BY <2>1, <1>5 DEF Shape
  <2>3. z[n].kind # "registers"
    <3>1. SUFFICES ASSUME z[n].kind = "registers" PROVE FALSE
      OBVIOUS
    <3>2. n = Len(s) /\ s[n].kind = "registers"
      BY <2>1, <2>2, <3>1 DEF RegistersAt
    <3>3. s # <<>>
      BY <1>1, <1>5, EmptySeq
    <3> QED
      BY <3>2, <3>3 DEF TopIs
  <2> QED
    BY <1>1, <1>2, <2>1, <2>2, <2>3, SameBelow
<1> QED
  BY <1>2, <1>4, <1>5

\* The code of a task may enter a critical section: the flags go on top.
LEMMA PushSreg ==
  ASSUME NEW s, Shape(s), s = <<>> \/ TopIs(s, "sreg"), NEW i \in BOOLEAN,
         i <=> ~Critical(s)
  PROVE  /\ Shape(Append(s, Sreg(i)))
         /\ TopIs(Append(s, Sreg(i)), "sreg")
         /\ Critical(Append(s, Sreg(i)))
<1> DEFINE z == Append(s, Sreg(i))
<1>1. s \in Seq(Frame) /\ Sreg(i) \in Frame
  BY DEF Shape, Frame, Sreg
<1>2. /\ z \in Seq(Frame) /\ z # <<>> /\ Len(s) \in Nat /\ Len(z) = Len(s) + 1
      /\ \A n \in 1 .. Len(s) : z[n] = s[n]
      /\ z[Len(s) + 1] = Sreg(i)
  BY <1>1, Pushed
<1>3. s # <<>> => SregAt(s, Len(s)) /\ Len(s) >= 1
  BY <1>1, <1>2, EmptySeq DEF Shape, TopIs
<1>4. \A m \in 1 .. Len(s) : s[m].kind = "sreg"
  <2>1. CASE s = <<>>
    BY <2>1, EmptySeq
  <2> QED
    BY <2>1, <1>3 DEF SregAt
<1>5. i <=> Len(s) = 0
  <2>1. CASE s = <<>>
    BY <2>1, EmptySeq DEF Critical
  <2> QED
    BY <2>1, <1>2, <1>3, <1>4 DEF Critical
<1>6. SregAt(z, Len(s) + 1)
  BY <1>2, <1>4, <1>5 DEF SregAt, Sreg
<1>7. Shape(z)
  BY <1>1, <1>6, PushKeepsShape DEF Sreg, TopIs
<1>8. z[1].kind = "sreg"
  BY <1>2, <1>4 DEF Sreg
<1> HIDE DEF z
<1>9. TopIs(z, "sreg") /\ Critical(z)
  BY <1>2, <1>8 DEF TopIs, Critical, Sreg
<1> QED
  BY <1>7, <1>9 DEF z

\* A return address goes on top: into the task or the sleep at the bottom or
\* over critical sections, into switching code over another.
LEMMA PushRet ==
  ASSUME NEW s, Shape(s), NEW l,
         \/ l = "task" /\ (s = <<>> \/ TopIs(s, "sreg"))
         \/ l \in Back /\ s = <<>>
         \/ l \in {"Ret", "Reti"} /\ TopIs(s, "ret")
  PROVE  /\ Shape(Append(s, Ret(l)))
         /\ TopIs(Append(s, Ret(l)), "ret")
         /\ Critical(Append(s, Ret(l))) <=> Critical(s)
<1> DEFINE z == Append(s, Ret(l))
<1>1. s \in Seq(Frame) /\ Ret(l) \in Frame
  BY DEF Shape, Frame, Ret, Back, Codes, SleepCodes
<1>2. /\ z \in Seq(Frame) /\ z # <<>> /\ Len(s) \in Nat /\ Len(z) = Len(s) + 1
      /\ \A n \in 1 .. Len(s) : z[n] = s[n]
      /\ z[Len(s) + 1] = Ret(l)
  BY <1>1, Pushed
<1>3. /\ s = <<>> <=> Len(s) = 0
      /\ s # <<>> => z[1] = s[1] /\ z[Len(s)] = s[Len(s)]
  BY <1>1, <1>2, EmptySeq
<1>4. Lowest(z, Len(s) + 1) <=> s = <<>> \/ s[Len(s)].kind = "sreg"
  BY <1>2, <1>3 DEF Lowest
<1>5. RetAt(z, Len(s) + 1)
  BY <1>2, <1>3, <1>4 DEF RetAt, Ret, TopIs, Back
<1>6. Shape(z)
  BY <1>1, <1>5, PushKeepsShape DEF Ret, TopIs
<1>7. Critical(z) <=> Critical(s)
  <2>1. CASE s = <<>>
    BY <2>1, <1>2, <1>3 DEF Critical, Ret
  <2> QED
    BY <2>1, <1>2, <1>3 DEF Critical
<1> HIDE DEF z
<1>8. TopIs(z, "ret")
  BY <1>2 DEF TopIs, Ret
<1> QED
  BY <1>6, <1>7, <1>8 DEF z

\* The registers go on a return address.
LEMMA PushRegisters ==
  ASSUME NEW s, Shape(s), TopIs(s, "ret"), NEW i \in BOOLEAN, i <=> ~Critical(s)
  PROVE  /\ Shape(Append(s, Registers(i)))
         /\ TopIs(Append(s, Registers(i)), "registers")
<1> DEFINE z == Append(s, Registers(i))
<1>1. s \in Seq(Frame) /\ Registers(i) \in Frame
  BY DEF Shape, Frame, Registers
<1>2. /\ z \in Seq(Frame) /\ z # <<>> /\ Len(s) \in Nat /\ Len(z) = Len(s) + 1
      /\ \A n \in 1 .. Len(s) : z[n] = s[n]
      /\ z[Len(s) + 1] = Registers(i)
  BY <1>1, Pushed
<1>3. s # <<>> /\ Len(s) > 0 /\ z[1] = s[1] /\ z[Len(s)] = s[Len(s)]
  BY <1>1, <1>2, EmptySeq DEF TopIs
<1>4. RegistersAt(z, Len(s) + 1)
  BY <1>2, <1>3 DEF RegistersAt, Registers, TopIs, Critical
<1>5. Shape(z)
  BY <1>1, <1>4, PushKeepsShape DEF Registers, TopIs
<1> HIDE DEF z
<1>6. TopIs(z, "registers")
  BY <1>2 DEF TopIs, Registers
<1> QED
  BY <1>5, <1>6 DEF z

LEMMA CriticalBelow ==
  ASSUME NEW s, Shape(s), TopIs(s, "sreg")
  PROVE  Critical(s)
<1>1. Len(s) \in Nat /\ Len(s) > 0
  BY EmptySeq, LenProperties DEF Shape, TopIs
<1> QED
  BY <1>1 DEF Shape, TopIs, SregAt, Critical

LEMMA PopKeepsShape ==
  ASSUME NEW s, Shape(s), s # <<>>
  PROVE  Shape(Drop(s))
<1> DEFINE z == Drop(s)
<1>1. s \in Seq(Frame)
  BY DEF Shape
<1>2. /\ z \in Seq(Frame) /\ Len(s) \in Nat /\ Len(s) > 0 /\ Len(z) = Len(s) - 1
      /\ \A n \in 1 .. Len(s) - 1 : z[n] = s[n]
  BY <1>1, Popped
<1> HIDE DEF z
<1>3. SUFFICES ASSUME NEW n \in 1 .. Len(z)
               PROVE  /\ z[n].kind = "sreg" => SregAt(z, n)
                      /\ z[n].kind = "ret" => RetAt(z, n)
                      /\ z[n].kind = "registers" => RegistersAt(z, n)
  BY <1>2 DEF Shape, z
<1>4. /\ z[n] = s[n] /\ n \in Nat \ {0} /\ n \in 1 .. Len(s) /\ n # Len(s)
      /\ n <= Len(s) /\ n <= Len(z) /\ \A m \in 1 .. n : z[m] = s[m]
  BY <1>2
<1>5. /\ z[n].kind = "sreg" => SregAt(s, n)
      /\ z[n].kind = "ret" => RetAt(s, n)
      /\ z[n].kind # "registers"
  BY <1>4 DEF Shape, RegistersAt
<1> QED
  BY <1>1, <1>2, <1>4, <1>5, SameBelow

\* The flags of a critical section tell whether another one is left.
LEMMA PopSreg ==
  ASSUME NEW s, Shape(s), TopIs(s, "sreg")
  PROVE  /\ s[Len(s)].i \in BOOLEAN
         /\ s[Len(s)].i <=> ~Critical(Drop(s))
         /\ Drop(s) = <<>> \/ TopIs(Drop(s), "sreg")
<1> DEFINE z == Drop(s)
<1>1. s \in Seq(Frame) /\ s # <<>>
  BY DEF Shape, TopIs
<1>2. /\ z \in Seq(Frame) /\ Len(s) \in Nat /\ Len(s) > 0 /\ Len(z) = Len(s) - 1
      /\ z = <<>> <=> Len(s) = 1
      /\ \A n \in 1 .. Len(s) - 1 : z[n] = s[n]
  BY <1>1, Popped
<1> HIDE DEF z
<1>3. SregAt(s, Len(s))
  BY <1>2 DEF Shape, TopIs
<1>4. CASE Len(s) = 1
  BY <1>2, <1>3, <1>4 DEF SregAt, Critical, z
<1>5. CASE Len(s) # 1
  <2>1. /\ z[1] = s[1] /\ z[Len(z)] = s[Len(s) - 1]
        /\ s[1].kind = "sreg" /\ s[Len(s) - 1].kind = "sreg"
    BY <1>2, <1>3, <1>5 DEF SregAt
  <2> QED
    BY <2>1, <1>2, <1>3, <1>5 DEF SregAt, Critical, TopIs, z
<1> QED
  BY <1>4, <1>5

\* A return address tells what is left: into the task, critical sections;
\* into the sleep, nothing; into switching code, another return address.
LEMMA PopRet ==
  ASSUME NEW s, Shape(s), TopIs(s, "ret")
  PROVE  /\ Critical(Drop(s)) <=> Critical(s)
         /\ \/ s[Len(s)].to = "task" /\ (Drop(s) = <<>> \/ TopIs(Drop(s), "sreg"))
            \/ s[Len(s)].to \in Back /\ Drop(s) = <<>>
            \/ s[Len(s)].to \in {"Ret", "Reti"} /\ TopIs(Drop(s), "ret")
<1> DEFINE z == Drop(s)
<1>1. s \in Seq(Frame) /\ s # <<>>
  BY DEF Shape, TopIs
<1>2. /\ z \in Seq(Frame) /\ Len(s) \in Nat /\ Len(s) > 0 /\ Len(z) = Len(s) - 1
      /\ z = <<>> <=> Len(s) = 1
      /\ \A n \in 1 .. Len(s) - 1 : z[n] = s[n]
  BY <1>1, Popped
<1> HIDE DEF z
<1>3. RetAt(s, Len(s)) /\ s[Len(s)].kind = "ret"
  BY <1>2 DEF Shape, TopIs
<1>4. CASE Len(s) = 1
  BY <1>2, <1>3, <1>4 DEF RetAt, Lowest, Critical, z
<1>5. CASE Len(s) # 1
  <2>1. /\ z[1] = s[1] /\ z[Len(z)] = s[Len(s) - 1] /\ z # <<>>
        /\ Len(s) - 1 \in 1 .. Len(s) /\ s[Len(s) - 1] \in Frame
    BY <1>1, <1>2, <1>5, ElementOfSeq
  <2>2. s[Len(s) - 1].kind \in {"sreg", "ret"}
    BY <2>1, <1>2 DEF Shape, RegistersAt, Frame
  <2>3. Critical(z) <=> Critical(s)
    BY <2>1, <1>1 DEF Critical
  <2> QED
    BY <2>1, <2>2, <2>3, <1>2, <1>3, <1>5 DEF RetAt, Lowest, TopIs, z
<1> QED
  BY <1>4, <1>5

\* Under the registers is a return address, and their I flag is the task's.
LEMMA PopRegisters ==
  ASSUME NEW s, Shape(s), TopIs(s, "registers")
  PROVE  /\ s[Len(s)].i \in BOOLEAN
         /\ s[Len(s)].i <=> ~Critical(Drop(s))
         /\ TopIs(Drop(s), "ret")
<1> DEFINE z == Drop(s)
<1>1. s \in Seq(Frame) /\ s # <<>>
  BY DEF Shape, TopIs
<1>2. /\ z \in Seq(Frame) /\ Len(s) \in Nat /\ Len(s) > 0 /\ Len(z) = Len(s) - 1
      /\ z = <<>> <=> Len(s) = 1
      /\ \A n \in 1 .. Len(s) - 1 : z[n] = s[n]
  BY <1>1, Popped
<1> HIDE DEF z
<1>3. RegistersAt(s, Len(s))
  BY <1>2 DEF Shape, TopIs
<1>4. /\ z[1] = s[1] /\ z[Len(z)] = s[Len(s) - 1] /\ z # <<>>
  BY <1>2, <1>3 DEF RegistersAt
<1> QED
  BY <1>2, <1>3, <1>4 DEF RegistersAt, Critical, TopIs, z

LEMMA SavedIs ==
  ASSUME NEW s \in Seq(Frame), NEW f \in Frame, NEW g \in Frame
  PROVE  s \o <<f>> \o <<g>> = Append(Append(s, f), g)
<1>1. <<f>> \in Seq(Frame) /\ <<g>> \in Seq(Frame)
  OBVIOUS
<1>2. s \o <<f>> = Append(s, f)
  BY AppendIsConcat
<1> QED
  BY <1>2, Pushed, AppendIsConcat

-----------------------------------------------------------------------------
(* The stacks under each of the processor's and the port's steps           *)

LEMMA SetMineIs ==
  ASSUME Stacks, NEW s, Shape(s), SetMine(s), UNCHANGED <<pxCurrentTCB, topOfStack>>
  PROVE  Stacks' /\ Mine' = s
  BY DEF Stacks, SetMine, Saved, Mine

\* A function that switches has saved its task: every task is saved.
AllSaved == Stacks /\ Saved(pxCurrentTCB)

\* portSAVE_CONTEXT in the code of a task or in a handler.
LEMMA SaveSaves ==
  ASSUME Stacks, iflag \in BOOLEAN, Follows, UNCHANGED pxCurrentTCB,
         NEW l, portSAVE_CONTEXT(<<Ret(l)>>),
         \/ l = "task" /\ (Mine = <<>> \/ TopIs(Mine, "sreg"))
         \/ l \in {"Ret", "Reti"} /\ TopIs(Mine, "ret")
  PROVE  AllSaved' /\ iflag' = FALSE
<1> DEFINE r == Append(Mine, Ret(l))
           z == Append(r, Registers(iflag))
<1>1. pxCurrentTCB \in Tasks /\ Shape(Mine)
  BY DEF Stacks, Mine
<1>2. Shape(r) /\ TopIs(r, "ret") /\ (Critical(r) <=> Critical(Mine))
  BY <1>1, PushRet
<1>3. Shape(z) /\ TopIs(z, "registers")
  BY <1>2, PushRegisters DEF Follows
<1>4. Mine \o <<Ret(l)>> \o <<Registers(iflag)>> = z
  <2>1. Mine \in Seq(Frame) /\ Ret(l) \in Frame /\ Registers(iflag) \in Frame
    BY <1>1 DEF Shape, Frame, Ret, Registers, Codes
  <2> QED
    BY <2>1, SavedIs
<1> HIDE DEF z
<1>5. /\ stack' = [stack EXCEPT ![pxCurrentTCB] = z]
      /\ topOfStack' = [topOfStack EXCEPT ![pxCurrentTCB] = Len(z)]
      /\ iflag' = FALSE
  BY <1>4 DEF portSAVE_CONTEXT, SetMine
<1> QED
  BY <1>1, <1>3, <1>5 DEF Stacks, AllSaved, Saved

\* portRESTORE_CONTEXT: the stack of the task that runs ends with a return
\* address and interrupts are as the task left them.
LEMMA RestoreRestores ==
  ASSUME AllSaved, NEW t \in Tasks, portRESTORE_CONTEXT(t), pxCurrentTCB' = t
  PROVE  Stacks' /\ iflag' \in BOOLEAN /\ Follows' /\ TopIs(Mine', "ret")
<1> DEFINE s == stack[t]
<1>1. Shape(s) /\ TopIs(s, "registers") /\ topOfStack[t] = Len(s)
  BY DEF AllSaved, Stacks, Saved
<1>2. SubSeq(s, 1, topOfStack[t]) = s
  BY <1>1, SubSeqFull DEF Shape
<1>3. stack' = [stack EXCEPT ![t] = Drop(s)] /\ iflag' = s[Len(s)].i
  BY <1>1, <1>2 DEF portRESTORE_CONTEXT
<1>4. Shape(Drop(s))
  BY <1>1, PopKeepsShape DEF TopIs
<1>5. /\ s[Len(s)].i \in BOOLEAN /\ (s[Len(s)].i <=> ~Critical(Drop(s)))
      /\ TopIs(Drop(s), "ret")
  BY <1>1, PopRegisters
<1>6. Mine' = Drop(s)
  BY <1>3 DEF Mine, AllSaved, Stacks
<1>7. Stacks'
  BY <1>3, <1>4 DEF AllSaved, Stacks, Saved, portRESTORE_CONTEXT
<1> QED
  BY <1>3, <1>5, <1>6, <1>7 DEF Follows

\* The end of a function or of a handler.
LEMMA ReturnReturns ==
  ASSUME Stacks, iflag \in BOOLEAN, level' = FALSE, Follows, TopIs(Mine, "ret"), Return
  PROVE  StackInv'
<1> DEFINE z == Drop(Mine)
<1>1. Shape(Mine) /\ Mine # <<>>
  BY DEF Stacks, Mine, TopIs
<1>2. Shape(z)
  BY <1>1, PopKeepsShape
<1>3. /\ Critical(z) <=> Critical(Mine)
      /\ \/ Top.to = "task" /\ (z = <<>> \/ TopIs(z, "sreg"))
         \/ Top.to \in Back /\ z = <<>>
         \/ Top.to \in {"Ret", "Reti"} /\ TopIs(z, "ret")
  BY <1>1, PopRet DEF Top
<1>4. Stacks' /\ Mine' = z
  BY <1>2, SetMineIs DEF Return
<1> HIDE DEF z
<1>5. iflag' = iflag /\ pc' = Top.to /\ (iflag' <=> ~Critical(Mine'))
  BY <1>3, <1>4 DEF Return, Follows
<1>6. Follows'
  BY <1>5 DEF Follows
<1>7. CASE pc' = "task" /\ (z = <<>> \/ TopIs(z, "sreg"))
  BY <1>4, <1>5, <1>6, <1>7 DEF StackInv, Place, AtTask, Codes, SleepCodes, Handlers
<1>8. CASE pc' \in Back /\ z = <<>>
  <2>1. ~Critical(z)
    BY <1>8 DEF Critical
  <2>2. iflag' /\ pc' \in SleepCodes /\ pc' \in Open
    BY <1>4, <1>5, <1>8, <2>1 DEF Back, Open, SleepCodes
  <2>3. AtSleep'
    BY <1>4, <1>8, <2>2 DEF AtSleep
  <2> QED
    BY <1>4, <1>5, <2>2, <2>3 DEF StackInv, Place, Codes, SleepCodes, Handlers
<1>9. CASE pc' \in {"Ret", "Reti"} /\ TopIs(z, "ret")
  BY <1>4, <1>5, <1>6, <1>9 DEF StackInv, Place, AtRet, AtReti, Codes, SleepCodes, Handlers
<1> QED
  BY <1>3, <1>5, <1>7, <1>8, <1>9

\* An interrupt is taken where interrupts are enabled.
LEMMA InterruptInterrupts ==
  ASSUME StackInv, NEW h \in Handlers, Interrupt(h)
  PROVE  StackInv'
<1> DEFINE l == Resumes(pc)
           z == Append(Mine, Ret(l))
<1>1. Shape(Mine) /\ iflag /\ ~level
  BY DEF StackInv, Stacks, Mine, Interrupt
<1>2. /\ ~Critical(Mine)
      /\ \/ l = "task" /\ (Mine = <<>> \/ TopIs(Mine, "sreg"))
         \/ l \in Back /\ Mine = <<>>
         \/ l \in {"Ret", "Reti"} /\ TopIs(Mine, "ret")
  <2>1. CASE pc = "task"
    BY <1>1, <2>1 DEF StackInv, Place, AtTask, Follows, Resumes
  <2>2. CASE pc \in SleepCodes
    <3>1. Mine = <<>> /\ pc \in Open
      BY <1>1, <2>2 DEF StackInv, Place, AtSleep
    <3>2. Resumes(pc) \in Back
      BY <3>1 DEF Resumes, Open, Back
    <3> QED
      BY <3>1, <3>2 DEF Critical
  <2>3. CASE pc \in {"Ret", "Reti"}
    BY <1>1, <2>3 DEF StackInv, Place, AtRet, AtReti, Follows, Resumes
  <2>4. pc \notin {"Start", "Yield", "FromTick", "FromISR"} \cup Handlers
    BY <1>1 DEF StackInv, Place, AtStart, AtYield, AtFrom, AtHandler, Handlers
  <2> QED
    BY <2>1, <2>2, <2>3, <2>4 DEF StackInv, Place, Codes, Handlers
<1>3. Shape(z) /\ TopIs(z, "ret") /\ ~Critical(z)
  BY <1>1, <1>2, PushRet
<1>4. Stacks' /\ Mine' = z
  BY <1>3, SetMineIs DEF Interrupt, StackInv
<1> HIDE DEF z, l
<1>5. iflag' = iflag /\ level' = TRUE /\ pc' = h
  BY DEF Interrupt
<1>6. AtHandler'
  BY <1>1, <1>3, <1>4, <1>5 DEF AtHandler
<1> QED
  BY <1>1, <1>4, <1>5, <1>6 DEF StackInv, Place, Codes, SleepCodes, Handlers

-----------------------------------------------------------------------------
(* StackInv is inductive                                                   *)

USE AvrAssumption, AvrSleepAssumption

LEMMA StacksAtStart == Init => StackInv
<1> SUFFICES ASSUME Init PROVE StackInv
  OBVIOUS
<1> DEFINE z == <<Ret("task"), Registers(TRUE)>>
<1>1. /\ z \in Seq(Frame) /\ Len(z) = 2
      /\ z[1] = Ret("task") /\ z[2] = Registers(TRUE)
  BY DEF Frame, Ret, Registers, Codes
<1>2. stack = [t \in Tasks |-> z] /\ topOfStack = [t \in Tasks |-> Len(z)]
  BY DEF Init, pxPortInitialiseStack
<1> HIDE DEF z
<1>3. RetAt(z, 1) /\ RegistersAt(z, 2)
  <2>1. z[1].kind = "ret" /\ z[1].to = "task" /\ z[2].i = TRUE
    BY <1>1 DEF Ret, Registers
  <2>2. RetAt(z, 1)
    BY <2>1 DEF RetAt, Lowest
  <2>3. RegistersAt(z, 2)
    <3>1. 2 > 1 /\ 2 - 1 = 1
      OBVIOUS
    <3>2. z[2].i = (z[1].kind # "sreg")
      BY <2>1
    <3> QED
      BY <1>1, <2>1, <3>1, <3>2 DEF RegistersAt
  <2> QED
    BY <2>2, <2>3
<1>4. Shape(z)
  BY <1>1, <1>3 DEF Shape, Ret, Registers
<1>5. TopIs(z, "registers")
  BY <1>1, EmptySeq DEF TopIs, Registers
<1>6. Stacks /\ Saved(pxCurrentTCB)
  BY <1>2, <1>4, <1>5 DEF Init, Stacks, Saved
<1> QED
  BY <1>6 DEF Init, StackInv, Place, AtStart, Codes, SleepCodes, Handlers

\* A step that leaves the stacks alone.
LEMMA StacksAlone ==
  ASSUME Stacks, UNCHANGED <<pxCurrentTCB, stack, topOfStack>>
  PROVE  Stacks' /\ Mine' = Mine
  BY DEF Stacks, Saved, Mine

LEMMA StartKeepsStacks == StackInv /\ xPortStartScheduler => StackInv'
<1> SUFFICES ASSUME StackInv, xPortStartScheduler PROVE StackInv'
  OBVIOUS
<1>1. AllSaved /\ ~level
  BY DEF StackInv, Place, AtStart, xPortStartScheduler, AllSaved
<1>2. PICK t \in Tasks : t = pxCurrentTCB
  BY DEF StackInv, Stacks
<1>3. Stacks' /\ iflag' \in BOOLEAN /\ Follows' /\ TopIs(Mine', "ret")
  BY <1>1, <1>2, RestoreRestores DEF xPortStartScheduler
<1> QED
  BY <1>1, <1>3 DEF StackInv, Place, AtRet, xPortStartScheduler, Codes, SleepCodes,
     Handlers

LEMMA EnterKeepsStacks == StackInv /\ portENTER_CRITICAL => StackInv'
<1> SUFFICES ASSUME StackInv, portENTER_CRITICAL PROVE StackInv'
  OBVIOUS
<1> DEFINE z == Append(Mine, Sreg(iflag))
<1>1. Shape(Mine) /\ AtTask /\ iflag \in BOOLEAN
  BY DEF StackInv, Stacks, Mine, Place, portENTER_CRITICAL
<1>2. Shape(z) /\ TopIs(z, "sreg") /\ Critical(z)
  BY <1>1, PushSreg DEF AtTask, Follows
<1>3. Stacks' /\ Mine' = z
  BY <1>2, SetMineIs DEF portENTER_CRITICAL, StackInv
<1> HIDE DEF z
<1>4. AtTask'
  BY <1>1, <1>2, <1>3 DEF AtTask, Follows, portENTER_CRITICAL
<1> QED
  BY <1>3, <1>4 DEF StackInv, Place, portENTER_CRITICAL, Codes, SleepCodes, Handlers

LEMMA ExitKeepsStacks == StackInv /\ portEXIT_CRITICAL => StackInv'
<1> SUFFICES ASSUME StackInv, portEXIT_CRITICAL PROVE StackInv'
  OBVIOUS
<1> DEFINE z == Drop(Mine)
<1>1. Shape(Mine) /\ AtTask
  BY DEF StackInv, Stacks, Mine, Place, portEXIT_CRITICAL
<1>2. Mine # <<>>
  BY DEF portEXIT_CRITICAL, Frames, Mine
<1>3. TopIs(Mine, "sreg")
  BY <1>1, <1>2 DEF AtTask
<1>4. /\ Shape(z) /\ Top.i \in BOOLEAN /\ (Top.i <=> ~Critical(z))
      /\ z = <<>> \/ TopIs(z, "sreg")
  BY <1>1, <1>2, <1>3, PopSreg, PopKeepsShape DEF Top
<1>5. Stacks' /\ Mine' = z
  BY <1>4, SetMineIs DEF portEXIT_CRITICAL, StackInv
<1> HIDE DEF z
<1>6. iflag' = Top.i /\ level' = level /\ pc' = "task"
  BY DEF portEXIT_CRITICAL
<1>7. AtTask'
  BY <1>1, <1>4, <1>5, <1>6 DEF AtTask, Follows
<1> QED
  BY <1>4, <1>5, <1>6, <1>7 DEF StackInv, Place, portEXIT_CRITICAL, Codes, SleepCodes,
     Handlers

LEMMA YieldKeepsStacks == StackInv /\ vPortYield => StackInv'
<1> SUFFICES ASSUME StackInv, vPortYield PROVE StackInv'
  OBVIOUS
<1>1. Stacks /\ AtTask /\ iflag \in BOOLEAN
  BY DEF StackInv, Place, vPortYield
<1>2. AllSaved' /\ iflag' = FALSE
  BY <1>1, SaveSaves DEF AtTask, vPortYield
<1> QED
  BY <1>1, <1>2 DEF StackInv, Place, AtYield, AtTask, AllSaved, vPortYield, Codes,
     SleepCodes, Handlers

\* The handlers that yield, and the handler of the tick of the preemptive
\* kernel.
LEMMA HandlerSavesStacks ==
  StackInv /\ (TickPreemptive \/ AppYields) => StackInv'
<1> SUFFICES ASSUME StackInv, TickPreemptive \/ AppYields PROVE StackInv'
  OBVIOUS
<1>1. Stacks /\ AtHandler
  BY DEF StackInv, Place, TickPreemptive, AppYields, Handlers
<1>2. Follows /\ iflag \in BOOLEAN /\ TopIs(Mine, "ret")
  BY <1>1 DEF AtHandler, Follows, StackInv
<1>3. /\ portSAVE_CONTEXT(<<Ret("Reti")>>) /\ pc' \in {"FromTick", "FromISR"}
      /\ UNCHANGED <<pxCurrentTCB, level>>
  BY DEF TickPreemptive, AppYields
<1>4. AllSaved' /\ iflag' = FALSE
  BY <1>1, <1>2, <1>3, SaveSaves
<1> QED
  BY <1>1, <1>3, <1>4 DEF StackInv, Place, AtFrom, AtHandler, AllSaved, Codes,
     SleepCodes, Handlers

\* The three functions that switch, after their save.
LEMMA SwitchKeepsStacks ==
  StackInv /\ (vPortYieldSwitch \/ vPortYieldFromTick \/ vPortYieldFromISR) => StackInv'
<1> SUFFICES ASSUME StackInv, vPortYieldSwitch \/ vPortYieldFromTick \/ vPortYieldFromISR
             PROVE  StackInv'
  OBVIOUS
<1>1. /\ AllSaved /\ level' = level /\ level \in BOOLEAN
      /\ pc' \in {"Ret", "Reti"} /\ (pc' = "Ret" => ~level)
  BY DEF StackInv, Place, AtYield, AtFrom, AllSaved, vPortYieldSwitch,
     vPortYieldFromTick, vPortYieldFromISR
<1>2. PICK t \in Tasks : portRESTORE_CONTEXT(t) /\ pxCurrentTCB' = t
  BY DEF vPortYieldSwitch, vPortYieldFromTick, vPortYieldFromISR, vTaskSwitchContext
<1>3. Stacks' /\ iflag' \in BOOLEAN /\ Follows' /\ TopIs(Mine', "ret")
  BY <1>1, <1>2, RestoreRestores
<1> QED
  BY <1>1, <1>3 DEF StackInv, Place, AtRet, AtReti, Codes, SleepCodes, Handlers

LEMMA ReturnKeepsStacks == StackInv /\ (FunctionEnds \/ HandlerEnds) => StackInv'
<1> SUFFICES ASSUME StackInv, FunctionEnds \/ HandlerEnds PROVE StackInv'
  OBVIOUS
<1>1. Stacks /\ iflag \in BOOLEAN /\ Follows /\ TopIs(Mine, "ret") /\ Return
  BY DEF StackInv, Place, AtRet, AtReti, FunctionEnds, HandlerEnds
<1>2. level' = FALSE
  BY DEF StackInv, Place, AtRet, FunctionEnds, HandlerEnds
<1> QED
  BY <1>1, <1>2, ReturnReturns

\* A handler that does not switch ends.
LEMMA HandlerKeepsStacks ==
  StackInv /\ (TickCooperative \/ AppReturns \/ RTC_CNT_vect) => StackInv'
<1> SUFFICES ASSUME StackInv, TickCooperative \/ AppReturns \/ RTC_CNT_vect PROVE StackInv'
  OBVIOUS
<1>1. /\ pc \in Handlers /\ pc' = "Reti"
      /\ UNCHANGED <<pxCurrentTCB, stack, topOfStack, iflag, level>>
  BY DEF TickCooperative, AppReturns, RTC_CNT_vect, Handlers
<1>2. Stacks' /\ Mine' = Mine
  BY <1>1, StacksAlone DEF StackInv
<1>3. AtReti'
  BY <1>1, <1>2 DEF StackInv, Place, AtHandler, AtReti, Follows
<1> QED
  BY <1>1, <1>2, <1>3 DEF StackInv, Place, Codes, SleepCodes, Handlers

LEMMA TakeKeepsStacks == StackInv /\ (TakeTick \/ TakeApp \/ TakeRtc) => StackInv'
  BY InterruptInterrupts DEF TakeTick, TakeApp, TakeRtc, Handlers

\* A step in which the processor does nothing.
LEMMA CpuKeepsStacks == StackInv /\ UNCHANGED cpu => StackInv'
<1> SUFFICES ASSUME StackInv, UNCHANGED cpu PROVE StackInv'
  OBVIOUS
<1>1. UNCHANGED <<pc, pxCurrentTCB, stack, topOfStack, iflag, level>>
  BY DEF cpu
<1>2. Stacks' /\ Mine' = Mine
  BY <1>1, StacksAlone DEF StackInv
<1> QED
  BY <1>1, <1>2 DEF StackInv, Place, AtStart, AtTask, AtSleep, AtRet, AtReti, AtHandler,
     AtYield, AtFrom, Follows, Saved

\* The sleep function runs with nothing on the stack.
SleepStep ==
  /\ pc \in SleepCodes /\ pc' \in SleepCodes
  /\ CpuKept
  /\ iflag' = IF pc' \in Open THEN TRUE ELSE FALSE

LEMMA SleepSteps ==
  StackInv /\ vPortSuppressTicksAndSleep /\ ~SuspendAll /\ ~ResumeAll => SleepStep
<1> SUFFICES ASSUME StackInv, vPortSuppressTicksAndSleep, ~SuspendAll, ~ResumeAll
             PROVE  SleepStep
  OBVIOUS
<1> USE DEF SleepStep, Goes, SleepCodes, Open
<1>1. pc \in SleepCodes => (iflag <=> pc \in Open) /\ iflag \in BOOLEAN
  BY DEF StackInv, Place, AtSleep
<1>2. CASE ReadLow("BeforeLow", "BeforeHigh") \/ ReadLow("AfterLow", "AfterHigh")
  BY <1>1, <1>2 DEF ReadLow
<1>3. CASE TimeBefore \/ StopTick
  BY <1>1, <1>3 DEF TimeBefore, StopTick
<1>4. CASE \/ Disable("Disable", "Confirm") \/ Disable("PowerUp", "PowerEnable")
           \/ Disable("Woke", "AfterLow")
  BY <1>1, <1>4 DEF Disable
<1>5. CASE Abort \/ StepTick \/ StartTick \/ vSetWakeTimeInterrupt
  BY <1>1, <1>5 DEF Abort, StepTick, StartTick, vSetWakeTimeInterrupt, ReadWakeTime,
     SetCompare
<1>6. CASE PowerDown \/ portSET_MODE_AND_SLEEP("Sleep", "Asleep")
  BY <1>1, <1>6 DEF PowerDown, portSET_MODE_AND_SLEEP
<1>7. CASE \/ Enable("AbortEnable", "ResumeAll") \/ Enable("PowerEnable", "Restart")
           \/ Enable("Enable", "Restart")
  BY <1>1, <1>7 DEF Enable
<1> QED
  BY <1>2, <1>3, <1>4, <1>5, <1>6, <1>7 DEF vPortSuppressTicksAndSleep

LEMMA SleepKeepsStacks == StackInv /\ vPortSuppressTicksAndSleep => StackInv'
<1> SUFFICES ASSUME StackInv, vPortSuppressTicksAndSleep PROVE StackInv'
  OBVIOUS
<1>1. /\ UNCHANGED <<pxCurrentTCB, stack, topOfStack, level>>
      /\ \/ SuspendAll \/ ResumeAll \/ SleepStep
  BY SleepSteps DEF SuspendAll, ResumeAll, CpuKept, SleepStep
<1>2. Stacks' /\ Mine' = Mine
  BY <1>1, StacksAlone DEF StackInv
<1>3. CASE SuspendAll
  <2>1. AtTask /\ iflag /\ iflag' = iflag /\ pc' = "BeforeLow"
    BY <1>3 DEF StackInv, Place, SuspendAll, Goes
  <2>2. Mine = <<>>
    <3>1. Shape(Mine) /\ ~Critical(Mine)
      BY <2>1 DEF StackInv, Stacks, Mine, AtTask, Follows
    <3> QED
      BY <2>1, <3>1, CriticalBelow DEF AtTask
  <2>3. AtSleep'
    BY <1>1, <1>2, <2>1, <2>2 DEF AtTask, AtSleep, Open
  <2> QED
    BY <1>1, <1>2, <2>1, <2>3 DEF StackInv, Place, Codes, SleepCodes, Handlers
<1>4. CASE ResumeAll
  <2>1. AtSleep /\ iflag /\ iflag' = iflag /\ pc' = "task"
    BY <1>4 DEF StackInv, Place, ResumeAll, Goes, AtSleep, SleepCodes, Open
  <2>2. AtTask'
    BY <1>1, <1>2, <2>1 DEF AtTask, AtSleep, Follows, Critical
  <2> QED
    BY <1>1, <1>2, <2>1, <2>2 DEF StackInv, Place, Codes, SleepCodes, Handlers
<1>5. CASE SleepStep
  <2>1. AtSleep'
    BY <1>1, <1>2, <1>5 DEF StackInv, Place, AtSleep, SleepStep
  <2> QED
    BY <1>1, <1>2, <1>5, <2>1 DEF StackInv, Place, SleepStep, Codes, SleepCodes, Handlers
<1> QED
  BY <1>1, <1>3, <1>4, <1>5

LEMMA StepKeepsStacks == StackInv /\ [Next]_vars => StackInv'
<1> SUFFICES ASSUME StackInv, [Next]_vars PROVE StackInv'
  OBVIOUS
<1>1. CASE Start
  BY <1>1, StartKeepsStacks DEF Start
<1>2. CASE Switching
  BY <1>2, EnterKeepsStacks, ExitKeepsStacks, YieldKeepsStacks, HandlerSavesStacks,
     SwitchKeepsStacks, ReturnKeepsStacks, HandlerKeepsStacks, TakeKeepsStacks,
     CpuKeepsStacks
  DEF Switching, TickComes
<1>3. CASE TakeRtc \/ RTC_CNT_vect
  BY <1>3, TakeKeepsStacks, HandlerKeepsStacks
<1>4. CASE Count \/ UNCHANGED vars
  BY <1>4, CpuKeepsStacks DEF Count, vars, avrVars
<1>5. CASE vPortSuppressTicksAndSleep
  BY <1>5, SleepKeepsStacks
<1> QED
  BY <1>1, <1>2, <1>3, <1>4, <1>5 DEF Next
-----------------------------------------------------------------------------
\* The code of a task finds interrupts as the task left them, whichever tasks,
\* switches and handlers ran in between (AVR_Mega0/port.c:147-193).
THEOREM AvrInterruptsFollowTask == Spec => []InterruptsFollowTask
<1>1. SleepInit => StackInv
  BY StacksAtStart DEF SleepInit
<1>2. StackInv => InterruptsFollowTask
  <2> SUFFICES ASSUME StackInv, pc = "task"
               PROVE  ~level /\ (iflag = (Frames(pxCurrentTCB, "sreg") = {}))
    BY DEF InterruptsFollowTask
  <2>1. Shape(Mine) /\ AtTask /\ iflag \in BOOLEAN
    BY DEF StackInv, Stacks, Mine, Place
  <2>2. Mine # <<>> => 1 \in 1 .. Len(Mine)
    BY <2>1, EmptySeq, LenProperties DEF Shape
  <2>3. Critical(Mine) <=> \E n \in 1 .. Len(Mine) : Mine[n].kind = "sreg"
    <3>1. CASE Mine = <<>>
      BY <3>1 DEF Critical
    <3>2. CASE Mine # <<>>
      <4>1. ASSUME NEW n \in 1 .. Len(Mine), Mine[n].kind = "sreg"
            PROVE  Mine[1].kind = "sreg"
        BY <2>1, <2>2, <3>2, <4>1 DEF Shape, SregAt
      <4> QED
        BY <2>2, <3>2, <4>1 DEF Critical
    <3> QED
      BY <3>1, <3>2
  <2> QED
    BY <2>1, <2>3 DEF AtTask, Follows, Frames, Mine
<1> QED
  BY <1>1, <1>2, StepKeepsStacks, PTL DEF Spec

\* The stack of a task that does not run ends with its registers, where its
\* TCB says, and no stack holds the registers twice (AVR_Mega0/portmacro.h:
\* 145-148 and 195-201).
THEOREM AvrContextsIntact == Spec => []ContextsIntact
<1>1. SleepInit => StackInv
  BY StacksAtStart DEF SleepInit
<1>2. StackInv => ContextsIntact
  <2> SUFFICES ASSUME StackInv, NEW t \in Tasks
               PROVE  /\ \A m, n \in Frames(t, "registers") : m = n
                      /\ t # pxCurrentTCB =>
                           /\ Len(stack[t]) = topOfStack[t]
                           /\ stack[t][topOfStack[t]].kind = "registers"
    BY DEF ContextsIntact
  <2>1. \A n \in Frames(t, "registers") : n = Len(stack[t])
    BY DEF StackInv, Stacks, Shape, Frames, RegistersAt
  <2> QED
    BY <2>1 DEF StackInv, Stacks, Saved, TopIs
<1> QED
  BY <1>1, <1>2, StepKeepsStacks, PTL DEF Spec

-----------------------------------------------------------------------------
(* The sleep is never interrupted by another task                          *)

\* Each task is, or is not, where it was.
SameBottom(s, z) ==
  /\ FromSleep(z) <=> FromSleep(s)
  /\ FromSleep(s) => z[1] = s[1]

SameFrom == \A t \in Tasks : SameBottom(stack[t], stack'[t])

LEMMA PushFrom ==
  ASSUME NEW s, Shape(s), NEW f \in Frame,
         s # <<>> \/ f.kind # "ret" \/ f.to \notin Back
  PROVE  SameBottom(s, Append(s, f))
<1>1. s \in Seq(Frame)
  BY DEF Shape
<1>2. PICK z : z = Append(s, f)
  OBVIOUS
<1>3. /\ z # <<>> /\ Len(s) \in Nat
      /\ \A n \in 1 .. Len(s) : z[n] = s[n]
      /\ z[Len(s) + 1] = f
  BY <1>1, <1>2, Pushed
<1>4. s = <<>> <=> Len(s) = 0
  BY <1>1, EmptySeq
<1>5. SameBottom(s, z)
  BY <1>3, <1>4 DEF SameBottom, FromSleep
<1> QED
  BY <1>2, <1>5

LEMMA PopFrom ==
  ASSUME NEW s, Shape(s), s # <<>>, Drop(s) # <<>> \/ ~FromSleep(s)
  PROVE  SameBottom(s, Drop(s))
<1>1. s \in Seq(Frame)
  BY DEF Shape
<1>2. PICK z : z = Drop(s)
  OBVIOUS
<1>3. /\ z \in Seq(Frame) /\ Len(s) \in Nat /\ Len(s) > 0 /\ Len(z) = Len(s) - 1
      /\ \A n \in 1 .. Len(s) - 1 : z[n] = s[n]
  BY <1>1, <1>2, Popped
<1>4. ASSUME z # <<>> PROVE z[1] = s[1]
  <2>1. Len(z) # 0
    BY <1>3, <1>4, EmptySeq
  <2>2. 1 \in 1 .. Len(s) - 1
    BY <1>3, <2>1
  <2> QED
    BY <1>3, <2>2
<1>5. SameBottom(s, z)
  BY <1>2, <1>4 DEF SameBottom, FromSleep
<1> QED
  BY <1>2, <1>5

LEMMA SetMineFrom ==
  ASSUME Stacks, NEW s, SetMine(s), SameBottom(Mine, s)
  PROVE  SameFrom
  BY DEF Stacks, SetMine, Mine, SameFrom, SameBottom

LEMMA SaveFrom ==
  ASSUME Stacks, iflag \in BOOLEAN, NEW l, portSAVE_CONTEXT(<<Ret(l)>>),
         \/ l = "task" /\ (Mine = <<>> \/ TopIs(Mine, "sreg"))
         \/ l \in {"Ret", "Reti"} /\ TopIs(Mine, "ret")
  PROVE  SameFrom
<1>1. Shape(Mine) /\ Ret(l) \in Frame /\ Registers(iflag) \in Frame
  BY DEF Stacks, Mine, Frame, Ret, Registers, Codes
<1>2. PICK r : r = Append(Mine, Ret(l))
  OBVIOUS
<1>3. Shape(r) /\ TopIs(r, "ret")
  BY <1>1, <1>2, PushRet
<1>4. SameBottom(Mine, r)
  BY <1>1, <1>2, PushFrom DEF Ret, Back
<1>5. SameBottom(r, Append(r, Registers(iflag)))
  BY <1>1, <1>3, PushFrom DEF Registers
<1>6. Mine \o <<Ret(l)>> \o <<Registers(iflag)>> = Append(r, Registers(iflag))
  BY <1>1, <1>2, SavedIs DEF Shape
<1>7. SetMine(Append(r, Registers(iflag)))
  BY <1>6 DEF portSAVE_CONTEXT
<1>8. SameBottom(Mine, Append(r, Registers(iflag)))
  BY <1>4, <1>5 DEF SameBottom
<1> QED
  BY <1>7, <1>8, SetMineFrom

LEMMA RestoreFrom ==
  ASSUME AllSaved, NEW t \in Tasks, portRESTORE_CONTEXT(t)
  PROVE  SameFrom
<1>1. PICK s : s = stack[t]
  OBVIOUS
<1>2. Shape(s) /\ TopIs(s, "registers") /\ topOfStack[t] = Len(s) /\ s # <<>>
  BY <1>1 DEF AllSaved, Stacks, Saved, TopIs
<1>3. SubSeq(stack[t], 1, topOfStack[t]) = s
  BY <1>1, <1>2, SubSeqFull DEF Shape
<1>4. stack' = [stack EXCEPT ![t] = Drop(s)]
  BY <1>3 DEF portRESTORE_CONTEXT
<1>5. SameBottom(s, Drop(s))
  BY <1>2, PopRegisters, PopFrom DEF TopIs
<1> QED
  BY <1>1, <1>4, <1>5 DEF AllSaved, Stacks, SameFrom, SameBottom

\* What a step of the processor or of the port does to the sleep: nothing but
\* to wake it.
Stays ==
  /\ suspended' = suspended
  /\ suspended => \/ Sleeping' = Sleeping
                  \/ Sleeping = "Asleep" /\ Sleeping' = "Woke"
                  \/ Sleeping = "PoweredDown" /\ Sleeping' = "PowerUp"

\* The code of no task runs while the scheduler is suspended.
LEMMA TaskNotSuspended == AloneInv /\ pc = "task" => ~suspended
<1> SUFFICES ASSUME AloneInv, pc = "task", suspended PROVE FALSE
  OBVIOUS
<1>1. FromSleep(Mine) /\ AtTask /\ Shape(Mine)
  BY DEF AloneInv, SleepAlone, StackInv, Stacks, Place, Mine, Codes, SleepCodes
<1> QED
  BY <1>1, CriticalBelow DEF AtTask, FromSleep, Critical

\* A step from one place outside the sleep to another.
LEMMA OutsideStays ==
  ASSUME AloneInv, SameFrom, Stacks', pc \notin SleepCodes, pc' \notin SleepCodes,
         pc' # "Start", suspended' = suspended, build' = build,
         suspended => pxCurrentTCB' = pxCurrentTCB
  PROVE  SleepAlone' /\ Stays
<1>1. suspended => stack'[Idle][1] = stack[Idle][1]
  BY DEF AloneInv, SleepAlone, SameFrom, SameBottom
<1>2. Stays
  BY <1>1 DEF Stays, Sleeping
<1>3. \A t \in Tasks : FromSleep(stack'[t]) <=> FromSleep(stack[t])
  BY DEF SameFrom, SameBottom
<1> QED
  BY <1>2, <1>3 DEF AloneInv, SleepAlone

\* Steps of the processor and of the port lead into the sleep only to where a
\* handler returns to.
Elsewhere == pc' # "Start" /\ (pc' \in SleepCodes => pc' \in Back)

LEMMA ReturnAlone ==
  ASSUME AloneInv, pc \in {"Ret", "Reti"}, Return, TopIs(Mine, "ret"), StackInv'
  PROVE  SleepAlone' /\ Stays /\ Elsewhere
<1>1. Shape(Mine) /\ Mine # <<>> /\ Stacks /\ pxCurrentTCB \in Tasks
  BY DEF AloneInv, StackInv, Stacks, Mine, TopIs
<1>2. PICK z : z = Drop(Mine)
  OBVIOUS
<1>3. \/ Top.to = "task"
      \/ Top.to \in Back /\ z = <<>>
      \/ Top.to \in {"Ret", "Reti"} /\ TopIs(z, "ret")
  BY <1>1, <1>2, PopRet DEF Top
<1>4. z = <<>> => Mine[1] = Top
  BY <1>1, <1>2, Popped DEF Shape, Top
<1>5. /\ pc' = Top.to /\ SetMine(z)
      /\ UNCHANGED <<build, pxCurrentTCB, suspended>>
  BY <1>2 DEF Return, kernel
<1>6. CASE Top.to \in Back /\ z = <<>>
  <2>1. FromSleep(Mine)
    BY <1>1, <1>4, <1>6 DEF FromSleep, TopIs, Top
  <2>2. /\ suspended /\ pxCurrentTCB = Idle /\ stack[Idle] = Mine
        /\ build.tickless /\ \A t \in Tasks : t # Idle => ~FromSleep(stack[t])
    BY <1>1, <2>1 DEF AloneInv, SleepAlone, Mine
  <2>3. pc' \in SleepCodes /\ pc' \in Back /\ pc' # "Start" /\ pc \notin SleepCodes
    BY <1>5, <1>6 DEF Back, SleepCodes
  <2>4. \A t \in Tasks : ~FromSleep(stack'[t])
    BY <1>1, <1>5, <1>6, <2>2 DEF SetMine, Stacks, FromSleep
  <2>5. SleepAlone'
    BY <1>5, <2>2, <2>3, <2>4 DEF SleepAlone
  <2>6. Sleeping' = pc' /\ Sleeping = pc'
    BY <1>4, <1>5, <1>6, <2>2, <2>3 DEF Sleeping
  <2> QED
    BY <1>5, <2>3, <2>5, <2>6 DEF Stays, Elsewhere
<1>7. CASE Top.to \in {"task", "Ret", "Reti"}
  <2>1. z # <<>> \/ ~FromSleep(Mine)
    BY <1>4, <1>7 DEF FromSleep, Back
  <2>2. SameBottom(Mine, z)
    BY <1>1, <1>2, <2>1, PopFrom
  <2>3. SameFrom
    BY <1>1, <1>5, <2>2, SetMineFrom
  <2>4. pc \notin SleepCodes /\ pc' \notin SleepCodes /\ pc' # "Start"
    BY <1>5, <1>7 DEF SleepCodes
  <2>5. SleepAlone' /\ Stays
    BY <1>5, <2>3, <2>4, OutsideStays DEF StackInv
  <2> QED
    BY <2>4, <2>5 DEF Elsewhere
<1> QED
  BY <1>3, <1>6, <1>7

LEMMA InterruptAlone ==
  ASSUME AloneInv, NEW h \in Handlers, Interrupt(h), StackInv'
  PROVE  SleepAlone' /\ Stays /\ Elsewhere
<1>1. /\ Shape(Mine) /\ Stacks /\ pxCurrentTCB \in Tasks /\ Mine = stack[pxCurrentTCB]
      /\ pc' = h /\ SetMine(Append(Mine, Ret(Resumes(pc))))
      /\ UNCHANGED <<build, pxCurrentTCB, suspended>>
  BY DEF AloneInv, StackInv, Stacks, Mine, Interrupt, kernel
<1>2. pc' \notin SleepCodes /\ pc' # "Start" /\ Elsewhere
  BY <1>1 DEF Handlers, SleepCodes, Elsewhere
<1>3. CASE pc \in SleepCodes
  <2>1. suspended /\ pxCurrentTCB = Idle /\ build.tickless /\ Mine = <<>> /\ pc \in Open
    BY <1>3 DEF AloneInv, SleepAlone, StackInv, Place, AtSleep, Interrupt
  <2>2. PICK l \in Back : l = Resumes(pc)
    BY <2>1 DEF Open, Back, Resumes
  <2>3. PICK z : z = Append(<<>>, Ret(l))
    OBVIOUS
  <2>4. z = <<Ret(l)>>
    BY <2>3
  <2>5. z # <<>> /\ z[1] = Ret(l)
    BY <2>4
  <2>6. FromSleep(z) /\ z[1].to = l
    BY <2>5 DEF FromSleep, Ret
  <2>7. stack' = [stack EXCEPT ![Idle] = z]
    BY <1>1, <2>1, <2>2, <2>3 DEF SetMine
  <2>8. /\ stack'[Idle] = z
        /\ \A t \in Tasks : t # Idle => ~FromSleep(stack'[t])
    BY <1>1, <2>7 DEF AloneInv, SleepAlone, Stacks
  <2>9. SleepAlone'
    BY <1>1, <1>2, <2>1, <2>6, <2>8 DEF SleepAlone
  <2>10. Sleeping' = l /\ Sleeping = pc
    BY <1>2, <1>3, <2>6, <2>8 DEF Sleeping
  <2>11. Stays
    BY <1>1, <2>2, <2>10 DEF Stays, Resumes
  <2> QED
    BY <1>2, <2>9, <2>11
<1>4. CASE pc \notin SleepCodes
  <2>1. Ret(Resumes(pc)) \in Frame /\ Resumes(pc) \notin Back
    BY <1>4 DEF AloneInv, StackInv, Place, Resumes, Ret, Frame, Codes, SleepCodes, Back
  <2>2. SameBottom(Mine, Append(Mine, Ret(Resumes(pc))))
    BY <1>1, <2>1, PushFrom DEF Ret
  <2>3. SameFrom
    BY <1>1, <2>2, SetMineFrom
  <2> QED
    BY <1>1, <1>2, <1>4, <2>3, OutsideStays DEF StackInv
<1> QED
  BY <1>3, <1>4

\* The steps that do not touch a stack, outside the sleep.
LEMMA AloneAlone ==
  ASSUME AloneInv, StackInv', UNCHANGED <<build, pxCurrentTCB, stack, suspended>>,
         pc \notin SleepCodes, pc' \notin SleepCodes, pc' # "Start"
  PROVE  SleepAlone' /\ Stays /\ Elsewhere
<1>1. SameFrom
  BY DEF SameFrom, SameBottom
<1> QED
  BY <1>1, OutsideStays DEF Elsewhere, StackInv

LEMMA SwitchAlone ==
  ASSUME AloneInv, StackInv',
         vPortYieldSwitch \/ vPortYieldFromTick \/ vPortYieldFromISR
  PROVE  SleepAlone' /\ Stays /\ Elsewhere
<1>1. AllSaved
  BY DEF AloneInv, StackInv, Place, AtYield, AtFrom, AllSaved, vPortYieldSwitch,
     vPortYieldFromTick, vPortYieldFromISR
<1>2. PICK t \in Tasks : portRESTORE_CONTEXT(t)
  BY DEF vPortYieldSwitch, vPortYieldFromTick, vPortYieldFromISR
<1>3. SameFrom
  BY <1>1, <1>2, RestoreFrom
<1>4. /\ pc \notin SleepCodes /\ pc' \notin SleepCodes /\ pc' # "Start"
      /\ UNCHANGED <<build, suspended>>
      /\ suspended => pxCurrentTCB' = pxCurrentTCB
  BY DEF vPortYieldSwitch, vPortYieldFromTick, vPortYieldFromISR, vTaskSwitchContext,
     xTaskIncrementTick, SleepCodes
<1> QED
  BY <1>3, <1>4, OutsideStays DEF Elsewhere, StackInv

LEMMA SavingAlone ==
  ASSUME AloneInv, StackInv', vPortYield \/ TickPreemptive \/ AppYields
  PROVE  SleepAlone' /\ Stays /\ Elsewhere
<1>1. /\ pc \notin SleepCodes /\ pc' \notin SleepCodes /\ pc' # "Start"
      /\ UNCHANGED <<build, pxCurrentTCB, suspended>>
  BY DEF vPortYield, TickPreemptive, AppYields, SleepCodes, kernel
<1>2. Stacks /\ iflag \in BOOLEAN
  BY DEF AloneInv, StackInv
<1>3. CASE vPortYield
  <2>1. AtTask
    BY <1>3 DEF AloneInv, StackInv, Place, vPortYield
  <2>2. SameFrom
    BY <1>2, <1>3, <2>1, SaveFrom DEF AtTask, vPortYield
  <2> QED
    BY <1>1, <2>2, OutsideStays DEF Elsewhere, StackInv
<1>4. CASE TickPreemptive \/ AppYields
  <2>1. AtHandler
    BY <1>4 DEF AloneInv, StackInv, Place, TickPreemptive, AppYields, Handlers
  <2>2. SameFrom
    BY <1>2, <1>4, <2>1, SaveFrom DEF AtHandler, TickPreemptive, AppYields
  <2> QED
    BY <1>1, <2>2, OutsideStays DEF Elsewhere, StackInv
<1> QED
  BY <1>3, <1>4

LEMMA CriticalAlone ==
  ASSUME AloneInv, StackInv', portENTER_CRITICAL \/ portEXIT_CRITICAL
  PROVE  SleepAlone' /\ Stays /\ Elsewhere
<1>1. /\ pc = "task" /\ pc' = "task" /\ UNCHANGED <<build, pxCurrentTCB, suspended>>
      /\ Shape(Mine) /\ Stacks /\ AtTask /\ Sreg(iflag) \in Frame
  BY DEF AloneInv, StackInv, Stacks, Place, Mine, portENTER_CRITICAL, portEXIT_CRITICAL,
     kernel, Frame, Sreg
<1>2. CASE portENTER_CRITICAL
  <2>1. SameBottom(Mine, Append(Mine, Sreg(iflag)))
    BY <1>1, PushFrom DEF Sreg
  <2> QED
    BY <1>1, <1>2, <2>1, SetMineFrom, OutsideStays
    DEF portENTER_CRITICAL, Elsewhere, SleepCodes, StackInv
<1>3. CASE portEXIT_CRITICAL
  <2>1. Mine # <<>>
    BY <1>3 DEF portEXIT_CRITICAL, Frames, Mine
  <2>2. ~FromSleep(Mine)
    BY <1>1, <2>1, CriticalBelow DEF AtTask, Critical, FromSleep
  <2>3. SameBottom(Mine, Drop(Mine))
    BY <1>1, <2>1, <2>2, PopFrom
  <2> QED
    BY <1>1, <1>3, <2>3, SetMineFrom, OutsideStays
    DEF portEXIT_CRITICAL, Elsewhere, SleepCodes, StackInv
<1> QED
  BY <1>2, <1>3

PortStep == (Switching /\ UNCHANGED sleepVars) \/ TakeRtc \/ RTC_CNT_vect

LEMMA PortAlone ==
  ASSUME AloneInv, StackInv', PortStep
  PROVE  SleepAlone' /\ Stays /\ Elsewhere
<1>1. CASE portENTER_CRITICAL \/ portEXIT_CRITICAL
  BY <1>1, CriticalAlone
<1>2. CASE vPortYield \/ TickPreemptive \/ AppYields
  BY <1>2, SavingAlone
<1>3. CASE vPortYieldSwitch \/ vPortYieldFromTick \/ vPortYieldFromISR
  BY <1>3, SwitchAlone
<1>4. CASE FunctionEnds \/ HandlerEnds
  <2>1. pc \in {"Ret", "Reti"} /\ Return /\ TopIs(Mine, "ret")
    BY <1>4 DEF FunctionEnds, HandlerEnds, AloneInv, StackInv, Place, AtRet, AtReti
  <2> QED
    BY <2>1, ReturnAlone
<1>5. CASE TakeTick \/ TakeApp \/ TakeRtc
  BY <1>5, InterruptAlone DEF TakeTick, TakeApp, TakeRtc, Handlers
<1>6. CASE TickCooperative \/ AppReturns \/ RTC_CNT_vect
  <2>1. /\ UNCHANGED <<build, pxCurrentTCB, stack, suspended>>
        /\ pc \notin SleepCodes /\ pc' \notin SleepCodes /\ pc' # "Start"
    BY <1>6 DEF TickCooperative, AppReturns, RTC_CNT_vect, kernel, xTaskIncrementTick,
       SleepCodes
  <2> QED
    BY <2>1, AloneAlone
<1>7. CASE TickComes
  <2>1. /\ UNCHANGED <<build, pc, pxCurrentTCB, stack, suspended>> /\ ~build.tickless
        /\ pc # "Start"
    BY <1>7 DEF TickComes, cpu, kernel
  <2>2. pc \notin SleepCodes
    BY <2>1 DEF AloneInv, SleepAlone
  <2> QED
    BY <2>1, <2>2, AloneAlone
<1> QED
  BY <1>1, <1>2, <1>3, <1>4, <1>5, <1>6, <1>7 DEF PortStep, Switching

\* The start of the scheduler.
LEMMA StartAlone ==
  ASSUME AloneInv, StackInv', Start
  PROVE  SleepAlone' /\ ~suspended' /\ pc' = "Ret"
<1>1. AllSaved /\ ~suspended /\ pc = "Start"
  BY DEF AloneInv, StackInv, Place, AtStart, AllSaved, SleepAlone, Start, xPortStartScheduler
<1>2. PICK t \in Tasks : portRESTORE_CONTEXT(t)
  BY <1>1 DEF Start, xPortStartScheduler, AllSaved, Stacks
<1>3. SameFrom
  BY <1>1, <1>2, RestoreFrom
<1>4. pc' = "Ret" /\ suspended' = suspended /\ build' = build
  BY DEF Start, xPortStartScheduler, kernel
<1> QED
  BY <1>1, <1>3, <1>4, OutsideStays DEF SleepCodes, StackInv

LEMMA CountAlone ==
  ASSUME AloneInv, StackInv', UNCHANGED <<build, cpu, kernel>>
  PROVE  SleepAlone' /\ Sleeping' = Sleeping
  BY DEF AloneInv, SleepAlone, Sleeping, cpu, kernel

LEMMA SleepStepAlone ==
  ASSUME AloneInv, SleepStep, suspended' = suspended
  PROVE  SleepAlone'
  BY DEF AloneInv, SleepAlone, SleepStep, CpuKept, SleepCodes

\* When the idle task begins to sleep, or has slept, nothing is on its stack.
LEMMA SuspendAlone ==
  ASSUME AloneInv, StackInv', SuspendAll \/ ResumeAll
  PROVE  SleepAlone'
<1>1. /\ pxCurrentTCB \in Tasks
      /\ UNCHANGED <<build, pxCurrentTCB, stack>>
  BY DEF AloneInv, StackInv, Stacks, SuspendAll, ResumeAll, CpuKept
<1>2. CASE SuspendAll
  <2>1. /\ pxCurrentTCB = Idle /\ build.tickless /\ suspended' = TRUE /\ pc' = "BeforeLow"
        /\ ~suspended
    BY <1>2, TaskNotSuspended DEF SuspendAll, Goes
  <2> QED
    BY <1>1, <2>1 DEF AloneInv, SleepAlone, SleepCodes
<1>3. CASE ResumeAll
  <2>1. /\ suspended' = FALSE /\ pc = "ResumeAll" /\ pc' = "task"
    BY <1>3 DEF ResumeAll, Goes
  <2>2. Mine = <<>> /\ suspended /\ pxCurrentTCB = Idle
    BY <2>1 DEF AloneInv, SleepAlone, StackInv, Place, AtSleep, SleepCodes
  <2>3. \A t \in Tasks : ~FromSleep(stack[t])
    BY <2>2 DEF AloneInv, SleepAlone, FromSleep, Mine
  <2> QED
    BY <1>1, <2>1, <2>3 DEF SleepAlone, SleepCodes
<1> QED
  BY <1>2, <1>3

-----------------------------------------------------------------------------
(* Time in the sleep                                                       *)

\* A tick that came is not lost while the scheduler is suspended.
LEMMA TickStays ==
  ASSUME AloneInv, PortStep, suspended, Ticked
  PROVE  Ticked'
<1>1. CASE TickPreemptive
  BY <1>1 DEF TickPreemptive, Ticked
<1>2. CASE TickCooperative \/ vPortYieldFromTick
  BY <1>2 DEF TickCooperative, vPortYieldFromTick, xTaskIncrementTick, Ticked
<1>3. CASE TickComes
  BY <1>3 DEF TickComes, Ticked
<1>4. CASE \/ portENTER_CRITICAL \/ portEXIT_CRITICAL \/ vPortYield \/ vPortYieldSwitch
           \/ FunctionEnds \/ HandlerEnds \/ TakeTick \/ TakeApp \/ AppReturns
           \/ AppYields \/ vPortYieldFromISR \/ TakeRtc \/ RTC_CNT_vect
  <2>1. UNCHANGED <<tickFlag, pended>> /\ pc # "FromTick"
    <3>1. Return => UNCHANGED <<tickFlag, pended>>
      BY DEF Return, kernel
    <3>2. ASSUME NEW h, Interrupt(h)
          PROVE  UNCHANGED <<tickFlag, pended>> /\ pc # "FromTick"
      BY <3>2 DEF Interrupt, kernel, AloneInv, StackInv, Place, AtFrom
    <3> QED
      BY <1>4, <3>1, <3>2 DEF portENTER_CRITICAL, portEXIT_CRITICAL, vPortYield,
         vPortYieldSwitch, FunctionEnds, HandlerEnds, TakeTick, TakeApp, AppReturns,
         AppYields, vPortYieldFromISR, TakeRtc, RTC_CNT_vect, kernel
  <2> QED
    BY <2>1 DEF Ticked
<1> QED
  BY <1>1, <1>2, <1>3, <1>4 DEF PortStep, Switching

LEMMA PortNotAtStart == AloneInv /\ PortStep => pc # "Start"
<1> SUFFICES ASSUME AloneInv, PortStep, pc = "Start" PROVE FALSE
  OBVIOUS
<1>1. ~iflag
  BY DEF AloneInv, StackInv, Place, AtStart
<1> QED
  BY <1>1 DEF PortStep, Switching, portENTER_CRITICAL, portEXIT_CRITICAL, vPortYield,
     vPortYieldSwitch, FunctionEnds, HandlerEnds, TakeTick, TakeApp, TickPreemptive,
     TickCooperative, vPortYieldFromTick, AppReturns, AppYields, vPortYieldFromISR,
     TickComes, TakeRtc, RTC_CNT_vect, Interrupt

LEMMA PortTiming ==
  ASSUME TimeInv, PortStep, Stays, Elsewhere
  PROVE  Timing'
<1>1. /\ UNCHANGED <<now, tick, sleep>>
      /\ RTC_OVF_Count' \in Nat
      /\ RTC' \in [CMP : Nat, ovf : BOOLEAN, cmp : BOOLEAN, cmpInt : BOOLEAN]
  <2>1. CASE UNCHANGED sleepVars
    BY <2>1 DEF sleepVars, TimeInv, Timing, TimeTypes
  <2>2. CASE RTC_CNT_vect
    <3>1. RTC_OVF_Count' \in Nat
      BY <2>2 DEF RTC_CNT_vect, Overflow, Range32, TimeInv, Timing, TimeTypes
    <3>2. RTC' \in [CMP : Nat, ovf : BOOLEAN, cmp : BOOLEAN, cmpInt : BOOLEAN]
      BY <2>2 DEF RTC_CNT_vect, TimeInv, Timing, TimeTypes
    <3> QED
      BY <2>2, <3>1, <3>2 DEF RTC_CNT_vect
  <2> QED
    BY <2>1, <2>2 DEF PortStep, TakeRtc
<1>2. ASSUME NEW P, "Asleep" \in P \/ "Woke" \notin P,
             "PoweredDown" \in P \/ "PowerUp" \notin P, Inside(P)'
      PROVE  Inside(P)
  BY <1>2 DEF Inside, Stays
<1>3. suspended /\ Ticked => Ticked'
  BY TickStays DEF TimeInv
<1>4. pc' \notin {"Start", "Confirm", "SetCompare", "Sleep", "Asleep", "Enable"}
  BY DEF Elsewhere, SleepCodes, Back
<1>5. TimeTypes'
  <2>1. ASSUME Inside({"BeforeLow", "BeforeHigh", "Stop", "Disable", "Confirm"})'
        PROVE  sleep.idle >= 2
    BY <1>2, <2>1 DEF TimeInv, Timing, TimeTypes
  <2> QED
    BY <1>1, <2>1 DEF TimeInv, Timing, TimeTypes
<1>6. TimerRuns'
  <2>1. pc # "Start"
    BY PortNotAtStart DEF TimeInv
  <2>2. ~suspended' => tick'.on
    BY <1>1, <2>1 DEF TimeInv, Timing, TimerRuns, Stays
  <2>3. ASSUME Inside({"BeforeLow", "BeforeHigh", "Stop", "AbortEnable", "ResumeAll"})'
        PROVE  tick'.on
    BY <1>1, <1>2, <2>3 DEF TimeInv, Timing, TimerRuns
  <2>4. ASSUME Inside({"Disable", "Confirm"})' PROVE ~tick'.on
    BY <1>1, <1>2, <2>4 DEF TimeInv, Timing, TimerRuns
  <2> QED
    BY <1>4, <2>2, <2>3, <2>4 DEF TimerRuns
<1>7. FirstRead'
  <2> SUFFICES ASSUME Inside({"BeforeHigh"})'
               PROVE  Read' /\ (Ticked' \/ now' <= sleep'.lowAt + tick'.cnt)
    BY DEF FirstRead
  <2>1. Inside({"BeforeHigh"}) /\ suspended
    BY <1>2 DEF Inside
  <2> QED
    BY <1>1, <1>3, <2>1 DEF TimeInv, Timing, FirstRead, Read
<1>8. NotStopped'
  <2> SUFFICES ASSUME Inside({"Stop"})', ~sleep'.torn
               PROVE  sleep'.before <= now' /\ (Ticked' \/ now' <= sleep'.before + tick'.cnt)
    BY DEF NotStopped
  <2>1. Inside({"Stop"}) /\ suspended
    BY <1>2 DEF Inside
  <2> QED
    BY <1>1, <1>3, <2>1 DEF TimeInv, Timing, NotStopped
<1>9. Stopped'
  <2> DEFINE P == {"Disable", "Confirm", "SetCompare", "Sleep", "Asleep", "Woke", "AfterLow", "AfterHigh"}
  <2> SUFFICES ASSUME Inside(P)', ~sleep'.torn
               PROVE  /\ sleep'.before <= sleep'.stopAt /\ sleep'.stopAt <= now'
                      /\ \/ Inside({"Disable", "Confirm"})' /\ Ticked'
                         \/ sleep'.stopAt < sleep'.before + PerTick
    BY DEF Stopped
  <2>1. Inside(P) /\ suspended
    BY <1>2 DEF Inside
  <2>2. /\ sleep.before <= sleep.stopAt /\ sleep.stopAt <= now
        /\ \/ Inside({"Disable", "Confirm"}) /\ Ticked
           \/ sleep.stopAt < sleep.before + PerTick
    BY <1>1, <2>1 DEF TimeInv, Timing, Stopped
  <2>3. Inside({"Disable", "Confirm"}) => Inside({"Disable", "Confirm"})'
    BY DEF Inside, Stays
  <2> QED
    BY <1>1, <1>3, <2>1, <2>2, <2>3
<1>10. SecondRead'
  BY <1>1, <1>2 DEF TimeInv, Timing, SecondRead, Read
<1> QED
  BY <1>4, <1>5, <1>6, <1>7, <1>8, <1>9, <1>10 DEF Timing, WakeSet, StepIsSleep

LEMMA StartTiming ==
  ASSUME TimeInv, Start, ~suspended', pc' = "Ret"
  PROVE  Timing'
<1>1. /\ UNCHANGED <<now, RTC_OVF_Count, sleep>>
      /\ tick' = [tick EXCEPT !.on = TRUE]
      /\ \/ RTC' = RTC
         \/ RTC' = [CMP |-> Wide \div 4, ovf |-> FALSE, cmp |-> FALSE, cmpInt |-> TRUE]
  BY DEF Start, prvSetupTimerInterrupt, TICK_init, RTC_INIT
<1>2. Wide \div 4 \in Nat
  OBVIOUS
<1>3. ASSUME NEW P, Inside(P)' PROVE FALSE
  BY <1>3 DEF Inside
<1>4. /\ tick' \in [on : BOOLEAN, cnt : 0 .. PerTick - 1] /\ tick'.on
      /\ RTC' \in [CMP : Nat, ovf : BOOLEAN, cmp : BOOLEAN, cmpInt : BOOLEAN]
  <2>1. /\ tick \in [on : BOOLEAN, cnt : 0 .. PerTick - 1]
        /\ RTC \in [CMP : Nat, ovf : BOOLEAN, cmp : BOOLEAN, cmpInt : BOOLEAN]
    BY DEF TimeInv, Timing, TimeTypes
  <2>2. tick' \in [on : BOOLEAN, cnt : 0 .. PerTick - 1] /\ tick'.on
    BY <1>1, <2>1
  <2>3. CASE RTC' = RTC
    BY <2>1, <2>2, <2>3
  <2>4. CASE RTC' = [CMP |-> Wide \div 4, ovf |-> FALSE, cmp |-> FALSE, cmpInt |-> TRUE]
    BY <1>2, <2>2, <2>4
  <2> QED
    BY <1>1, <2>3, <2>4
<1>5. TimeTypes' /\ TimerRuns'
  BY <1>1, <1>3, <1>4 DEF TimeInv, Timing, TimeTypes, TimerRuns
<1>6. FirstRead' /\ NotStopped' /\ Stopped' /\ SecondRead'
  BY <1>3 DEF FirstRead, NotStopped, Stopped, SecondRead
<1> QED
  BY <1>5, <1>6 DEF Timing, WakeSet, StepIsSleep

LEMMA CountTiming ==
  ASSUME TimeInv, Count, Sleeping' = Sleeping
  PROVE  Timing'
<1>1. /\ now' = now + 1 /\ now < MaxNow
      /\ UNCHANGED <<pc, RTC_OVF_Count, sleep, suspended, pended>>
      /\ tickFlag' = (tickFlag \/ (tick.on /\ tick.cnt = PerTick - 1))
  BY DEF Count, cpu, kernel
<1>2. /\ now \in Nat /\ RTC_OVF_Count \in Nat
      /\ tick \in [on : BOOLEAN, cnt : 0 .. PerTick - 1]
      /\ RTC \in [CMP : Nat, ovf : BOOLEAN, cmp : BOOLEAN, cmpInt : BOOLEAN]
      /\ sleep \in [idle : Nat, low : Nat, lowAt : Nat, before : Nat, stopAt : Nat,
                    wakeBy : Nat, step : Nat, torn : BOOLEAN]
  BY DEF TimeInv, Timing, TimeTypes
<1>3. RTC' = [RTC EXCEPT !.ovf = @ \/ (now + 1) % Wide = 0,
                         !.cmp = @ \/ (now + 1) % Wide = RTC.CMP]
  BY DEF Count
<1>4. /\ RTC' \in [CMP : Nat, ovf : BOOLEAN, cmp : BOOLEAN, cmpInt : BOOLEAN]
      /\ RTC'.CMP = RTC.CMP /\ RTC'.cmpInt = RTC.cmpInt
      /\ RTC.cmp \/ (now + 1) % Wide = RTC.CMP => RTC'.cmp
  BY <1>2, <1>3
<1>5. /\ tick' \in [on : BOOLEAN, cnt : 0 .. PerTick - 1] /\ tick'.on = tick.on
      /\ tick.on /\ tick.cnt # PerTick - 1 => tick'.cnt = tick.cnt + 1
  <2>1. CASE ~tick.on
    BY <1>2, <2>1 DEF Count
  <2>2. CASE tick.on
    <3>1. tick' = [tick EXCEPT !.cnt = (@ + 1) % PerTick]
      BY <2>2 DEF Count
    <3>2. (tick.cnt + 1) % PerTick \in 0 .. PerTick - 1
      BY <1>2
    <3>3. tick.cnt # PerTick - 1 => (tick.cnt + 1) % PerTick = tick.cnt + 1
      BY <1>2
    <3> QED
      BY <1>2, <3>1, <3>2, <3>3
  <2> QED
    BY <2>1, <2>2
<1>6. (Ticked => Ticked') /\ (tick.on => Ticked' \/ tick'.cnt = tick.cnt + 1)
  BY <1>1, <1>5 DEF Ticked
<1>7. ASSUME NEW P PROVE Inside(P)' <=> Inside(P)
  BY <1>1 DEF Inside
<1>8. TimeTypes'
  <2>1. now' \in 0 .. MaxNow
    BY <1>1, <1>2
  <2>2. Inside({"BeforeLow", "BeforeHigh", "Stop", "Disable", "Confirm"})' => sleep'.idle >= 2
    BY <1>1, <1>7 DEF TimeInv, Timing, TimeTypes
  <2> QED
    BY <1>1, <1>2, <1>4, <1>5, <2>1, <2>2 DEF TimeTypes
<1>9. TimerRuns'
  <2>1. ~suspended' /\ pc' # "Start" => tick'.on
    BY <1>1, <1>5 DEF TimeInv, Timing, TimerRuns
  <2>2. Inside({"BeforeLow", "BeforeHigh", "Stop", "AbortEnable", "ResumeAll"})' => tick'.on
    BY <1>5, <1>7 DEF TimeInv, Timing, TimerRuns
  <2>3. Inside({"Disable", "Confirm"})' => ~tick'.on
    BY <1>5, <1>7 DEF TimeInv, Timing, TimerRuns
  <2>4. pc = "Confirm" => Inside({"Disable", "Confirm"})
    BY DEF Inside, Sleeping, TimeInv, AloneInv, SleepAlone, SleepCodes
  <2>5. pc' = "Confirm" => ~tickFlag'
    BY <1>1, <2>4 DEF TimeInv, Timing, TimerRuns
  <2> QED
    BY <2>1, <2>2, <2>3, <2>5 DEF TimerRuns
<1>10. FirstRead'
  <2> SUFFICES ASSUME Inside({"BeforeHigh"})'
               PROVE  Read' /\ (Ticked' \/ now' <= sleep'.lowAt + tick'.cnt)
    BY DEF FirstRead
  <2>1. Inside({"BeforeHigh"})
    BY <1>7
  <2>2. tick.on
    BY <2>1 DEF TimeInv, Timing, TimerRuns, Inside
  <2>3. Read /\ (Ticked \/ now <= sleep.lowAt + tick.cnt)
    BY <2>1 DEF TimeInv, Timing, FirstRead
  <2> QED
    BY <1>1, <1>2, <1>5, <1>6, <2>2, <2>3 DEF Read
<1>11. NotStopped'
  <2> SUFFICES ASSUME Inside({"Stop"})', ~sleep'.torn
               PROVE  sleep'.before <= now' /\ (Ticked' \/ now' <= sleep'.before + tick'.cnt)
    BY DEF NotStopped
  <2>1. Inside({"Stop"})
    BY <1>7
  <2>2. tick.on
    BY <2>1 DEF TimeInv, Timing, TimerRuns, Inside
  <2>3. sleep.before <= now /\ (Ticked \/ now <= sleep.before + tick.cnt)
    BY <1>1, <2>1 DEF TimeInv, Timing, NotStopped
  <2> QED
    BY <1>1, <1>2, <1>5, <1>6, <2>2, <2>3
<1>12. Stopped'
  <2> DEFINE P == {"Disable", "Confirm", "SetCompare", "Sleep", "Asleep", "Woke", "AfterLow", "AfterHigh"}
  <2> SUFFICES ASSUME Inside(P)', ~sleep'.torn
               PROVE  /\ sleep'.before <= sleep'.stopAt /\ sleep'.stopAt <= now'
                      /\ \/ Inside({"Disable", "Confirm"})' /\ Ticked'
                         \/ sleep'.stopAt < sleep'.before + PerTick
    BY DEF Stopped
  <2>1. Inside(P)
    BY <1>7
  <2>2. /\ sleep.before <= sleep.stopAt /\ sleep.stopAt <= now
        /\ \/ Inside({"Disable", "Confirm"}) /\ Ticked
           \/ sleep.stopAt < sleep.before + PerTick
    BY <1>1, <2>1 DEF TimeInv, Timing, Stopped
  <2>3. Inside({"Disable", "Confirm"}) => Inside({"Disable", "Confirm"})'
    BY <1>7
  <2> QED
    BY <1>1, <1>2, <1>6, <2>2, <2>3
<1>13. SecondRead'
  <2> SUFFICES ASSUME Inside({"AfterHigh"})'
               PROVE  Read' /\ (sleep'.torn \/ sleep'.stopAt <= sleep'.lowAt)
    BY DEF SecondRead
  <2>1. Read /\ (sleep.torn \/ sleep.stopAt <= sleep.lowAt)
    BY <1>7 DEF TimeInv, Timing, SecondRead
  <2> QED
    BY <1>1, <1>2, <2>1 DEF Read
<1>14. WakeSet'
  <2>1. pc = "SetCompare" => InTime'
    <3> SUFFICES ASSUME pc = "SetCompare" PROVE InTime'
      OBVIOUS
    <3>1. InTime
      BY DEF TimeInv, Timing, WakeSet
    <3>2. now + 1 < sleep.lowAt + PerTick
      BY DEF Count
    <3> QED
      BY <1>1, <1>2, <3>1, <3>2 DEF InTime
  <2>2. ASSUME pc \in {"Sleep", "Asleep"}
        PROVE  RTC'.cmpInt /\ (RTC'.cmp \/ \E m \in Nat : Match(m)')
    <3>1. RTC.cmpInt /\ (RTC.cmp \/ \E m \in Nat : Match(m))
      BY <2>2 DEF TimeInv, Timing, WakeSet
    <3>2. ASSUME NEW m \in Nat, Match(m) PROVE RTC'.cmp \/ Match(m)'
      BY <1>1, <1>2, <1>4, <3>2 DEF Match
    <3> QED
      BY <1>4, <3>1, <3>2
  <2> QED
    BY <1>1, <2>1, <2>2 DEF WakeSet
<1>15. StepIsSleep'
  BY <1>1 DEF TimeInv, Timing, StepIsSleep
<1> QED
  BY <1>8, <1>9, <1>10, <1>11, <1>12, <1>13, <1>14, <1>15 DEF Timing

-----------------------------------------------------------------------------
(* Time and the steps of the sleep                                         *)

\* The tick count by which a time is longer than a number of ticks.
LEMMA Quotient ==
  ASSUME NEW n \in Nat, NEW w \in Nat \ {0}
  PROVE  n \div w \in Nat /\ (n \div w) * w <= n /\ n < ((n \div w) + 1) * w
<1>1. n \div w \in Nat
  OBVIOUS
<1>2. (n \div w) * w <= n
  OBVIOUS
<1>3. n < ((n \div w) + 1) * w
  OBVIOUS
<1> QED
  BY <1>1, <1>2, <1>3

LEMMA RemainderIs ==
  ASSUME NEW w \in Nat \ {0}, NEW q \in Nat, NEW r \in Nat, r < w
  PROVE  (w * q + r) % w = r
  OBVIOUS

LEMMA Remainder ==
  ASSUME NEW n \in Nat, NEW w \in Nat \ {0}
  PROVE  n % w \in 0 .. w - 1 /\ n \div w \in Nat /\ n = w * (n \div w) + (n % w)
<1>1. PICK q \in Nat : q = n \div w /\ q * w <= n /\ n < (q + 1) * w
  BY Quotient
<1>2. q * w = w * q /\ (q + 1) * w = w * q + w /\ w * q \in Nat
  OBVIOUS
<1>3. PICK r \in Nat : r = n - w * q /\ r < w
  BY <1>1, <1>2
<1>4. n = w * q + r
  BY <1>2, <1>3
<1>5. n % w = r
  BY <1>3, <1>4, RemainderIs
<1> QED
  BY <1>1, <1>3, <1>4, <1>5

\* The compare value is the low part of the time it stands for.
LEMMA RemainderOfSum ==
  ASSUME NEW n \in Nat, NEW m \in Nat, NEW w \in Nat \ {0}
  PROVE  ((n % w) + m) % w = (n + m) % w
<1>1. PICK r \in Nat, q \in Nat : r = n % w /\ q = n \div w
  <2>1. n % w \in Nat /\ n \div w \in Nat
    OBVIOUS
  <2> QED
    BY <2>1
<1>2. PICK k \in Nat, p \in Nat : k = (r + m) % w /\ p = (r + m) \div w
  <2>1. r + m \in Nat
    OBVIOUS
  <2>2. (r + m) % w \in Nat /\ (r + m) \div w \in Nat
    BY <2>1
  <2> QED
    BY <2>2
<1>3. n = w * q + r
  BY <1>1, Remainder
<1>4. r + m = w * p + k /\ k < w
  <2>1. r + m \in Nat
    OBVIOUS
  <2> QED
    BY <1>2, <2>1, Remainder
<1>5. w * q + w * p = w * (q + p)
  OBVIOUS
<1>6. w * q \in Nat /\ w * p \in Nat /\ w * (q + p) \in Nat /\ q + p \in Nat
  OBVIOUS
<1>7. n + m = w * (q + p) + k
  BY <1>3, <1>4, <1>5, <1>6
<1>8. (n + m) % w = k
  BY <1>4, <1>6, <1>7, RemainderIs
<1> QED
  BY <1>1, <1>2, <1>8

\* In the sleep function, Inside is about pc.
LEMMA HereNow ==
  ASSUME AloneInv, pc \in SleepCodes, NEW P
  PROVE  suspended /\ (Inside(P) <=> pc \in P)
  BY DEF AloneInv, SleepAlone, Inside, Sleeping

LEMMA HereNext ==
  ASSUME SleepAlone', pc' \in SleepCodes, NEW P
  PROVE  suspended' /\ (Inside(P)' <=> pc' \in P)
  BY DEF SleepAlone, Inside, Sleeping

\* What Timing says in the sleep function, by where it is.
TimingHere ==
  /\ now \in 0 .. MaxNow /\ RTC_OVF_Count \in Nat
  /\ tick \in [on : BOOLEAN, cnt : 0 .. PerTick - 1]
  /\ RTC \in [CMP : Nat, ovf : BOOLEAN, cmp : BOOLEAN, cmpInt : BOOLEAN]
  /\ sleep \in [idle : Nat, low : Nat, lowAt : Nat, before : Nat, stopAt : Nat,
                wakeBy : Nat, step : Nat, torn : BOOLEAN]
  /\ pc \in {"BeforeLow", "BeforeHigh", "Stop", "Disable", "Confirm"} => sleep.idle >= 2
  /\ pc \in {"BeforeLow", "BeforeHigh", "Stop", "AbortEnable", "ResumeAll"} => tick.on
  /\ pc \in {"Disable", "Confirm"} => ~tick.on
  /\ pc = "Confirm" => ~tickFlag
  /\ pc = "BeforeHigh" => Read /\ (Ticked \/ now <= sleep.lowAt + tick.cnt)
  /\ pc = "Stop" /\ ~sleep.torn =>
       sleep.before <= now /\ (Ticked \/ now <= sleep.before + tick.cnt)
  /\ pc \in {"Disable", "Confirm", "SetCompare", "Sleep", "Asleep", "Woke", "AfterLow", "AfterHigh"}
     /\ ~sleep.torn =>
       /\ sleep.before <= sleep.stopAt /\ sleep.stopAt <= now
       /\ (pc \in {"Disable", "Confirm"} /\ Ticked) \/ sleep.stopAt < sleep.before + PerTick
  /\ pc = "AfterHigh" => Read /\ (sleep.torn \/ sleep.stopAt <= sleep.lowAt)
  /\ WakeSet /\ StepIsSleep

LEMMA TimingHereNow ==
  ASSUME TimeInv, pc \in SleepCodes
  PROVE  TimingHere
  BY HereNow DEF TimeInv, TimingHere, Timing, TimeTypes, TimerRuns, FirstRead, NotStopped,
     Stopped, SecondRead

LEMMA TimingHereNext ==
  ASSUME SleepAlone', pc' \in SleepCodes, TimingHere'
  PROVE  Timing'
<1>1. ASSUME NEW P PROVE suspended' /\ (Inside(P)' <=> pc' \in P)
  BY <1>1, HereNext
<1>2. TimeTypes'
  BY <1>1 DEF TimingHere, TimeTypes
<1>3. TimerRuns'
  BY <1>1 DEF TimingHere, TimerRuns
<1>4. FirstRead' /\ NotStopped' /\ SecondRead'
  BY <1>1 DEF TimingHere, FirstRead, NotStopped, SecondRead
<1>5. Stopped'
  BY <1>1 DEF TimingHere, Stopped
<1> QED
  BY <1>2, <1>3, <1>4, <1>5 DEF Timing, TimingHere

\* The steps that only mask or unmask interrupts.
LEMMA MaskTiming ==
  ASSUME TimeInv, UNCHANGED <<tickFlag, kernel, sleepVars>>,
         \/ ~tickFlag /\ Goes("Disable", "Confirm")
         \/ Goes("AbortEnable", "ResumeAll") \/ Goes("Confirm", "PoweredDown")
         \/ Goes("PowerUp", "PowerEnable") \/ Goes("Sleep", "Asleep")
         \/ Goes("Woke", "AfterLow") \/ Goes("PowerEnable", "Restart")
         \/ Goes("Enable", "Restart")
  PROVE  TimingHere'
<1>1. UNCHANGED <<tickFlag, pended, now, tick, RTC, RTC_OVF_Count, sleep>>
  BY DEF kernel, sleepVars
<1>2. TimingHere
  BY TimingHereNow DEF Goes, SleepCodes
<1>3. CASE ~tickFlag /\ Goes("Disable", "Confirm")
  BY <1>1, <1>2, <1>3 DEF TimingHere, Goes, Ticked, WakeSet, StepIsSleep
<1>4. CASE Goes("AbortEnable", "ResumeAll") \/ Goes("Confirm", "PoweredDown")
  BY <1>1, <1>2, <1>4 DEF TimingHere, Goes, Ticked, WakeSet, StepIsSleep
<1>5. CASE Goes("PowerUp", "PowerEnable") \/ Goes("PowerEnable", "Restart")
  BY <1>1, <1>2, <1>5 DEF TimingHere, Goes, Ticked, WakeSet, StepIsSleep
<1>6. CASE Goes("Sleep", "Asleep")
  BY <1>1, <1>2, <1>6 DEF TimingHere, Goes, Ticked, WakeSet, Match, StepIsSleep
<1>7. CASE Goes("Woke", "AfterLow")
  BY <1>1, <1>2, <1>7 DEF TimingHere, Goes, Ticked, WakeSet, StepIsSleep
<1>8. CASE Goes("Enable", "Restart")
  BY <1>1, <1>2, <1>8 DEF TimingHere, Goes, Ticked, WakeSet, StepIsSleep
<1> QED
  BY <1>3, <1>4, <1>5, <1>6, <1>7, <1>8

LEMMA SuspendTiming ==
  ASSUME TimeInv, SuspendAll
  PROVE  TimingHere'
<1>1. /\ pc = "task" /\ pc' = "BeforeLow"
      /\ UNCHANGED <<now, tick, RTC, RTC_OVF_Count>>
  BY DEF SuspendAll, Goes
<1>2. PICK n \in Expected : sleep' = [NoSleep EXCEPT !.idle = n]
  BY DEF SuspendAll
<1>3. n \in Nat /\ n >= 2
  OBVIOUS
<1>4. tick.on
  BY <1>1, TaskNotSuspended DEF TimeInv, Timing, TimerRuns
<1>5. /\ sleep'.idle >= 2
      /\ sleep' \in [idle : Nat, low : Nat, lowAt : Nat, before : Nat, stopAt : Nat,
                     wakeBy : Nat, step : Nat, torn : BOOLEAN]
  BY <1>2, <1>3 DEF NoSleep
<1> QED
  BY <1>1, <1>4, <1>5 DEF TimeInv, Timing, TimeTypes, TimingHere, WakeSet, StepIsSleep

LEMMA ReadTiming ==
  ASSUME TimeInv, ReadLow("BeforeLow", "BeforeHigh") \/ ReadLow("AfterLow", "AfterHigh")
  PROVE  TimingHere'
<1>1. /\ UNCHANGED <<now, tick, RTC, RTC_OVF_Count, tickFlag, pended>>
      /\ Goes("BeforeLow", "BeforeHigh") \/ Goes("AfterLow", "AfterHigh")
      /\ sleep' = [sleep EXCEPT !.low = CNT, !.lowAt = now, !.wakeBy = 0]
  BY DEF ReadLow, kernel
<1>2. TimingHere
  BY <1>1, TimingHereNow DEF Goes, SleepCodes
<1>3. /\ now \in Nat /\ CNT \in Nat /\ CNT = now % Wide
      /\ sleep \in [idle : Nat, low : Nat, lowAt : Nat, before : Nat, stopAt : Nat,
                    wakeBy : Nat, step : Nat, torn : BOOLEAN]
  BY <1>2, Remainder DEF CNT, TimingHere
<1>4. /\ sleep' \in [idle : Nat, low : Nat, lowAt : Nat, before : Nat, stopAt : Nat,
                     wakeBy : Nat, step : Nat, torn : BOOLEAN]
      /\ sleep'.low = now % Wide /\ sleep'.lowAt = now /\ sleep'.idle = sleep.idle
      /\ sleep'.before = sleep.before /\ sleep'.stopAt = sleep.stopAt
      /\ sleep'.torn = sleep.torn
  BY <1>1, <1>3
<1>5. CASE Goes("BeforeLow", "BeforeHigh")
  BY <1>1, <1>2, <1>3, <1>4, <1>5 DEF TimingHere, Goes, Read, WakeSet, StepIsSleep
<1>6. CASE Goes("AfterLow", "AfterHigh")
  BY <1>1, <1>2, <1>3, <1>4, <1>6 DEF TimingHere, Goes, Read, WakeSet, StepIsSleep
<1> QED
  BY <1>1, <1>5, <1>6

\* Unless it is torn, the time read is the time.
LEMMA ReadIsTime ==
  ASSUME TimingHere, Read, ~Torn
  PROVE  ulGetExternalTime = sleep.lowAt /\ sleep.lowAt < Range32
<1>1. /\ sleep.lowAt \in Nat /\ sleep.low = sleep.lowAt % Wide
      /\ RTC_OVF_Count = Wide * (sleep.lowAt \div Wide)
      /\ sleep.lowAt <= MaxNow
  BY DEF TimingHere, Read, Torn
<1>2. sleep.low + RTC_OVF_Count = sleep.lowAt
  <2>1. PICK n \in Nat : n = sleep.lowAt
    BY <1>1
  <2>2. PICK q \in Nat, r \in Nat : q = Wide * (n \div Wide) /\ r = n % Wide /\ n = q + r
    <3>1. /\ n % Wide \in Nat /\ n \div Wide \in Nat
          /\ n = Wide * (n \div Wide) + (n % Wide)
      BY Remainder
    <3>2. Wide * (n \div Wide) \in Nat
      BY <3>1
    <3> QED
      BY <3>1, <3>2
  <2> QED
    BY <1>1, <2>1, <2>2
<1>3. sleep.lowAt < Range32 /\ Range32 \in Nat
  BY <1>1 DEF Range32
<1>4. sleep.lowAt % Range32 = sleep.lowAt
  BY <1>1, <1>3
<1> QED
  BY <1>2, <1>3, <1>4 DEF ulGetExternalTime

LEMMA TimeIsNat ==
  ASSUME TimingHere
  PROVE  ulGetExternalTime \in Nat
<1>1. sleep.low + RTC_OVF_Count \in Nat /\ Range32 \in Nat \ {0}
  BY DEF TimingHere, Range32
<1> QED
  BY <1>1 DEF ulGetExternalTime

LEMMA BeforeTiming ==
  ASSUME TimeInv, TimeBefore
  PROVE  TimingHere'
<1>1. /\ UNCHANGED <<now, tick, RTC, RTC_OVF_Count, tickFlag, pended>>
      /\ pc = "BeforeHigh" /\ pc' = "Stop"
      /\ sleep' = [sleep EXCEPT !.before = ulGetExternalTime, !.torn = Torn,
                                !.low = 0, !.lowAt = 0]
  BY DEF TimeBefore, kernel, Goes
<1>2. TimingHere
  BY <1>1, TimingHereNow DEF SleepCodes
<1>3. ulGetExternalTime \in Nat /\ Torn \in BOOLEAN
  BY <1>2, TimeIsNat DEF Torn
<1>4. sleep \in [idle : Nat, low : Nat, lowAt : Nat, before : Nat, stopAt : Nat,
                 wakeBy : Nat, step : Nat, torn : BOOLEAN]
  BY <1>2 DEF TimingHere
<1>5. /\ sleep' \in [idle : Nat, low : Nat, lowAt : Nat, before : Nat, stopAt : Nat,
                     wakeBy : Nat, step : Nat, torn : BOOLEAN]
      /\ sleep'.idle = sleep.idle /\ sleep'.before = ulGetExternalTime
      /\ sleep'.torn = Torn
  BY <1>1, <1>3, <1>4
<1>6. Read /\ (Ticked \/ now <= sleep.lowAt + tick.cnt)
  BY <1>1, <1>2 DEF TimingHere
<1>7. ~Torn => /\ ulGetExternalTime <= now
               /\ Ticked \/ now <= ulGetExternalTime + tick.cnt
  BY <1>2, <1>6, ReadIsTime DEF Read
<1>8. Ticked => Ticked'
  BY <1>1 DEF Ticked
<1> QED
  BY <1>1, <1>2, <1>5, <1>7, <1>8 DEF TimingHere, WakeSet, StepIsSleep

LEMMA StopTiming ==
  ASSUME TimeInv, StopTick
  PROVE  TimingHere'
<1>1. /\ UNCHANGED <<now, RTC, RTC_OVF_Count, tickFlag, pended>>
      /\ pc = "Stop" /\ pc' = "Disable"
      /\ tick' = [tick EXCEPT !.on = FALSE]
      /\ sleep' = [sleep EXCEPT !.stopAt = now]
  BY DEF StopTick, kernel, Goes, TICK_TMR_STOP
<1>2. TimingHere
  BY <1>1, TimingHereNow DEF SleepCodes
<1>3. /\ now \in Nat /\ tick \in [on : BOOLEAN, cnt : 0 .. PerTick - 1]
      /\ sleep \in [idle : Nat, low : Nat, lowAt : Nat, before : Nat, stopAt : Nat,
                    wakeBy : Nat, step : Nat, torn : BOOLEAN]
  BY <1>2 DEF TimingHere
<1>4. /\ sleep' \in [idle : Nat, low : Nat, lowAt : Nat, before : Nat, stopAt : Nat,
                     wakeBy : Nat, step : Nat, torn : BOOLEAN]
      /\ sleep'.idle = sleep.idle /\ sleep'.before = sleep.before
      /\ sleep'.torn = sleep.torn /\ sleep'.stopAt = now
      /\ tick' \in [on : BOOLEAN, cnt : 0 .. PerTick - 1] /\ ~tick'.on
  BY <1>1, <1>3
<1>5. Ticked => Ticked'
  BY <1>1 DEF Ticked
<1>6. ~sleep.torn => /\ sleep.before <= now
                     /\ Ticked' \/ now < sleep.before + PerTick
  BY <1>1, <1>2, <1>3, <1>5 DEF TimingHere
<1> QED
  BY <1>1, <1>2, <1>4, <1>6 DEF TimingHere, WakeSet, StepIsSleep

\* The timer of the tick starts again, and the sleep is over.
LEMMA RestartTiming ==
  ASSUME TimeInv, Abort \/ StartTick
  PROVE  TimingHere'
<1>1. /\ UNCHANGED <<now, RTC, RTC_OVF_Count>> /\ pc \in SleepCodes
      /\ pc' \in {"AbortEnable", "ResumeAll"}
      /\ tick' = [tick EXCEPT !.on = TRUE] /\ sleep' = NoSleep
  BY DEF Abort, StartTick, Goes, TICK_TMR_START, SleepCodes
<1>2. TimingHere
  BY <1>1, TimingHereNow
<1>3. /\ sleep' \in [idle : Nat, low : Nat, lowAt : Nat, before : Nat, stopAt : Nat,
                     wakeBy : Nat, step : Nat, torn : BOOLEAN]
      /\ tick' \in [on : BOOLEAN, cnt : 0 .. PerTick - 1] /\ tick'.on
  BY <1>1, <1>2 DEF NoSleep, TimingHere
<1> QED
  BY <1>1, <1>2, <1>3 DEF TimingHere, WakeSet, StepIsSleep

\* A wait of a whole range of ticks is longer than a tick and a period.
LEMMA LongWait ==
  ASSUME NEW w \in Nat \ {0}, NEW p \in Nat \ {0}, NEW n \in Nat, n >= w
  PROVE  w + p <= n * p + 1
<1>1. PICK v \in Nat, q \in Nat, k \in Nat : w = v + 1 /\ p = q + 1 /\ n = w + k
  <2>1. w - 1 \in Nat /\ p - 1 \in Nat /\ n - w \in Nat
    OBVIOUS
  <2>2. w = (w - 1) + 1 /\ p = (p - 1) + 1 /\ n = w + (n - w)
    OBVIOUS
  <2> QED
    BY <2>1, <2>2
<1>2. n * p = v * q + v + q + 1 + k * p
  BY <1>1
<1>3. v * q \in Nat /\ k * p \in Nat
  OBVIOUS
<1> QED
  BY <1>1, <1>2, <1>3

\* The counter takes every value within a period.
LEMMA Comes ==
  ASSUME NEW n \in Nat, NEW w \in Nat \ {0}, NEW c \in 0 .. w - 1
  PROVE  \E m \in Nat : n < m /\ m <= n + w /\ c = m % w
<1>1. PICK q \in Nat, r \in Nat : r < w /\ n = w * q + r
  <2>1. n % w \in Nat /\ n % w < w
    OBVIOUS
  <2> QED
    BY <2>1, Remainder
<1>2. w * q \in Nat /\ w * (q + 1) \in Nat /\ w * (q + 1) = w * q + w /\ q + 1 \in Nat
  OBVIOUS
<1>3. CASE r < c
  <2>1. (w * q + c) % w = c
    BY RemainderIs
  <2> QED
    BY <1>1, <1>2, <1>3, <2>1
<1>4. CASE c <= r
  <2>1. (w * (q + 1) + c) % w = c
    BY <1>2, RemainderIs
  <2>2. n < w * (q + 1) + c /\ w * (q + 1) + c <= n + w
    BY <1>1, <1>2, <1>4
  <2>3. w * (q + 1) + c \in Nat
    BY <1>2
  <2> QED
    BY <2>1, <2>2, <2>3
<1> QED
  BY <1>1, <1>3, <1>4

\* The wake-up time: the ticks are a uint16_t.
LEMMA ReadWakeTiming ==
  ASSUME TimeInv, ReadWakeTime
  PROVE  TimingHere'
<1>1. PICK by, low : by = NextRun /\ low = Wakeup
  OBVIOUS
<1>2. /\ UNCHANGED <<now, tick, RTC, RTC_OVF_Count, tickFlag, pended>>
      /\ pc = "Confirm" /\ pc' = "SetCompare" /\ ~pended
      /\ sleep' = [sleep EXCEPT !.low = low, !.lowAt = now, !.wakeBy = by, !.idle = 0]
  BY <1>1 DEF ReadWakeTime, kernel, Goes, MaySleep
<1>3. TimingHere
  BY <1>2, TimingHereNow DEF SleepCodes
<1>4. /\ now \in Nat /\ sleep.idle >= 2 /\ sleep.idle \in Nat
      /\ sleep \in [idle : Nat, low : Nat, lowAt : Nat, before : Nat, stopAt : Nat,
                    wakeBy : Nat, step : Nat, torn : BOOLEAN]
  BY <1>2, <1>3 DEF TimingHere
<1>5. PICK n \in Nat, k \in Nat : n = sleep.idle /\ n >= 2 /\ k = n * PerTick
  <2>1. sleep.idle * PerTick \in Nat
    BY <1>4
  <2> QED
    BY <1>4, <2>1
<1>6. by = now + k /\ k >= 2 * PerTick
  <2>1. n * PerTick >= 2 * PerTick
    BY <1>5
  <2> QED
    BY <1>1, <1>5, <2>1 DEF NextRun
<1>7. CNT \in Nat /\ CNT = now % Wide
  BY <1>4 DEF CNT
<1>8. low \in 0 .. Wide - 1
  <2>1. n % Wide \in Nat
    BY <1>5
  <2>2. RTC_TICKS_TO_COUNTS(n % Wide) \in Nat
    <3>1. PICK r \in Nat : r = n % Wide
      BY <2>1
    <3>2. r # 0 => r * PerTick \in Nat /\ r * PerTick >= 1
      OBVIOUS
    <3> QED
      BY <3>1, <3>2 DEF RTC_TICKS_TO_COUNTS
  <2>3. PICK m \in Nat : m = CNT + RTC_TICKS_TO_COUNTS(n % Wide)
    BY <1>7, <2>2
  <2>4. m % Wide \in 0 .. Wide - 1
    OBVIOUS
  <2> QED
    BY <1>1, <1>5, <2>3, <2>4 DEF Wakeup
<1>9. /\ sleep' \in [idle : Nat, low : Nat, lowAt : Nat, before : Nat, stopAt : Nat,
                     wakeBy : Nat, step : Nat, torn : BOOLEAN]
      /\ sleep'.before = sleep.before /\ sleep'.stopAt = sleep.stopAt
      /\ sleep'.torn = sleep.torn /\ sleep'.wakeBy = by
      /\ sleep'.low = low /\ sleep'.lowAt = now
  <2>1. low \in Nat /\ by \in Nat
    BY <1>4, <1>5, <1>6, <1>8
  <2> QED
    BY <1>2, <1>4, <2>1
<1>10. ~Ticked
  BY <1>2, <1>3 DEF Ticked, TimingHere
<1>11. ASSUME n < Wide PROVE InTime'
  <2>1. n % Wide = n
    BY <1>5, <1>11
  <2>2. PICK m \in Nat : m = k - 1 /\ m = RTC_TICKS_TO_COUNTS(n % Wide)
    BY <1>5, <1>6, <2>1 DEF RTC_TICKS_TO_COUNTS
  <2>3. PICK t \in Nat : t = now
    BY <1>4
  <2>4. ((t % Wide) + m) % Wide = (t + m) % Wide
    BY RemainderOfSum
  <2>5. low = (by - 1) % Wide
    <3>1. t + m = by - 1
      BY <1>6, <2>2, <2>3
    <3>2. low = ((t % Wide) + m) % Wide
      BY <1>1, <1>5, <1>7, <2>2, <2>3 DEF Wakeup
    <3> QED
      BY <2>4, <3>1, <3>2
  <2>6. now + PerTick < by
    BY <1>4, <1>6
  <2> QED
    <3>1. now' = now /\ now <= now /\ now < now + PerTick
      BY <1>2, <1>4
    <3> QED
      BY <1>8, <1>9, <2>5, <2>6, <3>1 DEF InTime
<1>12. ASSUME n >= Wide PROVE InTime'
  <2>1. Wide + PerTick <= k + 1
    BY <1>5, <1>12, LongWait
  <2>2. now + PerTick + Wide <= by + 1
    BY <1>4, <1>6, <2>1
  <2> QED
    <3>1. now' = now /\ now <= now /\ now < now + PerTick
      BY <1>2, <1>4
    <3> QED
      BY <1>8, <1>9, <2>2, <3>1 DEF InTime
<1>13. WakeSet'
  BY <1>2, <1>5, <1>11, <1>12 DEF WakeSet
<1> QED
  BY <1>2, <1>3, <1>9, <1>10, <1>13 DEF TimingHere, StepIsSleep

\* The compare value is written, and a match comes in time.
LEMMA CompareTiming ==
  ASSUME TimeInv, SetCompare
  PROVE  TimingHere'
<1>1. /\ UNCHANGED <<now, tick, RTC_OVF_Count, tickFlag, pended>>
      /\ pc = "SetCompare" /\ pc' = "Sleep"
      /\ RTC' = [RTC EXCEPT !.CMP = sleep.low, !.cmpInt = TRUE]
      /\ sleep' = [sleep EXCEPT !.low = 0, !.lowAt = 0]
  BY DEF SetCompare, kernel, Goes
<1>2. TimingHere
  BY <1>1, TimingHereNow DEF SleepCodes
<1>3. /\ now \in Nat
      /\ RTC \in [CMP : Nat, ovf : BOOLEAN, cmp : BOOLEAN, cmpInt : BOOLEAN]
      /\ sleep \in [idle : Nat, low : Nat, lowAt : Nat, before : Nat, stopAt : Nat,
                    wakeBy : Nat, step : Nat, torn : BOOLEAN]
      /\ InTime
  BY <1>1, <1>2 DEF TimingHere, WakeSet
<1>4. /\ RTC' \in [CMP : Nat, ovf : BOOLEAN, cmp : BOOLEAN, cmpInt : BOOLEAN]
      /\ RTC'.CMP = sleep.low /\ RTC'.cmpInt
      /\ sleep' \in [idle : Nat, low : Nat, lowAt : Nat, before : Nat, stopAt : Nat,
                     wakeBy : Nat, step : Nat, torn : BOOLEAN]
      /\ sleep'.before = sleep.before /\ sleep'.stopAt = sleep.stopAt
      /\ sleep'.torn = sleep.torn /\ sleep'.wakeBy = sleep.wakeBy
  BY <1>1, <1>3
<1>5. \E m \in Nat : now < m /\ m <= sleep.wakeBy /\ sleep.low = m % Wide
  <2>1. CASE /\ sleep.lowAt + PerTick < sleep.wakeBy
             /\ sleep.low = (sleep.wakeBy - 1) % Wide
    <3>1. now < sleep.wakeBy - 1 /\ sleep.wakeBy - 1 \in Nat
      BY <1>3, <2>1 DEF InTime
    <3> QED
      BY <1>3, <2>1, <3>1
  <2>2. CASE sleep.lowAt + PerTick + Wide <= sleep.wakeBy + 1
    <3>1. PICK t \in Nat, c \in 0 .. Wide - 1, by \in Nat :
            t = now /\ c = sleep.low /\ by = sleep.wakeBy
      BY <1>3 DEF InTime
    <3>2. PICK m \in Nat : t < m /\ m <= t + Wide /\ c = m % Wide
      BY Comes
    <3>3. t + Wide <= by
      BY <1>3, <2>2, <3>1 DEF InTime
    <3>4. m <= by
      BY <3>2, <3>3
    <3> QED
      BY <3>1, <3>2, <3>4
  <2> QED
    BY <1>3, <2>1, <2>2 DEF InTime
<1>6. WakeSet'
  BY <1>1, <1>4, <1>5 DEF WakeSet, Match
<1> QED
  BY <1>1, <1>2, <1>4, <1>6 DEF TimingHere, StepIsSleep

\* The correction of the tick count.
LEMMA StepTiming ==
  ASSUME TimeInv, StepTick
  PROVE  TimingHere'
<1>1. PICK d : d = (ulGetExternalTime + Range32 - sleep.before) % Range32
  OBVIOUS
<1>2. /\ UNCHANGED <<now, tick, RTC, RTC_OVF_Count>>
      /\ pc = "AfterHigh" /\ pc' = "Enable"
      /\ sleep' = [sleep EXCEPT !.step = RTC_COUNTS_TO_TICKS(d),
                                !.torn = @ \/ Torn, !.low = 0, !.before = 0]
  BY <1>1 DEF StepTick, kernel, Goes
<1>3. TimingHere
  BY <1>2, TimingHereNow DEF SleepCodes
<1>4. /\ sleep \in [idle : Nat, low : Nat, lowAt : Nat, before : Nat, stopAt : Nat,
                    wakeBy : Nat, step : Nat, torn : BOOLEAN]
      /\ Read /\ (sleep.torn \/ sleep.stopAt <= sleep.lowAt)
  BY <1>2, <1>3 DEF TimingHere
<1>5. d \in Nat /\ RTC_COUNTS_TO_TICKS(d) \in Nat
  <2>1. Range32 \in Nat \ {0}
    BY DEF Range32
  <2>2. ulGetExternalTime + Range32 - sleep.before \in Int
    BY <1>3, <1>4, <2>1, TimeIsNat
  <2>3. d \in Nat
    BY <1>1, <2>1, <2>2
  <2> QED
    BY <2>3, Quotient DEF RTC_COUNTS_TO_TICKS
<1>6. /\ sleep' \in [idle : Nat, low : Nat, lowAt : Nat, before : Nat, stopAt : Nat,
                     wakeBy : Nat, step : Nat, torn : BOOLEAN]
      /\ sleep'.lowAt = sleep.lowAt /\ sleep'.stopAt = sleep.stopAt
      /\ sleep'.step = RTC_COUNTS_TO_TICKS(d)
      /\ sleep'.torn <=> sleep.torn \/ Torn
  BY <1>2, <1>4, <1>5 DEF Torn
<1>7. StepIsSleep'
  <2> SUFFICES ASSUME ~sleep'.torn
               PROVE  /\ sleep'.step * PerTick <= (sleep.lowAt - sleep.stopAt) + PerTick
                      /\ sleep.lowAt - sleep.stopAt < (sleep'.step + 1) * PerTick
    BY <1>6 DEF StepIsSleep
  <2>1. ulGetExternalTime = sleep.lowAt /\ sleep.lowAt < Range32
    BY <1>3, <1>4, <1>6, ReadIsTime
  <2>2. /\ sleep.before <= sleep.stopAt /\ sleep.stopAt < sleep.before + PerTick
        /\ sleep.stopAt <= sleep.lowAt
    BY <1>2, <1>3, <1>4, <1>6 DEF TimingHere
  <2>3. PICK m \in Nat : m = sleep.lowAt - sleep.before
    BY <1>4, <2>2
  <2>4. d = m
    <3>1. m < Range32 /\ Range32 \in Nat \ {0}
      BY <1>4, <2>1, <2>3 DEF Range32
    <3>2. ulGetExternalTime + Range32 - sleep.before = m + Range32
      BY <1>4, <2>1, <2>3, <3>1
    <3>3. (m + Range32) % Range32 = m
      BY <3>1
    <3> QED
      BY <1>1, <3>2, <3>3
  <2>5. PICK k \in Nat : k = m \div PerTick /\ k * PerTick <= m /\ m < (k + 1) * PerTick
    BY Quotient
  <2>6. sleep'.step = k
    BY <1>6, <2>4, <2>5 DEF RTC_COUNTS_TO_TICKS
  <2>7. k * PerTick \in Nat /\ (k + 1) * PerTick \in Nat
    OBVIOUS
  <2>8. /\ k * PerTick <= (sleep.lowAt - sleep.stopAt) + PerTick
        /\ sleep.lowAt - sleep.stopAt < (k + 1) * PerTick
    BY <1>4, <2>2, <2>3, <2>5, <2>7
  <2> QED
    BY <2>6, <2>8
<1> QED
  BY <1>2, <1>3, <1>6, <1>7 DEF TimingHere, WakeSet

\* The scheduler resumes, and the tick timer runs.
LEMMA ResumeTiming ==
  ASSUME TimeInv, ResumeAll
  PROVE  Timing'
<1>1. /\ UNCHANGED <<now, tick, RTC, RTC_OVF_Count, sleep>>
      /\ pc = "ResumeAll" /\ pc' = "task" /\ ~suspended'
  BY DEF ResumeAll, Goes, sleepVars
<1>2. TimingHere
  BY <1>1, TimingHereNow DEF SleepCodes
<1>3. ASSUME NEW P, Inside(P)' PROVE FALSE
  BY <1>1, <1>3 DEF Inside
<1>4. tick.on
  BY <1>1, <1>2 DEF TimingHere
<1>5. TimeTypes' /\ TimerRuns'
  BY <1>1, <1>2, <1>3, <1>4 DEF TimingHere, TimeTypes, TimerRuns
<1>6. FirstRead' /\ NotStopped' /\ Stopped' /\ SecondRead'
  BY <1>3 DEF FirstRead, NotStopped, Stopped, SecondRead
<1> QED
  BY <1>1, <1>5, <1>6 DEF Timing, WakeSet, StepIsSleep

LEMMA SleepKeepsTiming ==
  ASSUME TimeInv, StackInv', vPortSuppressTicksAndSleep
  PROVE  SleepAlone' /\ Timing'
<1>1. CASE ResumeAll
  BY <1>1, SuspendAlone, ResumeTiming DEF TimeInv
<1>2. CASE SuspendAll
  <2>1. SleepAlone' /\ pc' \in SleepCodes
    BY <1>2, SuspendAlone DEF TimeInv, SuspendAll, Goes, SleepCodes
  <2> QED
    BY <1>2, <2>1, SuspendTiming, TimingHereNext
<1>3. CASE ~SuspendAll /\ ~ResumeAll
  <2>1. SleepStep
    BY <1>3, SleepSteps DEF TimeInv, AloneInv
  <2>2. suspended' = suspended /\ TimingHere'
    <3>1. CASE ReadLow("BeforeLow", "BeforeHigh") \/ ReadLow("AfterLow", "AfterHigh")
      BY <3>1, ReadTiming DEF ReadLow, kernel
    <3>2. CASE TimeBefore
      BY <3>2, BeforeTiming DEF TimeBefore, kernel
    <3>3. CASE StopTick
      BY <3>3, StopTiming DEF StopTick, kernel
    <3>4. CASE Abort \/ StartTick
      BY <3>4, RestartTiming DEF Abort, StartTick, kernel
    <3>5. CASE vSetWakeTimeInterrupt
      BY <3>5, ReadWakeTiming, CompareTiming DEF vSetWakeTimeInterrupt, ReadWakeTime,
         SetCompare, kernel
    <3>6. CASE StepTick
      BY <3>6, StepTiming DEF StepTick, kernel
    <3>7. CASE \/ ~tickFlag /\ Disable("Disable", "Confirm")
               \/ Disable("PowerUp", "PowerEnable") \/ Disable("Woke", "AfterLow")
      BY <3>7, MaskTiming DEF Disable, kernel
    <3>8. CASE \/ Enable("AbortEnable", "ResumeAll") \/ Enable("PowerEnable", "Restart")
               \/ Enable("Enable", "Restart")
      BY <3>8, MaskTiming DEF Enable, kernel
    <3>9. CASE PowerDown \/ portSET_MODE_AND_SLEEP("Sleep", "Asleep")
      BY <3>9, MaskTiming DEF PowerDown, portSET_MODE_AND_SLEEP, kernel
    <3> QED
      BY <1>3, <3>1, <3>2, <3>3, <3>4, <3>5, <3>6, <3>7, <3>8, <3>9
      DEF vPortSuppressTicksAndSleep
  <2>3. SleepAlone' /\ pc' \in SleepCodes
    BY <2>1, <2>2, SleepStepAlone DEF TimeInv, SleepStep
  <2> QED
    BY <2>2, <2>3, TimingHereNext
<1> QED
  BY <1>1, <1>2, <1>3

LEMMA TimeAtStart == SleepInit => TimeInv
<1> SUFFICES ASSUME SleepInit PROVE TimeInv
  OBVIOUS
<1>1. StackInv /\ pc = "Start" /\ ~suspended
  BY StacksAtStart DEF SleepInit, Init
<1>2. \A t \in Tasks : ~FromSleep(stack[t])
  <2>1. PICK z : z = <<Ret("task"), Registers(TRUE)>>
    OBVIOUS
  <2>2. z[1].to = "task"
    BY <2>1 DEF Ret
  <2>3. \A t \in Tasks : stack[t] = z
    BY <2>1 DEF SleepInit, Init, pxPortInitialiseStack
  <2> QED
    BY <2>2, <2>3 DEF FromSleep, Back
<1>3. SleepAlone
  BY <1>1, <1>2 DEF SleepAlone, SleepCodes
<1>4. ASSUME NEW P, Inside(P) PROVE FALSE
  BY <1>1, <1>4 DEF Inside
<1>5. TimeTypes /\ TimerRuns
  BY <1>1, <1>4 DEF SleepInit, NoSleep, TimeTypes, TimerRuns
<1>6. FirstRead /\ NotStopped /\ Stopped /\ SecondRead
  BY <1>4 DEF FirstRead, NotStopped, Stopped, SecondRead
<1> QED
  BY <1>1, <1>3, <1>5, <1>6 DEF TimeInv, AloneInv, Timing, WakeSet, StepIsSleep

LEMMA UnchangedTiming ==
  ASSUME TimeInv, UNCHANGED vars
  PROVE  SleepAlone' /\ Timing'
<1>1. /\ UNCHANGED <<build, pc, pxCurrentTCB, stack, tickFlag, suspended, pended>>
      /\ UNCHANGED <<now, tick, RTC, RTC_OVF_Count, sleep>>
  BY DEF vars, avrVars, sleepVars, cpu, kernel
<1>2. ASSUME NEW P PROVE Inside(P)' <=> Inside(P)
  BY <1>1 DEF Inside, Sleeping
<1>3. Ticked' <=> Ticked
  BY <1>1 DEF Ticked
<1>4. SleepAlone'
  BY <1>1 DEF TimeInv, AloneInv, SleepAlone
<1>5. TimeTypes' /\ TimerRuns'
  BY <1>1, <1>2 DEF TimeInv, Timing, TimeTypes, TimerRuns
<1>6. FirstRead' /\ NotStopped' /\ SecondRead'
  BY <1>1, <1>2, <1>3 DEF TimeInv, Timing, FirstRead, NotStopped, SecondRead, Read
<1>7. Stopped'
  BY <1>1, <1>2, <1>3 DEF TimeInv, Timing, Stopped
<1>8. WakeSet' /\ StepIsSleep'
  BY <1>1 DEF TimeInv, Timing, WakeSet, InTime, Match, StepIsSleep
<1> QED
  BY <1>4, <1>5, <1>6, <1>7, <1>8 DEF Timing

LEMMA StepKeepsTime == TimeInv /\ [Next]_vars => TimeInv'
<1> SUFFICES ASSUME TimeInv, [Next]_vars PROVE TimeInv'
  OBVIOUS
<1>1. StackInv' /\ AloneInv
  BY StepKeepsStacks DEF TimeInv, AloneInv
<1>2. CASE Start
  BY <1>1, <1>2, StartAlone, StartTiming DEF TimeInv, AloneInv
<1>3. CASE PortStep
  BY <1>1, <1>3, PortAlone, PortTiming DEF TimeInv, AloneInv
<1>4. CASE Count
  BY <1>1, <1>4, CountAlone, CountTiming DEF Count, TimeInv, AloneInv
<1>5. CASE vPortSuppressTicksAndSleep
  BY <1>1, <1>5, SleepKeepsTiming DEF TimeInv, AloneInv
<1>6. CASE UNCHANGED vars
  BY <1>1, <1>6, UnchangedTiming DEF TimeInv, AloneInv
<1> QED
  BY <1>2, <1>3, <1>4, <1>5, <1>6 DEF Next, PortStep
-----------------------------------------------------------------------------
\* The processor is asleep, with no interrupt to wake it, only before the time
\* at which the kernel next needs to execute (AVR_AVRDx/port.c:332-335),
\* whatever the period of the counter and the length of the sleep.
THEOREM AvrWakesInTime == Spec => []WakesInTime
<1>1. TimeInv => WakesInTime
  BY DEF TimeInv, Timing, TimeTypes, WakeSet, Match, WakesInTime, Pending
<1> QED
  BY <1>1, TimeAtStart, StepKeepsTime, PTL DEF Spec

\* Unless one of the two reads was torn by an overflow, the tick count is
\* corrected by the time the tick timer was stopped, to within one tick
\* (AVR_AVRDx/port.c:363-365), whichever interrupts came in between.
THEOREM AvrStepIsSleep == Spec => []StepIsSleep
<1>1. TimeInv => StepIsSleep
  BY DEF TimeInv, Timing
<1> QED
  BY <1>1, TimeAtStart, StepKeepsTime, PTL DEF Spec
=============================================================================
