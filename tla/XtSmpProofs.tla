---------------------------- MODULE XtSmpProofs -----------------------------
(***************************************************************************)
(* The SMP kernel on Xtensa cores, for any number of cores, tasks and      *)
(* devices and any depth of sections and handlers: the cores start in      *)
(* order, the mutexes implement CoreLock, a switch is made with both of    *)
(* them and outside handlers and sections, and no context is lost.         *)
(*                                                                         *)
(* The invariant is an outline of all that a core executes: at each point  *)
(* of it, how often the core has each mutex, how deep it is in sections,   *)
(* whether it is in a handler and whether its task's frame is stored.      *)
(***************************************************************************)
EXTENDS XtSmp, SequenceTheorems, TLAPS

LT == On("lock", TASK)
LI == On("lock", ISR)
UT == On("unlock", TASK)
UI == On("unlock", ISR)

\* What is left of a section.  That of a task and that of a handler differ at
\* both ends.
EnterTask == <<LT, LI, Op("deeper"), Op("kernel")>>
EnterIsr == <<LI, Op("deeper"), Op("kernel")>>
Deepen == <<Op("deeper"), Op("kernel")>>
Kernel == <<Op("kernel")>>
LeaveInner == <<Op("shallower"), Op("kernel")>>
LeaveTask1 == <<Op("shallower"), UI, UT, Op("unmask")>>
LeaveTask2 == <<UI, UT, Op("unmask")>>
LeaveTask3 == <<UT, Op("unmask")>>
LeaveTask4 == <<Op("unmask")>>
LeaveIsr == <<Op("shallower"), UI>>
LastIsr == <<UI>>

\* ... of vTaskSuspendAll and of xTaskResumeAll
Suspend1 == <<LT, LI, Op("suspend"), UI>>
Suspend2 == <<LI, Op("suspend"), UI>>
Suspend3 == <<Op("suspend"), UI>>
Resume1 == <<LT, LI, Op("deeper"), Op("resume"), UT, Op("shallower"), UI, UT, Op("unmask")>>
Resume2 == <<LI, Op("deeper"), Op("resume"), UT, Op("shallower"), UI, UT, Op("unmask")>>
Resume3 == <<Op("deeper"), Op("resume"), UT, Op("shallower"), UI, UT, Op("unmask")>>
Resume4 == <<Op("resume"), UT, Op("shallower"), UI, UT, Op("unmask")>>
Resume5 == <<UT, Op("shallower"), UI, UT, Op("unmask")>>

\* ... of the dispatcher, where Switch is its begin
Switch2 == <<LI, Op("select"), UI, UT, Op("restore")>>
Switch3 == <<Op("select"), UI, UT, Op("restore")>>
Switch4 == <<UI, UT, Op("restore")>>
Switch5 == <<UT, Op("restore")>>
Switch6 == <<Op("restore")>>

\* ... and of the start, after StartFirst or StartOther
First2 == <<Op("coproc"), Op("mutexes"), Op("ipis"), Op("tick"), Op("running"), Op("sync"), Op("dispatch")>>
First3 == <<Op("mutexes"), Op("ipis"), Op("tick"), Op("running"), Op("sync"), Op("dispatch")>>
First4 == <<Op("ipis"), Op("tick"), Op("running"), Op("sync"), Op("dispatch")>>
First5 == <<Op("tick"), Op("running"), Op("sync"), Op("dispatch")>>
First6 == <<Op("running"), Op("sync"), Op("dispatch")>>
First7 == <<Op("sync"), Op("dispatch")>>
Other2 == <<Op("coproc"), Op("assert"), Op("ipis"), Op("tick"), Op("running"), Op("dispatch")>>
Other3 == <<Op("assert"), Op("ipis"), Op("tick"), Op("running"), Op("dispatch")>>
Other4 == <<Op("ipis"), Op("tick"), Op("running"), Op("dispatch")>>
Other5 == <<Op("tick"), Op("running"), Op("dispatch")>>
Other6 == <<Op("running"), Op("dispatch")>>
Starts == <<Op("dispatch")>>

-----------------------------------------------------------------------------
(* The inductive invariant                                                 *)

Types ==
  /\ port_xSchedulerRunning \in BOOLEAN /\ xt_smp_sync \in BOOLEAN
  /\ xt_intenable \in [Cores -> SUBSET Interrupts]
  /\ \A c \in Cores : Devices[c] \subseteq handlers /\ xt_intenable[c] \subseteq handlers
  /\ owner \in [Mutexes -> {0} \cup {Id(c) : c \in Cores}]
  /\ count \in [Mutexes -> Nat]
  /\ inside \in [Cores -> {"test", "take", "count", "free"}]
  /\ DOMAIN todo = Cores
  /\ depth \in [Cores -> Nat]
  /\ suspended \subseteq Cores
  /\ hand \in [Cores -> Seq([n : Nat, ran : BOOLEAN])]
  /\ port_interruptNesting \in [Cores -> Nat]
  /\ pxCurrentTCBs \in [Cores -> Tasks]
  /\ frames \subseteq Tasks

\* Core c has stored m's owner, and the count still has to follow or is 0.
Amid(c, m) == inside[c] \in {"count", "free"} /\ M(c) = m

\* How far a core is in a call agrees with the owner that it finds, and a mutex
\* with an owner is counted.
MutexInv(c) ==
  /\ inside[c] \in {"take", "count"} => Does(c, "lock")
  /\ inside[c] = "free" => Does(c, "unlock")
  /\ \A m \in Mutexes :
       /\ inside[c] = "take" /\ M(c) = m => owner[m] # Id(c)
       /\ Amid(c, m) => owner[m] = Id(c)
       /\ Amid(c, m) /\ inside[c] = "free" => count[m] = 0
       /\ owner[m] = Id(c) /\ ~Amid(c, m) => count[m] # 0

\* The calls that core c has returned from: xt_mutex_lock less xt_mutex_unlock.
Held(c, m) ==
  IF owner[m] # Id(c) \/ (Amid(c, m) /\ inside[c] = "count") THEN 0
  ELSE IF Amid(c, m) THEN 1 ELSE count[m]

\* Core c is at point p, with the task mutex held t times apart from the time
\* that vTaskSuspendAll holds it, and the ISR mutex i times.
At(c, p, t, i) ==
  /\ todo[c] = p
  /\ Held(c, TASK) = (IF c \in suspended THEN t + 1 ELSE t)
  /\ Held(c, ISR) = i

\* A section that a handler has does not take the task mutex.
OwnTask(c) == IF hand[c] = <<>> THEN 1 ELSE 0

Stored(c) == pxCurrentTCBs[c] \in frames

\* The core runs its task, or handlers above it, or a section of one of them.
Working(c) ==
  /\ \/ At(c, <<>>, 0, 0) /\ depth[c] = 0
     \/ At(c, EnterIsr, OwnTask(c), 0) /\ depth[c] = 0
     \/ At(c, Deepen, OwnTask(c), 1)
     \/ At(c, Kernel, OwnTask(c), 1) /\ depth[c] > 0
     \/ At(c, LeaveInner, OwnTask(c), 1) /\ depth[c] > 1
     \/ At(c, LeaveIsr, 0, 1) /\ depth[c] = 1 /\ hand[c] # <<>>
     \/ At(c, LastIsr, 0, 1) /\ depth[c] = 0
  /\ Stored(c) <=> hand[c] # <<>>

\* ... a section of its task, where it differs from a handler's
TaskSection(c) ==
  /\ \/ At(c, EnterTask, 0, 0) /\ depth[c] = 0
     \/ At(c, LeaveTask1, 1, 1) /\ depth[c] = 1
     \/ At(c, LeaveTask2, 1, 1) /\ depth[c] = 0
     \/ At(c, LeaveTask3, 1, 0) /\ depth[c] = 0
     \/ At(c, LeaveTask4, 0, 0) /\ depth[c] = 0
  /\ hand[c] = <<>> /\ ~Stored(c)

\* ... vTaskSuspendAll or xTaskResumeAll
Suspending(c) ==
  /\ \/ /\ c \notin suspended
        /\ \/ At(c, Suspend1, 0, 0) /\ depth[c] = 0
           \/ At(c, Suspend2, 1, 0) /\ depth[c] = 0
           \/ At(c, Suspend3, 1, 1) /\ depth[c] = 0
           \/ At(c, Resume5, 2, 1) /\ depth[c] = 1
     \/ /\ c \in suspended
        /\ \/ At(c, Resume1, 0, 0) /\ depth[c] = 0
           \/ At(c, Resume2, 1, 0) /\ depth[c] = 0
           \/ At(c, Resume3, 1, 1) /\ depth[c] = 0
           \/ At(c, Resume4, 1, 1) /\ depth[c] = 1
  /\ hand[c] = <<>> /\ ~Stored(c)

\* ... the dispatcher
Switching(c) ==
  /\ \/ At(c, Switch, 0, 0)
     \/ At(c, Switch2, 1, 0)
     \/ At(c, Switch3, 1, 1)
     \/ At(c, Switch4, 1, 1)
     \/ At(c, Switch5, 1, 0)
     \/ At(c, Switch6, 0, 0)
  /\ depth[c] = 0 /\ hand[c] = <<>> /\ Stored(c)

\* The core has enabled the requests of all others.
Requested(c) == Cores \ {c} \subseteq xt_intenable[c]

\* Core 0 starts before the others, and until it has set xt_smp_sync these wait.
StartingFirst(c) ==
  /\ c = 0 /\ ~xt_smp_sync
  /\ \/ todo[c] = StartFirst /\ ~port_xSchedulerRunning
     \/ todo[c] \in {First2, First3, First4} /\ ~port_xSchedulerRunning /\ hand[c] = <<>>
     \/ todo[c] \in {First5, First6} /\ ~port_xSchedulerRunning /\ hand[c] = <<>> /\ Requested(c)
     \/ todo[c] = First7 /\ port_xSchedulerRunning /\ hand[c] = <<>> /\ Requested(c)

StartingOther(c) ==
  /\ c # 0 /\ hand[c] = <<>>
  /\ \/ todo[c] = StartOther
     \/ /\ port_xSchedulerRunning /\ xt_smp_sync
        /\ \/ todo[c] \in {Other2, Other3, Other4}
           \/ todo[c] \in {Other5, Other6} /\ Requested(c)

\* The point at which either start ends.
Started(c) ==
  /\ todo[c] = Starts /\ hand[c] = <<>>
  /\ port_xSchedulerRunning /\ xt_smp_sync /\ Requested(c)

Starting(c) ==
  /\ StartingFirst(c) \/ StartingOther(c) \/ Started(c)
  /\ \A m \in Mutexes : Held(c, m) = 0
  /\ c \notin suspended /\ depth[c] = 0 /\ Stored(c)

Serving(c) ==
  /\ port_xSchedulerRunning /\ xt_smp_sync /\ Requested(c)
  /\ Working(c) \/ TaskSection(c) \/ Suspending(c) \/ Switching(c)

Outline(c) == Starting(c) \/ Serving(c)

Distinct == \A c, d \in Cores : pxCurrentTCBs[c] = pxCurrentTCBs[d] => c = d

\* A task that no core has keeps its frame.
Kept == \A t \in Tasks : (\A c \in Cores : pxCurrentTCBs[c] # t) => t \in frames

IInv ==
  /\ Types /\ Distinct /\ Kept /\ NestingMatches
  /\ \A c \in Cores : MutexInv(c) /\ Outline(c)
-----------------------------------------------------------------------------
(* Where each step leads                                                    *)

\* The first step of a list, with the mutex it is on, and what is left after it.
Begins(p, d) == p # <<>> /\ Head(p).do = d
Calls(p, d, m) == Begins(p, d) /\ Head(p).on = m

LEMMA SectionPoints ==
  /\ Calls(EnterTask, "lock", TASK) /\ Tail(EnterTask) = EnterIsr
  /\ Calls(EnterIsr, "lock", ISR) /\ Tail(EnterIsr) = Deepen
  /\ Begins(Deepen, "deeper") /\ Tail(Deepen) = Kernel
  /\ Begins(Kernel, "kernel")
  /\ Begins(LeaveInner, "shallower") /\ Tail(LeaveInner) = Kernel
  /\ Begins(LeaveTask1, "shallower") /\ Tail(LeaveTask1) = LeaveTask2
  /\ Calls(LeaveTask2, "unlock", ISR) /\ Tail(LeaveTask2) = LeaveTask3
  /\ Calls(LeaveTask3, "unlock", TASK) /\ Tail(LeaveTask3) = LeaveTask4
  /\ Begins(LeaveTask4, "unmask") /\ Tail(LeaveTask4) = <<>>
  /\ Begins(LeaveIsr, "shallower") /\ Tail(LeaveIsr) = LastIsr
  /\ Calls(LastIsr, "unlock", ISR) /\ Tail(LastIsr) = <<>>
BY DEF Begins, Calls, Op, On, LT, LI, UT, UI,
       EnterTask, EnterIsr, Deepen, Kernel, LeaveInner, LeaveTask1, LeaveTask2, LeaveTask3, LeaveTask4, LeaveIsr, LastIsr

LEMMA SuspendPoints ==
  /\ Calls(Suspend1, "lock", TASK) /\ Tail(Suspend1) = Suspend2
  /\ Calls(Suspend2, "lock", ISR) /\ Tail(Suspend2) = Suspend3
  /\ Begins(Suspend3, "suspend") /\ Tail(Suspend3) = LastIsr
  /\ Calls(Resume1, "lock", TASK) /\ Tail(Resume1) = Resume2
  /\ Calls(Resume2, "lock", ISR) /\ Tail(Resume2) = Resume3
  /\ Begins(Resume3, "deeper") /\ Tail(Resume3) = Resume4
  /\ Begins(Resume4, "resume") /\ Tail(Resume4) = Resume5
  /\ Calls(Resume5, "unlock", TASK) /\ Tail(Resume5) = LeaveTask1
BY DEF Begins, Calls, Op, On, LT, LI, UT, UI,
       Suspend1, Suspend2, Suspend3, Resume1, Resume2, Resume3, Resume4, Resume5, LastIsr, LeaveTask1

LEMMA SwitchPoints ==
  /\ Calls(Switch, "lock", TASK) /\ Tail(Switch) = Switch2
  /\ Calls(Switch2, "lock", ISR) /\ Tail(Switch2) = Switch3
  /\ Begins(Switch3, "select") /\ Tail(Switch3) = Switch4
  /\ Calls(Switch4, "unlock", ISR) /\ Tail(Switch4) = Switch5
  /\ Calls(Switch5, "unlock", TASK) /\ Tail(Switch5) = Switch6
  /\ Begins(Switch6, "restore") /\ Tail(Switch6) = <<>>
BY DEF Begins, Calls, Op, On, LT, LI, UT, UI,
       Switch, Switch2, Switch3, Switch4, Switch5, Switch6

LEMMA StartPoints ==
  /\ Begins(StartFirst, "main") /\ Tail(StartFirst) = First2
  /\ Begins(First2, "coproc") /\ Tail(First2) = First3
  /\ Begins(First3, "mutexes") /\ Tail(First3) = First4
  /\ Begins(First4, "ipis") /\ Tail(First4) = First5
  /\ Begins(First5, "tick") /\ Tail(First5) = First6
  /\ Begins(First6, "running") /\ Tail(First6) = First7
  /\ Begins(First7, "sync") /\ Tail(First7) = Starts
  /\ Begins(StartOther, "wait") /\ Tail(StartOther) = Other2
  /\ Begins(Other2, "coproc") /\ Tail(Other2) = Other3
  /\ Begins(Other3, "assert") /\ Tail(Other3) = Other4
  /\ Begins(Other4, "ipis") /\ Tail(Other4) = Other5
  /\ Begins(Other5, "tick") /\ Tail(Other5) = Other6
  /\ Begins(Other6, "running") /\ Tail(Other6) = Starts
  /\ Begins(Starts, "dispatch")
BY DEF Begins, Calls, Op, On, LT, LI, UT, UI,
       StartFirst, First2, First3, First4, First5, First6, First7, StartOther, Other2, Other3, Other4, Other5, Other6, Starts

-----------------------------------------------------------------------------
(* The cores that a step is not of                                         *)

\* All that the outline of core d says of d itself is as before.
Still(d) ==
  /\ todo'[d] = todo[d] /\ depth'[d] = depth[d]
  /\ hand'[d] = <<>> <=> hand[d] = <<>>
  /\ d \in suspended' <=> d \in suspended
  /\ Stored(d)' <=> Stored(d)
  /\ \A m \in Mutexes : Held(d, m)' = Held(d, m)

LEMMA StillOutline ==
  ASSUME NEW d \in Cores, Outline(d), Still(d), Requested(d) => Requested(d)',
         UNCHANGED <<port_xSchedulerRunning, xt_smp_sync>>
  PROVE  Outline(d)'
<1>1. \A p, t, i : At(d, p, t, i)' <=> At(d, p, t, i)
  BY DEF Still, At, Mutexes
<1>2. OwnTask(d)' = OwnTask(d)
  BY DEF Still, OwnTask
<1>3. Working(d) => Working(d)'
  BY <1>1, <1>2 DEF Working, Still
<1>4. TaskSection(d) => TaskSection(d)'
  BY <1>1 DEF TaskSection, Still
<1>5. Suspending(d) => Suspending(d)'
  BY <1>1 DEF Suspending, Still
<1>6. Switching(d) => Switching(d)'
  BY <1>1 DEF Switching, Still
<1>7. Starting(d) => Starting(d)'
  BY DEF Starting, StartingFirst, StartingOther, Started, Still
<1>8. QED
  BY <1>3, <1>4, <1>5, <1>6, <1>7 DEF Outline, Serving

\* What core d finds of the mutexes when it has them or looks for its own id.
Untouched(d) ==
  \A m \in Mutexes :
    /\ owner'[m] = Id(d) <=> owner[m] = Id(d)
    /\ owner[m] = Id(d) => count'[m] = count[m]

LEMMA UntouchedMutexes ==
  ASSUME NEW d \in Cores, MutexInv(d), Untouched(d),
         todo'[d] = todo[d], inside'[d] = inside[d]
  PROVE  MutexInv(d)' /\ \A m \in Mutexes : Held(d, m)' = Held(d, m)
<1>1. /\ \A m \in Mutexes : Amid(d, m)' <=> Amid(d, m)
      /\ Does(d, "lock")' <=> Does(d, "lock")
      /\ Does(d, "unlock")' <=> Does(d, "unlock")
      /\ M(d)' = M(d)
  BY DEF Amid, M, Does, Left
<1>2. MutexInv(d)'
  BY <1>1 DEF MutexInv, Untouched
<1>3. \A m \in Mutexes : Held(d, m)' = Held(d, m)
  BY <1>1 DEF Held, Untouched
<1>4. QED
  BY <1>2, <1>3

\* A core that makes no call is in none, and its other steps leave the mutexes
\* as they are.
LEMMA OutsideCalls ==
  ASSUME NEW c \in Cores, inside \in [Cores -> {"test", "take", "count", "free"}],
         MutexInv(c), ~Does(c, "lock"), ~Does(c, "unlock")
  PROVE  inside[c] = "test"
BY DEF MutexInv

LEMMA OutsideMutexes ==
  ASSUME NEW c \in Cores, MutexInv(c), inside[c] = "test", UNCHANGED mutexes
  PROVE  MutexInv(c)' /\ \A m \in Mutexes : Held(c, m)' = Held(c, m)
BY DEF MutexInv, Held, Amid, mutexes

-----------------------------------------------------------------------------
(* The mutexes                                                             *)

LEMMA AtPoint == \A c, p, t, i : At(c, p, t, i) => todo[c] = p
BY DEF At

\* The rest of what core c does stays as it is when it returns from a call.
Returned(c) ==
  /\ todo'[c] = Tail(todo[c]) /\ hand'[c] = hand[c] /\ depth'[c] = depth[c]
  /\ c \in suspended' <=> c \in suspended
  /\ Stored(c)' <=> Stored(c)
  /\ Requested(c)' <=> Requested(c)
  /\ UNCHANGED <<port_xSchedulerRunning, xt_smp_sync>>

\* A core that starts makes no step of the kernel.
StartSteps == {"main", "wait", "coproc", "assert", "mutexes", "ipis", "tick", "running",
               "sync", "dispatch"}

LEMMA StartHead ==
  ASSUME NEW c \in Cores, Starting(c)
  PROVE  Left(c) /\ Head(todo[c]).do \in StartSteps
<1>1. \A p \in {StartFirst, First2, First3, First4, First5, First6, First7} :
        p # <<>> /\ Head(p).do \in StartSteps
  BY StartPoints, SMTT(30) DEF Begins, StartSteps
<1>2. \A p \in {StartOther, Other2, Other3, Other4, Other5, Other6, Starts} :
        p # <<>> /\ Head(p).do \in StartSteps
  BY StartPoints, SMTT(30) DEF Begins, StartSteps
<1>3. \/ todo[c] \in {StartFirst, First2, First3, First4, First5, First6, First7}
      \/ todo[c] \in {StartOther, Other2, Other3, Other4, Other5, Other6, Starts}
  BY DEF Starting, StartingFirst, StartingOther, Started
<1>4. QED
  BY <1>1, <1>2, <1>3 DEF Left

\* The calls of xt_mutex_lock, where the core does not have the mutex too often.
LEMMA LockRows ==
  ASSUME NEW c \in Cores, Outline(c), Does(c, "lock")
  PROVE  /\ Serving(c) /\ M(c) \in Mutexes
         /\ \/ Working(c) /\ At(c, EnterIsr, OwnTask(c), 0) /\ depth[c] = 0
            \/ TaskSection(c) /\ At(c, EnterTask, 0, 0) /\ depth[c] = 0
            \/ /\ Suspending(c) /\ depth[c] = 0
               /\ \/ At(c, Suspend1, 0, 0) /\ c \notin suspended
                  \/ At(c, Suspend2, 1, 0) /\ c \notin suspended
                  \/ At(c, Resume1, 0, 0) /\ c \in suspended
                  \/ At(c, Resume2, 1, 0) /\ c \in suspended
            \/ Switching(c) /\ (At(c, Switch, 0, 0) \/ At(c, Switch2, 1, 0))
<1> USE AtPoint DEF Begins, Calls, Does, Left
<1>1. ~Starting(c)
  BY StartHead DEF StartSteps
<1>2. Working(c) => At(c, EnterIsr, OwnTask(c), 0) /\ depth[c] = 0
  BY SectionPoints DEF Working
<1>3. TaskSection(c) => At(c, EnterTask, 0, 0) /\ depth[c] = 0
  BY SectionPoints DEF TaskSection
<1>4. Suspending(c) =>
        /\ depth[c] = 0
        /\ \/ At(c, Suspend1, 0, 0) /\ c \notin suspended
           \/ At(c, Suspend2, 1, 0) /\ c \notin suspended
           \/ At(c, Resume1, 0, 0) /\ c \in suspended
           \/ At(c, Resume2, 1, 0) /\ c \in suspended
  BY SuspendPoints DEF Suspending
<1>5. Switching(c) => At(c, Switch, 0, 0) \/ At(c, Switch2, 1, 0)
  BY SwitchPoints DEF Switching
<1>6. Working(c) \/ TaskSection(c) => M(c) \in Mutexes
  BY <1>2, <1>3, SectionPoints DEF M, Mutexes
<1>7. Suspending(c) => M(c) \in Mutexes
  BY <1>4, SuspendPoints DEF M, Mutexes
<1>8. Switching(c) => M(c) \in Mutexes
  BY <1>5, SwitchPoints DEF M, Mutexes
<1>9. QED
  BY <1>1, <1>2, <1>3, <1>4, <1>5, <1>6, <1>7, <1>8 DEF Outline, Serving

LEMMA UnlockRows ==
  ASSUME NEW c \in Cores, Outline(c), Does(c, "unlock")
  PROVE  /\ Serving(c) /\ M(c) \in Mutexes
         /\ \/ Working(c) /\ At(c, LastIsr, 0, 1) /\ depth[c] = 0
            \/ /\ TaskSection(c) /\ depth[c] = 0
               /\ At(c, LeaveTask2, 1, 1) \/ At(c, LeaveTask3, 1, 0)
            \/ Suspending(c) /\ At(c, Resume5, 2, 1) /\ depth[c] = 1 /\ c \notin suspended
            \/ Switching(c) /\ (At(c, Switch4, 1, 1) \/ At(c, Switch5, 1, 0))
<1> USE AtPoint DEF Begins, Calls, Does, Left
<1>1. ~Starting(c)
  BY StartHead DEF StartSteps
<1>2. Working(c) => At(c, LastIsr, 0, 1) /\ depth[c] = 0
  BY SectionPoints DEF Working
<1>3. TaskSection(c) =>
        depth[c] = 0 /\ (At(c, LeaveTask2, 1, 1) \/ At(c, LeaveTask3, 1, 0))
  BY SectionPoints DEF TaskSection
<1>4. Suspending(c) => At(c, Resume5, 2, 1) /\ depth[c] = 1 /\ c \notin suspended
  BY SuspendPoints DEF Suspending
<1>5. Switching(c) => At(c, Switch4, 1, 1) \/ At(c, Switch5, 1, 0)
  BY SwitchPoints DEF Switching
<1>6. Working(c) \/ TaskSection(c) => M(c) \in Mutexes
  BY <1>2, <1>3, SectionPoints DEF M, Mutexes
<1>7. Suspending(c) => M(c) \in Mutexes
  BY <1>4, SuspendPoints DEF M, Mutexes
<1>8. Switching(c) => M(c) \in Mutexes
  BY <1>5, SwitchPoints DEF M, Mutexes
<1>9. QED
  BY <1>1, <1>2, <1>3, <1>4, <1>5, <1>6, <1>7, <1>8 DEF Outline, Serving

\* No core gives back what it does not have: xt_mutex_unlock never fails.
LEMMA UnlockHeld ==
  ASSUME NEW c \in Cores, Outline(c), Does(c, "unlock")
  PROVE  Held(c, M(c)) \in Nat \ {0}
<1>1. CASE At(c, LastIsr, 0, 1)
  BY <1>1, SectionPoints, SMTT(30) DEF At, Calls, Begins, M, Mutexes, TASK, ISR
<1>2. CASE At(c, LeaveTask2, 1, 1)
  BY <1>2, SectionPoints, SMTT(30) DEF At, Calls, Begins, M, Mutexes, TASK, ISR
<1>3. CASE At(c, LeaveTask3, 1, 0)
  BY <1>3, SectionPoints, SMTT(30) DEF At, Calls, Begins, M, Mutexes, TASK, ISR
<1>4. CASE At(c, Resume5, 2, 1)
  BY <1>4, SuspendPoints, SMTT(30) DEF At, Calls, Begins, M, Mutexes, TASK, ISR
<1>5. CASE At(c, Switch4, 1, 1)
  BY <1>5, SwitchPoints, SMTT(30) DEF At, Calls, Begins, M, Mutexes, TASK, ISR
<1>6. CASE At(c, Switch5, 1, 0)
  BY <1>6, SwitchPoints, SMTT(30) DEF At, Calls, Begins, M, Mutexes, TASK, ISR
<1>7. QED
  BY <1>1, <1>2, <1>3, <1>4, <1>5, <1>6, UnlockRows

\* The core has each mutex as often as before, apart from the one of the call.
Gains(c) == \A m \in Mutexes : Held(c, m)' = IF m = M(c) THEN Held(c, m) + 1 ELSE Held(c, m)
Loses(c) == \A m \in Mutexes : Held(c, m)' = IF m = M(c) THEN Held(c, m) - 1 ELSE Held(c, m)

LEMMA LockReturns ==
  ASSUME NEW c \in Cores, Outline(c), Does(c, "lock"), Returned(c), Gains(c)
  PROVE  Outline(c)'
<1>o. OwnTask(c) \in Nat /\ OwnTask(c)' = OwnTask(c)
  BY DEF OwnTask, Returned
<1>s. Serving(c) /\ (Working(c)' \/ TaskSection(c)' \/ Suspending(c)' \/ Switching(c)' => Serving(c)')
  BY LockRows DEF Serving, Returned
<1>1. CASE Working(c) /\ At(c, EnterIsr, OwnTask(c), 0) /\ depth[c] = 0
  <2>1. At(c, Deepen, OwnTask(c), 1)'
    BY <1>o, <1>1, SectionPoints, SMTT(30)
       DEF At, Calls, Begins, M, Returned, Mutexes, TASK, ISR, Gains, Loses
  <2>2. Working(c)'
    BY <1>1, <2>1 DEF Working, Returned
  <2>3. QED
    BY <1>s, <2>2 DEF Outline
<1>2. CASE TaskSection(c) /\ At(c, EnterTask, 0, 0) /\ depth[c] = 0
  <2>1. At(c, EnterIsr, 1, 0)'
    BY <1>2, SectionPoints, SMTT(30)
       DEF At, Calls, Begins, M, Returned, Mutexes, TASK, ISR, Gains, Loses
  <2>2. OwnTask(c)' = 1 /\ hand'[c] = <<>> /\ ~Stored(c)' /\ depth'[c] = 0
    BY <1>2 DEF TaskSection, OwnTask, Returned
  <2>3. Working(c)'
    BY <2>1, <2>2 DEF Working
  <2>4. QED
    BY <1>s, <2>3 DEF Outline
<1>3. CASE /\ Suspending(c) /\ depth[c] = 0
           /\ \/ At(c, Suspend1, 0, 0) /\ c \notin suspended
              \/ At(c, Suspend2, 1, 0) /\ c \notin suspended
              \/ At(c, Resume1, 0, 0) /\ c \in suspended
              \/ At(c, Resume2, 1, 0) /\ c \in suspended
  <2>1. At(c, Suspend1, 0, 0) => At(c, Suspend2, 1, 0)'
    BY SuspendPoints, SMTT(30)
       DEF At, Calls, Begins, M, Returned, Mutexes, TASK, ISR, Gains, Loses
  <2>2. At(c, Suspend2, 1, 0) => At(c, Suspend3, 1, 1)'
    BY SuspendPoints, SMTT(30)
       DEF At, Calls, Begins, M, Returned, Mutexes, TASK, ISR, Gains, Loses
  <2>3. At(c, Resume1, 0, 0) => At(c, Resume2, 1, 0)'
    BY SuspendPoints, SMTT(30)
       DEF At, Calls, Begins, M, Returned, Mutexes, TASK, ISR, Gains, Loses
  <2>4. At(c, Resume2, 1, 0) => At(c, Resume3, 1, 1)'
    BY SuspendPoints, SMTT(30)
       DEF At, Calls, Begins, M, Returned, Mutexes, TASK, ISR, Gains, Loses
  <2>5. Suspending(c)'
    BY <1>3, <2>1, <2>2, <2>3, <2>4 DEF Suspending, Returned
  <2>6. QED
    BY <1>s, <2>5 DEF Outline
<1>4. CASE Switching(c) /\ (At(c, Switch, 0, 0) \/ At(c, Switch2, 1, 0))
  <2>1. At(c, Switch, 0, 0) => At(c, Switch2, 1, 0)'
    BY SwitchPoints, SMTT(30)
       DEF At, Calls, Begins, M, Returned, Mutexes, TASK, ISR, Gains, Loses
  <2>2. At(c, Switch2, 1, 0) => At(c, Switch3, 1, 1)'
    BY SwitchPoints, SMTT(30)
       DEF At, Calls, Begins, M, Returned, Mutexes, TASK, ISR, Gains, Loses
  <2>3. Switching(c)'
    BY <1>4, <2>1, <2>2 DEF Switching, Returned
  <2>4. QED
    BY <1>s, <2>3 DEF Outline
<1>5. QED
  BY <1>1, <1>2, <1>3, <1>4, LockRows

LEMMA UnlockReturns ==
  ASSUME NEW c \in Cores, Outline(c), Does(c, "unlock"), Returned(c), Loses(c)
  PROVE  Outline(c)'
<1>s. Serving(c) /\ (Working(c)' \/ TaskSection(c)' \/ Suspending(c)' \/ Switching(c)' => Serving(c)')
  BY UnlockRows DEF Serving, Returned
<1>1. CASE Working(c) /\ At(c, LastIsr, 0, 1) /\ depth[c] = 0
  <2>1. At(c, <<>>, 0, 0)'
    BY <1>1, SectionPoints, SMTT(30)
       DEF At, Calls, Begins, M, Returned, Mutexes, TASK, ISR, Gains, Loses
  <2>2. Working(c)'
    BY <1>1, <2>1 DEF Working, Returned
  <2>3. QED
    BY <1>s, <2>2 DEF Outline
<1>2. CASE /\ TaskSection(c) /\ depth[c] = 0
           /\ At(c, LeaveTask2, 1, 1) \/ At(c, LeaveTask3, 1, 0)
  <2>1. At(c, LeaveTask2, 1, 1) => At(c, LeaveTask3, 1, 0)'
    BY SectionPoints, SMTT(30)
       DEF At, Calls, Begins, M, Returned, Mutexes, TASK, ISR, Gains, Loses
  <2>2. At(c, LeaveTask3, 1, 0) => At(c, LeaveTask4, 0, 0)'
    BY SectionPoints, SMTT(30)
       DEF At, Calls, Begins, M, Returned, Mutexes, TASK, ISR, Gains, Loses
  <2>3. TaskSection(c)'
    BY <1>2, <2>1, <2>2 DEF TaskSection, Returned
  <2>4. QED
    BY <1>s, <2>3 DEF Outline
<1>3. CASE Suspending(c) /\ At(c, Resume5, 2, 1) /\ depth[c] = 1
  <2>1. At(c, LeaveTask1, 1, 1)'
    BY <1>3, SuspendPoints, SMTT(30)
       DEF At, Calls, Begins, M, Returned, Mutexes, TASK, ISR, Gains, Loses
  <2>2. TaskSection(c)'
    BY <1>3, <2>1 DEF Suspending, TaskSection, Returned
  <2>3. QED
    BY <1>s, <2>2 DEF Outline
<1>4. CASE Switching(c) /\ (At(c, Switch4, 1, 1) \/ At(c, Switch5, 1, 0))
  <2>1. At(c, Switch4, 1, 1) => At(c, Switch5, 1, 0)'
    BY SwitchPoints, SMTT(30)
       DEF At, Calls, Begins, M, Returned, Mutexes, TASK, ISR, Gains, Loses
  <2>2. At(c, Switch5, 1, 0) => At(c, Switch6, 0, 0)'
    BY SwitchPoints, SMTT(30)
       DEF At, Calls, Begins, M, Returned, Mutexes, TASK, ISR, Gains, Loses
  <2>3. Switching(c)'
    BY <1>4, <2>1, <2>2 DEF Switching, Returned
  <2>4. QED
    BY <1>s, <2>3 DEF Outline
<1>5. QED
  BY <1>1, <1>2, <1>3, <1>4, UnlockRows

-----------------------------------------------------------------------------
(* The accesses to a mutex                                                 *)

\* Core c stores its own id or 0 over the other, and counts what it has.
Access(c) ==
  /\ MutexStep
  /\ \A d \in Cores \ {c} : Untouched(d) /\ todo'[d] = todo[d] /\ inside'[d] = inside[d]

LEMMA AccessOutlines ==
  ASSUME IInv, NEW c \in Cores, Access(c)
  PROVE  /\ \A d \in Cores \ {c} : MutexInv(d)' /\ Outline(d)'
         /\ Distinct' /\ Kept' /\ NestingMatches'
<1>1. ASSUME NEW d \in Cores \ {c} PROVE MutexInv(d)' /\ Outline(d)'
  <2>1. MutexInv(d)' /\ \A m \in Mutexes : Held(d, m)' = Held(d, m)
    BY UntouchedMutexes DEF Access, IInv
  <2>2. Still(d) /\ Requested(d)' = Requested(d) /\ UNCHANGED <<port_xSchedulerRunning, xt_smp_sync>>
    BY <2>1 DEF Access, MutexStep, start, kernel, ints, tasks, Still, Stored, Requested
  <2>3. QED
    BY <2>1, <2>2, StillOutline DEF IInv
<1>2. Distinct' /\ Kept' /\ NestingMatches'
  BY DEF IInv, Access, MutexStep, start, ints, tasks, Distinct, Kept, NestingMatches
<1>3. QED
  BY <1>1, <1>2

LEMMA CoreIds == ASSUME NEW c \in Cores, NEW d \in Cores
                 PROVE  Id(c) # 0 /\ (Id(c) = Id(d) => c = d)
BY XtSmpAssumption DEF Id

LEMMA LockTestKeeps ==
  ASSUME IInv, NEW c \in Cores, LockTest(c) PROVE IInv'
<1> DEFINE m == M(c)
<1>1. m \in Mutexes /\ Does(c, "lock") /\ inside[c] = "test"
  BY LockRows DEF IInv, LockTest, In
<1>2. Access(c)
  BY <1>1, CoreIds DEF LockTest, Access, Untouched, Count, Returns, To, Done, Goes, IInv, Types
<1>3. CASE owner[m] = Id(c)
  <2>1. /\ count' = [count EXCEPT ![m] = count[m] + 1] /\ UNCHANGED owner
        /\ inside' = [inside EXCEPT ![c] = "test"]
        /\ todo' = [todo EXCEPT ![c] = Tail(todo[c])]
    BY <1>3 DEF LockTest, Count, Returns, Done, Goes
  <2>2. MutexInv(c)'
    BY <1>1, <2>1 DEF IInv, Types, MutexInv, Amid
  <2>3. Gains(c)
    BY <1>1, <1>3, <2>1 DEF IInv, Types, Gains, Held, Amid
  <2>4. Returned(c)
    BY <2>1
       DEF IInv, Types, LockTest, MutexStep, Returned, start, kernel, ints, tasks, Stored,
           Requested
  <2>5. Outline(c)'
    BY <1>1, <2>3, <2>4, LockReturns DEF IInv
  <2>6. Types'
    BY <1>1, <2>1 DEF IInv, Types, LockTest, MutexStep, start, kernel, ints, tasks
  <2>7. QED
    BY <1>2, <2>2, <2>5, <2>6, AccessOutlines DEF IInv
<1>4. CASE owner[m] # Id(c)
  <2>1. /\ UNCHANGED <<owner, count, todo>>
        /\ inside' = [inside EXCEPT ![c] = "take"]
    BY <1>4 DEF LockTest, To
  <2>2. MutexInv(c)'
    BY <1>1, <1>4, <2>1 DEF IInv, Types, MutexInv, Amid, M, Does, Left
  <2>3. \A n \in Mutexes : Held(c, n)' = Held(c, n)
    BY <1>1, <1>4, <2>1 DEF IInv, Types, Held, Amid, M
  <2>4. Outline(c)'
    BY <2>1, <2>3, StillOutline
       DEF IInv, LockTest, MutexStep, Still, start, kernel, ints, tasks, Stored, Requested
  <2>5. Types'
    BY <2>1 DEF IInv, Types, LockTest, MutexStep, start, kernel, ints, tasks
  <2>6. QED
    BY <1>2, <2>2, <2>4, <2>5, AccessOutlines DEF IInv
<1>5. QED
  BY <1>3, <1>4

LEMMA TakeKeeps ==
  ASSUME IInv, NEW c \in Cores, Take(c) PROVE IInv'
<1> DEFINE m == M(c)
<1>1. /\ m \in Mutexes /\ Does(c, "lock") /\ inside[c] = "take" /\ owner[m] = 0
      /\ owner' = [owner EXCEPT ![m] = Id(c)] /\ inside' = [inside EXCEPT ![c] = "count"]
      /\ UNCHANGED <<count, todo>>
  BY LockRows DEF IInv, Take, In, Own, To
<1>2. Access(c)
  BY <1>1, CoreIds DEF Take, Access, Untouched, IInv, Types
<1>3. MutexInv(c)'
  BY <1>1 DEF IInv, Types, MutexInv, Amid, M, Does, Left
<1>4. \A n \in Mutexes : Held(c, n)' = Held(c, n)
  BY <1>1, CoreIds DEF IInv, Types, Held, Amid, M
<1>5. Outline(c)'
  BY <1>1, <1>4, StillOutline
     DEF IInv, Take, MutexStep, Still, start, kernel, ints, tasks, Stored, Requested
<1>6. Types'
  BY <1>1 DEF IInv, Types, Take, MutexStep, start, kernel, ints, tasks
<1>7. QED
  BY <1>2, <1>3, <1>5, <1>6, AccessOutlines DEF IInv

LEMMA SetCountKeeps ==
  ASSUME IInv, NEW c \in Cores, SetCount(c) PROVE IInv'
<1> DEFINE m == M(c)
<1>1. /\ m \in Mutexes /\ Does(c, "lock") /\ inside[c] = "count"
      /\ count' = [count EXCEPT ![m] = 1] /\ inside' = [inside EXCEPT ![c] = "test"]
      /\ todo' = [todo EXCEPT ![c] = Tail(todo[c])] /\ UNCHANGED owner
  BY LockRows DEF IInv, SetCount, In, Count, Returns, Done, Goes
<1>2. owner[m] = Id(c)
  BY <1>1 DEF IInv, MutexInv, Amid
<1>3. Access(c)
  BY <1>1, <1>2, CoreIds DEF SetCount, Access, Untouched, IInv, Types
<1>4. MutexInv(c)'
  BY <1>1 DEF IInv, Types, MutexInv, Amid
<1>5. Gains(c)
  BY <1>1, <1>2 DEF IInv, Types, Gains, Held, Amid
<1>6. Returned(c)
  BY <1>1
     DEF IInv, Types, SetCount, MutexStep, Returned, start, kernel, ints, tasks, Stored,
         Requested
<1>7. Outline(c)'
  BY <1>1, <1>5, <1>6, LockReturns DEF IInv
<1>8. Types'
  BY <1>1 DEF IInv, Types, SetCount, MutexStep, start, kernel, ints, tasks
<1>9. QED
  BY <1>3, <1>4, <1>7, <1>8, AccessOutlines DEF IInv

LEMMA UnlockKeeps ==
  ASSUME IInv, NEW c \in Cores, xt_mutex_unlock(c) PROVE IInv'
<1> DEFINE m == M(c)
<1>1. /\ m \in Mutexes /\ Does(c, "unlock") /\ inside[c] = "test"
      /\ owner[m] = Id(c) /\ count[m] \in Nat \ {0}
  <2>1. m \in Mutexes /\ Does(c, "unlock") /\ inside[c] = "test" /\ Held(c, m) \in Nat \ {0}
    BY UnlockRows, UnlockHeld DEF IInv, xt_mutex_unlock, In
  <2>2. QED
    BY <2>1 DEF Held, Amid
<1>2. count' = [count EXCEPT ![m] = count[m] - 1] /\ UNCHANGED owner
  BY <1>1 DEF xt_mutex_unlock, Count
<1>3. Access(c)
  BY <1>1, CoreIds
     DEF xt_mutex_unlock, Access, Untouched, Count, Returns, To, Done, Goes, IInv, Types
<1>4. CASE count[m] = 1
  <2>1. UNCHANGED todo /\ inside' = [inside EXCEPT ![c] = "free"]
    BY <1>1, <1>4 DEF xt_mutex_unlock, To
  <2>2. MutexInv(c)'
    BY <1>1, <1>2, <1>4, <2>1 DEF IInv, Types, MutexInv, Amid, M, Does, Left
  <2>3. \A n \in Mutexes : Held(c, n)' = Held(c, n)
    BY <1>1, <1>2, <1>4, <2>1 DEF IInv, Types, Held, Amid, M
  <2>4. Outline(c)'
    BY <2>1, <2>3, StillOutline
       DEF IInv, xt_mutex_unlock, MutexStep, Still, start, kernel, ints, tasks, Stored, Requested
  <2>5. Types'
    BY <1>1, <1>2, <2>1 DEF IInv, Types, xt_mutex_unlock, MutexStep, start, kernel, ints, tasks
  <2>6. QED
    BY <1>3, <2>2, <2>4, <2>5, AccessOutlines DEF IInv
<1>5. CASE count[m] # 1
  <2>1. /\ todo' = [todo EXCEPT ![c] = Tail(todo[c])]
        /\ inside' = [inside EXCEPT ![c] = "test"]
    BY <1>1, <1>5 DEF xt_mutex_unlock, Returns, Done, Goes
  <2>2. MutexInv(c)'
    BY <1>1, <1>2, <1>5, <2>1 DEF IInv, Types, MutexInv, Amid
  <2>3. Loses(c)
    BY <1>1, <1>2, <2>1 DEF IInv, Types, Loses, Held, Amid
  <2>4. Returned(c)
    BY <2>1
       DEF IInv, Types, xt_mutex_unlock, MutexStep, Returned, start, kernel, ints, tasks,
           Stored, Requested
  <2>5. Outline(c)'
    BY <1>1, <2>3, <2>4, UnlockReturns DEF IInv
  <2>6. Types'
    BY <1>1, <1>2, <2>1 DEF IInv, Types, xt_mutex_unlock, MutexStep, start, kernel, ints, tasks
  <2>7. QED
    BY <1>3, <2>2, <2>5, <2>6, AccessOutlines DEF IInv
<1>6. QED
  BY <1>4, <1>5

LEMMA FreeKeeps ==
  ASSUME IInv, NEW c \in Cores, Free(c) PROVE IInv'
<1> DEFINE m == M(c)
<1>1. /\ m \in Mutexes /\ Does(c, "unlock") /\ inside[c] = "free"
      /\ owner' = [owner EXCEPT ![m] = 0] /\ inside' = [inside EXCEPT ![c] = "test"]
      /\ todo' = [todo EXCEPT ![c] = Tail(todo[c])] /\ UNCHANGED count
  BY UnlockRows DEF IInv, Free, In, Own, Returns, Done, Goes
<1>2. owner[m] = Id(c)
  BY <1>1 DEF IInv, MutexInv, Amid
<1>3. Access(c)
  BY <1>1, <1>2, CoreIds DEF Free, Access, Untouched, IInv, Types
<1>4. MutexInv(c)'
  BY <1>1, CoreIds DEF IInv, Types, MutexInv, Amid
<1>5. Loses(c)
  BY <1>1, <1>2, CoreIds DEF IInv, Types, Loses, Held, Amid
<1>6. Returned(c)
  BY <1>1
     DEF IInv, Types, Free, MutexStep, Returned, start, kernel, ints, tasks, Stored, Requested
<1>7. Outline(c)'
  BY <1>1, <1>5, <1>6, UnlockReturns DEF IInv
<1>8. Types'
  BY <1>1 DEF IInv, Types, Free, MutexStep, start, kernel, ints, tasks
<1>9. QED
  BY <1>3, <1>4, <1>7, <1>8, AccessOutlines DEF IInv

-----------------------------------------------------------------------------
(* Where each other step is                                                *)

LEMMA IdleRow ==
  ASSUME NEW c \in Cores, Outline(c), ~Left(c)
  PROVE  /\ Serving(c)
         /\ Working(c) /\ At(c, <<>>, 0, 0) /\ depth[c] = 0
<1> USE AtPoint DEF Begins, Calls, Does, Left
<1>1. ~Starting(c)
  BY StartHead DEF StartSteps
<1>2. Working(c) => At(c, <<>>, 0, 0) /\ depth[c] = 0
  BY SectionPoints DEF Working
<1>3. ~TaskSection(c)
  BY SectionPoints DEF TaskSection
<1>4. ~Suspending(c)
  BY SuspendPoints DEF Suspending
<1>5. ~Switching(c)
  BY SwitchPoints DEF Switching
<1>6. QED
  BY <1>1, <1>2, <1>3, <1>4, <1>5 DEF Outline, Serving

LEMMA DeeperRows ==
  ASSUME NEW c \in Cores, Outline(c), Does(c, "deeper")
  PROVE  /\ Serving(c)
         /\ \/ Working(c) /\ At(c, Deepen, OwnTask(c), 1)
            \/ Suspending(c) /\ At(c, Resume3, 1, 1) /\ depth[c] = 0 /\ c \in suspended
<1> USE AtPoint DEF Begins, Calls, Does, Left
<1>1. ~Starting(c)
  BY StartHead DEF StartSteps
<1>2. Working(c) => At(c, Deepen, OwnTask(c), 1)
  BY SectionPoints DEF Working
<1>3. ~TaskSection(c)
  BY SectionPoints DEF TaskSection
<1>4. Suspending(c) => At(c, Resume3, 1, 1) /\ depth[c] = 0 /\ c \in suspended
  BY SuspendPoints DEF Suspending
<1>5. ~Switching(c)
  BY SwitchPoints DEF Switching
<1>6. QED
  BY <1>1, <1>2, <1>3, <1>4, <1>5 DEF Outline, Serving

LEMMA KernelRow ==
  ASSUME NEW c \in Cores, Outline(c), Does(c, "kernel")
  PROVE  /\ Serving(c)
         /\ Working(c) /\ At(c, Kernel, OwnTask(c), 1) /\ depth[c] > 0
<1> USE AtPoint DEF Begins, Calls, Does, Left
<1>1. ~Starting(c)
  BY StartHead DEF StartSteps
<1>2. Working(c) => At(c, Kernel, OwnTask(c), 1) /\ depth[c] > 0
  BY SectionPoints DEF Working
<1>3. ~TaskSection(c)
  BY SectionPoints DEF TaskSection
<1>4. ~Suspending(c)
  BY SuspendPoints DEF Suspending
<1>5. ~Switching(c)
  BY SwitchPoints DEF Switching
<1>6. QED
  BY <1>1, <1>2, <1>3, <1>4, <1>5 DEF Outline, Serving

LEMMA ShallowerRows ==
  ASSUME NEW c \in Cores, Outline(c), Does(c, "shallower")
  PROVE  /\ Serving(c)
         /\ \/ Working(c) /\ ((At(c, LeaveInner, OwnTask(c), 1) /\ depth[c] > 1) \/ (At(c, LeaveIsr, 0, 1) /\ depth[c] = 1 /\ hand[c] # <<>>))
            \/ TaskSection(c) /\ At(c, LeaveTask1, 1, 1) /\ depth[c] = 1
<1> USE AtPoint DEF Begins, Calls, Does, Left
<1>1. ~Starting(c)
  BY StartHead DEF StartSteps
<1>2. Working(c) => ((At(c, LeaveInner, OwnTask(c), 1) /\ depth[c] > 1) \/ (At(c, LeaveIsr, 0, 1) /\ depth[c] = 1 /\ hand[c] # <<>>))
  BY SectionPoints DEF Working
<1>3. TaskSection(c) => At(c, LeaveTask1, 1, 1) /\ depth[c] = 1
  BY SectionPoints DEF TaskSection
<1>4. ~Suspending(c)
  BY SuspendPoints DEF Suspending
<1>5. ~Switching(c)
  BY SwitchPoints DEF Switching
<1>6. QED
  BY <1>1, <1>2, <1>3, <1>4, <1>5 DEF Outline, Serving

LEMMA SuspendRow ==
  ASSUME NEW c \in Cores, Outline(c), Does(c, "suspend")
  PROVE  /\ Serving(c)
         /\ Suspending(c) /\ At(c, Suspend3, 1, 1) /\ depth[c] = 0 /\ c \notin suspended
<1> USE AtPoint DEF Begins, Calls, Does, Left
<1>1. ~Starting(c)
  BY StartHead DEF StartSteps
<1>2. ~Working(c)
  BY SectionPoints DEF Working
<1>3. ~TaskSection(c)
  BY SectionPoints DEF TaskSection
<1>4. Suspending(c) => At(c, Suspend3, 1, 1) /\ depth[c] = 0 /\ c \notin suspended
  BY SuspendPoints DEF Suspending
<1>5. ~Switching(c)
  BY SwitchPoints DEF Switching
<1>6. QED
  BY <1>1, <1>2, <1>3, <1>4, <1>5 DEF Outline, Serving

LEMMA ResumeRow ==
  ASSUME NEW c \in Cores, Outline(c), Does(c, "resume")
  PROVE  /\ Serving(c)
         /\ Suspending(c) /\ At(c, Resume4, 1, 1) /\ depth[c] = 1 /\ c \in suspended
<1> USE AtPoint DEF Begins, Calls, Does, Left
<1>1. ~Starting(c)
  BY StartHead DEF StartSteps
<1>2. ~Working(c)
  BY SectionPoints DEF Working
<1>3. ~TaskSection(c)
  BY SectionPoints DEF TaskSection
<1>4. Suspending(c) => At(c, Resume4, 1, 1) /\ depth[c] = 1 /\ c \in suspended
  BY SuspendPoints DEF Suspending
<1>5. ~Switching(c)
  BY SwitchPoints DEF Switching
<1>6. QED
  BY <1>1, <1>2, <1>3, <1>4, <1>5 DEF Outline, Serving

LEMMA UnmaskRow ==
  ASSUME NEW c \in Cores, Outline(c), Does(c, "unmask")
  PROVE  /\ Serving(c)
         /\ TaskSection(c) /\ At(c, LeaveTask4, 0, 0) /\ depth[c] = 0
<1> USE AtPoint DEF Begins, Calls, Does, Left
<1>1. ~Starting(c)
  BY StartHead DEF StartSteps
<1>2. ~Working(c)
  BY SectionPoints DEF Working
<1>3. TaskSection(c) => At(c, LeaveTask4, 0, 0) /\ depth[c] = 0
  BY SectionPoints DEF TaskSection
<1>4. ~Suspending(c)
  BY SuspendPoints DEF Suspending
<1>5. ~Switching(c)
  BY SwitchPoints DEF Switching
<1>6. QED
  BY <1>1, <1>2, <1>3, <1>4, <1>5 DEF Outline, Serving

LEMMA SelectRow ==
  ASSUME NEW c \in Cores, Outline(c), Does(c, "select")
  PROVE  /\ Serving(c)
         /\ Switching(c) /\ At(c, Switch3, 1, 1)
<1> USE AtPoint DEF Begins, Calls, Does, Left
<1>1. ~Starting(c)
  BY StartHead DEF StartSteps
<1>2. ~Working(c)
  BY SectionPoints DEF Working
<1>3. ~TaskSection(c)
  BY SectionPoints DEF TaskSection
<1>4. ~Suspending(c)
  BY SuspendPoints DEF Suspending
<1>5. Switching(c) => At(c, Switch3, 1, 1)
  BY SwitchPoints DEF Switching
<1>6. QED
  BY <1>1, <1>2, <1>3, <1>4, <1>5 DEF Outline, Serving

LEMMA RestoreRow ==
  ASSUME NEW c \in Cores, Outline(c), Does(c, "restore")
  PROVE  /\ Serving(c)
         /\ Switching(c) /\ At(c, Switch6, 0, 0)
<1> USE AtPoint DEF Begins, Calls, Does, Left
<1>1. ~Starting(c)
  BY StartHead DEF StartSteps
<1>2. ~Working(c)
  BY SectionPoints DEF Working
<1>3. ~TaskSection(c)
  BY SectionPoints DEF TaskSection
<1>4. ~Suspending(c)
  BY SuspendPoints DEF Suspending
<1>5. Switching(c) => At(c, Switch6, 0, 0)
  BY SwitchPoints DEF Switching
<1>6. QED
  BY <1>1, <1>2, <1>3, <1>4, <1>5 DEF Outline, Serving

-----------------------------------------------------------------------------
(* The other steps of the kernel's sections                                *)

\* Core c makes no access to a mutex, and changes its own part of the state.
Aside(c) ==
  /\ UNCHANGED mutexes /\ inside[c] = "test"
  /\ DOMAIN todo' = Cores /\ \A d \in Cores \ {c} : todo'[d] = todo[d]

LEMMA AsideMutexes ==
  ASSUME IInv, NEW c \in Cores, Aside(c)
  PROVE  \A d \in Cores : MutexInv(d)' /\ \A m \in Mutexes : Held(d, m)' = Held(d, m)
<1>1. MutexInv(c)' /\ \A m \in Mutexes : Held(c, m)' = Held(c, m)
  BY OutsideMutexes DEF IInv, Aside
<1>2. ASSUME NEW d \in Cores \ {c}
      PROVE  MutexInv(d)' /\ \A m \in Mutexes : Held(d, m)' = Held(d, m)
  <2>1. Untouched(d) /\ todo'[d] = todo[d] /\ inside'[d] = inside[d]
    BY DEF Aside, mutexes, Untouched
  <2>2. QED
    BY <2>1, UntouchedMutexes DEF IInv
<1>3. QED
  BY <1>1, <1>2

\* The step is one of a section or of vTaskSuspendAll: it leaves its mark in the
\* nesting count or in whether the scheduler is suspended.
InSection(c) ==
  /\ Unhurried /\ Aside(c)
  /\ depth' \in [Cores -> Nat] /\ suspended' \subseteq Cores
  /\ \A d \in Cores \ {c} :
       depth'[d] = depth[d] /\ (d \in suspended' <=> d \in suspended)

LEMMA InSectionKeeps ==
  ASSUME IInv, NEW c \in Cores, InSection(c), Outline(c)'
  PROVE  IInv'
<1>1. \A d \in Cores : MutexInv(d)' /\ \A m \in Mutexes : Held(d, m)' = Held(d, m)
  BY AsideMutexes DEF InSection
<1>2. ASSUME NEW d \in Cores \ {c} PROVE Outline(d)'
  <2>1. /\ Still(d) /\ Requested(d)' = Requested(d)
        /\ UNCHANGED <<port_xSchedulerRunning, xt_smp_sync>>
    BY <1>1 DEF InSection, Aside, Unhurried, start, ints, tasks, Still, Stored, Requested
  <2>2. QED
    BY <2>1, StillOutline DEF IInv
<1>3. Types' /\ Distinct' /\ Kept' /\ NestingMatches'
  BY DEF IInv, Types, InSection, Aside, Unhurried, start, mutexes, ints, tasks, Distinct, Kept,
         NestingMatches
<1>4. QED
  BY <1>1, <1>2, <1>3 DEF IInv

\* Where core c gets to, with the mutexes as they were.
LEMMA AtNext ==
  ASSUME IInv, NEW c \in Cores, Aside(c), c \in suspended' <=> c \in suspended,
         NEW p, NEW q, NEW t, NEW i, At(c, p, t, i), todo'[c] = q
  PROVE  At(c, q, t, i)'
<1>1. \A m \in Mutexes : Held(c, m)' = Held(c, m)
  BY AsideMutexes
<1>2. QED
  BY <1>1 DEF At, Mutexes

LEMMA EnterCriticalKeeps ==
  ASSUME IInv, NEW c \in Cores, EnterCritical(c) PROVE IInv'
<1>1. Serving(c) /\ Working(c) /\ At(c, <<>>, 0, 0) /\ depth[c] = 0 /\ hand[c] = <<>>
  BY IdleRow DEF IInv, EnterCritical
<1>2. todo' = [todo EXCEPT ![c] = EnterTask] /\ Unhurried /\ UNCHANGED kernel
  BY <1>1 DEF EnterCritical, Runs, Goes, Enter, EnterTask, LT, LI
<1>3. InSection(c)
  BY <1>2, OutsideCalls
     DEF IInv, Types, EnterCritical, InSection, Aside, Unhurried, kernel, Does
<1>4. At(c, EnterTask, 0, 0)'
  BY <1>1, <1>2, <1>3, AtNext DEF InSection, IInv, Types, kernel
<1>5. Outline(c)'
  BY <1>1, <1>2, <1>4
     DEF Outline, Serving, TaskSection, Working, Unhurried, kernel, start, ints, tasks,
     Requested, Stored
<1>6. QED
  BY <1>3, <1>5, InSectionKeeps

LEMMA NestKeeps ==
  ASSUME IInv, NEW c \in Cores, Nest(c) PROVE IInv'
<1>1. Serving(c) /\ Working(c) /\ At(c, Kernel, OwnTask(c), 1) /\ depth[c] > 0
  BY KernelRow DEF IInv, Nest
<1>2. todo' = [todo EXCEPT ![c] = Deepen] /\ Unhurried /\ UNCHANGED kernel
  BY <1>1 DEF Nest, Goes, Enter, Deepen
<1>3. InSection(c)
  BY <1>2, OutsideCalls DEF IInv, Types, Nest, InSection, Aside, Unhurried, kernel, Does
<1>4. At(c, Deepen, OwnTask(c), 1)'
  BY <1>1, <1>2, <1>3, AtNext DEF InSection, IInv, Types, kernel, OwnTask, Unhurried, ints
<1>5. Outline(c)'
  BY <1>1, <1>2, <1>4 DEF Outline, Serving, Working, Unhurried, kernel, start, ints, tasks,
     Requested, Stored
<1>6. QED
  BY <1>3, <1>5, InSectionKeeps

LEMMA ExitCriticalKeeps ==
  ASSUME IInv, NEW c \in Cores, ExitCritical(c) PROVE IInv'
<1>1. /\ Serving(c) /\ Working(c) /\ At(c, Kernel, OwnTask(c), 1)
      /\ depth[c] > 0 /\ depth[c] \in Nat
  BY KernelRow DEF IInv, Types, ExitCritical
<1>2. todo' = [todo EXCEPT ![c] = Leave(c)] /\ Unhurried /\ UNCHANGED kernel
  BY DEF ExitCritical, Goes
<1>3. InSection(c)
  BY <1>2, OutsideCalls DEF IInv, Types, ExitCritical, InSection, Aside, Unhurried, kernel, Does
<1>4. At(c, Leave(c), OwnTask(c), 1)'
  BY <1>1, <1>2, <1>3, AtNext
     DEF InSection, IInv, Types, kernel, OwnTask, Leave, Unhurried, ints
<1>s. /\ UNCHANGED <<hand, depth, suspended, port_xSchedulerRunning, xt_smp_sync>>
      /\ Stored(c)' = Stored(c) /\ Requested(c)' = Requested(c)
  BY <1>2 DEF Unhurried, kernel, start, ints, tasks, Requested, Stored
<1>5. CASE depth[c] > 1
  <2>1. Leave(c)' = LeaveInner
    BY <1>5, <1>s DEF Leave, LeaveInner
  <2>2. Working(c)'
    BY <1>1, <1>4, <1>5, <1>s, <2>1 DEF Working
  <2>3. QED
    BY <1>1, <1>3, <1>s, <2>2, InSectionKeeps DEF Outline, Serving
<1>6. CASE depth[c] = 1 /\ hand[c] # <<>>
  <2>1. Leave(c)' = LeaveIsr /\ OwnTask(c)' = 0
    BY <1>6, <1>s DEF Leave, LeaveIsr, OwnTask, UI
  <2>2. Working(c)'
    BY <1>1, <1>4, <1>6, <1>s, <2>1 DEF Working
  <2>3. QED
    BY <1>1, <1>3, <1>s, <2>2, InSectionKeeps DEF Outline, Serving
<1>7. CASE depth[c] = 1 /\ hand[c] = <<>>
  <2>1. Leave(c)' = LeaveTask1 /\ OwnTask(c)' = 1
    BY <1>7, <1>s DEF Leave, LeaveTask1, OwnTask, UI, UT
  <2>2. TaskSection(c)'
    BY <1>1, <1>4, <1>7, <1>s, <2>1 DEF Working, TaskSection
  <2>3. QED
    BY <1>1, <1>3, <1>s, <2>2, InSectionKeeps DEF Outline, Serving
<1>8. QED
  BY <1>1, <1>5, <1>6, <1>7

LEMMA DeeperKeeps ==
  ASSUME IInv, NEW c \in Cores, Deeper(c) PROVE IInv'
<1>1. /\ Serving(c) /\ depth[c] \in Nat
      /\ \/ Working(c) /\ At(c, Deepen, OwnTask(c), 1)
         \/ Suspending(c) /\ At(c, Resume3, 1, 1) /\ depth[c] = 0 /\ c \in suspended
  BY DeeperRows DEF IInv, Types, Deeper
<1>2. /\ todo' = [todo EXCEPT ![c] = Tail(todo[c])] /\ depth' = [depth EXCEPT ![c] = depth[c] + 1]
      /\ Unhurried /\ UNCHANGED suspended
  BY DEF Deeper, Done, Goes
<1>3. InSection(c)
  <2>1. inside[c] = "test"
    BY OutsideCalls DEF IInv, Types, Deeper, Does
  <2>2. depth' \in [Cores -> Nat] /\ \A d \in Cores \ {c} : depth'[d] = depth[d]
    BY <1>1, <1>2 DEF IInv, Types
  <2>3. QED
    BY <1>2, <2>1, <2>2 DEF IInv, Types, InSection, Aside, Unhurried
<1>4. /\ UNCHANGED <<hand, suspended, port_xSchedulerRunning, xt_smp_sync>>
      /\ Stored(c)' = Stored(c) /\ Requested(c)' = Requested(c) /\ OwnTask(c)' = OwnTask(c)
      /\ depth'[c] = depth[c] + 1 /\ todo'[c] = Tail(todo[c])
  BY <1>2 DEF Unhurried, start, ints, tasks, Requested, Stored, OwnTask, IInv, Types
<1>5. CASE Working(c) /\ At(c, Deepen, OwnTask(c), 1)
  <2>1. At(c, Kernel, OwnTask(c), 1)'
    BY <1>3, <1>4, <1>5, AtNext, AtPoint, SectionPoints DEF InSection
  <2>2. Working(c)'
    BY <1>1, <1>4, <1>5, <2>1 DEF Working
  <2>3. QED
    BY <1>1, <1>3, <1>4, <2>2, InSectionKeeps DEF Outline, Serving
<1>6. CASE Suspending(c) /\ At(c, Resume3, 1, 1) /\ depth[c] = 0 /\ c \in suspended
  <2>1. At(c, Resume4, 1, 1)'
    BY <1>3, <1>4, <1>6, AtNext, AtPoint, SuspendPoints DEF InSection
  <2>2. Suspending(c)'
    BY <1>1, <1>4, <1>6, <2>1 DEF Suspending
  <2>3. QED
    BY <1>1, <1>3, <1>4, <2>2, InSectionKeeps DEF Outline, Serving
<1>7. QED
  BY <1>1, <1>5, <1>6

LEMMA ShallowerKeeps ==
  ASSUME IInv, NEW c \in Cores, Shallower(c) PROVE IInv'
<1>1. /\ Serving(c) /\ depth[c] \in Nat
      /\ \/ Working(c) /\ At(c, LeaveInner, OwnTask(c), 1) /\ depth[c] > 1
         \/ Working(c) /\ At(c, LeaveIsr, 0, 1) /\ depth[c] = 1
         \/ TaskSection(c) /\ At(c, LeaveTask1, 1, 1) /\ depth[c] = 1
  BY ShallowerRows DEF IInv, Types, Shallower
<1>2. /\ todo' = [todo EXCEPT ![c] = Tail(todo[c])] /\ depth' = [depth EXCEPT ![c] = depth[c] - 1]
      /\ Unhurried /\ UNCHANGED suspended
  BY DEF Shallower, Done, Goes
<1>3. InSection(c)
  <2>1. inside[c] = "test"
    BY OutsideCalls DEF IInv, Types, Shallower, Does
  <2>2. depth' \in [Cores -> Nat] /\ \A d \in Cores \ {c} : depth'[d] = depth[d]
    BY <1>1, <1>2 DEF IInv, Types
  <2>3. QED
    BY <1>2, <2>1, <2>2 DEF IInv, Types, InSection, Aside, Unhurried
<1>4. /\ UNCHANGED <<hand, suspended, port_xSchedulerRunning, xt_smp_sync>>
      /\ Stored(c)' = Stored(c) /\ Requested(c)' = Requested(c) /\ OwnTask(c)' = OwnTask(c)
      /\ depth'[c] = depth[c] - 1 /\ todo'[c] = Tail(todo[c])
  BY <1>2 DEF Unhurried, start, ints, tasks, Requested, Stored, OwnTask, IInv, Types
<1>5. CASE Working(c) /\ At(c, LeaveInner, OwnTask(c), 1) /\ depth[c] > 1
  <2>1. At(c, Kernel, OwnTask(c), 1)'
    BY <1>3, <1>4, <1>5, AtNext, AtPoint, SectionPoints DEF InSection
  <2>2. Working(c)'
    BY <1>1, <1>4, <1>5, <2>1 DEF Working
  <2>3. QED
    BY <1>1, <1>3, <1>4, <2>2, InSectionKeeps DEF Outline, Serving
<1>6. CASE Working(c) /\ At(c, LeaveIsr, 0, 1) /\ depth[c] = 1
  <2>1. At(c, LastIsr, 0, 1)'
    BY <1>3, <1>4, <1>6, AtNext, AtPoint, SectionPoints DEF InSection
  <2>2. Working(c)'
    BY <1>1, <1>4, <1>6, <2>1 DEF Working
  <2>3. QED
    BY <1>1, <1>3, <1>4, <2>2, InSectionKeeps DEF Outline, Serving
<1>7. CASE TaskSection(c) /\ At(c, LeaveTask1, 1, 1) /\ depth[c] = 1
  <2>1. At(c, LeaveTask2, 1, 1)'
    BY <1>3, <1>4, <1>7, AtNext, AtPoint, SectionPoints DEF InSection
  <2>2. TaskSection(c)'
    BY <1>1, <1>4, <1>7, <2>1 DEF TaskSection
  <2>3. QED
    BY <1>1, <1>3, <1>4, <2>2, InSectionKeeps DEF Outline, Serving
<1>8. QED
  BY <1>1, <1>5, <1>6, <1>7

LEMMA SuspendAllKeeps ==
  ASSUME IInv, NEW c \in Cores, SuspendAll(c) PROVE IInv'
<1>1. Serving(c) /\ Working(c) /\ At(c, <<>>, 0, 0) /\ depth[c] = 0 /\ hand[c] = <<>>
      /\ c \notin suspended
  BY IdleRow DEF IInv, SuspendAll, Runs
<1>2. todo' = [todo EXCEPT ![c] = Suspend1] /\ Unhurried /\ UNCHANGED kernel
  BY DEF SuspendAll, Runs, Goes, Suspend1, LT, LI, UI
<1>3. InSection(c)
  BY <1>2, OutsideCalls
     DEF IInv, Types, SuspendAll, Runs, InSection, Aside, Unhurried, kernel, Does
<1>4. At(c, Suspend1, 0, 0)'
  BY <1>1, <1>2, <1>3, AtNext DEF InSection, IInv, Types, kernel
<1>5. Outline(c)'
  BY <1>1, <1>2, <1>4 DEF Outline, Serving, Suspending, Working, Unhurried, kernel, start, ints,
     tasks, Requested, Stored
<1>6. QED
  BY <1>3, <1>5, InSectionKeeps

LEMMA ResumeAllKeeps ==
  ASSUME IInv, NEW c \in Cores, ResumeAll(c) PROVE IInv'
<1>1. Serving(c) /\ Working(c) /\ At(c, <<>>, 0, 0) /\ depth[c] = 0 /\ hand[c] = <<>>
      /\ c \in suspended
  BY IdleRow DEF IInv, ResumeAll, Runs
<1>2. todo' = [todo EXCEPT ![c] = Resume1] /\ Unhurried /\ UNCHANGED kernel
  BY DEF ResumeAll, Runs, Goes, Resume1, LT, LI, UI, UT
<1>3. InSection(c)
  BY <1>2, OutsideCalls
     DEF IInv, Types, ResumeAll, Runs, InSection, Aside, Unhurried, kernel, Does
<1>4. At(c, Resume1, 0, 0)'
  BY <1>1, <1>2, <1>3, AtNext DEF InSection, IInv, Types, kernel
<1>5. Outline(c)'
  BY <1>1, <1>2, <1>4 DEF Outline, Serving, Suspending, Working, Unhurried, kernel, start, ints,
     tasks, Requested, Stored
<1>6. QED
  BY <1>3, <1>5, InSectionKeeps

LEMMA SuspendKeeps ==
  ASSUME IInv, NEW c \in Cores, Suspend(c) PROVE IInv'
<1>1. inside[c] = "test"
  BY OutsideCalls DEF IInv, Types, Suspend, Does
<1>2. /\ todo' = [todo EXCEPT ![c] = Tail(todo[c])] /\ Unhurried /\ UNCHANGED depth
      /\ suspended' = IF Does(c, "suspend") THEN suspended \cup {c} ELSE suspended \ {c}
  BY DEF Suspend, Done, Goes
<1>3. InSection(c)
  BY <1>1, <1>2 DEF IInv, Types, InSection, Aside, Unhurried
<1>4. /\ \A m \in Mutexes : Held(c, m)' = Held(c, m)
      /\ UNCHANGED <<hand, depth, port_xSchedulerRunning, xt_smp_sync>>
      /\ Stored(c)' = Stored(c) /\ Requested(c)' = Requested(c) /\ todo'[c] = Tail(todo[c])
  BY <1>2, <1>3, AsideMutexes
     DEF InSection, IInv, Types, Unhurried, start, ints, tasks, Stored, Requested
<1>5. CASE Does(c, "suspend")
  <2>1. /\ Serving(c) /\ Suspending(c) /\ At(c, Suspend3, 1, 1) /\ depth[c] = 0
        /\ c \notin suspended /\ c \in suspended'
    BY <1>2, <1>5, SuspendRow DEF IInv
  <2>2. At(c, LastIsr, 0, 1)'
    BY <1>4, <2>1, SuspendPoints DEF At, Mutexes
  <2>3. Working(c)'
    BY <1>4, <2>1, <2>2 DEF Suspending, Working
  <2>4. QED
    BY <1>3, <1>4, <2>1, <2>3, InSectionKeeps DEF Outline, Serving
<1>6. CASE Does(c, "resume")
  <2>1. /\ Serving(c) /\ Suspending(c) /\ At(c, Resume4, 1, 1) /\ depth[c] = 1
        /\ c \in suspended /\ c \notin suspended'
    BY <1>2, <1>6, ResumeRow DEF IInv, Does
  <2>2. At(c, Resume5, 2, 1)'
    BY <1>4, <2>1, SuspendPoints DEF At, Mutexes
  <2>3. Suspending(c)'
    BY <1>4, <2>1, <2>2 DEF Suspending
  <2>4. QED
    BY <1>3, <1>4, <2>1, <2>3, InSectionKeeps DEF Outline, Serving
<1>7. QED
  BY <1>5, <1>6 DEF Suspend

LEMMA UnmaskKeeps ==
  ASSUME IInv, NEW c \in Cores, Unmask(c) PROVE IInv'
<1>1. Serving(c) /\ TaskSection(c) /\ At(c, LeaveTask4, 0, 0) /\ depth[c] = 0
  BY UnmaskRow DEF IInv, Unmask
<1>2. todo' = [todo EXCEPT ![c] = <<>>] /\ Unhurried /\ UNCHANGED kernel
  BY <1>1, AtPoint, SectionPoints DEF Unmask, Done, Goes
<1>3. InSection(c)
  BY <1>2, OutsideCalls DEF IInv, Types, Unmask, InSection, Aside, Unhurried, kernel, Does
<1>4. At(c, <<>>, 0, 0)'
  BY <1>1, <1>2, <1>3, AtNext DEF InSection, IInv, Types, kernel
<1>5. Outline(c)'
  BY <1>1, <1>2, <1>4
     DEF Outline, Serving, TaskSection, Working, Unhurried, kernel, start, ints,
     tasks, Requested, Stored
<1>6. QED
  BY <1>3, <1>5, InSectionKeeps

\* A core that has started makes no step of the start again.
LEMMA ServingHead ==
  ASSUME NEW c \in Cores, Serving(c)
  PROVE  \A d \in StartSteps : ~Does(c, d)
<1> USE AtPoint DEF Begins, Calls, Does, Left, StartSteps
<1>1. Working(c) => \A d \in StartSteps : ~Does(c, d)
  BY SectionPoints DEF Working
<1>2. TaskSection(c) => \A d \in StartSteps : ~Does(c, d)
  BY SectionPoints DEF TaskSection
<1>3. Suspending(c) => \A d \in StartSteps : ~Does(c, d)
  BY SuspendPoints DEF Suspending
<1>4. Switching(c) => \A d \in StartSteps : ~Does(c, d)
  BY SwitchPoints DEF Switching
<1>5. QED
  BY <1>1, <1>2, <1>3, <1>4 DEF Serving

\* The first switch of a core follows its start.
LEMMA DispatchRow ==
  ASSUME NEW c \in Cores, Outline(c), Does(c, "dispatch")
  PROVE  Starting(c) /\ Started(c)
<1>1. ~Serving(c)
  BY ServingHead DEF StartSteps
<1>2. \A p \in {StartFirst, First2, First3, First4, First5, First6, First7} :
        Head(p).do # "dispatch"
  BY StartPoints, SMTT(30) DEF Begins
<1>3. \A p \in {StartOther, Other2, Other3, Other4, Other5, Other6} : Head(p).do # "dispatch"
  BY StartPoints, SMTT(30) DEF Begins
<1>4. ~StartingFirst(c) /\ ~StartingOther(c)
  BY <1>2, <1>3 DEF StartingFirst, StartingOther, Does
<1>5. QED
  BY <1>1, <1>4 DEF Outline, Starting

LEMMA DispatchKeeps ==
  ASSUME IInv, NEW c \in Cores, Dispatch(c) PROVE IInv'
<1>1. Starting(c) /\ Started(c)
  BY DispatchRow DEF IInv, Dispatch
<1>2. todo' = [todo EXCEPT ![c] = Switch] /\ Unhurried /\ UNCHANGED kernel
  BY DEF Dispatch, Goes
<1>3. InSection(c)
  BY <1>2, OutsideCalls DEF IInv, Types, Dispatch, InSection, Aside, Unhurried, kernel, Does
<1>4. \A m \in Mutexes : Held(c, m)' = 0
  BY <1>1, <1>3, AsideMutexes DEF InSection, Starting
<1>5. At(c, Switch, 0, 0)'
  BY <1>1, <1>2, <1>4 DEF At, Starting, Mutexes, kernel, IInv, Types
<1>6. Switching(c)' /\ Serving(c)'
  BY <1>1, <1>2, <1>5 DEF Starting, Started, Serving, Switching, Unhurried, kernel, start, ints,
     tasks, Requested, Stored
<1>7. QED
  BY <1>3, <1>6, InSectionKeeps DEF Outline

-----------------------------------------------------------------------------
(* The start                                                               *)

LEMMA FirstRows ==
  ASSUME NEW c \in Cores, StartingFirst(c)
  PROVE  /\ \A d \in {"wait", "assert", "dispatch"} : ~Does(c, d)
         /\ Does(c, "main") => todo[c] = StartFirst /\ ~port_xSchedulerRunning
         /\ Does(c, "coproc") => todo[c] = First2 /\ ~port_xSchedulerRunning /\ hand[c] = <<>>
         /\ Does(c, "mutexes") => todo[c] = First3 /\ ~port_xSchedulerRunning /\ hand[c] = <<>>
         /\ Does(c, "ipis") => todo[c] = First4 /\ ~port_xSchedulerRunning /\ hand[c] = <<>>
         /\ Does(c, "tick") => todo[c] = First5 /\ ~port_xSchedulerRunning /\ hand[c] = <<>> /\ Requested(c)
         /\ Does(c, "running") => todo[c] = First6 /\ ~port_xSchedulerRunning /\ hand[c] = <<>> /\ Requested(c)
         /\ Does(c, "sync") => todo[c] = First7 /\ port_xSchedulerRunning /\ hand[c] = <<>> /\ Requested(c)
<1>1. CASE todo[c] = StartFirst /\ ~port_xSchedulerRunning
  BY <1>1, StartPoints DEF Begins, Does
<1>2. CASE todo[c] = First2 /\ ~port_xSchedulerRunning /\ hand[c] = <<>>
  BY <1>2, StartPoints DEF Begins, Does
<1>3. CASE todo[c] = First3 /\ ~port_xSchedulerRunning /\ hand[c] = <<>>
  BY <1>3, StartPoints DEF Begins, Does
<1>4. CASE todo[c] = First4 /\ ~port_xSchedulerRunning /\ hand[c] = <<>>
  BY <1>4, StartPoints DEF Begins, Does
<1>5. CASE todo[c] = First5 /\ ~port_xSchedulerRunning /\ hand[c] = <<>> /\ Requested(c)
  BY <1>5, StartPoints DEF Begins, Does
<1>6. CASE todo[c] = First6 /\ ~port_xSchedulerRunning /\ hand[c] = <<>> /\ Requested(c)
  BY <1>6, StartPoints DEF Begins, Does
<1>7. CASE todo[c] = First7 /\ port_xSchedulerRunning /\ hand[c] = <<>> /\ Requested(c)
  BY <1>7, StartPoints DEF Begins, Does
<1>8. QED
  BY <1>1, <1>2, <1>3, <1>4, <1>5, <1>6, <1>7 DEF StartingFirst

LEMMA OtherRows ==
  ASSUME NEW c \in Cores, StartingOther(c)
  PROVE  /\ \A d \in {"main", "mutexes", "sync", "dispatch"} : ~Does(c, d)
         /\ Does(c, "wait") => todo[c] = StartOther
         /\ Does(c, "coproc") => todo[c] = Other2 /\ port_xSchedulerRunning /\ xt_smp_sync
         /\ Does(c, "assert") => todo[c] = Other3 /\ port_xSchedulerRunning /\ xt_smp_sync
         /\ Does(c, "ipis") => todo[c] = Other4 /\ port_xSchedulerRunning /\ xt_smp_sync
         /\ Does(c, "tick") => todo[c] = Other5 /\ port_xSchedulerRunning /\ xt_smp_sync /\ Requested(c)
         /\ Does(c, "running") => todo[c] = Other6 /\ port_xSchedulerRunning /\ xt_smp_sync /\ Requested(c)
<1>1. CASE todo[c] = StartOther
  BY <1>1, StartPoints DEF Begins, Does
<1>2. CASE todo[c] = Other2 /\ port_xSchedulerRunning /\ xt_smp_sync
  BY <1>2, StartPoints DEF Begins, Does
<1>3. CASE todo[c] = Other3 /\ port_xSchedulerRunning /\ xt_smp_sync
  BY <1>3, StartPoints DEF Begins, Does
<1>4. CASE todo[c] = Other4 /\ port_xSchedulerRunning /\ xt_smp_sync
  BY <1>4, StartPoints DEF Begins, Does
<1>5. CASE todo[c] = Other5 /\ port_xSchedulerRunning /\ xt_smp_sync /\ Requested(c)
  BY <1>5, StartPoints DEF Begins, Does
<1>6. CASE todo[c] = Other6 /\ port_xSchedulerRunning /\ xt_smp_sync /\ Requested(c)
  BY <1>6, StartPoints DEF Begins, Does
<1>7. QED
  BY <1>1, <1>2, <1>3, <1>4, <1>5, <1>6 DEF StartingOther

LEMMA StartedRow ==
  ASSUME NEW c \in Cores, Started(c)
  PROVE  \A d \in StartSteps \ {"dispatch"} : ~Does(c, d)
BY StartPoints DEF Started, Begins, Does

LEMMA StartRow ==
  ASSUME NEW c \in Cores, Outline(c), NEW d \in StartSteps \ {"dispatch"}, Does(c, d)
  PROVE  Starting(c) /\ (StartingFirst(c) \/ StartingOther(c))
BY ServingHead, StartedRow DEF Outline, Starting

\* Until core 0 has set xt_smp_sync the others wait for it; then the scheduler runs.
LEMMA StartOrder ==
  ASSUME IInv
  PROVE  /\ xt_smp_sync => port_xSchedulerRunning
         /\ ~xt_smp_sync => \A d \in Cores \ {0} : todo[d] = StartOther /\ Starting(d) /\ hand[d] = <<>>
<1>1. xt_smp_sync => port_xSchedulerRunning
  BY XtSmpAssumption DEF IInv, Outline, Serving, Starting, StartingFirst, StartingOther, Started
<1>2. ASSUME ~xt_smp_sync, NEW d \in Cores \ {0}
      PROVE  todo[d] = StartOther /\ Starting(d) /\ hand[d] = <<>>
  BY <1>2 DEF IInv, Outline, Serving, Starting, StartingFirst, StartingOther, Started
<1>3. QED
  BY <1>1, <1>2

\* A step of the start of core c, which is alone with the flags that it sets.
InStart(c) ==
  /\ UNCHANGED <<kernel, ints, tasks>> /\ Done(c)
  /\ \A d \in Cores : Requested(d) => Requested(d)'
  /\ UNCHANGED <<port_xSchedulerRunning, xt_smp_sync>> \/ (c = 0 /\ ~xt_smp_sync)

LEMMA InStartKeeps ==
  ASSUME IInv, NEW c \in Cores, InStart(c), Starting(c), UNCHANGED mutexes, Types',
         NestingMatches', StartingFirst(c)' \/ StartingOther(c)' \/ Started(c)'
  PROVE  IInv'
<1>1. Aside(c)
  <2>1. ~Does(c, "lock") /\ ~Does(c, "unlock")
    BY StartHead DEF StartSteps, Does
  <2>2. QED
    BY <2>1, OutsideCalls DEF IInv, Types, InStart, Done, Goes, Aside
<1>2. \A d \in Cores : MutexInv(d)' /\ \A m \in Mutexes : Held(d, m)' = Held(d, m)
  BY <1>1, AsideMutexes
<1>3. ASSUME NEW d \in Cores \ {c} PROVE Outline(d)'
  <2>1. Still(d)
    BY <1>1, <1>2 DEF InStart, Aside, kernel, ints, tasks, Still, Stored
  <2>2. CASE UNCHANGED <<port_xSchedulerRunning, xt_smp_sync>>
    BY <2>1, <2>2, StillOutline DEF IInv, InStart
  <2>3. CASE c = 0 /\ ~xt_smp_sync
    <3>1. todo[d] = StartOther /\ Starting(d) /\ hand[d] = <<>> /\ d # 0
      BY <2>3, StartOrder
    <3>2. StartingOther(d)'
      BY <2>1, <3>1 DEF Still, StartingOther
    <3>3. QED
      BY <2>1, <3>1, <3>2 DEF Still, Starting, Outline
  <2>4. QED
    BY <2>2, <2>3 DEF InStart
<1>4. Outline(c)'
  BY <1>2 DEF InStart, kernel, tasks, Stored, Starting, Outline
<1>5. Distinct' /\ Kept'
  BY DEF IInv, InStart, tasks, Distinct, Kept
<1>6. QED
  BY <1>2, <1>3, <1>4, <1>5 DEF IInv

LEMMA StartSchedulerKeeps ==
  ASSUME IInv, NEW c \in Cores, StartScheduler(c) PROVE IInv'
<1>1. Starting(c) /\ StartingFirst(c) /\ todo[c] = StartFirst /\ ~port_xSchedulerRunning
  BY StartRow, FirstRows, OtherRows DEF IInv, StartScheduler, StartSteps
<1>2. InStart(c) /\ UNCHANGED mutexes /\ UNCHANGED start
  BY DEF StartScheduler, InStart, start, Requested
<1>3. StartingFirst(c)'
  BY <1>1, <1>2, StartPoints
     DEF StartScheduler, Done, Goes, start, ints, StartingFirst, IInv, Types
<1>4. Types' /\ NestingMatches'
  BY <1>2 DEF IInv, Types, NestingMatches, StartScheduler, InStart, Done, Goes, start, mutexes,
     kernel, ints, tasks
<1>5. QED
  BY <1>1, <1>2, <1>3, <1>4, InStartKeeps

LEMMA MemmapInitKeeps ==
  ASSUME IInv, NEW c \in Cores, __memmap_init(c) PROVE IInv'
<1>1. /\ Starting(c) /\ StartingOther(c) /\ todo[c] = StartOther
      /\ xt_smp_sync /\ port_xSchedulerRunning
  BY StartRow, FirstRows, OtherRows, StartOrder DEF IInv, __memmap_init, StartSteps
<1>2. InStart(c) /\ UNCHANGED mutexes /\ UNCHANGED start
  BY DEF __memmap_init, InStart, start, Requested
<1>3. StartingOther(c)'
  BY <1>1, <1>2, StartPoints
     DEF __memmap_init, Done, Goes, start, ints, StartingOther, IInv, Types
<1>4. Types' /\ NestingMatches'
  BY <1>2 DEF IInv, Types, NestingMatches, __memmap_init, InStart, Done, Goes, start, mutexes,
     kernel, ints, tasks
<1>5. QED
  BY <1>1, <1>2, <1>3, <1>4, InStartKeeps

\* xt_mutex_init clears mutexes that no core has.
LEMMA MutexInitKeeps ==
  ASSUME IInv, NEW c \in Cores, xt_mutex_init(c) PROVE IInv'
<1>1. /\ Starting(c) /\ StartingFirst(c) /\ todo[c] = First3
      /\ hand[c] = <<>> /\ ~port_xSchedulerRunning
  BY StartRow, FirstRows, OtherRows DEF IInv, xt_mutex_init, StartSteps
<1>2. ASSUME NEW d \in Cores PROVE Starting(d) /\ inside[d] = "test"
  <2>1. Starting(d)
    BY <1>1, StartOrder DEF StartingFirst
  <2>2. ~Does(d, "lock") /\ ~Does(d, "unlock")
    BY <2>1, StartHead DEF StartSteps, Does
  <2>3. QED
    BY <2>1, <2>2, OutsideCalls DEF IInv, Types
<1>3. /\ owner' = [m \in Mutexes |-> 0] /\ count' = [m \in Mutexes |-> 0] /\ UNCHANGED inside
      /\ todo' = [todo EXCEPT ![c] = First4]
      /\ UNCHANGED <<start, kernel, ints, tasks>>
  BY <1>1, StartPoints DEF xt_mutex_init, Done, Goes
<1>4. \A d \in Cores : MutexInv(d)' /\ \A m \in Mutexes : Held(d, m)' = 0 /\ Held(d, m) = 0
  BY <1>2, <1>3, CoreIds DEF Starting, MutexInv, Held, Amid
<1>5. ASSUME NEW d \in Cores \ {c} PROVE Outline(d)'
  <2>1. Still(d) /\ Requested(d)' = Requested(d) /\ UNCHANGED <<port_xSchedulerRunning, xt_smp_sync>>
    BY <1>3, <1>4 DEF start, kernel, ints, tasks, Still, Stored, Requested
  <2>2. QED
    BY <2>1, StillOutline DEF IInv
<1>6. Outline(c)'
  <2>1. StartingFirst(c)'
    BY <1>1, <1>3 DEF start, ints, StartingFirst, IInv, Types
  <2>2. QED
    BY <1>1, <1>3, <1>4, <2>1 DEF kernel, tasks, Stored, Starting, Outline
<1>7. Types' /\ Distinct' /\ Kept' /\ NestingMatches'
  BY <1>3 DEF IInv, Types, Distinct, Kept, NestingMatches, start, kernel, ints, tasks
<1>8. QED
  BY <1>4, <1>5, <1>6, <1>7 DEF IInv

LEMMA EnableRequestsKeeps ==
  ASSUME IInv, NEW c \in Cores, EnableRequests(c) PROVE IInv'
<1>1. /\ Starting(c)
      /\ \/ StartingFirst(c) /\ todo[c] = First4 /\ hand[c] = <<>> /\ ~port_xSchedulerRunning
         \/ StartingOther(c) /\ todo[c] = Other4 /\ port_xSchedulerRunning /\ xt_smp_sync
  BY StartRow, FirstRows, OtherRows DEF IInv, EnableRequests, StartSteps
<1>2. /\ handlers' = handlers \cup (Cores \ {c})
      /\ xt_intenable' = [xt_intenable EXCEPT ![c] = @ \cup (Cores \ {c})]
  BY DEF EnableRequests, xt_set_interrupt_handler, xt_interrupt_enable
<1>3. InStart(c) /\ UNCHANGED mutexes /\ Requested(c)'
  BY <1>2 DEF EnableRequests, InStart, Requested, IInv, Types
<1>4. StartingFirst(c)' \/ StartingOther(c)'
  <2>1. StartingFirst(c) /\ todo[c] = First4 /\ hand[c] = <<>> /\ ~port_xSchedulerRunning
        => StartingFirst(c)'
    BY <1>3, StartPoints DEF EnableRequests, Done, Goes, ints, StartingFirst, IInv, Types
  <2>2. StartingOther(c) /\ todo[c] = Other4 /\ port_xSchedulerRunning /\ xt_smp_sync
        => StartingOther(c)'
    BY <1>3, StartPoints DEF EnableRequests, Done, Goes, ints, StartingOther, IInv, Types
  <2>3. QED
    BY <1>1, <2>1, <2>2
<1>5. Types' /\ NestingMatches'
  BY <1>2, <1>3 DEF IInv, Types, NestingMatches, EnableRequests, InStart, Done, Goes, mutexes,
     kernel, ints, tasks, Interrupts
<1>6. QED
  BY <1>1, <1>3, <1>4, <1>5, InStartKeeps

LEMMA EnableTickKeeps ==
  ASSUME IInv, NEW c \in Cores, EnableTick(c) PROVE IInv'
<1>1. /\ Starting(c)
      /\ \/ StartingFirst(c) /\ todo[c] = First5 /\ hand[c] = <<>> /\ ~port_xSchedulerRunning /\ Requested(c)
         \/ StartingOther(c) /\ todo[c] = Other5 /\ port_xSchedulerRunning /\ xt_smp_sync /\ Requested(c)
  BY StartRow, FirstRows, OtherRows DEF IInv, EnableTick, StartSteps
<1>2. xt_intenable' = [xt_intenable EXCEPT ![c] = @ \cup {n \in {XT_TIMER_INTNUM} : c = TickCore}]
  BY DEF EnableTick, xt_interrupt_enable
<1>3. InStart(c) /\ UNCHANGED mutexes
  BY <1>2 DEF EnableTick, InStart, Requested, IInv, Types
<1>4. StartingFirst(c)' \/ StartingOther(c)'
  <2>1. StartingFirst(c) /\ todo[c] = First5 /\ hand[c] = <<>> /\ ~port_xSchedulerRunning /\ Requested(c)
        => StartingFirst(c)'
    BY <1>3, StartPoints DEF EnableTick, InStart, Done, Goes, ints, StartingFirst, IInv, Types
  <2>2. StartingOther(c) /\ todo[c] = Other5 /\ port_xSchedulerRunning /\ xt_smp_sync /\ Requested(c)
        => StartingOther(c)'
    BY <1>3, StartPoints DEF EnableTick, InStart, Done, Goes, ints, StartingOther, IInv, Types
  <2>3. QED
    BY <1>1, <2>1, <2>2
<1>5. Types' /\ NestingMatches'
  <2>1. XT_TIMER_INTNUM \in Interrupts /\ XT_TIMER_INTNUM \in handlers
    BY XtSmpAssumption DEF Interrupts, IInv, Types
  <2>2. /\ xt_intenable' \in [Cores -> SUBSET Interrupts]
        /\ \A d \in Cores : xt_intenable'[d] \subseteq handlers
    BY <1>2, <2>1 DEF IInv, Types
  <2>3. QED
    BY <1>3, <2>2
       DEF IInv, Types, NestingMatches, EnableTick, InStart, Done, Goes, mutexes, kernel,
       ints, tasks
<1>6. QED
  BY <1>1, <1>3, <1>4, <1>5, InStartKeeps

LEMMA StartStepKeeps ==
  ASSUME IInv, NEW c \in Cores, StartStep(c) PROVE IInv'
<1>s. /\ port_xSchedulerRunning' = (port_xSchedulerRunning \/ Does(c, "running"))
      /\ xt_smp_sync' = (xt_smp_sync \/ Does(c, "sync"))
      /\ UNCHANGED <<handlers, xt_intenable, mutexes, kernel, ints, tasks>>
      /\ Done(c) /\ Requested(c)' = Requested(c)
      /\ todo' = [todo EXCEPT ![c] = Tail(todo[c])] /\ todo'[c] = Tail(todo[c])
  BY DEF StartStep, Done, Goes, IInv, Types, Requested
<1>1. Starting(c) /\ (StartingFirst(c) \/ StartingOther(c))
  BY StartRow DEF IInv, StartStep, StartSteps
<1>2. CASE StartingFirst(c)
  <2>1. c = 0 /\ ~xt_smp_sync
    BY <1>2 DEF StartingFirst
  <2>2. InStart(c)
    BY <1>s, <2>1 DEF InStart, Requested
  <2>3. /\ hand[c] = <<>>
        /\ \/ Does(c, "coproc") /\ todo[c] = First2 /\ ~port_xSchedulerRunning
           \/ Does(c, "running") /\ todo[c] = First6 /\ Requested(c)
           \/ Does(c, "sync") /\ todo[c] = First7 /\ port_xSchedulerRunning /\ Requested(c)
    BY <1>2, FirstRows DEF StartStep
  <2>4. CASE Does(c, "coproc") /\ todo[c] = First2 /\ ~port_xSchedulerRunning
    <3>1. UNCHANGED <<port_xSchedulerRunning, xt_smp_sync>>
      BY <1>s, <2>4 DEF Does, IInv, Types
    <3>2. StartingFirst(c)'
      BY <1>s, <2>1, <2>3, <2>4, <3>1, StartPoints DEF StartingFirst, ints
    <3>3. NestingMatches' /\ Types'
      BY <1>s, <3>1 DEF IInv, Types, NestingMatches, mutexes, kernel, ints, tasks
    <3>4. QED
      BY <1>1, <1>s, <2>2, <3>2, <3>3, InStartKeeps
  <2>5. CASE Does(c, "running") /\ todo[c] = First6 /\ Requested(c)
    <3>1. port_xSchedulerRunning' = TRUE /\ UNCHANGED xt_smp_sync
      BY <1>s, <2>5 DEF Does, IInv, Types
    <3>2. StartingFirst(c)'
      <4>1. todo'[c] = First7
        BY <1>s, <2>5, StartPoints
      <4>2. hand'[c] = <<>> /\ Requested(c)' /\ ~xt_smp_sync' /\ port_xSchedulerRunning'
        BY <1>s, <2>1, <2>3, <2>5, <3>1 DEF ints
      <4>3. QED
        BY <2>1, <4>1, <4>2 DEF StartingFirst
    <3>3. NestingMatches'
      <4>1. \A d \in Cores : hand[d] = <<>>
        BY <1>2, <2>1, <2>5, StartOrder, StartPoints, SMTT(30) DEF StartingFirst, Begins
      <4>2. \A d \in Cores : port_interruptNesting[d] = 0
        BY <4>1 DEF IInv, NestingMatches
      <4>3. QED
        BY <1>s, <4>1, <4>2 DEF NestingMatches, ints
    <3>4. Types'
      BY <1>s, <3>1 DEF IInv, Types, mutexes, kernel, ints, tasks
    <3>5. QED
      BY <1>1, <1>s, <2>2, <3>2, <3>3, <3>4, InStartKeeps
  <2>6. CASE Does(c, "sync") /\ todo[c] = First7 /\ port_xSchedulerRunning /\ Requested(c)
    <3>1. xt_smp_sync' = TRUE /\ UNCHANGED port_xSchedulerRunning
      BY <1>s, <2>6 DEF Does, IInv, Types
    <3>2. Started(c)'
      BY <1>s, <2>1, <2>3, <2>6, <3>1, StartPoints DEF StartingFirst, Started, Begins, ints
    <3>3. NestingMatches' /\ Types'
      BY <1>s, <3>1 DEF IInv, Types, NestingMatches, mutexes, kernel, ints, tasks
    <3>4. QED
      BY <1>1, <1>s, <2>2, <3>2, <3>3, InStartKeeps
  <2>7. QED
    BY <2>3, <2>4, <2>5, <2>6
<1>3. CASE StartingOther(c)
  <2>1. \/ Does(c, "coproc") /\ todo[c] = Other2
        \/ Does(c, "assert") /\ todo[c] = Other3
        \/ Does(c, "running") /\ todo[c] = Other6 /\ Requested(c)
    BY <1>3, OtherRows DEF StartStep
  <2>2. port_xSchedulerRunning /\ xt_smp_sync /\ c # 0 /\ hand[c] = <<>>
    BY <1>3, <2>1, StartPoints DEF StartingOther, Does, Begins
  <2>3. UNCHANGED <<port_xSchedulerRunning, xt_smp_sync>>
    BY <1>s, <2>2 DEF IInv, Types
  <2>4. InStart(c)
    BY <1>s, <2>3 DEF InStart, Requested
  <2>5. StartingOther(c)' \/ Started(c)'
    <3>1. Does(c, "coproc") /\ todo[c] = Other2 => StartingOther(c)'
      BY <1>s, <2>2, <2>3, StartPoints DEF StartingOther, ints
    <3>2. Does(c, "assert") /\ todo[c] = Other3 => StartingOther(c)'
      BY <1>s, <2>2, <2>3, StartPoints DEF StartingOther, ints
    <3>3. todo[c] = Other6 /\ Requested(c) => Started(c)'
      BY <1>3, <1>s, <2>2, <2>3, StartPoints, ZenonT(40) DEF StartingOther, Started, Begins, ints
    <3>4. QED
      BY <2>1, <3>1, <3>2, <3>3
  <2>6. NestingMatches' /\ Types'
    BY <1>s, <2>3 DEF IInv, Types, NestingMatches, mutexes, kernel, ints, tasks
  <2>7. QED
    BY <1>1, <1>s, <2>4, <2>5, <2>6, InStartKeeps
<1>4. QED
  BY <1>1, <1>2, <1>3

-----------------------------------------------------------------------------
(* Switches and handlers                                                   *)

\* What a step of core c that takes no part in the start leaves to the others.
Inward(c) ==
  /\ UNCHANGED start
  /\ \A d \in Cores : MutexInv(d)' /\ \A m \in Mutexes : Held(d, m)' = Held(d, m)
  /\ \A d \in Cores \ {c} :
       /\ todo'[d] = todo[d] /\ depth'[d] = depth[d] /\ hand'[d] = hand[d]
       /\ d \in suspended' <=> d \in suspended
       /\ Stored(d)' <=> Stored(d)

LEMMA InwardKeeps ==
  ASSUME IInv, NEW c \in Cores, Inward(c), Outline(c)', Types', Distinct', Kept', NestingMatches'
  PROVE  IInv'
<1>1. ASSUME NEW d \in Cores \ {c} PROVE Outline(d)'
  <2>1. /\ Still(d) /\ Requested(d)' = Requested(d)
        /\ UNCHANGED <<port_xSchedulerRunning, xt_smp_sync>>
    BY DEF Inward, start, Still, Requested
  <2>2. QED
    BY <2>1, StillOutline DEF IInv
<1>2. QED
  BY <1>1 DEF IInv, Inward

\* A step that leaves the mutexes and what the cores have to do as they are.
LEMMA SameMutexes ==
  ASSUME IInv, UNCHANGED <<mutexes, todo>>
  PROVE  \A d \in Cores : MutexInv(d)' /\ \A m \in Mutexes : Held(d, m)' = Held(d, m)
<1>1. ASSUME NEW d \in Cores
      PROVE  Untouched(d) /\ todo'[d] = todo[d] /\ inside'[d] = inside[d]
  BY DEF mutexes, Untouched
<1>2. QED
  BY <1>1, UntouchedMutexes DEF IInv

LEMMA RequestKeeps ==
  ASSUME IInv, NEW c \in Cores, UNCHANGED <<start, mutexes, todo, depth, suspended, hand,
         port_interruptNesting, tasks>>
  PROVE  IInv'
<1>1. Inward(c)
  BY SameMutexes DEF Inward, tasks, Stored
<1>2. Outline(c)'
  <2>1. /\ Still(c) /\ Requested(c)' = Requested(c)
        /\ UNCHANGED <<port_xSchedulerRunning, xt_smp_sync>>
    BY <1>1 DEF Inward, start, tasks, Still, Requested, Stored
  <2>2. QED
    BY <2>1, StillOutline DEF IInv
<1>3. Types' /\ Distinct' /\ Kept' /\ NestingMatches'
  BY DEF IInv, Types, start, mutexes, tasks, Distinct, Kept, NestingMatches
<1>4. QED
  BY <1>1, <1>2, <1>3, InwardKeeps

LEMMA YieldKeeps ==
  ASSUME IInv, NEW c \in Cores, vPortYield(c) PROVE IInv'
<1>1. /\ Serving(c) /\ At(c, todo[c], 0, 0) /\ depth[c] = 0
      /\ hand[c] = <<>> /\ c \notin suspended
  BY IdleRow, UnmaskRow, AtPoint DEF IInv, vPortYield, Runs
<1>2. /\ todo' = [todo EXCEPT ![c] = Switch] /\ frames' = frames \cup {pxCurrentTCBs[c]}
      /\ UNCHANGED <<start, mutexes, kernel, ints, pxCurrentTCBs>>
  BY DEF vPortYield, Runs, Goes, SaveSolicited, Saves
<1>3. Aside(c)
  <2>1. ~Does(c, "lock") /\ ~Does(c, "unlock")
    BY DEF vPortYield, Runs, Does
  <2>2. QED
    BY <1>2, <2>1, OutsideCalls DEF IInv, Types, Aside
<1>4. Inward(c) /\ Stored(c)'
  BY <1>2, <1>3, AsideMutexes DEF IInv, Inward, Aside, Types, Distinct, Stored, kernel, ints
<1>5. At(c, Switch, 0, 0)'
  BY <1>1, <1>2, <1>3, AtNext DEF IInv, Types, kernel
<1>6. Outline(c)'
  BY <1>1, <1>2, <1>4, <1>5 DEF Outline, Serving, Switching, Requested, start, kernel, ints
<1>7. Types' /\ Distinct' /\ Kept' /\ NestingMatches'
  BY <1>2 DEF IInv, Types, start, mutexes, kernel, ints, Distinct, Kept, NestingMatches
<1>8. QED
  BY <1>4, <1>6, <1>7, InwardKeeps

LEMMA SelectKeeps ==
  ASSUME IInv, NEW c \in Cores, Select(c) PROVE IInv'
<1>1. /\ Serving(c) /\ Switching(c) /\ At(c, Switch3, 1, 1)
      /\ depth[c] = 0 /\ hand[c] = <<>> /\ Stored(c)
  BY SelectRow DEF IInv, Select, Switching
<1>2. /\ todo' = [todo EXCEPT ![c] = Switch4]
      /\ UNCHANGED <<start, mutexes, depth, suspended, ints, frames>>
  BY <1>1, AtPoint, SwitchPoints DEF Select, Done, Goes
<1>3. Aside(c)
  <2>1. ~Does(c, "lock") /\ ~Does(c, "unlock")
    BY DEF Select, Does
  <2>2. QED
    BY <1>2, <2>1, OutsideCalls DEF IInv, Types, Aside
<1>4. PICK t \in Tasks : /\ pxCurrentTCBs' = [pxCurrentTCBs EXCEPT ![c] = t]
                         /\ \A d \in Cores \ {c} : pxCurrentTCBs[d] # t
  <2>1. CASE c \in suspended
    <3>1. pxCurrentTCBs' = [pxCurrentTCBs EXCEPT ![c] = pxCurrentTCBs[c]]
      BY <2>1 DEF Select, IInv, Types
    <3>2. \A d \in Cores \ {c} : pxCurrentTCBs[d] # pxCurrentTCBs[c]
      BY DEF IInv, Distinct
    <3>3. QED
      BY <3>1, <3>2 DEF IInv, Types
  <2>2. CASE c \notin suspended
    BY <2>2 DEF Select
  <2>3. QED
    BY <2>1, <2>2
<1>5. t \in frames
  BY <1>1, <1>4 DEF IInv, Kept, Stored
<1>6. Inward(c) /\ Stored(c)'
  BY <1>2, <1>3, <1>4, <1>5, AsideMutexes DEF IInv, Inward, Aside, Types, Stored, ints
<1>7. At(c, Switch4, 1, 1)'
  BY <1>1, <1>2, <1>3, AtNext DEF IInv, Types
<1>8. Outline(c)'
  BY <1>1, <1>2, <1>6, <1>7 DEF Outline, Serving, Switching, Requested, start, ints
<1>9. Distinct' /\ Kept'
  BY <1>1, <1>2, <1>4 DEF IInv, Types, Distinct, Kept, Stored
<1>10. Types' /\ NestingMatches'
  BY <1>2, <1>4 DEF IInv, Types, start, mutexes, ints, NestingMatches
<1>11. QED
  BY <1>6, <1>8, <1>9, <1>10, InwardKeeps

LEMMA RestoreKeeps ==
  ASSUME IInv, NEW c \in Cores, Restore(c) PROVE IInv'
<1>1. /\ Serving(c) /\ Switching(c) /\ At(c, Switch6, 0, 0)
      /\ depth[c] = 0 /\ hand[c] = <<>>
  BY RestoreRow DEF IInv, Restore, Switching
<1>2. /\ todo' = [todo EXCEPT ![c] = <<>>] /\ frames' = frames \ {pxCurrentTCBs[c]}
      /\ UNCHANGED <<start, mutexes, kernel, ints, pxCurrentTCBs>>
  BY <1>1, AtPoint, SwitchPoints DEF Restore, Resumes, Done, Goes
<1>3. Aside(c)
  <2>1. ~Does(c, "lock") /\ ~Does(c, "unlock")
    BY DEF Restore, Does
  <2>2. QED
    BY <1>2, <2>1, OutsideCalls DEF IInv, Types, Aside
<1>4. Inward(c) /\ ~Stored(c)'
  BY <1>2, <1>3, AsideMutexes DEF IInv, Inward, Aside, Types, Distinct, Stored, kernel, ints
<1>5. At(c, <<>>, 0, 0)'
  BY <1>1, <1>2, <1>3, AtNext DEF IInv, Types, kernel
<1>6. Outline(c)'
  BY <1>1, <1>2, <1>4, <1>5 DEF Outline, Serving, Working, Requested, start, kernel, ints
<1>7. Types' /\ Distinct' /\ Kept' /\ NestingMatches'
  BY <1>2 DEF IInv, Types, start, mutexes, kernel, ints, Distinct, Kept, NestingMatches
<1>8. QED
  BY <1>4, <1>6, <1>7, InwardKeeps

\* A list of handlers with one more, and without its last one.
LEMMA HandlersMore ==
  ASSUME NEW S, NEW s \in Seq(S), NEW e \in S
  PROVE  /\ Len(s) \in Nat /\ (Len(s) = 0 <=> s = <<>>)
         /\ Append(s, e) \in Seq(S) /\ Append(s, e) # <<>> /\ Len(Append(s, e)) = Len(s) + 1
BY AppendProperties, EmptySeq

LEMMA HandlersLess ==
  ASSUME NEW S, NEW s \in Seq(S), s # <<>>
  PROVE  /\ Len(s) \in Nat \ {0}
         /\ SubSeq(s, 1, Len(s) - 1) \in Seq(S)
         /\ Len(SubSeq(s, 1, Len(s) - 1)) = Len(s) - 1
         /\ Len(SubSeq(s, 1, Len(s) - 1)) = 0 <=> SubSeq(s, 1, Len(s) - 1) = <<>>
<1> DEFINE h == SubSeq(s, 1, Len(s) - 1)
<1>1. Len(s) \in Nat \ {0}
  BY EmptySeq
<1>2. \A i \in 1 .. Len(s) - 1 : s[i] \in S
  BY <1>1, ElementOfSeq
<1>3. h \in Seq(S) /\ Len(h) = Len(s) - 1
  <2>1. Len(s) - 1 \in Int /\ 1 \in Int
    BY <1>1
  <2>2. h \in Seq(S) /\ Len(h) = IF 1 <= Len(s) - 1 THEN Len(s) - 1 - 1 + 1 ELSE 0
    BY <1>2, <2>1, SubSeqProperties
  <2>3. \A n \in Nat \ {0} : (IF 1 <= n - 1 THEN n - 1 - 1 + 1 ELSE 0) = n - 1
    OBVIOUS
  <2>4. (IF 1 <= Len(s) - 1 THEN Len(s) - 1 - 1 + 1 ELSE 0) = Len(s) - 1
    BY <1>1, <2>3
  <2> HIDE DEF h
  <2>5. QED
    BY <2>2, <2>4
<1>4. Len(h) = 0 <=> h = <<>>
  BY <1>3, EmptySeq
<1>5. QED
  BY <1>1, <1>3, <1>4

\* A core that can be interrupted runs its task or a handler; core 0 in main().
LEMMA UnmaskedRows ==
  ASSUME IInv, NEW c \in Cores, Unmasked(c)
  PROVE  /\ inside[c] = "test"
         /\ \/ /\ ~Left(c) /\ Serving(c) /\ Working(c) /\ At(c, <<>>, 0, 0) /\ depth[c] = 0
               /\ port_xSchedulerRunning
            \/ /\ Does(c, "main") /\ Starting(c) /\ StartingFirst(c) /\ todo[c] = StartFirst
               /\ ~port_xSchedulerRunning
<1>1. inside[c] = "test"
  BY OutsideCalls DEF Unmasked, Does, IInv, Types
<1>2. CASE ~Left(c)
  BY <1>1, <1>2, IdleRow DEF IInv, Serving
<1>3. CASE Does(c, "main")
  BY <1>1, <1>3, StartRow, FirstRows, OtherRows DEF IInv, StartSteps
<1>4. QED
  BY <1>2, <1>3 DEF Unmasked

LEMMA IntEnterKeeps ==
  ASSUME IInv, NEW c \in Cores, NEW n \in Interrupts, _frxt_int_enter(c, n) PROVE IInv'
<1> DEFINE h == Append(hand[c], [n |-> n, ran |-> FALSE])
<1>1. /\ hand' = [hand EXCEPT ![c] = h]
      /\ UNCHANGED <<start, mutexes, todo, kernel, pxCurrentTCBs>>
  BY DEF _frxt_int_enter
<1>2. /\ h \in Seq([n : Nat, ran : BOOLEAN]) /\ h # <<>> /\ Len(h) = Len(hand[c]) + 1
      /\ Len(hand[c]) \in Nat /\ (Len(hand[c]) = 0 <=> hand[c] = <<>>)
  <2>1. n \in Nat
    BY XtSmpAssumption DEF Interrupts
  <2>2. [n |-> n, ran |-> FALSE] \in [n : Nat, ran : BOOLEAN]
    BY <2>1
  <2>3. hand[c] \in Seq([n : Nat, ran : BOOLEAN])
    BY DEF IInv, Types
  <2>4. QED
    BY <2>2, <2>3, HandlersMore
<1>3. \A d \in Cores : MutexInv(d)' /\ \A m \in Mutexes : Held(d, m)' = Held(d, m)
  BY <1>1, SameMutexes
<1>4. CASE ~Left(c) /\ Serving(c) /\ Working(c) /\ At(c, <<>>, 0, 0) /\ depth[c] = 0
           /\ port_xSchedulerRunning
  <2>1. port_interruptNesting' = [port_interruptNesting EXCEPT ![c] = port_interruptNesting[c] + 1]
    BY <1>4 DEF _frxt_int_enter, Counts
  <2>2. port_interruptNesting[c] = Len(hand[c])
    BY <1>4 DEF IInv, NestingMatches
  <2>3. frames' = frames \cup {pxCurrentTCBs[c]}
    <3>1. CASE hand[c] = <<>>
      BY <1>2, <1>4, <2>2, <3>1 DEF _frxt_int_enter, Counts, Saves
    <3>2. CASE hand[c] # <<>>
      <4>1. UNCHANGED frames
        BY <1>2, <1>4, <2>2, <3>2 DEF _frxt_int_enter, Counts
      <4>2. pxCurrentTCBs[c] \in frames
        BY <1>4, <3>2 DEF Working, Stored
      <4>3. QED
        BY <4>1, <4>2
    <3>3. QED
      BY <3>1, <3>2
  <2>4. Inward(c) /\ Stored(c)'
    BY <1>1, <1>3, <2>3 DEF IInv, Inward, Types, Distinct, Stored, kernel
  <2>5. At(c, <<>>, 0, 0)'
    BY <1>1, <1>3, <1>4 DEF At, Mutexes, kernel
  <2>6. Outline(c)'
    <3>1. hand'[c] # <<>> /\ depth'[c] = 0
      BY <1>1, <1>2, <1>4 DEF IInv, Types, kernel
    <3>2. QED
      BY <1>1, <1>4, <2>4, <2>5, <3>1 DEF Outline, Serving, Working, Requested, start
  <2>7. Types'
    BY <1>1, <1>2, <2>1, <2>3 DEF IInv, Types, start, mutexes, kernel
  <2>8. NestingMatches'
    BY <1>1, <1>2, <1>4, <2>1, <2>2 DEF IInv, Types, start, NestingMatches
  <2>9. Distinct' /\ Kept'
    BY <1>1, <2>3 DEF IInv, Distinct, Kept
  <2>10. QED
    BY <2>4, <2>6, <2>7, <2>8, <2>9, InwardKeeps
<1>5. CASE /\ Does(c, "main") /\ Starting(c) /\ StartingFirst(c) /\ todo[c] = StartFirst
           /\ ~port_xSchedulerRunning
  <2>1. UNCHANGED <<port_interruptNesting, frames>>
    BY <1>5 DEF _frxt_int_enter, Counts
  <2>2. Inward(c) /\ Stored(c)' = Stored(c)
    BY <1>1, <1>3, <2>1 DEF IInv, Inward, Types, Stored, kernel
  <2>3. Outline(c)'
    BY <1>1, <1>3, <1>5, <2>2 DEF Outline, Starting, StartingFirst, start, kernel
  <2>4. Types' /\ NestingMatches' /\ Distinct' /\ Kept'
    BY <1>1, <1>2, <1>5, <2>1
       DEF IInv, Types, start, mutexes, kernel, NestingMatches, Distinct, Kept
  <2>5. QED
    BY <2>2, <2>3, <2>4, InwardKeeps
<1>6. QED
  BY <1>4, <1>5, UnmaskedRows DEF _frxt_int_enter

LEMMA HandleKeeps ==
  ASSUME IInv, NEW c \in Cores, Handle(c) PROVE IInv'
<1>1. /\ hand' = [hand EXCEPT ![c][Len(hand[c])].ran = TRUE] /\ hand[c] # <<>>
      /\ UNCHANGED <<start, mutexes, kernel, port_interruptNesting, tasks>>
  BY DEF Handle
<1>2. /\ hand'[c] # <<>> /\ Len(hand'[c]) = Len(hand[c])
      /\ \A d \in Cores \ {c} : hand'[d] = hand[d]
      /\ hand' \in [Cores -> Seq([n : Nat, ran : BOOLEAN])]
  <2>1. hand[c] \in Seq([n : Nat, ran : BOOLEAN]) /\ Len(hand[c]) \in 1 .. Len(hand[c])
    BY <1>1 DEF IInv, Types
  <2>2. [hand[c][Len(hand[c])] EXCEPT !.ran = TRUE] \in [n : Nat, ran : BOOLEAN]
    <3>1. hand[c][Len(hand[c])] \in [n : Nat, ran : BOOLEAN]
      BY <2>1, ElementOfSeq
    <3>2. QED
      BY <3>1
  <2>3. [hand[c] EXCEPT ![Len(hand[c])] = [hand[c][Len(hand[c])] EXCEPT !.ran = TRUE]]
          \in Seq([n : Nat, ran : BOOLEAN])
    BY <2>1, <2>2
  <2>4. hand' = [hand EXCEPT ![c] = [hand[c] EXCEPT ![Len(hand[c])] =
                   [hand[c][Len(hand[c])] EXCEPT !.ran = TRUE]]]
    BY <1>1
  <2>5. QED
    BY <1>1, <2>1, <2>3, <2>4 DEF IInv, Types
<1>3. CASE UNCHANGED todo
  <2>1. Inward(c)
    BY <1>1, <1>2, <1>3, SameMutexes DEF Inward, tasks, kernel, Stored
  <2>2. Outline(c)'
    <3>1. /\ Still(c) /\ Requested(c)' = Requested(c)
          /\ UNCHANGED <<port_xSchedulerRunning, xt_smp_sync>>
      BY <1>1, <1>2, <1>3, <2>1 DEF Inward, start, tasks, kernel, Still, Requested, Stored
    <3>2. QED
      BY <3>1, StillOutline DEF IInv
  <2>3. Types' /\ Distinct' /\ Kept' /\ NestingMatches'
    BY <1>1, <1>2, <1>3
       DEF IInv, Types, start, mutexes, tasks, kernel, Distinct, Kept, NestingMatches
  <2>4. QED
    BY <2>1, <2>2, <2>3, InwardKeeps
<1>4. CASE Runs(c, Enter(c))
  <2>1. Serving(c) /\ Working(c) /\ At(c, <<>>, 0, 0) /\ depth[c] = 0
    BY <1>4, IdleRow DEF IInv, Runs
  <2>2. todo' = [todo EXCEPT ![c] = EnterIsr]
    BY <1>1, <1>4, <2>1 DEF Runs, Goes, Enter, EnterIsr, LI
  <2>3. Aside(c)
    <3>1. ~Does(c, "lock") /\ ~Does(c, "unlock")
      BY <1>4 DEF Runs, Does
    <3>2. QED
      BY <1>1, <2>2, <3>1, OutsideCalls DEF IInv, Types, Aside
  <2>4. Inward(c)
    BY <1>1, <1>2, <2>3, AsideMutexes DEF Inward, Aside, tasks, kernel, Stored
  <2>5. At(c, EnterIsr, 0, 0)'
    BY <1>1, <2>1, <2>2, <2>3, AtNext DEF IInv, Types, kernel
  <2>6. Outline(c)'
    <3>1. OwnTask(c)' = 0 /\ depth'[c] = 0 /\ hand'[c] # <<>> /\ Stored(c)'
      BY <1>1, <1>2, <2>1 DEF OwnTask, kernel, tasks, Working, Stored
    <3>2. Working(c)'
      BY <2>5, <3>1 DEF Working
    <3>3. QED
      BY <1>1, <2>1, <3>2 DEF Outline, Serving, Requested, start
  <2>7. Types' /\ Distinct' /\ Kept' /\ NestingMatches'
    BY <1>1, <1>2, <2>2
       DEF IInv, Types, start, mutexes, tasks, kernel, Distinct, Kept, NestingMatches
  <2>8. QED
    BY <2>4, <2>6, <2>7, InwardKeeps
<1>5. QED
  BY <1>3, <1>4 DEF Handle

LEMMA IntExitKeeps ==
  ASSUME IInv, NEW c \in Cores, _frxt_int_exit(c) PROVE IInv'
<1> DEFINE h == SubSeq(hand[c], 1, Len(hand[c]) - 1)
<1>1. /\ hand' = [hand EXCEPT ![c] = h] /\ hand[c] # <<>>
      /\ UNCHANGED <<start, mutexes, kernel, pxCurrentTCBs>>
  BY DEF _frxt_int_exit
<1>2. /\ h \in Seq([n : Nat, ran : BOOLEAN]) /\ Len(h) = Len(hand[c]) - 1
      /\ Len(hand[c]) \in Nat \ {0} /\ (Len(h) = 0 <=> h = <<>>)
  <2>1. hand[c] \in Seq([n : Nat, ran : BOOLEAN])
    BY DEF IInv, Types
  <2>2. QED
    BY <1>1, <2>1, HandlersLess
<1>3. CASE ~Left(c) /\ Serving(c) /\ Working(c) /\ At(c, <<>>, 0, 0) /\ depth[c] = 0
           /\ port_xSchedulerRunning /\ inside[c] = "test"
  <2>1. /\ port_interruptNesting' = [port_interruptNesting EXCEPT ![c] = port_interruptNesting[c] - 1]
        /\ port_interruptNesting[c] = Len(hand[c]) /\ Stored(c)
    BY <1>1, <1>3 DEF _frxt_int_exit, Counts, IInv, NestingMatches, Working
  <2>2. NestingMatches'
    BY <1>1, <1>2, <1>3, <2>1 DEF IInv, Types, start, NestingMatches
  <2>3. CASE SwitchDue(c)
    <3>1. todo' = [todo EXCEPT ![c] = Switch] /\ UNCHANGED frames
      BY <1>3, <2>3 DEF _frxt_int_exit, Counts, Runs, Goes
    <3>2. Aside(c)
      BY <1>1, <1>3, <3>1 DEF IInv, Types, Aside
    <3>3. Inward(c) /\ Stored(c)'
      BY <1>1, <2>1, <3>1, <3>2, AsideMutexes DEF IInv, Types, Inward, Aside, kernel, Stored
    <3>4. At(c, Switch, 0, 0)'
      BY <1>1, <1>3, <3>1, <3>2, AtNext DEF IInv, Types, kernel
    <3>5. hand'[c] = <<>> /\ depth'[c] = 0
      BY <1>1, <1>2, <1>3, <2>1, <2>3 DEF IInv, Types, SwitchDue, kernel
    <3>6. Outline(c)'
      BY <1>1, <1>3, <3>3, <3>4, <3>5 DEF Outline, Serving, Switching, Requested, start
    <3>7. Types' /\ Distinct' /\ Kept'
      BY <1>1, <1>2, <2>1, <3>1, SMTT(30) DEF IInv, Types, start, mutexes, kernel, Distinct, Kept
    <3>8. QED
      BY <2>2, <3>3, <3>6, <3>7, InwardKeeps
  <2>4. CASE ~SwitchDue(c)
    <3>1. UNCHANGED todo
      BY <1>3, <2>4 DEF _frxt_int_exit, Counts
    <3>2. frames' = IF Len(hand[c]) = 1 THEN frames \ {pxCurrentTCBs[c]} ELSE frames
      BY <1>3, <2>1, <2>4 DEF _frxt_int_exit, Counts, Resumes
    <3>3. Inward(c) /\ (Stored(c)' <=> Len(hand[c]) # 1)
      BY <1>1, <2>1, <3>1, <3>2, SameMutexes DEF IInv, Types, Distinct, Inward, kernel, Stored
    <3>4. At(c, <<>>, 0, 0)'
      BY <1>1, <1>3, <3>1, <3>3 DEF Inward, At, Mutexes, kernel
    <3>5. (hand'[c] = <<>> <=> Len(hand[c]) = 1) /\ depth'[c] = 0
      BY <1>1, <1>2, <1>3 DEF IInv, Types, kernel
    <3>6. Outline(c)'
      BY <1>1, <1>3, <3>3, <3>4, <3>5 DEF Outline, Serving, Working, Requested, start
    <3>7. Types' /\ Distinct' /\ Kept'
      BY <1>1, <1>2, <2>1, <3>1, <3>2, SMTT(30) DEF IInv, Types, start, mutexes, kernel, Distinct, Kept
    <3>8. QED
      BY <2>2, <3>3, <3>6, <3>7, InwardKeeps
  <2>5. QED
    BY <2>3, <2>4
<1>4. CASE /\ Does(c, "main") /\ Starting(c) /\ StartingFirst(c) /\ todo[c] = StartFirst
           /\ ~port_xSchedulerRunning
  <2>1. UNCHANGED <<port_interruptNesting, todo, frames>>
    BY <1>4 DEF _frxt_int_exit, Counts
  <2>2. Inward(c) /\ Stored(c)' = Stored(c)
    BY <1>1, <2>1, SameMutexes DEF IInv, Inward, Types, Stored, kernel
  <2>3. StartingFirst(c)'
    BY <1>1, <1>4, <2>1 DEF StartingFirst, start
  <2>4. Outline(c)'
    BY <1>1, <1>4, <2>2, <2>3 DEF Inward, Outline, Starting, kernel
  <2>5. Types' /\ NestingMatches' /\ Distinct' /\ Kept'
    BY <1>1, <1>2, <1>4, <2>1
       DEF IInv, Types, start, mutexes, kernel, NestingMatches, Distinct, Kept
  <2>6. QED
    BY <2>2, <2>4, <2>5, InwardKeeps
<1>5. QED
  BY <1>3, <1>4, UnmaskedRows DEF _frxt_int_exit

-----------------------------------------------------------------------------
(* The invariant                                                           *)

LEMMA InitInv == Init => IInv
<1> SUFFICES ASSUME Init PROVE IInv
  OBVIOUS
<1> USE XtSmpAssumption
<1>1. Types
  <2>1. /\ handlers = UNION {Devices[c] : c \in Cores}
        /\ \A c \in Cores : xt_intenable[c] = Devices[c] \ {XT_TIMER_INTNUM}
        /\ xt_intenable = [c \in Cores |-> Devices[c] \ {XT_TIMER_INTNUM}]
    BY DEF Init
  <2>2. \A c \in Cores : Devices[c] \subseteq Interrupts /\ Devices[c] \subseteq handlers
    BY <2>1 DEF Interrupts
  <2>3. /\ xt_intenable \in [Cores -> SUBSET Interrupts]
        /\ \A c \in Cores : xt_intenable[c] \subseteq handlers
    BY <2>1, <2>2
  <2>4. hand \in [Cores -> Seq([n : Nat, ran : BOOLEAN])]
    BY DEF Init
  <2>5. /\ owner \in [Mutexes -> {0} \cup {Id(c) : c \in Cores}] /\ count \in [Mutexes -> Nat]
        /\ inside \in [Cores -> {"test", "take", "count", "free"}] /\ DOMAIN todo = Cores
    BY DEF Init
  <2>6. QED
    BY <2>2, <2>3, <2>4, <2>5 DEF Types, Init
<1>2. Distinct /\ Kept /\ NestingMatches
  BY DEF Init, Distinct, Kept, NestingMatches
<1>3. ASSUME NEW c \in Cores PROVE MutexInv(c) /\ Outline(c)
  <2>1. \A m \in Mutexes : owner[m] = 0 /\ Held(c, m) = 0 /\ Id(c) # 0
    BY CoreIds DEF Init, Held
  <2>2. MutexInv(c)
    BY <2>1 DEF Init, MutexInv, Amid
  <2>3. StartingFirst(c) \/ StartingOther(c)
    BY DEF Init, Boot, StartingFirst, StartingOther
  <2>4. QED
    BY <2>1, <2>2, <2>3 DEF Init, Outline, Starting, Stored
<1>4. QED
  BY <1>1, <1>2, <1>3 DEF IInv

LEMMA NextInv == IInv /\ [Next]_vars => IInv'
<1> SUFFICES ASSUME IInv, [Next]_vars PROVE IInv'
  OBVIOUS
<1>1. CASE UNCHANGED vars
  BY <1>1, XtSmpAssumption, RequestKeeps DEF vars, kernel, ints
<1>2. ASSUME NEW c \in Cores, Step(c) PROVE IInv'
  BY <1>2, StartSchedulerKeeps, MemmapInitKeeps, MutexInitKeeps, EnableRequestsKeeps,
     EnableTickKeeps, StartStepKeeps, LockTestKeeps, TakeKeeps, SetCountKeeps, UnlockKeeps,
     FreeKeeps, DeeperKeeps, ShallowerKeeps, SuspendKeeps, UnmaskKeeps, DispatchKeeps,
     SelectKeeps, RestoreKeeps, HandleKeeps, IntExitKeeps
     DEF Step, xt_mutex_lock
<1>3. ASSUME NEW c \in Cores,
             \/ EnterCritical(c) \/ Nest(c) \/ ExitCritical(c)
             \/ SuspendAll(c) \/ ResumeAll(c) \/ vPortYield(c)
      PROVE  IInv'
  BY <1>3, EnterCriticalKeeps, NestKeeps, ExitCriticalKeeps, SuspendAllKeeps, ResumeAllKeeps,
     YieldKeeps
<1>4. ASSUME NEW c \in Cores, NEW d \in Cores, portYIELD_CORE(c, d) PROVE IInv'
  BY <1>4, RequestKeeps DEF portYIELD_CORE
<1>5. ASSUME NEW c \in Cores, NEW n \in Devices[c], Raise(c, n) PROVE IInv'
  BY <1>5, RequestKeeps DEF Raise, kernel
<1>6. ASSUME NEW c \in Cores, NEW n \in Interrupts, _frxt_int_enter(c, n) PROVE IInv'
  BY <1>6, IntEnterKeeps
<1>7. QED
  BY <1>1, <1>2, <1>3, <1>4, <1>5, <1>6 DEF Next

LEMMA Inductive == Spec => []IInv
BY InitInv, NextInv, PTL DEF Spec

LEMMA HoldsOutsideCalls ==
  ASSUME IInv, NEW c \in Cores, inside[c] = "test", NEW m \in Mutexes
  PROVE  Holds[c][m] = Held(c, m)
BY DEF Holds, In, Held, Amid

\* vTaskSwitchContext runs with both mutexes, outside sections and handlers, and
\* with the task mutex twice when the scheduler is suspended.
THEOREM XtSmpSwitchSafe == Spec => []SwitchSafe
<1>1. IInv => SwitchSafe
  <2> SUFFICES ASSUME IInv, NEW c \in Cores, Does(c, "select")
               PROVE  /\ hand[c] = <<>> /\ depth[c] = 0
                      /\ \A m \in Mutexes :
                           Holds[c][m] = IF m = TASK /\ c \in suspended THEN 2 ELSE 1
    BY DEF SwitchSafe
  <2>1. Switching(c) /\ At(c, Switch3, 1, 1)
    BY SelectRow DEF IInv
  <2>2. inside[c] = "test"
    BY OutsideCalls DEF IInv, Types, Does
  <2>3. \A m \in Mutexes : Held(c, m) = IF m = TASK /\ c \in suspended THEN 2 ELSE 1
    BY <2>1 DEF At, Mutexes, TASK, ISR
  <2>4. QED
    BY <2>1, <2>2, <2>3, HoldsOutsideCalls DEF Switching
<1>2. QED
  BY <1>1, Inductive, PTL

\* No core restores a task whose context another has not stored, and none runs a
\* task with a stale frame behind it.
THEOREM XtSmpContextsIntact == Spec => []ContextsIntact
<1>1. IInv => ContextsIntact
  <2> SUFFICES ASSUME IInv, NEW c \in Cores
               PROVE  /\ Does(c, "restore") => pxCurrentTCBs[c] \in frames
                      /\ ~Left(c) /\ hand[c] = <<>> => pxCurrentTCBs[c] \notin frames
    BY DEF ContextsIntact
  <2>1. Does(c, "restore") => Stored(c)
    BY RestoreRow DEF IInv, Switching
  <2>2. ~Left(c) => Working(c)
    BY IdleRow DEF IInv
  <2>3. QED
    BY <2>1, <2>2 DEF Working, Stored
<1>2. QED
  BY <1>1, Inductive, PTL

\* port_interruptNesting is the number of handlers, from the start on.
THEOREM XtSmpNestingMatches == Spec => []NestingMatches
<1>1. IInv => NestingMatches
  BY DEF IInv
<1>2. QED
  BY <1>1, Inductive, PTL

\* The assertion that the cores apart from core 0 make when they start holds, and
\* each core has enabled the requests of all others when it comes to its tasks.
THEOREM XtSmpStartInOrder == Spec => []StartInOrder
<1>1. IInv => StartInOrder
  <2> SUFFICES ASSUME IInv, NEW c \in Cores
               PROVE  /\ Does(c, "assert") => port_xSchedulerRunning
                      /\ \A d \in Cores \ {c} : /\ d \in xt_intenable[c] => d \in handlers
                                                /\ ~Left(c) => d \in xt_intenable[c]
    BY DEF StartInOrder
  <2>1. Does(c, "assert") => port_xSchedulerRunning
    BY StartRow, FirstRows, OtherRows DEF IInv, StartSteps
  <2>2. ~Left(c) => Requested(c)
    BY IdleRow DEF IInv, Serving
  <2>3. QED
    BY <2>1, <2>2 DEF IInv, Types, Requested
<1>2. QED
  BY <1>1, Inductive, PTL

-----------------------------------------------------------------------------
(* The mutexes implement the abstract lock                                 *)

\* What a step of core c that is not in a call does to the mutexes.
Quiet(c) ==
  /\ UNCHANGED mutexes
  /\ \A d \in Cores : todo'[d] = todo[d] \/ (d = c /\ ~Does(c, "lock"))

LEMMA QuietHolds ==
  ASSUME IInv, NEW c \in Cores, Quiet(c) PROVE UNCHANGED Holds
<1>1. \A d \in Cores, m \in Mutexes :
        (In(d, "lock", "count") /\ M(d) = m)' <=> (In(d, "lock", "count") /\ M(d) = m)
  <2> SUFFICES ASSUME NEW d \in Cores, NEW m \in Mutexes
               PROVE  (In(d, "lock", "count") /\ M(d) = m)' <=> (In(d, "lock", "count") /\ M(d) = m)
    OBVIOUS
  <2>1. inside'[d] = inside[d]
    BY DEF Quiet, mutexes
  <2>2. CASE todo'[d] = todo[d]
    BY <2>1, <2>2 DEF In, M, Does, Left
  <2>3. CASE ~Does(d, "lock")
    BY <2>1, <2>3 DEF In, IInv, MutexInv
  <2>4. QED
    BY <2>2, <2>3 DEF Quiet
<1>2. QED
  BY <1>1 DEF Holds, Quiet, mutexes

LEMMA SectionQuiet ==
  ASSUME NEW c \in Cores, IInv,
         \/ EnterCritical(c) \/ Nest(c) \/ ExitCritical(c) \/ SuspendAll(c) \/ ResumeAll(c)
         \/ vPortYield(c) \/ Deeper(c) \/ Shallower(c) \/ Suspend(c) \/ Unmask(c)
         \/ Dispatch(c) \/ Select(c) \/ Restore(c)
  PROVE  Quiet(c)
BY
   DEF IInv, Types, EnterCritical, Nest, ExitCritical, SuspendAll, ResumeAll, vPortYield,
       Deeper,
       Shallower, Suspend, Unmask, Dispatch, Select, Restore, Quiet, Does, Runs, Done, Goes,
       Unhurried

LEMMA OtherQuiet ==
  ASSUME NEW c \in Cores, IInv,
         \/ StartScheduler(c) \/ __memmap_init(c) \/ EnableRequests(c) \/ EnableTick(c)
         \/ StartStep(c) \/ Handle(c) \/ _frxt_int_exit(c)
         \/ (\E d \in Cores : portYIELD_CORE(c, d)) \/ (\E n \in Devices[c] : Raise(c, n))
         \/ (\E n \in Interrupts : _frxt_int_enter(c, n))
  PROVE  Quiet(c)
BY
   DEF IInv, Types, StartScheduler, __memmap_init, EnableRequests, EnableTick, StartStep,
       Handle,
       _frxt_int_exit, portYIELD_CORE, Raise, _frxt_int_enter, Quiet, Does, Runs, Done, Goes

\* One entry of Holds changes.
LEMMA HoldsChanges ==
  ASSUME NEW c \in Cores, NEW l \in Mutexes, NEW x, Holds'[c][l] = x,
         \A d \in Cores, m \in Mutexes : d # c \/ m # l => Holds'[d][m] = Holds[d][m]
  PROVE  Holds' = [Holds EXCEPT ![c][l] = x]
<1> DEFINE New == [Holds EXCEPT ![c][l] = x]
<1>1. /\ Holds' = [d \in Cores |-> Holds'[d]]
      /\ \A d \in Cores : Holds'[d] = [m \in Mutexes |-> Holds'[d][m]]
  BY DEF Holds
<1>2. /\ Holds = [d \in Cores |-> Holds[d]]
      /\ \A d \in Cores : Holds[d] = [m \in Mutexes |-> Holds[d][m]]
  BY DEF Holds
<1>3. New = [d \in Cores |-> IF d = c THEN [Holds[c] EXCEPT ![l] = x] ELSE Holds[d]]
  BY <1>2
<1>4. Holds'[c] = [Holds[c] EXCEPT ![l] = x]
  <2>1. [Holds[c] EXCEPT ![l] = x] = [m \in Mutexes |-> IF m = l THEN x ELSE Holds[c][m]]
    BY <1>2
  <2>2. \A m \in Mutexes : Holds'[c][m] = IF m = l THEN x ELSE Holds[c][m]
    OBVIOUS
  <2>3. QED
    BY <1>1, <2>1, <2>2
<1>5. \A d \in Cores \ {c} : Holds'[d] = Holds[d]
  BY <1>1, <1>2
<1>6. QED
  BY <1>1, <1>3, <1>4, <1>5

LEMMA LockTestRefines ==
  ASSUME IInv, NEW c \in Cores, LockTest(c) PROVE [Abstract!Next]_Holds
<1> DEFINE m == M(c)
<1>1. m \in Mutexes /\ Does(c, "lock") /\ inside[c] = "test"
  BY LockRows DEF IInv, LockTest, In
<1>2. CASE owner[m] = Id(c)
  <2>1. /\ count' = [count EXCEPT ![m] = count[m] + 1] /\ UNCHANGED owner
        /\ inside' = [inside EXCEPT ![c] = "test"]
        /\ todo' = [todo EXCEPT ![c] = Tail(todo[c])]
    BY <1>2 DEF LockTest, Count, Returns, Done, Goes
  <2>2. Abstract!FreeFor(c, m)
    BY <1>1, <1>2, CoreIds DEF Abstract!FreeFor, Holds
  <2>3. /\ Holds'[c][m] = Holds[c][m] + 1
        /\ \A n \in Mutexes \ {m} : Holds'[c][n] = Holds[c][n]
    BY <1>1, <1>2, <2>1 DEF Holds, In, IInv, Types
  <2>4. \A d \in Cores \ {c}, n \in Mutexes : Holds'[d][n] = Holds[d][n]
    BY <1>1, <1>2, <2>1, CoreIds DEF Holds, In, Does, Left, M, IInv, Types
  <2>5. Abstract!Acquire(c, m)
    BY <1>1, <2>2, <2>3, <2>4, HoldsChanges DEF Abstract!Acquire
  <2>6. QED
    BY <1>1, <2>5 DEF Abstract!Next
<1>3. CASE owner[m] # Id(c)
  <2>1. /\ UNCHANGED <<owner, count, todo>>
        /\ inside' = [inside EXCEPT ![c] = "take"]
    BY <1>3 DEF LockTest, To
  <2>2. UNCHANGED Holds
    BY <1>1, <1>3, <2>1 DEF Holds, In, Does, Left, M, IInv, Types
  <2>3. QED
    BY <2>2
<1>4. QED
  BY <1>2, <1>3

LEMMA TakeRefines ==
  ASSUME IInv, NEW c \in Cores, Take(c) PROVE Abstract!Next
<1> DEFINE m == M(c)
<1>1. /\ m \in Mutexes /\ Does(c, "lock") /\ inside[c] = "take" /\ owner[m] = 0
      /\ owner' = [owner EXCEPT ![m] = Id(c)] /\ inside' = [inside EXCEPT ![c] = "count"]
      /\ UNCHANGED <<count, todo>>
  BY LockRows DEF IInv, Take, In, Own, To
<1>2. Abstract!FreeFor(c, m)
  BY <1>1, CoreIds DEF Abstract!FreeFor, Holds
<1>3. /\ Holds[c][m] = 0 /\ Holds'[c][m] = 1
      /\ \A n \in Mutexes \ {m} : Holds'[c][n] = Holds[c][n]
  BY <1>1, CoreIds DEF Holds, In, Does, Left, M, IInv, Types
<1>4. \A d \in Cores \ {c}, n \in Mutexes : Holds'[d][n] = Holds[d][n]
  BY <1>1, CoreIds DEF Holds, In, Does, Left, M, IInv, Types
<1>5. Abstract!Acquire(c, m)
  BY <1>1, <1>2, <1>3, <1>4, HoldsChanges DEF Abstract!Acquire
<1>6. QED
  BY <1>1, <1>5 DEF Abstract!Next

LEMMA SetCountRefines ==
  ASSUME IInv, NEW c \in Cores, SetCount(c) PROVE UNCHANGED Holds
<1> DEFINE m == M(c)
<1>1. /\ m \in Mutexes /\ Does(c, "lock") /\ inside[c] = "count"
      /\ count' = [count EXCEPT ![m] = 1] /\ inside' = [inside EXCEPT ![c] = "test"]
      /\ todo' = [todo EXCEPT ![c] = Tail(todo[c])] /\ UNCHANGED owner
  BY LockRows DEF IInv, SetCount, In, Count, Returns, Done, Goes
<1>2. owner[m] = Id(c)
  BY <1>1 DEF IInv, MutexInv, Amid
<1>3. \A n \in Mutexes : Holds'[c][n] = Holds[c][n]
  BY <1>1, <1>2 DEF Holds, In, IInv, Types
<1>4. \A d \in Cores \ {c}, n \in Mutexes : Holds'[d][n] = Holds[d][n]
  BY <1>1, <1>2, CoreIds DEF Holds, In, Does, Left, M, IInv, Types
<1>5. QED
  BY <1>3, <1>4 DEF Holds

LEMMA UnlockRefines ==
  ASSUME IInv, NEW c \in Cores, xt_mutex_unlock(c) PROVE Abstract!Next
<1> DEFINE m == M(c)
<1>1. /\ m \in Mutexes /\ Does(c, "unlock") /\ inside[c] = "test"
      /\ owner[m] = Id(c) /\ count[m] \in Nat \ {0}
  <2>1. m \in Mutexes /\ Does(c, "unlock") /\ inside[c] = "test" /\ Held(c, m) \in Nat \ {0}
    BY UnlockRows, UnlockHeld DEF IInv, xt_mutex_unlock, In
  <2>2. QED
    BY <2>1 DEF Held, Amid
<1>2. /\ count' = [count EXCEPT ![m] = count[m] - 1] /\ UNCHANGED owner
      /\ inside'[c] \in {"test", "free"}
      /\ \A d \in Cores \ {c} : inside'[d] = inside[d] /\ todo'[d] = todo[d]
  BY <1>1 DEF xt_mutex_unlock, Count, Returns, To, Done, Goes, IInv, Types
<1>3. /\ Holds[c][m] > 0 /\ Holds'[c][m] = Holds[c][m] - 1
      /\ \A n \in Mutexes \ {m} : Holds'[c][n] = Holds[c][n]
  BY <1>1, <1>2 DEF Holds, In, IInv, Types
<1>4. \A d \in Cores \ {c}, n \in Mutexes : Holds'[d][n] = Holds[d][n]
  BY <1>1, <1>2, CoreIds DEF Holds, In, Does, Left, M, IInv, Types
<1>5. Abstract!Release(c, m)
  BY <1>1, <1>3, <1>4, HoldsChanges DEF Abstract!Release
<1>6. QED
  BY <1>1, <1>5 DEF Abstract!Next

LEMMA FreeRefines ==
  ASSUME IInv, NEW c \in Cores, Free(c) PROVE UNCHANGED Holds
<1> DEFINE m == M(c)
<1>1. /\ m \in Mutexes /\ Does(c, "unlock") /\ inside[c] = "free"
      /\ owner' = [owner EXCEPT ![m] = 0] /\ inside' = [inside EXCEPT ![c] = "test"]
      /\ todo' = [todo EXCEPT ![c] = Tail(todo[c])] /\ UNCHANGED count
  BY UnlockRows DEF IInv, Free, In, Own, Returns, Done, Goes
<1>2. owner[m] = Id(c) /\ count[m] = 0
  BY <1>1 DEF IInv, MutexInv, Amid
<1>3. \A n \in Mutexes : Holds'[c][n] = Holds[c][n]
  BY <1>1, <1>2, CoreIds DEF Holds, In, IInv, Types
<1>4. \A d \in Cores \ {c}, n \in Mutexes : Holds'[d][n] = Holds[d][n]
  BY <1>1, <1>2, CoreIds DEF Holds, In, Does, Left, M, IInv, Types
<1>5. QED
  BY <1>3, <1>4 DEF Holds

\* xt_mutex_init takes no mutex from a core.
LEMMA MutexInitRefines ==
  ASSUME IInv, NEW c \in Cores, xt_mutex_init(c) PROVE UNCHANGED Holds
<1>1. Starting(c) /\ StartingFirst(c)
  BY StartRow, FirstRows, OtherRows DEF IInv, xt_mutex_init, StartSteps
<1>2. ASSUME NEW d \in Cores, NEW m \in Mutexes PROVE Holds[d][m] = 0
  <2>1. Starting(d)
    BY <1>1, StartOrder DEF StartingFirst
  <2>2. inside[d] = "test"
    BY <2>1, StartHead, OutsideCalls DEF StartSteps, Does, IInv, Types
  <2>3. QED
    BY <2>1, <2>2, HoldsOutsideCalls DEF Starting
<1>3. \A d \in Cores, m \in Mutexes : Holds'[d][m] = 0
  BY CoreIds DEF xt_mutex_init, Holds
<1>4. QED
  BY <1>2, <1>3 DEF Holds

LEMMA StepRefines == IInv /\ [Next]_vars => [Abstract!Next]_Holds
<1> SUFFICES ASSUME IInv, [Next]_vars PROVE [Abstract!Next]_Holds
  OBVIOUS
<1>1. CASE UNCHANGED vars
  BY <1>1, XtSmpAssumption, QuietHolds DEF vars, Quiet
<1>2. ASSUME NEW c \in Cores,
             \/ LockTest(c) \/ Take(c) \/ SetCount(c) \/ xt_mutex_unlock(c) \/ Free(c)
             \/ xt_mutex_init(c)
      PROVE  [Abstract!Next]_Holds
  BY <1>2, LockTestRefines, TakeRefines, SetCountRefines, UnlockRefines, FreeRefines,
     MutexInitRefines
<1>3. ASSUME NEW c \in Cores, Quiet(c) PROVE [Abstract!Next]_Holds
  BY <1>3, QuietHolds
<1>4. QED
  BY <1>1, <1>2, <1>3, SectionQuiet, OtherQuiet DEF Next, Step, xt_mutex_lock

\* xt_mutex implements the lock the kernel relies on, for any number of cores,
\* though the count is written apart from the owner and core 0 clears both.
THEOREM XtSmpRefinement == Spec => ImplementsCoreLock
<1>1. Init => Abstract!Init
  BY CoreIds DEF Init, Abstract!Init, Holds
<1>2. QED
  BY <1>1, Inductive, StepRefines, PTL DEF Spec, ImplementsCoreLock, Abstract!Spec
=============================================================================
