------------------------------ MODULE AurixCsa ------------------------------
(***************************************************************************)
(* Context save areas (CSAs) in the AURIX ports (TC4xx, and TC3xx, which   *)
(* shares the code).  The hardware keeps the free areas in a list headed   *)
(* by FCX and the contexts of the running code in a list headed by PCXI;   *)
(* a call, an interrupt or a trap moves the head of FCX to PCXI, and       *)
(* returning moves it back.  The port switches tasks by exchanging PCXI,   *)
(* or a link further down in it, for the list of another task, builds the  *)
(* list of a new task from two free areas, and returns a deleted task's    *)
(* list to FCX.                                                            *)
(*                                                                         *)
(* One core.  The state of interrupts is ICR.CCPN: 0, the priority of the  *)
(* context switch interrupt, or the priority of critical sections.         *)
(***************************************************************************)
EXTENDS Naturals, FiniteSets

LOCAL INSTANCE FiniteSetsExt

CONSTANTS Areas,      \* the context save areas, 1 .. N
          Tasks,      \* tasks that may exist
          Resident,   \* one that is never deleted; it cleans up after others
          CallDepth,  \* configSYSCALL_CALL_DEPTH
          YieldId,    \* configYIELD_SYSCALL_ID
          MaxCalls,   \* bound: nested calls of each task
          MaxNesting  \* bound: nested critical sections of a task

ASSUME CsaAssumption ==
  /\ IsFiniteSet(Areas) /\ Areas # {} /\ Areas = 1 .. Cardinality(Areas)
  /\ Resident \in Tasks
  /\ Tasks \cap {"free", "running", "new"} = {}  \* where other areas are
  /\ CallDepth \in Nat \ {0}
  /\ YieldId \in Nat
  /\ MaxCalls \in [Tasks -> Nat]
  /\ MaxNesting \in Nat
  \* The application has provided enough areas.
  /\ Cardinality(Areas) >=
       MapThenSumSet(LAMBDA t : MaxCalls[t] + 2, Tasks) + CallDepth

Null == 0

\* Values of CCPN: all interrupts, those above the switch, none of the kernel's.
OPEN == 0
CONTEXT == 1
MASKED == 2

VARIABLES
  FCX,               \* head of the free list
  PCXI,              \* head of the list of the running code
  link,              \* link[a]: the first word of area a
  saved,             \* saved[a]: CCPN that the upper context in a returns to
  CCPN,
  SRR,               \* the context switch interrupt is requested
  request,           \* what portYIELD_FROM_ISR of a handler is about to write
  uxCriticalNesting,
  pxCurrentTCB,
  stack,             \* stack[t]: the two words on top of the stack of task t
  at,                \* what the core does: code of the task or of a handler
  pc,                \* pc[t]: where task t is in the port's code
  nest,              \* nest[t]: critical sections task t has entered
  calls,             \* calls[t]: calls of task t that have not returned
  life,              \* life[t]: what the kernel knows of task t
  new,               \* the areas that xTaskCreate of a task has taken
  last               \* the tail that vPortReclaimCSA has found

vars == <<FCX, PCXI, link, saved, CCPN, SRR, request, uxCriticalNesting,
          pxCurrentTCB, stack, at, pc, nest, calls, life, new, last>>

csaVars == <<FCX, PCXI, link, saved>>
kernelVars == <<pxCurrentTCB, stack>>
taskVars == <<nest, calls, life, new, last>>

NoAreas == [task |-> Resident, lower |-> Null, upper |-> Null]
NoTail == [task |-> Resident, tail |-> Null]
NoStack == [csa |-> Null, nesting |-> 0]

\* The first task runs: its two initial areas are free again.
Init ==
  /\ FCX = 1
  /\ PCXI = Null
  /\ link = [a \in Areas |-> IF a + 1 \in Areas THEN a + 1 ELSE Null]
  /\ saved = [a \in Areas |-> OPEN]
  /\ CCPN = OPEN
  /\ SRR = FALSE
  /\ request = "none"
  /\ uxCriticalNesting = 0
  /\ pxCurrentTCB = Resident
  /\ stack = [t \in Tasks |-> NoStack]
  /\ at = "task"
  /\ pc = [t \in Tasks |-> "run"]
  /\ nest = [t \in Tasks |-> 0]
  /\ calls = [t \in Tasks |-> 0]
  /\ life = [t \in Tasks |-> IF t = Resident THEN "ready" ELSE "none"]
  /\ new = NoAreas
  /\ last = NoTail

-----------------------------------------------------------------------------
(* Lists of areas                                                          *)

\* The area n links down from h in the lists that next links; Null is below the
\* last one.
Down(next, h, n) ==
  LET down[k \in Nat] ==
        IF k = 0 THEN h
        ELSE LET a == down[k - 1] IN IF a = Null THEN Null ELSE next[a]
  IN  down[n]

\* The first n areas of the list at h, and all of them.
First(h, n) == {Down(link, h, k) : k \in 0 .. n - 1} \ {Null}
Whole(h) == First(h, Cardinality(Areas))

\* The links once the first n areas of the list at h were put, one by one, on
\* top of head.
PutOn(h, n, head) ==
  [a \in Areas |->
     IF a \notin First(h, n) THEN link[a]
     ELSE IF a = h THEN head
     ELSE CHOOSE b \in First(h, n) : link[b] = a]

\* Save n contexts, the first of them that of the code to return to.
Push(n, returnTo) ==
  LET top == Down(link, FCX, n - 1)
  IN  /\ top # Null
      /\ FCX' = link[top]
      /\ PCXI' = top
      /\ link' = PutOn(FCX, n, PCXI)
      /\ saved' = [saved EXCEPT ![FCX] = returnTo]

\* Restore n contexts.
Pop(n) ==
  LET top == Down(link, PCXI, n - 1)
  IN  /\ top # Null
      /\ FCX' = top
      /\ PCXI' = link[top]
      /\ link' = PutOn(PCXI, n, FCX)
      /\ saved' = [a \in Areas |-> IF a \in First(PCXI, n) THEN OPEN ELSE saved[a]]

-----------------------------------------------------------------------------
(* Tasks                                                                   *)

AtPoint(p) == at = "task" /\ pc[pxCurrentTCB] = p
Goto(p) == pc' = [pc EXCEPT ![pxCurrentTCB] = p]
Alive == life[pxCurrentTCB] = "ready"

TaskCall ==
  /\ AtPoint("run") /\ Alive
  /\ calls[pxCurrentTCB] < MaxCalls[pxCurrentTCB]
  /\ calls' = [calls EXCEPT ![pxCurrentTCB] = @ + 1]
  /\ Push(1, OPEN)
  /\ UNCHANGED <<CCPN, SRR, uxCriticalNesting, kernelVars, at, pc, nest, life,
                 new, last>>

TaskReturn ==
  /\ AtPoint("run") /\ Alive
  /\ calls[pxCurrentTCB] > 0
  /\ calls' = [calls EXCEPT ![pxCurrentTCB] = @ - 1]
  /\ Pop(1)
  /\ UNCHANGED <<CCPN, SRR, uxCriticalNesting, kernelVars, at, pc, nest, life,
                 new, last>>

\* vPortSetCCPN disables interrupts around its read and write of ICR.
vPortSetCCPN(p) == CCPN' = p

\* vPortEnterCritical: mask, then count.
EnterCritical ==
  /\ AtPoint("run") /\ Alive
  /\ nest[pxCurrentTCB] < MaxNesting
  /\ vPortSetCCPN(MASKED)
  /\ Goto("count")
  /\ UNCHANGED <<csaVars, SRR, uxCriticalNesting, kernelVars, at, taskVars>>

CountUp ==
  /\ AtPoint("count")
  /\ uxCriticalNesting' = uxCriticalNesting + 1
  /\ nest' = [nest EXCEPT ![pxCurrentTCB] = @ + 1]
  /\ Goto("run")
  /\ UNCHANGED <<csaVars, CCPN, SRR, kernelVars, at, calls, life, new, last>>

\* Mutant: the count is tested before it is decremented.
ExitCriticalTestsFirst ==
  /\ AtPoint("run")
  /\ nest[pxCurrentTCB] > 0
  /\ uxCriticalNesting' = uxCriticalNesting - 1
  /\ nest' = [nest EXCEPT ![pxCurrentTCB] = @ - 1]
  /\ Goto(IF uxCriticalNesting = 0 THEN "open" ELSE "run")
  /\ UNCHANGED <<csaVars, CCPN, SRR, kernelVars, at, calls, life, new, last>>

\* vPortExitCritical: count, then open when the count is zero.
ExitCritical ==
  /\ AtPoint("run")
  /\ nest[pxCurrentTCB] > 0
  /\ uxCriticalNesting' = uxCriticalNesting - 1
  /\ nest' = [nest EXCEPT ![pxCurrentTCB] = @ - 1]
  /\ Goto(IF uxCriticalNesting = 1 THEN "open" ELSE "run")
  /\ UNCHANGED <<csaVars, CCPN, SRR, kernelVars, at, calls, life, new, last>>

Open ==
  /\ AtPoint("open")
  /\ vPortSetCCPN(OPEN)
  /\ Goto("run")
  /\ UNCHANGED <<csaVars, SRR, uxCriticalNesting, kernelVars, at, taskVars>>

-----------------------------------------------------------------------------
(* Interrupts and the context switch                                       *)

\* portYIELD_FROM_ISR in an interrupt handler, whose own areas are back when
\* it returns.  It reads whether a request is pending ...
TestRequest ==
  /\ CCPN # MASKED
  /\ at \in {"task", "left"}
  /\ request = "none"
  /\ request' = IF SRR THEN "nothing" ELSE "SETR"
  /\ UNCHANGED SRR

\* ... and writes SETR if none was.
SetRequest ==
  /\ request # "none"
  /\ SRR' = (SRR \/ request = "SETR")
  /\ request' = "none"

\* In between a handler of a higher priority may make a request of its own.
NestedRequest ==
  /\ request # "none"
  /\ ~SRR
  /\ SRR' = TRUE
  /\ UNCHANGED request

YieldFromISR ==
  /\ TestRequest \/ SetRequest \/ NestedRequest
  /\ UNCHANGED <<csaVars, CCPN, uxCriticalNesting, kernelVars, at, pc, taskVars>>

\* The context switch interrupt saves an upper and a lower context.
ContextInterrupt ==
  /\ at = "task"
  /\ SRR
  /\ CCPN < CONTEXT
  /\ SRR' = FALSE
  /\ CCPN' = CONTEXT
  /\ Push(2, CCPN)
  /\ at' = "handler"
  /\ UNCHANGED <<uxCriticalNesting, kernelVars, pc, taskVars>>

\* portYIELD: the trap saves both contexts, with interrupts disabled, and
\* CallDepth calls lead to vPortSyscallYield.  A task may yield inside a
\* critical section; a deleted task does nothing else.
Syscall ==
  /\ AtPoint("run")
  /\ Push(2 + CallDepth, CCPN)
  /\ at' = "syscall"
  /\ UNCHANGED <<CCPN, SRR, uxCriticalNesting, kernelVars, pc, taskVars>>

\* The area whose link is the interrupted task's list, depth calls down.
Above(depth) == Down(link, PCXI, depth - 1)

\* Mutant: the list saved is that of the handler.
LowerAtTop(depth) == PCXI

LowerAt(depth) == Down(link, PCXI, depth)

vPortSaveContext(depth) ==
  [stack EXCEPT ![pxCurrentTCB] =
     [csa |-> LowerAt(depth), nesting |-> uxCriticalNesting]]

vPortLoadContext(t, depth) ==
  /\ uxCriticalNesting' = stack[t].nesting
  /\ IF depth = 0
       THEN PCXI' = stack[t].csa /\ UNCHANGED link
       ELSE link' = [link EXCEPT ![Above(depth)] = stack[t].csa]
            /\ UNCHANGED PCXI

\* Save, vTaskSwitchContext and load, with interrupts disabled throughout.
\* The task may also be chosen to go on itself.
Switch(depth) ==
  \E t \in Tasks :
    /\ life[t] = "ready"
    /\ pxCurrentTCB' = t
    /\ IF t = pxCurrentTCB
         THEN UNCHANGED <<link, PCXI, uxCriticalNesting, stack>>
         ELSE /\ vPortLoadContext(t, depth)
              /\ stack' = [vPortSaveContext(depth) EXCEPT ![t] = NoStack]
    /\ UNCHANGED <<FCX, saved, CCPN, SRR, pc, taskVars>>

vPortSystemContextHandler ==
  /\ at = "handler"
  /\ Switch(0)
  /\ at' = "left"

vPortSyscallYield == Switch(CallDepth)

\* The handler knows one id, 0, and ignores the others.
vPortSyscallHandler ==
  /\ at = "syscall"
  /\ IF YieldId = 0
       THEN vPortSyscallYield
       ELSE UNCHANGED <<csaVars, CCPN, SRR, uxCriticalNesting, kernelVars, pc,
                        taskVars>>
  /\ at' = "returning"

\* Return from the calls, if any, then RSLCX and RFE.
ReturnFrom(point, n) ==
  /\ at = point
  /\ CCPN' = saved[Down(link, PCXI, n - 1)]
  /\ Pop(n)
  /\ at' = "task"
  /\ UNCHANGED <<SRR, uxCriticalNesting, kernelVars, pc, taskVars>>

InterruptReturn == ReturnFrom("left", 2)

SyscallReturn == ReturnFrom("returning", 2 + CallDepth)

-----------------------------------------------------------------------------
(* Creating and deleting tasks                                             *)

\* pxPortInitialiseStack takes two areas with interrupts disabled ...
TakeAreas(t) ==
  /\ AtPoint("run") /\ pxCurrentTCB = Resident
  /\ nest[Resident] = 0
  /\ life[t] = "none"
  /\ FCX # Null /\ link[FCX] # Null
  /\ FCX' = link[link[FCX]]
  /\ new' = [task |-> t, lower |-> FCX, upper |-> link[FCX]]
  /\ Goto("fill")
  /\ UNCHANGED <<PCXI, link, saved, CCPN, SRR, uxCriticalNesting, kernelVars, at,
                 nest, calls, life, last>>

\* ... and fills them in with interrupts enabled; the kernel lists the task.
InitialiseStack ==
  /\ AtPoint("fill")
  /\ link' = [link EXCEPT ![new.upper] = Null, ![new.lower] = new.upper]
  /\ saved' = [saved EXCEPT ![new.upper] = OPEN]
  /\ stack' = [stack EXCEPT ![new.task] = [csa |-> new.lower, nesting |-> 0]]
  /\ life' = [life EXCEPT ![new.task] = "ready"]
  /\ new' = NoAreas
  /\ Goto("run")
  /\ UNCHANGED <<FCX, PCXI, CCPN, SRR, uxCriticalNesting, pxCurrentTCB, at, nest,
                 calls, last>>

\* vTaskDelete: by the task itself, which then yields for the last time, or by
\* another.
DeleteTask(t) ==
  /\ AtPoint("run") /\ Alive
  /\ nest[pxCurrentTCB] = 0
  /\ t # Resident
  /\ pxCurrentTCB \in {t, Resident}
  /\ life[t] = "ready"
  /\ life' = [life EXCEPT ![t] = "deleted"]
  /\ UNCHANGED <<csaVars, CCPN, SRR, uxCriticalNesting, kernelVars, at, pc, nest,
                 calls, new, last>>

\* vPortReclaimCSA walks to the last area of the task, with interrupts
\* enabled, ...
FindTail(t) ==
  /\ AtPoint("run") /\ pxCurrentTCB = Resident
  /\ nest[Resident] = 0
  /\ life[t] = "deleted"
  /\ last' = [task |-> t,
               tail |-> CHOOSE a \in Whole(stack[t].csa) : link[a] = Null]
  /\ Goto("join")
  /\ UNCHANGED <<csaVars, CCPN, SRR, uxCriticalNesting, kernelVars, at, nest,
                 calls, life, new>>

\* Mutant: the free list is joined to the head of the task's list.
JoinFreeAtHead ==
  /\ AtPoint("join")
  /\ link' = [link EXCEPT ![stack[last.task].csa] = FCX]
  /\ FCX' = stack[last.task].csa
  /\ stack' = [stack EXCEPT ![last.task] = NoStack]
  /\ life' = [life EXCEPT ![last.task] = "none"]
  /\ pc' = [pc EXCEPT ![Resident] = "run", ![last.task] = "run"]
  /\ nest' = [nest EXCEPT ![last.task] = 0]
  /\ calls' = [calls EXCEPT ![last.task] = 0]
  /\ saved' = [a \in Areas |-> IF a \in Whole(stack[last.task].csa) THEN OPEN
                                ELSE saved[a]]
  /\ last' = NoTail
  /\ UNCHANGED <<PCXI, CCPN, SRR, uxCriticalNesting, pxCurrentTCB, at, new>>

\* ... and puts the list in front of the free list with interrupts disabled.
JoinFree ==
  /\ AtPoint("join")
  /\ link' = [link EXCEPT ![last.tail] = FCX]
  /\ FCX' = stack[last.task].csa
  /\ stack' = [stack EXCEPT ![last.task] = NoStack]
  /\ life' = [life EXCEPT ![last.task] = "none"]
  /\ pc' = [pc EXCEPT ![Resident] = "run", ![last.task] = "run"]
  /\ nest' = [nest EXCEPT ![last.task] = 0]
  /\ calls' = [calls EXCEPT ![last.task] = 0]
  /\ saved' = [a \in Areas |-> IF a \in Whole(stack[last.task].csa) THEN OPEN
                                ELSE saved[a]]
  /\ last' = NoTail
  /\ UNCHANGED <<PCXI, CCPN, SRR, uxCriticalNesting, pxCurrentTCB, at, new>>

-----------------------------------------------------------------------------
TaskStep ==
  \/ TaskCall \/ TaskReturn
  \/ EnterCritical \/ CountUp \/ ExitCritical \/ Open
  \/ Syscall
  \/ InitialiseStack \/ JoinFree
  \/ \E t \in Tasks : TakeAreas(t) \/ DeleteTask(t) \/ FindTail(t)

HandlerStep ==
  \/ ContextInterrupt
  \/ vPortSystemContextHandler \/ InterruptReturn
  \/ vPortSyscallHandler \/ SyscallReturn

\* No handler is between its test and its write.  The context switch interrupt
\* has the lowest priority, so it waits for that, as the task does.
NoRequester == request = "none" /\ UNCHANGED request

Next ==
  \/ NoRequester /\ TaskStep
  \/ NoRequester /\ HandlerStep
  \/ YieldFromISR

Spec == Init /\ [][Next]_vars

\* A handler completes its request.  However often handlers run, the core takes
\* the context switch interrupt when it is let in, and completes it; and a task
\* goes on, and leaves its critical sections, the outermost too.
LeaveCritical(t, depth) ==
  pxCurrentTCB = t /\ nest[t] = depth /\ ExitCritical

Fairness ==
  /\ WF_vars(YieldFromISR /\ SetRequest)
  /\ SF_vars(NoRequester /\ HandlerStep)
  /\ SF_vars(NoRequester /\ ContextInterrupt)
  /\ \A t \in Tasks :
       /\ SF_vars(NoRequester /\ pxCurrentTCB = t /\ (CountUp \/ Open))
       /\ \A depth \in 1 .. MaxNesting :
            SF_vars(NoRequester /\ LeaveCritical(t, depth))

FairSpec == Spec /\ Fairness

-----------------------------------------------------------------------------
Heads == Areas \cup {Null}

TypeOK ==
  /\ FCX \in Heads /\ PCXI \in Heads
  /\ link \in [Areas -> Heads]
  /\ saved \in [Areas -> {OPEN, CONTEXT, MASKED}]
  /\ CCPN \in {OPEN, CONTEXT, MASKED}
  /\ SRR \in BOOLEAN
  /\ request \in {"none", "nothing", "SETR"}
  /\ uxCriticalNesting \in 0 .. MaxNesting
  /\ pxCurrentTCB \in Tasks
  /\ stack \in [Tasks -> [csa : Heads, nesting : 0 .. MaxNesting]]
  /\ at \in {"task", "handler", "left", "syscall", "returning"}
  /\ pc \in [Tasks -> {"run", "count", "open", "fill", "join"}]
  /\ nest \in [Tasks -> 0 .. MaxNesting]
  /\ \A t \in Tasks : calls[t] \in 0 .. MaxCalls[t]
  /\ life \in [Tasks -> {"none", "ready", "deleted"}]
  /\ new \in [task : Tasks, lower : Heads, upper : Heads]
  /\ last \in [task : Tasks, tail : Heads]

Places == {"free", "running", "new"} \cup Tasks

Head(p) ==
  CASE p = "free" -> FCX
    [] p = "running" -> PCXI
    [] OTHER -> stack[p].csa

In(p) ==
  IF p = "new" THEN {new.lower, new.upper} \ {Null} ELSE Whole(Head(p))

\* Every area is in exactly one place: free, under the running code, under a
\* task that waits to run or to be cleaned up, or taken for a new task.  None
\* is lost, none is in two lists and no list runs in circles, whatever is
\* created, deleted, switched and interrupted in between.
EachAreaInOnePlace ==
  /\ \A a \in Areas : \E p \in Places :
       a \in In(p) /\ \A q \in Places : a \in In(q) => q = p
  /\ \A p \in Places \ {"new"} : Down(link, Head(p), Cardinality(Areas)) = Null

HasLength(h, n) == /\ \A k \in 0 .. n - 1 : Down(link, h, k) # Null
                   /\ Down(link, h, n) = Null

\* Every task gets its own calls back: the list under a task that waits is
\* its calls and the two contexts that were saved, and the list under the
\* running task, outside the handlers, its calls alone.
OwnCalls ==
  /\ at = "task" => HasLength(PCXI, calls[pxCurrentTCB])
  /\ \A t \in Tasks :
       life[t] # "none" /\ t # pxCurrentTCB =>
         HasLength(stack[t].csa, calls[t] + 2)

\* The task that runs has interrupts masked if and only if it is in a critical
\* section of its own, and the count is its own, although the count is one
\* variable for all tasks and tasks switch inside critical sections.
MaskFollowsTask ==
  at = "task" =>
    /\ uxCriticalNesting = nest[pxCurrentTCB]
    /\ (CCPN = MASKED) =
         (nest[pxCurrentTCB] > 0 \/ pc[pxCurrentTCB] \in {"count", "open"})

\* A switch that an interrupt handler requested with portYIELD_FROM_ISR is
\* made, as soon as critical sections allow, although the request bit is tested
\* and set in two steps and handlers nest between them.
RequestServed == SRR ~> ~SRR
=============================================================================
