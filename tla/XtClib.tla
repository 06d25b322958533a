------------------------------- MODULE XtClib -------------------------------
(***************************************************************************)
(* The C library's locks on Xtensa (Cadence/Xtensa/portclib.c): the         *)
(* recursive mutex around the heap, for xclib (_Mtxlock) and newlib         *)
(* (__malloc_lock, __env_lock), and the break pointer behind malloc.        *)
(*                                                                         *)
(* What a task has yet to do in the library is a list of steps, todo[t];    *)
(* with none left it runs its own code.  Tasks of other cores, and of the   *)
(* same core unless it must not switch, run between any two steps.          *)
(*                                                                         *)
(* The kernel is external.  Suspending the scheduler keeps the kernel's     *)
(* task lock until it resumes, so that no other task gets through a kernel  *)
(* call.  More tasks of another core may run then than really could.        *)
(***************************************************************************)
EXTENDS Naturals, Sequences, FiniteSets

CONSTANTS Tasks,
          Core,         \* Core[t]: the core task t is pinned to
          None,
          heap_sentry,  \* end of the heap, which starts at 0
          Sizes         \* increments malloc asks for

ASSUME XtClibAssumption ==
  /\ None \notin Tasks /\ DOMAIN Core = Tasks
  /\ heap_sentry \in Nat \ {0} /\ Sizes \subseteq Nat \ {0}

VARIABLES todo,
          ulClibInitDone,
          clib,       \* xClibMutex: [owner, count]
          suspender,  \* the task that has suspended the scheduler
          masked,     \* tasks that have disabled the interrupts of their core
          heap_ptr,
          base,       \* base[t]: the local of _sbrk_r
          blocks      \* [from, to] of every block that was handed out

clibVars == <<ulClibInitDone, clib, heap_ptr, base, blocks>>
kernelVars == <<suspender, masked>>

ClibInit ==
  /\ todo = [t \in Tasks |-> <<>>]
  /\ ulClibInitDone = FALSE
  /\ clib = [owner |-> None, count |-> 0]
  /\ suspender = None /\ masked = {}
  /\ heap_ptr = 0 /\ base = [t \in Tasks |-> 0] /\ blocks = {}
-----------------------------------------------------------------------------
Neighbours(t) == {u \in Tasks \ {t} : Core[u] = Core[t]}

\* Task t runs: no other task of its core keeps it from switching.
Runs(t) == ulClibInitDone /\ Neighbours(t) \cap (masked \cup {suspender}) = {}

\* A kernel call of task t gets the kernel's locks.
KernelFree(t) == suspender \in {None, t}

At(t, step) == todo[t] # <<>> /\ Head(todo[t]) = step /\ Runs(t)
Then(t, steps) == todo' = [todo EXCEPT ![t] = steps \o Tail(@)]
Done(t) == Then(t, <<>>)
Calls(t, steps) ==
  /\ todo[t] = <<>> /\ Runs(t)
  /\ todo' = [todo EXCEPT ![t] = steps]
  /\ UNCHANGED <<clibVars, kernelVars>>

malloc == <<"take", "base", "advance", "unlock">>
pvPortMalloc == <<"suspend">> \o malloc \o <<"resume">>
vPortFree == <<"suspend", "take", "unlock", "resume">>
setenv == <<"take">> \o malloc \o <<"unlock">>
-----------------------------------------------------------------------------
Block(lo, n) == [from |-> lo, to |-> lo + n]

\* Before vPortClibInit malloc takes no lock: only the start-up code runs.
BootMalloc ==
  /\ ~ulClibInitDone
  /\ \E n \in Sizes :
       /\ heap_ptr + n < heap_sentry
       /\ heap_ptr' = heap_ptr + n
       /\ blocks' = blocks \cup {Block(heap_ptr, n)}
  /\ UNCHANGED <<todo, ulClibInitDone, clib, base, kernelVars>>

vPortClibInit ==
  /\ ~ulClibInitDone
  /\ ulClibInitDone' = TRUE
  /\ UNCHANGED <<todo, clib, heap_ptr, base, blocks, kernelVars>>

\* vTaskSuspendAll and xTaskResumeAll.
Suspend(t) ==
  /\ At(t, "suspend") /\ suspender = None
  /\ suspender' = t
  /\ Done(t) /\ UNCHANGED <<clibVars, masked>>

Resume(t) ==
  /\ At(t, "resume")
  /\ suspender' = None
  /\ Done(t) /\ UNCHANGED <<clibVars, masked>>

\* Mutant: a lock that is not got at once is done without.
TakeOrNot(t) ==
  /\ At(t, "take") /\ KernelFree(t)
  /\ clib' = IF clib.owner \in {None, t}
             THEN [owner |-> t, count |-> clib.count + 1] ELSE clib
  /\ Done(t)
  /\ UNCHANGED <<ulClibInitDone, heap_ptr, base, blocks, kernelVars>>

\* _Mtxlock, __malloc_lock: the lock is polled if the scheduler is suspended
\* and waited for otherwise.  Either ends when the lock is got; a poll that
\* fails changes nothing (taskYIELD with the scheduler suspended only pends).
Take(t) ==
  /\ At(t, "take") /\ KernelFree(t)
  /\ clib.owner \in {None, t}
  /\ clib' = [owner |-> t, count |-> clib.count + 1]
  /\ Done(t)
  /\ UNCHANGED <<ulClibInitDone, heap_ptr, base, blocks, kernelVars>>

Unlock(t) ==
  /\ At(t, "unlock") /\ KernelFree(t)
  /\ clib' = IF clib.count = 1 THEN [owner |-> None, count |-> 0]
             ELSE [clib EXCEPT !.count = @ - 1]
  /\ Done(t)
  /\ UNCHANGED <<ulClibInitDone, heap_ptr, base, blocks, kernelVars>>

\* _sbrk_r reads the break, then compares and advances it, or fails.
ReadBreak(t) ==
  /\ At(t, "base")
  /\ base' = [base EXCEPT ![t] = heap_ptr]
  /\ Done(t)
  /\ UNCHANGED <<ulClibInitDone, clib, heap_ptr, blocks, kernelVars>>

Advance(t) ==
  /\ At(t, "advance")
  /\ \E n \in Sizes :
       IF heap_ptr + n >= heap_sentry THEN UNCHANGED <<heap_ptr, blocks>>
       ELSE /\ heap_ptr' = heap_ptr + n
            /\ blocks' = blocks \cup {Block(base[t], n)}
  /\ base' = [base EXCEPT ![t] = 0]
  /\ Done(t)
  /\ UNCHANGED <<ulClibInitDone, clib, kernelVars>>

\* A call of malloc alone is the middle of setenv's.
ClibCall(t) == \E f \in {setenv, pvPortMalloc} : Calls(t, f)

ClibStep(t) ==
  \/ Suspend(t) \/ Resume(t) \/ Take(t) \/ Unlock(t)
  \/ ReadBreak(t) \/ Advance(t)
-----------------------------------------------------------------------------
\* The heap below the break is handed out once: every address of it lies in
\* exactly one block that _sbrk_r returned (portclib.c:254-269), though the
\* tasks that ask may hold the environment's lock or be in pvPortMalloc, and
\* poll or wait.  A block given twice leaves the next addresses in no block.
BlocksApart ==
  \A x \in 0 .. heap_ptr - 1 :
    Cardinality({b \in blocks : b.from <= x /\ x < b.to}) = 1

=============================================================================
