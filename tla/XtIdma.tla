------------------------------- MODULE XtIdma -------------------------------
(***************************************************************************)
(* The operating-system side of the iDMA library on Xtensa                  *)
(* (Cadence/Xtensa/xtensa_idma.c): the buffers of each task's channels, and *)
(* the semaphore on which a task waits for the interrupt of a transfer.     *)
(* Built for several cores and without static allocation, so that a         *)
(* semaphore is allocated and freed through the locks of module XtClib.     *)
(*                                                                         *)
(* The library itself is external: a task starts a transfer for a channel   *)
(* that has a buffer, its interrupt comes on the task's core and calls      *)
(* idma_thread_unblock, and buffers are not cleared during a transfer.      *)
(***************************************************************************)
EXTENDS XtClib

CONSTANTS Channels,    \* XCHAL_IDMA_NUM_CHANNELS of them
          Buffers,
          MAX_THREADS

ASSUME XtIdmaAssumption ==
  /\ None \notin Channels \cup Buffers
  /\ MAX_THREADS \in Nat \ {0}

VARIABLES slots,   \* xt_idma_buf_info: [thread, bufs, sem]; sem is the count
                   \* of the semaphore, or None without one
          mutexes, \* created: the holder of each; the last is the handle's
          arg,     \* arg[t]: [ch, buf, slot] of the call t is in
          busy,    \* tasks with a transfer in progress
          set,     \* set[t][ch]: the buffer task t set last
          woken    \* tasks with a transfer that ended and was not waited for

idmaVars == <<slots, mutexes, arg, busy, set, woken>>
vars == <<todo, clibVars, kernelVars, idmaVars>>

Slots == 1 .. MAX_THREADS
NoBuffers == [ch \in Channels |-> None]
NoSlot == [thread |-> None, bufs |-> NoBuffers, sem |-> None]
NoArg == [ch |-> None, buf |-> None, slot |-> 0]

Init ==
  /\ ClibInit
  /\ slots = [i \in Slots |-> NoSlot]
  /\ mutexes = <<>>
  /\ arg = [t \in Tasks |-> NoArg]
  /\ busy = {} /\ woken = {}
  /\ set = [t \in Tasks |-> NoBuffers]

Of(t) == {i \in Slots : slots[i].thread = t}
Free == Of(None)
Least(s) == CHOOSE i \in s : \A j \in s : i <= j
-----------------------------------------------------------------------------
Guarded(steps) == <<"mutex", "mask">> \o steps \o <<"unmask", "give">>

\* A task calls idma_chan_buf_set or idma_chan_buf_clear.
CallSet(t) ==
  /\ todo[t] = <<>> /\ Runs(t)
  /\ todo' = [todo EXCEPT ![t] = <<"create">> \o Guarded(<<"find", "fill">>)]
  /\ \E ch \in Channels, b \in Buffers :
       arg' = [arg EXCEPT ![t] = [NoArg EXCEPT !.ch = ch, !.buf = b]]
  /\ UNCHANGED <<clibVars, kernelVars, slots, mutexes, busy, set, woken>>

CallClear(t) ==
  /\ t \notin busy
  /\ todo[t] = <<>> /\ Runs(t)
  /\ todo' = [todo EXCEPT ![t] = Guarded(<<"clear">>)]
  /\ \E ch \in Channels :
       /\ set[t][ch] # None
       /\ arg' = [arg EXCEPT ![t] = [NoArg EXCEPT !.ch = ch]]
  /\ UNCHANGED <<clibVars, kernelVars, slots, mutexes, busy, set, woken>>

\* The mutex is tested, and created if there is none; then it is taken.
Test(t) ==
  /\ At(t, "create")
  /\ Then(t, IF mutexes # <<>> THEN <<>> ELSE pvPortMalloc \o <<"created">>)
  /\ UNCHANGED <<clibVars, kernelVars, idmaVars>>

Created(t) ==
  /\ At(t, "created")
  /\ mutexes' = Append(mutexes, None)
  /\ Done(t)
  /\ UNCHANGED <<clibVars, kernelVars, slots, arg, busy, set, woken>>

TakeMutex(t) ==
  /\ At(t, "mutex") /\ KernelFree(t)
  /\ mutexes # <<>> /\ mutexes[Len(mutexes)] = None
  /\ mutexes' = [mutexes EXCEPT ![Len(mutexes)] = t]
  /\ Done(t)
  /\ UNCHANGED <<clibVars, kernelVars, slots, arg, busy, set, woken>>

GiveMutex(t) ==
  /\ At(t, "give") /\ KernelFree(t)
  /\ mutexes' = [mutexes EXCEPT ![Len(mutexes)] = None]
  /\ arg' = [arg EXCEPT ![t] = NoArg]
  /\ Done(t)
  /\ UNCHANGED <<clibVars, kernelVars, slots, busy, set, woken>>

\* xthal_disable_interrupts and xthal_restore_interrupts.
Mask(t) ==
  /\ At(t, "mask")
  /\ masked' = masked \cup {t}
  /\ Done(t)
  /\ UNCHANGED <<clibVars, suspender, idmaVars>>

Unmask(t) ==
  /\ At(t, "unmask")
  /\ masked' = masked \ {t}
  /\ Done(t)
  /\ UNCHANGED <<clibVars, suspender, idmaVars>>

\* The search: the task's slot, else the first free one, else an assertion
\* stops the task.
Find(t) ==
  /\ At(t, "find")
  /\ Of(t) \cup Free # {}
  /\ arg' = [arg EXCEPT ![t].slot = Least(IF Of(t) # {} THEN Of(t) ELSE Free)]
  /\ Done(t)
  /\ UNCHANGED <<clibVars, kernelVars, slots, mutexes, busy, set, woken>>

\* Mutant: the semaphore is created again for every buffer.
AlwaysNew(t) == t \in Tasks

IsNew(t) == slots[arg[t].slot].thread # t

Fill(t) ==
  /\ At(t, "fill")
  /\ slots' = [slots EXCEPT ![arg[t].slot].thread = t,
                            ![arg[t].slot].bufs[arg[t].ch] = arg[t].buf]
  /\ set' = [set EXCEPT ![t][arg[t].ch] = arg[t].buf]
  /\ Then(t, IF IsNew(t) THEN pvPortMalloc \o <<"sem">> ELSE <<>>)
  /\ UNCHANGED <<clibVars, kernelVars, mutexes, arg, busy, woken>>

\* xSemaphoreCreateCounting(1, 0).
CreateSemaphore(t) ==
  /\ At(t, "sem")
  /\ slots' = [slots EXCEPT ![arg[t].slot].sem = 0]
  /\ Done(t)
  /\ UNCHANGED <<clibVars, kernelVars, mutexes, arg, busy, set, woken>>

\* Mutant: the slot is given up with the first buffer.
FirstGone(bufs) == bufs \in [Channels -> Buffers \cup {None}]

Unused(bufs) == bufs = NoBuffers

\* idma_chan_buf_clear: a slot without buffers is freed, and its semaphore
\* deleted after the locks are released.
Clear(t) ==
  LET i == Least(Of(t))
      bufs == [slots[i].bufs EXCEPT ![arg[t].ch] = None]
  IN  /\ At(t, "clear") /\ Of(t) # {}
      /\ slots' = [slots EXCEPT ![i] =
                     IF Unused(bufs) THEN [@ EXCEPT !.thread = None, !.bufs = bufs, !.sem = None]
                     ELSE [@ EXCEPT !.bufs = bufs]]
      /\ set' = [set EXCEPT ![t][arg[t].ch] = None]
      /\ woken' = IF set'[t] = NoBuffers THEN woken \ {t} ELSE woken
      /\ todo' = [todo EXCEPT ![t] =
                    Tail(@) \o IF Unused(bufs) THEN vPortFree ELSE <<>>]
      /\ UNCHANGED <<clibVars, kernelVars, mutexes, arg, busy>>
-----------------------------------------------------------------------------
\* External: a transfer starts.
StartTransfer(t) ==
  /\ todo[t] = <<>> /\ Runs(t)
  /\ set[t] # NoBuffers /\ t \notin busy
  /\ busy' = busy \cup {t}
  /\ UNCHANGED <<todo, clibVars, kernelVars, slots, mutexes, arg, set, woken>>

\* Its done interrupt calls idma_thread_unblock: a give beyond 1 is dropped.
idma_thread_unblock(t) ==
  /\ t \in busy /\ ulClibInitDone
  /\ {u \in masked : Core[u] = Core[t]} = {}
  /\ suspender \in {None, t} \cup Neighbours(t)
  /\ Of(t) # {}
  /\ slots' = [slots EXCEPT ![Least(Of(t))].sem = 1]
  /\ busy' = busy \ {t} /\ woken' = woken \cup {t}
  /\ UNCHANGED <<todo, clibVars, kernelVars, mutexes, arg, set>>

idma_thread_block(t) ==
  /\ todo[t] = <<>> /\ Runs(t) /\ KernelFree(t)
  /\ Of(t) # {} /\ slots[Least(Of(t))].sem = 1
  /\ slots' = [slots EXCEPT ![Least(Of(t))].sem = 0]
  /\ woken' = woken \ {t}
  /\ UNCHANGED <<todo, clibVars, kernelVars, mutexes, arg, busy, set>>

idma_chan_buf_get(t, ch) ==
  IF Of(t) = {} THEN None ELSE slots[Least(Of(t))].bufs[ch]

IdmaStep(t) ==
  \/ CallSet(t) \/ CallClear(t) \/ Test(t) \/ Created(t)
  \/ TakeMutex(t) \/ GiveMutex(t) \/ Mask(t) \/ Unmask(t)
  \/ Find(t) \/ Fill(t) \/ CreateSemaphore(t) \/ Clear(t)
  \/ StartTransfer(t) \/ idma_thread_unblock(t) \/ idma_thread_block(t)

Next ==
  \/ (BootMalloc \/ vPortClibInit) /\ UNCHANGED idmaVars
  \/ \E t \in Tasks :
       \/ (ClibCall(t) \/ ClibStep(t)) /\ UNCHANGED idmaVars
       \/ IdmaStep(t)

Spec == Init /\ [][Next]_vars
-----------------------------------------------------------------------------
Steps == {"take", "base", "advance", "unlock", "suspend", "resume",
          "create", "created", "mutex", "mask", "find", "fill", "sem", "clear",
          "unmask", "give"}

TypeOK ==
  /\ \A t \in Tasks : \A n \in 1 .. Len(todo[t]) : todo[t][n] \in Steps
  /\ clib.owner \in Tasks \cup {None}
  /\ clib.count \in 0 .. 2 /\ (clib.owner = None <=> clib.count = 0)
  /\ heap_ptr \in 0 .. heap_sentry - 1
  /\ slots \in [Slots -> [thread : Tasks \cup {None},
                          bufs : [Channels -> Buffers \cup {None}],
                          sem : {0, 1, None}]]
  /\ mutexes \in Seq(Tasks \cup {None}) /\ Len(mutexes) <= Cardinality(Tasks)

\* Two first calls may both find no mutex, and create one each: the test of the
\* handle is not locked (xtensa_idma.c:208).  A task that holds the first mutex
\* then excludes nobody who takes the second.
Twice == Len(mutexes) > 1

\* A task finds on every channel the buffer it set last, whatever tasks of its
\* own and of other cores set, cleared and freed meanwhile, and never has two
\* slots (xtensa_idma.c:199-253, 285-342); until a second mutex is created.
\* Calls that overlap the first one are no exception, as long as one creates it.
BuffersKept ==
  ~Twice => \A t \in Tasks :
    /\ Cardinality(Of(t)) <= 1
    /\ \A ch \in Channels : idma_chan_buf_get(t, ch) = set[t][ch]

\* The end of a transfer that nobody waited for yet is remembered: the next
\* idma_thread_block returns (xtensa_idma.c:58-60, 155-192); until a second
\* mutex is created.
WakeKept ==
  ~Twice => \A t \in woken : Of(t) # {} /\ slots[Least(Of(t))].sem = 1

=============================================================================
