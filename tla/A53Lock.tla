------------------------------- MODULE A53Lock ------------------------------
(***************************************************************************)
(* The recursive spin locks of the AM64 Cortex-A53 SMP port: a gate word   *)
(* per lock, taken by an exclusive load and store, a bit per lock in       *)
(* ucOwnedByCore of the core that has it, and one recursion count per lock *)
(* for all cores.                                                          *)
(*                                                                         *)
(* vPortRecursiveLock does not mask interrupts: the kernel calls it with   *)
(* interrupts masked, so that a core is in one call at a time.  Other      *)
(* cores run between any two of its accesses to the shared words.          *)
(***************************************************************************)
EXTENDS A53Cores, Integers

CONSTANTS Locks,      \* ISR_LOCK and TASK_LOCK
          IsrLock,    \* ISR_LOCK, taken last
          MaxCount    \* bound: nested acquisitions of one lock

ASSUME A53LockAssumption ==
  /\ IsrLock \in Locks
  /\ MaxCount \in Nat
  /\ MaxCount < 255   \* the count that vPortRecursiveLock asserts is not met

VARIABLES
  GateWord,               \* GateWord[l]: 1 while lock l is taken
  ucOwnedByCore,          \* ucOwnedByCore[c]: the locks whose bit is set
  ucRecursionCountByLock, \* ucRecursionCountByLock[l]
  call                    \* call[c]: where core c is in vPortRecursiveLock

lockVars == <<GateWord, ucOwnedByCore, ucRecursionCountByLock, call>>

Points == {"caller", "try", "failed", "spin", "locked", "own",
           "release", "disown", "unlock"}

Idle == [at |-> "caller", lock |-> IsrLock]

LockInit ==
  /\ GateWord = [l \in Locks |-> 0]
  /\ ucOwnedByCore = [c \in Cores |-> {}]
  /\ ucRecursionCountByLock = [l \in Locks |-> 0]
  /\ call = [c \in Cores |-> Idle]

At(c, p) == call[c].at = p
Lock(c) == call[c].lock
Enter(c, p, l) == call' = [call EXCEPT ![c] = [at |-> p, lock |-> l]]
Goto(c, p) == Enter(c, p, Lock(c))
Return(c) == call' = [call EXCEPT ![c] = Idle]

Owned(c, l) == l \in ucOwnedByCore[c]

Count(c, n) ==
  ucRecursionCountByLock' = [ucRecursionCountByLock EXCEPT ![Lock(c)] = n]

-----------------------------------------------------------------------------
(* Acquire                                                                 *)

\* The kernel takes the task lock before the ISR lock.
InOrder(c, l) == l # IsrLock /\ Owned(c, IsrLock) => Owned(c, l)

AcquireEnter(c, l) ==
  /\ At(c, "caller")
  /\ InOrder(c, l)
  /\ Owned(c, l) => ucRecursionCountByLock[l] < MaxCount
  /\ Enter(c, "try", l)
  /\ UNCHANGED <<GateWord, ucOwnedByCore, ucRecursionCountByLock>>

\* Mutant: the word is written whatever was loaded.
TryLockBlind(c, from, failed) ==
  /\ At(c, from)
  /\ Goto(c, "locked")
  /\ GateWord' = [GateWord EXCEPT ![Lock(c)] = 1]
  /\ UNCHANGED <<ucOwnedByCore, ucRecursionCountByLock>>

\* GateSmp_tryLock: the exclusive store makes the test and the write one.
TryLock(c, from, failed) ==
  /\ At(c, from)
  /\ IF GateWord[Lock(c)] = 1
       THEN Goto(c, failed) /\ UNCHANGED GateWord
       ELSE Goto(c, "locked") /\ GateWord' = [GateWord EXCEPT ![Lock(c)] = 1]
  /\ UNCHANGED <<ucOwnedByCore, ucRecursionCountByLock>>

FirstTry(c) == TryLock(c, "try", "failed")

Spin(c) == TryLock(c, "spin", "spin")

\* The gate is taken: by this core, which counts one more, or by another.
Nested(c) ==
  /\ At(c, "failed")
  /\ Owned(c, Lock(c))
  /\ Count(c, ucRecursionCountByLock[Lock(c)] + 1)
  /\ Return(c)
  /\ UNCHANGED <<GateWord, ucOwnedByCore>>

NotOwned(c) ==
  /\ At(c, "failed")
  /\ ~Owned(c, Lock(c))
  /\ Goto(c, "spin")
  /\ UNCHANGED <<GateWord, ucOwnedByCore, ucRecursionCountByLock>>

SetCount(c) ==
  /\ At(c, "locked")
  /\ Count(c, 1)
  /\ Goto(c, "own")
  /\ UNCHANGED <<GateWord, ucOwnedByCore>>

SetOwned(c) ==
  /\ At(c, "own")
  /\ ucOwnedByCore' = [ucOwnedByCore EXCEPT ![c] = @ \cup {Lock(c)}]
  /\ Return(c)
  /\ UNCHANGED <<GateWord, ucRecursionCountByLock>>

-----------------------------------------------------------------------------
(* Release                                                                 *)

\* The caller has the lock, whoever else does.
ReleaseEnter(c, l) ==
  /\ At(c, "caller")
  /\ Owned(c, l)
  /\ Enter(c, "release", l)
  /\ UNCHANGED <<GateWord, ucOwnedByCore, ucRecursionCountByLock>>

\* Mutant: the last release leaves the bit in ucOwnedByCore.
CountDownKeepingBit(c) ==
  /\ At(c, "release")
  /\ Count(c, ucRecursionCountByLock[Lock(c)] - 1)
  /\ IF ucRecursionCountByLock[Lock(c)] = 1 THEN Goto(c, "unlock")
                                            ELSE Return(c)
  /\ UNCHANGED <<GateWord, ucOwnedByCore>>

\* Mutant: the count is tested before it is reduced.
CountDownLate(c) ==
  /\ At(c, "release")
  /\ Count(c, ucRecursionCountByLock[Lock(c)] - 1)
  /\ IF ucRecursionCountByLock[Lock(c)] = 0 THEN Goto(c, "disown")
                                            ELSE Return(c)
  /\ UNCHANGED <<GateWord, ucOwnedByCore>>

CountDown(c) ==
  /\ At(c, "release")
  /\ Count(c, ucRecursionCountByLock[Lock(c)] - 1)
  /\ IF ucRecursionCountByLock[Lock(c)] = 1 THEN Goto(c, "disown")
                                            ELSE Return(c)
  /\ UNCHANGED <<GateWord, ucOwnedByCore>>

ClearOwned(c) ==
  /\ At(c, "disown")
  /\ ucOwnedByCore' = [ucOwnedByCore EXCEPT ![c] = @ \ {Lock(c)}]
  /\ Goto(c, "unlock")
  /\ UNCHANGED <<GateWord, ucRecursionCountByLock>>

\* GateSmp_unlock
Unlock(c) ==
  /\ At(c, "unlock")
  /\ GateWord' = [GateWord EXCEPT ![Lock(c)] = 0]
  /\ Return(c)
  /\ UNCHANGED <<ucOwnedByCore, ucRecursionCountByLock>>

-----------------------------------------------------------------------------
LockStep(c) ==
  \/ FirstTry(c) \/ Nested(c) \/ NotOwned(c) \/ Spin(c)
  \/ SetCount(c) \/ SetOwned(c)
  \/ CountDown(c) \/ ClearOwned(c) \/ Unlock(c)

LockNext ==
  \E c \in Cores :
    \/ LockStep(c)
    \/ \E l \in Locks : AcquireEnter(c, l) \/ ReleaseEnter(c, l)

LockSpec == LockInit /\ [][LockNext]_lockVars

\* A core keeps executing a call.  The kernel's sections end, at every depth
\* of nesting: the caller that took the k-th acquisition gives it back.
ReleaseDepth(c, l, k) ==
  ucRecursionCountByLock[l] = k /\ ReleaseEnter(c, l)

Fairness ==
  \A c \in Cores :
    /\ WF_lockVars(LockStep(c))
    /\ \A l \in Locks, k \in 1 .. MaxCount : SF_lockVars(ReleaseDepth(c, l, k))

FairSpec == LockSpec /\ Fairness

-----------------------------------------------------------------------------
LockTypeOK ==
  /\ GateWord \in [Locks -> {0, 1}]
  /\ ucOwnedByCore \in [Cores -> SUBSET Locks]
  /\ ucRecursionCountByLock \in [Locks -> 0 .. 254]
  /\ call \in [Cores -> [at : Points, lock : Locks]]

\* A core has a lock as often as the shared count says, if it is the core
\* whose bit is set.
Holds ==
  [c \in Cores |-> [l \in Locks |->
     IF Owned(c, l) THEN ucRecursionCountByLock[l] ELSE 0]]

Abstract == INSTANCE CoreLock WITH holds <- Holds

\* vPortRecursiveLock implements the kernel's abstract lock.
ImplementsCoreLock == Abstract!Spec

\* No two cores own the same lock.
MutualExclusion == Abstract!MutualExclusion

\* The assertions of vPortRecursiveLock: the count is 0 when the free gate
\* was acquired (portmacro.h:258), and the bit and the count are set when a
\* caller that has the lock gives it back (portmacro.h:269), although the
\* count is shared by all cores and set outside the exclusive access.
AssertionsHold ==
  \A c \in Cores :
    /\ At(c, "locked") => ucRecursionCountByLock[Lock(c)] = 0
    /\ At(c, "failed") /\ Owned(c, Lock(c))
         => ucRecursionCountByLock[Lock(c)] # 255
    /\ At(c, "release") =>
         Owned(c, Lock(c)) /\ ucRecursionCountByLock[Lock(c)] # 0

\* A core that waits for a lock sees it freed (whether that core or another
\* then gets it is up to the exclusive monitor).
WaitedLockIsFreed ==
  \A l \in Locks :
    (\E c \in Cores : At(c, "spin") /\ Lock(c) = l) ~> GateWord[l] = 0
=============================================================================
