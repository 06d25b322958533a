----------------------------- MODULE RH850Lock ------------------------------
(***************************************************************************)
(* The recursive spin locks of the RH850/U2x port: one bit per lock in     *)
(* the shared byte mev_address, taken by SET1 and given back by CLR1, and  *)
(* a nesting count per core and lock that only the owning core touches,    *)
(* with its interrupts masked.                                             *)
(*                                                                         *)
(* A core runs a stack of execution levels: level 0 is the task, each      *)
(* further level an interrupt that nested on top.  Every level may call    *)
(* the lock functions; an interrupt is taken whenever PSW.ID is clear,     *)
(* so also in the middle of a lock function if that function left          *)
(* interrupts enabled there.                                               *)
(***************************************************************************)
EXTENDS RH850Cores, Naturals

CONSTANTS Locks,     \* bit positions: 0 is the task lock, 1 the ISR lock
          MaxLevel,  \* bound: interrupts nested on one core
          MaxCalls   \* bound: acquisitions in one section of a level

ASSUME LockAssumption ==
  /\ Locks \subseteq Nat
  /\ Locks # {}
  /\ MaxLevel \in Nat
  /\ MaxCalls \in Nat

VARIABLES
  mev,           \* mev[l]: the bit of lock l in mev_address
  uxLockNesting, \* uxLockNesting[c][l]
  level,         \* level[c]: the execution level core c is running
  call,          \* call[c][k]: the lock function level k of core c is in
  wants,         \* wants[c][k]: PSW.ID as the code at level k last set it
  base,          \* base[c][k]: holds[c] when level k was entered
  taken          \* taken[c][k]: acquisitions level k made since it had none

lockVars == <<mev, uxLockNesting, id, level, call, holds, wants, base, taken>>

Levels == 0 .. MaxLevel
Points == {"caller", "set1", "count", "acquired", "clr1", "released"}

\* No lock function is active: its locals are dead.
Idle == [at |-> "caller", lock |-> CHOOSE l \in Locks : TRUE, mask |-> FALSE]

None == [l \in Locks |-> 0]

Abstract == INSTANCE CoreLock

LockInit ==
  /\ mev = [l \in Locks |-> FALSE]
  /\ uxLockNesting = [c \in Cores |-> None]
  /\ id = [c \in Cores |-> FALSE]
  /\ level = [c \in Cores |-> 0]
  /\ call = [c \in Cores |-> [k \in Levels |-> Idle]]
  /\ holds = [c \in Cores |-> None]
  /\ wants = [c \in Cores |-> [k \in Levels |-> FALSE]]
  /\ base = [c \in Cores |-> [k \in Levels |-> None]]
  /\ taken = [c \in Cores |-> [k \in Levels |-> 0]]

-----------------------------------------------------------------------------
\* The lock function, if any, that core c is executing.
Call(c) == call[c][level[c]]
At(c, p) == Call(c).at = p

\* Mutant: DI is left out, the mask is only read.
SetInterruptMaskReadOnly(c) == id' = id

\* xPortSetInterruptMask: keep PSW for the caller, then DI.
SetInterruptMask(c) == id' = [id EXCEPT ![c] = TRUE]

\* Mutant: EI, whatever mask was kept.
ClearInterruptMaskAlways(c) == id' = [id EXCEPT ![c] = FALSE]

\* vPortClearInterruptMask: PSW.ID becomes the kept one.
ClearInterruptMask(c) == id' = [id EXCEPT ![c] = Call(c).mask]

\* The function enters at point p for lock l; xSavedInterruptStatus is PSW.ID.
EnterCall(c, p, l) ==
  call' = [call EXCEPT ![c][level[c]] = [at |-> p, lock |-> l, mask |-> id[c]]]

Goto(c, p) ==
  call' = [call EXCEPT ![c][level[c]] =
             [at |-> p, lock |-> Call(c).lock, mask |-> Call(c).mask]]
Return(c) == call' = [call EXCEPT ![c][level[c]] = Idle]

-----------------------------------------------------------------------------
(* vPortRecursiveLockAcquire                                               *)

\* The kernel takes the task lock before the ISR lock.
InOrder(c, l) ==
  \A m \in Locks : m > l /\ holds[c][m] > 0 => holds[c][l] > 0

\* Mask interrupts and look at the nesting count.
AcquireEnter(c, l) ==
  /\ At(c, "caller")
  /\ InOrder(c, l)
  /\ taken[c][level[c]] < MaxCalls
  /\ taken' = [taken EXCEPT ![c][level[c]] = @ + 1]
  /\ SetInterruptMask(c)
  /\ EnterCall(c, IF uxLockNesting[c][l] = 0 THEN "set1" ELSE "count", l)
  /\ UNCHANGED <<mev, uxLockNesting, level, holds, wants, base>>

\* Mutant: the bit is set, but what it was before is not looked at.
ExclusiveLockBlind(c) ==
  /\ At(c, "set1")
  /\ mev' = [mev EXCEPT ![Call(c).lock] = TRUE]
  /\ Goto(c, "count")
  /\ UNCHANGED <<uxLockNesting, id, level, holds, wants, base, taken>>

\* prvExclusiveLock: SET1 tests and sets the bit in one access; the core
\* snoozes and tries again for as long as it finds the bit set.
ExclusiveLock(c) ==
  /\ At(c, "set1")
  /\ ~mev[Call(c).lock]
  /\ mev' = [mev EXCEPT ![Call(c).lock] = TRUE]
  /\ Goto(c, "count")
  /\ UNCHANGED <<uxLockNesting, id, level, holds, wants, base, taken>>

\* Mutant: a nested acquire starts the count again.
CountUpRestarted(c) ==
  /\ At(c, "count")
  /\ uxLockNesting' = [uxLockNesting EXCEPT ![c][Call(c).lock] = 1]
  /\ Goto(c, "acquired")
  /\ UNCHANGED <<mev, id, level, holds, wants, base, taken>>

CountUp(c) ==
  /\ At(c, "count")
  /\ uxLockNesting' = [uxLockNesting EXCEPT ![c][Call(c).lock] = @ + 1]
  /\ Goto(c, "acquired")
  /\ UNCHANGED <<mev, id, level, holds, wants, base, taken>>

AcquireReturn(c) ==
  /\ At(c, "acquired")
  /\ holds' = [holds EXCEPT ![c][Call(c).lock] = @ + 1]
  /\ ClearInterruptMask(c)
  /\ Return(c)
  /\ UNCHANGED <<mev, uxLockNesting, level, wants, base, taken>>

-----------------------------------------------------------------------------
(* vPortRecursiveLockRelease                                               *)

\* Mask interrupts, count down and see whether that was the last nesting.
\* A level gives back only what it took itself.
ReleaseEnter(c, l) ==
  /\ At(c, "caller")
  /\ holds[c][l] > base[c][level[c]][l]
  /\ SetInterruptMask(c)
  /\ uxLockNesting' = [uxLockNesting EXCEPT ![c][l] = @ - 1]
  /\ EnterCall(c, IF uxLockNesting[c][l] = 1 THEN "clr1" ELSE "released", l)
  /\ holds' = [holds EXCEPT ![c][l] = @ - 1]
  /\ taken' = [taken EXCEPT ![c][level[c]] =
                 IF holds'[c] = base[c][level[c]] THEN 0 ELSE @]
  /\ UNCHANGED <<mev, level, wants, base>>

\* prvExclusiveRelease
ExclusiveRelease(c) ==
  /\ At(c, "clr1")
  /\ mev' = [mev EXCEPT ![Call(c).lock] = FALSE]
  /\ Goto(c, "released")
  /\ UNCHANGED <<uxLockNesting, id, level, holds, wants, base, taken>>

ReleaseReturn(c) ==
  /\ At(c, "released")
  /\ ClearInterruptMask(c)
  /\ Return(c)
  /\ UNCHANGED <<mev, uxLockNesting, level, holds, wants, base, taken>>

-----------------------------------------------------------------------------
(* The core around the lock functions                                      *)

\* An interrupt is accepted: the hardware sets PSW.ID for the handler.
Interrupt(c) ==
  /\ ~id[c]
  /\ level[c] < MaxLevel
  /\ level' = [level EXCEPT ![c] = @ + 1]
  /\ id' = [id EXCEPT ![c] = TRUE]
  /\ wants' = [wants EXCEPT ![c][level[c] + 1] = TRUE]
  /\ base' = [base EXCEPT ![c][level[c] + 1] = holds[c]]
  /\ UNCHANGED <<mev, uxLockNesting, call, holds, taken>>

\* A handler that has given back what it took returns: EIRET restores the
\* PSW of the interrupted level, which had PSW.ID clear.
InterruptReturn(c) ==
  /\ At(c, "caller")
  /\ level[c] > 0
  /\ holds[c] = base[c][level[c]]
  /\ level' = [level EXCEPT ![c] = @ - 1]
  /\ id' = [id EXCEPT ![c] = FALSE]
  /\ wants' = [wants EXCEPT ![c][level[c]] = FALSE]
  /\ base' = [base EXCEPT ![c][level[c]] = None]
  /\ UNCHANGED <<mev, uxLockNesting, call, holds, taken>>

\* portDISABLE_INTERRUPTS and portENABLE_INTERRUPTS outside the lock functions.
SetInterrupts(c, masked) ==
  /\ At(c, "caller")
  /\ id[c] # masked
  /\ id' = [id EXCEPT ![c] = masked]
  /\ wants' = [wants EXCEPT ![c][level[c]] = masked]
  /\ UNCHANGED <<mev, uxLockNesting, level, call, holds, base, taken>>

-----------------------------------------------------------------------------
LockStep(c) ==
  \/ ExclusiveLock(c)
  \/ CountUp(c)
  \/ AcquireReturn(c)
  \/ ExclusiveRelease(c)
  \/ ReleaseReturn(c)

CallerStep(c) ==
  \/ \E l \in Locks : AcquireEnter(c, l) \/ ReleaseEnter(c, l)
  \/ \E masked \in BOOLEAN : SetInterrupts(c, masked)
  \/ Interrupt(c)
  \/ InterruptReturn(c)

LockNext == \E c \in Cores : LockStep(c) \/ CallerStep(c)

LockSpec == LockInit /\ [][LockNext]_lockVars

\* A core inside a lock function keeps executing it (interrupts are masked
\* there), a handler ends, and the kernel's sections end: a caller that has
\* acquisitions to give back does so, however often it is interrupted.
ReleaseAtLevel(c, k) ==
  level[c] = k /\ \E l \in Locks : ReleaseEnter(c, l)

LockFairness ==
  \A c \in Cores :
    /\ WF_lockVars(LockStep(c))
    /\ SF_lockVars(InterruptReturn(c))
    /\ \A k \in Levels : SF_lockVars(ReleaseAtLevel(c, k))

LockFairSpec == LockSpec /\ LockFairness

-----------------------------------------------------------------------------
LockTypeOK ==
  /\ mev \in [Locks -> BOOLEAN]
  /\ uxLockNesting \in [Cores -> [Locks -> Nat]]
  /\ id \in [Cores -> BOOLEAN]
  /\ level \in [Cores -> Levels]
  /\ call \in [Cores ->
       [Levels -> [at : Points, lock : Locks, mask : BOOLEAN]]]
  /\ holds \in [Cores -> [Locks -> Nat]]
  /\ wants \in [Cores -> [Levels -> BOOLEAN]]
  /\ base \in [Cores -> [Levels -> [Locks -> Nat]]]
  /\ taken \in [Cores -> [Levels -> 0 .. MaxCalls]]

\* Two cores never both have a lock: the bit, the counts and the masked
\* windows together keep the callers of different cores apart.
MutualExclusion == Abstract!MutualExclusion

\* The lock functions implement the kernel's abstract lock.
ImplementsCoreLock == Abstract!Spec

\* "The lock is completely released only if this count is decreased to 0"
\* (port.c:187): whenever a core is between lock functions, its count is the
\* number of acquisitions its callers have, whichever of its levels made
\* them, so the assertion in vPortRecursiveLockRelease holds at every call.
CountIsHoldings ==
  \A c \in Cores : At(c, "caller") => uxLockNesting[c] = holds[c]

\* A lock function returns with the interrupt mask its caller had: an
\* acquire inside a masked section never opens it to interrupts.
MaskPreserved ==
  \A c \in Cores : At(c, "caller") => id[c] = wants[c][level[c]]

\* A core that spins on a lock always sees it freed again (whether that core
\* or another then wins the bit is up to the bus).
ContendedLockIsFreed ==
  \A l \in Locks :
    (\E c \in Cores : At(c, "set1") /\ Call(c).lock = l) ~> ~mev[l]
=============================================================================
