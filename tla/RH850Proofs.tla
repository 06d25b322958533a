---------------------------- MODULE RH850Proofs -----------------------------
(***************************************************************************)
(* The RH850/U2x port, for any number of cores.                            *)
(*                                                                         *)
(* Its spin locks, for any number of locks, interrupt levels and nesting:  *)
(* the inductive invariant LockInv, mutual exclusion, and the refinement   *)
(* of CoreLock.                                                            *)
(*                                                                         *)
(* Its context switch, for any number of tasks and any depth of            *)
(* interrupts: SwitchSafe and ContextsIntact follow if no core is asked to *)
(* yield before the loop of xPortStartScheduler has reached it, which      *)
(* holds when there are two cores (the invariant IInv).                    *)
(***************************************************************************)
EXTENDS RH850Lock, RH850Sched, TLAPS

-----------------------------------------------------------------------------
(* The locks (RH850Lock)                                                   *)

\* Only the level that runs can be inside a lock function, and then its
\* core masks interrupts.
OneCall ==
  \A c \in Cores :
    /\ \A k \in Levels : k # level[c] => call[c][k] = Idle
    /\ At(c, "caller") => Call(c) = Idle
    /\ ~At(c, "caller") => id[c]

\* The count runs one ahead of the holdings from the increment to the return.
Counts ==
  \A c \in Cores, l \in Locks :
    uxLockNesting[c][l] =
      IF At(c, "acquired") /\ Call(c).lock = l THEN holds[c][l] + 1
                                               ELSE holds[c][l]

\* The bit is waited for, and cleared, only with the count at zero.
ZeroAtBit ==
  \A c \in Cores :
    At(c, "set1") \/ At(c, "clr1") => uxLockNesting[c][Call(c).lock] = 0

\* The bit of a lock is set exactly while some core has it or is between
\* SET1 and the count, or between the count and CLR1: no bit stays set with
\* no owner left to clear it.
Owns(c, l) ==
  \/ uxLockNesting[c][l] > 0
  \/ Call(c).lock = l /\ Call(c).at \in {"count", "clr1"}

BitHasOwner == \A l \in Locks : mev[l] <=> \E c \in Cores : Owns(c, l)

\* At most one core owns a lock.
OneOwner ==
  \A l \in Locks : \A c, d \in Cores : Owns(c, l) /\ Owns(d, l) => c = d

\* What the running function will restore is what its caller set, and an
\* interrupted level had interrupts enabled.
Masks ==
  \A c \in Cores :
    /\ At(c, "caller") => id[c] = wants[c][level[c]]
    /\ ~At(c, "caller") => Call(c).mask = wants[c][level[c]]
    /\ \A k \in Levels : k < level[c] => wants[c][k] = FALSE

LockInv ==
  /\ LockTypeOK
  /\ OneCall
  /\ Counts
  /\ ZeroAtBit
  /\ BitHasOwner
  /\ OneOwner
  /\ Masks

LEMMA IdleFacts ==
  /\ Idle \in [at : Points, lock : Locks, mask : BOOLEAN]
  /\ Idle.at = "caller"
  /\ 0 \in Levels
BY LockAssumption DEF Idle, Points, Levels

LEMMA LockInitInv == LockInit => LockInv
<1> SUFFICES ASSUME LockInit PROVE LockInv
  OBVIOUS
<1> USE IdleFacts
<1>1. LockTypeOK
  BY LockAssumption DEF LockInit, LockTypeOK, None
<1>2. \A c \in Cores : Call(c) = Idle
  BY DEF LockInit, Call
<1>3. OneCall /\ Counts /\ ZeroAtBit /\ Masks
  BY <1>2 DEF LockInit, OneCall, Counts, ZeroAtBit, Masks, At, None, Levels
<1>4. \A c \in Cores, l \in Locks : ~Owns(c, l)
  BY <1>2 DEF LockInit, Owns, None
<1>5. BitHasOwner /\ OneOwner
  BY <1>4 DEF LockInit, BitHasOwner, OneOwner
<1>6. QED
  BY <1>1, <1>3, <1>5 DEF LockInv

LEMMA AcquireEnterInv ==
  ASSUME NEW c \in Cores, NEW l \in Locks, LockInv, AcquireEnter(c, l)
  PROVE  LockInv'
<1> USE IdleFacts DEF LockInv
<1>1. LockTypeOK'
  BY LockAssumption DEF LockTypeOK, AcquireEnter, SetInterruptMask, EnterCall, Points
<1>2. OneCall'
  BY DEF LockTypeOK, OneCall, AcquireEnter, SetInterruptMask, EnterCall, At, Call
<1>3. Counts'
  BY DEF LockTypeOK, Counts, AcquireEnter, EnterCall, At, Call
<1>4. ZeroAtBit'
  BY DEF LockTypeOK, ZeroAtBit, AcquireEnter, EnterCall, At, Call
<1>5. \A d \in Cores, m \in Locks : Owns(d, m)' <=> Owns(d, m)
  BY DEF LockTypeOK, Owns, AcquireEnter, EnterCall, At, Call
<1>6. BitHasOwner' /\ OneOwner'
  BY <1>5 DEF BitHasOwner, OneOwner, AcquireEnter
<1>7. Masks'
  BY ZenonT(60) DEF LockTypeOK, Masks, AcquireEnter, SetInterruptMask, EnterCall, At, Call
<1>8. QED
  BY <1>1, <1>2, <1>3, <1>4, <1>6, <1>7

LEMMA ExclusiveLockInv ==
  ASSUME NEW c \in Cores, LockInv, ExclusiveLock(c)
  PROVE  LockInv'
<1> USE IdleFacts DEF LockInv
<1>1. LockTypeOK'
  BY DEF LockTypeOK, ExclusiveLock, Goto, Points, Call, At
<1>c. OneCall'
  BY DEF LockTypeOK, OneCall, ExclusiveLock, Goto, At, Call
<1>n. Counts'
  BY DEF LockTypeOK, Counts, ExclusiveLock, Goto, At, Call
<1>z. ZeroAtBit'
  BY DEF LockTypeOK, ZeroAtBit, ExclusiveLock, Goto, At, Call
<1>m. Masks'
  BY DEF LockTypeOK, Masks, ExclusiveLock, Goto, At, Call
<1>2. OneCall' /\ Counts' /\ ZeroAtBit' /\ Masks'
  BY <1>c, <1>n, <1>z, <1>m
<1>l. PICK l \in Locks : l = Call(c).lock
  BY DEF LockTypeOK, Call
<1>3. \A d \in Cores : ~Owns(d, l)
  BY <1>l DEF BitHasOwner, ExclusiveLock
<1>4. /\ Owns(c, l)'
      /\ \A d \in Cores, m \in Locks :
           d # c \/ m # l => (Owns(d, m)' <=> Owns(d, m))
  BY <1>l DEF LockTypeOK, Owns, ExclusiveLock, Goto, At, Call
<1>5. mev' = [mev EXCEPT ![l] = TRUE]
  BY <1>l DEF ExclusiveLock
<1>6. BitHasOwner'
  <2> SUFFICES ASSUME NEW m \in Locks
               PROVE  (mev[m])' <=> (\E d \in Cores : Owns(d, m)')
    BY DEF BitHasOwner
  <2>1. CASE m = l
    <3>1. mev'[m] = TRUE
      BY <1>3, <1>5, <2>1 DEF LockTypeOK
    <3>2. QED
      BY <1>3, <1>4, <2>1, <3>1
  <2>2. CASE m # l
    <3>1. mev'[m] = mev[m]
      BY <1>5, <2>2 DEF LockTypeOK
    <3>2. \A d \in Cores : Owns(d, m)' <=> Owns(d, m)
      BY <1>4, <2>2
    <3>3. mev[m] <=> \E d \in Cores : Owns(d, m)
      BY DEF BitHasOwner
    <3>4. QED
      BY <3>1, <3>2, <3>3
  <2>3. QED
    BY <2>1, <2>2
<1>7. OneOwner'
  BY <1>3, <1>4 DEF OneOwner
<1>8. QED
  BY <1>1, <1>2, <1>6, <1>7

LEMMA CountUpInv ==
  ASSUME NEW c \in Cores, LockInv, CountUp(c)
  PROVE  LockInv'
<1> USE IdleFacts DEF LockInv
<1>1. LockTypeOK'
  BY DEF LockTypeOK, CountUp, Goto, Points, Call, At
<1>c. OneCall'
  BY DEF LockTypeOK, OneCall, CountUp, Goto, At, Call
<1>z. ZeroAtBit'
  BY DEF LockTypeOK, ZeroAtBit, CountUp, Goto, At, Call
<1>m. Masks'
  BY DEF LockTypeOK, Masks, CountUp, Goto, At, Call
<1>2. OneCall' /\ ZeroAtBit' /\ Masks'
  BY <1>c, <1>z, <1>m
<1>3. Counts'
  BY DEF LockTypeOK, Counts, CountUp, Goto, At, Call
<1>4. \A d \in Cores, m \in Locks : Owns(d, m)' <=> Owns(d, m)
  BY DEF LockTypeOK, Owns, CountUp, Goto, At, Call
<1>5. BitHasOwner' /\ OneOwner'
  BY <1>4 DEF BitHasOwner, OneOwner, CountUp
<1>6. QED
  BY <1>1, <1>2, <1>3, <1>5

LEMMA AcquireReturnInv ==
  ASSUME NEW c \in Cores, LockInv, AcquireReturn(c)
  PROVE  LockInv'
<1> USE IdleFacts DEF LockInv
<1>1. LockTypeOK'
  BY DEF LockTypeOK, AcquireReturn, Return, ClearInterruptMask, Call, At
<1>2. OneCall' /\ ZeroAtBit' /\ Masks'
  BY DEF LockTypeOK, OneCall, ZeroAtBit, Masks, AcquireReturn, Return,
         ClearInterruptMask, At, Call
<1>3. Counts'
  BY DEF LockTypeOK, Counts, AcquireReturn, Return, At, Call
<1>4. \A d \in Cores, m \in Locks : Owns(d, m)' <=> Owns(d, m)
  BY DEF LockTypeOK, Owns, AcquireReturn, Return, At, Call
<1>5. BitHasOwner' /\ OneOwner'
  BY <1>4 DEF BitHasOwner, OneOwner, AcquireReturn
<1>6. QED
  BY <1>1, <1>2, <1>3, <1>5

LEMMA ReleaseEnterInv ==
  ASSUME NEW c \in Cores, NEW l \in Locks, LockInv, ReleaseEnter(c, l)
  PROVE  LockInv'
<1> USE IdleFacts DEF LockInv
<1>0. holds[c][l] \in Nat \ {0} /\ uxLockNesting[c][l] = holds[c][l]
  <2>1. base[c][level[c]][l] \in Nat /\ holds[c][l] \in Nat
    BY DEF LockTypeOK
  <2>2. holds[c][l] > base[c][level[c]][l] /\ ~At(c, "acquired")
    BY DEF ReleaseEnter, At
  <2>3. QED
    BY <2>1, <2>2 DEF Counts
<1>1. LockTypeOK'
  BY <1>0, LockAssumption
  DEF LockTypeOK, ReleaseEnter, SetInterruptMask, EnterCall, Points
<1>2. OneCall'
  BY DEF LockTypeOK, OneCall, ReleaseEnter, SetInterruptMask, EnterCall, At, Call
<1>m. Masks'
  BY ZenonT(60) DEF LockTypeOK, Masks, ReleaseEnter, SetInterruptMask, EnterCall, At, Call
<1>3. Counts'
  BY <1>0 DEF LockTypeOK, Counts, ReleaseEnter, EnterCall, At, Call
<1>c. /\ Call(c)'.at = IF holds[c][l] = 1 THEN "clr1" ELSE "released"
      /\ Call(c)'.lock = l
      /\ \A d \in Cores : d # c => Call(d)' = Call(d)
  BY <1>0 DEF LockTypeOK, ReleaseEnter, EnterCall, Call
<1>n. /\ uxLockNesting'[c][l] = holds[c][l] - 1
      /\ \A d \in Cores, m \in Locks :
           d # c \/ m # l => uxLockNesting'[d][m] = uxLockNesting[d][m]
  BY <1>0 DEF LockTypeOK, ReleaseEnter
<1>z. ZeroAtBit'
  <2>1. \A d \in Cores : Call(d).lock \in Locks
    BY DEF LockTypeOK, Call
  <2>2. QED
    BY <1>0, <1>c, <1>n, <2>1 DEF ZeroAtBit, At
<1>4. \A d \in Cores, m \in Locks : Owns(d, m)' <=> Owns(d, m)
  <2>1. Owns(c, l) /\ Owns(c, l)'
    BY <1>0, <1>c, <1>n DEF Owns
  <2>2. \A m \in Locks : m # l => (Owns(c, m)' <=> Owns(c, m))
    BY <1>c, <1>n DEF Owns, ReleaseEnter, At
  <2>3. \A d \in Cores, m \in Locks : d # c => (Owns(d, m)' <=> Owns(d, m))
    BY <1>c, <1>n DEF Owns
  <2>4. QED
    BY <2>1, <2>2, <2>3
<1>5. BitHasOwner' /\ OneOwner'
  BY <1>4 DEF BitHasOwner, OneOwner, ReleaseEnter
<1>6. QED
  BY <1>1, <1>2, <1>3, <1>m, <1>z, <1>5

LEMMA ExclusiveReleaseInv ==
  ASSUME NEW c \in Cores, LockInv, ExclusiveRelease(c)
  PROVE  LockInv'
<1> USE IdleFacts DEF LockInv
<1>1. LockTypeOK'
  BY DEF LockTypeOK, ExclusiveRelease, Goto, Points, Call, At
<1>c. OneCall'
  BY DEF LockTypeOK, OneCall, ExclusiveRelease, Goto, At, Call
<1>n. Counts'
  BY DEF LockTypeOK, Counts, ExclusiveRelease, Goto, At, Call
<1>z. ZeroAtBit'
  BY DEF LockTypeOK, ZeroAtBit, ExclusiveRelease, Goto, At, Call
<1>m. Masks'
  BY DEF LockTypeOK, Masks, ExclusiveRelease, Goto, At, Call
<1>2. OneCall' /\ Counts' /\ ZeroAtBit' /\ Masks'
  BY <1>c, <1>n, <1>z, <1>m
<1>l. PICK l \in Locks : l = Call(c).lock
  BY DEF LockTypeOK, Call
<1>3. \A d \in Cores : Owns(d, l) <=> d = c
  BY <1>l DEF OneOwner, Owns, ExclusiveRelease, At
<1>4. /\ ~Owns(c, l)'
      /\ \A d \in Cores, m \in Locks :
           d # c \/ m # l => (Owns(d, m)' <=> Owns(d, m))
  BY <1>l DEF LockTypeOK, Owns, ZeroAtBit, ExclusiveRelease, Goto, At, Call
<1>5. mev' = [mev EXCEPT ![l] = FALSE]
  BY <1>l DEF ExclusiveRelease
<1>6. BitHasOwner'
  <2> SUFFICES ASSUME NEW m \in Locks
               PROVE  (mev[m])' <=> (\E d \in Cores : Owns(d, m)')
    BY DEF BitHasOwner
  <2>1. CASE m = l
    <3>1. mev'[m] = FALSE
      BY <1>3, <1>5, <2>1 DEF LockTypeOK
    <3>2. QED
      BY <1>3, <1>4, <2>1, <3>1
  <2>2. CASE m # l
    <3>1. mev'[m] = mev[m]
      BY <1>5, <2>2 DEF LockTypeOK
    <3>2. \A d \in Cores : Owns(d, m)' <=> Owns(d, m)
      BY <1>4, <2>2
    <3>3. mev[m] <=> \E d \in Cores : Owns(d, m)
      BY DEF BitHasOwner
    <3>4. QED
      BY <3>1, <3>2, <3>3
  <2>3. QED
    BY <2>1, <2>2
<1>7. OneOwner'
  BY <1>3, <1>4 DEF OneOwner
<1>8. QED
  BY <1>1, <1>2, <1>6, <1>7

LEMMA ReleaseReturnInv ==
  ASSUME NEW c \in Cores, LockInv, ReleaseReturn(c)
  PROVE  LockInv'
<1> USE IdleFacts DEF LockInv
<1>1. LockTypeOK'
  BY DEF LockTypeOK, ReleaseReturn, Return, ClearInterruptMask, Call, At
<1>2. OneCall' /\ Counts' /\ ZeroAtBit' /\ Masks'
  BY DEF LockTypeOK, OneCall, Counts, ZeroAtBit, Masks, ReleaseReturn, Return,
         ClearInterruptMask, At, Call
<1>3. \A d \in Cores, m \in Locks : Owns(d, m)' <=> Owns(d, m)
  BY DEF LockTypeOK, Owns, ReleaseReturn, Return, At, Call
<1>4. BitHasOwner' /\ OneOwner'
  BY <1>3 DEF BitHasOwner, OneOwner, ReleaseReturn
<1>5. QED
  BY <1>1, <1>2, <1>4

LEMMA InterruptInv ==
  ASSUME NEW c \in Cores, LockInv, Interrupt(c)
  PROVE  LockInv'
<1> USE IdleFacts DEF LockInv
<1>0. level[c] + 1 \in Levels /\ level[c] \in Nat /\ level[c] \in Levels
  BY LockAssumption DEF LockTypeOK, Interrupt, Levels
<1>1. LockTypeOK'
  BY <1>0 DEF LockTypeOK, Interrupt
<1>2. /\ At(c, "caller")
      /\ Call(c) = Idle
      /\ Call(c)' = Idle
      /\ \A d \in Cores : d # c => Call(d)' = Call(d)
  <2>1. At(c, "caller") /\ Call(c) = Idle
    BY DEF OneCall, Interrupt
  <2>2. Call(c)' = Idle
    BY <1>0 DEF LockTypeOK, OneCall, Interrupt, Call
  <2>3. \A d \in Cores : d # c => Call(d)' = Call(d)
    BY DEF LockTypeOK, Interrupt, Call
  <2>4. QED
    BY <2>1, <2>2, <2>3
<1>3. OneCall'
  <2>1. \A d \in Cores, k \in Levels : k # level'[d] => call'[d][k] = Idle
    BY <1>0, <1>2 DEF LockTypeOK, OneCall, Interrupt, Call
  <2>2. QED
    BY <1>2, <2>1 DEF LockTypeOK, OneCall, Interrupt, At
<1>4. Counts' /\ ZeroAtBit'
  BY <1>2 DEF Counts, ZeroAtBit, Interrupt, At
<1>5. \A d \in Cores, m \in Locks : Owns(d, m)' <=> Owns(d, m)
  BY <1>2 DEF Owns, Interrupt
<1>6. BitHasOwner' /\ OneOwner'
  BY <1>5 DEF BitHasOwner, OneOwner, Interrupt
<1>7. Masks'
  <2>1. \A d \in Cores : d # c => wants'[d] = wants[d] /\ level'[d] = level[d]
    BY DEF LockTypeOK, Interrupt
  <2>2. id' = [id EXCEPT ![c] = TRUE] /\ level' = [level EXCEPT ![c] = @ + 1]
    BY DEF Interrupt
  <2>3. wants'[c] = [wants[c] EXCEPT ![level[c] + 1] = TRUE]
    BY DEF LockTypeOK, Interrupt
  <2>4. wants[c][level[c]] = FALSE
    BY <1>2 DEF LockTypeOK, Masks, Interrupt
  <2>5. ASSUME NEW k \in Levels, k < level'[c] PROVE wants'[c][k] = FALSE
    <3>1. k <= level[c] /\ k # level[c] + 1 /\ k \in Nat
      BY <1>0, <2>2, <2>5, LockAssumption DEF LockTypeOK, Levels
    <3>2. wants'[c][k] = wants[c][k]
      BY <2>3, <3>1 DEF LockTypeOK
    <3>3. k < level[c] \/ k = level[c]
      BY <1>0, <3>1
    <3>4. QED
      BY <2>4, <3>2, <3>3 DEF Masks
  <2>6. id'[c] = wants'[c][level'[c]]
    BY <1>0, <2>2, <2>3, ZenonT(60) DEF LockTypeOK
  <2>7. \A d \in Cores : d # c => id'[d] = id[d]
    BY <2>2 DEF LockTypeOK
  <2>8. SUFFICES ASSUME NEW d \in Cores
                 PROVE  /\ At(d, "caller")' => id'[d] = wants'[d][level'[d]]
                        /\ ~At(d, "caller")' => Call(d)'.mask = wants'[d][level'[d]]
                        /\ \A k \in Levels : k < level'[d] => wants'[d][k] = FALSE
    BY Zenon DEF Masks
  <2>9. CASE d = c
    BY <1>2, <2>5, <2>6, <2>9 DEF At
  <2>10. CASE d # c
    BY <1>2, <2>1, <2>7, <2>10 DEF Masks, At
  <2>11. QED
    BY <2>9, <2>10
<1>8. QED
  BY <1>1, <1>3, <1>4, <1>6, <1>7

LEMMA InterruptReturnInv ==
  ASSUME NEW c \in Cores, LockInv, InterruptReturn(c)
  PROVE  LockInv'
<1> USE IdleFacts DEF LockInv
<1>0. /\ level[c] - 1 \in Levels /\ level[c] \in Nat \ {0} /\ level[c] \in Levels
      /\ None \in [Locks -> Nat]
  BY LockAssumption DEF LockTypeOK, InterruptReturn, Levels, None
<1>1. LockTypeOK'
  BY <1>0 DEF LockTypeOK, InterruptReturn
<1>2. /\ Call(c) = Idle
      /\ Call(c)' = Idle
      /\ \A d \in Cores : d # c => Call(d)' = Call(d)
  <2>1. Call(c) = Idle
    BY DEF OneCall, InterruptReturn
  <2>2. Call(c)' = Idle
    BY <1>0 DEF LockTypeOK, OneCall, InterruptReturn, Call
  <2>3. \A d \in Cores : d # c => Call(d)' = Call(d)
    BY DEF LockTypeOK, InterruptReturn, Call
  <2>4. QED
    BY <2>1, <2>2, <2>3
<1>3. OneCall'
  <2>1. \A d \in Cores, k \in Levels : k # level'[d] => call'[d][k] = Idle
    BY <1>0, <1>2 DEF LockTypeOK, OneCall, InterruptReturn, Call
  <2>2. QED
    BY <1>2, <2>1 DEF LockTypeOK, OneCall, InterruptReturn, At
<1>4. Counts' /\ ZeroAtBit'
  BY <1>2 DEF Counts, ZeroAtBit, InterruptReturn, At
<1>5. \A d \in Cores, m \in Locks : Owns(d, m)' <=> Owns(d, m)
  BY <1>2 DEF Owns, InterruptReturn
<1>6. BitHasOwner' /\ OneOwner'
  BY <1>5 DEF BitHasOwner, OneOwner, InterruptReturn
<1>7. Masks'
  <2>1. \A d \in Cores : d # c => wants'[d] = wants[d] /\ level'[d] = level[d]
    BY DEF LockTypeOK, InterruptReturn
  <2>2. id' = [id EXCEPT ![c] = FALSE] /\ level' = [level EXCEPT ![c] = @ - 1]
    BY DEF InterruptReturn
  <2>3. wants'[c] = [wants[c] EXCEPT ![level[c]] = FALSE]
    BY DEF LockTypeOK, InterruptReturn
  <2>4. wants[c][level[c] - 1] = FALSE
    BY <1>0 DEF LockTypeOK, Masks
  <2>5. ASSUME NEW k \in Levels, k < level'[c] PROVE wants'[c][k] = FALSE
    <3>1. k < level[c] /\ k # level[c]
      BY <1>0, <2>2, <2>5, LockAssumption DEF LockTypeOK, Levels
    <3>2. wants'[c][k] = wants[c][k]
      BY <2>3, <3>1 DEF LockTypeOK
    <3>3. QED
      BY <3>1, <3>2 DEF Masks
  <2>6. id'[c] = wants'[c][level'[c]]
    BY ZenonT(30), <1>0, <2>2, <2>3, <2>4 DEF LockTypeOK
  <2>7. \A d \in Cores : d # c => id'[d] = id[d]
    BY <2>2 DEF LockTypeOK
  <2>8. SUFFICES ASSUME NEW d \in Cores
                 PROVE  /\ At(d, "caller")' => id'[d] = wants'[d][level'[d]]
                        /\ ~At(d, "caller")' => Call(d)'.mask = wants'[d][level'[d]]
                        /\ \A k \in Levels : k < level'[d] => wants'[d][k] = FALSE
    BY Zenon DEF Masks
  <2>9. CASE d = c
    BY <1>2, <2>5, <2>6, <2>9 DEF At
  <2>10. CASE d # c
    BY <1>2, <2>1, <2>7, <2>10 DEF Masks, At
  <2>11. QED
    BY <2>9, <2>10
<1>8. QED
  BY <1>1, <1>3, <1>4, <1>6, <1>7

LEMMA SetInterruptsInv ==
  ASSUME NEW c \in Cores, NEW masked \in BOOLEAN, LockInv, SetInterrupts(c, masked)
  PROVE  LockInv'
<1> USE IdleFacts DEF LockInv
<1>1. LockTypeOK'
  BY DEF LockTypeOK, SetInterrupts
<1>2. \A d \in Cores : Call(d)' = Call(d)
  BY DEF SetInterrupts, Call
<1>3. OneCall'
  BY <1>2 DEF LockTypeOK, OneCall, SetInterrupts, At
<1>4. Counts' /\ ZeroAtBit'
  BY <1>2 DEF Counts, ZeroAtBit, SetInterrupts, At
<1>5. \A d \in Cores, m \in Locks : Owns(d, m)' <=> Owns(d, m)
  BY <1>2 DEF Owns, SetInterrupts
<1>6. BitHasOwner' /\ OneOwner'
  BY <1>5 DEF BitHasOwner, OneOwner, SetInterrupts
<1>7. Masks'
  <2>1. level[c] \in Levels /\ level[c] \in Nat
    BY DEF LockTypeOK, Levels
  <2>2. wants' = [wants EXCEPT ![c][level[c]] = masked]
    BY DEF SetInterrupts
  <2>3. \A d \in Cores, k \in Levels :
          d # c \/ k # level[c] => wants'[d][k] = wants[d][k]
    BY <2>2 DEF LockTypeOK
  <2>4. wants'[c][level[c]] = masked /\ id'[c] = masked
    BY <2>1, <2>2 DEF LockTypeOK, SetInterrupts
  <2>5. \A d \in Cores : level'[d] = level[d] /\ (d # c => id'[d] = id[d])
    BY DEF LockTypeOK, SetInterrupts
  <2>6. At(c, "caller")
    BY DEF SetInterrupts
  <2>7. ASSUME NEW d \in Cores, d # c
        PROVE  level[d] \in Levels /\ \A k \in Levels : wants'[d][k] = wants[d][k]
    BY <2>3, <2>7 DEF LockTypeOK
  <2>8. \A k \in Levels : k < level[c] => k # level[c]
    BY <2>1 DEF Levels
  <2>9. QED
    BY <1>2, <2>1, <2>3, <2>4, <2>5, <2>6, <2>7, <2>8 DEF Masks, At
<1>8. QED
  BY <1>1, <1>3, <1>4, <1>6, <1>7

LEMMA LockStutterInv == LockInv /\ UNCHANGED lockVars => LockInv'
BY DEF LockInv, lockVars, LockTypeOK, OneCall, Counts, ZeroAtBit, BitHasOwner, OneOwner,
       Masks, Owns, At, Call

LEMMA LockNextInv == LockInv /\ [LockNext]_lockVars => LockInv'
<1> SUFFICES ASSUME LockInv, [LockNext]_lockVars PROVE LockInv'
  OBVIOUS
<1>1. ASSUME NEW c \in Cores, LockStep(c) PROVE LockInv'
  BY <1>1, ExclusiveLockInv, CountUpInv, AcquireReturnInv, ExclusiveReleaseInv,
     ReleaseReturnInv DEF LockStep
<1>2. ASSUME NEW c \in Cores, CallerStep(c) PROVE LockInv'
  BY <1>2, AcquireEnterInv, ReleaseEnterInv, SetInterruptsInv, InterruptInv,
     InterruptReturnInv DEF CallerStep
<1>3. CASE UNCHANGED lockVars
  BY <1>3, LockStutterInv
<1>4. QED
  BY <1>1, <1>2, <1>3 DEF LockNext

\* Every reachable state of the lock functions satisfies the invariant.
THEOREM LockInductive == LockSpec => []LockInv
BY LockInitInv, LockNextInv, PTL DEF LockSpec

-----------------------------------------------------------------------------
LEMMA HoldsGiveOwnership ==
  ASSUME LockInv, NEW c \in Cores, NEW l \in Locks, holds[c][l] > 0
  PROVE  Owns(c, l)
<1>1. holds[c][l] \in Nat /\ uxLockNesting[c][l] >= holds[c][l]
  <2>1. holds[c][l] \in Nat
    BY DEF LockInv, LockTypeOK
  <2>2. uxLockNesting[c][l] \in {holds[c][l], holds[c][l] + 1}
    BY DEF LockInv, Counts
  <2>3. QED
    BY <2>1, <2>2
<1>2. QED
  BY <1>1 DEF Owns, LockInv, LockTypeOK

LEMMA InvImpliesExclusion == LockInv => MutualExclusion
<1> SUFFICES ASSUME LockInv, NEW l \in Locks, NEW c \in Cores, NEW d \in Cores,
                    c # d, holds[c][l] # 0, holds[d][l] # 0
             PROVE  FALSE
  BY DEF MutualExclusion, Abstract!MutualExclusion
<1>1. holds[c][l] > 0 /\ holds[d][l] > 0
  BY DEF LockInv, LockTypeOK
<1>2. Owns(c, l) /\ Owns(d, l)
  BY <1>1, HoldsGiveOwnership
<1>3. QED
  BY <1>2 DEF LockInv, OneOwner

\* The portGET/portRELEASE macros of the RH850 port keep the cores apart: no
\* two cores hold the task lock, or the ISR lock, together
\* (vPortRecursiveLockAcquire, vPortRecursiveLockRelease).
THEOREM LockMutualExclusion == LockSpec => []MutualExclusion
BY LockInductive, InvImpliesExclusion, PTL

\* The types of the port's lock state; uxLockNesting never goes negative.
THEOREM LockTypes == LockSpec => []LockTypeOK
<1>1. LockInv => LockTypeOK
  BY DEF LockInv
<1>2. QED
  BY <1>1, LockInductive, PTL

\* The nesting count of a core that is between lock functions is what its
\* callers hold, so the assertion of vPortRecursiveLockRelease holds at every
\* legal call.
THEOREM LockCounts == LockSpec => []CountIsHoldings
<1>1. LockInv => CountIsHoldings
  <2> SUFFICES ASSUME LockInv, NEW c \in Cores, At(c, "caller")
               PROVE  uxLockNesting[c] = holds[c]
    BY DEF CountIsHoldings
  <2>1. \A l \in Locks : uxLockNesting[c][l] = holds[c][l]
    BY DEF LockInv, Counts, At
  <2>2. QED
    BY <2>1 DEF LockInv, LockTypeOK
<1>2. QED
  BY <1>1, LockInductive, PTL

\* Lock functions return with the interrupt mask of their caller.
THEOREM LockMasks == LockSpec => []MaskPreserved
<1>1. LockInv => MaskPreserved
  BY DEF LockInv, Masks, MaskPreserved
<1>2. QED
  BY <1>1, LockInductive, PTL

-----------------------------------------------------------------------------
LEMMA AcquireRefines ==
  ASSUME LockInv, NEW c \in Cores, AcquireReturn(c)
  PROVE  \E l \in Locks : Abstract!Acquire(c, l)
<1>l. PICK l \in Locks : l = Call(c).lock
  BY DEF LockInv, LockTypeOK, Call
<1>1. Owns(c, l)
  <2>1. uxLockNesting[c][l] = holds[c][l] + 1 /\ holds[c][l] \in Nat
    BY <1>l DEF LockInv, LockTypeOK, Counts, AcquireReturn
  <2>2. QED
    BY <2>1 DEF Owns
<1>2. ASSUME NEW d \in Cores \ {c} PROVE holds[d][l] = 0
  <2>1. ~Owns(d, l)
    BY <1>1 DEF LockInv, OneOwner
  <2>2. QED
    BY <2>1, HoldsGiveOwnership DEF LockInv, LockTypeOK
<1>3. holds' = [holds EXCEPT ![c][l] = @ + 1]
  BY <1>l DEF AcquireReturn
<1>4. Abstract!Acquire(c, l)
  BY <1>2, <1>3 DEF Abstract!Acquire, Abstract!FreeFor
<1>5. QED
  BY <1>4

LEMMA ReleaseRefines ==
  ASSUME LockInv, NEW c \in Cores, NEW l \in Locks, ReleaseEnter(c, l)
  PROVE  Abstract!Release(c, l)
<1>1. base[c][level[c]][l] \in Nat /\ holds[c][l] \in Nat
  BY DEF LockInv, LockTypeOK
<1>2. QED
  BY <1>1 DEF ReleaseEnter, Abstract!Release

LEMMA LockStepRefines == LockInv /\ [LockNext]_lockVars => [Abstract!Next]_holds
<1> SUFFICES ASSUME LockInv, [LockNext]_lockVars PROVE [Abstract!Next]_holds
  OBVIOUS
<1>1. ASSUME NEW c \in Cores, LockStep(c) PROVE [Abstract!Next]_holds
  <2>1. CASE AcquireReturn(c)
    BY <2>1, AcquireRefines DEF Abstract!Next
  <2>2. CASE ~AcquireReturn(c)
    BY <1>1, <2>2 DEF LockStep, ExclusiveLock, CountUp, ExclusiveRelease,
                      ReleaseReturn
  <2>3. QED
    BY <2>1, <2>2
<1>2. ASSUME NEW c \in Cores, CallerStep(c) PROVE [Abstract!Next]_holds
  <2>1. ASSUME NEW l \in Locks, ReleaseEnter(c, l) PROVE Abstract!Next
    BY <2>1, ReleaseRefines DEF Abstract!Next
  <2>2. ASSUME \A l \in Locks : ~ReleaseEnter(c, l) PROVE UNCHANGED holds
    BY <1>2, <2>2 DEF CallerStep, AcquireEnter, SetInterrupts, Interrupt,
                      InterruptReturn
  <2>3. QED
    BY <2>1, <2>2
<1>3. CASE UNCHANGED lockVars
  BY <1>3 DEF lockVars
<1>4. QED
  BY <1>1, <1>2, <1>3 DEF LockNext

\* The spin locks of the RH850 port implement the lock the kernel relies on:
\* an acquire takes effect when it returns, a release when it is called.
THEOREM LockRefinement == LockSpec => ImplementsCoreLock
<1>1. LockInit => Abstract!Init
  BY DEF LockInit, Abstract!Init, None
<1>2. QED
  BY <1>1, LockInductive, LockStepRefines, PTL DEF LockSpec, ImplementsCoreLock, Abstract!Spec

-----------------------------------------------------------------------------
(* The context switch (RH850Sched)                                         *)

\* No request reaches a core that the loop has yet to mark for its first task.
NoneUnreached == \A c \in todo \ {Primary} : flags[c] = {}

Types ==
  /\ xPortScheduleStatus \in [Cores -> {NOREQUEST, TASKSWITCH, STARTFIRSTTASK}]
  /\ flags \in [Cores -> SUBSET Cores]
  /\ id \in [Cores -> BOOLEAN]
  /\ depth \in [Cores -> Nat]
  /\ uxInterruptNesting \in [Cores -> Nat]
  /\ frame = [c \in Cores |-> frame[c]]
  /\ \A c \in Cores : depth[c] <= MaxNest[c] /\ frame[c] \in [1 .. MaxNest[c] -> Frames]
  /\ at \in [Cores -> BasePoints]
  /\ cpu \in [Cores -> Tasks \cup {Main}]
  /\ pxCurrentTCBs \in [Cores -> Tasks]
  /\ saved \in [Tasks -> Tasks \cup {Live}]
  /\ todo \subseteq Cores

\* The nesting count is the number of frames, each of which puts back the
\* count it found; the tick is the primary core's.
Nesting ==
  \A c \in Cores :
    /\ uxInterruptNesting[c] = depth[c]
    /\ \A k \in 1 .. depth[c] :
         frame[c][k].old = k - 1 /\ (frame[c][k].isr = "tick" => c = Primary)

\* Interrupts come to code that waits or runs; everything else is masked.
Masked == \A c \in Cores : at[c] \notin {"wait", "run"} => id[c] /\ depth[c] = 0

\* What a core's status says about its start: it is STARTFIRSTTASK from the
\* moment the loop reaches a core that waits until that core leaves for its
\* first task, and a switch is requested of started cores only.
Starting ==
  /\ \A c \in Cores :
       /\ at[c] \in {"loop", "send"} => c = Primary
       /\ at[c] = "wait" => c # Primary
       /\ Started(c) <=> at[c] \notin {"loop", "send", "wait", "first"}
       /\ xPortScheduleStatus[c] = TASKSWITCH => Started(c)
       /\ xPortScheduleStatus[c] = STARTFIRSTTASK => at[c] = "wait"
       /\ at[c] = "wait" /\ c \notin todo => xPortScheduleStatus[c] = STARTFIRSTTASK
  /\ \A c \in todo \ {Primary} :
       /\ at[c] = "wait" /\ xPortScheduleStatus[c] = NOREQUEST
       /\ \A k \in 1 .. depth[c] : frame[c][k].isr # "ipi"

OneCore == \A c, d \in Cores : pxCurrentTCBs[c] = pxCurrentTCBs[d] => c = d

IInv == Types /\ Nesting /\ Masked /\ Starting /\ OneCore /\ ContextsIntact

\* With two cores, the only one that could be asked too early is asked by the
\* one that runs the loop.
LoopState ==
  /\ todo # {} => at[Primary] \in {"loop", "send"}
  /\ at[Primary] = "send" => target \in Cores \ todo

-----------------------------------------------------------------------------
LEMMA InitInv == Init => IInv /\ NoneUnreached /\ LoopState
<1> SUFFICES ASSUME Init PROVE IInv /\ NoneUnreached /\ LoopState
  OBVIOUS
<1> USE SchedAssumption DEF Init, pxPortInitialiseStack
<1>1. Types
  <2>1. NoFrame \in Frames
    BY DEF NoFrame, Frames, Kinds, FramePoints
  <2>2. frame = [c \in Cores |-> frame[c]]
        /\ \A c \in Cores : frame[c] \in [1 .. MaxNest[c] -> Frames]
    BY <2>1
  <2>3. /\ depth \in [Cores -> Nat] /\ uxInterruptNesting \in [Cores -> Nat]
        /\ \A c \in Cores : depth[c] <= MaxNest[c]
    OBVIOUS
  <2>4. /\ at \in [Cores -> BasePoints] /\ id \in [Cores -> BOOLEAN]
        /\ cpu \in [Cores -> Tasks \cup {Main}]
        /\ saved \in [Tasks -> Tasks \cup {Live}]
    BY DEF BasePoints
  <2> QED BY <2>2, <2>3, <2>4 DEF Types
<1>2. Nesting /\ Masked
  <2>1. id[Primary]
    BY Zenon
  <2>2. \A c \in Cores : c # Primary => at[c] = "wait"
    OBVIOUS
  <2>3. Nesting /\ \A c \in Cores : depth[c] = 0
    BY DEF Nesting
  <2> QED BY <2>1, <2>2, <2>3 DEF Masked
<1>3. Starting
  BY DEF Starting, Started, NOREQUEST, TASKSWITCH, STARTFIRSTTASK
<1>4. OneCore /\ ContextsIntact
  BY DEF OneCore, ContextsIntact, Running
<1>5. NoneUnreached /\ LoopState
  BY DEF NoneUnreached, LoopState
<1> QED BY <1>1, <1>2, <1>3, <1>4, <1>5 DEF IInv

\* What the invariant says of a core in the middle of an interrupt.
LEMMA InFrame ==
  ASSUME IInv, NEW c \in Cores, depth[c] > 0
  PROVE  /\ Top(c) \in Frames /\ Top(c).old = depth[c] - 1
         /\ depth[c] \in 1 .. MaxNest[c]
         /\ at[c] \in {"wait", "run"}
         /\ Top(c).isr = "tick" => c = Primary
<1>1. depth[c] \in 1 .. MaxNest[c]
  BY SchedAssumption DEF IInv, Types
<1>2. Top(c) \in Frames
  BY <1>1 DEF IInv, Types, Top
<1>3. depth[c] \in 1 .. depth[c]
  BY <1>1, SchedAssumption DEF IInv, Types
<1>4. at[c] \in {"wait", "run"}
  BY <1>1 DEF IInv, Masked
<1> QED BY <1>1, <1>2, <1>3, <1>4 DEF IInv, Nesting, Top

LEMMA RunningStarted ==
  ASSUME IInv, NEW c \in Cores, Running(c)
  PROVE  cpu[c] = pxCurrentTCBs[c] /\ cpu[c] \in Tasks /\ Started(c)
BY DEF IInv, Types, ContextsIntact, Starting, Running

-----------------------------------------------------------------------------
(* The loop of xPortStartScheduler                                         *)

LEMMA MarkCoreInv ==
  ASSUME NEW x \in Cores, IInv, NoneUnreached, MarkCore(x)
  PROVE  IInv'
<1> DEFINE r == IF x = Primary THEN NOREQUEST ELSE STARTFIRSTTASK
           p == IF x = Primary THEN "loop" ELSE "send"
<1>1. /\ at[Primary] = "loop" /\ x \in todo
      /\ todo' = todo \ {x}
      /\ xPortScheduleStatus' = [xPortScheduleStatus EXCEPT ![x] = r]
      /\ at' = [at EXCEPT ![Primary] = p]
      /\ UNCHANGED <<flags, id, isrVars, taskVars>>
  BY DEF MarkCore
<1>2. Primary \in Cores /\ p \in {"loop", "send"} /\ r \in {NOREQUEST, STARTFIRSTTASK}
  BY SchedAssumption
<1>3. /\ at'[Primary] = p /\ \A d \in Cores \ {Primary} : at'[d] = at[d]
      /\ xPortScheduleStatus'[x] = r
      /\ \A d \in Cores \ {x} : xPortScheduleStatus'[d] = xPortScheduleStatus[d]
  BY <1>1, <1>2 DEF IInv, Types
<1>4. Types'
  BY <1>1, <1>2 DEF IInv, Types, BasePoints, isrVars, taskVars
<1>5. Nesting' /\ OneCore'
  BY <1>1 DEF IInv, Nesting, OneCore, isrVars, taskVars
<1>6. Masked'
  BY <1>1, <1>2, <1>3 DEF IInv, Masked, isrVars
<1>7. ContextsIntact'
  BY <1>1, <1>2, <1>3 DEF IInv, ContextsIntact, Running, taskVars
<1>8. Starting'
  <2>1. \A d \in Cores : Started(d)' <=> Started(d)
    BY <1>1 DEF Started, taskVars
  <2>2. \A d \in Cores : at[d] = "loop" <=> at'[d] \in {"loop", "send"} /\ at[d] = "loop"
    BY <1>2, <1>3 DEF IInv, Starting
  <2>3. x # Primary => at[x] = "wait" /\ r = STARTFIRSTTASK
    BY <1>1 DEF IInv, Starting
  <2>4. x = Primary => r = NOREQUEST
    OBVIOUS
  <2> HIDE DEF r, p
  <2> QED BY <1>1, <1>2, <1>3, <2>1, <2>3, <2>4
          DEF IInv, Starting, NOREQUEST, TASKSWITCH, STARTFIRSTTASK, isrVars
<1> QED BY <1>4, <1>5, <1>6, <1>7, <1>8 DEF IInv

LEMMA RequestTyped ==
  ASSUME IInv, NEW c \in Cores, NEW x, Request(c, x)
  PROVE  flags' \in [Cores -> SUBSET Cores]
<1>1. flags \in [Cores -> SUBSET Cores]
  BY DEF IInv, Types
<1>2. CASE x \in Cores
  <2>1. flags[x] \cup {c} \in SUBSET Cores
    BY <1>1, <1>2
  <2> QED BY <1>1, <1>2, <2>1 DEF Request
<1>3. CASE x \notin Cores
  BY <1>1, <1>3 DEF Request
<1> QED BY <1>2, <1>3

\* Steps of the loop that mark no core.
LEMMA LoopInv ==
  ASSUME IInv, SendStart \/ LoopDone
  PROVE  IInv'
<1> DEFINE p == IF at[Primary] = "send" THEN "loop" ELSE "first"
<1>1. /\ at[Primary] \in {"loop", "send"} /\ at' = [at EXCEPT ![Primary] = p]
      /\ p = "first" => todo = {}
      /\ UNCHANGED <<xPortScheduleStatus, id, isrVars, taskVars, todo>>
  BY DEF SendStart, LoopDone, bootVars
<1>2. Primary \in Cores /\ p \in {"loop", "first"}
  BY SchedAssumption
<1>3. flags' \in [Cores -> SUBSET Cores]
  <2>1. CASE SendStart
    BY <1>2, <2>1, RequestTyped DEF SendStart
  <2>2. CASE LoopDone
    BY <2>2 DEF LoopDone, IInv, Types
  <2> QED BY <2>1, <2>2
<1> HIDE DEF p
<1>4. at'[Primary] = p /\ \A d \in Cores \ {Primary} : at'[d] = at[d]
  BY <1>1, <1>2 DEF IInv, Types
<1>5. Types'
  BY <1>1, <1>2, <1>3 DEF IInv, Types, BasePoints, isrVars, taskVars
<1>6. Nesting' /\ OneCore'
  BY <1>1 DEF IInv, Nesting, OneCore, isrVars, taskVars
<1>7. Masked'
  BY <1>1, <1>2, <1>4 DEF IInv, Masked, isrVars
<1>8. ContextsIntact'
  BY <1>1, <1>2, <1>4 DEF IInv, ContextsIntact, Running, taskVars
<1>9. Starting'
  BY <1>1, <1>2, <1>4 DEF IInv, Starting, Started, isrVars, taskVars
<1> QED BY <1>5, <1>6, <1>7, <1>8, <1>9 DEF IInv

-----------------------------------------------------------------------------
(* Contexts                                                                *)

LEMMA SaveContexts ==
  ASSUME NEW c \in Cores, IInv, at[c] = "run", Save(c),
         at' = [at EXCEPT ![c] = "pick"], UNCHANGED <<cpu, pxCurrentTCBs>>
  PROVE  ContextsIntact' /\ saved' \in [Tasks -> Tasks \cup {Live}]
<1>1. cpu[c] = pxCurrentTCBs[c] /\ cpu[c] \in Tasks
  BY RunningStarted DEF Running
<1>2. /\ saved' = [saved EXCEPT ![cpu[c]] = cpu[c]]
      /\ saved' \in [Tasks -> Tasks \cup {Live}]
  BY <1>1 DEF Save, IInv, Types
<1>3. \A d \in Cores : Running(d)' <=> Running(d) /\ d # c
  BY DEF IInv, Types, Running
<1>4. ASSUME NEW t \in Tasks, saved'[t] # t
      PROVE  saved'[t] = Live /\ \E d \in Cores : Running(d)' /\ cpu'[d] = t
  <2>1. t # cpu[c] /\ saved'[t] = saved[t]
    BY <1>1, <1>2, <1>4 DEF IInv, Types
  <2>2. PICK d \in Cores : Running(d) /\ cpu[d] = t /\ saved[t] = Live
    BY <1>4, <2>1 DEF IInv, ContextsIntact
  <2> QED BY <1>3, <2>1, <2>2
<1> QED BY <1>2, <1>3, <1>4 DEF IInv, ContextsIntact

LEMMA TrapFromTaskInv ==
  ASSUME NEW c \in Cores, IInv, TrapFromTask(c)
  PROVE  IInv'
<1>1. /\ at[c] = "run" /\ depth[c] = 0 /\ Save(c)
      /\ id' = [id EXCEPT ![c] = TRUE]
      /\ at' = [at EXCEPT ![c] = "pick"]
      /\ UNCHANGED <<xPortScheduleStatus, flags, isrVars, cpu, pxCurrentTCBs, todo>>
  BY DEF TrapFromTask, bootVars
<1>2. ContextsIntact' /\ saved' \in [Tasks -> Tasks \cup {Live}]
  BY <1>1, SaveContexts
<1>3. Started(c)
  BY <1>1, RunningStarted DEF Running
<1>4. /\ at'[c] = "pick" /\ id'[c]
      /\ \A d \in Cores \ {c} : at'[d] = at[d] /\ id'[d] = id[d]
  BY <1>1 DEF IInv, Types
<1>5. Types'
  BY <1>1, <1>2 DEF IInv, Types, BasePoints, isrVars
<1>6. Nesting' /\ OneCore'
  BY <1>1 DEF IInv, Nesting, OneCore, isrVars
<1>7. Masked'
  BY <1>1, <1>4 DEF IInv, Masked, isrVars
<1>8. Starting'
  BY <1>1, <1>3, <1>4 DEF IInv, Starting, Started, isrVars
<1> QED BY <1>2, <1>5, <1>6, <1>7, <1>8 DEF IInv

LEMMA SwitchContextInv ==
  ASSUME NEW c \in Cores, IInv, vTaskSwitchContext(c)
  PROVE  IInv'
<1>1. PICK t \in Tasks :
        /\ \A d \in Cores \ {c} : pxCurrentTCBs[d] # t
        /\ pxCurrentTCBs' = [pxCurrentTCBs EXCEPT ![c] = t]
  BY DEF vTaskSwitchContext
<1>2. /\ at[c] = "pick" /\ at' = [at EXCEPT ![c] = "restore"]
      /\ UNCHANGED <<xPortScheduleStatus, flags, id, isrVars, cpu, saved, todo>>
  BY DEF vTaskSwitchContext, bootVars
<1>3. /\ at'[c] = "restore" /\ \A d \in Cores \ {c} : at'[d] = at[d]
      /\ \A d \in Cores : Running(d)' <=> Running(d)
  BY <1>2 DEF IInv, Types, Running
<1>4. Types'
  BY <1>1, <1>2 DEF IInv, Types, BasePoints, isrVars
<1>5. Nesting'
  BY <1>2 DEF IInv, Nesting, isrVars
<1>6. OneCore'
  BY <1>1 DEF IInv, Types, OneCore
<1>7. Masked'
  BY <1>2, <1>3 DEF IInv, Masked, isrVars
<1>8. Starting'
  BY <1>2, <1>3 DEF IInv, Starting, Started, isrVars
<1>9. ContextsIntact'
  <2>1. \A d \in Cores : Running(d) => d # c /\ pxCurrentTCBs'[d] = pxCurrentTCBs[d]
    BY <1>1, <1>2 DEF IInv, Types, Running
  <2> QED BY <1>2, <1>3, <2>1 DEF IInv, ContextsIntact
<1> QED BY <1>4, <1>5, <1>6, <1>7, <1>8, <1>9 DEF IInv

\* A task that is to run next has its context: no other core runs it.
LEMMA ReadyContext ==
  ASSUME NEW c \in Cores, IInv, ~Running(c)
  PROVE  saved[pxCurrentTCBs[c]] = pxCurrentTCBs[c]
<1> SUFFICES ASSUME saved[pxCurrentTCBs[c]] # pxCurrentTCBs[c]
             PROVE  FALSE
  OBVIOUS
<1>1. pxCurrentTCBs[c] \in Tasks
  BY DEF IInv, Types
<1>2. PICK d \in Cores : Running(d) /\ cpu[d] = pxCurrentTCBs[c]
  BY <1>1 DEF IInv, ContextsIntact
<1>3. pxCurrentTCBs[d] = pxCurrentTCBs[c]
  BY <1>2 DEF IInv, ContextsIntact
<1> QED BY <1>2, <1>3 DEF IInv, OneCore

LEMMA RestoreInv ==
  ASSUME NEW c \in Cores, IInv, StartFirstTask(c) \/ RestoreContext(c)
  PROVE  IInv'
<1> DEFINE u == pxCurrentTCBs[c]
<1>1. at[c] \in {"first", "restore"} /\ ~Running(c)
  BY DEF StartFirstTask, RestoreContext, Running
<1>2. u \in Tasks /\ saved[u] = u
  BY <1>1, ReadyContext DEF IInv, Types
<1>3. /\ cpu' = [cpu EXCEPT ![c] = u]
      /\ saved' = [saved EXCEPT ![u] = Live]
      /\ id' = [id EXCEPT ![c] = FALSE]
      /\ at' = [at EXCEPT ![c] = "run"]
      /\ UNCHANGED <<xPortScheduleStatus, flags, isrVars, pxCurrentTCBs, todo>>
  BY <1>2 DEF StartFirstTask, RestoreContext, Restore, bootVars
<1>4. u = pxCurrentTCBs[c]
  OBVIOUS
<1> HIDE DEF u
<1>5. /\ at'[c] = "run" /\ cpu'[c] = u
      /\ \A d \in Cores \ {c} : at'[d] = at[d] /\ id'[d] = id[d] /\ cpu'[d] = cpu[d]
      /\ \A t \in Tasks : saved'[t] = IF t = u THEN Live ELSE saved[t]
  BY <1>2, <1>3 DEF IInv, Types
<1>6. \A d \in Cores : Running(d)' <=> Running(d) \/ d = c
  BY <1>5 DEF Running
<1>7. Types'
  BY <1>2, <1>3 DEF IInv, Types, BasePoints, isrVars
<1>8. Nesting' /\ OneCore'
  BY <1>3 DEF IInv, Nesting, OneCore, isrVars
<1>9. Masked'
  BY <1>3, <1>5 DEF IInv, Masked, isrVars
<1>10. Starting'
  BY <1>1, <1>2, <1>3, <1>5, SchedAssumption DEF IInv, Starting, Started, isrVars
<1>11. ContextsIntact'
  <2>1. \A d \in Cores : Running(d)' => cpu'[d] = pxCurrentTCBs'[d]
    BY <1>3, <1>4, <1>5, <1>6 DEF IInv, ContextsIntact
  <2>2. \A d, e \in Cores : d # e /\ Running(d)' /\ Running(e)' => cpu'[d] # cpu'[e]
    BY <1>3, <2>1 DEF IInv, OneCore
  <2>3. ASSUME NEW t \in Tasks, saved'[t] # t
        PROVE  saved'[t] = Live /\ \E d \in Cores : Running(d)' /\ cpu'[d] = t
    <3>1. CASE t = u
      BY <1>5, <1>6, <3>1
    <3>2. CASE t # u
      <4>1. PICK d \in Cores : Running(d) /\ cpu[d] = t /\ saved[t] = Live
        BY <1>5, <2>3, <3>2 DEF IInv, ContextsIntact
      <4> QED BY <1>1, <1>5, <1>6, <3>2, <4>1
    <3> QED BY <3>1, <3>2
  <2> QED BY <2>1, <2>2, <2>3 DEF ContextsIntact
<1> QED BY <1>7, <1>8, <1>9, <1>10, <1>11 DEF IInv

-----------------------------------------------------------------------------
(* Interrupts                                                              *)

LEMMA IrqEnterInv ==
  ASSUME NEW c \in Cores, NEW isr \in Kinds, IInv, NoneUnreached, IrqEnter(c, isr)
  PROVE  IInv'
<1> DEFINE n == depth[c] + 1
           new == [isr |-> isr, at |-> "handler", old |-> uxInterruptNesting[c],
                   seen |-> {}]
<1>1. /\ n \in 1 .. MaxNest[c] /\ n \in Nat /\ depth[c] \in Nat
      /\ uxInterruptNesting[c] = depth[c]
  <2>1. depth[c] \in Nat /\ MaxNest[c] \in Nat /\ depth[c] < MaxNest[c]
    BY SchedAssumption DEF IrqEnter, IInv, Types
  <2> QED BY <2>1 DEF IInv, Nesting
<1>2. new \in Frames /\ new.isr = isr /\ new.old = n - 1
  BY <1>1 DEF Frames, FramePoints
<1>3. /\ depth' = [depth EXCEPT ![c] = n]
      /\ frame' = [frame EXCEPT ![c] = [frame[c] EXCEPT ![n] = new]]
      /\ uxInterruptNesting' = [uxInterruptNesting EXCEPT ![c] = n]
      /\ UNCHANGED <<xPortScheduleStatus, flags, id, at, taskVars, todo>>
  BY <1>1 DEF IrqEnter, bootVars
<1>4. /\ ~id[c] /\ at[c] \in {"wait", "run"}
      /\ isr = "tick" => c = Primary
      /\ isr = "ipi" => c \notin todo \ {Primary}
  BY DEF IrqEnter, Pending, IInv, Masked, NoneUnreached
<1> HIDE DEF n, new
<1>5. /\ depth'[c] = n /\ uxInterruptNesting'[c] = n
      /\ frame'[c] = [frame[c] EXCEPT ![n] = new]
      /\ \A d \in Cores \ {c} :
           /\ depth'[d] = depth[d] /\ frame'[d] = frame[d]
           /\ uxInterruptNesting'[d] = uxInterruptNesting[d]
  BY <1>3 DEF IInv, Types
<1>6. ASSUME NEW k \in 1 .. n
      PROVE  /\ frame'[c][k].old = k - 1
             /\ frame'[c][k].isr = "tick" => c = Primary
             /\ \/ frame'[c][k].isr = isr
                \/ k \in 1 .. depth[c] /\ frame'[c][k] = frame[c][k]
  <2>1. k \in 1 .. MaxNest[c]
    BY <1>1, SchedAssumption
  <2>2. frame[c] \in [1 .. MaxNest[c] -> Frames]
    BY DEF IInv, Types
  <2>3. CASE k = n
    <3>1. frame'[c][k] = new
      BY <1>5, <2>1, <2>2, <2>3
    <3>2. frame'[c][k].isr = isr /\ frame'[c][k].old = k - 1
      BY <1>2, <2>3, <3>1
    <3> QED BY <1>4, <3>2
  <2>4. CASE k # n
    <3>1. frame'[c][k] = frame[c][k]
      BY <1>5, <2>1, <2>2, <2>4
    <3>2. k \in 1 .. depth[c]
      BY <1>1, <2>4 DEF n
    <3> QED BY <3>1, <3>2 DEF IInv, Nesting
  <2> QED BY <2>3, <2>4
<1>7. Types'
  <2>1. depth' \in [Cores -> Nat] /\ uxInterruptNesting' \in [Cores -> Nat]
    BY <1>1, <1>3 DEF IInv, Types
  <2>2. frame' = [d \in Cores |-> frame'[d]]
    BY <1>3 DEF IInv, Types
  <2>3. n <= MaxNest[c]
    BY <1>1, SchedAssumption
  <2>4. frame'[c] \in [1 .. MaxNest[c] -> Frames]
    <3>1. frame[c] \in [1 .. MaxNest[c] -> Frames]
      BY DEF IInv, Types
    <3> QED BY <1>1, <1>2, <1>5, <3>1
  <2>5. ASSUME NEW d \in Cores
        PROVE  depth'[d] <= MaxNest[d] /\ frame'[d] \in [1 .. MaxNest[d] -> Frames]
    <3>1. CASE d = c
      BY <1>5, <2>3, <2>4, <3>1
    <3>2. CASE d # c
      BY <1>5, <3>2 DEF IInv, Types
    <3> QED BY <3>1, <3>2
  <2> QED BY <1>3, <2>1, <2>2, <2>5 DEF IInv, Types, taskVars
<1>8. Nesting'
  <2> SUFFICES ASSUME NEW d \in Cores
               PROVE  /\ uxInterruptNesting'[d] = depth'[d]
                      /\ \A k \in 1 .. depth'[d] :
                           /\ frame'[d][k].old = k - 1
                           /\ frame'[d][k].isr = "tick" => d = Primary
    BY DEF Nesting
  <2>1. CASE d = c
    BY <1>5, <1>6, <2>1
  <2>2. CASE d # c
    BY <1>5, <2>2 DEF IInv, Nesting
  <2> QED BY <2>1, <2>2
<1>9. Masked'
  BY <1>3, <1>4, <1>5 DEF IInv, Masked
<1>10. Starting'
  <2>1. \A d \in todo \ {Primary} : \A k \in 1 .. depth'[d] : frame'[d][k].isr # "ipi"
    <3> SUFFICES ASSUME NEW d \in todo \ {Primary}, NEW k \in 1 .. depth'[d]
                 PROVE  frame'[d][k].isr # "ipi"
      OBVIOUS
    <3>1. CASE d = c
      <4>1. \/ frame'[c][k].isr = isr
            \/ k \in 1 .. depth[c] /\ frame'[c][k] = frame[c][k]
        BY <1>5, <1>6, <3>1
      <4> QED BY <1>4, <3>1, <4>1 DEF IInv, Starting
    <3>2. CASE d # c
      <4>1. d \in Cores
        BY DEF IInv, Types
      <4> QED BY <1>5, <3>2, <4>1 DEF IInv, Starting
    <3> QED BY <3>1, <3>2
  <2> QED BY <1>3, <2>1 DEF IInv, Starting, Started, taskVars
<1>11. OneCore' /\ ContextsIntact'
  BY <1>3 DEF IInv, OneCore, ContextsIntact, Running, taskVars
<1> QED BY <1>7, <1>8, <1>9, <1>10, <1>11 DEF IInv

LEMMA IrqLeaveInv ==
  ASSUME NEW c \in Cores, IInv, IrqLeave(c)
  PROVE  /\ depth' \in [Cores -> Nat] /\ uxInterruptNesting' \in [Cores -> Nat]
         /\ depth'[c] = depth[c] - 1
         /\ \A d \in Cores \ {c} : depth'[d] = depth[d]
         /\ frame' = [d \in Cores |-> frame'[d]]
         /\ \A d \in Cores : /\ depth'[d] <= MaxNest[d]
                             /\ frame'[d] \in [1 .. MaxNest[d] -> Frames]
         /\ \A d \in Cores : \A k \in 1 .. depth'[d] :
              k \in 1 .. depth[d] /\ frame'[d][k] = frame[d][k]
         /\ Nesting'
<1>1. /\ depth[c] \in 1 .. MaxNest[c] /\ Top(c).old = depth[c] - 1
      /\ depth[c] \in Nat /\ depth[c] - 1 \in Nat
  <2>1. depth[c] > 0 /\ depth[c] \in Nat
    BY DEF IrqLeave, IInv, Types
  <2> QED BY <2>1, InFrame
<1>2. /\ depth' = [depth EXCEPT ![c] = depth[c] - 1]
      /\ uxInterruptNesting' = [uxInterruptNesting EXCEPT ![c] = depth[c] - 1]
      /\ frame' = [frame EXCEPT ![c] = [frame[c] EXCEPT ![depth[c]] = NoFrame]]
  BY <1>1 DEF IrqLeave
<1>3. NoFrame \in Frames
  BY DEF NoFrame, Frames, Kinds, FramePoints
<1>4. /\ depth' \in [Cores -> Nat] /\ uxInterruptNesting' \in [Cores -> Nat]
      /\ depth'[c] = depth[c] - 1 /\ uxInterruptNesting'[c] = depth[c] - 1
      /\ frame'[c] = [frame[c] EXCEPT ![depth[c]] = NoFrame]
      /\ \A d \in Cores \ {c} :
           /\ depth'[d] = depth[d] /\ frame'[d] = frame[d]
           /\ uxInterruptNesting'[d] = uxInterruptNesting[d]
      /\ frame' = [d \in Cores |-> frame'[d]]
  BY <1>1, <1>2 DEF IInv, Types
<1>5. \A d \in Cores : frame'[d] \in [1 .. MaxNest[d] -> Frames]
  <2>1. \A d \in Cores : frame[d] \in [1 .. MaxNest[d] -> Frames]
    BY DEF IInv, Types
  <2>2. frame'[c] \in [1 .. MaxNest[c] -> Frames]
    BY <1>1, <1>3, <1>4, <2>1
  <2> QED BY <1>4, <2>1, <2>2
<1>6. \A d \in Cores : depth'[d] <= MaxNest[d]
  <2>1. \A d \in Cores : depth[d] <= MaxNest[d]
    BY DEF IInv, Types
  <2>2. MaxNest[c] \in Nat
    BY SchedAssumption
  <2>3. depth'[c] <= MaxNest[c]
    BY <1>1, <1>4, <2>2
  <2> QED BY <1>4, <2>1, <2>3
<1>7. ASSUME NEW d \in Cores, NEW k \in 1 .. depth'[d]
      PROVE  k \in 1 .. depth[d] /\ frame'[d][k] = frame[d][k]
  <2>1. CASE d = c
    <3>1. k \in 1 .. depth[c] - 1
      BY <1>4, <2>1
    <3>2. k \in 1 .. MaxNest[c] /\ k # depth[c] /\ k \in 1 .. depth[c]
      BY <1>1, <3>1, SchedAssumption
    <3>3. frame[c] \in [1 .. MaxNest[c] -> Frames]
      BY DEF IInv, Types
    <3> QED BY <1>4, <2>1, <3>2, <3>3
  <2>2. CASE d # c
    BY <1>4, <2>2
  <2> QED BY <2>1, <2>2
<1>8. Nesting'
  BY <1>4, <1>7 DEF IInv, Nesting
<1> QED BY <1>4, <1>5, <1>6, <1>7, <1>8

LEMMA IrqResumeInv ==
  ASSUME NEW c \in Cores, IInv, IrqResume(c)
  PROVE  IInv'
<1>1. /\ IrqLeave(c) /\ depth[c] > 0
      /\ id' = [id EXCEPT ![c] = FALSE]
      /\ UNCHANGED <<xPortScheduleStatus, flags, at, taskVars, todo>>
  BY DEF IrqResume, IrqLeave, bootVars
<1>2. at[c] \in {"wait", "run"}
  BY <1>1, InFrame
<1>3. Types' /\ Nesting'
  BY <1>1, IrqLeaveInv DEF IInv, Types, taskVars
<1>4. Masked'
  <2>1. \A d \in Cores \ {c} : id'[d] = id[d] /\ depth'[d] = depth[d]
    BY <1>1, IrqLeaveInv DEF IInv, Types
  <2> QED BY <1>1, <1>2, <2>1 DEF IInv, Masked
<1>5. Starting'
  <2>1. \A d \in todo \ {Primary} : \A k \in 1 .. depth'[d] : frame'[d][k].isr # "ipi"
    <3> SUFFICES ASSUME NEW d \in todo \ {Primary}, NEW k \in 1 .. depth'[d]
                 PROVE  frame'[d][k].isr # "ipi"
      OBVIOUS
    <3>1. d \in Cores
      BY DEF IInv, Types
    <3>2. k \in 1 .. depth[d] /\ frame'[d][k] = frame[d][k]
      BY <1>1, <3>1, IrqLeaveInv
    <3> QED BY <3>2 DEF IInv, Starting
  <2> QED BY <1>1, <2>1 DEF IInv, Starting, Started, taskVars
<1>6. OneCore' /\ ContextsIntact'
  BY <1>1 DEF IInv, OneCore, ContextsIntact, Running, taskVars
<1> QED BY <1>3, <1>4, <1>5, <1>6 DEF IInv

\* The wrapper leaves the last frame with a request: the core switches or
\* leaves its start-up code.
LEMMA IrqRequestInv ==
  ASSUME NEW c \in Cores, IInv, IrqSwitch(c) \/ IrqStart(c)
  PROVE  IInv'
<1> DEFINE p == IF xPortScheduleStatus[c] = TASKSWITCH THEN "pick" ELSE "first"
<1>1. /\ IrqLeave(c) /\ depth[c] > 0 /\ Top(c).old = 0
      /\ xPortScheduleStatus' = [xPortScheduleStatus EXCEPT ![c] = NOREQUEST]
      /\ id' = [id EXCEPT ![c] = TRUE]
      /\ at' = [at EXCEPT ![c] = p]
      /\ xPortScheduleStatus[c] = TASKSWITCH => Save(c)
      /\ xPortScheduleStatus[c] # TASKSWITCH =>
           xPortScheduleStatus[c] = STARTFIRSTTASK /\ UNCHANGED saved
      /\ UNCHANGED <<flags, cpu, pxCurrentTCBs, todo>>
  BY DEF IrqSwitch, IrqStart, IrqLeave, TASKSWITCH, STARTFIRSTTASK, taskVars, bootVars
<1>2. at[c] \in {"wait", "run"} /\ depth[c] = 1
  <2>1. depth[c] \in Nat
    BY DEF IInv, Types
  <2> QED BY <1>1, <2>1, InFrame
<1>3. IF xPortScheduleStatus[c] = TASKSWITCH
        THEN p = "pick" /\ at[c] = "run" /\ Started(c)
        ELSE p = "first" /\ at[c] = "wait" /\ ~Started(c)
  BY <1>1, <1>2 DEF IInv, Starting
<1> HIDE DEF p
<1>4. /\ at'[c] = p /\ id'[c] /\ depth'[c] = 0 /\ xPortScheduleStatus'[c] = NOREQUEST
      /\ \A d \in Cores \ {c} :
           /\ at'[d] = at[d] /\ id'[d] = id[d] /\ depth'[d] = depth[d]
           /\ xPortScheduleStatus'[d] = xPortScheduleStatus[d]
  <2>1. depth'[c] = 0 /\ \A d \in Cores \ {c} : depth'[d] = depth[d]
    BY <1>1, <1>2, IrqLeaveInv
  <2> QED BY <1>1, <2>1 DEF IInv, Types
<1>5. c \in todo => c = Primary
  BY <1>1, <1>3 DEF IInv, Starting, NOREQUEST, TASKSWITCH, STARTFIRSTTASK
<1>6. ContextsIntact' /\ saved' \in [Tasks -> Tasks \cup {Live}]
  <2>1. CASE xPortScheduleStatus[c] = TASKSWITCH
    BY <1>1, <1>3, <2>1, SaveContexts
  <2>2. CASE xPortScheduleStatus[c] # TASKSWITCH
    <3>1. \A d \in Cores : Running(d)' <=> Running(d)
      BY <1>3, <1>4, <2>2 DEF Running
    <3> QED BY <1>1, <2>2, <3>1 DEF IInv, Types, ContextsIntact
  <2> QED BY <2>1, <2>2
<1>7. Types' /\ Nesting'
  <2>1. p \in BasePoints
    BY <1>3 DEF BasePoints
  <2> QED BY <1>1, <1>6, <2>1, IrqLeaveInv DEF IInv, Types
<1>8. Masked'
  BY <1>4 DEF IInv, Masked
<1>9. Starting'
  <2>1. \A d \in todo \ {Primary} :
          \A k \in 1 .. depth'[d] : frame'[d][k].isr # "ipi"
    <3> SUFFICES ASSUME NEW d \in todo \ {Primary}, NEW k \in 1 .. depth'[d]
                 PROVE  frame'[d][k].isr # "ipi"
      OBVIOUS
    <3>1. d \in Cores
      BY DEF IInv, Types
    <3>2. k \in 1 .. depth[d] /\ frame'[d][k] = frame[d][k]
      BY <1>1, <3>1, IrqLeaveInv
    <3> QED BY <3>2 DEF IInv, Starting
  <2>2. \A d \in Cores : Started(d)' <=> Started(d)
    BY <1>1 DEF Started
  <2>3. NOREQUEST # TASKSWITCH /\ NOREQUEST # STARTFIRSTTASK
    BY DEF NOREQUEST, TASKSWITCH, STARTFIRSTTASK
  <2> QED BY <1>1, <1>3, <1>4, <1>5, <2>1, <2>2, <2>3 DEF IInv, Starting
<1>10. OneCore'
  BY <1>1 DEF IInv, OneCore
<1> QED BY <1>6, <1>7, <1>8, <1>9, <1>10 DEF IInv

-----------------------------------------------------------------------------
(* Handlers                                                                *)

\* A handler changes its own frame, the mask, and the status of its core if
\* that has started.
LEMMA HandlerInv ==
  ASSUME NEW c \in Cores, NEW f \in Frames, IInv, depth[c] > 0,
         f.isr = Top(c).isr, f.old = Top(c).old,
         frame' = [frame EXCEPT ![c] = [frame[c] EXCEPT ![depth[c]] = f]],
         flags' \in [Cores -> SUBSET Cores],
         UNCHANGED <<uxInterruptNesting, depth, at, taskVars, todo>>,
         id' = id \/ \E b \in BOOLEAN : id' = [id EXCEPT ![c] = b],
         \/ UNCHANGED xPortScheduleStatus
         \/ Started(c) /\ RequestSwitch(c)
  PROVE  IInv'
<1>1. depth[c] \in 1 .. MaxNest[c] /\ at[c] \in {"wait", "run"}
  BY InFrame
<1>2. /\ frame'[c] = [frame[c] EXCEPT ![depth[c]] = f]
      /\ \A d \in Cores \ {c} : frame'[d] = frame[d]
      /\ frame' = [d \in Cores |-> frame'[d]]
  BY DEF IInv, Types
<1>3. \A d \in Cores : frame[d] \in [1 .. MaxNest[d] -> Frames]
  BY DEF IInv, Types
<1>4. \A d \in Cores : frame'[d] \in [1 .. MaxNest[d] -> Frames]
  <2>1. frame'[c] \in [1 .. MaxNest[c] -> Frames]
    BY <1>1, <1>2, <1>3
  <2> QED BY <1>2, <1>3, <2>1
<1>5. ASSUME NEW d \in Cores, NEW k \in 1 .. depth[d]
      PROVE  frame'[d][k].isr = frame[d][k].isr /\ frame'[d][k].old = frame[d][k].old
  <2>1. k \in 1 .. MaxNest[d]
    BY SchedAssumption DEF IInv, Types
  <2>2. CASE d = c /\ k = depth[c]
    <3>1. frame'[d][k] = f
      BY <1>2, <1>3, <2>1, <2>2
    <3> QED BY <2>2, <3>1 DEF Top
  <2>3. CASE ~(d = c /\ k = depth[c])
    BY <1>2, <1>3, <2>1, <2>3
  <2> QED BY <2>2, <2>3
<1>6. /\ id' \in [Cores -> BOOLEAN]
      /\ \A d \in Cores \ {c} : id'[d] = id[d]
  BY DEF IInv, Types
<1>7. /\ xPortScheduleStatus' \in [Cores -> {NOREQUEST, TASKSWITCH, STARTFIRSTTASK}]
      /\ \A d \in Cores \ {c} : xPortScheduleStatus'[d] = xPortScheduleStatus[d]
      /\ \/ xPortScheduleStatus'[c] = xPortScheduleStatus[c]
         \/ Started(c) /\ xPortScheduleStatus'[c] = TASKSWITCH
  BY DEF IInv, Types, RequestSwitch
<1>8. Types'
  BY <1>2, <1>4, <1>6, <1>7 DEF IInv, Types, taskVars
<1>9. Nesting'
  BY <1>5 DEF IInv, Nesting
<1>10. Masked'
  BY <1>1, <1>6 DEF IInv, Masked
<1>11. Starting'
  <2>1. \A d \in Cores : Started(d)' <=> Started(d)
    BY DEF Started, taskVars
  <2>2. Started(c) => at[c] = "run" /\ c \notin todo \ {Primary}
    BY <1>1 DEF IInv, Starting
  <2>3. ASSUME NEW d \in todo \ {Primary}, NEW k \in 1 .. depth[d]
        PROVE  frame'[d][k].isr # "ipi"
    <3>1. d \in Cores
      BY DEF IInv, Types
    <3> QED BY <1>5, <3>1 DEF IInv, Starting
  <2>4. /\ \/ xPortScheduleStatus'[c] = xPortScheduleStatus[c]
           \/ xPortScheduleStatus'[c] = TASKSWITCH /\ Started(c)
        /\ TASKSWITCH # STARTFIRSTTASK
    BY <1>7 DEF TASKSWITCH, STARTFIRSTTASK
  <2>5. ASSUME NEW d \in Cores
        PROVE  /\ xPortScheduleStatus'[d] = TASKSWITCH => Started(d)
               /\ xPortScheduleStatus'[d] = STARTFIRSTTASK => at[d] = "wait"
               /\ at[d] = "wait" /\ d \notin todo
                    => xPortScheduleStatus'[d] = STARTFIRSTTASK
    <3>1. CASE d = c
      BY <2>2, <2>4, <3>1 DEF IInv, Starting
    <3>2. CASE d # c
      BY <1>7, <3>2 DEF IInv, Starting
    <3> QED BY <3>1, <3>2
  <2>6. ASSUME NEW d \in todo \ {Primary} PROVE xPortScheduleStatus'[d] = NOREQUEST
    <3>1. d \in Cores
      BY DEF IInv, Types
    <3> QED BY <1>7, <2>2, <3>1 DEF IInv, Starting
  <2> QED BY <2>1, <2>3, <2>5, <2>6 DEF IInv, Starting
<1>12. OneCore' /\ ContextsIntact'
  BY DEF IInv, OneCore, ContextsIntact, Running, taskVars
<1> QED BY <1>8, <1>9, <1>10, <1>11, <1>12 DEF IInv

LEMMA GotoFrame ==
  ASSUME NEW c \in Cores, IInv, depth[c] > 0, NEW p \in FramePoints, FrameGoto(c, p)
  PROVE  \E f \in Frames :
           /\ f.isr = Top(c).isr /\ f.old = Top(c).old
           /\ frame' = [frame EXCEPT ![c] = [frame[c] EXCEPT ![depth[c]] = f]]
<1> DEFINE f == [frame[c][depth[c]] EXCEPT !.at = p]
<1>1. Top(c) \in Frames
  BY InFrame
<1>2. f \in Frames /\ f.isr = Top(c).isr /\ f.old = Top(c).old
  BY <1>1 DEF Top, Frames
<1>3. frame' = [frame EXCEPT ![c] = [frame[c] EXCEPT ![depth[c]] = f]]
  BY DEF FrameGoto
<1> QED BY <1>2, <1>3

LEMMA CriticalInv ==
  ASSUME NEW c \in Cores, NEW isr \in Kinds, IInv,
         EnterCriticalFromISR(c, isr) \/ GetISRLock(c, isr) \/ ExitCriticalFromISR(c, isr)
  PROVE  IInv'
<1>1. /\ depth[c] > 0 /\ \E p \in FramePoints : FrameGoto(c, p)
      /\ UNCHANGED <<xPortScheduleStatus, flags, uxInterruptNesting, depth, at, taskVars,
                     todo>>
      /\ id' = id \/ \E b \in BOOLEAN : id' = [id EXCEPT ![c] = b]
  BY DEF EnterCriticalFromISR, GetISRLock, ExitCriticalFromISR, InHandler, FramePoints,
     bootVars
<1>2. PICK f \in Frames :
        /\ f.isr = Top(c).isr /\ f.old = Top(c).old
        /\ frame' = [frame EXCEPT ![c] = [frame[c] EXCEPT ![depth[c]] = f]]
  BY <1>1, GotoFrame
<1>3. flags' \in [Cores -> SUBSET Cores]
  BY <1>1 DEF IInv, Types
<1> QED BY <1>1, <1>2, <1>3, HandlerInv

\* An application handler's request, and the trap's.
LEMMA AppInv ==
  ASSUME NEW c \in Cores, IInv, SetSwitch(c) \/ TrapFromIsr(c)
  PROVE  IInv'
<1>1. /\ depth[c] > 0 /\ FrameGoto(c, "return")
      /\ UNCHANGED <<flags, id, uxInterruptNesting, depth, at, taskVars, todo>>
      /\ \/ UNCHANGED xPortScheduleStatus
         \/ Started(c) /\ RequestSwitch(c)
  BY DEF SetSwitch, TrapFromIsr, InHandler, bootVars
<1>2. PICK f \in Frames :
        /\ f.isr = Top(c).isr /\ f.old = Top(c).old
        /\ frame' = [frame EXCEPT ![c] = [frame[c] EXCEPT ![depth[c]] = f]]
  BY <1>1, GotoFrame DEF FramePoints
<1>3. flags' \in [Cores -> SUBSET Cores]
  BY <1>1 DEF IInv, Types
<1> QED BY <1>1, <1>2, <1>3, HandlerInv

\* The handler of inter-processor requests switches started cores only: one
\* that has not started and may be asked has been marked by the loop.
LEMMA IPIBodyInv ==
  ASSUME NEW c \in Cores, IInv, IPIBody(c)
  PROVE  IInv'
<1> DEFINE f == [[frame[c][depth[c]] EXCEPT !.at = "clear"] EXCEPT !.seen = flags[c]]
<1>1. /\ depth[c] > 0 /\ Top(c).isr = "ipi"
      /\ UNCHANGED <<flags, id, uxInterruptNesting, depth, at, taskVars, todo>>
      /\ \/ UNCHANGED xPortScheduleStatus
         \/ xPortScheduleStatus[c] # STARTFIRSTTASK /\ RequestSwitch(c)
      /\ frame' = [frame EXCEPT ![c][depth[c]].at = "clear",
                                ![c][depth[c]].seen = flags[c]]
  BY DEF IPIBody, InHandler, bootVars
<1>2. /\ Top(c) \in Frames /\ depth[c] \in 1 .. MaxNest[c] /\ at[c] \in {"wait", "run"}
      /\ depth[c] \in 1 .. depth[c]
  BY <1>1, InFrame DEF IInv, Types
<1>3. xPortScheduleStatus[c] # STARTFIRSTTASK => Started(c)
  <2>1. c \notin todo \ {Primary}
    BY <1>1, <1>2 DEF IInv, Starting, Top
  <2> QED BY <1>2, <2>1 DEF IInv, Starting
<1>4. flags' \in [Cores -> SUBSET Cores] /\ flags[c] \in SUBSET Cores
  BY <1>1 DEF IInv, Types
<1>5. f \in Frames /\ f.isr = Top(c).isr /\ f.old = Top(c).old
  BY <1>2, <1>4 DEF Top, Frames, FramePoints
<1>6. frame' = [frame EXCEPT ![c] = [frame[c] EXCEPT ![depth[c]] = f]]
  BY <1>1, <1>2 DEF IInv, Types
<1> HIDE DEF f
<1> QED BY <1>1, <1>3, <1>4, <1>5, <1>6, HandlerInv

LEMMA IPIClearInv ==
  ASSUME NEW c \in Cores, IInv, IPIClear(c)
  PROVE  IInv'
<1> DEFINE f == [[frame[c][depth[c]] EXCEPT !.at = "exit"] EXCEPT !.seen = {}]
<1>1. /\ depth[c] > 0
      /\ UNCHANGED <<xPortScheduleStatus, id, uxInterruptNesting, depth, at, taskVars, todo>>
      /\ flags' = [flags EXCEPT ![c] = @ \ Top(c).seen]
      /\ frame' = [frame EXCEPT ![c][depth[c]].at = "exit",
                                ![c][depth[c]].seen = {}]
  BY DEF IPIClear, InHandler, bootVars
<1>2. Top(c) \in Frames /\ depth[c] \in 1 .. MaxNest[c]
  BY <1>1, InFrame
<1>3. flags' \in [Cores -> SUBSET Cores]
  BY <1>1 DEF IInv, Types
<1>4. f \in Frames /\ f.isr = Top(c).isr /\ f.old = Top(c).old
  BY <1>2 DEF Top, Frames, FramePoints
<1>5. frame' = [frame EXCEPT ![c] = [frame[c] EXCEPT ![depth[c]] = f]]
  BY <1>1, <1>2 DEF IInv, Types
<1> HIDE DEF f
<1> QED BY <1>1, <1>3, <1>4, <1>5, HandlerInv

\* The tick is the primary core's, which takes interrupts only once it runs.
LEMMA TickBodyInv ==
  ASSUME NEW c \in Cores, IInv, TickBody(c)
  PROVE  IInv'
<1>1. /\ depth[c] > 0 /\ Top(c).isr = "tick" /\ FrameGoto(c, "exit")
      /\ UNCHANGED <<id, uxInterruptNesting, depth, at, taskVars, todo>>
      /\ RequestSwitch(c) \/ UNCHANGED xPortScheduleStatus
      /\ (\E x \in Cores : Request(c, x)) \/ UNCHANGED flags
  BY DEF TickBody, InHandler, YieldOther, bootVars
<1>2. c = Primary /\ at[c] \in {"wait", "run"}
  BY <1>1, InFrame
<1>3. Started(c)
  BY <1>2 DEF IInv, Starting
<1>4. flags' \in [Cores -> SUBSET Cores]
  BY <1>1, RequestTyped DEF IInv, Types
<1>5. PICK f \in Frames :
        /\ f.isr = Top(c).isr /\ f.old = Top(c).old
        /\ frame' = [frame EXCEPT ![c] = [frame[c] EXCEPT ![depth[c]] = f]]
  BY <1>1, GotoFrame DEF FramePoints
<1> QED BY <1>1, <1>3, <1>4, <1>5, HandlerInv

-----------------------------------------------------------------------------
(* Sections of tasks                                                       *)

LEMMA SectionInv ==
  ASSUME NEW c \in Cores, IInv,
         \/ TaskMask(c) \/ TaskLock(c) \/ TaskUnlock(c)
         \/ \E x \in Cores : TaskYieldsCore(c, x)
  PROVE  IInv'
<1>1. /\ Running(c) /\ depth[c] = 0
      /\ UNCHANGED <<xPortScheduleStatus, isrVars, taskVars, todo>>
  BY DEF TaskMask, TaskLock, TaskUnlock, TaskYieldsCore, IInv, Masked, Running, bootVars
<1>2. flags' \in [Cores -> SUBSET Cores]
  BY RequestTyped DEF TaskMask, TaskLock, TaskUnlock, TaskYieldsCore, YieldOther, IInv,
     Types
<1>3. PICK p \in {"run", "lock", "section"} : at' = [at EXCEPT ![c] = p]
  BY DEF TaskMask, TaskLock, TaskUnlock, TaskYieldsCore, IInv, Types
<1>4. /\ id' \in [Cores -> BOOLEAN] /\ (p # "run" => id'[c])
      /\ \A d \in Cores \ {c} : id'[d] = id[d]
  BY <1>3 DEF TaskMask, TaskLock, TaskUnlock, TaskYieldsCore, IInv, Types, Masked
<1>5. at'[c] = p /\ \A d \in Cores \ {c} : at'[d] = at[d]
  BY <1>3 DEF IInv, Types
<1>6. Types'
  BY <1>1, <1>2, <1>3, <1>4 DEF IInv, Types, BasePoints, isrVars, taskVars
<1>7. Nesting' /\ OneCore'
  BY <1>1 DEF IInv, Nesting, OneCore, isrVars, taskVars
<1>8. Masked'
  BY <1>1, <1>4, <1>5 DEF IInv, Masked, isrVars
<1>9. Starting'
  <2>1. at[c] \notin {"loop", "send", "wait", "first"}
        /\ at'[c] \notin {"loop", "send", "wait", "first"}
    BY <1>1, <1>5 DEF Running
  <2>2. c \notin todo \ {Primary}
    BY <2>1 DEF IInv, Starting
  <2>3. \A d \in Cores : Started(d)' <=> Started(d)
    BY <1>1 DEF Started, taskVars
  <2>4. UNCHANGED <<xPortScheduleStatus, todo, depth, frame>>
    BY <1>1 DEF isrVars
  <2>5. ASSUME NEW d \in Cores
        PROVE  /\ at'[d] \in {"loop", "send"} => d = Primary
               /\ at'[d] = "wait" => d # Primary
               /\ Started(d)' <=> at'[d] \notin {"loop", "send", "wait", "first"}
               /\ xPortScheduleStatus'[d] = TASKSWITCH => Started(d)'
               /\ xPortScheduleStatus'[d] = STARTFIRSTTASK => at'[d] = "wait"
               /\ at'[d] = "wait" /\ d \notin todo'
                    => xPortScheduleStatus'[d] = STARTFIRSTTASK
    <3>1. CASE d = c
      BY <2>1, <2>3, <2>4, <3>1 DEF IInv, Starting
    <3>2. CASE d # c
      BY <1>5, <2>3, <2>4, <3>2 DEF IInv, Starting
    <3> QED BY <3>1, <3>2
  <2>6. ASSUME NEW d \in todo \ {Primary}
        PROVE  /\ at'[d] = "wait" /\ xPortScheduleStatus'[d] = NOREQUEST
               /\ \A k \in 1 .. depth'[d] : frame'[d][k].isr # "ipi"
    <3>1. d \in Cores /\ d # c
      BY <2>2 DEF IInv, Types
    <3> QED BY <1>5, <2>4, <3>1 DEF IInv, Starting
  <2> QED BY <2>4, <2>5, <2>6 DEF Starting
<1>10. ContextsIntact'
  <2>1. \A d \in Cores : Running(d)' <=> Running(d)
    BY <1>1, <1>5 DEF Running
  <2> QED BY <1>1, <2>1 DEF IInv, ContextsIntact, taskVars
<1> QED BY <1>6, <1>7, <1>8, <1>9, <1>10 DEF IInv

-----------------------------------------------------------------------------
LEMMA StepInv == IInv /\ NoneUnreached /\ [Next]_vars => IInv'
<1> SUFFICES ASSUME IInv, NoneUnreached, [Next]_vars PROVE IInv'
  OBVIOUS
<1>1. CASE UNCHANGED vars
  <2>1. Types' /\ Nesting' /\ Masked' /\ OneCore'
    BY <1>1 DEF vars, IInv, Types, Nesting, Masked, OneCore
  <2>2. Starting' /\ ContextsIntact'
    BY <1>1 DEF vars, IInv, Starting, Started, ContextsIntact, Running
  <2> QED BY <2>1, <2>2 DEF IInv
<1>2. CASE Boot
  BY <1>2, LoopInv, MarkCoreInv DEF Boot
<1>3. ASSUME NEW c \in Cores, Straight(c) PROVE IInv'
  <2>1. {"ipi", "tick"} \subseteq Kinds
    BY DEF Kinds
  <2> QED BY <1>3, <2>1, RestoreInv, IrqResumeInv, IrqRequestInv, CriticalInv, IPIBodyInv,
          IPIClearInv, TickBodyInv, AppInv, SectionInv DEF Straight
<1>4. ASSUME NEW c \in Cores, Locking(c) PROVE IInv'
  <2>1. {"ipi", "tick"} \subseteq Kinds
    BY DEF Kinds
  <2> QED BY <1>4, <2>1, CriticalInv, SectionInv, SwitchContextInv DEF Locking
<1>5. ASSUME NEW c \in Cores, NEW isr \in Kinds, IrqEnter(c, isr) PROVE IInv'
  BY <1>5, IrqEnterInv
<1>6. ASSUME NEW c \in Cores,
             \/ TrapFromTask(c) \/ TaskMask(c)
             \/ \E x \in Cores : TaskYieldsCore(c, x)
      PROVE  IInv'
  BY <1>6, TrapFromTaskInv, SectionInv
<1> QED BY <1>1, <1>2, <1>3, <1>4, <1>5, <1>6 DEF Next

LEMMA InvSwitchSafe == IInv => SwitchSafe
BY DEF IInv, Nesting, Masked, Starting, SwitchSafe

\* If no core is asked to yield before the loop of xPortStartScheduler has
\* reached it, a core switches or starts a task only outside its handlers, and
\* switches only after its first task.
THEOREM SchedSwitchSafe == Spec /\ []NoneUnreached => []SwitchSafe
BY InitInv, StepInv, InvSwitchSafe, PTL DEF Spec

\* Under the same condition every task resumes from its own, latest context
\* and runs on one core at a time.
THEOREM SchedContextsIntact == Spec /\ []NoneUnreached => []ContextsIntact
<1>1. IInv => ContextsIntact
  BY DEF IInv
<1> QED BY <1>1, InitInv, StepInv, PTL DEF Spec

-----------------------------------------------------------------------------
(* Two cores                                                               *)

LEMMA StepTwoCores ==
  ASSUME NEW s, Cores = {Primary, s}, IInv, NoneUnreached, LoopState, [Next]_vars
  PROVE  NoneUnreached' /\ LoopState'
<1>1. CASE UNCHANGED vars
  BY <1>1 DEF vars, NoneUnreached, LoopState
<1>2. ASSUME NEW x \in Cores, MarkCore(x) PROVE NoneUnreached' /\ LoopState'
  BY <1>2, SchedAssumption DEF MarkCore, NoneUnreached, LoopState, IInv, Types
<1>3. CASE SendStart \/ LoopDone
  <2>1. LoopState'
    BY <1>3, SchedAssumption DEF SendStart, LoopDone, LoopState, IInv, Types, bootVars
  <2>2. NoneUnreached'
    BY <1>3 DEF SendStart, LoopDone, Request, NoneUnreached, LoopState, IInv, Types,
       bootVars
  <2> QED BY <2>1, <2>2
<1>4. ASSUME NEW c \in Cores, todo = {} \/ c # Primary, NEW x \in Cores, YieldOther(c, x)
      PROVE  \A d \in todo \ {Primary} : flags'[d] = flags[d]
  BY <1>4 DEF YieldOther, Request, IInv, Types
<1>5. ASSUME NEW c \in Cores, at[c] \in {"run", "section"}, c = Primary PROVE todo = {}
  BY <1>5 DEF LoopState
<1>6. ASSUME UNCHANGED bootVars,
             \A d \in todo \ {Primary} : flags'[d] = {},
             at[Primary] \in {"loop", "send"} \/ at'[Primary] \in {"loop", "send"}
               => at'[Primary] = at[Primary]
      PROVE  NoneUnreached' /\ LoopState'
  BY <1>6 DEF NoneUnreached, LoopState, bootVars
<1>7. Primary \in Cores
  BY SchedAssumption
<1>8. ASSUME NEW c \in Cores, Straight(c) \/ Locking(c) \/ TrapFromTask(c) \/ TaskMask(c)
                              \/ (\E isr \in Kinds : IrqEnter(c, isr))
                              \/ (\E x \in Cores : TaskYieldsCore(c, x))
      PROVE  NoneUnreached' /\ LoopState'
  <2>1. UNCHANGED bootVars
    BY <1>8 DEF Straight, Locking, TrapFromTask, TaskMask, IrqEnter, TaskYieldsCore,
       StartFirstTask, RestoreContext, IrqResume, IrqSwitch, IrqStart,
       EnterCriticalFromISR, ExitCriticalFromISR, IPIBody, IPIClear, TickBody, SetSwitch,
       TrapFromIsr, TaskUnlock, GetISRLock, TaskLock, vTaskSwitchContext
  <2>2. at[Primary] \in {"loop", "send"} \/ at'[Primary] \in {"loop", "send"}
          => at'[Primary] = at[Primary]
    <3>1. CASE UNCHANGED at
      BY <3>1
    <3>2. CASE IrqSwitch(c) \/ IrqStart(c)
      <4>1. depth[c] > 0
        BY <3>2 DEF IrqSwitch, IrqStart, IrqLeave
      <4>2. at[c] \notin {"loop", "send"}
        BY <4>1, InFrame
      <4> QED BY <1>7, <3>2, <4>2 DEF IrqSwitch, IrqStart, IInv, Types
    <3>3. CASE \/ StartFirstTask(c) \/ RestoreContext(c) \/ vTaskSwitchContext(c)
               \/ TrapFromTask(c) \/ TaskMask(c) \/ TaskLock(c) \/ TaskUnlock(c)
      BY <1>7, <3>3 DEF StartFirstTask, RestoreContext, Restore, vTaskSwitchContext,
         TrapFromTask, TaskMask, TaskLock, TaskUnlock, IInv, Types
    <3> QED BY <1>8, <3>1, <3>2, <3>3 DEF Straight, Locking, IrqEnter, TaskYieldsCore,
            IrqResume, EnterCriticalFromISR, ExitCriticalFromISR, IPIBody, IPIClear,
            TickBody, SetSwitch, TrapFromIsr, GetISRLock
  <2>3. \A d \in todo \ {Primary} : flags'[d] = {}
    <3>1. CASE UNCHANGED flags
      BY <3>1 DEF NoneUnreached
    <3>2. CASE IPIClear(c)
      BY <3>2 DEF IPIClear, NoneUnreached, IInv, Types
    <3>3. CASE TickBody(c)
      <4>1. depth[c] > 0 /\ Top(c).isr = "tick"
        BY <3>3 DEF TickBody, InHandler
      <4>2. c = Primary /\ at[c] = "run"
        BY <4>1, InFrame DEF IInv, Starting
      <4> QED BY <1>4, <1>5, <3>1, <3>3, <4>2 DEF TickBody, NoneUnreached
    <3>4. ASSUME NEW x \in Cores, TaskYieldsCore(c, x)
          PROVE  \A d \in todo \ {Primary} : flags'[d] = {}
      BY <1>4, <1>5, <3>4 DEF TaskYieldsCore, NoneUnreached
    <3> QED BY <1>8, <3>1, <3>2, <3>3, <3>4 DEF Straight, Locking, TrapFromTask, TaskMask,
            IrqEnter, StartFirstTask, RestoreContext, IrqResume, IrqSwitch, IrqStart,
            EnterCriticalFromISR, ExitCriticalFromISR, IPIBody, SetSwitch, TrapFromIsr,
            TaskUnlock, GetISRLock, TaskLock, vTaskSwitchContext
  <2> QED BY <1>6, <2>1, <2>2, <2>3
<1> QED BY <1>1, <1>2, <1>3, <1>8 DEF Next, Boot

\* With two cores the only one that could be asked too early is asked by the
\* core that runs the loop, and by no other: the condition above holds.
THEOREM SchedTwoCores ==
  ASSUME NEW s, Cores = {Primary, s}
  PROVE  Spec => []NoneUnreached
<1>1. IInv /\ NoneUnreached /\ LoopState /\ [Next]_vars
        => (IInv /\ NoneUnreached /\ LoopState)'
  BY StepInv, StepTwoCores
<1> QED BY <1>1, InitInv, PTL DEF Spec
=============================================================================
