----------------------------- MODULE A53Proofs ------------------------------
(***************************************************************************)
(* The AM64 Cortex-A53 SMP port, for any number of cores.                  *)
(*                                                                         *)
(* Its spin locks, for any number of locks and nesting below 255: the      *)
(* inductive invariant LockInv, the assertions of vPortRecursiveLock,      *)
(* mutual exclusion, and the refinement of CoreLock.                       *)
(*                                                                         *)
(* Its context switch, for any number of tasks and any depth of            *)
(* interrupts: a core switches only outside handlers and after its first   *)
(* task, every context is kept, and so are the FPU registers of a task     *)
(* that masks interrupts around vPortTaskUsesFPU (the invariants IInv and  *)
(* FpuInv).                                                                *)
(***************************************************************************)
EXTENDS A53Lock, A53Sched, TLAPS

-----------------------------------------------------------------------------
(* The locks (A53Lock)                                                     *)

CallOf(c, p, l) == At(c, p) /\ Lock(c) = l

\* A core has the gate of a lock from its exclusive store until it clears
\* the gate word: for longer than its bit is set.
Has(c, l) ==
  \/ Owned(c, l)
  \/ CallOf(c, "locked", l) \/ CallOf(c, "own", l) \/ CallOf(c, "unlock", l)

\* The shared count belongs to a core for a shorter time.
Counted(c, l) ==
  \/ CallOf(c, "own", l)
  \/ Owned(c, l) /\ ~CallOf(c, "disown", l)

GateHasOwner == \A l \in Locks : GateWord[l] = 1 <=> \E c \in Cores : Has(c, l)

OneOwner ==
  \A l \in Locks : \A c, d \in Cores : Has(c, l) /\ Has(d, l) => c = d

CountHasOwner ==
  \A l \in Locks :
    ucRecursionCountByLock[l] # 0 <=> \E c \in Cores : Counted(c, l)

\* What a core knows about its bit and the count at each point of a call.
Knows ==
  \A c \in Cores :
    /\ At(c, "spin") \/ At(c, "locked") \/ At(c, "own") \/ At(c, "unlock")
         => ~Owned(c, Lock(c))
    /\ At(c, "release") \/ At(c, "disown") => Owned(c, Lock(c))
    /\ At(c, "own") => ucRecursionCountByLock[Lock(c)] = 1

\* The count has room for the acquisition that a call is about to add.
Room ==
  /\ \A l \in Locks :
       ucRecursionCountByLock[l] <= MaxCount \/ ucRecursionCountByLock[l] <= 1
  /\ \A c \in Cores :
       (At(c, "try") \/ At(c, "failed")) /\ Owned(c, Lock(c))
         => ucRecursionCountByLock[Lock(c)] < MaxCount

LockInv ==
  /\ LockTypeOK
  /\ GateHasOwner
  /\ OneOwner
  /\ CountHasOwner
  /\ Knows
  /\ Room

LEMMA LockInitInv == LockInit => LockInv
BY A53LockAssumption DEF LockInit, LockInv, LockTypeOK, GateHasOwner, OneOwner,
   CountHasOwner, Knows, Room, Has, Counted, CallOf, At, Lock, Owned, Idle, Points

LEMMA AcquireEnterInv ==
  ASSUME NEW c \in Cores, NEW l \in Locks, LockInv, AcquireEnter(c, l)
  PROVE  LockInv'
<1> USE A53LockAssumption DEF LockInv, CallOf, At, Lock, Owned, AcquireEnter, Enter, InOrder
<1>1. LockTypeOK'
  BY DEF LockTypeOK, Points, Room
<1>2. GateHasOwner'
  BY DEF LockTypeOK, GateHasOwner, OneOwner, Knows, Has
<1>3. OneOwner'
  BY DEF LockTypeOK, OneOwner, GateHasOwner, Knows, Has
<1>4. CountHasOwner'
  BY DEF LockTypeOK, CountHasOwner, OneOwner, Knows, Counted, Has
<1>5. Knows'
  BY DEF LockTypeOK, Knows, GateHasOwner, OneOwner, CountHasOwner, Has, Counted
<1>6. Room'
  BY DEF LockTypeOK, Room, Knows
<1>7. QED
  BY <1>1, <1>2, <1>3, <1>4, <1>5, <1>6

LEMMA TryLockInv ==
  ASSUME NEW c \in Cores, NEW from, NEW failed, LockInv, TryLock(c, from, failed),
         \/ from = "try" /\ failed = "failed"
         \/ from = "spin" /\ failed = "spin"
  PROVE  LockInv'
<1> USE A53LockAssumption DEF LockInv, CallOf, At, Lock, Owned
<1>l. PICK l \in Locks : l = Lock(c)
  BY DEF LockTypeOK
<1>1. CASE GateWord[l] = 1
  <2>1. call' = [call EXCEPT ![c] = [at |-> failed, lock |-> l]]
    BY <1>l, <1>1 DEF TryLock, Goto, Enter
  <2>2. UNCHANGED <<GateWord, ucOwnedByCore, ucRecursionCountByLock>>
    BY <1>l, <1>1 DEF TryLock
  <2>3. \A d \in Cores, m \in Locks :
          (Has(d, m)' <=> Has(d, m)) /\ (Counted(d, m)' <=> Counted(d, m))
    BY <2>1, <2>2 DEF LockTypeOK, Has, Counted, TryLock
  <2>4. LockTypeOK' /\ GateHasOwner' /\ OneOwner' /\ CountHasOwner'
    BY <2>1, <2>2, <2>3 DEF LockTypeOK, Points, GateHasOwner, OneOwner, CountHasOwner
  <2>5. Knows' /\ Room'
    BY <1>l, <2>1, <2>2 DEF LockTypeOK, Knows, Room, TryLock
  <2>6. QED
    BY <2>4, <2>5
<1>2. CASE GateWord[l] # 1
  <2>1. call' = [call EXCEPT ![c] = [at |-> "locked", lock |-> l]]
    BY <1>l, <1>2 DEF TryLock, Goto, Enter
  <2>2. /\ GateWord' = [GateWord EXCEPT ![l] = 1]
        /\ UNCHANGED <<ucOwnedByCore, ucRecursionCountByLock>>
    BY <1>l, <1>2 DEF TryLock
  <2>3. \A d \in Cores : ~Has(d, l)
    BY <1>2 DEF LockTypeOK, GateHasOwner
  <2>4. \A d \in Cores, m \in Locks :
          /\ Has(d, m)' <=> Has(d, m) \/ (d = c /\ m = l)
          /\ Counted(d, m)' <=> Counted(d, m)
    <3>1. At(c, "try") \/ At(c, "spin")
      BY DEF TryLock
    <3>2. At(c, "locked")' /\ Lock(c)' = l
      BY <2>1 DEF LockTypeOK
    <3>3. \A m \in Locks : (Has(c, m) <=> Owned(c, m)) /\ (Counted(c, m) <=> Owned(c, m))
      BY <3>1 DEF Has, Counted
    <3>4. \A m \in Locks :
            (Has(c, m)' <=> Owned(c, m) \/ m = l) /\ (Counted(c, m)' <=> Owned(c, m))
      BY <2>2, <3>2 DEF Has, Counted
    <3>5. \A d \in Cores \ {c}, m \in Locks :
            (Has(d, m)' <=> Has(d, m)) /\ (Counted(d, m)' <=> Counted(d, m))
      BY <2>1, <2>2 DEF LockTypeOK, Has, Counted
    <3>6. QED
      BY <3>3, <3>4, <3>5
  <2>5. LockTypeOK'
    BY <2>1, <2>2 DEF LockTypeOK, Points
  <2>6. GateHasOwner'
    <3>1. Has(c, l)'
      BY <2>4
    <3>2. \A m \in Locks \ {l}, d \in Cores : Has(d, m)' <=> Has(d, m)
      BY <2>4
    <3>3. GateWord'[l] = 1 /\ \A m \in Locks \ {l} : GateWord'[m] = GateWord[m]
      BY <2>2 DEF LockTypeOK
    <3>4. QED
      BY <3>1, <3>2, <3>3 DEF GateHasOwner
  <2>9. OneOwner'
    BY <2>3, <2>4 DEF OneOwner
  <2>10. CountHasOwner'
    BY <2>2, <2>4 DEF CountHasOwner
  <2>7. Knows' /\ Room'
    BY <1>l, <2>1, <2>2, <2>3 DEF LockTypeOK, Knows, Room, Has, TryLock
  <2>8. QED
    BY <2>5, <2>6, <2>7, <2>9, <2>10
<1>3. QED
  BY <1>1, <1>2

LEMMA NestedInv ==
  ASSUME NEW c \in Cores, LockInv, Nested(c)
  PROVE  LockInv'
<1> USE A53LockAssumption DEF LockInv, CallOf, At, Lock, Owned
<1>l. PICK l \in Locks : l = Lock(c)
  BY DEF LockTypeOK
<1>1. /\ call' = [call EXCEPT ![c] = [at |-> "caller", lock |-> IsrLock]]
      /\ ucRecursionCountByLock' =
           [ucRecursionCountByLock EXCEPT ![l] = ucRecursionCountByLock[l] + 1]
      /\ UNCHANGED <<GateWord, ucOwnedByCore>>
  BY <1>l DEF Nested, Count, Return, Idle
<1>2. /\ At(c, "failed") /\ Owned(c, l)
      /\ ucRecursionCountByLock[l] \in Nat
      /\ ucRecursionCountByLock[l] + 1 <= MaxCount
  <2>1. At(c, "failed") /\ Owned(c, l)
    BY <1>l DEF Nested
  <2>2. ucRecursionCountByLock[l] \in 0 .. 254
    BY DEF LockTypeOK
  <2>3. ucRecursionCountByLock[l] < MaxCount
    BY <1>l, <2>1 DEF Room
  <2>4. QED
    BY <2>1, <2>2, <2>3
<1>3. LockTypeOK'
  <2>1. ucRecursionCountByLock[l] + 1 \in 0 .. 254
    BY <1>2
  <2>2. QED
    BY <1>1, <2>1 DEF LockTypeOK, Points
<1>4. \A d \in Cores, m \in Locks :
        (Has(d, m)' <=> Has(d, m)) /\ (Counted(d, m)' <=> Counted(d, m))
  BY <1>1, <1>2 DEF LockTypeOK, Has, Counted
<1>5. GateHasOwner' /\ OneOwner'
  BY <1>1, <1>4 DEF GateHasOwner, OneOwner
<1>6. Counted(c, l)
  BY <1>2 DEF Counted
<1>7. CountHasOwner'
  BY <1>1, <1>2, <1>4, <1>6 DEF LockTypeOK, CountHasOwner
<1>8. \A d \in Cores : d # c => ~Has(d, l)
  BY <1>2 DEF OneOwner, Has
<1>9. Knows'
  BY <1>1, <1>2, <1>8 DEF LockTypeOK, Knows, Has
<1>10. Room'
  BY <1>1, <1>2, <1>8 DEF LockTypeOK, Room, Has
<1>11. QED
  BY <1>3, <1>5, <1>7, <1>9, <1>10

LEMMA NotOwnedInv ==
  ASSUME NEW c \in Cores, LockInv, NotOwned(c)
  PROVE  LockInv'
<1> USE A53LockAssumption DEF LockInv, CallOf, At, Lock, Owned, NotOwned, Goto, Enter
<1>1. LockTypeOK'
  BY DEF LockTypeOK, Points, Room
<1>2. GateHasOwner'
  BY DEF LockTypeOK, GateHasOwner, OneOwner, Knows, Has
<1>3. OneOwner'
  BY DEF LockTypeOK, OneOwner, GateHasOwner, Knows, Has
<1>4. CountHasOwner'
  BY DEF LockTypeOK, CountHasOwner, OneOwner, Knows, Counted, Has
<1>5. Knows'
  BY DEF LockTypeOK, Knows, GateHasOwner, OneOwner, CountHasOwner, Has, Counted
<1>6. Room'
  BY DEF LockTypeOK, Room, Knows
<1>7. QED
  BY <1>1, <1>2, <1>3, <1>4, <1>5, <1>6

LEMMA SetCountInv ==
  ASSUME NEW c \in Cores, LockInv, SetCount(c)
  PROVE  LockInv'
<1> USE A53LockAssumption DEF LockInv, CallOf, At, Lock, Owned, SetCount, Count, Goto, Enter
<1>1. LockTypeOK'
  BY DEF LockTypeOK, Points, Room
<1>2. GateHasOwner'
  BY DEF LockTypeOK, GateHasOwner, OneOwner, Knows, Has
<1>3. OneOwner'
  BY DEF LockTypeOK, OneOwner, GateHasOwner, Knows, Has
<1>4. CountHasOwner'
  BY DEF LockTypeOK, CountHasOwner, OneOwner, Knows, Counted, Has
<1>5. Knows'
  BY DEF LockTypeOK, Knows, GateHasOwner, OneOwner, CountHasOwner, Has, Counted
<1>6. Room'
  <2>1. \A d \in Cores : d # c => ~Owned(d, Lock(c))
    BY DEF LockTypeOK, OneOwner, Has
  <2>2. QED
    BY <2>1 DEF LockTypeOK, Room
<1>7. QED
  BY <1>1, <1>2, <1>3, <1>4, <1>5, <1>6

LEMMA SetOwnedInv ==
  ASSUME NEW c \in Cores, LockInv, SetOwned(c)
  PROVE  LockInv'
<1> USE A53LockAssumption DEF LockInv, CallOf, At, Lock, Owned
<1>l. PICK l \in Locks : l = Lock(c)
  BY DEF LockTypeOK
<1>1. /\ call' = [call EXCEPT ![c] = [at |-> "caller", lock |-> IsrLock]]
      /\ ucOwnedByCore' = [ucOwnedByCore EXCEPT ![c] = @ \cup {l}]
      /\ UNCHANGED <<GateWord, ucRecursionCountByLock>>
  BY <1>l DEF SetOwned, Return, Idle
<1>2. At(c, "own") /\ Has(c, l) /\ Counted(c, l)
  BY <1>l DEF SetOwned, Has, Counted
<1>3. LockTypeOK'
  BY <1>1 DEF LockTypeOK, Points
<1>4. \A d \in Cores, m \in Locks :
        (Has(d, m)' <=> Has(d, m)) /\ (Counted(d, m)' <=> Counted(d, m))
  <2>1. \A d \in Cores \ {c}, m \in Locks :
          (Has(d, m)' <=> Has(d, m)) /\ (Counted(d, m)' <=> Counted(d, m))
    BY <1>1 DEF LockTypeOK, Has, Counted
  <2>2. Has(c, l)' /\ Counted(c, l)'
    BY <1>1 DEF LockTypeOK, Has, Counted
  <2>3. \A m \in Locks \ {l} :
          (Has(c, m)' <=> Has(c, m)) /\ (Counted(c, m)' <=> Counted(c, m))
    BY <1>l, <1>1, <1>2 DEF LockTypeOK, Has, Counted
  <2>4. QED
    BY <1>2, <2>1, <2>2, <2>3
<1>5. GateHasOwner' /\ OneOwner' /\ CountHasOwner'
  BY <1>1, <1>4 DEF GateHasOwner, OneOwner, CountHasOwner
<1>6. Knows' /\ Room'
  BY <1>1 DEF LockTypeOK, Knows, Room
<1>7. QED
  BY <1>3, <1>5, <1>6

LEMMA ReleaseEnterInv ==
  ASSUME NEW c \in Cores, NEW l \in Locks, LockInv, ReleaseEnter(c, l)
  PROVE  LockInv'
<1> USE A53LockAssumption DEF LockInv, CallOf, At, Lock, Owned, ReleaseEnter, Enter
<1>1. LockTypeOK'
  BY DEF LockTypeOK, Points, Room
<1>2. GateHasOwner'
  BY DEF LockTypeOK, GateHasOwner, OneOwner, Knows, Has
<1>3. OneOwner'
  BY DEF LockTypeOK, OneOwner, GateHasOwner, Knows, Has
<1>4. CountHasOwner'
  BY DEF LockTypeOK, CountHasOwner, OneOwner, Knows, Counted, Has
<1>5. Knows'
  BY DEF LockTypeOK, Knows, GateHasOwner, OneOwner, CountHasOwner, Has, Counted
<1>6. Room'
  BY DEF LockTypeOK, Room, Knows
<1>7. QED
  BY <1>1, <1>2, <1>3, <1>4, <1>5, <1>6

LEMMA CountDownInv ==
  ASSUME NEW c \in Cores, LockInv, CountDown(c)
  PROVE  LockInv'
<1> USE A53LockAssumption DEF LockInv, CallOf, At, Lock, Owned
<1>l. PICK l \in Locks : l = Lock(c)
  BY DEF LockTypeOK
<1>n. PICK n \in 0 .. 254 : n = ucRecursionCountByLock[l]
  BY DEF LockTypeOK
<1>1. At(c, "release") /\ Owned(c, l) /\ Has(c, l) /\ Counted(c, l)
  BY <1>l DEF CountDown, Knows, Has, Counted
<1>2. n # 0 /\ n - 1 \in 0 .. 254
  <2>1. n # 0
    BY <1>n, <1>1 DEF CountHasOwner
  <2>2. QED
    BY <2>1
<1>3. /\ ucRecursionCountByLock' = [ucRecursionCountByLock EXCEPT ![l] = n - 1]
      /\ UNCHANGED <<GateWord, ucOwnedByCore>>
  BY <1>l, <1>n DEF CountDown, Count
<1>4. /\ n = 1 => call' = [call EXCEPT ![c] = [at |-> "disown", lock |-> l]]
      /\ n # 1 => call' = [call EXCEPT ![c] = [at |-> "caller", lock |-> IsrLock]]
  BY <1>l, <1>n DEF CountDown, Goto, Enter, Return, Idle
<1>5. LockTypeOK'
  BY <1>2, <1>3, <1>4 DEF LockTypeOK, Points
<1>6. \A d \in Cores \ {c} : ~Has(d, l) /\ ~Counted(d, l)
  BY <1>1 DEF OneOwner, Has, Counted
<1>7. \A d \in Cores, m \in Locks :
        /\ Has(d, m)' <=> Has(d, m)
        /\ Counted(d, m)' <=> Counted(d, m) /\ ~(d = c /\ m = l /\ n = 1)
  <2>1. \A d \in Cores \ {c}, m \in Locks :
          (Has(d, m)' <=> Has(d, m)) /\ (Counted(d, m)' <=> Counted(d, m))
    BY <1>3, <1>4 DEF LockTypeOK, Has, Counted
  <2>2. \A m \in Locks : (Has(c, m) <=> Owned(c, m)) /\ (Counted(c, m) <=> Owned(c, m))
    BY <1>1 DEF Has, Counted
  <2>3. \A m \in Locks :
          /\ Has(c, m)' <=> Owned(c, m)
          /\ Counted(c, m)' <=> Owned(c, m) /\ ~(m = l /\ n = 1)
    BY <1>3, <1>4 DEF LockTypeOK, Has, Counted
  <2>4. QED
    BY <2>1, <2>2, <2>3
<1>8. GateHasOwner' /\ OneOwner'
  BY <1>3, <1>7 DEF GateHasOwner, OneOwner
<1>9. CountHasOwner'
  <2>1. ucRecursionCountByLock'[l] # 0 <=> n # 1
    BY <1>2, <1>3 DEF LockTypeOK
  <2>2. (\E d \in Cores : Counted(d, l)') <=> n # 1
    BY <1>1, <1>6, <1>7
  <2>3. ASSUME NEW m \in Locks, m # l
        PROVE  ucRecursionCountByLock'[m] # 0 <=> \E d \in Cores : Counted(d, m)'
    BY <1>3, <1>7, <2>3 DEF LockTypeOK, CountHasOwner
  <2>4. QED
    BY <2>1, <2>2, <2>3 DEF CountHasOwner
<1>10. Knows'
  <2>1. \A d \in Cores \ {c} : At(d, "own") => Lock(d) # l
    BY <1>6 DEF Has
  <2>2. QED
    BY <1>1, <1>3, <1>4, <2>1 DEF LockTypeOK, Knows
<1>11. Room'
  <2>1. \A d \in Cores \ {c} : ~Owned(d, l)
    BY <1>6 DEF Has
  <2>2. n - 1 <= MaxCount \/ n - 1 <= 1
    BY <1>n, <1>2 DEF Room
  <2>3. QED
    BY <1>3, <1>4, <2>1, <2>2 DEF LockTypeOK, Room
<1>12. QED
  BY <1>5, <1>8, <1>9, <1>10, <1>11

LEMMA ClearOwnedInv ==
  ASSUME NEW c \in Cores, LockInv, ClearOwned(c)
  PROVE  LockInv'
<1> USE A53LockAssumption DEF LockInv, CallOf, At, Lock, Owned, ClearOwned, Goto, Enter
<1>1. LockTypeOK'
  BY DEF LockTypeOK, Points, Room
<1>2. GateHasOwner'
  BY DEF LockTypeOK, GateHasOwner, OneOwner, Knows, Has
<1>3. OneOwner'
  BY DEF LockTypeOK, OneOwner, GateHasOwner, Knows, Has
<1>4. CountHasOwner'
  BY DEF LockTypeOK, CountHasOwner, OneOwner, Knows, Counted, Has
<1>5. Knows'
  BY DEF LockTypeOK, Knows, GateHasOwner, OneOwner, CountHasOwner, Has, Counted
<1>6. Room'
  BY DEF LockTypeOK, Room, Knows
<1>7. QED
  BY <1>1, <1>2, <1>3, <1>4, <1>5, <1>6

LEMMA UnlockInv ==
  ASSUME NEW c \in Cores, LockInv, Unlock(c)
  PROVE  LockInv'
<1> USE A53LockAssumption DEF LockInv, CallOf, At, Lock, Owned
<1>l. PICK l \in Locks : l = Lock(c)
  BY DEF LockTypeOK
<1>1. /\ call' = [call EXCEPT ![c] = [at |-> "caller", lock |-> IsrLock]]
      /\ GateWord' = [GateWord EXCEPT ![l] = 0]
      /\ UNCHANGED <<ucOwnedByCore, ucRecursionCountByLock>>
  BY <1>l DEF Unlock, Return, Idle
<1>2. At(c, "unlock") /\ Has(c, l) /\ ~Owned(c, l)
  BY <1>l DEF Unlock, Has, Knows
<1>3. LockTypeOK'
  BY <1>1 DEF LockTypeOK, Points
<1>4. /\ \A d \in Cores, m \in Locks :
           Has(d, m)' <=> Has(d, m) /\ ~(d = c /\ m = l)
      /\ \A d \in Cores, m \in Locks : Counted(d, m)' <=> Counted(d, m)
  BY <1>l, <1>1, <1>2 DEF LockTypeOK, Has, Counted
<1>5. \A d \in Cores : d # c => ~Has(d, l)
  BY <1>2 DEF OneOwner
<1>6. GateHasOwner' /\ OneOwner' /\ CountHasOwner'
  BY <1>1, <1>4, <1>5 DEF LockTypeOK, GateHasOwner, OneOwner, CountHasOwner
<1>7. Knows' /\ Room'
  BY <1>1 DEF LockTypeOK, Knows, Room
<1>8. QED
  BY <1>3, <1>6, <1>7

LEMMA LockStutterInv == LockInv /\ UNCHANGED lockVars => LockInv'
BY DEF LockInv, lockVars, LockTypeOK, GateHasOwner, OneOwner, CountHasOwner, Knows, Room,
       Has, Counted, CallOf, At, Lock, Owned

LEMMA LockNextInv == LockInv /\ [LockNext]_lockVars => LockInv'
<1> SUFFICES ASSUME LockInv, [LockNext]_lockVars PROVE LockInv'
  OBVIOUS
<1>1. ASSUME NEW c \in Cores, LockStep(c) PROVE LockInv'
  <2>1. CASE FirstTry(c)
    BY <2>1, TryLockInv DEF FirstTry
  <2>2. CASE Spin(c)
    BY <2>2, TryLockInv DEF Spin
  <2>3. QED
    BY <1>1, <2>1, <2>2, NestedInv, NotOwnedInv, SetCountInv, SetOwnedInv,
       CountDownInv, ClearOwnedInv, UnlockInv DEF LockStep
<1>2. ASSUME NEW c \in Cores, NEW l \in Locks,
             AcquireEnter(c, l) \/ ReleaseEnter(c, l)
      PROVE  LockInv'
  BY <1>2, AcquireEnterInv, ReleaseEnterInv
<1>3. CASE UNCHANGED lockVars
  BY <1>3, LockStutterInv
<1>4. QED
  BY <1>1, <1>2, <1>3 DEF LockNext

\* Every reachable state of vPortRecursiveLock satisfies the invariant.
THEOREM LockInductive == LockSpec => []LockInv
BY LockInitInv, LockNextInv, PTL DEF LockSpec

\* The types of the lock's words; the shared count stays below 255.
THEOREM A53Types == LockSpec => []LockTypeOK
<1>1. LockInv => LockTypeOK
  BY DEF LockInv
<1>2. QED
  BY <1>1, LockInductive, PTL

\* No assertion of vPortRecursiveLock fails, for a caller that gives back
\* only locks it has.
THEOREM A53Assertions == LockSpec => []AssertionsHold
<1>1. LockInv => AssertionsHold
  <2> SUFFICES ASSUME LockInv, NEW c \in Cores
               PROVE  /\ At(c, "locked") => ucRecursionCountByLock[Lock(c)] = 0
                      /\ At(c, "failed") /\ Owned(c, Lock(c))
                           => ucRecursionCountByLock[Lock(c)] # 255
                      /\ At(c, "release") =>
                           Owned(c, Lock(c)) /\ ucRecursionCountByLock[Lock(c)] # 0
    BY DEF AssertionsHold
  <2>l. PICK l \in Locks : l = Lock(c)
    BY DEF LockInv, LockTypeOK, Lock
  <2>1. ASSUME At(c, "locked") PROVE ucRecursionCountByLock[l] = 0
    <3>1. Has(c, l) /\ ~Counted(c, l)
      BY <2>l, <2>1 DEF LockInv, Knows, Has, Counted, CallOf, At
    <3>2. \A d \in Cores : ~Counted(d, l)
      BY <3>1 DEF LockInv, OneOwner, Has, Counted
    <3>3. QED
      BY <3>2 DEF LockInv, CountHasOwner
  <2>2. ucRecursionCountByLock[l] # 255
    BY DEF LockInv, LockTypeOK
  <2>3. ASSUME At(c, "release")
        PROVE  Owned(c, l) /\ ucRecursionCountByLock[l] # 0
    <3>1. Owned(c, l) /\ Counted(c, l)
      BY <2>l, <2>3 DEF LockInv, Knows, Counted, CallOf, At
    <3>2. QED
      BY <3>1 DEF LockInv, CountHasOwner
  <2>4. QED
    BY <2>l, <2>1, <2>2, <2>3
<1>2. QED
  BY <1>1, LockInductive, PTL

\* Two cores never own the same lock: the bits of ucOwnedByCore exclude each
\* other.
THEOREM A53MutualExclusion == LockSpec => []MutualExclusion
<1>1. LockInv => MutualExclusion
  <2> SUFFICES ASSUME LockInv, NEW l \in Locks, NEW c \in Cores, NEW d \in Cores,
                      c # d, Owned(c, l), Owned(d, l)
               PROVE  FALSE
    BY DEF MutualExclusion, Abstract!MutualExclusion, Holds
  <2>1. QED
    BY DEF LockInv, OneOwner, Has
<1>2. QED
  BY <1>1, LockInductive, PTL

-----------------------------------------------------------------------------
\* A step that changes neither a bit nor the count of a lock that has one.
LEMMA HoldsKept ==
  ASSUME LockInv, UNCHANGED ucOwnedByCore,
         \A d \in Cores, m \in Locks : Owned(d, m) =>
           ucRecursionCountByLock'[m] = ucRecursionCountByLock[m]
  PROVE  UNCHANGED Holds
BY DEF Holds, Owned

\* A step that changes what one core has of one lock.
LEMMA HoldsChanged ==
  ASSUME NEW c \in Cores, NEW l \in Locks, NEW n,
         \A d \in Cores, m \in Locks :
           Holds'[d][m] = IF d = c /\ m = l THEN n ELSE Holds[d][m]
  PROVE  Holds' = [Holds EXCEPT ![c][l] = n]
<1> DEFINE New == [Holds EXCEPT ![c][l] = n]
<1>1. /\ Holds' = [d \in Cores |-> Holds'[d]]
      /\ \A d \in Cores : Holds'[d] = [m \in Locks |-> Holds'[d][m]]
  BY DEF Holds
<1>2. /\ Holds = [d \in Cores |-> Holds[d]]
      /\ \A d \in Cores : Holds[d] = [m \in Locks |-> Holds[d][m]]
  BY DEF Holds
<1>3. New = [d \in Cores |-> IF d = c THEN [Holds[c] EXCEPT ![l] = n] ELSE Holds[d]]
  BY <1>2
<1>4. \A d \in Cores : Holds'[d] = New[d]
  <2>1. [Holds[c] EXCEPT ![l] = n] =
          [m \in Locks |-> IF m = l THEN n ELSE Holds[c][m]]
    BY <1>2
  <2>2. Holds'[c] = [m \in Locks |-> IF m = l THEN n ELSE Holds[c][m]]
    BY <1>1
  <2>3. \A d \in Cores \ {c} : Holds'[d] = Holds[d]
    BY <1>1, <1>2
  <2>4. QED
    BY <1>3, <2>1, <2>2, <2>3
<1>5. QED
  BY <1>1, <1>3, <1>4

LEMMA SetCountRefines ==
  ASSUME LockInv, NEW c \in Cores, SetCount(c)
  PROVE  UNCHANGED Holds
<1>l. PICK l \in Locks : l = Lock(c)
  BY DEF LockInv, LockTypeOK, Lock
<1>1. \A d \in Cores : ~Owned(d, l)
  BY <1>l DEF LockInv, OneOwner, Knows, Has, CallOf, SetCount, At
<1>2. \A m \in Locks \ {l} :
        ucRecursionCountByLock'[m] = ucRecursionCountByLock[m]
  BY <1>l DEF LockInv, LockTypeOK, SetCount, Count
<1>3. QED
  BY <1>1, <1>2, HoldsKept DEF SetCount

LEMMA ClearOwnedRefines ==
  ASSUME LockInv, NEW c \in Cores, ClearOwned(c)
  PROVE  UNCHANGED Holds
<1>l. PICK l \in Locks : l = Lock(c)
  BY DEF LockInv, LockTypeOK, Lock
<1>1. ucRecursionCountByLock[l] = 0
  <2>1. At(c, "disown") /\ Owned(c, l)
    BY <1>l DEF LockInv, Knows, ClearOwned
  <2>2. \A d \in Cores : ~Counted(d, l)
    BY <1>l, <2>1 DEF LockInv, OneOwner, Has, Counted, CallOf, At
  <2>3. QED
    BY <2>2 DEF LockInv, CountHasOwner
<1>2. \A d \in Cores, m \in Locks :
        d # c \/ m # l => (Owned(d, m)' <=> Owned(d, m))
  BY <1>l DEF LockInv, LockTypeOK, ClearOwned, Owned
<1>3. \A d \in Cores, m \in Locks : Holds'[d][m] = Holds[d][m]
  BY <1>1, <1>2 DEF Holds, ClearOwned
<1>4. QED
  BY <1>3 DEF Holds

LEMMA SetOwnedRefines ==
  ASSUME LockInv, NEW c \in Cores, SetOwned(c)
  PROVE  \E l \in Locks : Abstract!Acquire(c, l)
<1>l. PICK l \in Locks : l = Lock(c)
  BY DEF LockInv, LockTypeOK, Lock
<1>1. /\ At(c, "own") /\ ~Owned(c, l) /\ ucRecursionCountByLock[l] = 1
      /\ \A d \in Cores \ {c} : ~Owned(d, l)
  BY <1>l DEF LockInv, Knows, OneOwner, Has, CallOf, SetOwned, At
<1>2. Abstract!FreeFor(c, l)
  BY <1>1 DEF Abstract!FreeFor, Holds
<1>3. /\ Owned(c, l)'
      /\ \A d \in Cores, m \in Locks :
           d # c \/ m # l => (Owned(d, m)' <=> Owned(d, m))
  BY <1>l DEF LockInv, LockTypeOK, SetOwned, Owned
<1>4. \A d \in Cores, m \in Locks :
        Holds'[d][m] = IF d = c /\ m = l THEN 1 ELSE Holds[d][m]
  BY <1>1, <1>3 DEF Holds, SetOwned
<1>5. Holds[c][l] + 1 = 1
  BY <1>1 DEF Holds
<1>6. Holds' = [Holds EXCEPT ![c][l] = @ + 1]
  BY <1>4, <1>5, HoldsChanged
<1>7. QED
  BY <1>2, <1>6 DEF Abstract!Acquire

LEMMA NestedRefines ==
  ASSUME LockInv, NEW c \in Cores, Nested(c)
  PROVE  \E l \in Locks : Abstract!Acquire(c, l)
<1>l. PICK l \in Locks : l = Lock(c)
  BY DEF LockInv, LockTypeOK, Lock
<1>1. Owned(c, l) /\ \A d \in Cores \ {c} : ~Owned(d, l)
  BY <1>l DEF LockInv, OneOwner, Has, Nested
<1>2. Abstract!FreeFor(c, l)
  BY <1>1 DEF Abstract!FreeFor, Holds
<1>3. /\ ucRecursionCountByLock'[l] = ucRecursionCountByLock[l] + 1
      /\ \A m \in Locks \ {l} :
           ucRecursionCountByLock'[m] = ucRecursionCountByLock[m]
      /\ UNCHANGED ucOwnedByCore
  BY <1>l DEF LockInv, LockTypeOK, Nested, Count
<1>4. \A d \in Cores, m \in Locks :
        Holds'[d][m] = IF d = c /\ m = l THEN Holds[c][l] + 1 ELSE Holds[d][m]
  BY <1>1, <1>3 DEF Holds, Owned
<1>5. Holds' = [Holds EXCEPT ![c][l] = @ + 1]
  BY <1>4, HoldsChanged
<1>6. QED
  BY <1>2, <1>5 DEF Abstract!Acquire

LEMMA CountDownRefines ==
  ASSUME LockInv, NEW c \in Cores, CountDown(c)
  PROVE  \E l \in Locks : Abstract!Release(c, l)
<1>l. PICK l \in Locks : l = Lock(c)
  BY DEF LockInv, LockTypeOK, Lock
<1>1. /\ Owned(c, l) /\ Counted(c, l)
      /\ \A d \in Cores \ {c} : ~Owned(d, l)
  BY <1>l DEF LockInv, Knows, OneOwner, Has, Counted, CallOf, CountDown, At
<1>2. ucRecursionCountByLock[l] \in Nat /\ ucRecursionCountByLock[l] # 0
  <2>1. ucRecursionCountByLock[l] \in 0 .. 254
    BY DEF LockInv, LockTypeOK
  <2>2. QED
    BY <1>1, <2>1 DEF LockInv, CountHasOwner
<1>3. /\ ucRecursionCountByLock'[l] = ucRecursionCountByLock[l] - 1
      /\ \A m \in Locks \ {l} :
           ucRecursionCountByLock'[m] = ucRecursionCountByLock[m]
      /\ UNCHANGED ucOwnedByCore
  BY <1>l DEF LockInv, LockTypeOK, CountDown, Count
<1>4. \A d \in Cores, m \in Locks :
        Holds'[d][m] = IF d = c /\ m = l THEN Holds[c][l] - 1 ELSE Holds[d][m]
  BY <1>1, <1>3 DEF Holds, Owned
<1>5. Holds[c][l] > 0
  BY <1>1, <1>2 DEF Holds
<1>6. Holds' = [Holds EXCEPT ![c][l] = @ - 1]
  BY <1>4, HoldsChanged
<1>7. QED
  BY <1>5, <1>6 DEF Abstract!Release

LEMMA LockStepRefines == LockInv /\ [LockNext]_lockVars => [Abstract!Next]_Holds
<1> SUFFICES ASSUME LockInv, [LockNext]_lockVars PROVE [Abstract!Next]_Holds
  OBVIOUS
<1>1. ASSUME UNCHANGED <<ucOwnedByCore, ucRecursionCountByLock>>
      PROVE  UNCHANGED Holds
  BY <1>1 DEF Holds, Owned
<1>2. ASSUME NEW c \in Cores, LockStep(c) PROVE [Abstract!Next]_Holds
  <2>1. CASE SetOwned(c) \/ Nested(c)
    BY <2>1, SetOwnedRefines, NestedRefines DEF Abstract!Next
  <2>2. CASE CountDown(c)
    BY <2>2, CountDownRefines DEF Abstract!Next
  <2>3. CASE SetCount(c) \/ ClearOwned(c)
    BY <2>3, SetCountRefines, ClearOwnedRefines
  <2>4. CASE FirstTry(c) \/ Spin(c) \/ NotOwned(c) \/ Unlock(c)
    BY <1>1, <2>4 DEF FirstTry, Spin, TryLock, NotOwned, Unlock
  <2>5. QED
    BY <1>2, <2>1, <2>2, <2>3, <2>4 DEF LockStep
<1>3. ASSUME NEW c \in Cores, NEW l \in Locks,
             AcquireEnter(c, l) \/ ReleaseEnter(c, l)
      PROVE  [Abstract!Next]_Holds
  BY <1>1, <1>3 DEF AcquireEnter, ReleaseEnter
<1>4. CASE UNCHANGED lockVars
  BY <1>1, <1>4 DEF lockVars
<1>5. QED
  BY <1>2, <1>3, <1>4 DEF LockNext

\* vPortRecursiveLock implements the lock the kernel relies on: a first
\* acquire takes effect when the bit is set, a nested one and a release when
\* the shared count changes.
THEOREM A53Refinement == LockSpec => ImplementsCoreLock
<1>1. LockInit => Abstract!Init
  BY DEF LockInit, Abstract!Init, Holds, Owned
<1>2. QED
  BY <1>1, LockInductive, LockStepRefines, PTL DEF LockSpec, ImplementsCoreLock, Abstract!Spec

-----------------------------------------------------------------------------
(* The context switch (A53Sched)                                           *)

Running(c, t) == at[c] = "run" /\ cpu[c] = t

\* The nesting count is the number of frames, and each frame has put back the
\* count it found; the tick is core 0's, a yield interrupt a started core's.
Nesting ==
  \A c \in Cores :
    /\ ullPortInterruptNesting[c] = depth[c]
    /\ \A k \in 1 .. depth[c] :
         /\ frame[c][k].old = k - 1
         /\ frame[c][k].isr = "tick" => c = Primary

\* A core that switches is masked and outside handlers, and a switch is
\* requested of started cores only.
Stages ==
  /\ ullPortSchedularRunning => at[Primary] # "boot"
  /\ \A c \in Cores :
       /\ at[c] \in {"pick", "restore"} => depth[c] = 0 /\ masked[c]
       /\ at[c] = "boot" => ~Started(c)
       /\ at[c] = "pick" => Started(c)
       /\ ullPortYieldRequired[c] => Started(c)

OneCore == \A c, d \in Cores : pxCurrentTCBs[c] = pxCurrentTCBs[d] => c = d

\* Task t has registered, and where it ran.
Registered(t) == step[t] \in {"registered", "computing"} /\ t \notin astray
Computing(t) == step[t] = "computing" /\ t \notin astray

\* A task that has registered where it ran has its FPU context with it, on its
\* core or, when it does not run, in its saved context.
FpuFollows ==
  /\ \A t \in Tasks :
       context[t].of = t =>
         /\ Registered(t) => context[t].flag
         /\ Computing(t) => context[t].fpu = t
  /\ \A c \in Cores : \A t \in Tasks :
       Running(c, t) =>
         /\ context[t].of # t
         /\ Registered(t) => ullPortTaskHasFPUContext[c]
         /\ Computing(t) => fpu[c] = t

IInv == TypeOK /\ Nesting /\ Stages /\ OneCore /\ ContextsIntact
FpuInv == IInv /\ FpuFollows

-----------------------------------------------------------------------------
LEMMA InitInv == Init => IInv
<1> SUFFICES ASSUME Init PROVE IInv
  OBVIOUS
<1>1. TypeOK
  <2>1. frame \in [Cores -> [1 .. MaxNest -> Frames]]
    BY DEF Init, Frames, NoFrame, Kinds
  <2>2. context \in [Tasks -> Contexts]
    BY DEF Init, Contexts
  <2>3. /\ depth \in [Cores -> 0 .. MaxNest]
        /\ core \in [Tasks -> Cores] /\ pxCurrentTCBs \in [Cores -> Tasks]
    BY A53SchedAssumption DEF Init
  <2> QED BY <2>1, <2>2, <2>3 DEF Init, TypeOK
<1>2. Nesting /\ Stages /\ OneCore /\ ContextsIntact
  BY A53SchedAssumption DEF Init, Nesting, Stages, OneCore, ContextsIntact, Started
<1> QED BY <1>1, <1>2 DEF IInv

\* What the invariant says of a core in the middle of an interrupt.
LEMMA InFrame ==
  ASSUME IInv, NEW c \in Cores, depth[c] > 0
  PROVE  /\ Top(c) \in Frames /\ Top(c).old = depth[c] - 1
         /\ depth[c] \in 1 .. MaxNest
         /\ at[c] \in {"boot", "run"}
         /\ Top(c).isr = "tick" => c = Primary
<1>1. depth[c] \in 1 .. MaxNest
  BY A53SchedAssumption DEF IInv, TypeOK
<1>2. Top(c) \in Frames
  BY ZenonT(30), <1>1 DEF IInv, TypeOK, Top
<1>3. depth[c] \in 1 .. depth[c]
  BY <1>1, A53SchedAssumption
<1>4. at[c] \in {"boot", "run"}
  <2>1. at[c] \in {"boot", "run", "pick", "restore"}
    BY DEF IInv, TypeOK
  <2>2. depth[c] # 0
    BY <1>1
  <2> QED BY <2>1, <2>2 DEF IInv, Stages
<1> QED BY <1>1, <1>2, <1>3, <1>4 DEF IInv, Nesting, Top

LEMMA RunningStarted ==
  ASSUME IInv, NEW c \in Cores, at[c] = "run"
  PROVE  cpu[c] = pxCurrentTCBs[c] /\ cpu[c] \in Tasks /\ Started(c)
BY A53SchedAssumption DEF IInv, TypeOK, ContextsIntact, Started

LEMMA StartSchedulerInv ==
  ASSUME NEW c \in Cores, IInv, xPortStartScheduler(c)
  PROVE  IInv'
<1> USE DEF IInv, xPortStartScheduler, AtTaskLevel, isrVars, fpuVars, taskVars,
        progVars
<1>1. TypeOK'
  BY A53SchedAssumption DEF TypeOK
<1>2. Nesting' /\ OneCore'
  BY DEF Nesting, OneCore, Started
<1>3. Stages'
  BY DEF TypeOK, Stages, Started
<1>4. ContextsIntact'
  BY DEF TypeOK, ContextsIntact
<1> QED BY <1>1, <1>2, <1>3, <1>4

LEMMA SaveContexts ==
  ASSUME NEW c \in Cores, IInv, at[c] = "run", Save(c),
         at' = [at EXCEPT ![c] = "pick"], UNCHANGED <<cpu, pxCurrentTCBs>>
  PROVE  ContextsIntact' /\ context' \in [Tasks -> Contexts]
<1>1. cpu[c] = pxCurrentTCBs[c] /\ cpu[c] \in Tasks
  BY RunningStarted
<1>2. context' \in [Tasks -> Contexts]
  BY <1>1 DEF Save, IInv, TypeOK, Contexts
<1>3. \A t \in Tasks :
        context'[t] = IF t = cpu[c]
                        THEN [of   |-> cpu[c],
                              flag |-> ullPortTaskHasFPUContext[c],
                              fpu  |-> IF ullPortTaskHasFPUContext[c]
                                         THEN fpu[c] ELSE NoData]
                        ELSE context[t]
  BY <1>1 DEF Save, IInv, TypeOK
<1>4. \A d \in Cores : at'[d] = "run" => d # c /\ at[d] = "run"
  BY DEF IInv, TypeOK
<1>5. \A t \in Tasks :
        \/ context'[t].of = t
        \/ context'[t].of = Live /\ \E d \in Cores : at'[d] = "run" /\ cpu'[d] = t
  <2> SUFFICES ASSUME NEW t \in Tasks, t # cpu[c], context[t].of # t
               PROVE  context[t].of = Live
                      /\ \E d \in Cores : at'[d] = "run" /\ cpu'[d] = t
    BY <1>3
  <2>1. PICK d \in Cores : at[d] = "run" /\ cpu[d] = t /\ context[t].of = Live
    BY DEF IInv, ContextsIntact
  <2> QED BY <2>1 DEF IInv, TypeOK
<1> QED BY <1>2, <1>4, <1>5 DEF IInv, ContextsIntact

LEMMA YieldInv ==
  ASSUME NEW c \in Cores, IInv, Yield(c)
  PROVE  IInv'
<1>1. ContextsIntact' /\ context' \in [Tasks -> Contexts]
  BY SaveContexts DEF Yield, AtTaskLevel
<1>2. Started(c)
  BY RunningStarted DEF Yield, AtTaskLevel
<1>3. TypeOK'
  BY <1>1 DEF IInv, Yield, TypeOK, isrVars, fpuVars, progVars
<1>4. Nesting' /\ OneCore'
  BY DEF IInv, Yield, Nesting, OneCore, Started, isrVars, fpuVars, progVars
<1>5. Stages'
  BY <1>2 DEF IInv, Yield, AtTaskLevel, TypeOK, Stages, Started, isrVars
<1> QED BY <1>1, <1>3, <1>4, <1>5 DEF IInv

LEMMA SwitchContextInv ==
  ASSUME NEW c \in Cores, IInv, vTaskSwitchContext(c)
  PROVE  IInv'
<1>1. PICK t \in Tasks :
        /\ \A d \in Cores \ {c} : pxCurrentTCBs[d] # t
        /\ pxCurrentTCBs' = [pxCurrentTCBs EXCEPT ![c] = t]
  BY DEF vTaskSwitchContext
<1>2. TypeOK'
  BY <1>1 DEF IInv, vTaskSwitchContext, TypeOK, isrVars, fpuVars, progVars
<1>3. Nesting'
  BY DEF IInv, vTaskSwitchContext, Nesting, Started, isrVars
<1>4. Stages'
  BY A53SchedAssumption DEF IInv, vTaskSwitchContext, TypeOK, Stages, Started,
     isrVars
<1>5. OneCore'
  BY <1>1 DEF IInv, TypeOK, OneCore
<1>6. ContextsIntact'
  BY ZenonT(30), <1>1 DEF IInv, vTaskSwitchContext, TypeOK, ContextsIntact
<1> QED BY <1>2, <1>3, <1>4, <1>5, <1>6 DEF IInv

\* A task that is to run next has its context: no other core runs it.
LEMMA ReadyContext ==
  ASSUME NEW c \in Cores, IInv, at[c] = "restore"
  PROVE  context[pxCurrentTCBs[c]].of = pxCurrentTCBs[c]
<1> SUFFICES ASSUME context[pxCurrentTCBs[c]].of # pxCurrentTCBs[c]
             PROVE  FALSE
  OBVIOUS
<1>1. pxCurrentTCBs[c] \in Tasks
  BY DEF IInv, TypeOK
<1>2. PICK d \in Cores : at[d] = "run" /\ cpu[d] = pxCurrentTCBs[c]
  BY <1>1 DEF IInv, ContextsIntact
<1>3. pxCurrentTCBs[d] = pxCurrentTCBs[c]
  BY <1>2 DEF IInv, ContextsIntact
<1> QED BY <1>2, <1>3 DEF IInv, OneCore

LEMMA RestoreContextInv ==
  ASSUME NEW c \in Cores, IInv, RestoreContext(c)
  PROVE  IInv'
<1> DEFINE u == pxCurrentTCBs[c]
<1>1. u \in Tasks /\ context[u].of = u /\ context[u] \in Contexts
  BY ReadyContext DEF IInv, TypeOK, RestoreContext
<1>2. /\ at[c] = "restore" /\ at' = [at EXCEPT ![c] = "run"]
      /\ cpu' = [cpu EXCEPT ![c] = u]
      /\ context' = [context EXCEPT ![u] = Dead]
      /\ masked' = [masked EXCEPT ![c] = FALSE]
      /\ ullPortTaskHasFPUContext' =
           [ullPortTaskHasFPUContext EXCEPT ![c] = context[u].flag]
      /\ fpu' = [fpu EXCEPT ![c] = IF context[u].flag THEN context[u].fpu ELSE @]
      /\ UNCHANGED <<ullPortSchedularRunning, ullPortYieldRequired, isrVars,
                     pxCurrentTCBs, sgi, progVars>>
  BY <1>1 DEF RestoreContext
<1>3. Dead \in Contexts
  BY DEF Dead, Contexts
<1>4. TypeOK'
  <2>1. fpu' \in [Cores -> Tasks \cup {NoData}]
    BY <1>1, <1>2 DEF IInv, TypeOK, Contexts
  <2>2. ullPortTaskHasFPUContext' \in [Cores -> BOOLEAN]
    BY <1>1, <1>2 DEF IInv, TypeOK, Contexts
  <2> HIDE DEF u
  <2> QED BY <1>1, <1>2, <1>3, <2>1, <2>2 DEF IInv, TypeOK, isrVars, progVars
<1>5. \A d \in Cores : Started(d) => Started(d)'
  BY <1>1, <1>2, A53SchedAssumption DEF IInv, TypeOK, Started
<1>6. Nesting'
  BY <1>2, <1>5 DEF IInv, Nesting, isrVars
<1>7. Stages'
  BY <1>2, <1>5, A53SchedAssumption DEF IInv, TypeOK, Stages, Started, isrVars
<1>8. OneCore'
  BY <1>2 DEF IInv, OneCore
<1>9. ContextsIntact'
  <2>1. \A d \in Cores : at'[d] = "run" => cpu'[d] = pxCurrentTCBs'[d]
    BY <1>2 DEF IInv, TypeOK, ContextsIntact
  <2>2. ASSUME NEW t \in Tasks, context'[t].of # t
        PROVE  context'[t].of = Live
               /\ \E d \in Cores : at'[d] = "run" /\ cpu'[d] = t
    <3>1. CASE t = u
      BY <1>1, <1>2, <3>1 DEF IInv, TypeOK, Dead
    <3>2. CASE t # u
      <4>1. context'[t] = context[t]
        BY <1>2, <3>2 DEF IInv, TypeOK
      <4>2. PICK d \in Cores : at[d] = "run" /\ cpu[d] = t /\ context[t].of = Live
        BY <2>2, <4>1 DEF IInv, ContextsIntact
      <4> QED BY <1>2, <4>1, <4>2 DEF IInv, TypeOK
    <3> QED BY <3>1, <3>2
  <2> QED BY <2>1, <2>2 DEF ContextsIntact
<1> QED BY <1>4, <1>6, <1>7, <1>8, <1>9 DEF IInv

LEMMA IrqEnterInv ==
  ASSUME NEW c \in Cores, NEW isr \in Kinds, IInv, IrqEnter(c, isr)
  PROVE  IInv'
<1> USE A53SchedAssumption DEF IInv
<1> DEFINE n == depth[c] + 1
           new == [isr |-> isr, done |-> FALSE, old |-> ullPortInterruptNesting[c]]
<1>1. n \in 1 .. MaxNest /\ depth[c] \in Nat /\ new \in Frames
  <2>1. depth[c] \in 0 .. MaxNest /\ depth[c] < MaxNest
    BY DEF IrqEnter, TypeOK
  <2>2. ullPortInterruptNesting[c] \in Nat
    BY DEF TypeOK
  <2> QED BY <2>1, <2>2 DEF Frames
<1>2. /\ depth' = [depth EXCEPT ![c] = n]
      /\ frame' = [frame EXCEPT ![c] = [frame[c] EXCEPT ![n] = new]]
      /\ ullPortInterruptNesting' = [ullPortInterruptNesting EXCEPT ![c] = @ + 1]
      /\ sgi' = [sgi EXCEPT ![c] = @ /\ isr # "sgi"]
      /\ UNCHANGED <<ullPortSchedularRunning, ullPortYieldRequired, masked, at,
                     fpuVars, taskVars, progVars>>
  BY DEF IrqEnter, TypeOK
<1>3. /\ ~masked[c]
      /\ isr = "tick" => c = Primary
  BY DEF IrqEnter, Pending
<1> HIDE DEF n
<1>4. frame'[c] = [frame[c] EXCEPT ![n] = new] /\ frame' \in [Cores -> [1 .. MaxNest -> Frames]]
  BY <1>1, <1>2 DEF TypeOK
<1> HIDE DEF new
<1>5. TypeOK'
  <2>1. /\ depth' \in [Cores -> 0 .. MaxNest]
        /\ ullPortInterruptNesting' \in [Cores -> Nat]
    <3>1. n \in 0 .. MaxNest
      BY <1>1
    <3>2. ullPortInterruptNesting \in [Cores -> Nat] /\ depth \in [Cores -> 0 .. MaxNest]
      BY DEF TypeOK
    <3>3. \A d \in Cores : ullPortInterruptNesting[d] + 1 \in Nat
      BY <3>2
    <3> HIDE DEF IInv
    <3> QED BY <1>2, <3>1, <3>2, <3>3
  <2>2. sgi' \in [Cores -> BOOLEAN]
    BY <1>2, Zenon DEF TypeOK
  <2> QED BY <1>2, <1>4, <2>1, <2>2 DEF TypeOK, fpuVars, taskVars, progVars
<1>6. Nesting'
  <2>1. ASSUME NEW d \in Cores \ {c}
        PROVE  /\ frame'[d] = frame[d] /\ depth'[d] = depth[d]
               /\ ullPortInterruptNesting'[d] = ullPortInterruptNesting[d]
    BY <1>2 DEF TypeOK
  <2>2. depth'[c] = n /\ ullPortInterruptNesting'[c] = n
    BY <1>1, <1>2 DEF TypeOK, Nesting, n
  <2>3. ASSUME NEW k \in 1 .. n
        PROVE  /\ frame'[c][k].old = k - 1
               /\ frame'[c][k].isr = "tick" => c = Primary
    <3>1. CASE k = n
      <4>1. frame'[c][k] = new
        BY <1>1, <1>4, <3>1 DEF TypeOK
      <4>2. new.old = k - 1 /\ new.isr = isr
        BY <1>1, <3>1 DEF Nesting, n, new
      <4> QED BY <1>3, <4>1, <4>2
    <3>2. CASE k # n
      <4>1. k \in 1 .. depth[c] /\ k \in 1 .. MaxNest
        BY <1>1, <3>2 DEF n
      <4>2. frame'[c][k] = frame[c][k]
        BY <1>4, <3>2, <4>1 DEF TypeOK
      <4> QED BY <4>1, <4>2 DEF Nesting
    <3> QED BY <3>1, <3>2
  <2>4. \A d \in Cores : Started(d)' <=> Started(d)
    BY <1>2 DEF Started, taskVars
  <2> QED BY <2>1, <2>2, <2>3, <2>4 DEF Nesting
<1>7. Stages'
  BY <1>2, <1>3 DEF TypeOK, Stages, Started, taskVars
<1>8. OneCore' /\ ContextsIntact'
  BY <1>2 DEF OneCore, ContextsIntact, taskVars
<1> QED BY <1>5, <1>6, <1>7, <1>8

\* A handler marks the top frame as done and may ask for switches.
LEMMA HandlerInv ==
  ASSUME NEW c \in Cores, NEW isr \in Kinds, IInv, Handler(c, isr),
         ullPortYieldRequired' \in [Cores -> BOOLEAN], sgi' \in [Cores -> BOOLEAN],
         \A d \in Cores :
           ullPortYieldRequired'[d] => ullPortYieldRequired[d] \/ Started(d)
  PROVE  IInv'
<1> USE A53SchedAssumption DEF IInv
<1> DEFINE done == [frame[c][depth[c]] EXCEPT !.done = TRUE]
<1>1. /\ depth[c] \in 1 .. MaxNest /\ done \in Frames
      /\ done.old = Top(c).old /\ done.isr = Top(c).isr
  <2>1. depth[c] \in 1 .. MaxNest /\ Top(c) \in Frames
    BY InFrame DEF Handler
  <2> QED BY <2>1 DEF Top, Frames
<1>2. /\ frame' = [frame EXCEPT ![c] = [frame[c] EXCEPT ![depth[c]] = done]]
      /\ UNCHANGED <<ullPortSchedularRunning, ullPortInterruptNesting, depth, masked,
                     at, fpuVars, taskVars, progVars>>
  BY DEF Handler
<1> HIDE DEF done
<1>3. /\ frame'[c] = [frame[c] EXCEPT ![depth[c]] = done]
      /\ frame' \in [Cores -> [1 .. MaxNest -> Frames]]
  BY <1>1, <1>2 DEF TypeOK
<1>4. TypeOK'
  BY <1>2, <1>3 DEF TypeOK, fpuVars, taskVars, progVars
<1>5. Nesting'
  <2>1. ASSUME NEW d \in Cores, NEW k \in 1 .. depth[d]
        PROVE  frame'[d][k].old = frame[d][k].old /\ frame'[d][k].isr = frame[d][k].isr
    <3>1. k \in 1 .. MaxNest
      BY DEF TypeOK
    <3>2. CASE d = c /\ k = depth[c]
      <4>1. frame[c] \in [1 .. MaxNest -> Frames] /\ depth[c] \in 1 .. MaxNest
        BY <1>1 DEF TypeOK
      <4>2. frame'[c][depth[c]] = done /\ Top(c) = frame[c][depth[c]]
        BY <1>3, <4>1 DEF Top
      <4> QED BY <1>1, <3>2, <4>2
    <3>3. CASE ~(d = c /\ k = depth[c])
      BY <1>2, <3>1, <3>3 DEF TypeOK
    <3> QED BY <3>2, <3>3
  <2> QED BY <1>2, <2>1 DEF Nesting, Started, taskVars
<1>6. Stages' /\ OneCore' /\ ContextsIntact'
  BY <1>2 DEF Stages, OneCore, ContextsIntact, Started, taskVars
<1> QED BY <1>4, <1>5, <1>6

LEMMA HandlersInv ==
  ASSUME NEW c \in Cores, IInv,
         vPortTimerTickHandler(c) \/ YieldHandler(c) \/ EndSwitchingISR(c)
  PROVE  IInv'
<1> USE A53SchedAssumption
<1>1. CASE vPortTimerTickHandler(c)
  <2>1. Handler(c, "tick") /\ depth[c] > 0 /\ Top(c).isr = "tick"
    BY <1>1 DEF vPortTimerTickHandler, Handler
  <2>2. c = Primary /\ at[c] \in {"boot", "run"}
    BY <2>1, InFrame
  <2>3. ullPortSchedularRunning => Started(c)
    BY <2>2, RunningStarted DEF IInv, Stages
  <2>4. /\ sgi' \in [Cores -> BOOLEAN]
        /\ ullPortYieldRequired' \in [Cores -> BOOLEAN]
        /\ \A d \in Cores :
             ullPortYieldRequired'[d] => ullPortYieldRequired[d] \/ Started(d)
    BY <1>1, <2>3 DEF IInv, TypeOK, vPortTimerTickHandler, RequireYield, MaySignal,
       SignalCore
  <2> QED BY <2>1, <2>4, HandlerInv DEF Kinds
<1>2. CASE YieldHandler(c)
  <2>1. Handler(c, "sgi")
    BY <1>2 DEF YieldHandler
  <2>2. /\ sgi' \in [Cores -> BOOLEAN]
        /\ ullPortYieldRequired' \in [Cores -> BOOLEAN]
        /\ \A d \in Cores :
             ullPortYieldRequired'[d] => ullPortYieldRequired[d] \/ Started(d)
    BY <1>2, <2>1 DEF IInv, TypeOK, YieldHandler, RequireYield
  <2> QED BY <2>1, <2>2, HandlerInv DEF Kinds
<1>3. CASE EndSwitchingISR(c)
  <2>1. /\ Handler(c, "app")
        /\ sgi' \in [Cores -> BOOLEAN]
        /\ ullPortYieldRequired' \in [Cores -> BOOLEAN]
        /\ \A d \in Cores :
             ullPortYieldRequired'[d] => ullPortYieldRequired[d] \/ Started(d)
    BY <1>3 DEF IInv, TypeOK, EndSwitchingISR, RequireYield
  <2> QED BY <2>1, HandlerInv DEF Kinds
<1> QED BY <1>1, <1>2, <1>3

LEMMA IrqLeaveInv ==
  ASSUME NEW c \in Cores, IInv, IrqLeave(c)
  PROVE  /\ depth' = [depth EXCEPT ![c] = @ - 1]
         /\ depth' \in [Cores -> 0 .. MaxNest]
         /\ ullPortInterruptNesting' \in [Cores -> Nat]
         /\ frame' \in [Cores -> [1 .. MaxNest -> Frames]]
         /\ UNCHANGED cpu => Nesting'
<1> USE A53SchedAssumption DEF IInv
<1>1. depth[c] \in 1 .. MaxNest /\ Top(c).old = depth[c] - 1
  BY InFrame DEF IrqLeave
<1>2. /\ depth' = [depth EXCEPT ![c] = @ - 1]
      /\ ullPortInterruptNesting' = [ullPortInterruptNesting EXCEPT ![c] = depth[c] - 1]
      /\ frame' = [frame EXCEPT ![c] = [frame[c] EXCEPT ![depth[c]] = NoFrame]]
  BY <1>1 DEF IrqLeave
<1>3. NoFrame \in Frames
  BY DEF NoFrame, Frames, Kinds
<1>4. /\ depth' \in [Cores -> 0 .. MaxNest]
      /\ ullPortInterruptNesting' \in [Cores -> Nat]
  <2>1. depth[c] - 1 \in 0 .. MaxNest /\ depth[c] - 1 \in Nat
    BY <1>1
  <2> QED BY <1>2, <2>1 DEF TypeOK
<1>5. frame' \in [Cores -> [1 .. MaxNest -> Frames]]
  BY <1>1, <1>2, <1>3 DEF TypeOK
<1>6. ASSUME UNCHANGED cpu PROVE Nesting'
  <2>1. ASSUME NEW d \in Cores, NEW k \in 1 .. depth'[d]
        PROVE  k \in 1 .. depth[d] /\ frame'[d][k] = frame[d][k]
    <3>1. CASE d = c
      <4>1. k \in 1 .. depth[c] - 1
        BY <1>2, <3>1 DEF TypeOK
      <4>2. k \in 1 .. MaxNest /\ k # depth[c]
        BY <1>1, <4>1
      <4> QED BY <1>1, <1>2, <3>1, <4>1, <4>2 DEF TypeOK
    <3>2. CASE d # c
      BY <1>2, <3>2 DEF TypeOK
    <3> QED BY <3>1, <3>2
  <2>2. \A d \in Cores : ullPortInterruptNesting'[d] = depth'[d]
    BY <1>1, <1>2 DEF TypeOK, Nesting
  <2> QED BY <1>6, <2>1, <2>2 DEF Nesting, Started
<1> QED BY <1>2, <1>4, <1>5, <1>6

LEMMA IrqResumeInv ==
  ASSUME NEW c \in Cores, IInv, IrqResume(c)
  PROVE  IInv'
<1>1. /\ IrqLeave(c) /\ depth[c] > 0
      /\ masked' = [masked EXCEPT ![c] = FALSE]
      /\ UNCHANGED <<ullPortSchedularRunning, ullPortYieldRequired, fpuVars, sgi, at,
                     taskVars, progVars>>
  BY DEF IrqResume, IrqLeave
<1>2. at[c] \in {"boot", "run"}
  BY <1>1, InFrame
<1>3. TypeOK' /\ Nesting'
  BY <1>1, IrqLeaveInv DEF IInv, TypeOK, fpuVars, taskVars, progVars
<1>4. Stages'
  BY ZenonT(30), <1>1, <1>2, IrqLeaveInv DEF IInv, TypeOK, Stages, Started, taskVars
<1>5. OneCore' /\ ContextsIntact'
  BY <1>1 DEF IInv, OneCore, ContextsIntact, taskVars
<1> QED BY <1>3, <1>4, <1>5 DEF IInv

\* The core that leaves its last frame with a switch required runs a task.
LEMMA SwitchesTask ==
  ASSUME NEW c \in Cores, IInv, IrqSwitch(c)
  PROVE  /\ IrqLeave(c) /\ depth[c] = 1
         /\ at[c] = "run" /\ Started(c)
<1>1. /\ IrqLeave(c) /\ depth[c] > 0
      /\ Top(c).old = 0 /\ ullPortYieldRequired[c]
  BY DEF IrqSwitch, IrqLeave
<1>2. depth[c] - 1 = 0 /\ depth[c] \in Nat /\ at[c] \in {"boot", "run"}
  BY <1>1, InFrame, A53SchedAssumption
<1>3. Started(c)
  BY <1>1 DEF IInv, Stages
<1> QED BY <1>1, <1>2, <1>3 DEF IInv, Stages

LEMMA IrqSwitchInv ==
  ASSUME NEW c \in Cores, IInv, IrqSwitch(c)
  PROVE  IInv'
<1>1. /\ IrqLeave(c) /\ depth[c] = 1
      /\ at[c] = "run" /\ Started(c)
  BY SwitchesTask
<1>2. /\ Save(c)
      /\ ullPortYieldRequired' = [ullPortYieldRequired EXCEPT ![c] = FALSE]
      /\ masked' = [masked EXCEPT ![c] = TRUE]
      /\ at' = [at EXCEPT ![c] = "pick"]
      /\ UNCHANGED <<ullPortSchedularRunning, fpuVars, sgi, cpu, pxCurrentTCBs,
                     progVars>>
  BY DEF IrqSwitch
<1>3. ContextsIntact' /\ context' \in [Tasks -> Contexts]
  BY <1>1, <1>2, SaveContexts
<1>4. TypeOK' /\ Nesting'
  <2>1. /\ depth' \in [Cores -> 0 .. MaxNest]
        /\ ullPortInterruptNesting' \in [Cores -> Nat]
        /\ frame' \in [Cores -> [1 .. MaxNest -> Frames]]
        /\ Nesting'
    BY <1>1, <1>2, IrqLeaveInv
  <2> QED BY <1>2, <1>3, <2>1 DEF IInv, TypeOK, fpuVars, progVars
<1>5. Stages'
  <2>1. depth'[c] = 0 /\ \A d \in Cores \ {c} : depth'[d] = depth[d]
    <3>1. depth' = [depth EXCEPT ![c] = @ - 1]
      BY <1>1, IrqLeaveInv
    <3> QED BY <1>1, <3>1 DEF IInv, TypeOK
  <2>2. ullPortSchedularRunning' => at'[Primary] # "boot"
    BY <1>2, A53SchedAssumption DEF IInv, TypeOK, Stages
  <2>3. at'[c] = "pick" /\ masked'[c] /\ ~ullPortYieldRequired'[c]
    BY <1>2 DEF IInv, TypeOK
  <2>4. \A d \in Cores \ {c} :
          /\ at'[d] = at[d] /\ masked'[d] = masked[d]
          /\ ullPortYieldRequired'[d] = ullPortYieldRequired[d]
    BY <1>2 DEF IInv, TypeOK
  <2> QED BY <1>1, <1>2, <2>1, <2>2, <2>3, <2>4 DEF IInv, Stages, Started
<1>6. OneCore'
  BY <1>2 DEF IInv, OneCore
<1> QED BY <1>3, <1>4, <1>5, <1>6 DEF IInv

LEMMA TaskStepInv ==
  ASSUME NEW c \in Cores, IInv,
         UsesFPUCore(c) \/ UsesFPUFlag(c) \/ Compute(c) \/ TaskYieldsCore(c)
  PROVE  IInv'
<1>1. /\ at[c] = "run"
      /\ UNCHANGED <<ullPortSchedularRunning, ullPortYieldRequired, isrVars, at,
                     masked, taskVars>>
  BY A53SchedAssumption DEF UsesFPUCore, UsesFPUFlag, Compute, TaskYieldsCore,
     TaskStep, AtTaskLevel
<1>2. cpu[c] \in Tasks /\ core[cpu[c]] \in Cores
  BY <1>1, RunningStarted DEF IInv, TypeOK
<1>3. /\ ullPortTaskHasFPUContext' \in [Cores -> BOOLEAN]
      /\ fpu' \in [Cores -> Tasks \cup {NoData}]
  BY <1>2 DEF IInv, TypeOK, UsesFPUCore, UsesFPUFlag, Compute, TaskYieldsCore,
     fpuVars
<1>4. /\ step' \in [Tasks -> {"new", "called", "registered", "computing"}]
      /\ core' \in [Tasks -> Cores]
      /\ astray' \subseteq Tasks
  <2>1. CASE UsesFPUCore(c)
    BY <1>2, <2>1 DEF IInv, TypeOK, UsesFPUCore, TaskStep
  <2>2. CASE UsesFPUFlag(c)
    BY <1>2, <2>2, A53SchedAssumption DEF IInv, TypeOK, UsesFPUFlag, TaskStep
  <2>3. CASE Compute(c)
    BY <1>2, <2>3 DEF IInv, TypeOK, Compute, TaskStep
  <2>4. CASE TaskYieldsCore(c)
    BY <2>4 DEF IInv, TypeOK, TaskYieldsCore, progVars
  <2> QED BY <2>1, <2>2, <2>3, <2>4
<1>5. sgi' \in [Cores -> BOOLEAN]
  BY DEF IInv, TypeOK, UsesFPUCore, UsesFPUFlag, Compute, TaskYieldsCore, TaskStep,
     SignalCore
<1>6. TypeOK'
  BY <1>1, <1>3, <1>4, <1>5 DEF IInv, TypeOK, isrVars, taskVars
<1>7. Nesting' /\ OneCore' /\ ContextsIntact'
  BY <1>1 DEF IInv, Nesting, OneCore, ContextsIntact, Started, isrVars, taskVars
<1>8. Stages'
  BY <1>1 DEF IInv, TypeOK, Stages, Started, isrVars, taskVars
<1> QED BY <1>6, <1>7, <1>8 DEF IInv

LEMMA StepInv == IInv /\ [Next]_vars => IInv'
<1> SUFFICES ASSUME IInv, [Next]_vars PROVE IInv'
  OBVIOUS
<1>1. CASE UNCHANGED vars
  BY <1>1 DEF vars, IInv, TypeOK, Nesting, Stages, OneCore, ContextsIntact, Started
<1>2. ASSUME NEW c \in Cores, xPortStartScheduler(c) \/ Yield(c)
                              \/ vTaskSwitchContext(c) \/ RestoreContext(c)
      PROVE  IInv'
  BY <1>2, StartSchedulerInv, YieldInv, SwitchContextInv, RestoreContextInv
<1>3. ASSUME NEW c \in Cores, NEW isr \in Kinds, IrqEnter(c, isr) PROVE IInv'
  BY <1>3, IrqEnterInv
<1>4. ASSUME NEW c \in Cores,
             \/ vPortTimerTickHandler(c) \/ YieldHandler(c) \/ EndSwitchingISR(c)
             \/ IrqResume(c) \/ IrqSwitch(c)
      PROVE  IInv'
  BY <1>4, HandlersInv, IrqResumeInv, IrqSwitchInv
<1>5. ASSUME NEW c \in Cores, UsesFPUCore(c) \/ UsesFPUFlag(c) \/ Compute(c)
                              \/ TaskYieldsCore(c)
      PROVE  IInv'
  BY <1>5, TaskStepInv
<1> QED BY <1>1, <1>2, <1>3, <1>4, <1>5 DEF Next

LEMMA Inductive == Spec => []IInv
BY InitInv, StepInv, PTL DEF Spec

LEMMA InvSwitchSafe == IInv => SwitchSafe
BY DEF IInv, TypeOK, Nesting, Stages, SwitchSafe

\* A core switches context only outside its handlers, with the nesting count
\* at 0, and never away from its start-up code.
THEOREM A53SwitchSafe == Spec => []SwitchSafe
BY Inductive, InvSwitchSafe, PTL

\* Every task resumes from its own, latest context, on whichever core the
\* kernel next runs it.
THEOREM A53ContextsIntact == Spec => []ContextsIntact
<1>1. IInv => ContextsIntact
  BY DEF IInv
<1> QED BY <1>1, Inductive, PTL

-----------------------------------------------------------------------------
LEMMA OneRunner ==
  ASSUME IInv, NEW c \in Cores, NEW d \in Cores, NEW t \in Tasks,
         Running(c, t), Running(d, t)
  PROVE  c = d
BY DEF IInv, ContextsIntact, OneCore, Running

\* Steps that move neither contexts nor what tasks know.
LEMMA StaysFpu ==
  ASSUME FpuFollows, UNCHANGED <<step, astray, ullPortTaskHasFPUContext, fpu, context>>,
         \A d \in Cores, t \in Tasks : Running(d, t)' <=> Running(d, t)
  PROVE  FpuFollows'
BY DEF FpuFollows, Registered, Computing

LEMMA SaveFpu ==
  ASSUME NEW c \in Cores, IInv, FpuFollows, at[c] = "run",
         Save(c), at' = [at EXCEPT ![c] = "pick"],
         UNCHANGED <<step, astray, ullPortTaskHasFPUContext, fpu, cpu>>
  PROVE  FpuFollows'
<1> DEFINE u == cpu[c]
<1>1. u \in Tasks /\ u = pxCurrentTCBs[c] /\ Running(c, u)
  BY RunningStarted DEF Running
<1>2. \A d \in Cores, t \in Tasks : Running(d, t)' <=> Running(d, t) /\ d # c
  BY DEF IInv, TypeOK, Running
<1>3. /\ \A t \in Tasks \ {u} : context'[t] = context[t]
      /\ context'[u].flag = ullPortTaskHasFPUContext[c]
      /\ ullPortTaskHasFPUContext[c] => context'[u].fpu = fpu[c]
  BY <1>1 DEF Save, IInv, TypeOK
<1> HIDE DEF u
<1>4. \A t \in Tasks : /\ Registered(t)' <=> Registered(t)
                       /\ Computing(t)' <=> Computing(t)
                       /\ Computing(t) => Registered(t)
  BY DEF Registered, Computing
<1>5. ASSUME NEW t \in Tasks, context'[t].of = t
      PROVE  /\ Registered(t) => context'[t].flag
             /\ Computing(t) => context'[t].fpu = t
  BY <1>1, <1>3, <1>4, <1>5 DEF FpuFollows, Registered, Computing
<1>6. ASSUME NEW d \in Cores, NEW t \in Tasks, Running(d, t)'
      PROVE  t # u /\ Running(d, t)
  BY <1>1, <1>2, <1>6, OneRunner
<1> QED BY <1>3, <1>4, <1>5, <1>6 DEF FpuFollows, Registered, Computing

LEMMA RestoreFpu ==
  ASSUME NEW c \in Cores, IInv, FpuFollows, RestoreContext(c)
  PROVE  FpuFollows'
<1> DEFINE u == pxCurrentTCBs[c]
<1>1. u \in Tasks /\ context[u].of = u
  BY ReadyContext DEF IInv, TypeOK, RestoreContext
<1>2. /\ at[c] = "restore" /\ at' = [at EXCEPT ![c] = "run"]
      /\ cpu' = [cpu EXCEPT ![c] = u]
      /\ context' = [context EXCEPT ![u] = Dead]
      /\ ullPortTaskHasFPUContext' =
           [ullPortTaskHasFPUContext EXCEPT ![c] = context[u].flag]
      /\ fpu' = [fpu EXCEPT ![c] = IF context[u].flag THEN context[u].fpu ELSE @]
      /\ UNCHANGED <<step, astray>>
  BY <1>1 DEF RestoreContext, progVars
<1>3. \A t \in Tasks : /\ Registered(t)' <=> Registered(t)
                       /\ Computing(t)' <=> Computing(t)
                       /\ Computing(t) => Registered(t)
  BY <1>2 DEF Registered, Computing
<1>4. /\ Registered(u) => context[u].flag
      /\ Computing(u) => context[u].flag /\ context[u].fpu = u
  BY <1>1, <1>3 DEF FpuFollows, Registered, Computing
<1> HIDE DEF u
<1>5. \A d \in Cores, t \in Tasks :
        Running(d, t)' <=> IF d = c THEN t = u ELSE Running(d, t)
  BY <1>2 DEF IInv, TypeOK, Running
<1>6. ASSUME NEW t \in Tasks, context'[t].of = t
      PROVE  t # u /\ context'[t] = context[t]
  BY <1>1, <1>2, <1>6, A53SchedAssumption DEF IInv, TypeOK, Dead
<1>7. ASSUME NEW d \in Cores, NEW t \in Tasks, Running(d, t)'
      PROVE  /\ context'[t].of # t
             /\ Registered(t) => ullPortTaskHasFPUContext'[d]
             /\ Computing(t) => fpu'[d] = t
  <2>1. CASE d = c
    BY <1>2, <1>4, <1>5, <1>6, <1>7, <2>1 DEF IInv, TypeOK
  <2>2. CASE d # c
    <3>1. Running(d, t) /\ fpu'[d] = fpu[d]
          /\ ullPortTaskHasFPUContext'[d] = ullPortTaskHasFPUContext[d]
      BY <1>2, <1>5, <1>7, <2>2 DEF IInv, TypeOK
    <3> QED BY <1>6, <3>1 DEF FpuFollows, Registered, Computing
  <2> QED BY <2>1, <2>2
<1> QED BY <1>3, <1>6, <1>7 DEF FpuFollows, Registered, Computing

LEMMA UsesFPUCoreFpu ==
  ASSUME NEW c \in Cores, IInv, FpuFollows, UsesFPUCore(c)
  PROVE  FpuFollows'
<1>1. cpu[c] \in Tasks /\ step' = [step EXCEPT ![cpu[c]] = "called"]
      /\ UNCHANGED <<astray, ullPortTaskHasFPUContext, fpu, at, cpu, context>>
  BY RunningStarted DEF UsesFPUCore, TaskStep, AtTaskLevel, fpuVars, taskVars
<1>2. \A t \in Tasks : step'[t] = IF t = cpu[c] THEN "called" ELSE step[t]
  BY <1>1 DEF IInv, TypeOK
<1>3. \A t \in Tasks : (Registered(t)' => Registered(t)) /\ (Computing(t)' => Computing(t))
  BY <1>1, <1>2 DEF Registered, Computing
<1>4. \A d \in Cores, t \in Tasks : Running(d, t)' <=> Running(d, t)
  BY <1>1 DEF Running
<1> QED BY <1>1, <1>3, <1>4 DEF FpuFollows, Registered, Computing

\* The flag is set for the core whose id was read.  If that is not the core of
\* the task, the task is astray; a flag that is set for another does no harm.
LEMMA UsesFPUFlagFpu ==
  ASSUME NEW c \in Cores, IInv, FpuFollows, UsesFPUFlag(c)
  PROVE  FpuFollows'
<1> DEFINE u == cpu[c]
<1>1. u \in Tasks /\ Running(c, u) /\ core[u] \in Cores
  BY RunningStarted DEF UsesFPUFlag, TaskStep, AtTaskLevel, Running, IInv, TypeOK
<1>2. /\ step' = [step EXCEPT ![u] = "registered"]
      /\ astray' = IF core[u] = c THEN astray ELSE astray \cup {u}
      /\ ullPortTaskHasFPUContext' = [ullPortTaskHasFPUContext EXCEPT ![core[u]] = TRUE]
      /\ UNCHANGED <<fpu, at, cpu, context>>
  BY DEF UsesFPUFlag, TaskStep, taskVars
<1> HIDE DEF u
<1>3. \A d \in Cores, t \in Tasks : Running(d, t)' <=> Running(d, t)
  BY <1>2 DEF Running
<1>4. /\ \A d \in Cores : ullPortTaskHasFPUContext[d] => ullPortTaskHasFPUContext'[d]
      /\ core[u] = c => ullPortTaskHasFPUContext'[c]
  BY <1>1, <1>2 DEF IInv, TypeOK
<1>5. \A t \in Tasks \ {u} : /\ Registered(t)' <=> Registered(t)
                             /\ Computing(t)' <=> Computing(t)
  <2>1. \A t \in Tasks \ {u} : step'[t] = step[t] /\ (t \in astray' <=> t \in astray)
    BY <1>2 DEF IInv, TypeOK
  <2> QED BY <2>1 DEF Registered, Computing
<1>6. \A t \in Tasks : t = u => ~Computing(t)' /\ (Registered(t)' => core[u] = c)
  <2>1. step'[u] = "registered" /\ (core[u] # c => u \in astray')
    BY <1>1, <1>2 DEF IInv, TypeOK
  <2> QED BY <2>1 DEF Registered, Computing
<1>7. context[u].of # u
  BY <1>1 DEF FpuFollows, Registered, Computing
<1>8. ASSUME NEW d \in Cores, Running(d, u) PROVE d = c
  BY <1>1, <1>8, OneRunner
<1>9. ASSUME NEW t \in Tasks, context[t].of = t
      PROVE  /\ Registered(t)' => context[t].flag
             /\ Computing(t)' => context[t].fpu = t
  BY <1>5, <1>7, <1>9 DEF FpuFollows, Registered, Computing
<1>10. ASSUME NEW d \in Cores, NEW t \in Tasks, Running(d, t)
       PROVE  /\ context[t].of # t
              /\ Registered(t)' => ullPortTaskHasFPUContext'[d]
              /\ Computing(t)' => fpu[d] = t
  <2>1. CASE t = u
    BY <1>4, <1>6, <1>7, <1>8, <1>10, <2>1
  <2>2. CASE t # u
    BY <1>4, <1>5, <1>10, <2>2 DEF FpuFollows, Registered, Computing
  <2> QED BY <2>1, <2>2
<1> QED BY <1>2, <1>3, <1>9, <1>10 DEF FpuFollows, Registered, Computing

LEMMA ComputeFpu ==
  ASSUME NEW c \in Cores, IInv, FpuFollows, Compute(c)
  PROVE  FpuFollows'
<1> DEFINE u == cpu[c]
<1>1. u \in Tasks /\ Running(c, u) /\ step[u] = "registered"
  BY RunningStarted DEF Compute, TaskStep, AtTaskLevel, Running
<1>2. /\ step' = [step EXCEPT ![u] = "computing"]
      /\ fpu' = [fpu EXCEPT ![c] = u]
      /\ UNCHANGED <<ullPortTaskHasFPUContext, astray, at, cpu, context>>
  BY DEF Compute, TaskStep, taskVars
<1> HIDE DEF u
<1>3. \A d \in Cores, t \in Tasks : Running(d, t)' <=> Running(d, t)
  BY <1>2 DEF Running
<1>4. /\ \A t \in Tasks : Registered(t)' => Registered(t)
      /\ \A t \in Tasks \ {u} : Computing(t)' => Computing(t)
      /\ fpu'[c] = u /\ \A d \in Cores \ {c} : fpu'[d] = fpu[d]
  BY <1>1, <1>2 DEF IInv, TypeOK, Registered, Computing
<1>5. context[u].of # u
  BY <1>1 DEF FpuFollows, Registered, Computing
<1>6. ASSUME NEW d \in Cores, NEW t \in Tasks, Running(d, t)
      PROVE  d = c <=> t = u
  BY <1>1, <1>6, OneRunner DEF Running
<1> QED BY <1>2, <1>3, <1>4, <1>5, <1>6 DEF FpuFollows, Registered, Computing

LEMMA StepFpu == FpuInv /\ [Next]_vars => FpuInv'
<1> SUFFICES ASSUME IInv, FpuFollows, [Next]_vars PROVE FpuFollows'
  BY StepInv DEF FpuInv
<1>1. CASE UNCHANGED vars
  BY <1>1, StaysFpu DEF vars, Running
<1>2. ASSUME NEW c \in Cores, xPortStartScheduler(c) \/ vTaskSwitchContext(c)
      PROVE  FpuFollows'
  <2>1. \A d \in Cores, t \in Tasks : Running(d, t)' <=> Running(d, t)
    BY <1>2 DEF xPortStartScheduler, vTaskSwitchContext, AtTaskLevel, IInv, TypeOK, Running,
       taskVars
  <2> QED BY <1>2, <2>1, StaysFpu DEF xPortStartScheduler, vTaskSwitchContext, fpuVars,
          taskVars, progVars
<1>3. ASSUME NEW c \in Cores, Yield(c) PROVE FpuFollows'
  BY <1>3, SaveFpu DEF Yield, AtTaskLevel, fpuVars, progVars
<1>4. ASSUME NEW c \in Cores, RestoreContext(c) PROVE FpuFollows'
  BY <1>4, RestoreFpu
<1>5. ASSUME NEW c \in Cores,
             \/ \E isr \in Kinds : IrqEnter(c, isr)
             \/ vPortTimerTickHandler(c) \/ YieldHandler(c) \/ EndSwitchingISR(c)
             \/ IrqResume(c) \/ TaskYieldsCore(c)
      PROVE  FpuFollows'
  <2>1. UNCHANGED <<at, fpuVars, taskVars, progVars>>
    BY <1>5 DEF IrqEnter, vPortTimerTickHandler, YieldHandler, EndSwitchingISR, Handler,
       IrqResume, TaskYieldsCore
  <2> QED BY <2>1, StaysFpu DEF Running, fpuVars, taskVars, progVars
<1>6. ASSUME NEW c \in Cores, IrqSwitch(c) PROVE FpuFollows'
  BY <1>6, SwitchesTask, SaveFpu DEF IrqSwitch, fpuVars, progVars
<1>7. ASSUME NEW c \in Cores, UsesFPUCore(c) \/ UsesFPUFlag(c) \/ Compute(c)
      PROVE  FpuFollows'
  BY <1>7, UsesFPUCoreFpu, UsesFPUFlagFpu, ComputeFpu
<1> QED BY <1>1, <1>2, <1>3, <1>4, <1>5, <1>6, <1>7 DEF Next

LEMMA InitFpu == Init => FpuInv
<1>1. Init => FpuFollows
  BY A53SchedAssumption DEF Init, FpuFollows, Registered, Computing, Running
<1> QED BY <1>1, InitInv DEF FpuInv

LEMMA InvFpuContextKept == FpuInv => FPUContextKept
BY RunningStarted DEF FpuInv, FpuFollows, FPUContextKept, Computing, Running

\* A task keeps its values in the FPU registers, however it is switched and moved
\* between cores, and whatever tasks are moved inside vPortTaskUsesFPU: such a
\* task alone loses its own (port.c:260-268, portASM.S:180-296).
THEOREM A53FPUContextKept == Spec => []FPUContextKept
<1>1. FpuInv /\ [Next]_vars => FpuInv'
  BY StepFpu
<1> QED BY <1>1, InitFpu, InvFpuContextKept, PTL DEF Spec
=============================================================================
