---------------------------- MODULE XtIdmaProofs ----------------------------
(***************************************************************************)
(* The C library's lock and the iDMA buffers on Xtensa, for any tasks,     *)
(* cores, heap and slots: the break is handed out once, and tasks find     *)
(* their buffers and the ends of their transfers.                          *)
(*                                                                         *)
(* What a task has left to do says what it holds.  The first layer is      *)
(* about the plans of tasks, the lock and the heap, the second about the   *)
(* mutex and the slots.                                                    *)
(***************************************************************************)
EXTENDS XtIdma, FiniteSetTheorems, SequenceTheorems, WellFoundedInduction, TLAPS

-----------------------------------------------------------------------------
(* What a task has left to do                                              *)

Setenv == <<"take", "take", "base", "advance", "unlock", "unlock">>
Malloc == <<"suspend", "take", "base", "advance", "unlock", "resume">>
SetBuffer == <<"create", "mutex", "mask", "find", "fill", "unmask", "give">>
SetFirst ==
  <<"suspend", "take", "base", "advance", "unlock", "resume",
    "created", "mutex", "mask", "find", "fill", "unmask", "give">>
SetNew ==
  <<"suspend", "take", "base", "advance", "unlock", "resume",
    "sem", "unmask", "give">>
ClearBuffer == <<"mutex", "mask", "clear", "unmask", "give">>
ClearLast == <<"unmask", "give", "suspend", "take", "unlock", "resume">>

Wholes == {Setenv, Malloc, SetBuffer, SetFirst, SetNew, ClearBuffer, ClearLast}

\* w without its first n steps.
Rest(w, n) == [i \in 1 .. Len(w) - n |-> w[n + i]]

Plans == UNION {{Rest(w, n) : n \in 0 .. Len(w)} : w \in Wholes}

\* Step s is left in plan p.
Left(p, s) == \E i \in 1 .. Len(p) : p[i] = s

\* How often the lock is held with p left.  setenv alone ends with an unlock.
Depth(p) ==
  IF p # <<>> /\ p[Len(p)] = "unlock"
  THEN IF Len(p) = 6 THEN 0 ELSE IF Len(p) \in {1, 5} THEN 1 ELSE 2
  ELSE IF Left(p, "unlock") /\ ~Left(p, "take") THEN 1 ELSE 0

-----------------------------------------------------------------------------
(* The lock and the heap                                                   *)

LockTypes ==
  /\ todo \in [Tasks -> Plans]
  /\ ulClibInitDone \in BOOLEAN
  /\ clib \in [owner : Tasks \cup {None}, count : Nat]
  /\ heap_ptr \in Nat
  /\ DOMAIN base = Tasks
  /\ \A b \in blocks : b \in [from : Nat, to : Nat]

\* The owner, and nobody else, is between a take and its unlock; and the break
\* that the owner has read is that of the heap.
Locked ==
  /\ clib.owner = None => clib.count = 0
  /\ \A t \in Tasks :
       /\ clib.owner = t <=> Depth(todo[t]) > 0
       /\ clib.owner = t => clib.count = Depth(todo[t])
       /\ todo[t] # <<>> /\ Head(todo[t]) = "advance" => base[t] = heap_ptr
       /\ ~ulClibInitDone => todo[t] = <<>>

Covers(b, x) == b.from <= x /\ x < b.to

Tiled ==
  /\ \A b \in blocks : b.to <= heap_ptr
  /\ \A x \in 0 .. heap_ptr - 1 :
       /\ \E b \in blocks : Covers(b, x)
       /\ \A b, d \in blocks : Covers(b, x) /\ Covers(d, x) => b = d

LockInv == LockTypes /\ Locked /\ Tiled

-----------------------------------------------------------------------------
(* The mutex and the slots                                                 *)

\* The steps that say what a task holds of the mutex and the slots, and those of
\* them that are left in plan p.
Marks == {"created", "mutex", "find", "fill", "sem", "clear", "give"}
Ahead(p) == {s \in Marks : Left(p, s)}

Has(t, s) == s \in Ahead(todo[t])

\* Task t is in a call of idma_chan_buf_set or idma_chan_buf_clear.
InCall(t) == Has(t, "give")
HasMutex(t) == InCall(t) /\ ~Has(t, "mutex")

\* While the mutex is created once at most, it belongs to the task inside it.
\* Several tasks may have found none, and be about to create it.
MutexInv ==
  /\ mutexes = <<>> \/ \E u \in Tasks \cup {None} : mutexes = <<u>>
  /\ \A t \in Tasks :
       /\ HasMutex(t) => mutexes = <<t>>
       /\ mutexes = <<t>> => HasMutex(t)
       /\ mutexes = <<>> => set[t] = NoBuffers
       /\ arg[t] # NoArg <=> InCall(t)

SlotTypes ==
  /\ slots \in [Slots -> [thread : Tasks \cup {None},
                          bufs : [Channels -> Buffers \cup {None}],
                          sem : {0, 1, None}]]
  /\ set \in [Tasks -> [Channels -> Buffers \cup {None}]]
  /\ arg \in [Tasks -> [ch : Channels \cup {None}, buf : Buffers \cup {None},
                        slot : Slots \cup {0}]]
  /\ busy \subseteq Tasks /\ woken \subseteq Tasks

\* Slot i is t's.
Is(i, t) == slots[i].thread = t

\* A task that has set buffers has one slot, with these buffers.
SlotInv ==
  /\ \A i \in Slots :
       /\ Is(i, None) => slots[i].bufs = NoBuffers
       /\ \A t \in Tasks : Is(i, t) =>
            /\ \A j \in Slots : Is(j, t) => j = i
            /\ slots[i].bufs = set[t] /\ set[t] # NoBuffers
  /\ \A t \in Tasks : set[t] # NoBuffers => \E i \in Slots : Is(i, t)

\* What a call has found, and whose transfers go on.
CallInv(t) ==
  /\ InCall(t) => arg[t].ch \in Channels
  /\ Has(t, "fill") => arg[t].buf \in Buffers
  /\ Has(t, "fill") /\ ~Has(t, "find") =>
       /\ arg[t].slot \in Slots
       /\ Is(arg[t].slot, None) \/ Is(arg[t].slot, t)
       /\ \A i \in Slots : Is(i, t) => i = arg[t].slot
  /\ Has(t, "sem") => arg[t].slot \in Slots /\ Is(arg[t].slot, t)
  /\ t \in busy => set[t] # NoBuffers /\ ~Has(t, "clear") /\ ~Has(t, "sem")
  /\ t \in woken => ~Has(t, "sem") /\ \E i \in Slots : Is(i, t) /\ slots[i].sem = 1

IdmaInv ==
  /\ LockInv /\ MutexInv /\ SlotTypes /\ SlotInv
  /\ \A t \in Tasks : CallInv(t)

\* A second mutex has been created: there is no first one again.
Several == mutexes \in Seq(Tasks \cup {None}) /\ Twice

Kept == LockInv /\ (Several \/ IdmaInv)
-----------------------------------------------------------------------------
(* Plans                                                                   *)

\* Step s comes once in w, at k, or never, when k = 0.
Only(w, s, k) == \A i \in 1 .. Len(w) : w[i] = s <=> i = k

LEMMA RestAt ==
  ASSUME NEW w \in Seq(Steps), NEW n \in 0 .. Len(w)
  PROVE  /\ Rest(w, n) \in Seq(Steps) /\ Len(Rest(w, n)) = Len(w) - n
         /\ \A i \in 1 .. Len(w) - n : Rest(w, n)[i] = w[n + i]
BY DEF Rest

LEMMA LeftInRest ==
  ASSUME NEW w \in Seq(Steps), NEW n \in 0 .. Len(w), NEW s
  PROVE  Left(Rest(w, n), s) <=> \E i \in n + 1 .. Len(w) : w[i] = s
<1>1. ASSUME NEW i \in n + 1 .. Len(w), w[i] = s PROVE Left(Rest(w, n), s)
  <2>1. i - n \in 1 .. Len(w) - n /\ Rest(w, n)[i - n] = w[i]
    BY RestAt
  <2>2. QED
    BY <2>1, <1>1, RestAt DEF Left
<1>2. ASSUME Left(Rest(w, n), s) PROVE \E i \in n + 1 .. Len(w) : w[i] = s
  <2>1. PICK i \in 1 .. Len(w) - n : Rest(w, n)[i] = s
    BY <1>2, RestAt DEF Left
  <2>2. n + i \in n + 1 .. Len(w) /\ w[n + i] = s
    BY <2>1, RestAt
  <2>3. QED
    BY <2>2
<1>3. QED
  BY <1>1, <1>2

LEMMA LeftOnly ==
  ASSUME NEW w \in Seq(Steps), NEW n \in 0 .. Len(w), NEW s, NEW k \in 0 .. Len(w),
         Only(w, s, k)
  PROVE  Left(Rest(w, n), s) <=> n < k
<1>1. (\E i \in n + 1 .. Len(w) : w[i] = s) <=> n < k
  BY LenProperties DEF Only
<1> QED
  BY <1>1, LeftInRest

LEMMA TailOfRest ==
  ASSUME NEW w \in Seq(Steps), NEW n \in 0 .. Len(w), Rest(w, n) # <<>>
  PROVE  /\ n + 1 \in 1 .. Len(w)
         /\ Head(Rest(w, n)) = w[n + 1]
         /\ Tail(Rest(w, n)) = Rest(w, n + 1)
<1>1. Len(Rest(w, n)) # 0 /\ n + 1 \in 1 .. Len(w)
  BY RestAt, EmptySeq
<1>2. Head(Rest(w, n)) = w[n + 1]
  BY <1>1, RestAt
<1>3. Tail(Rest(w, n)) = Rest(w, n + 1)
  <2> DEFINE p == Rest(w, n)
             q == Rest(w, n + 1)
  <2>1. p \in Seq(Steps) /\ p # <<>> /\ q \in Seq(Steps)
    BY <1>1, RestAt
  <2>2. /\ Tail(p) \in Seq(Steps) /\ Len(Tail(p)) = Len(q)
    BY <1>1, <2>1, RestAt, HeadTailProperties
  <2>3. ASSUME NEW i \in 1 .. Len(q) PROVE Tail(p)[i] = q[i]
    <3>1. Tail(p)[i] = p[i + 1]
      BY <2>1, <2>2, HeadTailProperties
    <3>2. i \in 1 .. Len(w) - (n + 1) /\ q[i] = w[n + 1 + i]
      BY <1>1, RestAt
    <3>3. i + 1 \in 1 .. Len(w) - n /\ n + (i + 1) = n + 1 + i
      BY <3>2, LenProperties
    <3>4. p[i + 1] = w[n + (i + 1)]
      BY <3>3, RestAt
    <3>5. QED
      BY <3>1, <3>2, <3>3, <3>4
  <2>4. QED
    BY <2>1, <2>2, <2>3, SeqEqual
<1> QED
  BY <1>1, <1>2, <1>3

LEMMA SetenvPlaces ==
  /\ Setenv \in Seq(Steps) /\ Len(Setenv) = 6
  /\ Only(Setenv, "create", 0)
  /\ Only(Setenv, "created", 0) /\ Only(Setenv, "mutex", 0)
  /\ Only(Setenv, "find", 0) /\ Only(Setenv, "fill", 0)
  /\ Only(Setenv, "sem", 0) /\ Only(Setenv, "clear", 0)
  /\ Only(Setenv, "give", 0)
<1>1. Setenv \in Seq(Steps) /\ Len(Setenv) = 6
  BY DEF Setenv, Steps
<1> QED
  BY <1>1 DEF Setenv, Only

LEMMA MallocPlaces ==
  /\ Malloc \in Seq(Steps) /\ Len(Malloc) = 6
  /\ Only(Malloc, "create", 0)
  /\ Only(Malloc, "take", 2) /\ Only(Malloc, "unlock", 5)
  /\ Only(Malloc, "created", 0) /\ Only(Malloc, "mutex", 0)
  /\ Only(Malloc, "find", 0) /\ Only(Malloc, "fill", 0)
  /\ Only(Malloc, "sem", 0) /\ Only(Malloc, "clear", 0)
  /\ Only(Malloc, "give", 0)
<1>1. Malloc \in Seq(Steps) /\ Len(Malloc) = 6
  BY DEF Malloc, Steps
<1> QED
  BY <1>1 DEF Malloc, Only

LEMMA SetBufferPlaces ==
  /\ SetBuffer \in Seq(Steps) /\ Len(SetBuffer) = 7
  /\ Only(SetBuffer, "create", 1)
  /\ Only(SetBuffer, "take", 0) /\ Only(SetBuffer, "unlock", 0)
  /\ Only(SetBuffer, "created", 0) /\ Only(SetBuffer, "mutex", 2)
  /\ Only(SetBuffer, "find", 4) /\ Only(SetBuffer, "fill", 5)
  /\ Only(SetBuffer, "sem", 0) /\ Only(SetBuffer, "clear", 0)
  /\ Only(SetBuffer, "give", 7)
<1>1. SetBuffer \in Seq(Steps) /\ Len(SetBuffer) = 7
  BY DEF SetBuffer, Steps
<1> QED
  BY <1>1 DEF SetBuffer, Only

LEMMA SetFirstPlaces ==
  /\ SetFirst \in Seq(Steps) /\ Len(SetFirst) = 13
  /\ Only(SetFirst, "create", 0)
  /\ Only(SetFirst, "take", 2) /\ Only(SetFirst, "unlock", 5)
  /\ Only(SetFirst, "created", 7) /\ Only(SetFirst, "mutex", 8)
  /\ Only(SetFirst, "find", 10) /\ Only(SetFirst, "fill", 11)
  /\ Only(SetFirst, "sem", 0) /\ Only(SetFirst, "clear", 0)
  /\ Only(SetFirst, "give", 13)
<1>1. SetFirst \in Seq(Steps) /\ Len(SetFirst) = 13
  BY DEF SetFirst, Steps
<1> QED
  BY <1>1 DEF SetFirst, Only

LEMMA SetNewPlaces ==
  /\ SetNew \in Seq(Steps) /\ Len(SetNew) = 9
  /\ Only(SetNew, "create", 0)
  /\ Only(SetNew, "take", 2) /\ Only(SetNew, "unlock", 5)
  /\ Only(SetNew, "created", 0) /\ Only(SetNew, "mutex", 0)
  /\ Only(SetNew, "find", 0) /\ Only(SetNew, "fill", 0)
  /\ Only(SetNew, "sem", 7) /\ Only(SetNew, "clear", 0)
  /\ Only(SetNew, "give", 9)
<1>1. SetNew \in Seq(Steps) /\ Len(SetNew) = 9
  BY DEF SetNew, Steps
<1> QED
  BY <1>1 DEF SetNew, Only

LEMMA ClearBufferPlaces ==
  /\ ClearBuffer \in Seq(Steps) /\ Len(ClearBuffer) = 5
  /\ Only(ClearBuffer, "create", 0)
  /\ Only(ClearBuffer, "take", 0) /\ Only(ClearBuffer, "unlock", 0)
  /\ Only(ClearBuffer, "created", 0) /\ Only(ClearBuffer, "mutex", 1)
  /\ Only(ClearBuffer, "find", 0) /\ Only(ClearBuffer, "fill", 0)
  /\ Only(ClearBuffer, "sem", 0) /\ Only(ClearBuffer, "clear", 3)
  /\ Only(ClearBuffer, "give", 5)
<1>1. ClearBuffer \in Seq(Steps) /\ Len(ClearBuffer) = 5
  BY DEF ClearBuffer, Steps
<1> QED
  BY <1>1 DEF ClearBuffer, Only

LEMMA ClearLastPlaces ==
  /\ ClearLast \in Seq(Steps) /\ Len(ClearLast) = 6
  /\ Only(ClearLast, "create", 0)
  /\ Only(ClearLast, "take", 4) /\ Only(ClearLast, "unlock", 5)
  /\ Only(ClearLast, "created", 0) /\ Only(ClearLast, "mutex", 0)
  /\ Only(ClearLast, "find", 0) /\ Only(ClearLast, "fill", 0)
  /\ Only(ClearLast, "sem", 0) /\ Only(ClearLast, "clear", 0)
  /\ Only(ClearLast, "give", 2)
<1>1. ClearLast \in Seq(Steps) /\ Len(ClearLast) = 6
  BY DEF ClearLast, Steps
<1> QED
  BY <1>1 DEF ClearLast, Only

LEMMA Marked ==
  ASSUME NEW w \in Wholes
  PROVE  /\ w \in Seq(Steps) /\ Len(w) \in Nat
         /\ \A s \in Marks : \E k \in 0 .. Len(w) : Only(w, s, k)
<1> DEFINE Good(v) == /\ v \in Seq(Steps) /\ Len(v) \in Nat
                       /\ \A s \in Marks : \E k \in 0 .. Len(v) : Only(v, s, k)
<1>1. Good(Setenv)
  BY SetenvPlaces DEF Marks
<1>2. Good(Malloc)
  BY MallocPlaces DEF Marks
<1>3. Good(SetBuffer)
  BY SetBufferPlaces DEF Marks
<1>4. Good(SetFirst)
  BY SetFirstPlaces DEF Marks
<1>5. Good(SetNew)
  BY SetNewPlaces DEF Marks
<1>6. Good(ClearBuffer)
  BY ClearBufferPlaces DEF Marks
<1>7. Good(ClearLast)
  BY ClearLastPlaces DEF Marks
<1> QED
  BY <1>1, <1>2, <1>3, <1>4, <1>5, <1>6, <1>7 DEF Wholes

LEMMA PlanSeq ==
  ASSUME NEW p \in Plans PROVE p \in Seq(Steps) /\ Len(p) \in Nat
BY Marked, RestAt, LenProperties DEF Plans

LEMMA LeftHead ==
  ASSUME NEW p \in Plans, p # <<>> PROVE Left(p, Head(p))
<1>1. Len(p) \in Nat \ {0}
  BY PlanSeq, EmptySeq
<1> QED
  BY <1>1, PlanSeq DEF Left

LEMMA TailLeft ==
  ASSUME NEW p \in Plans, p # <<>>
  PROVE  /\ Tail(p) \in Plans
         /\ \A s \in Marks : Left(Tail(p), s) <=> Left(p, s) /\ s # Head(p)
<1>w. PICK w \in Wholes : \E n \in 0 .. Len(w) : p = Rest(w, n)
  BY DEF Plans
<1>1. PICK n \in 0 .. Len(w) : p = Rest(w, n)
  BY <1>w
<1>2. /\ n + 1 \in 1 .. Len(w) /\ n + 1 \in 0 .. Len(w)
      /\ Head(p) = w[n + 1] /\ Tail(p) = Rest(w, n + 1)
  BY <1>1, Marked, TailOfRest
<1>3. Tail(p) \in Plans
  BY <1>2 DEF Plans
<1>4. ASSUME NEW s \in Marks PROVE Left(Tail(p), s) <=> Left(p, s) /\ s # Head(p)
  <2>1. PICK k \in 0 .. Len(w) : Only(w, s, k)
    BY Marked
  <2>2. Left(p, s) <=> n < k
    BY <1>1, <2>1, Marked, LeftOnly
  <2>3. Left(Tail(p), s) <=> n + 1 < k
    BY <1>2, <2>1, Marked, LeftOnly
  <2>4. Head(p) = s <=> n + 1 = k
    BY <1>2, <2>1 DEF Only
  <2>5. QED
    BY <2>2, <2>3, <2>4
<1> QED
  BY <1>3, <1>4

LEMMA EmptyPlan ==
  <<>> \in Plans /\ Depth(<<>>) = 0 /\ \A s : ~Left(<<>>, s)
<1>1. Rest(Malloc, 6) = <<>>
  <2>1. Malloc \in Seq(Steps) /\ 6 \in 0 .. Len(Malloc) /\ Len(Malloc) - 6 = 0
    BY MallocPlaces
  <2>2. Rest(Malloc, 6) \in Seq(Steps) /\ Len(Rest(Malloc, 6)) = 0
    BY <2>1, RestAt
  <2>3. QED
    BY <2>2, EmptySeq
<1>2. <<>> \in Plans
  <2>1. 6 \in 0 .. Len(Malloc) /\ Malloc \in Wholes
    BY MallocPlaces DEF Wholes
  <2>2. QED
    BY <1>1, <2>1 DEF Plans
<1>3. \A s : ~Left(<<>>, s)
  BY DEF Left
<1> QED
  BY <1>2, <1>3 DEF Depth

LEMMA WholePlan == ASSUME NEW w \in Wholes PROVE w \in Plans /\ Rest(w, 0) = w
<1>1. Rest(w, 0) = w
  BY Marked, RestAt, SeqEqual
<1> QED
  BY <1>1, Marked DEF Plans

\* In which order steps are left.
Ordered(p) ==
  /\ Left(p, "created") => Left(p, "mutex")
  /\ Left(p, "mutex") => Left(p, "give") /\ ~Left(p, "sem")
  /\ Left(p, "find") => Left(p, "fill")
  /\ Left(p, "fill") => Left(p, "give") /\ ~Left(p, "clear") /\ ~Left(p, "sem")
  /\ Left(p, "fill") /\ Left(p, "mutex") => Left(p, "find")
  /\ Left(p, "clear") => Left(p, "give") /\ ~Left(p, "sem")
  /\ Left(p, "sem") => Left(p, "give")

\* ... and what the next of them, h, says of the others.
Follows(p, h) ==
  /\ h = "mutex" => ~Left(p, "created")
  /\ h \in {"find", "fill", "clear", "give"} => ~Left(p, "mutex")
  /\ h = "fill" => ~Left(p, "find")

Regular(w) ==
  \A n \in 0 .. Len(w) :
    /\ Ordered(Rest(w, n))
    /\ n < Len(w) => Follows(Rest(w, n), w[n + 1])

LEMMA SetenvRegular == Regular(Setenv)
<1> SUFFICES ASSUME NEW n \in 0 .. Len(Setenv)
             PROVE  /\ Ordered(Rest(Setenv, n))
                    /\ n < Len(Setenv) => Follows(Rest(Setenv, n), Setenv[n + 1])
  BY DEF Regular
<1>1. \A s : \A k \in 0 .. Len(Setenv) :
        Only(Setenv, s, k) => (Left(Rest(Setenv, n), s) <=> n < k)
  BY SetenvPlaces, LeftOnly
<1>2. Ordered(Rest(Setenv, n))
  BY <1>1, SetenvPlaces DEF Ordered
<1>3. \A s : \A k \in 0 .. Len(Setenv) :
        n < Len(Setenv) /\ Only(Setenv, s, k) => (Setenv[n + 1] = s <=> n + 1 = k)
  BY SetenvPlaces DEF Only
<1>4. n < Len(Setenv) => Follows(Rest(Setenv, n), Setenv[n + 1])
  BY <1>1, <1>3, SetenvPlaces DEF Follows
<1> QED
  BY <1>2, <1>4

LEMMA MallocRegular == Regular(Malloc)
<1> SUFFICES ASSUME NEW n \in 0 .. Len(Malloc)
             PROVE  /\ Ordered(Rest(Malloc, n))
                    /\ n < Len(Malloc) => Follows(Rest(Malloc, n), Malloc[n + 1])
  BY DEF Regular
<1>1. \A s : \A k \in 0 .. Len(Malloc) :
        Only(Malloc, s, k) => (Left(Rest(Malloc, n), s) <=> n < k)
  BY MallocPlaces, LeftOnly
<1>2. Ordered(Rest(Malloc, n))
  BY <1>1, MallocPlaces DEF Ordered
<1>3. \A s : \A k \in 0 .. Len(Malloc) :
        n < Len(Malloc) /\ Only(Malloc, s, k) => (Malloc[n + 1] = s <=> n + 1 = k)
  BY MallocPlaces DEF Only
<1>4. n < Len(Malloc) => Follows(Rest(Malloc, n), Malloc[n + 1])
  BY <1>1, <1>3, MallocPlaces DEF Follows
<1> QED
  BY <1>2, <1>4

LEMMA SetBufferRegular == Regular(SetBuffer)
<1> SUFFICES ASSUME NEW n \in 0 .. Len(SetBuffer)
             PROVE  /\ Ordered(Rest(SetBuffer, n))
                    /\ n < Len(SetBuffer) => Follows(Rest(SetBuffer, n), SetBuffer[n + 1])
  BY DEF Regular
<1>1. \A s : \A k \in 0 .. Len(SetBuffer) :
        Only(SetBuffer, s, k) => (Left(Rest(SetBuffer, n), s) <=> n < k)
  BY SetBufferPlaces, LeftOnly
<1>2. Ordered(Rest(SetBuffer, n))
  BY <1>1, SetBufferPlaces DEF Ordered
<1>3. \A s : \A k \in 0 .. Len(SetBuffer) :
        n < Len(SetBuffer) /\ Only(SetBuffer, s, k) => (SetBuffer[n + 1] = s <=> n + 1 = k)
  BY SetBufferPlaces DEF Only
<1>4. n < Len(SetBuffer) => Follows(Rest(SetBuffer, n), SetBuffer[n + 1])
  BY <1>1, <1>3, SetBufferPlaces DEF Follows
<1> QED
  BY <1>2, <1>4

LEMMA SetFirstRegular == Regular(SetFirst)
<1> SUFFICES ASSUME NEW n \in 0 .. Len(SetFirst)
             PROVE  /\ Ordered(Rest(SetFirst, n))
                    /\ n < Len(SetFirst) => Follows(Rest(SetFirst, n), SetFirst[n + 1])
  BY DEF Regular
<1>1. \A s : \A k \in 0 .. Len(SetFirst) :
        Only(SetFirst, s, k) => (Left(Rest(SetFirst, n), s) <=> n < k)
  BY SetFirstPlaces, LeftOnly
<1>2. Ordered(Rest(SetFirst, n))
  BY <1>1, SetFirstPlaces DEF Ordered
<1>3. \A s : \A k \in 0 .. Len(SetFirst) :
        n < Len(SetFirst) /\ Only(SetFirst, s, k) => (SetFirst[n + 1] = s <=> n + 1 = k)
  BY SetFirstPlaces DEF Only
<1>4. n < Len(SetFirst) => Follows(Rest(SetFirst, n), SetFirst[n + 1])
  BY <1>1, <1>3, SetFirstPlaces DEF Follows
<1> QED
  BY <1>2, <1>4

LEMMA SetNewRegular == Regular(SetNew)
<1> SUFFICES ASSUME NEW n \in 0 .. Len(SetNew)
             PROVE  /\ Ordered(Rest(SetNew, n))
                    /\ n < Len(SetNew) => Follows(Rest(SetNew, n), SetNew[n + 1])
  BY DEF Regular
<1>1. \A s : \A k \in 0 .. Len(SetNew) :
        Only(SetNew, s, k) => (Left(Rest(SetNew, n), s) <=> n < k)
  BY SetNewPlaces, LeftOnly
<1>2. Ordered(Rest(SetNew, n))
  BY <1>1, SetNewPlaces DEF Ordered
<1>3. \A s : \A k \in 0 .. Len(SetNew) :
        n < Len(SetNew) /\ Only(SetNew, s, k) => (SetNew[n + 1] = s <=> n + 1 = k)
  BY SetNewPlaces DEF Only
<1>4. n < Len(SetNew) => Follows(Rest(SetNew, n), SetNew[n + 1])
  BY <1>1, <1>3, SetNewPlaces DEF Follows
<1> QED
  BY <1>2, <1>4

LEMMA ClearBufferRegular == Regular(ClearBuffer)
<1> SUFFICES ASSUME NEW n \in 0 .. Len(ClearBuffer)
             PROVE  /\ Ordered(Rest(ClearBuffer, n))
                    /\ n < Len(ClearBuffer) => Follows(Rest(ClearBuffer, n), ClearBuffer[n + 1])
  BY DEF Regular
<1>1. \A s : \A k \in 0 .. Len(ClearBuffer) :
        Only(ClearBuffer, s, k) => (Left(Rest(ClearBuffer, n), s) <=> n < k)
  BY ClearBufferPlaces, LeftOnly
<1>2. Ordered(Rest(ClearBuffer, n))
  BY <1>1, ClearBufferPlaces DEF Ordered
<1>3. \A s : \A k \in 0 .. Len(ClearBuffer) :
        n < Len(ClearBuffer) /\ Only(ClearBuffer, s, k) => (ClearBuffer[n + 1] = s <=> n + 1 = k)
  BY ClearBufferPlaces DEF Only
<1>4. n < Len(ClearBuffer) => Follows(Rest(ClearBuffer, n), ClearBuffer[n + 1])
  BY <1>1, <1>3, ClearBufferPlaces DEF Follows
<1> QED
  BY <1>2, <1>4

LEMMA ClearLastRegular == Regular(ClearLast)
<1> SUFFICES ASSUME NEW n \in 0 .. Len(ClearLast)
             PROVE  /\ Ordered(Rest(ClearLast, n))
                    /\ n < Len(ClearLast) => Follows(Rest(ClearLast, n), ClearLast[n + 1])
  BY DEF Regular
<1>1. \A s : \A k \in 0 .. Len(ClearLast) :
        Only(ClearLast, s, k) => (Left(Rest(ClearLast, n), s) <=> n < k)
  BY ClearLastPlaces, LeftOnly
<1>2. Ordered(Rest(ClearLast, n))
  BY <1>1, ClearLastPlaces DEF Ordered
<1>3. \A s : \A k \in 0 .. Len(ClearLast) :
        n < Len(ClearLast) /\ Only(ClearLast, s, k) => (ClearLast[n + 1] = s <=> n + 1 = k)
  BY ClearLastPlaces DEF Only
<1>4. n < Len(ClearLast) => Follows(Rest(ClearLast, n), ClearLast[n + 1])
  BY <1>1, <1>3, ClearLastPlaces DEF Follows
<1> QED
  BY <1>2, <1>4


LEMMA PlanOrder ==
  ASSUME NEW p \in Plans PROVE Ordered(p) /\ (p # <<>> => Follows(p, Head(p)))
<1>w. PICK w \in Wholes : \E n \in 0 .. Len(w) : p = Rest(w, n)
  BY DEF Plans
<1>1. PICK n \in 0 .. Len(w) : p = Rest(w, n)
  BY <1>w
<1>2. Regular(w)
  BY SetenvRegular, MallocRegular, SetBufferRegular, SetFirstRegular, SetNewRegular,
     ClearBufferRegular, ClearLastRegular DEF Wholes
<1>3. Ordered(p) /\ (n < Len(w) => Follows(p, w[n + 1]))
  BY <1>1, <1>2 DEF Regular
<1>4. p # <<>> => n < Len(w) /\ Head(p) = w[n + 1]
  BY <1>1, Marked, TailOfRest
<1> QED
  BY <1>3, <1>4

\* Plans that are put in front of what is left.
LEMMA CreatePlan ==
  ASSUME NEW p \in Plans, p # <<>>, Head(p) = "create" PROVE p = SetBuffer
<1>w. PICK w \in Wholes : \E n \in 0 .. Len(w) : p = Rest(w, n)
  BY DEF Plans
<1>1. PICK n \in 0 .. Len(w) : p = Rest(w, n)
  BY <1>w
<1>2. n + 1 \in 1 .. Len(w) /\ w[n + 1] = "create"
  BY <1>1, Marked, TailOfRest
<1>3. ~Only(w, "create", 0)
  BY <1>2 DEF Only
<1>4. w = SetBuffer
  BY <1>3, SetenvPlaces, MallocPlaces, SetFirstPlaces, SetNewPlaces, ClearBufferPlaces,
     ClearLastPlaces DEF Wholes
<1>5. n = 0
  <2>1. n + 1 = 1
    BY <1>2, <1>4, SetBufferPlaces DEF Only
  <2>2. QED
    BY <2>1
<1> QED
  BY <1>1, <1>4, <1>5, WholePlan

LEMMA ClosingPlan ==
  ASSUME NEW p \in Plans, p # <<>>, Head(p) \in {"fill", "clear"}
  PROVE  Tail(p) = <<"unmask", "give">>
<1>w. PICK w \in Wholes : \E n \in 0 .. Len(w) : p = Rest(w, n)
  BY DEF Plans
<1>1. PICK n \in 0 .. Len(w) : p = Rest(w, n)
  BY <1>w
<1>2. n + 1 \in 1 .. Len(w) /\ w[n + 1] \in {"fill", "clear"} /\ Tail(p) = Rest(w, n + 1)
  BY <1>1, Marked, TailOfRest
<1> DEFINE Closing(v, k) == Len(v) = k + 3 /\ v[k + 2] = "unmask" /\ v[k + 3] = "give"
<1>3. Closing(w, n)
  <2>1. ~Only(w, "fill", 0) \/ ~Only(w, "clear", 0)
    BY <1>2 DEF Only
  <2>2. CASE w = SetBuffer
    <3>1. n + 1 = 5
      BY <1>2, <2>2, SetBufferPlaces DEF Only
    <3>2. QED
      BY <2>2, <3>1, SetBufferPlaces DEF SetBuffer
  <2>3. CASE w = SetFirst
    <3>1. n + 1 = 11
      BY <1>2, <2>3, SetFirstPlaces DEF Only
    <3>2. QED
      BY <2>3, <3>1, SetFirstPlaces DEF SetFirst
  <2>4. CASE w = ClearBuffer
    <3>1. n + 1 = 3
      BY <1>2, <2>4, ClearBufferPlaces DEF Only
    <3>2. QED
      BY <2>4, <3>1, ClearBufferPlaces DEF ClearBuffer
  <2>5. QED
    BY <2>1, <2>2, <2>3, <2>4, SetenvPlaces, MallocPlaces, SetNewPlaces, ClearLastPlaces
    DEF Wholes
<1>4. n + 1 \in 0 .. Len(w) /\ w \in Seq(Steps)
  BY <1>2, Marked
<1>5. /\ Tail(p) \in Seq(Steps) /\ Len(Tail(p)) = 2
      /\ Tail(p)[1] = "unmask" /\ Tail(p)[2] = "give"
  <2> DEFINE m == n + 1
  <2>1. Len(w) - m = 2 /\ w[m + 1] = "unmask" /\ w[m + 2] = "give"
    BY <1>3
  <2>2. Rest(w, m) \in Seq(Steps) /\ Len(Rest(w, m)) = Len(w) - m
    BY <1>4, RestAt
  <2>3. \A i \in 1 .. Len(w) - m : Rest(w, m)[i] = w[m + i]
    BY <1>4, RestAt
  <2>4. Rest(w, m)[1] = w[m + 1] /\ Rest(w, m)[2] = w[m + 2]
    BY <2>1, <2>3
  <2> HIDE DEF m
  <2>5. QED
    BY <1>2, <2>1, <2>2, <2>4 DEF m
<1>6. /\ <<"unmask", "give">> \in Seq(Steps) /\ Len(<<"unmask", "give">>) = 2
      /\ <<"unmask", "give">>[1] = "unmask" /\ <<"unmask", "give">>[2] = "give"
  BY DEF Steps
<1>7. ASSUME NEW i \in 1 .. Len(Tail(p)) PROVE Tail(p)[i] = <<"unmask", "give">>[i]
  <2>1. i \in 1 .. 2
    BY <1>5
  <2>2. i = 1 \/ i = 2
    BY <2>1
  <2>3. QED
    BY <1>5, <1>6, <2>2
<1> QED
  BY <1>5, <1>6, <1>7, SeqEqual

-----------------------------------------------------------------------------
(* How often the lock is held                                              *)

\* w takes the lock once, or not at all, and then the break in between.
LocksOnce(w) ==
  /\ Len(w) > 0 /\ w[Len(w)] # "unlock"
  /\ \E a, b \in 0 .. Len(w) :
       /\ Only(w, "take", a) /\ Only(w, "unlock", b)
       /\ (0 < a /\ a < b) \/ (a = 0 /\ b = 0)
       /\ \A i \in 1 .. Len(w) : w[i] \in {"base", "advance"} => a < i /\ i < b

LEMMA Once == \A w \in Wholes \ {Setenv} : LocksOnce(w)
<1>1. LocksOnce(Malloc)
  BY MallocPlaces DEF LocksOnce, Malloc
<1>2. LocksOnce(SetBuffer)
  BY SetBufferPlaces DEF LocksOnce, SetBuffer
<1>3. LocksOnce(SetFirst)
  BY SetFirstPlaces DEF LocksOnce, SetFirst
<1>4. LocksOnce(SetNew)
  BY SetNewPlaces DEF LocksOnce, SetNew
<1>5. LocksOnce(ClearBuffer)
  BY ClearBufferPlaces DEF LocksOnce, ClearBuffer
<1>6. LocksOnce(ClearLast)
  BY ClearLastPlaces DEF LocksOnce, ClearLast
<1> QED
  BY <1>1, <1>2, <1>3, <1>4, <1>5, <1>6 DEF Wholes

\* What step h changes of it.
Change(h) == IF h = "take" THEN 1 ELSE IF h = "unlock" THEN -1 ELSE 0

Needs(h) == h \in {"unlock", "base", "advance"}

LEMMA DepthOfSetenv ==
  ASSUME NEW n \in 0 .. 6
  PROVE  Depth(Rest(Setenv, n)) = <<0, 1, 2, 2, 2, 1, 0>>[n + 1]
<1> DEFINE p == Rest(Setenv, n)
<1>1. p \in Seq(Steps) /\ Len(p) = 6 - n
  BY SetenvPlaces, RestAt
<1>2. CASE n = 6
  BY <1>1, <1>2, EmptySeq, EmptyPlan
<1>3. CASE n < 6
  <2>1. p # <<>> /\ Len(p) \in 1 .. 6
    BY <1>1, <1>3, EmptySeq
  <2>2. p[Len(p)] = Setenv[n + Len(p)] /\ n + Len(p) = 6
    <3>1. Setenv \in Seq(Steps) /\ n \in 0 .. Len(Setenv)
      BY SetenvPlaces
    <3>2. Len(p) \in 1 .. Len(Setenv) - n /\ n + Len(p) = 6
      BY <1>1, <2>1, SetenvPlaces
    <3>3. QED
      BY <3>1, <3>2, RestAt
  <2>3. Setenv[6] = "unlock"
    BY DEF Setenv
  <2>4. Depth(p) = IF 6 - n = 6 THEN 0 ELSE IF 6 - n \in {1, 5} THEN 1 ELSE 2
    BY <1>1, <2>1, <2>2, <2>3 DEF Depth
  <2>5. QED
    BY <1>3, <2>4
<1> QED
  BY <1>2, <1>3

LEMMA DepthOfOnce ==
  ASSUME NEW w \in Seq(Steps), LocksOnce(w), NEW n \in 0 .. Len(w),
         NEW a \in 0 .. Len(w), Only(w, "take", a),
         NEW b \in 0 .. Len(w), Only(w, "unlock", b)
  PROVE  Depth(Rest(w, n)) = IF a <= n /\ n < b THEN 1 ELSE 0
<1> DEFINE p == Rest(w, n)
<1>1. Len(w) \in Nat /\ p \in Seq(Steps) /\ Len(p) = Len(w) - n
  BY RestAt, LenProperties
<1>2. p = <<>> \/ p[Len(p)] # "unlock"
  <2>1. CASE p # <<>>
    <3>1. Len(p) \in 1 .. Len(w) - n /\ n + Len(p) = Len(w)
      BY <1>1, <2>1, EmptySeq
    <3>2. p[Len(p)] = w[n + Len(p)]
      BY <3>1, RestAt
    <3>3. QED
      BY <3>1, <3>2 DEF LocksOnce
  <2>2. QED
    BY <2>1
<1>3. (Left(p, "take") <=> n < a) /\ (Left(p, "unlock") <=> n < b)
  BY LeftOnly
<1> QED
  BY <1>1, <1>2, <1>3 DEF Depth

LEMMA DepthOfTail ==
  ASSUME NEW p \in Plans, p # <<>>
  PROVE  /\ Depth(p) \in Nat
         /\ Depth(Tail(p)) = Depth(p) + Change(Head(p))
         /\ Needs(Head(p)) => Depth(p) > 0
<1>w. PICK w \in Wholes : \E n \in 0 .. Len(w) : p = Rest(w, n)
  BY DEF Plans
<1>1. PICK n \in 0 .. Len(w) : p = Rest(w, n)
  BY <1>w
<1>2. /\ n + 1 \in 1 .. Len(w) /\ Head(p) = w[n + 1] /\ Tail(p) = Rest(w, n + 1)
      /\ w \in Seq(Steps)
  BY <1>1, Marked, TailOfRest
<1>3. CASE w = Setenv
  <2>1. n \in 0 .. 5 /\ n + 1 \in 0 .. 6 /\ n \in 0 .. 6
    BY <1>2, <1>3, SetenvPlaces
  <2>2. Depth(p) = <<0, 1, 2, 2, 2, 1, 0>>[n + 1]
    BY <1>1, <1>3, <2>1, DepthOfSetenv
  <2>3. Depth(Tail(p)) = <<0, 1, 2, 2, 2, 1, 0>>[n + 1 + 1]
    BY <1>2, <1>3, <2>1, DepthOfSetenv
  <2>4. Head(p) = <<"take", "take", "base", "advance", "unlock", "unlock">>[n + 1]
    BY <1>2, <1>3 DEF Setenv
  <2>5. QED
    BY <2>1, <2>2, <2>3, <2>4 DEF Change, Needs
<1>4. CASE w # Setenv
  <2>1. LocksOnce(w)
    BY <1>4, Once
  <2>2. PICK a, b \in 0 .. Len(w) :
          /\ Only(w, "take", a) /\ Only(w, "unlock", b)
          /\ (0 < a /\ a < b) \/ (a = 0 /\ b = 0)
          /\ \A i \in 1 .. Len(w) : w[i] \in {"base", "advance"} => a < i /\ i < b
    BY <2>1 DEF LocksOnce
  <2>3. Depth(p) = IF a <= n /\ n < b THEN 1 ELSE 0
    BY <1>1, <1>2, <2>1, <2>2, DepthOfOnce
  <2>4. n + 1 \in 0 .. Len(w)
    BY <1>2
  <2>5. Depth(Tail(p)) = IF a <= n + 1 /\ n + 1 < b THEN 1 ELSE 0
    BY <1>2, <2>1, <2>2, <2>4, DepthOfOnce
  <2>6. (Head(p) = "take" <=> n + 1 = a) /\ (Head(p) = "unlock" <=> n + 1 = b)
    BY <1>2, <2>2 DEF Only
  <2>7. Head(p) \in {"base", "advance"} => a < n + 1 /\ n + 1 < b
    BY <1>2, <2>2
  <2>8. QED
    BY <2>2, <2>3, <2>5, <2>6, <2>7 DEF Change, Needs
<1> QED
  BY <1>3, <1>4

LEMMA DepthOfPlan == ASSUME NEW p \in Plans PROVE Depth(p) \in Nat
BY DepthOfTail, EmptyPlan

LEMMA DepthOfWhole == ASSUME NEW w \in Wholes PROVE Depth(w) = 0
<1>1. CASE w = Setenv
  BY <1>1, DepthOfSetenv, WholePlan
<1>2. CASE w # Setenv
  <2>1. LocksOnce(w) /\ w \in Seq(Steps) /\ Len(w) \in Nat
    BY <1>2, Once, Marked
  <2>2. PICK a, b \in 0 .. Len(w) :
          /\ Only(w, "take", a) /\ Only(w, "unlock", b)
          /\ (0 < a /\ a < b) \/ (a = 0 /\ b = 0)
    BY <2>1 DEF LocksOnce
  <2>3. Depth(Rest(w, 0)) = IF a <= 0 /\ 0 < b THEN 1 ELSE 0
    BY <2>1, <2>2, DepthOfOnce
  <2>4. QED
    BY <2>2, <2>3, WholePlan
<1> QED
  BY <1>1, <1>2

\* The break is read just before it is advanced.
ReadFirst(w) ==
  \A i \in 1 .. Len(w) : w[i] = "advance" => i > 1 /\ w[i - 1] = "base"

LEMMA BreakRead == \A w \in Wholes : ReadFirst(w)
<1>1. ReadFirst(Setenv)
  BY SetenvPlaces DEF ReadFirst, Setenv
<1>2. ReadFirst(Malloc)
  BY MallocPlaces DEF ReadFirst, Malloc
<1>3. ReadFirst(SetBuffer)
  BY SetBufferPlaces DEF ReadFirst, SetBuffer
<1>4. ReadFirst(SetFirst)
  BY SetFirstPlaces DEF ReadFirst, SetFirst
<1>5. ReadFirst(SetNew)
  BY SetNewPlaces DEF ReadFirst, SetNew
<1>6. ReadFirst(ClearBuffer)
  BY ClearBufferPlaces DEF ReadFirst, ClearBuffer
<1>7. ReadFirst(ClearLast)
  BY ClearLastPlaces DEF ReadFirst, ClearLast
<1> QED
  BY <1>1, <1>2, <1>3, <1>4, <1>5, <1>6, <1>7 DEF Wholes

Advances(p) == p # <<>> /\ Head(p) = "advance"

LEMMA AdvanceNext ==
  ASSUME NEW p \in Plans, p # <<>>, Advances(Tail(p)) PROVE Head(p) = "base"
<1>w. PICK w \in Wholes : \E n \in 0 .. Len(w) : p = Rest(w, n)
  BY DEF Plans
<1>1. PICK n \in 0 .. Len(w) : p = Rest(w, n)
  BY <1>w
<1>2. /\ w \in Seq(Steps) /\ ReadFirst(w)
      /\ n + 1 \in 1 .. Len(w) /\ Head(p) = w[n + 1] /\ Tail(p) = Rest(w, n + 1)
  BY <1>1, Marked, TailOfRest, BreakRead
<1>3. n + 1 \in 0 .. Len(w)
  BY <1>2
<1>4. n + 1 + 1 \in 1 .. Len(w) /\ Head(Tail(p)) = w[n + 1 + 1]
  BY <1>2, <1>3, TailOfRest DEF Advances
<1>5. w[n + 1 + 1 - 1] = "base"
  BY <1>2, <1>4 DEF Advances, ReadFirst
<1> QED
  BY <1>2, <1>5

LEMMA NoAdvanceFirst == ASSUME NEW w \in Wholes PROVE ~Advances(w)
<1>1. w \in Seq(Steps) /\ ReadFirst(w) /\ Rest(w, 0) = w /\ Len(w) \in Nat
  BY Marked, BreakRead, WholePlan
<1>2. Advances(w) => 1 \in 1 .. Len(w) /\ w[1] = "advance"
  BY <1>1, TailOfRest DEF Advances
<1> QED
  BY <1>1, <1>2 DEF ReadFirst

-----------------------------------------------------------------------------
(* The heap is handed out once                                             *)

LEMMA LockAtStart == Init => LockInv
<1> SUFFICES ASSUME Init PROVE LockInv
  OBVIOUS
<1>1. LockTypes
  BY EmptyPlan DEF Init, ClibInit, LockTypes
<1>2. Locked
  BY EmptyPlan, XtClibAssumption DEF Init, ClibInit, Locked
<1>3. Tiled
  BY DEF Init, ClibInit, Tiled
<1> QED
  BY <1>1, <1>2, <1>3 DEF LockInv

\* A step of task t after which q is left to it.
LEMMA PlanStep ==
  ASSUME LockTypes, NEW t \in Tasks, NEW q \in Plans, todo' = [todo EXCEPT ![t] = q]
  PROVE  /\ todo' \in [Tasks -> Plans] /\ todo'[t] = q
         /\ \A u \in Tasks \ {t} : todo'[u] = todo[u]
BY DEF LockTypes

\* ... and which leaves the lock and the heap alone.
LEMMA PlanKeepsLock ==
  ASSUME LockInv, ulClibInitDone, UNCHANGED clibVars, NEW t \in Tasks,
         NEW q \in Plans, todo' = [todo EXCEPT ![t] = q],
         Depth(q) = Depth(todo[t]), ~Advances(q)
  PROVE  LockInv'
<1>1. LockTypes'
  BY PlanStep DEF LockInv, LockTypes, clibVars
<1>2. Locked'
  BY PlanStep DEF LockInv, Locked, clibVars, Advances
<1>3. Tiled'
  BY DEF LockInv, Tiled, clibVars
<1> QED
  BY <1>1, <1>2, <1>3 DEF LockInv

LEMMA AtPlan ==
  ASSUME LockTypes, NEW t \in Tasks, NEW s, At(t, s)
  PROVE  /\ todo[t] \in Plans /\ todo[t] # <<>> /\ Head(todo[t]) = s
         /\ ulClibInitDone
BY DEF LockTypes, At, Runs

LEMMA DonePlan ==
  ASSUME LockTypes, NEW t \in Tasks, NEW s, At(t, s), Done(t)
  PROVE  /\ Tail(todo[t]) \in Plans
         /\ todo' = [todo EXCEPT ![t] = Tail(todo[t])]
         /\ Depth(Tail(todo[t])) = Depth(todo[t]) + Change(s)
         /\ Needs(s) => Depth(todo[t]) > 0
         /\ s # "base" => ~Advances(Tail(todo[t]))
<1>1. todo[t] \in Plans /\ todo[t] # <<>> /\ Head(todo[t]) = s
  BY AtPlan
<1>2. Tail(todo[t]) \in Plans
  BY <1>1, TailLeft
<1>3. Tail(todo[t]) \in Seq(Steps)
  BY <1>2, PlanSeq
<1>4. <<>> \o Tail(todo[t]) = Tail(todo[t])
  BY <1>3, ConcatEmptySeq
<1> QED
  BY <1>1, <1>2, <1>4, DepthOfTail, AdvanceNext DEF Done, Then

LEMMA DoneKeepsLock ==
  ASSUME LockInv, UNCHANGED clibVars, NEW t \in Tasks, NEW s, At(t, s), Done(t),
         s \notin {"take", "unlock", "base"}
  PROVE  LockInv'
<1>1. LockTypes
  BY DEF LockInv
<1>2. /\ Tail(todo[t]) \in Plans /\ ~Advances(Tail(todo[t]))
      /\ todo' = [todo EXCEPT ![t] = Tail(todo[t])]
      /\ Depth(Tail(todo[t])) = Depth(todo[t]) + Change(s)
  BY <1>1, DonePlan
<1>3. Depth(Tail(todo[t])) = Depth(todo[t])
  BY <1>1, <1>2, AtPlan, DepthOfTail DEF Change
<1> QED
  BY <1>1, <1>2, <1>3, AtPlan, PlanKeepsLock

LEMMA CallKeepsLock ==
  ASSUME LockInv, UNCHANGED clibVars, NEW t \in Tasks, NEW w \in Wholes,
         todo[t] = <<>>, Runs(t), todo' = [todo EXCEPT ![t] = w]
  PROVE  LockInv'
<1>1. Depth(w) = Depth(todo[t])
  BY DepthOfWhole, EmptyPlan
<1> QED
  BY <1>1, WholePlan, NoAdvanceFirst, PlanKeepsLock DEF Runs

\* Who does not hold the lock has none of it, nor the break.
LEMMA NotOwner ==
  ASSUME LockInv, NEW u \in Tasks, clib.owner # u
  PROVE  Depth(todo[u]) = 0 /\ ~Advances(todo[u])
<1>1. todo[u] \in Plans /\ ~(Depth(todo[u]) > 0)
  BY DEF LockInv, LockTypes, Locked
<1>2. Depth(todo[u]) \in Nat
  BY <1>1, DepthOfPlan
<1>3. ~Advances(todo[u])
  BY <1>1, DepthOfTail DEF Advances, Needs
<1> QED
  BY <1>1, <1>2, <1>3

LEMMA TakeKeepsLock ==
  ASSUME LockInv, NEW t \in Tasks, Take(t) PROVE LockInv'
<1> DEFINE q == Tail(todo[t])
<1>1. LockTypes /\ At(t, "take") /\ Done(t) /\ ulClibInitDone
  BY AtPlan DEF LockInv, Take
<1>2. /\ q \in Plans /\ todo' = [todo EXCEPT ![t] = q] /\ ~Advances(q)
      /\ Depth(q) = Depth(todo[t]) + 1
  BY <1>1, DonePlan DEF Change
<1>3. /\ todo' \in [Tasks -> Plans] /\ todo'[t] = q
      /\ \A u \in Tasks \ {t} : todo'[u] = todo[u]
  BY <1>1, <1>2, PlanStep
<1>4. clib.count = Depth(todo[t]) /\ Depth(todo[t]) \in Nat
  <2>1. CASE clib.owner = t
    BY <1>1, <2>1, DepthOfPlan DEF LockInv, Locked, LockTypes
  <2>2. CASE clib.owner = None
    BY <2>2, NotOwner, XtClibAssumption DEF LockInv, Locked
  <2>3. QED
    BY <2>1, <2>2 DEF Take
<1>5. /\ clib' = [owner |-> t, count |-> Depth(q)]
      /\ Depth(q) \in Nat /\ Depth(q) > 0
  BY <1>2, <1>4 DEF Take
<1>6. LockTypes'
  BY <1>1, <1>3, <1>5 DEF Take, LockTypes
<1>7. ASSUME NEW u \in Tasks \ {t} PROVE Depth(todo[u]) = 0 /\ ~Advances(todo[u])
  BY NotOwner, XtClibAssumption DEF Take
<1>8. t # None
  BY XtClibAssumption
<1>9. Locked'
  BY <1>1, <1>2, <1>3, <1>5, <1>7, <1>8 DEF Locked, Advances, Take
<1>10. Tiled'
  BY DEF LockInv, Tiled, Take
<1> QED
  BY <1>6, <1>9, <1>10 DEF LockInv

LEMMA UnlockKeepsLock ==
  ASSUME LockInv, NEW t \in Tasks, Unlock(t) PROVE LockInv'
<1> DEFINE q == Tail(todo[t])
<1>1. LockTypes /\ At(t, "unlock") /\ Done(t) /\ ulClibInitDone
  BY AtPlan DEF LockInv, Unlock
<1>2. /\ q \in Plans /\ todo' = [todo EXCEPT ![t] = q] /\ ~Advances(q)
      /\ Depth(q) = Depth(todo[t]) - 1 /\ Depth(todo[t]) > 0
  BY <1>1, DonePlan, AtPlan, DepthOfPlan DEF Change, Needs
<1>3. /\ todo' \in [Tasks -> Plans] /\ todo'[t] = q
      /\ \A u \in Tasks \ {t} : todo'[u] = todo[u]
  BY <1>1, <1>2, PlanStep
<1>4. clib.owner = t /\ clib.count = Depth(todo[t]) /\ clib.count \in Nat
  BY <1>2 DEF LockInv, Locked, LockTypes
<1>5. \/ Depth(q) = 0 /\ clib' = [owner |-> None, count |-> 0]
      \/ Depth(q) > 0 /\ clib' = [owner |-> t, count |-> Depth(q)]
  BY <1>1, <1>2, <1>4 DEF Unlock, LockTypes
<1>6. Depth(q) \in Nat
  BY <1>2, DepthOfPlan
<1>7. LockTypes'
  BY <1>1, <1>3, <1>5, <1>6 DEF Unlock, LockTypes
<1>8. ASSUME NEW u \in Tasks \ {t} PROVE Depth(todo[u]) = 0 /\ ~Advances(todo[u])
  BY <1>4, NotOwner
<1>9. t # None /\ \A u \in Tasks : u # None
  BY XtClibAssumption
<1>10. Locked'
  <2>1. ulClibInitDone' /\ (clib'.owner = None => clib'.count = 0)
    BY <1>1, <1>5, <1>9 DEF Unlock
  <2>2. ASSUME NEW u \in Tasks \ {t}
        PROVE  clib'.owner # u /\ ~(Depth(todo'[u]) > 0) /\ ~Advances(todo'[u])
    BY <1>3, <1>4, <1>5, <1>8, <1>9
  <2>3. /\ clib'.owner = t <=> Depth(todo'[t]) > 0
        /\ clib'.owner = t => clib'.count = Depth(todo'[t])
        /\ ~Advances(todo'[t])
    BY <1>2, <1>3, <1>5, <1>9
  <2>4. QED
    BY <2>1, <2>2, <2>3 DEF Locked, Advances
<1>11. Tiled'
  BY DEF LockInv, Tiled, Unlock
<1> QED
  BY <1>7, <1>10, <1>11 DEF LockInv

LEMMA ReadBreakKeepsLock ==
  ASSUME LockInv, NEW t \in Tasks, ReadBreak(t) PROVE LockInv'
<1> DEFINE q == Tail(todo[t])
<1>1. LockTypes /\ At(t, "base") /\ Done(t) /\ ulClibInitDone
  BY AtPlan DEF LockInv, ReadBreak
<1>2. /\ q \in Plans /\ todo' = [todo EXCEPT ![t] = q]
      /\ Depth(q) = Depth(todo[t])
  BY <1>1, DonePlan, AtPlan, DepthOfPlan DEF Change
<1>3. /\ todo' \in [Tasks -> Plans] /\ todo'[t] = q
      /\ \A u \in Tasks \ {t} : todo'[u] = todo[u]
  BY <1>1, <1>2, PlanStep
<1>4. base'[t] = heap_ptr /\ \A u \in Tasks \ {t} : base'[u] = base[u]
  BY <1>1 DEF ReadBreak, LockTypes
<1>5. LockTypes'
  BY <1>1, <1>3 DEF ReadBreak, LockTypes
<1>6. Locked'
  BY <1>1, <1>2, <1>3, <1>4 DEF LockInv, Locked, ReadBreak
<1>7. Tiled'
  BY DEF LockInv, Tiled, ReadBreak
<1> QED
  BY <1>5, <1>6, <1>7 DEF LockInv

LEMMA NewBlock ==
  ASSUME LockInv, NEW n \in Sizes, heap_ptr' = heap_ptr + n,
         blocks' = blocks \cup {Block(heap_ptr, n)}
  PROVE  /\ heap_ptr' \in Nat /\ Tiled'
         /\ \A b \in blocks' : b \in [from : Nat, to : Nat]
<1> DEFINE new == [from |-> heap_ptr, to |-> heap_ptr + n]
<1>1. n \in Nat \ {0} /\ heap_ptr \in Nat
  BY XtClibAssumption DEF LockInv, LockTypes
<1>2. \A b \in blocks : b \in [from : Nat, to : Nat] /\ b.to <= heap_ptr
  BY DEF LockInv, LockTypes, Tiled
<1>3. blocks' = blocks \cup {new} /\ heap_ptr' = heap_ptr + n
  BY DEF Block
<1>4. new.from = heap_ptr /\ new.to = heap_ptr + n /\ new \in [from : Nat, to : Nat]
  BY <1>1
<1> HIDE DEF new
<1>5. ASSUME NEW x \in 0 .. heap_ptr' - 1
      PROVE  /\ \E b \in blocks' : Covers(b, x)
             /\ \A b, d \in blocks' : Covers(b, x) /\ Covers(d, x) => b = d
  <2>1. CASE x < heap_ptr
    <3>1. x \in 0 .. heap_ptr - 1
      BY <1>1, <1>3, <2>1
    <3>2. ~Covers(new, x)
      BY <1>1, <1>4, <2>1 DEF Covers
    <3>3. QED
      BY <1>3, <3>1, <3>2 DEF LockInv, Tiled
  <2>2. CASE ~(x < heap_ptr)
    <3>1. Covers(new, x)
      BY <1>1, <1>3, <1>4, <2>2 DEF Covers
    <3>2. \A b \in blocks : ~Covers(b, x)
      BY <1>1, <1>2, <2>2 DEF Covers
    <3>3. QED
      BY <1>3, <3>1, <3>2
  <2>3. QED
    BY <2>1, <2>2
<1>6. \A b \in blocks' : b \in [from : Nat, to : Nat] /\ b.to <= heap_ptr'
  BY <1>1, <1>2, <1>3, <1>4
<1> QED
  BY <1>1, <1>3, <1>5, <1>6 DEF Tiled

LEMMA AdvanceKeepsLock ==
  ASSUME LockInv, NEW t \in Tasks, Advance(t) PROVE LockInv'
<1> DEFINE q == Tail(todo[t])
<1>1. LockTypes /\ At(t, "advance") /\ Done(t) /\ ulClibInitDone
  BY AtPlan DEF LockInv, Advance
<1>2. /\ q \in Plans /\ todo' = [todo EXCEPT ![t] = q] /\ ~Advances(q)
      /\ Depth(q) = Depth(todo[t]) /\ Depth(todo[t]) > 0
  BY <1>1, DonePlan, AtPlan, DepthOfPlan DEF Change, Needs
<1>3. /\ todo' \in [Tasks -> Plans] /\ todo'[t] = q
      /\ \A u \in Tasks \ {t} : todo'[u] = todo[u]
  BY <1>1, <1>2, PlanStep
<1>4. clib.owner = t /\ base[t] = heap_ptr
  BY <1>1, <1>2, AtPlan DEF LockInv, Locked
<1>5. heap_ptr' \in Nat /\ Tiled' /\ \A b \in blocks' : b \in [from : Nat, to : Nat]
  <2>1. CASE UNCHANGED <<heap_ptr, blocks>>
    BY <2>1 DEF LockInv, LockTypes, Tiled
  <2>2. CASE \E n \in Sizes : /\ heap_ptr' = heap_ptr + n
                             /\ blocks' = blocks \cup {Block(heap_ptr, n)}
    BY <2>2, NewBlock
  <2>3. QED
    BY <1>4, <2>1, <2>2 DEF Advance
<1>6. LockTypes'
  BY <1>1, <1>3, <1>5 DEF Advance, LockTypes
<1>7. ASSUME NEW u \in Tasks \ {t} PROVE ~Advances(todo[u])
  BY <1>4, NotOwner
<1>8. Locked'
  BY <1>1, <1>2, <1>3, <1>7 DEF LockInv, Locked, Advances, Advance
<1> QED
  BY <1>5, <1>6, <1>8 DEF LockInv

LEMMA BootKeepsLock ==
  ASSUME LockInv, BootMalloc \/ vPortClibInit PROVE LockInv'
<1>1. CASE BootMalloc
  <2>1. PICK n \in Sizes : /\ heap_ptr' = heap_ptr + n
                           /\ blocks' = blocks \cup {Block(heap_ptr, n)}
    BY <1>1 DEF BootMalloc
  <2>2. heap_ptr' \in Nat /\ Tiled' /\ \A b \in blocks' : b \in [from : Nat, to : Nat]
    BY <2>1, NewBlock
  <2>3. LockTypes'
    BY <1>1, <2>2 DEF LockInv, LockTypes, BootMalloc
  <2>4. Locked'
    BY <1>1 DEF LockInv, Locked, BootMalloc
  <2>5. QED
    BY <2>2, <2>3, <2>4 DEF LockInv
<1>2. CASE vPortClibInit
  BY <1>2 DEF vPortClibInit, LockInv, LockTypes, Locked, Tiled
<1> QED
  BY <1>1, <1>2

\* The plans as the model puts them together.
LEMMA SetenvPlan == setenv = Setenv
<1> DEFINE p == setenv
<1>1. p \in Seq(Steps) /\ Len(p) = 6
  BY DEF setenv, malloc, Steps
<1>2. \A i \in 1 .. 6 : p[i] = Setenv[i]
  BY DEF setenv, malloc, Setenv
<1> QED
  BY <1>1, <1>2, SetenvPlaces, SeqEqual

LEMMA MallocPlan == pvPortMalloc = Malloc
<1> DEFINE p == pvPortMalloc
<1>1. p \in Seq(Steps) /\ Len(p) = 6
  BY DEF pvPortMalloc, malloc, Steps
<1>2. \A i \in 1 .. 6 : p[i] = Malloc[i]
  BY DEF pvPortMalloc, malloc, Malloc
<1> QED
  BY <1>1, <1>2, MallocPlaces, SeqEqual

LEMMA SetBufferPlan == <<"create">> \o Guarded(<<"find", "fill">>) = SetBuffer
<1> DEFINE p == <<"create">> \o Guarded(<<"find", "fill">>)
<1>1. p \in Seq(Steps) /\ Len(p) = 7
  BY DEF Guarded, Steps
<1>2. \A i \in 1 .. 7 : p[i] = SetBuffer[i]
  BY DEF Guarded, SetBuffer
<1> QED
  BY <1>1, <1>2, SetBufferPlaces, SeqEqual

LEMMA ClearBufferPlan == Guarded(<<"clear">>) = ClearBuffer
<1> DEFINE p == Guarded(<<"clear">>)
<1>1. p \in Seq(Steps) /\ Len(p) = 5
  BY DEF Guarded, Steps
<1>2. \A i \in 1 .. 5 : p[i] = ClearBuffer[i]
  BY DEF Guarded, ClearBuffer
<1> QED
  BY <1>1, <1>2, ClearBufferPlaces, SeqEqual

LEMMA SetFirstPlan == (pvPortMalloc \o <<"created">>) \o Tail(SetBuffer) = SetFirst
<1> DEFINE p == (pvPortMalloc \o <<"created">>) \o Tail(SetBuffer)
<1>1. p \in Seq(Steps) /\ Len(p) = 13
  BY DEF pvPortMalloc, malloc, SetBuffer, Steps
<1>2. \A i \in 1 .. 13 : p[i] = SetFirst[i]
  BY DEF pvPortMalloc, malloc, SetBuffer, SetFirst
<1> QED
  BY <1>1, <1>2, SetFirstPlaces, SeqEqual

LEMMA SetNewPlan == (pvPortMalloc \o <<"sem">>) \o <<"unmask", "give">> = SetNew
<1> DEFINE p == (pvPortMalloc \o <<"sem">>) \o <<"unmask", "give">>
<1>1. p \in Seq(Steps) /\ Len(p) = 9
  BY DEF pvPortMalloc, malloc, Steps
<1>2. \A i \in 1 .. 9 : p[i] = SetNew[i]
  BY DEF pvPortMalloc, malloc, SetNew
<1> QED
  BY <1>1, <1>2, SetNewPlaces, SeqEqual

LEMMA ClearLastPlan == <<"unmask", "give">> \o vPortFree = ClearLast
<1> DEFINE p == <<"unmask", "give">> \o vPortFree
<1>1. p \in Seq(Steps) /\ Len(p) = 6
  BY DEF vPortFree, Steps
<1>2. \A i \in 1 .. 6 : p[i] = ClearLast[i]
  BY DEF vPortFree, ClearLast
<1> QED
  BY <1>1, <1>2, ClearLastPlaces, SeqEqual

LEMMA ClosingDepth ==
  ASSUME NEW p \in Plans, p # <<>>, Head(p) \in {"fill", "clear"} PROVE Depth(p) = 0
<1>1. Tail(p) = <<"unmask", "give">>
  BY ClosingPlan
<1>2. Depth(Tail(p)) = 0
  <2> DEFINE q == <<"unmask", "give">>
  <2>1. Len(q) = 2 /\ q[1] = "unmask" /\ q[2] = "give"
    OBVIOUS
  <2> HIDE DEF q
  <2>2. \A i \in 1 .. Len(q) : q[i] # "unlock"
    BY <2>1
  <2>3. Depth(q) = 0
    BY <2>1, <2>2 DEF Depth, Left
  <2>4. QED
    BY <1>1, <2>3 DEF q
<1> QED
  BY <1>2, DepthOfTail DEF Change

LEMMA IdmaKeepsLock ==
  ASSUME LockInv, NEW t \in Tasks, IdmaStep(t) PROVE LockInv'
<1> USE DEF IdmaStep
<1>1. LockTypes
  BY DEF LockInv
<1>2. CASE CallSet(t)
  BY <1>2, SetBufferPlan, CallKeepsLock DEF CallSet, Wholes
<1>3. CASE CallClear(t)
  BY <1>3, ClearBufferPlan, CallKeepsLock DEF CallClear, Wholes
<1>4. CASE Test(t)
  <2>1. CASE mutexes # <<>>
    <3>1. At(t, "create") /\ Done(t) /\ UNCHANGED clibVars
      BY <1>4, <2>1 DEF Test, Done
    <3>2. QED
      BY <3>1, DoneKeepsLock
  <2>2. CASE mutexes = <<>>
    <3>1. todo[t] = SetBuffer /\ ulClibInitDone
      BY <1>1, <1>4, AtPlan, CreatePlan DEF Test
    <3>2. todo' = [todo EXCEPT ![t] = SetFirst] /\ UNCHANGED clibVars
      BY <1>4, <2>2, <3>1, SetFirstPlan DEF Test, Then
    <3>3. SetBuffer \in Wholes /\ SetFirst \in Wholes
      BY DEF Wholes
    <3>4. QED
      BY <3>1, <3>2, <3>3, DepthOfWhole, WholePlan, NoAdvanceFirst, PlanKeepsLock
  <2>3. QED
    BY <2>1, <2>2
<1>5. CASE Fill(t)
  <2>1. CASE ~IsNew(t)
    <3>1. At(t, "fill") /\ Done(t) /\ UNCHANGED clibVars
      BY <1>5, <2>1 DEF Fill, Done
    <3>2. QED
      BY <3>1, DoneKeepsLock
  <2>2. CASE IsNew(t)
    <3>1. /\ todo[t] \in Plans /\ todo[t] # <<>> /\ Head(todo[t]) = "fill"
          /\ ulClibInitDone
      BY <1>1, <1>5, AtPlan DEF Fill
    <3>2. Tail(todo[t]) = <<"unmask", "give">>
      BY <3>1, ClosingPlan
    <3>3. todo' = [todo EXCEPT ![t] = SetNew] /\ UNCHANGED clibVars
      BY <1>5, <2>2, <3>2, SetNewPlan DEF Fill, Then
    <3>4. Depth(todo[t]) = Depth(SetNew) /\ SetNew \in Wholes
      BY <3>1, ClosingDepth, DepthOfWhole DEF Wholes
    <3>5. QED
      BY <3>1, <3>3, <3>4, WholePlan, NoAdvanceFirst, PlanKeepsLock
  <2>3. QED
    BY <2>1, <2>2
<1>6. CASE Clear(t)
  <2>1. /\ todo[t] \in Plans /\ todo[t] # <<>> /\ Head(todo[t]) = "clear"
        /\ ulClibInitDone /\ UNCHANGED clibVars
    BY <1>1, <1>6, AtPlan DEF Clear
  <2>2. Tail(todo[t]) = <<"unmask", "give">>
    BY <2>1, ClosingPlan
  <2>3. PICK rest \in {<<>>, vPortFree} :
          todo' = [todo EXCEPT ![t] = Tail(todo[t]) \o rest]
    BY <1>6 DEF Clear
  <2>4. CASE rest = vPortFree
    <3>1. todo' = [todo EXCEPT ![t] = ClearLast]
      BY <2>2, <2>3, <2>4, ClearLastPlan
    <3>2. Depth(todo[t]) = Depth(ClearLast) /\ ClearLast \in Wholes
      BY <2>1, ClosingDepth, DepthOfWhole DEF Wholes
    <3>3. QED
      BY <2>1, <3>1, <3>2, WholePlan, NoAdvanceFirst, PlanKeepsLock
  <2>5. CASE rest = <<>>
    <3>1. Tail(todo[t]) \in Plans /\ Tail(todo[t]) \in Seq(Steps)
      BY <2>1, TailLeft, PlanSeq
    <3>2. Tail(todo[t]) \o <<>> = Tail(todo[t]) /\ <<>> \o Tail(todo[t]) = Tail(todo[t])
      BY <3>1, ConcatEmptySeq
    <3>3. At(t, "clear") /\ Done(t)
      BY <1>6, <2>3, <2>5, <3>2 DEF Clear, Done, Then
    <3>4. QED
      BY <2>1, <3>3, DoneKeepsLock
  <2>6. QED
    BY <2>3, <2>4, <2>5
<1>7. CASE StartTransfer(t) \/ idma_thread_unblock(t) \/ idma_thread_block(t)
  BY <1>7 DEF LockInv, LockTypes, Locked, Tiled, clibVars, StartTransfer,
     idma_thread_unblock, idma_thread_block
<1>8. CASE Created(t)
  BY <1>8, DoneKeepsLock DEF Created
<1>9. CASE TakeMutex(t) \/ GiveMutex(t)
  BY <1>9, DoneKeepsLock DEF TakeMutex, GiveMutex
<1>10. CASE Mask(t) \/ Unmask(t)
  BY <1>10, DoneKeepsLock DEF Mask, Unmask
<1>11. CASE Find(t) \/ CreateSemaphore(t)
  BY <1>11, DoneKeepsLock DEF Find, CreateSemaphore
<1> QED
  BY <1>2, <1>3, <1>4, <1>5, <1>6, <1>7, <1>8, <1>9, <1>10, <1>11

LEMMA StepKeepsLock == LockInv /\ [Next]_vars => LockInv'
<1> SUFFICES ASSUME LockInv, [Next]_vars PROVE LockInv'
  OBVIOUS
<1>1. CASE BootMalloc \/ vPortClibInit
  BY <1>1, BootKeepsLock
<1>2. ASSUME NEW t \in Tasks, ClibCall(t) PROVE LockInv'
  BY <1>2, SetenvPlan, MallocPlan, CallKeepsLock DEF ClibCall, Calls, Wholes
<1>3. ASSUME NEW t \in Tasks, ClibStep(t) PROVE LockInv'
  <2>1. CASE Suspend(t) \/ Resume(t)
    BY <2>1, DoneKeepsLock DEF Suspend, Resume
  <2>2. QED
    BY <1>3, <2>1, TakeKeepsLock, UnlockKeepsLock, ReadBreakKeepsLock, AdvanceKeepsLock
    DEF ClibStep
<1>4. CASE UNCHANGED vars
  BY <1>4 DEF LockInv, LockTypes, Locked, Tiled, vars, clibVars
<1> QED
  BY <1>1, <1>2, <1>3, <1>4, IdmaKeepsLock DEF Next

\* Every address below the break lies in exactly one block that malloc was given,
\* however many tasks of whichever cores allocate, with the environment's lock or
\* from pvPortMalloc (portclib.c:254-269).
THEOREM XtClibBlocksApart == Spec => []BlocksApart
<1>1. LockInv => BlocksApart
  <2> SUFFICES ASSUME LockInv, NEW x \in 0 .. heap_ptr - 1
               PROVE  Cardinality({b \in blocks : b.from <= x /\ x < b.to}) = 1
    BY DEF BlocksApart
  <2>1. PICK b \in blocks : Covers(b, x)
    BY DEF LockInv, Tiled
  <2>2. \A d \in blocks : Covers(d, x) => d = b
    BY <2>1 DEF LockInv, Tiled
  <2>3. {d \in blocks : d.from <= x /\ x < d.to} = {b}
    BY <2>1, <2>2 DEF Covers
  <2>4. QED
    BY <2>3, FS_Singleton
<1> QED
  BY <1>1, LockAtStart, StepKeepsLock, PTL DEF Spec

-----------------------------------------------------------------------------
(* Plans and what they mean for the mutex and the slots                    *)

LEMMA LeastOf ==
  ASSUME NEW s \in SUBSET Nat, s # {}
  PROVE  Least(s) \in s /\ \A j \in s : Least(s) <= j
<1> DEFINE Less == {p \in Nat \X Nat : p[1] < p[2]}
<1>1. IsWellFoundedOn(Less, Nat)
  BY NatLessThanWellFounded DEF OpToRel
<1>2. PICK i \in s : \A j \in s : ~(<<j, i>> \in Less)
  BY <1>1, WFMin
<1>3. ASSUME NEW j \in s PROVE i <= j
  <2>1. <<j, i>> \in Nat \X Nat /\ <<j, i>>[1] = j /\ <<j, i>>[2] = i
    OBVIOUS
  <2>2. ~(j < i)
    BY <1>2, <2>1
  <2>3. QED
    BY <2>2
<1> QED
  BY <1>3 DEF Least

LEMMA AheadOfNone == Ahead(<<>>) = {}
BY EmptyPlan DEF Ahead

LEMMA AheadOfWholes ==
  /\ Ahead(Setenv) = {} /\ Ahead(Malloc) = {}
  /\ Ahead(SetBuffer) = {"mutex", "find", "fill", "give"}
  /\ Ahead(SetFirst) = {"created", "mutex", "find", "fill", "give"}
  /\ Ahead(SetNew) = {"sem", "give"}
  /\ Ahead(ClearBuffer) = {"mutex", "clear", "give"}
  /\ Ahead(ClearLast) = {"give"}
<1> DEFINE Knows(w) == /\ \A s : Only(w, s, 0) => ~Left(w, s)
                       /\ \A s : \A k \in 1 .. Len(w) : w[k] = s => Left(w, s)
<1>1. ASSUME NEW w \in Wholes, NEW s, Only(w, s, 0) PROVE ~Left(w, s)
  <2>1. Left(Rest(w, 0), s) <=> 0 < 0
    BY <1>1, Marked, LeftOnly
  <2>2. QED
    BY <2>1, WholePlan, Marked
<1>2. \A w \in Wholes : Knows(w)
  BY <1>1 DEF Left
<1> HIDE DEF Knows
<1>3. Ahead(Setenv) = {}
  BY <1>2, SetenvPlaces DEF Knows, Ahead, Marks, Wholes
<1>4. Ahead(Malloc) = {}
  BY <1>2, MallocPlaces DEF Knows, Ahead, Marks, Wholes
<1>5. Ahead(SetBuffer) = {"mutex", "find", "fill", "give"}
  <2>1. SetBuffer \in Wholes
    BY DEF Wholes
  <2>2. \A s \in {"mutex", "find", "fill", "give"} : Left(SetBuffer, s)
    BY <1>2, <2>1, SetBufferPlaces DEF Knows, SetBuffer
  <2>3. \A s \in {"created", "sem", "clear"} : ~Left(SetBuffer, s)
    BY <1>2, <2>1, SetBufferPlaces DEF Knows
  <2>4. QED
    BY <2>2, <2>3 DEF Ahead, Marks
<1>6. Ahead(SetFirst) = {"created", "mutex", "find", "fill", "give"}
  <2>1. SetFirst \in Wholes
    BY DEF Wholes
  <2>2. \A s \in {"created", "mutex", "find", "fill", "give"} : Left(SetFirst, s)
    <3>1. /\ SetFirst[7] = "created" /\ SetFirst[8] = "mutex"
          /\ SetFirst[10] = "find" /\ SetFirst[11] = "fill" /\ SetFirst[13] = "give"
      BY SetFirstPlaces DEF SetFirst
    <3>2. \A k \in 1 .. 13 : Left(SetFirst, SetFirst[k])
      BY <1>2, <2>1, SetFirstPlaces DEF Knows
    <3>3. QED
      BY <3>1, <3>2
  <2>3. \A s \in {"sem", "clear"} : ~Left(SetFirst, s)
    BY <1>2, <2>1, SetFirstPlaces DEF Knows
  <2>4. QED
    BY <2>2, <2>3 DEF Ahead, Marks
<1>7. Ahead(SetNew) = {"sem", "give"}
  <2>1. SetNew \in Wholes
    BY DEF Wholes
  <2>2. \A s \in {"sem", "give"} : Left(SetNew, s)
    BY <1>2, <2>1, SetNewPlaces DEF Knows, SetNew
  <2>3. \A s \in {"created", "mutex", "find", "fill", "clear"} : ~Left(SetNew, s)
    BY <1>2, <2>1, SetNewPlaces DEF Knows
  <2>4. QED
    BY <2>2, <2>3 DEF Ahead, Marks
<1>8. Ahead(ClearBuffer) = {"mutex", "clear", "give"}
  <2>1. ClearBuffer \in Wholes
    BY DEF Wholes
  <2>2. \A s \in {"mutex", "clear", "give"} : Left(ClearBuffer, s)
    <3>1. Len(ClearBuffer) = 5 /\ ClearBuffer[1] = "mutex" /\ ClearBuffer[3] = "clear" /\ ClearBuffer[5] = "give"
      BY ClearBufferPlaces DEF ClearBuffer
    <3>2. QED
      BY <1>2, <2>1, <3>1 DEF Knows
  <2>3. \A s \in {"created", "find", "fill", "sem"} : ~Left(ClearBuffer, s)
    BY <1>2, <2>1, ClearBufferPlaces DEF Knows
  <2>4. QED
    BY <2>2, <2>3 DEF Ahead, Marks
<1>9. Ahead(ClearLast) = {"give"}
  <2>1. ClearLast \in Wholes
    BY DEF Wholes
  <2>2. \A s \in {"give"} : Left(ClearLast, s)
    BY <1>2, <2>1, ClearLastPlaces DEF Knows, ClearLast
  <2>3. \A s \in {"created", "mutex", "find", "fill", "sem", "clear"} : ~Left(ClearLast, s)
    BY <1>2, <2>1, ClearLastPlaces DEF Knows
  <2>4. QED
    BY <2>2, <2>3 DEF Ahead, Marks
<1> QED
  BY <1>3, <1>4, <1>5, <1>6, <1>7, <1>8, <1>9

\* The order of what is left to task t.
LEMMA AheadOrder ==
  ASSUME LockTypes, NEW t \in Tasks
  PROVE  /\ Has(t, "created") => Has(t, "mutex")
         /\ Has(t, "mutex") => Has(t, "give") /\ ~Has(t, "sem")
         /\ Has(t, "find") => Has(t, "fill")
         /\ Has(t, "fill") => Has(t, "give") /\ ~Has(t, "clear") /\ ~Has(t, "sem")
         /\ Has(t, "fill") /\ Has(t, "mutex") => Has(t, "find")
         /\ Has(t, "clear") => Has(t, "give") /\ ~Has(t, "sem")
         /\ Has(t, "sem") => Has(t, "give")
<1>1. todo[t] \in Plans
  BY DEF LockTypes
<1>2. Ordered(todo[t])
  BY <1>1, PlanOrder
<1>3. \A s \in Marks : Has(t, s) <=> Left(todo[t], s)
  BY DEF Has, Ahead
<1> QED
  BY <1>2, <1>3 DEF Ordered, Marks

LEMMA AtAhead ==
  ASSUME LockTypes, NEW t \in Tasks, NEW s, At(t, s)
  PROVE  /\ s \in Marks => Has(t, s)
         /\ s = "mutex" => ~Has(t, "created")
         /\ s \in {"find", "fill", "clear", "give"} => ~Has(t, "mutex")
         /\ s = "fill" => ~Has(t, "find")
<1>1. todo[t] \in Plans /\ todo[t] # <<>> /\ Head(todo[t]) = s
  BY AtPlan
<1>2. Left(todo[t], s) /\ Follows(todo[t], s)
  BY <1>1, LeftHead, PlanOrder
<1>3. \A m \in Marks : Has(t, m) <=> Left(todo[t], m)
  BY DEF Has, Ahead
<1> QED
  BY <1>2, <1>3 DEF Follows, Marks

\* After a step of task t the marks q are ahead of it.
Leaves(t, q) ==
  /\ Ahead(todo'[t]) = q
  /\ \A u \in Tasks \ {t} : Ahead(todo'[u]) = Ahead(todo[u])

LEMMA DoneAhead ==
  ASSUME LockTypes, NEW t \in Tasks, NEW s, At(t, s), Done(t)
  PROVE  Leaves(t, Ahead(todo[t]) \ {s})
<1>1. todo[t] \in Plans /\ todo[t] # <<>> /\ Head(todo[t]) = s
  BY AtPlan
<1>2. /\ Tail(todo[t]) \in Plans /\ todo' = [todo EXCEPT ![t] = Tail(todo[t])]
  BY DonePlan
<1>3. \A m \in Marks : Left(Tail(todo[t]), m) <=> Left(todo[t], m) /\ m # s
  BY <1>1, TailLeft
<1>4. Ahead(Tail(todo[t])) = Ahead(todo[t]) \ {s}
  BY <1>3 DEF Ahead
<1> QED
  BY <1>2, <1>4, PlanStep DEF Leaves

LEMMA CallAhead ==
  ASSUME LockTypes, NEW t \in Tasks, NEW w \in Wholes, todo' = [todo EXCEPT ![t] = w]
  PROVE  Leaves(t, Ahead(w))
BY PlanStep, WholePlan DEF Leaves

LEMMA PlanAhead ==
  ASSUME NEW p \in Plans
  PROVE  /\ "give" \notin Ahead(p) => Ahead(p) = {}
         /\ p # <<>> /\ Head(p) = "give" => Ahead(p) = {"give"}
<1>1. ASSUME NEW q \in Plans, "give" \notin Ahead(q) PROVE Ahead(q) = {}
  <2>1. Ordered(q) /\ ~Left(q, "give")
    BY <1>1, PlanOrder DEF Ahead, Marks
  <2>2. \A s \in Marks : ~Left(q, s)
    BY <2>1 DEF Ordered, Marks
  <2>3. QED
    BY <2>2 DEF Ahead
<1>2. ASSUME p # <<>>, Head(p) = "give" PROVE Ahead(p) = {"give"}
  <2>1. Tail(p) \in Plans /\ \A s \in Marks : Left(Tail(p), s) <=> Left(p, s) /\ s # "give"
    BY <1>2, TailLeft
  <2>2. Ahead(Tail(p)) = {}
    BY <1>1, <2>1 DEF Ahead
  <2>3. Left(p, "give") /\ \A s \in Marks : Left(p, s) => s = "give"
    BY <1>2, <2>1, <2>2, LeftHead DEF Ahead
  <2>4. QED
    BY <2>3 DEF Ahead, Marks
<1> QED
  BY <1>1, <1>2

-----------------------------------------------------------------------------
(* The mutex and the slots                                                 *)

\* Nothing of tasks other than t changes.
Others(t) ==
  \A u \in Tasks \ {t} :
    /\ Ahead(todo'[u]) = Ahead(todo[u])
    /\ arg'[u] = arg[u] /\ set'[u] = set[u]
    /\ u \in busy' <=> u \in busy
    /\ u \in woken' <=> u \in woken

\* Whoever is between the mutex and its give is the only one.
LEMMA Inside ==
  ASSUME LockTypes, MutexInv, NEW t \in Tasks, NEW u \in Tasks, HasMutex(t),
         HasMutex(u) \/ Has(u, "sem") \/ (Has(u, "fill") /\ ~Has(u, "find"))
  PROVE  t = u
<1>1. HasMutex(u)
  BY AheadOrder DEF HasMutex, InCall
<1>2. mutexes = <<t>> /\ mutexes = <<u>>
  BY <1>1 DEF MutexInv
<1> QED
  BY <1>2

LEMMA MutexSame ==
  ASSUME MutexInv, NEW t \in Tasks, Others(t), mutexes' = mutexes,
         InCall(t)' <=> InCall(t), Has(t, "mutex")' <=> Has(t, "mutex"),
         arg'[t] = NoArg <=> arg[t] = NoArg,
         mutexes = <<>> => set'[t] = set[t]
  PROVE  MutexInv'
<1>1. \A u \in Tasks \ {t} : /\ \A s : Has(u, s)' <=> Has(u, s)
                             /\ arg'[u] = arg[u] /\ set'[u] = set[u]
  BY DEF Others, Has
<1>2. \A u \in Tasks : InCall(u)' <=> InCall(u)
  BY <1>1 DEF InCall
<1>3. \A u \in Tasks : HasMutex(u)' <=> HasMutex(u)
  BY <1>1, <1>2 DEF HasMutex
<1>4. \A u \in Tasks : arg'[u] = NoArg <=> arg[u] = NoArg
  BY <1>1
<1>5. \A u \in Tasks : mutexes = <<>> => set'[u] = set[u]
  BY <1>1
<1>6. ASSUME NEW u \in Tasks
      PROVE  /\ HasMutex(u)' => mutexes' = <<u>>
             /\ mutexes' = <<u>> => HasMutex(u)'
             /\ mutexes' = <<>> => set'[u] = NoBuffers
             /\ arg'[u] # NoArg <=> InCall(u)'
  BY <1>2, <1>3, <1>4, <1>5 DEF MutexInv
<1> QED
  BY <1>6 DEF MutexInv, NoBuffers, NoArg

\* The calls of other tasks, when one slot at most changes: one that is free or
\* t's, and that t takes or frees only inside the mutex.
LEMMA OtherCalls ==
  ASSUME LockTypes, MutexInv, SlotTypes, \A u \in Tasks : CallInv(u),
         NEW t \in Tasks, Others(t),
         NEW i \in Slots, NEW x, slots' = [slots EXCEPT ![i] = x],
         slots[i].thread \in {None, t}, x.thread \in {None, t},
         x.thread = slots[i].thread \/ HasMutex(t)
  PROVE  \A u \in Tasks \ {t} : CallInv(u)'
<1> SUFFICES ASSUME NEW u \in Tasks \ {t} PROVE CallInv(u)'
  OBVIOUS
<1>1. /\ \A s : Has(u, s)' <=> Has(u, s)
      /\ arg'[u] = arg[u] /\ set'[u] = set[u]
      /\ u \in busy' <=> u \in busy
      /\ u \in woken' <=> u \in woken
  BY DEF Others, Has
<1>2. InCall(u)' <=> InCall(u)
  BY <1>1 DEF InCall
<1>3. /\ slots'[i] = x
      /\ \A j \in Slots \ {i} : slots'[j] = slots[j]
  BY DEF SlotTypes
<1>4. u # None /\ u # t
  BY XtClibAssumption
<1>5. \A j \in Slots : Is(j, u)' <=> Is(j, u)
  BY <1>3, <1>4 DEF Is
<1>6. \A j \in Slots : Is(j, u) => slots'[j] = slots[j]
  BY <1>3, <1>4 DEF Is
<1>7. ASSUME Has(u, "fill"), ~Has(u, "find")
      PROVE  \A j \in Slots : Is(j, None)' <=> Is(j, None)
  <2>1. ~HasMutex(t)
    BY <1>4, <1>7, Inside
  <2>2. QED
    BY <1>3, <2>1 DEF Is
<1>8. /\ CallInv(u)
      /\ InCall(u)' => arg'[u].ch \in Channels
      /\ Has(u, "fill")' => arg'[u].buf \in Buffers
      /\ u \in busy' => set'[u] # NoBuffers' /\ ~Has(u, "clear")' /\ ~Has(u, "sem")'
  BY <1>1, <1>2 DEF CallInv, NoBuffers
<1>9. ASSUME Has(u, "fill")', ~Has(u, "find")'
      PROVE  /\ arg'[u].slot \in Slots
             /\ Is(arg[u].slot, None)' \/ Is(arg[u].slot, u)'
             /\ \A j \in Slots : Is(j, u)' => j = arg'[u].slot
  <2>1. /\ arg[u].slot \in Slots
        /\ Is(arg[u].slot, None) \/ Is(arg[u].slot, u)
        /\ \A j \in Slots : Is(j, u) => j = arg[u].slot
    BY <1>1, <1>8, <1>9 DEF CallInv
  <2>2. \A j \in Slots : Is(j, None)' <=> Is(j, None)
    BY <1>1, <1>7, <1>9
  <2>3. slots'[arg[u].slot].thread = None \/ slots'[arg[u].slot].thread = u
    BY <1>5, <2>1, <2>2 DEF Is
  <2>4. QED
    BY <1>1, <1>5, <2>1, <2>3 DEF Is
<1>10. ASSUME Has(u, "sem")' PROVE arg'[u].slot \in Slots /\ Is(arg[u].slot, u)'
  <2>1. arg[u].slot \in Slots /\ Is(arg[u].slot, u)
    BY <1>1, <1>8, <1>10 DEF CallInv
  <2>2. slots'[arg[u].slot].thread = u
    BY <1>6, <2>1 DEF Is
  <2>3. QED
    BY <1>1, <2>1, <2>2 DEF Is
<1>11. ASSUME u \in woken'
       PROVE  ~Has(u, "sem")' /\ \E j \in Slots : Is(j, u)' /\ slots'[j].sem = 1
  BY <1>1, <1>5, <1>6, <1>8, <1>11 DEF CallInv
<1> QED
  BY <1>1, <1>8, <1>9, <1>10, <1>11 DEF CallInv, Is

LEMMA SlotStep ==
  ASSUME SlotTypes, SlotInv, NEW t \in Tasks,
         NEW i \in Slots, NEW x, slots' = [slots EXCEPT ![i] = x],
         slots[i].thread \in {None, t}, \A j \in Slots : Is(j, t) => j = i,
         NEW b, set' = [set EXCEPT ![t] = b], x.bufs = b,
         (x.thread = t /\ b # NoBuffers) \/ (x.thread = None /\ b = NoBuffers)
  PROVE  SlotInv'
<1>1. /\ slots'[i] = x
      /\ \A j \in Slots \ {i} : slots'[j] = slots[j]
      /\ set'[t] = b /\ \A u \in Tasks \ {t} : set'[u] = set[u]
  BY DEF SlotTypes
<1>2. t # None
  BY XtClibAssumption
<1>3. \A u \in Tasks \ {t} : \A j \in Slots : Is(j, u)' <=> Is(j, u)
  BY <1>1, XtClibAssumption DEF Is
<1>4. \A j \in Slots : Is(j, t)' <=> j = i /\ x.thread = t
  BY <1>1, <1>2 DEF Is
<1>5. \A j \in Slots : Is(j, None)' => slots'[j].bufs = NoBuffers
  BY <1>1, <1>2 DEF Is, SlotInv
<1>6. ASSUME NEW u \in Tasks, NEW j \in Slots, Is(j, u)'
      PROVE  /\ \A k \in Slots : Is(k, u)' => k = j
             /\ slots'[j].bufs = set'[u] /\ set'[u] # NoBuffers
  <2>1. CASE u = t
    BY <1>1, <1>2, <1>4, <1>6, <2>1
  <2>2. CASE u # t
    <3>1. Is(j, u) /\ j # i
      BY <1>3, <1>6, <2>2, XtClibAssumption DEF Is
    <3>2. QED
      BY <1>1, <1>3, <2>2, <3>1 DEF SlotInv
  <2>3. QED
    BY <2>1, <2>2
<1>7. ASSUME NEW u \in Tasks, set'[u] # NoBuffers PROVE \E j \in Slots : Is(j, u)'
  BY <1>1, <1>3, <1>4, <1>7 DEF SlotInv
<1> QED
  BY <1>5, <1>6, <1>7 DEF SlotInv, NoBuffers

LEMMA TheSlot ==
  ASSUME SlotInv, NEW t \in Tasks, NEW i \in Slots, Is(i, t)
  PROVE  Of(t) = {i} /\ Least(Of(t)) = i
<1>1. \A j \in Slots : Is(j, t) => j = i
  BY DEF SlotInv
<1>2. Of(t) = {i}
  BY <1>1 DEF Of, Is
<1>3. i \in Nat
  BY XtIdmaAssumption DEF Slots
<1>4. Least({i}) \in {i}
  BY <1>3, LeastOf
<1> QED
  BY <1>2, <1>4

\* The slot of a task, when it has one.
LEMMA HasSlot ==
  ASSUME SlotInv, NEW t \in Tasks, Of(t) # {}
  PROVE  /\ Least(Of(t)) \in Slots /\ Is(Least(Of(t)), t)
         /\ \A j \in Slots : Is(j, t) => j = Least(Of(t))
<1>1. PICK i \in Slots : Is(i, t)
  BY DEF Of, Is
<1> QED
  BY <1>1, TheSlot DEF SlotInv

LEMMA IdmaAtStart == Init => IdmaInv
<1> SUFFICES ASSUME Init PROVE IdmaInv
  OBVIOUS
<1>1. LockInv
  BY LockAtStart
<1>2. \A t \in Tasks : arg[t] = NoArg /\ set[t] = NoBuffers /\ \A s : ~Has(t, s)
  <2>1. \A t \in Tasks : todo[t] = <<>>
    BY DEF Init, ClibInit
  <2>2. QED
    BY <2>1, AheadOfNone DEF Init, Has
<1>3. \A t \in Tasks : ~InCall(t) /\ ~HasMutex(t)
  BY <1>2 DEF InCall, HasMutex
<1>4. mutexes = <<>> /\ busy = {} /\ woken = {}
  BY DEF Init
<1>5. MutexInv
  BY <1>2, <1>3, <1>4 DEF MutexInv
<1>6. SlotTypes
  <2>1. 0 \in Slots \cup {0} /\ NoSlot \in [thread : Tasks \cup {None},
                          bufs : [Channels -> Buffers \cup {None}], sem : {0, 1, None}]
    BY DEF NoSlot, NoBuffers
  <2>2. NoArg \in [ch : Channels \cup {None}, buf : Buffers \cup {None}, slot : Slots \cup {0}]
    BY DEF NoArg
  <2>3. QED
    BY <2>1, <2>2, <1>4 DEF Init, SlotTypes, NoBuffers
<1>7. \A i \in Slots : slots[i].thread = None /\ slots[i].bufs = NoBuffers
  BY DEF Init, NoSlot
<1>8. SlotInv
  BY <1>2, <1>7, XtClibAssumption DEF SlotInv, Is
<1>9. \A t \in Tasks : CallInv(t)
  BY <1>2, <1>3, <1>4 DEF CallInv
<1> QED
  BY <1>1, <1>5, <1>6, <1>8, <1>9 DEF IdmaInv

\* Steps that leave what tasks hold as it is.
LEMMA QuietStep ==
  ASSUME IdmaInv, LockInv', UNCHANGED idmaVars,
         \A t \in Tasks : Ahead(todo[t])' = Ahead(todo[t])
  PROVE  IdmaInv'
<1>1. \A t \in Tasks : \A s : Has(t, s)' <=> Has(t, s)
  BY DEF Has
<1>2. \A t \in Tasks : (InCall(t)' <=> InCall(t)) /\ (HasMutex(t)' <=> HasMutex(t))
  BY <1>1 DEF InCall, HasMutex
<1> USE DEF idmaVars
<1>3. MutexInv'
  BY <1>1, <1>2 DEF IdmaInv, MutexInv, NoBuffers, NoArg
<1>4. SlotTypes' /\ SlotInv'
  BY DEF IdmaInv, SlotTypes, SlotInv, Is, Slots, NoBuffers
<1>5. \A i \in Slots : \A t \in Tasks \cup {None} : Is(i, t)' <=> Is(i, t)
  BY DEF Is
<1>6. \A t \in Tasks : CallInv(t)'
  BY <1>1, <1>2, <1>5 DEF IdmaInv, CallInv, Is, Slots, NoBuffers
<1> QED
  BY <1>3, <1>4, <1>6 DEF IdmaInv

\* A step of task t.
LEMMA StepOf ==
  ASSUME SlotTypes, NEW t \in Tasks, NEW q, Leaves(t, q),
         NEW a, arg' = [arg EXCEPT ![t] = a], NEW b, set' = [set EXCEPT ![t] = b],
         busy' \ {t} = busy \ {t}, woken' \ {t} = woken \ {t}
  PROVE  /\ Others(t)
         /\ arg'[t] = a /\ set'[t] = b
         /\ \A s : Has(t, s)' <=> s \in q
         /\ InCall(t)' <=> "give" \in q
<1>1. /\ arg'[t] = a /\ set'[t] = b
      /\ \A u \in Tasks \ {t} : arg'[u] = arg[u] /\ set'[u] = set[u]
  BY DEF SlotTypes
<1>2. \A u \in Tasks \ {t} : (u \in busy' <=> u \in busy) /\ (u \in woken' <=> u \in woken)
  OBVIOUS
<1>3. Ahead(todo'[t]) = q /\ \A u \in Tasks \ {t} : Ahead(todo'[u]) = Ahead(todo[u])
  BY DEF Leaves
<1>4. \A s : Has(t, s)' <=> s \in q
  BY <1>3 DEF Has
<1> QED
  BY <1>1, <1>2, <1>3, <1>4 DEF Others, InCall

LEMMA SameFor ==
  ASSUME SlotTypes, NEW t \in Tasks
  PROVE  arg = [arg EXCEPT ![t] = arg[t]] /\ set = [set EXCEPT ![t] = set[t]]
BY DEF SlotTypes

LEMMA SlotsSame ==
  ASSUME IdmaInv, NEW t \in Tasks, Others(t), UNCHANGED <<slots, set>>
  PROVE  SlotInv' /\ \A u \in Tasks \ {t} : CallInv(u)'
<1>1. SlotInv'
  BY DEF IdmaInv, SlotInv, Is, Slots, NoBuffers
<1>2. ASSUME NEW u \in Tasks \ {t} PROVE CallInv(u)'
  <2>1. /\ \A s : Has(u, s)' <=> Has(u, s)
        /\ arg'[u] = arg[u] /\ set'[u] = set[u]
        /\ u \in busy' <=> u \in busy
        /\ u \in woken' <=> u \in woken
    BY DEF Others, Has
  <2>2. InCall(u)' <=> InCall(u)
    BY <2>1 DEF InCall
  <2>3. CallInv(u)
    BY DEF IdmaInv
  <2>4. QED
    BY <2>1, <2>2, <2>3 DEF CallInv, Is, Slots, NoBuffers
<1> QED
  BY <1>1, <1>2

\* Task t has nothing left to do.
LEMMA Idle ==
  ASSUME MutexInv, NEW t \in Tasks, todo[t] = <<>>
  PROVE  /\ \A s : ~Has(t, s)
         /\ ~InCall(t) /\ ~HasMutex(t) /\ arg[t] = NoArg
<1>1. \A s : ~Has(t, s)
  BY AheadOfNone DEF Has
<1> QED
  BY <1>1 DEF InCall, HasMutex, MutexInv

LEMMA CallSetKeeps ==
  ASSUME IdmaInv, LockInv', NEW t \in Tasks, CallSet(t)
  PROVE  IdmaInv'
<1>1. /\ \A s : ~Has(t, s)
      /\ ~InCall(t) /\ ~HasMutex(t) /\ arg[t] = NoArg
  BY Idle DEF CallSet, IdmaInv
<1>2. PICK ch \in Channels, b \in Buffers :
        arg' = [arg EXCEPT ![t] = [NoArg EXCEPT !.ch = ch, !.buf = b]]
  BY DEF CallSet
<1> DEFINE a == [NoArg EXCEPT !.ch = ch, !.buf = b]
           q == {"mutex", "find", "fill", "give"}
<1>3. Leaves(t, q)
  BY SetBufferPlan, CallAhead, AheadOfWholes DEF CallSet, IdmaInv, LockInv, Wholes
<1>4. set' = [set EXCEPT ![t] = set[t]] /\ UNCHANGED <<slots, mutexes, busy, set, woken>>
  BY SameFor DEF CallSet, IdmaInv
<1>5. a.ch = ch /\ a.buf = b /\ a # NoArg /\ arg' = [arg EXCEPT ![t] = a]
      /\ a \in [ch : Channels \cup {None}, buf : Buffers \cup {None}, slot : Slots \cup {0}]
  BY <1>2, XtIdmaAssumption DEF NoArg
<1> HIDE DEF q, a
<1>6. /\ Others(t) /\ arg'[t] = a /\ set'[t] = set[t]
      /\ \A s : Has(t, s)' <=> s \in q
      /\ InCall(t)' <=> "give" \in q
  <2>1. SlotTypes /\ busy' \ {t} = busy \ {t} /\ woken' \ {t} = woken \ {t}
    BY <1>4 DEF IdmaInv
  <2>2. arg' = [arg EXCEPT ![t] = a] /\ set' = [set EXCEPT ![t] = set[t]]
    BY <1>4, <1>5
  <2>3. QED
    BY <1>3, <2>1, <2>2, StepOf
<1>7. MutexInv'
  <2>1. \A u \in Tasks \ {t} : /\ \A s : Has(u, s)' <=> Has(u, s)
                               /\ arg'[u] = arg[u] /\ set'[u] = set[u]
    BY <1>6 DEF Others, Has
  <2>2. \A u \in Tasks \ {t} : InCall(u)' <=> InCall(u)
    BY <2>1 DEF InCall
  <2>3. \A u \in Tasks : HasMutex(u)' <=> HasMutex(u)
    BY <1>1, <1>6, <2>1, <2>2 DEF HasMutex, q
  <2>4. InCall(t)'
    BY <1>6 DEF q
  <2>5. ASSUME NEW u \in Tasks
        PROVE  /\ HasMutex(u)' => mutexes' = <<u>>
               /\ mutexes' = <<u>> => HasMutex(u)'
               /\ mutexes' = <<>> => set'[u] = NoBuffers
               /\ arg'[u] # NoArg <=> InCall(u)'
    BY <1>4, <1>6, <1>5, <2>1, <2>2, <2>3, <2>4 DEF IdmaInv, MutexInv
  <2>6. QED
    BY <1>4, <2>5 DEF IdmaInv, MutexInv, NoBuffers, NoArg
<1>8. SlotTypes'
  BY <1>4, <1>5 DEF IdmaInv, SlotTypes, Slots
<1>9. SlotInv' /\ \A u \in Tasks \ {t} : CallInv(u)'
  BY <1>4, <1>6, SlotsSame
<1>10. CallInv(t)'
  <2>1. /\ Has(t, "find")' /\ ~Has(t, "sem")' /\ ~Has(t, "clear")'
    BY <1>6 DEF q
  <2>2. /\ t \in busy => set[t] # NoBuffers
        /\ t \in woken => \E i \in Slots : Is(i, t) /\ slots[i].sem = 1
    BY DEF IdmaInv, CallInv
  <2>3. QED
    BY <1>4, <1>6, <1>5, <2>1, <2>2 DEF CallInv, Is, Slots, NoBuffers
<1> QED
  BY <1>7, <1>8, <1>9, <1>10 DEF IdmaInv

LEMMA CallClearKeeps ==
  ASSUME IdmaInv, LockInv', NEW t \in Tasks, CallClear(t)
  PROVE  IdmaInv'
<1>1. /\ \A s : ~Has(t, s)
      /\ ~InCall(t) /\ ~HasMutex(t) /\ arg[t] = NoArg
  BY Idle DEF CallClear, IdmaInv
<1>2. PICK ch \in Channels : /\ set[t][ch] # None
                             /\ arg' = [arg EXCEPT ![t] = [NoArg EXCEPT !.ch = ch]]
  BY DEF CallClear
<1> DEFINE a == [NoArg EXCEPT !.ch = ch]
           q == {"mutex", "clear", "give"}
<1>3. Leaves(t, q)
  BY ClearBufferPlan, CallAhead, AheadOfWholes DEF CallClear, IdmaInv, LockInv, Wholes
<1>4. /\ set' = [set EXCEPT ![t] = set[t]] /\ UNCHANGED <<slots, mutexes, busy, set, woken>>
      /\ t \notin busy
  BY SameFor DEF CallClear, IdmaInv
<1>5. a.ch = ch /\ a # NoArg /\ arg' = [arg EXCEPT ![t] = a]
      /\ a \in [ch : Channels \cup {None}, buf : Buffers \cup {None}, slot : Slots \cup {0}]
  BY <1>2, XtIdmaAssumption DEF NoArg
<1> HIDE DEF q, a
<1>6. /\ Others(t) /\ arg'[t] = a /\ set'[t] = set[t]
      /\ \A s : Has(t, s)' <=> s \in q
      /\ InCall(t)' <=> "give" \in q
  <2>1. SlotTypes /\ busy' \ {t} = busy \ {t} /\ woken' \ {t} = woken \ {t}
    BY <1>4 DEF IdmaInv
  <2>2. arg' = [arg EXCEPT ![t] = a] /\ set' = [set EXCEPT ![t] = set[t]]
    BY <1>4, <1>5
  <2>3. QED
    BY <1>3, <2>1, <2>2, StepOf
<1>7. MutexInv'
  <2>1. \A u \in Tasks \ {t} : /\ \A s : Has(u, s)' <=> Has(u, s)
                               /\ arg'[u] = arg[u] /\ set'[u] = set[u]
    BY <1>6 DEF Others, Has
  <2>2. \A u \in Tasks \ {t} : InCall(u)' <=> InCall(u)
    BY <2>1 DEF InCall
  <2>3. \A u \in Tasks : HasMutex(u)' <=> HasMutex(u)
    BY <1>1, <1>6, <2>1, <2>2 DEF HasMutex, q
  <2>4. set[t] # NoBuffers
    BY <1>2 DEF NoBuffers
  <2>5. mutexes # <<>>
    BY <2>4 DEF IdmaInv, MutexInv
  <2>6. InCall(t)'
    BY <1>6 DEF q
  <2>7. ASSUME NEW u \in Tasks
        PROVE  /\ HasMutex(u)' => mutexes' = <<u>>
               /\ mutexes' = <<u>> => HasMutex(u)'
               /\ arg'[u] # NoArg <=> InCall(u)'
    BY <1>4, <1>6, <1>5, <2>1, <2>2, <2>3, <2>6 DEF IdmaInv, MutexInv
  <2>8. QED
    BY <1>4, <2>5, <2>7 DEF IdmaInv, MutexInv, NoBuffers, NoArg
<1>8. SlotTypes'
  BY <1>4, <1>5 DEF IdmaInv, SlotTypes, Slots
<1>9. SlotInv' /\ \A u \in Tasks \ {t} : CallInv(u)'
  BY <1>4, <1>6, SlotsSame
<1>10. CallInv(t)'
  <2>1. ~Has(t, "fill")' /\ ~Has(t, "sem")'
    BY <1>6 DEF q
  <2>2. t \in woken => \E i \in Slots : Is(i, t) /\ slots[i].sem = 1
    BY DEF IdmaInv, CallInv
  <2>3. QED
    BY <1>4, <1>6, <1>5, <2>1, <2>2 DEF CallInv, Is, Slots, NoBuffers
<1> QED
  BY <1>7, <1>8, <1>9, <1>10 DEF IdmaInv

LEMMA TestKeeps ==
  ASSUME IdmaInv, LockInv', NEW t \in Tasks, Test(t)
  PROVE  IdmaInv'
<1>1. LockTypes /\ At(t, "create") /\ UNCHANGED idmaVars
  BY DEF Test, IdmaInv, LockInv
<1>2. CASE mutexes # <<>>
  <2>1. Done(t)
    BY <1>2 DEF Test, Done
  <2>2. Leaves(t, Ahead(todo[t]) \ {"create"})
    BY <1>1, <2>1, DoneAhead
  <2>3. Ahead(todo[t]) \ {"create"} = Ahead(todo[t])
    BY DEF Ahead, Marks
  <2>4. QED
    BY <1>1, <2>2, <2>3, QuietStep DEF Leaves
<1>3. CASE mutexes = <<>>
  <2>1. todo[t] \in Plans /\ todo[t] # <<>> /\ Head(todo[t]) = "create"
    BY <1>1, AtPlan
  <2>2. todo[t] = SetBuffer
    BY <2>1, CreatePlan
  <2>3. todo' = [todo EXCEPT ![t] = SetFirst]
    BY <1>3, <2>2, SetFirstPlan DEF Test, Then
  <2> DEFINE q == {"created", "mutex", "find", "fill", "give"}
  <2>4. Leaves(t, q)
    BY <1>1, <2>3, CallAhead, AheadOfWholes DEF Wholes
  <2>5. /\ arg' = [arg EXCEPT ![t] = arg[t]] /\ set' = [set EXCEPT ![t] = set[t]]
        /\ UNCHANGED <<slots, mutexes, arg, busy, set, woken>>
    BY <1>1, SameFor DEF IdmaInv, idmaVars
  <2> HIDE DEF q
  <2>6. /\ Others(t) /\ arg'[t] = arg[t] /\ set'[t] = set[t]
        /\ \A s : Has(t, s)' <=> s \in q
        /\ InCall(t)' <=> "give" \in q
    BY <2>4, <2>5, StepOf DEF IdmaInv
  <2>7. \A s : Has(t, s) <=> s \in {"mutex", "find", "fill", "give"}
    BY <2>2, AheadOfWholes DEF Has
  <2>8. /\ \A s \in {"mutex", "find", "fill", "sem", "clear", "give"} :
             Has(t, s)' <=> Has(t, s)
        /\ InCall(t)' <=> InCall(t)
    BY <2>6, <2>7 DEF q, InCall
  <2>9. MutexInv'
    BY <1>3, <2>5, <2>6, <2>8, MutexSame DEF IdmaInv
  <2>10. SlotTypes'
    BY <2>5 DEF IdmaInv, SlotTypes, Slots
  <2>11. SlotInv' /\ \A u \in Tasks \ {t} : CallInv(u)'
    BY <2>5, <2>6, SlotsSame
  <2>12. CallInv(t)'
    <3>1. CallInv(t)
      BY DEF IdmaInv
    <3>2. QED
      BY <2>5, <2>8, <3>1 DEF CallInv, Is, Slots, NoBuffers
  <2>13. QED
    BY <2>9, <2>10, <2>11, <2>12 DEF IdmaInv
<1> QED
  BY <1>2, <1>3

LEMMA CreatedKeeps ==
  ASSUME IdmaInv, LockInv', mutexes = <<>>, NEW t \in Tasks, Created(t)
  PROVE  IdmaInv'
<1>1. LockTypes /\ At(t, "created") /\ Done(t) /\ UNCHANGED <<slots, arg, busy, set, woken>>
  BY DEF Created, IdmaInv, LockInv
<1>2. Has(t, "created") /\ Has(t, "mutex") /\ InCall(t)
  BY <1>1, AtAhead, AheadOrder DEF Marks, InCall
<1>3. mutexes' = <<None>>
  <2>1. Append(<<>>, None) = <<None>>
    OBVIOUS
  <2>2. QED
    BY <2>1 DEF Created
<1> DEFINE q == Ahead(todo[t]) \ {"created"}
<1>4. Leaves(t, q)
  BY <1>1, DoneAhead
<1>5. arg' = [arg EXCEPT ![t] = arg[t]] /\ set' = [set EXCEPT ![t] = set[t]]
  BY <1>1, SameFor DEF IdmaInv
<1>6. \A s : s \in q <=> Has(t, s) /\ s # "created"
  BY DEF Has
<1> HIDE DEF q
<1>7. /\ Others(t)
      /\ \A s : Has(t, s)' <=> s \in q
      /\ InCall(t)' <=> "give" \in q
  BY <1>1, <1>4, <1>5, StepOf DEF IdmaInv
<1>8. MutexInv'
  <2>1. \A u \in Tasks \ {t} : \A s : Has(u, s)' <=> Has(u, s)
    BY <1>7 DEF Others, Has
  <2>2. \A u \in Tasks : InCall(u)' <=> InCall(u)
    BY <1>6, <1>7, <2>1 DEF InCall
  <2>3. \A u \in Tasks : ~HasMutex(u)
    BY DEF IdmaInv, MutexInv
  <2>4. \A u \in Tasks : ~HasMutex(u)'
    BY <1>6, <1>7, <2>1, <2>2, <2>3 DEF HasMutex
  <2>5. \A u \in Tasks : mutexes' # <<u>> /\ mutexes' # <<>>
    BY <1>3, XtClibAssumption
  <2>6. \A u \in Tasks : arg'[u] # NoArg <=> InCall(u)'
    BY <1>1, <2>2 DEF IdmaInv, MutexInv
  <2>7. QED
    BY <1>3, <2>4, <2>5, <2>6 DEF MutexInv, NoBuffers, NoArg
<1>9. SlotTypes'
  BY <1>1 DEF IdmaInv, SlotTypes, Slots
<1>10. SlotInv' /\ \A u \in Tasks \ {t} : CallInv(u)'
  BY <1>1, <1>7, SlotsSame
<1>11. CallInv(t)'
  <2>1. CallInv(t)
    BY DEF IdmaInv
  <2>2. QED
    BY <1>1, <1>2, <1>6, <1>7, <2>1 DEF CallInv, Is, Slots, NoBuffers, InCall
<1> QED
  BY <1>8, <1>9, <1>10, <1>11 DEF IdmaInv

LEMMA TakeMutexKeeps ==
  ASSUME IdmaInv, LockInv', NEW t \in Tasks, TakeMutex(t)
  PROVE  IdmaInv'
<1>1. LockTypes /\ At(t, "mutex") /\ Done(t) /\ UNCHANGED <<slots, arg, busy, set, woken>>
  BY DEF TakeMutex, IdmaInv, LockInv
<1>2. Has(t, "mutex") /\ ~Has(t, "created") /\ InCall(t) /\ (Has(t, "fill") => Has(t, "find"))
  BY <1>1, AtAhead, AheadOrder DEF Marks, InCall
<1>3. mutexes = <<None>> /\ mutexes' = <<t>>
  <2>1. PICK v \in Tasks \cup {None} : mutexes = <<v>>
    BY DEF TakeMutex, IdmaInv, MutexInv
  <2>2. Len(mutexes) = 1 /\ mutexes[1] = v
    BY <2>1
  <2>3. QED
    BY <2>1, <2>2 DEF TakeMutex
<1> DEFINE q == Ahead(todo[t]) \ {"mutex"}
<1>4. Leaves(t, q)
  BY <1>1, DoneAhead
<1>5. arg' = [arg EXCEPT ![t] = arg[t]] /\ set' = [set EXCEPT ![t] = set[t]]
  BY <1>1, SameFor DEF IdmaInv
<1>6. \A s : s \in q <=> Has(t, s) /\ s # "mutex"
  BY DEF Has
<1> HIDE DEF q
<1>7. /\ Others(t)
      /\ \A s : Has(t, s)' <=> s \in q
      /\ InCall(t)' <=> "give" \in q
  BY <1>1, <1>4, <1>5, StepOf DEF IdmaInv
<1>8. MutexInv'
  <2>1. \A u \in Tasks \ {t} : \A s : Has(u, s)' <=> Has(u, s)
    BY <1>7 DEF Others, Has
  <2>2. \A u \in Tasks : InCall(u)' <=> InCall(u)
    BY <1>6, <1>7, <2>1 DEF InCall
  <2>3. \A u \in Tasks : ~HasMutex(u)
    BY <1>3, XtClibAssumption DEF IdmaInv, MutexInv
  <2>4. \A u \in Tasks : HasMutex(u)' <=> u = t
    BY <1>2, <1>6, <1>7, <2>1, <2>2, <2>3 DEF HasMutex
  <2>5. \A u \in Tasks : (mutexes' = <<u>> <=> u = t) /\ mutexes' # <<>>
    BY <1>3
  <2>6. \A u \in Tasks : arg'[u] # NoArg <=> InCall(u)'
    BY <1>1, <2>2 DEF IdmaInv, MutexInv
  <2>7. QED
    BY <1>3, <2>4, <2>5, <2>6 DEF MutexInv, NoBuffers, NoArg
<1>9. SlotTypes'
  BY <1>1 DEF IdmaInv, SlotTypes, Slots
<1>10. SlotInv' /\ \A u \in Tasks \ {t} : CallInv(u)'
  BY <1>1, <1>7, SlotsSame
<1>11. CallInv(t)'
  <2>1. CallInv(t)
    BY DEF IdmaInv
  <2>2. QED
    BY <1>1, <1>2, <1>6, <1>7, <2>1 DEF CallInv, Is, Slots, NoBuffers, InCall
<1> QED
  BY <1>8, <1>9, <1>10, <1>11 DEF IdmaInv

LEMMA GiveMutexKeeps ==
  ASSUME IdmaInv, LockInv', NEW t \in Tasks, GiveMutex(t)
  PROVE  IdmaInv'
<1>1. /\ LockTypes /\ At(t, "give") /\ Done(t) /\ UNCHANGED <<slots, busy, set, woken>>
      /\ arg' = [arg EXCEPT ![t] = NoArg]
  BY DEF GiveMutex, IdmaInv, LockInv
<1>2. Ahead(todo[t]) = {"give"}
  BY <1>1, AtPlan, PlanAhead
<1>3. InCall(t) /\ HasMutex(t)
  BY <1>2 DEF InCall, HasMutex, Has
<1>4. mutexes = <<t>> /\ mutexes' = <<None>>
  <2>1. mutexes = <<t>>
    BY <1>3 DEF IdmaInv, MutexInv
  <2>2. Len(<<t>>) = 1 /\ [<<t>> EXCEPT ![1] = None] = <<None>>
    OBVIOUS
  <2>3. QED
    BY <2>1, <2>2 DEF GiveMutex
<1> DEFINE q == Ahead(todo[t]) \ {"give"}
<1>5. Leaves(t, q) /\ \A s : s \notin q
  <2>1. \A s : s \notin q
    BY <1>2
  <2>2. QED
    BY <1>1, <2>1, DoneAhead
<1> HIDE DEF q
<1>6. set' = [set EXCEPT ![t] = set[t]]
  BY <1>1, SameFor DEF IdmaInv
<1>7. /\ Others(t) /\ arg'[t] = NoArg
      /\ \A s : ~Has(t, s)'
      /\ ~InCall(t)'
  BY <1>1, <1>5, <1>6, StepOf DEF IdmaInv
<1>8. MutexInv'
  <2>1. \A u \in Tasks \ {t} : /\ \A s : Has(u, s)' <=> Has(u, s)
                               /\ arg'[u] = arg[u]
    BY <1>7 DEF Others, Has
  <2>2. \A u \in Tasks \ {t} : InCall(u)' <=> InCall(u)
    BY <2>1 DEF InCall
  <2>3. \A u \in Tasks \ {t} : ~HasMutex(u)
    <3>1. \A u \in Tasks \ {t} : mutexes # <<u>>
      BY <1>4
    <3>2. QED
      BY <3>1 DEF IdmaInv, MutexInv
  <2>4. \A u \in Tasks : ~HasMutex(u)'
    BY <1>7, <2>1, <2>2, <2>3 DEF HasMutex
  <2>5. \A u \in Tasks : mutexes' # <<u>> /\ mutexes' # <<>>
    BY <1>4, XtClibAssumption
  <2>6. \A u \in Tasks : arg'[u] # NoArg <=> InCall(u)'
    BY <1>7, <2>1, <2>2 DEF IdmaInv, MutexInv
  <2>7. QED
    BY <1>4, <2>4, <2>5, <2>6 DEF MutexInv, NoBuffers, NoArg
<1>9. SlotTypes'
  <2>1. NoArg \in [ch : Channels \cup {None}, buf : Buffers \cup {None}, slot : Slots \cup {0}]
    BY DEF NoArg
  <2>2. QED
    BY <1>1, <2>1 DEF IdmaInv, SlotTypes, Slots
<1>10. SlotInv' /\ \A u \in Tasks \ {t} : CallInv(u)'
  BY <1>1, <1>7, SlotsSame
<1>11. CallInv(t)'
  <2>1. CallInv(t)
    BY DEF IdmaInv
  <2>2. QED
    BY <1>1, <1>7, <2>1 DEF CallInv, Is, Slots, NoBuffers
<1> QED
  BY <1>8, <1>9, <1>10, <1>11 DEF IdmaInv

LEMMA FindKeeps ==
  ASSUME IdmaInv, LockInv', NEW t \in Tasks, Find(t)
  PROVE  IdmaInv'
<1> DEFINE i == Least(IF Of(t) # {} THEN Of(t) ELSE Free)
           a == [arg[t] EXCEPT !.slot = i]
           q == Ahead(todo[t]) \ {"find"}
<1>1. /\ LockTypes /\ At(t, "find") /\ Done(t)
      /\ UNCHANGED <<slots, mutexes, busy, set, woken>>
  BY DEF Find, IdmaInv, LockInv
<1>2. Has(t, "find") /\ ~Has(t, "mutex") /\ InCall(t) /\ ~Has(t, "sem") /\ ~Has(t, "clear")
  BY <1>1, AtAhead, AheadOrder DEF Marks, InCall
<1>3. /\ i \in Slots
      /\ Is(i, None) \/ Is(i, t)
      /\ \A j \in Slots : Is(j, t) => j = i
  <2>1. CASE Of(t) # {}
    BY <2>1, HasSlot DEF IdmaInv
  <2>2. CASE Of(t) = {}
    <3>1. Free \in SUBSET Nat /\ Free # {}
      BY <2>2, XtIdmaAssumption DEF Find, Free, Of, Slots
    <3>2. i \in Free
      BY <2>2, <3>1, LeastOf
    <3>3. \A j \in Slots : ~Is(j, t)
      BY <2>2 DEF Of, Is
    <3>4. QED
      BY <3>2, <3>3 DEF Free, Of, Is
  <2>3. QED
    BY <2>1, <2>2
<1>4. arg[t] \in [ch : Channels \cup {None}, buf : Buffers \cup {None}, slot : Slots \cup {0}]
  BY DEF IdmaInv, SlotTypes
<1> HIDE DEF i
<1>5. /\ a \in [ch : Channels \cup {None}, buf : Buffers \cup {None}, slot : Slots \cup {0}]
      /\ a.ch = arg[t].ch /\ a.buf = arg[t].buf /\ a.slot = i
  BY <1>3, <1>4
<1>6. arg' = [arg EXCEPT ![t] = a] /\ set' = [set EXCEPT ![t] = set[t]]
  BY <1>1, SameFor DEF Find, IdmaInv, i
<1>7. Leaves(t, q)
  BY <1>1, DoneAhead
<1>8. \A s : s \in q <=> Has(t, s) /\ s # "find"
  BY DEF Has
<1> HIDE DEF a, q
<1>9. /\ Others(t) /\ arg'[t] = a /\ set'[t] = set[t]
      /\ \A s : Has(t, s)' <=> s \in q
      /\ InCall(t)' <=> "give" \in q
  BY <1>1, <1>6, <1>7, StepOf DEF IdmaInv
<1>10. a # NoArg /\ arg[t] # NoArg
  <2>1. arg[t].ch \in Channels
    BY <1>2 DEF IdmaInv, CallInv
  <2>2. QED
    BY <1>5, <2>1, XtIdmaAssumption DEF NoArg
<1>11. MutexInv'
  <2>1. /\ InCall(t)' <=> InCall(t)
        /\ Has(t, "mutex")' <=> Has(t, "mutex")
    BY <1>8, <1>9 DEF InCall, IdmaInv, MutexInv
  <2>2. QED
    BY <1>1, <1>9, <1>10, <2>1, MutexSame DEF IdmaInv
<1>12. SlotTypes'
  BY <1>1, <1>5, <1>6 DEF IdmaInv, SlotTypes, Slots
<1>13. SlotInv' /\ \A u \in Tasks \ {t} : CallInv(u)'
  BY <1>1, <1>9, SlotsSame
<1>14. CallInv(t)'
  <2>1. CallInv(t)
    BY DEF IdmaInv
  <2>2. InCall(t)' => arg'[t].ch \in Channels
    BY <1>2, <1>5, <1>9, <2>1 DEF CallInv
  <2>3. Has(t, "fill")' => arg'[t].buf \in Buffers
    BY <1>5, <1>8, <1>9, <2>1 DEF CallInv
  <2>4. /\ arg'[t].slot \in Slots
        /\ Is(arg[t].slot, None)' \/ Is(arg[t].slot, t)'
        /\ \A j \in Slots : Is(j, t)' => j = arg'[t].slot
    BY <1>1, <1>3, <1>5, <1>9 DEF Is
  <2>5. QED
    BY <1>1, <1>2, <1>5, <1>8, <1>9, <2>1, <2>2, <2>3, <2>4
    DEF CallInv, Is, Slots, NoBuffers
<1> QED
  BY <1>11, <1>12, <1>13, <1>14 DEF IdmaInv

\* The buffer goes into the task's slot, which it takes with its first buffer.
LEMMA FillKeeps ==
  ASSUME IdmaInv, LockInv', NEW t \in Tasks, Fill(t)
  PROVE  IdmaInv'
<1> DEFINE i == arg[t].slot
           ch == arg[t].ch
           buf == arg[t].buf
           b == [set[t] EXCEPT ![ch] = buf]
           x == [slots[i] EXCEPT !.thread = t, !.bufs = b]
           q == IF IsNew(t) THEN {"sem", "give"} ELSE Ahead(todo[t]) \ {"fill"}
<1>1. LockTypes /\ At(t, "fill") /\ UNCHANGED <<mutexes, arg, busy, woken>>
  BY DEF Fill, IdmaInv, LockInv
<1>2. /\ Has(t, "fill") /\ ~Has(t, "find") /\ ~Has(t, "mutex") /\ InCall(t)
      /\ ~Has(t, "sem") /\ ~Has(t, "clear") /\ HasMutex(t)
  BY <1>1, AtAhead, AheadOrder DEF Marks, InCall, HasMutex
<1>3. /\ i \in Slots /\ ch \in Channels /\ buf \in Buffers
      /\ slots[i].thread \in {None, t}
      /\ \A j \in Slots : Is(j, t) => j = i
  BY <1>2 DEF IdmaInv, CallInv, Is
<1>4. /\ slots[i] \in [thread : Tasks \cup {None}, bufs : [Channels -> Buffers \cup {None}],
                       sem : {0, 1, None}]
      /\ set[t] \in [Channels -> Buffers \cup {None}]
  BY <1>3 DEF IdmaInv, SlotTypes
<1>5. slots[i].bufs = set[t]
  <2>1. CASE slots[i].thread = t
    BY <1>3, <2>1 DEF IdmaInv, SlotInv, Is
  <2>2. CASE slots[i].thread # t
    <3>1. \A j \in Slots : ~Is(j, t)
      BY <1>3, <2>2 DEF Is
    <3>2. set[t] = NoBuffers
      BY <3>1 DEF IdmaInv, SlotInv
    <3>3. Is(i, None)
      BY <1>3, <2>2 DEF Is
    <3>4. slots[i].bufs = NoBuffers
      BY <1>3, <3>3 DEF IdmaInv, SlotInv
    <3>5. QED
      BY <3>2, <3>4
  <2>3. QED
    BY <2>1, <2>2
<1>6. slots' = [slots EXCEPT ![i] = x] /\ set' = [set EXCEPT ![t] = b]
  <2>1. set' = [set EXCEPT ![t] = b]
    BY DEF Fill
  <2>2. slots' = [slots EXCEPT ![i].thread = t, ![i].bufs[ch] = buf]
    BY DEF Fill
  <2>3. [slots[i].bufs EXCEPT ![ch] = buf] = b
    BY <1>5
  <2>4. slots' = [slots EXCEPT ![i] = [slots[i] EXCEPT !.thread = t,
                                         !.bufs = [slots[i].bufs EXCEPT ![ch] = buf]]]
    BY <1>3, <1>4, <2>2 DEF IdmaInv, SlotTypes
  <2>5. QED
    BY <2>1, <2>3, <2>4
<1>7. b \in [Channels -> Buffers \cup {None}] /\ b # NoBuffers
  <2>1. b[ch] # None
    BY <1>3, <1>4, XtIdmaAssumption
  <2>2. QED
    BY <1>3, <1>4, <2>1 DEF NoBuffers
<1> HIDE DEF b
<1>8. /\ x \in [thread : Tasks \cup {None}, bufs : [Channels -> Buffers \cup {None}],
                sem : {0, 1, None}]
      /\ x.thread = t /\ x.bufs = b /\ x.sem = slots[i].sem
  BY <1>4, <1>7
<1>9. Leaves(t, q)
  <2>1. todo[t] \in Plans /\ todo[t] # <<>> /\ Head(todo[t]) = "fill"
    BY <1>1, AtPlan
  <2>2. CASE IsNew(t)
    <3>1. Tail(todo[t]) = <<"unmask", "give">>
      BY <2>1, ClosingPlan
    <3>2. todo' = [todo EXCEPT ![t] = SetNew]
      BY <2>2, <3>1, SetNewPlan DEF Fill, Then
    <3>3. Leaves(t, Ahead(SetNew))
      BY <1>1, <3>2, CallAhead DEF Wholes
    <3>4. QED
      BY <2>2, <3>3, AheadOfWholes
  <2>3. CASE ~IsNew(t)
    <3>1. Done(t)
      BY <2>3 DEF Fill, Done
    <3>2. QED
      BY <1>1, <2>3, <3>1, DoneAhead
  <2>4. QED
    BY <2>2, <2>3
<1>10. /\ "give" \in q /\ "mutex" \notin q /\ "fill" \notin q /\ "clear" \notin q
       /\ "created" \in q => Has(t, "created")
       /\ "sem" \in q => IsNew(t)
  BY <1>2 DEF Has, InCall
<1> HIDE DEF x, q
<1>11. arg' = [arg EXCEPT ![t] = arg[t]]
  BY <1>1, SameFor DEF IdmaInv
<1>12. /\ Others(t) /\ arg'[t] = arg[t] /\ set'[t] = b
       /\ \A s : Has(t, s)' <=> s \in q
       /\ InCall(t)' <=> "give" \in q
  BY <1>1, <1>6, <1>9, <1>11, StepOf DEF IdmaInv
<1>13. slots'[i] = x
  BY <1>3, <1>6 DEF IdmaInv, SlotTypes
<1>14. MutexInv'
  <2>1. /\ InCall(t)' <=> InCall(t)
        /\ Has(t, "mutex")' <=> Has(t, "mutex")
    BY <1>2, <1>10, <1>12 DEF IdmaInv, MutexInv
  <2>2. mutexes # <<>>
    BY <1>2 DEF IdmaInv, MutexInv
  <2>3. QED
    BY <1>1, <1>12, <2>1, <2>2, MutexSame DEF IdmaInv
<1>15. SlotTypes'
  BY <1>1, <1>3, <1>6, <1>7, <1>8 DEF IdmaInv, SlotTypes, Slots
<1>16. SlotInv'
  BY <1>3, <1>6, <1>7, <1>8, SlotStep DEF IdmaInv
<1>17. \A u \in Tasks \ {t} : CallInv(u)'
  BY <1>1, <1>2, <1>3, <1>6, <1>8, <1>12, OtherCalls DEF IdmaInv
<1>18. CallInv(t)'
  <2>1. CallInv(t)
    BY DEF IdmaInv
  <2>2. slots'[i].thread = t
    BY <1>8, <1>13
  <2>3. Has(t, "sem")' => arg'[t].slot \in Slots /\ Is(arg[t].slot, t)'
    BY <1>1, <1>3, <2>2 DEF Is
  <2>4. IsNew(t) => t \notin busy /\ t \notin woken
    <3>1. ASSUME IsNew(t) PROVE t \notin busy /\ t \notin woken
      <4>1. \A j \in Slots : ~Is(j, t)
        BY <1>3, <3>1 DEF Is, IsNew
      <4>2. set[t] = NoBuffers
        BY <4>1 DEF IdmaInv, SlotInv
      <4>3. QED
        BY <2>1, <4>1, <4>2 DEF CallInv
    <3>2. QED
      BY <3>1
  <2>5. t \in woken => \E j \in Slots : Is(j, t)' /\ slots'[j].sem = 1
    <3>1. ASSUME t \in woken PROVE slots[i].sem = 1
      BY <1>3, <2>1, <3>1 DEF CallInv
    <3>2. QED
      BY <1>3, <1>8, <1>13, <2>2, <3>1 DEF Is
  <2>6. QED
    BY <1>1, <1>3, <1>7, <1>10, <1>12, <2>3, <2>4, <2>5 DEF CallInv, Is, Slots, NoBuffers
<1> QED
  BY <1>14, <1>15, <1>16, <1>17, <1>18 DEF IdmaInv

LEMMA CreateSemaphoreKeeps ==
  ASSUME IdmaInv, LockInv', NEW t \in Tasks, CreateSemaphore(t)
  PROVE  IdmaInv'
<1> DEFINE i == arg[t].slot
           x == [slots[i] EXCEPT !.sem = 0]
           q == Ahead(todo[t]) \ {"sem"}
<1>1. /\ LockTypes /\ At(t, "sem") /\ Done(t)
      /\ UNCHANGED <<mutexes, arg, busy, set, woken>>
  BY DEF CreateSemaphore, IdmaInv, LockInv
<1>2. /\ Has(t, "sem") /\ ~Has(t, "mutex") /\ ~Has(t, "fill") /\ ~Has(t, "clear")
      /\ InCall(t) /\ HasMutex(t)
  BY <1>1, AtAhead, AheadOrder DEF Marks, InCall, HasMutex
<1>3. i \in Slots /\ slots[i].thread = t /\ \A j \in Slots : Is(j, t) => j = i
  BY <1>2 DEF IdmaInv, CallInv, SlotInv, Is
<1>4. slots[i] \in [thread : Tasks \cup {None}, bufs : [Channels -> Buffers \cup {None}],
                    sem : {0, 1, None}]
  BY <1>3 DEF IdmaInv, SlotTypes
<1>5. slots[i].bufs = set[t] /\ set[t] # NoBuffers
  BY <1>3 DEF IdmaInv, SlotInv, Is
<1>6. slots' = [slots EXCEPT ![i] = x] /\ slots'[i] = x
  <2>1. slots' = [slots EXCEPT ![i].sem = 0]
    BY DEF CreateSemaphore
  <2>2. QED
    BY <1>3, <2>1 DEF IdmaInv, SlotTypes
<1>7. /\ x \in [thread : Tasks \cup {None}, bufs : [Channels -> Buffers \cup {None}],
                sem : {0, 1, None}]
      /\ x.thread = t /\ x.bufs = set[t]
  BY <1>3, <1>4, <1>5
<1>8. Leaves(t, q)
  BY <1>1, DoneAhead
<1>9. \A s : s \in q <=> Has(t, s) /\ s # "sem"
  BY DEF Has
<1> HIDE DEF x, q
<1>10. arg' = [arg EXCEPT ![t] = arg[t]] /\ set' = [set EXCEPT ![t] = set[t]]
  BY <1>1, SameFor DEF IdmaInv
<1>11. /\ Others(t) /\ arg'[t] = arg[t] /\ set'[t] = set[t]
       /\ \A s : Has(t, s)' <=> s \in q
       /\ InCall(t)' <=> "give" \in q
  BY <1>1, <1>8, <1>10, StepOf DEF IdmaInv
<1>12. MutexInv'
  <2>1. /\ InCall(t)' <=> InCall(t)
        /\ Has(t, "mutex")' <=> Has(t, "mutex")
    BY <1>2, <1>9, <1>11 DEF InCall, IdmaInv, MutexInv
  <2>2. QED
    BY <1>1, <1>11, <2>1, MutexSame DEF IdmaInv
<1>13. SlotTypes'
  BY <1>1, <1>3, <1>6, <1>7 DEF IdmaInv, SlotTypes, Slots
<1>14. SlotInv'
  <2>1. \A j \in Slots : slots'[j].thread = slots[j].thread /\ slots'[j].bufs = slots[j].bufs
    BY <1>3, <1>5, <1>6, <1>7 DEF IdmaInv, SlotTypes
  <2>2. QED
    BY <1>1, <2>1 DEF IdmaInv, SlotInv, Is, Slots, NoBuffers
<1>15. \A u \in Tasks \ {t} : CallInv(u)'
  BY <1>1, <1>3, <1>6, <1>7, <1>11, OtherCalls DEF IdmaInv
<1>16. CallInv(t)'
  <2>1. CallInv(t)
    BY DEF IdmaInv
  <2>2. t \notin busy /\ t \notin woken
    BY <1>2, <2>1 DEF CallInv
  <2>3. QED
    BY <1>1, <1>2, <1>9, <1>11, <2>1, <2>2 DEF CallInv, Is, Slots, NoBuffers
<1> QED
  BY <1>12, <1>13, <1>14, <1>15, <1>16 DEF IdmaInv

\* The buffer goes; with the last one the slot is given up.
LEMMA ClearKeeps ==
  ASSUME IdmaInv, LockInv', NEW t \in Tasks, Clear(t)
  PROVE  IdmaInv'
<1> DEFINE i == Least(Of(t))
           ch == arg[t].ch
           b == [set[t] EXCEPT ![ch] = None]
           x == IF b = NoBuffers THEN [slots[i] EXCEPT !.thread = None, !.bufs = b, !.sem = None]
                ELSE [slots[i] EXCEPT !.bufs = b]
           q == Ahead(todo[t]) \ {"clear"}
<1>1. LockTypes /\ At(t, "clear") /\ UNCHANGED <<mutexes, arg, busy>>
  BY DEF Clear, IdmaInv, LockInv
<1>2. /\ Has(t, "clear") /\ ~Has(t, "mutex") /\ ~Has(t, "fill") /\ ~Has(t, "sem")
      /\ InCall(t) /\ HasMutex(t) /\ t \notin busy
  <2>1. /\ Has(t, "clear") /\ ~Has(t, "mutex") /\ ~Has(t, "fill") /\ ~Has(t, "sem")
        /\ InCall(t)
    BY <1>1, AtAhead, AheadOrder DEF Marks, InCall
  <2>2. QED
    BY <2>1 DEF HasMutex, IdmaInv, CallInv
<1>3. /\ i \in Slots /\ slots[i].thread = t /\ \A j \in Slots : Is(j, t) => j = i
      /\ ch \in Channels
  <2>1. Of(t) # {}
    BY DEF Clear
  <2>2. ch \in Channels
    BY <1>2 DEF IdmaInv, CallInv
  <2>3. QED
    BY <2>1, <2>2, HasSlot DEF IdmaInv, Is
<1>4. /\ slots[i] \in [thread : Tasks \cup {None}, bufs : [Channels -> Buffers \cup {None}],
                       sem : {0, 1, None}]
      /\ set[t] \in [Channels -> Buffers \cup {None}]
  BY <1>3 DEF IdmaInv, SlotTypes
<1>5. slots[i].bufs = set[t]
  BY <1>3 DEF IdmaInv, SlotInv, Is
<1>6. /\ slots' = [slots EXCEPT ![i] = x] /\ set' = [set EXCEPT ![t] = b]
      /\ woken' = IF b = NoBuffers THEN woken \ {t} ELSE woken
  <2>1. [slots[i].bufs EXCEPT ![ch] = None] = b
    BY <1>5
  <2>2. set' = [set EXCEPT ![t][ch] = None]
    BY DEF Clear
  <2>3. set' = [set EXCEPT ![t] = b] /\ set'[t] = b
    BY <2>2 DEF IdmaInv, SlotTypes
  <2>4. woken' = IF b = NoBuffers THEN woken \ {t} ELSE woken
    BY <2>3 DEF Clear
  <2>5. slots' = [slots EXCEPT ![i] =
                    IF Unused(b) THEN [@ EXCEPT !.thread = None, !.bufs = b, !.sem = None]
                    ELSE [@ EXCEPT !.bufs = b]]
    BY <2>1 DEF Clear
  <2>6. slots' = [slots EXCEPT ![i] = x]
    BY <1>3, <2>5 DEF Unused, IdmaInv, SlotTypes
  <2>7. QED
    BY <2>3, <2>4, <2>6
<1>7. Leaves(t, q)
  <2>1. /\ todo[t] \in Plans /\ todo[t] # <<>> /\ Head(todo[t]) = "clear"
    BY <1>1, AtPlan
  <2>2. Tail(todo[t]) = <<"unmask", "give">>
    BY <2>1, ClosingPlan
  <2>3. PICK rest \in {<<>>, vPortFree} :
          todo' = [todo EXCEPT ![t] = Tail(todo[t]) \o rest]
    BY DEF Clear
  <2>4. Tail(todo[t]) \in Plans /\ Tail(todo[t]) \in Seq(Steps)
    BY <2>1, TailLeft, PlanSeq
  <2>5. Tail(todo[t]) \o <<>> = Tail(todo[t]) /\ <<>> \o Tail(todo[t]) = Tail(todo[t])
    BY <2>4, ConcatEmptySeq
  <2>6. \A m \in Marks : Left(Tail(todo[t]), m) <=> Left(todo[t], m) /\ m # "clear"
    BY <2>1, TailLeft
  <2>7. Ahead(Tail(todo[t])) = q
    BY <2>6 DEF Ahead
  <2>8. CASE rest = vPortFree
    <3>1. todo' = [todo EXCEPT ![t] = ClearLast]
      BY <2>2, <2>3, <2>8, ClearLastPlan
    <3>2. Leaves(t, {"give"})
      BY <1>1, <3>1, CallAhead, AheadOfWholes DEF Wholes
    <3>3. Left(todo[t], "give") /\ ~Left(todo[t], "created")
      BY <1>1, <1>2, AheadOrder DEF Has, InCall, Ahead, Marks
    <3>4. q = {"give"}
      <4>1. \A m \in Marks : m \in q => m = "give"
        BY <1>1, <1>2, AheadOrder DEF Has, Marks
      <4>2. q \subseteq Marks /\ "give" \in q
        BY <1>2 DEF Ahead, Has, InCall
      <4>3. QED
        BY <4>1, <4>2
    <3>5. QED
      BY <3>2, <3>4
  <2>9. CASE rest = <<>>
    <3>1. Done(t)
      BY <2>3, <2>5, <2>9 DEF Done, Then
    <3>2. QED
      BY <1>1, <3>1, DoneAhead
  <2>10. QED
    BY <2>3, <2>8, <2>9
<1>8. /\ \A s : s \in q <=> Has(t, s) /\ s # "clear"
      /\ b \in [Channels -> Buffers \cup {None}]
  BY <1>4 DEF Has
<1> HIDE DEF b
<1>9. /\ x \in [thread : Tasks \cup {None}, bufs : [Channels -> Buffers \cup {None}],
                sem : {0, 1, None}]
      /\ x.bufs = b
      /\ b = NoBuffers => x.thread = None
      /\ b # NoBuffers => x.thread = t /\ x.sem = slots[i].sem
  BY <1>3, <1>4, <1>8
<1> HIDE DEF x, q
<1>10. arg' = [arg EXCEPT ![t] = arg[t]] /\ woken' \ {t} = woken \ {t}
  BY <1>1, <1>6, SameFor DEF IdmaInv
<1>11. /\ Others(t) /\ arg'[t] = arg[t] /\ set'[t] = b
       /\ \A s : Has(t, s)' <=> s \in q
       /\ InCall(t)' <=> "give" \in q
  BY <1>1, <1>6, <1>7, <1>10, StepOf DEF IdmaInv
<1>12. slots'[i] = x
  BY <1>3, <1>6 DEF IdmaInv, SlotTypes
<1>13. MutexInv'
  <2>1. /\ InCall(t)' <=> InCall(t)
        /\ Has(t, "mutex")' <=> Has(t, "mutex")
    BY <1>2, <1>8, <1>11 DEF InCall, IdmaInv, MutexInv
  <2>2. mutexes # <<>>
    BY <1>2 DEF IdmaInv, MutexInv
  <2>3. QED
    BY <1>1, <1>11, <2>1, <2>2, MutexSame DEF IdmaInv
<1>14. SlotTypes'
  <2>1. woken' \subseteq Tasks
    BY <1>6 DEF IdmaInv, SlotTypes
  <2>2. QED
    BY <1>1, <1>3, <1>6, <1>8, <1>9, <2>1 DEF IdmaInv, SlotTypes, Slots
<1>15. SlotInv'
  BY <1>3, <1>6, <1>9, SlotStep DEF IdmaInv
<1>16. \A u \in Tasks \ {t} : CallInv(u)'
  <2>1. slots[i].thread \in {None, t} /\ x.thread \in {None, t}
    BY <1>3, <1>9
  <2>2. QED
    BY <1>1, <1>2, <1>3, <1>6, <1>11, <2>1, OtherCalls DEF IdmaInv
<1>17. CallInv(t)'
  <2>1. CallInv(t)
    BY DEF IdmaInv
  <2>2. t \in woken' => t \in woken /\ b # NoBuffers
    BY <1>6
  <2>3. t \in woken => slots[i].sem = 1
    BY <1>3, <2>1 DEF CallInv
  <2>4. t \in woken' => \E j \in Slots : Is(j, t)' /\ slots'[j].sem = 1
    BY <1>3, <1>9, <1>12, <2>2, <2>3 DEF Is
  <2>5. QED
    BY <1>1, <1>2, <1>3, <1>8, <1>11, <2>4 DEF CallInv, Is, Slots, NoBuffers
<1> QED
  BY <1>13, <1>14, <1>15, <1>16, <1>17 DEF IdmaInv

LEMMA StartTransferKeeps ==
  ASSUME IdmaInv, LockInv', NEW t \in Tasks, StartTransfer(t)
  PROVE  IdmaInv'
<1>1. /\ UNCHANGED <<todo, slots, mutexes, arg, set, woken>> /\ busy' = busy \cup {t}
      /\ set[t] # NoBuffers
  BY DEF StartTransfer
<1>2. /\ \A s : ~Has(t, s)
      /\ ~InCall(t) /\ arg[t] = NoArg
  BY Idle DEF StartTransfer, IdmaInv
<1>3. /\ \A u \in Tasks : \A s : Has(u, s)' <=> Has(u, s)
      /\ \A u \in Tasks : (InCall(u)' <=> InCall(u)) /\ (HasMutex(u)' <=> HasMutex(u))
  BY <1>1 DEF Has, InCall, HasMutex
<1>4. Others(t)
  BY <1>1 DEF Others
<1>5. MutexInv'
  BY <1>1, <1>3 DEF IdmaInv, MutexInv, NoBuffers, NoArg
<1>6. SlotTypes'
  BY <1>1 DEF IdmaInv, SlotTypes, Slots
<1>7. SlotInv' /\ \A u \in Tasks \ {t} : CallInv(u)'
  BY <1>1, <1>4, SlotsSame
<1>8. CallInv(t)'
  <2>1. CallInv(t)
    BY DEF IdmaInv
  <2>2. QED
    BY <1>1, <1>2, <1>3, <2>1 DEF CallInv, Is, Slots, NoBuffers
<1> QED
  BY <1>5, <1>6, <1>7, <1>8 DEF IdmaInv

\* The interrupt gives the semaphore, the task takes it: n is its new count.
LEMMA SemaphoreKeeps ==
  ASSUME IdmaInv, LockInv', NEW t \in Tasks, Of(t) # {},
         UNCHANGED <<todo, mutexes, arg, set>>, NEW n \in {0, 1},
         slots' = [slots EXCEPT ![Least(Of(t))].sem = n],
         busy' \subseteq Tasks, busy' \ {t} = busy \ {t}, t \in busy' => t \in busy,
         woken' = IF n = 1 THEN woken \cup {t} ELSE woken \ {t},
         ~Has(t, "sem")
  PROVE  IdmaInv'
<1> DEFINE i == Least(Of(t))
           x == [slots[i] EXCEPT !.sem = n]
<1>1. i \in Slots /\ slots[i].thread = t /\ \A j \in Slots : Is(j, t) => j = i
  BY HasSlot DEF IdmaInv, Is
<1>2. slots[i] \in [thread : Tasks \cup {None}, bufs : [Channels -> Buffers \cup {None}],
                    sem : {0, 1, None}]
  BY <1>1 DEF IdmaInv, SlotTypes
<1>3. slots[i].bufs = set[t] /\ set[t] # NoBuffers
  BY <1>1 DEF IdmaInv, SlotInv, Is
<1>4. slots' = [slots EXCEPT ![i] = x] /\ slots'[i] = x
  BY <1>1 DEF IdmaInv, SlotTypes
<1>5. /\ x \in [thread : Tasks \cup {None}, bufs : [Channels -> Buffers \cup {None}],
                sem : {0, 1, None}]
      /\ x.thread = t /\ x.bufs = set[t] /\ x.sem = n
  BY <1>1, <1>2, <1>3
<1> HIDE DEF i, x
<1>6. Others(t)
  BY DEF Others
<1>7. /\ \A u \in Tasks : \A s : Has(u, s)' <=> Has(u, s)
      /\ \A u \in Tasks : (InCall(u)' <=> InCall(u)) /\ (HasMutex(u)' <=> HasMutex(u))
  BY DEF Has, InCall, HasMutex
<1>8. MutexInv'
  BY <1>7 DEF IdmaInv, MutexInv, NoBuffers, NoArg
<1>9. SlotTypes'
  <2>1. woken' \subseteq Tasks
    BY DEF IdmaInv, SlotTypes
  <2>2. QED
    BY <1>1, <1>4, <1>5, <2>1 DEF IdmaInv, SlotTypes, Slots
<1>10. SlotInv'
  <2>1. \A j \in Slots : slots'[j].thread = slots[j].thread /\ slots'[j].bufs = slots[j].bufs
    BY <1>1, <1>3, <1>4, <1>5 DEF IdmaInv, SlotTypes
  <2>2. QED
    BY <2>1 DEF IdmaInv, SlotInv, Is, Slots, NoBuffers
<1>11. \A u \in Tasks \ {t} : CallInv(u)'
  <2>1. slots[i].thread \in {None, t} /\ x.thread \in {None, t} /\ x.thread = slots[i].thread
    BY <1>1, <1>5
  <2>2. LockTypes /\ MutexInv /\ SlotTypes /\ \A u \in Tasks : CallInv(u)
    BY DEF IdmaInv, LockInv
  <2>3. QED
    BY <1>1, <1>4, <1>6, <2>1, <2>2, OtherCalls
<1>12. CallInv(t)'
  <2>1. CallInv(t)
    BY DEF IdmaInv
  <2>2. \A j \in Slots : \A u : Is(j, u)' <=> Is(j, u)
    BY <1>1, <1>4, <1>5 DEF Is, IdmaInv, SlotTypes
  <2>3. t \in woken' => \E j \in Slots : Is(j, t)' /\ slots'[j].sem = 1
    BY <1>1, <1>4, <1>5 DEF Is
  <2>4. Has(t, "fill") /\ ~Has(t, "find") =>
          Is(arg[t].slot, None)' \/ Is(arg[t].slot, t)'
    BY <2>1, <2>2 DEF CallInv, Is
  <2>5. QED
    BY <1>7, <2>1, <2>2, <2>3, <2>4 DEF CallInv, Is, Slots, NoBuffers
<1> QED
  BY <1>8, <1>9, <1>10, <1>11, <1>12 DEF IdmaInv

LEMMA ClibKeepsIdma ==
  ASSUME IdmaInv, LockInv', NEW t \in Tasks, ClibCall(t) \/ ClibStep(t),
         UNCHANGED idmaVars
  PROVE  IdmaInv'
<1>1. LockTypes
  BY DEF IdmaInv, LockInv
<1>2. CASE ClibCall(t)
  <2>1. PICK w \in {Setenv, Malloc} : todo[t] = <<>> /\ todo' = [todo EXCEPT ![t] = w]
    BY <1>2, SetenvPlan, MallocPlan DEF ClibCall, Calls
  <2>2. Leaves(t, Ahead(w)) /\ Ahead(w) = {}
    BY <1>1, <2>1, CallAhead, AheadOfWholes DEF Wholes
  <2>3. QED
    BY <2>1, <2>2, AheadOfNone, QuietStep DEF Leaves
<1>3. CASE ClibStep(t)
  <2>1. PICK s \in Steps \ Marks : At(t, s) /\ Done(t)
    BY <1>3 DEF ClibStep, Suspend, Resume, Take, Unlock, ReadBreak, Advance, Steps, Marks
  <2>2. Leaves(t, Ahead(todo[t]) \ {s})
    BY <1>1, <2>1, DoneAhead
  <2>3. Ahead(todo[t]) \ {s} = Ahead(todo[t])
    BY <2>1 DEF Ahead
  <2>4. QED
    BY <2>2, <2>3, QuietStep DEF Leaves
<1> QED
  BY <1>2, <1>3

LEMMA StepKeepsIdma ==
  ASSUME IdmaInv, [Next]_vars,
         \A t \in Tasks : Created(t) => mutexes = <<>>
  PROVE  IdmaInv'
<1>1. LockInv' /\ LockTypes
  BY StepKeepsLock DEF IdmaInv, LockInv
<1>2. CASE (BootMalloc \/ vPortClibInit) /\ UNCHANGED idmaVars
  BY <1>1, <1>2, QuietStep DEF BootMalloc, vPortClibInit, Ahead, Left
<1>3. CASE UNCHANGED vars
  BY <1>1, <1>3, QuietStep DEF vars, Ahead, Left
<1>4. ASSUME NEW t \in Tasks, ClibCall(t) \/ ClibStep(t), UNCHANGED idmaVars
      PROVE  IdmaInv'
  BY <1>1, <1>4, ClibKeepsIdma
<1>5. ASSUME NEW t \in Tasks, Mask(t) \/ Unmask(t) PROVE IdmaInv'
  <2>1. PICK s \in {"mask", "unmask"} : At(t, s) /\ Done(t) /\ UNCHANGED idmaVars
    BY <1>5 DEF Mask, Unmask
  <2>2. Leaves(t, Ahead(todo[t]) \ {s})
    BY <1>1, <2>1, DoneAhead
  <2>3. Ahead(todo[t]) \ {s} = Ahead(todo[t])
    BY <2>1 DEF Ahead, Marks
  <2>4. QED
    BY <1>1, <2>1, <2>2, <2>3, QuietStep DEF Leaves
<1>6. ASSUME NEW t \in Tasks, idma_thread_unblock(t) PROVE IdmaInv'
  <2>1. ~Has(t, "sem")
    BY <1>6 DEF idma_thread_unblock, IdmaInv, CallInv
  <2>2. busy' \subseteq Tasks
    BY <1>6 DEF idma_thread_unblock, IdmaInv, SlotTypes
  <2>3. QED
    BY <1>1, <1>6, <2>1, <2>2, SemaphoreKeeps DEF idma_thread_unblock
<1>7. ASSUME NEW t \in Tasks, idma_thread_block(t) PROVE IdmaInv'
  <2>1. ~Has(t, "sem")
    BY <1>7, Idle DEF idma_thread_block, IdmaInv
  <2>2. busy' \subseteq Tasks
    BY <1>7 DEF idma_thread_block, IdmaInv, SlotTypes
  <2>3. 0 \in {0, 1} /\ woken' = (IF 0 = 1 THEN woken \cup {t} ELSE woken \ {t})
    BY <1>7 DEF idma_thread_block
  <2>4. /\ slots' = [slots EXCEPT ![Least(Of(t))].sem = 0] /\ busy' = busy /\ Of(t) # {}
        /\ UNCHANGED <<todo, mutexes, arg, set>>
    BY <1>7 DEF idma_thread_block
  <2>5. QED
    BY <1>1, <2>1, <2>2, <2>3, <2>4, SemaphoreKeeps
<1>8. ASSUME NEW t \in Tasks, IdmaStep(t) PROVE IdmaInv'
  BY <1>1, <1>5, <1>6, <1>7, <1>8, CallSetKeeps, CallClearKeeps, TestKeeps, CreatedKeeps,
     TakeMutexKeeps, GiveMutexKeeps, FindKeeps, FillKeeps, CreateSemaphoreKeeps, ClearKeeps,
     StartTransferKeeps DEF IdmaStep
<1> QED
  BY <1>2, <1>3, <1>4, <1>8 DEF Next

\* The mutexes that have been created stay.
LEMMA SeveralForEver ==
  ASSUME Several, [Next]_vars PROVE Several'
<1> USE DEF Several, Twice
<1>1. CASE UNCHANGED mutexes
  BY <1>1
<1>2. ASSUME NEW t \in Tasks, Created(t) PROVE Several'
  <2>1. mutexes' = Append(mutexes, None)
    BY <1>2 DEF Created
  <2>2. mutexes' \in Seq(Tasks \cup {None}) /\ Len(mutexes') = Len(mutexes) + 1
    BY <2>1
  <2>3. QED
    BY <2>2
<1>3. ASSUME NEW t \in Tasks, TakeMutex(t) \/ GiveMutex(t) PROVE Several'
  <2>1. PICK u \in Tasks \cup {None} : mutexes' = [mutexes EXCEPT ![Len(mutexes)] = u]
    BY <1>3 DEF TakeMutex, GiveMutex
  <2>2. mutexes' \in Seq(Tasks \cup {None}) /\ Len(mutexes') = Len(mutexes)
    BY <2>1
  <2>3. QED
    BY <2>2
<1>4. ASSUME NEW t \in Tasks, IdmaStep(t), ~Created(t), ~TakeMutex(t), ~GiveMutex(t)
      PROVE  UNCHANGED mutexes
  BY <1>4 DEF IdmaStep, CallSet, CallClear, Test, Mask, Unmask, Find, Fill, CreateSemaphore,
              Clear, StartTransfer, idma_thread_unblock, idma_thread_block, idmaVars
<1> QED
  BY <1>1, <1>2, <1>3, <1>4 DEF Next, vars, idmaVars

LEMMA StepKeeps == Kept /\ [Next]_vars => Kept'
<1> SUFFICES ASSUME Kept, [Next]_vars PROVE Kept'
  OBVIOUS
<1>1. LockInv'
  BY StepKeepsLock DEF Kept
<1>2. CASE Several
  BY <1>1, <1>2, SeveralForEver DEF Kept
<1>3. CASE IdmaInv /\ \A t \in Tasks : Created(t) => mutexes = <<>>
  BY <1>1, <1>3, StepKeepsIdma DEF Kept
<1>4. ASSUME IdmaInv, NEW t \in Tasks, Created(t), mutexes # <<>> PROVE Several'
  <2>1. PICK u \in Tasks \cup {None} : mutexes = <<u>>
    BY <1>4 DEF IdmaInv, MutexInv
  <2>2. mutexes \in Seq(Tasks \cup {None})
    BY <2>1
  <2>3. Len(mutexes) = 1
    BY <2>1
  <2>4. mutexes' = Append(mutexes, None)
    BY <1>4 DEF Created
  <2>5. mutexes' \in Seq(Tasks \cup {None}) /\ Len(mutexes') = Len(mutexes) + 1
    BY <2>2, <2>4
  <2>6. QED
    BY <2>3, <2>5 DEF Several, Twice
<1> QED
  BY <1>1, <1>2, <1>3, <1>4 DEF Kept

LEMMA KeptAlways == Spec => []Kept
<1>1. Init => Kept
  BY IdmaAtStart, LockAtStart DEF Kept
<1> QED
  BY <1>1, StepKeeps, PTL DEF Spec

\* A task finds on every channel the buffer it set last, and never has two slots,
\* for any number of tasks, slots, channels and buffers, and with any calls of
\* idma_chan_buf_set overlapping the first, as long as one mutex is created
\* (xtensa_idma.c:199-253, 285-342).
THEOREM XtIdmaBuffersKept == Spec => []BuffersKept
<1>1. Kept => BuffersKept
  <2> SUFFICES ASSUME Kept, ~Twice, NEW t \in Tasks
               PROVE  /\ Cardinality(Of(t)) <= 1
                      /\ \A ch \in Channels : idma_chan_buf_get(t, ch) = set[t][ch]
    BY DEF BuffersKept
  <2> IdmaInv
    BY DEF Kept, Several
  <2>1. CASE Of(t) = {}
    <3>1. set[t] = NoBuffers
      BY <2>1 DEF Of, Is, IdmaInv, SlotInv
    <3>2. Cardinality(Of(t)) = 0
      BY <2>1, FS_EmptySet
    <3>3. QED
      BY <2>1, <3>1, <3>2 DEF idma_chan_buf_get, NoBuffers
  <2>2. CASE Of(t) # {}
    <3> DEFINE i == Least(Of(t))
    <3>1. i \in Slots /\ Is(i, t)
      BY <2>2, HasSlot DEF IdmaInv
    <3>2. Of(t) = {i}
      BY <3>1, TheSlot DEF IdmaInv
    <3>3. slots[i].bufs = set[t]
      BY <3>1 DEF IdmaInv, SlotInv
    <3> HIDE DEF i
    <3>4. Cardinality({i}) = 1
      BY FS_Singleton
    <3>5. Cardinality(Of(t)) <= 1
      BY <3>2, <3>4
    <3>6. QED
      BY <2>2, <3>3, <3>5 DEF idma_chan_buf_get, i
  <2>3. QED
    BY <2>1, <2>2
<1> QED
  BY <1>1, KeptAlways, PTL

\* A transfer that ended and was not waited for has left its count in the task's
\* semaphore, whatever calls of whichever tasks came between, as long as one
\* mutex is created (xtensa_idma.c:58-60, 155-192).
THEOREM XtIdmaWakeKept == Spec => []WakeKept
<1>1. Kept => WakeKept
  <2> SUFFICES ASSUME Kept, ~Twice, NEW t \in woken
               PROVE  Of(t) # {} /\ slots[Least(Of(t))].sem = 1
    BY DEF WakeKept
  <2> IdmaInv
    BY DEF Kept, Several
  <2>1. PICK i \in Slots : Is(i, t) /\ slots[i].sem = 1
    BY DEF IdmaInv, CallInv, SlotTypes
  <2>2. t \in Tasks
    BY DEF IdmaInv, SlotTypes
  <2>3. Of(t) = {i} /\ Least(Of(t)) = i
    BY <2>1, <2>2, TheSlot DEF IdmaInv
  <2>4. QED
    BY <2>1, <2>3
<1> QED
  BY <1>1, KeptAlways, PTL
=============================================================================
