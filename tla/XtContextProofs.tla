-------------------------- MODULE XtContextProofs ---------------------------
(***************************************************************************)
(* What an Xtensa task finds when it is switched in: its coprocessors      *)
(* (XtCoproc) and its memory (XtMpu).                                      *)
(*                                                                         *)
(* Coprocessors, for any number of cores, coprocessors and tasks and every *)
(* build.  Four layers, each resting on the one before: owners exist;      *)
(* coprocessors are enabled for their owners, until an affinity has        *)
(* slipped; owners are where their tasks are, until one dangles; tasks     *)
(* keep their state.                                                       *)
(*                                                                         *)
(* Memory, for any table, ranges, tasks and requests of a configuration    *)
(* that is laid out as the port takes for granted (Layout).                *)
(***************************************************************************)
EXTENDS XtCoproc, XtMpu, TLAPS, WellFoundedInduction

Owns(t, c, n) == owner[c][n] = t

\* Task t executes: it is on a core that is not on its way to the dispatcher.
AtTask(t) == \E c \in Cores : Runs(t, c) /\ pc[c] = "task"

Ready(t) == t \in Tasks /\ life[t] = "ready"

-----------------------------------------------------------------------------
(* The invariants                                                          *)

\* Cores outside the build do nothing.
Unused ==
  \A c \in Cores \ built :
    /\ pxCurrentTCBs[c] = Idle /\ pc[c] = "dispatch"
    /\ \A n \in CPs : owner[c][n] = Null

\* Tasks that execute, and owners on core 0, have not been deleted, but for the
\* task whose deletion found it running.
Living ==
  /\ \A n \in CPs : owner[Core0][n] \in Tasks \ torn => Ready(owner[Core0][n])
  /\ \A c \in Cores :
       /\ pc[c] = "task" /\ pxCurrentTCBs[c] # Idle =>
            Ready(pxCurrentTCBs[c]) \/ pxCurrentTCBs[c] \in torn
       /\ pc[c] = "leave" => pxCurrentTCBs[c] # Idle /\ ~Ready(pxCurrentTCBs[c])
       /\ pc[c] = "dispatch" => CPENABLE[c] = {}
  /\ \A t \in Tasks : Running(t) => life[t] # "none"

Apart == \A c, d \in Cores : Runs(pxCurrentTCBs[d], c) /\ pxCurrentTCBs[d] # Idle => c = d

LifeInv == TypeOK /\ Unused /\ Living /\ Apart

\* What is enabled on core c belongs to its task, or to nobody once the task
\* has been deleted.
Enabled(c) ==
  \A n \in CPENABLE[c] :
    IF Executes(pxCurrentTCBs[c], c) THEN Owns(pxCurrentTCBs[c], c, n)
    ELSE owner[c][n] \in {pxCurrentTCBs[c], Null}

\* A coprocessor that a task keeps while it does not execute is its own, on the
\* only core that it may run on.
Keeps(t) ==
  /\ frame[t] # "interrupt" => XT_CPENABLE[t] = {}
  /\ life[t] = "none" => XT_CPENABLE[t] = {}
  /\ Ready(t) /\ ~AtTask(t) => \A n \in XT_CPENABLE[t] :
       \E c \in Cores : Owns(t, c, n) /\ affinity[t] = {c}

OwnerInv ==
  /\ LifeInv
  /\ \A c \in Cores : Enabled(c)
  /\ \A t \in Tasks :
       /\ Keeps(t)
       /\ affinity[t] \subseteq built /\ affinity[t] # {}

\* With several cores a task owns only what it has enabled or keeps.
Owed(t, c, n) ==
  \/ Runs(t, c) /\ pc[c] = "task" /\ n \in CPENABLE[c]
  \/ ~AtTask(t) /\ n \in XT_CPENABLE[t] /\ affinity[t] = {c}

\* An owner entry names a task that exists, and that would find it.
Traced(t, c, n) ==
  Owns(t, c, n) => life[t] # "none" /\ (SMP /\ Ready(t) => Owed(t, c, n))

TraceInv == OwnerInv /\ \A t \in Tasks, c \in Cores, n \in CPs : Traced(t, c, n)

\* The state of n is one that a second yield has lost, or it is in contents.
Has(contents, t, n) == <<t, n>> \in forgotten \/ Holds(contents, t, need[t][n])

\* Nothing is needed of n, or _xt_coproc_restorecs finds what is.
CalleeSaved(t, n) ==
  \/ need[t][n] = "nothing" \/ <<t, n>> \in forgotten
  \/ need[t][n] = "callee" /\ n \in XT_CP_CS_ST[t] /\ area[t][n].callee = t

\* The save area of task t has what the task needs of n.
InArea(t, n) ==
  IF n \in XT_CPSTORED[t] THEN Has(area[t][n], t, n)
  ELSE CalleeSaved(t, n)

InCore(t, n) == \E c \in Cores : Owns(t, c, n)

\* Core c would go on with n for task t without an exception.
Active(t, c, n) ==
  IF Runs(t, c) /\ pc[c] = "task" THEN n \in CPENABLE[c] ELSE n \in XT_CPENABLE[t]

\* The state is in the core that t owns n of, and otherwise in the save area.
StateOf(t, n) ==
  /\ ~InCore(t, n) => InArea(t, n)
  /\ \A c \in Cores : Owns(t, c, n) =>
       /\ Has(reg[c][n], t, n)
       /\ n \notin XT_CPSTORED[t]
       /\ ~Active(t, c, n) => CalleeSaved(t, n)

StateInv ==
  /\ TraceInv
  /\ \A t \in Tasks, n \in CPs :
       /\ life[t] = "none" => need[t][n] = "nothing"
       /\ Ready(t) => StateOf(t, n)

-----------------------------------------------------------------------------
(* Owners exist                                                            *)

LEMMA InitLife == Init => LifeInv
<1> SUFFICES ASSUME Init PROVE LifeInv
  OBVIOUS
<1>1. TypeOK
  BY CoprocAssumption DEF Init, TypeOK, Contents, Of
<1>2. Unused /\ Living /\ Apart
  BY CoprocAssumption DEF Init, Unused, Living, Apart, Running, Runs
<1>3. QED
  BY <1>1, <1>2 DEF LifeInv

LEMMA BuiltCores ==
  ASSUME TypeOK PROVE built \subseteq Cores /\ Core0 \in built
BY CoprocAssumption DEF TypeOK

LEMMA ComputeLife ==
  ASSUME LifeInv, UNCHANGED built, NEW c \in built, NEW n \in CPs, Compute(c, n) PROVE LifeInv'
<1>1. c \in Cores /\ pxCurrentTCBs[c] \in Tasks
  BY BuiltCores DEF LifeInv, Compute, TypeOK
<1>2. reg' \in [Cores -> [CPs -> Contents]] /\ area' \in [Tasks -> [CPs -> Contents]]
  BY <1>1, SMTT(30) DEF LifeInv, TypeOK, Compute, Contents, Of, Outdate
<1>3. need' \in [Tasks -> [CPs -> {"nothing", "callee", "full"}]]
  BY <1>1 DEF LifeInv, TypeOK, Compute
<1>4. TypeOK'
  BY <1>2, <1>3 DEF LifeInv, TypeOK, Compute
<1>5. QED
  BY <1>4 DEF LifeInv, Unused, Living, Apart, Ready, Running, Runs, Compute

LEMMA ReclaimLife ==
  ASSUME LifeInv, UNCHANGED built, NEW c \in built, NEW n \in CPs, Reclaim(c, n) PROVE LifeInv'
<1>1. c \in Cores
  BY BuiltCores DEF LifeInv
<1>2. TypeOK'
  BY <1>1 DEF LifeInv, TypeOK, Reclaim, saVars, history
<1>3. QED
  BY <1>1, <1>2 DEF LifeInv, TypeOK, Unused, Living, Apart, Ready, Running, Runs, Reclaim, history

LEMMA HandlerLife ==
  ASSUME LifeInv, UNCHANGED built, NEW c \in built, NEW n \in CPs, _xt_coproc_handler(c, n)
  PROVE  LifeInv'
<1> DEFINE t == pxCurrentTCBs[c]
           old == owner[c][n]
<1>1. c \in Cores /\ t \in Tasks /\ old \in Tasks \cup {Null}
  BY BuiltCores DEF LifeInv, _xt_coproc_handler, TypeOK
<1>2. reg' \in [Cores -> [CPs -> Contents]]
  BY <1>1 DEF LifeInv, TypeOK, _xt_coproc_handler, Contents, Restored
<1>3. area' \in [Tasks -> [CPs -> Contents]]
  BY <1>1 DEF LifeInv, TypeOK, _xt_coproc_handler, SaveOld
<1>4. /\ XT_CPENABLE' \in [Tasks -> SUBSET CPs]
      /\ XT_CPSTORED' \in [Tasks -> SUBSET CPs]
      /\ XT_CP_CS_ST' \in [Tasks -> SUBSET CPs]
  BY <1>1 DEF LifeInv, TypeOK, _xt_coproc_handler, ReleaseOld, SaveOld
<1>5. CPENABLE' \in [Cores -> SUBSET CPs] /\ owner' \in [Cores -> [CPs -> Tasks \cup {Null}]]
  BY <1>1 DEF LifeInv, TypeOK, _xt_coproc_handler
<1>6. TypeOK'
  BY <1>1, <1>2, <1>3, <1>4, <1>5 DEF LifeInv, TypeOK, _xt_coproc_handler, history
<1>7. Unused'
  BY <1>1 DEF LifeInv, TypeOK, Unused, _xt_coproc_handler
<1>8. Living'
  <2>1. pc[c] = "task" /\ t # Idle /\ (Ready(t) \/ t \in torn)
    BY <1>1 DEF LifeInv, Living, _xt_coproc_handler
  <2>2. \A m \in CPs : owner'[Core0][m] \in {owner[Core0][m], t}
    BY <1>1, CoprocAssumption DEF LifeInv, TypeOK, _xt_coproc_handler
  <2>3. UNCHANGED <<pxCurrentTCBs, pc, life, torn>>
    BY DEF _xt_coproc_handler, history
  <2>4. \A d \in Cores : pc[d] = "dispatch" => CPENABLE'[d] = CPENABLE[d]
    BY <1>1, <2>1 DEF LifeInv, TypeOK, _xt_coproc_handler
  <2>5. QED
    BY <2>1, <2>2, <2>3, <2>4 DEF LifeInv, Living, Ready, Running, Runs
<1>9. QED
  BY <1>6, <1>7, <1>8 DEF LifeInv, Apart, Runs, _xt_coproc_handler

\* Core c gives up the coprocessors of gone.
Gives(c, gone) ==
  \A d \in Cores, n \in CPs :
    owner'[d][n] = IF d = c /\ n \in gone THEN Null ELSE owner[d][n]

LEMMA GiveUpOwners ==
  ASSUME TypeOK, NEW c \in Cores, NEW cps, GiveUp(c, cps)
  PROVE  owner' \in [Cores -> [CPs -> Tasks \cup {Null}]] /\ Gives(c, cps)
BY DEF TypeOK, GiveUp, Gives

\* Every way to the dispatcher, where no owner is added.
LEMMA LeaveLife ==
  ASSUME LifeInv, UNCHANGED built, NEW c \in built, NEW cpenable, cpenable \in SUBSET CPs,
         NEW exit \in {"solicited", "interrupt"}, Leave(c, cpenable, exit),
         owner' \in [Cores -> [CPs -> Tasks \cup {Null}]],
         \A d \in Cores, n \in CPs : owner'[d][n] \in {owner[d][n], Null},
         reg' \in [Cores -> [CPs -> Contents]],
         area' \in [Tasks -> [CPs -> Contents]],
         need' \in [Tasks -> [CPs -> {"nothing", "callee", "full"}]],
         XT_CPSTORED' \in [Tasks -> SUBSET CPs],
         XT_CP_CS_ST' \in [Tasks -> SUBSET CPs],
         forgotten' \subseteq Tasks \X CPs
  PROVE  LifeInv'
<1>1. c \in Cores /\ pxCurrentTCBs[c] \in Tasks \cup {Idle}
  BY BuiltCores DEF LifeInv, TypeOK
<1>2. XT_CPENABLE' \in [Tasks -> SUBSET CPs]
  BY <1>1 DEF LifeInv, TypeOK, Leave
<1>3. frame' \in [Tasks -> {"start", "solicited", "interrupt"}]
  BY <1>1 DEF LifeInv, TypeOK, Leave
<1>4. TypeOK'
  BY <1>1, <1>2, <1>3 DEF LifeInv, TypeOK, Leave
<1>5. Unused'
  BY <1>1 DEF LifeInv, TypeOK, Unused, Leave
<1>6. Living'
  <2>1. \A n \in CPs : owner'[Core0][n] \in Tasks => owner'[Core0][n] = owner[Core0][n]
    BY CoprocAssumption
  <2>2. QED
    BY <1>1, <2>1 DEF LifeInv, TypeOK, Living, Ready, Running, Runs, Leave
<1>7. QED
  BY <1>4, <1>5, <1>6 DEF LifeInv, Apart, Runs, Leave

LEMMA SolicitedContents ==
  ASSUME NEW contents \in Contents, NEW t
  PROVE  Solicited(contents, t) \in Contents
BY DEF Solicited, Contents

LEMMA YieldLife ==
  ASSUME LifeInv, UNCHANGED built, NEW c \in built, vPortYield(c) PROVE LifeInv'
<1> DEFINE t == pxCurrentTCBs[c]
<1>1. c \in Cores /\ t \in Tasks \cup {Idle}
  BY BuiltCores DEF LifeInv, TypeOK
<1>2. reg' \in [Cores -> [CPs -> Contents]]
  BY SolicitedContents DEF LifeInv, TypeOK, vPortYield
<1>3. area' \in [Tasks -> [CPs -> Contents]]
  <2>1. \A n \in CPs, u \in Tasks : Solicited(area[u][n], t) \in Contents
    BY SolicitedContents DEF LifeInv, TypeOK
  <2>2. \A n \in CPs : t \in Tasks => StoreCallee(c, t, n) \in Contents
    <3> SUFFICES ASSUME NEW n \in CPs, t \in Tasks PROVE StoreCallee(c, t, n) \in Contents
      OBVIOUS
    <3>1. (IF n \in CPENABLE[c] THEN [area[t][n] EXCEPT !.callee = reg[c][n].callee]
           ELSE area[t][n]) \in Contents
      <4>1. area[t][n] \in Contents /\ reg[c][n] \in Contents
        BY <1>1 DEF LifeInv, TypeOK
      <4>2. QED
        BY <4>1 DEF Contents
    <3>2. QED
      BY <3>1, SolicitedContents DEF StoreCallee
  <2>3. QED
    BY <2>1, <2>2 DEF vPortYield, _xt_coproc_savecs
<1>4. need' \in [Tasks -> [CPs -> {"nothing", "callee", "full"}]]
  BY <1>1 DEF LifeInv, TypeOK, vPortYield
<1>5. /\ owner' \in [Cores -> [CPs -> Tasks \cup {Null}]]
      /\ \A d \in Cores, n \in CPs : owner'[d][n] \in {owner[d][n], Null}
  BY <1>1, GiveUpOwners DEF LifeInv, TypeOK, vPortYield, _xt_coproc_savecs, Gives
<1>6. XT_CPSTORED' \in [Tasks -> SUBSET CPs] /\ XT_CP_CS_ST' \in [Tasks -> SUBSET CPs]
  BY <1>1 DEF LifeInv, TypeOK, vPortYield, _xt_coproc_savecs
<1>7. Leave(c, {}, "solicited")
  BY DEF vPortYield
<1>8. forgotten' \subseteq Tasks \X CPs
  <2>1. t = Idle => CPENABLE[c] = {}
    BY <1>1 DEF LifeInv, TypeOK
  <2>2. QED
    BY <1>1, <2>1 DEF LifeInv, TypeOK, vPortYield, _xt_coproc_savecs
<1>9. QED
  BY <1>2, <1>3, <1>4, <1>5, <1>6, <1>7, <1>8, LeaveLife

LEMMA InterruptLife ==
  ASSUME LifeInv, UNCHANGED built, NEW c \in built, vPortYieldFromInt(c) PROVE LifeInv'
<1> DEFINE t == pxCurrentTCBs[c]
<1>1. c \in Cores /\ t \in Tasks \cup {Idle} /\ CPENABLE[c] \in SUBSET CPs
  BY BuiltCores DEF LifeInv, TypeOK
<1>2. CASE SaveAll(c)
  <2>1. t \in Tasks
    BY <1>1, <1>2 DEF SaveAll, Migrates, LifeInv, TypeOK
  <2>2. area' \in [Tasks -> [CPs -> Contents]]
    BY <1>1, <1>2, <2>1 DEF LifeInv, TypeOK, SaveAll
  <2>3. XT_CPSTORED' \in [Tasks -> SUBSET CPs]
    BY <1>1, <1>2, <2>1 DEF LifeInv, TypeOK, SaveAll
  <2>4. /\ owner' \in [Cores -> [CPs -> Tasks \cup {Null}]]
        /\ \A d \in Cores, n \in CPs : owner'[d][n] \in {owner[d][n], Null}
    BY <1>1, <1>2, GiveUpOwners DEF LifeInv, SaveAll, Gives
  <2>5. Leave(c, {}, "interrupt") /\ UNCHANGED <<reg, XT_CP_CS_ST, need, forgotten>>
    BY <1>2 DEF SaveAll
  <2>6. QED
    BY <2>2, <2>3, <2>4, <2>5, LeaveLife DEF LifeInv, TypeOK
<1>3. CASE KeepAll(c)
  BY <1>1, <1>3, LeaveLife DEF LifeInv, TypeOK, KeepAll
<1>4. QED
  BY <1>2, <1>3 DEF vPortYieldFromInt

LEMMA DispatchLife ==
  ASSUME LifeInv, UNCHANGED built, NEW c \in built, NEW t \in Tasks \cup {Idle},
         _frxt_dispatch(c, t)
  PROVE  LifeInv'
<1>1. c \in Cores /\ pc[c] = "dispatch" /\ CPENABLE[c] = {}
  BY BuiltCores DEF LifeInv, Living, _frxt_dispatch
<1>2. TypeOK'
  BY <1>1, CoprocAssumption DEF LifeInv, TypeOK, _frxt_dispatch, saVars, history
<1>3. Unused'
  BY <1>1 DEF LifeInv, TypeOK, Unused, _frxt_dispatch
<1>4. t \in Tasks => life[t] = "ready"
  BY CoprocAssumption DEF _frxt_dispatch, vTaskSwitchContext
<1>5. Living'
  BY <1>1, <1>4 DEF LifeInv, TypeOK, Living, Ready, Running, Runs, _frxt_dispatch, history
<1>6. Apart'
  <2>1. t \in Tasks => \A d \in Cores \ {c} : ~Runs(t, d)
    BY CoprocAssumption DEF _frxt_dispatch, vTaskSwitchContext
  <2>2. QED
    BY <1>1, <2>1 DEF LifeInv, TypeOK, Apart, Runs, _frxt_dispatch
<1>7. QED
  BY <1>2, <1>3, <1>5, <1>6 DEF LifeInv

LEMMA HookOwners ==
  ASSUME TypeOK, NEW t \in Tasks, portTaskDeleteHook(t)
  PROVE  /\ owner' \in [Cores -> [CPs -> Tasks \cup {Null}]]
         /\ \A c \in Cores, n \in CPs :
              owner'[c][n] = IF c = Core0 /\ owner[c][n] = t THEN Null ELSE owner[c][n]
BY BuiltCores DEF TypeOK, portTaskDeleteHook

LEMMA DeleteSelfLife ==
  ASSUME LifeInv, UNCHANGED built, NEW c \in built, DeleteSelf(c)
  PROVE  LifeInv'
<1> DEFINE t == pxCurrentTCBs[c]
<1>1. c \in Cores /\ t \in Tasks
  BY BuiltCores DEF LifeInv, TypeOK, DeleteSelf
<1>2. TypeOK'
  BY <1>1, HookOwners DEF LifeInv, TypeOK, DeleteSelf, saVars
<1>3. Unused'
  BY <1>1, HookOwners DEF LifeInv, TypeOK, Unused, DeleteSelf
<1>4. \A n \in CPs : owner'[Core0][n] \in Tasks => owner'[Core0][n] = owner[Core0][n] /\ owner[Core0][n] # t
  BY <1>1, HookOwners, CoprocAssumption DEF LifeInv, DeleteSelf
<1>5. \A d \in Cores \ {c} : pxCurrentTCBs[d] # t
  BY <1>1, CoprocAssumption DEF LifeInv, Apart, Runs
<1>6. Living'
  <2>1. /\ UNCHANGED <<pxCurrentTCBs, CPENABLE>>
        /\ life' = [life EXCEPT ![t] = "deleted"] /\ torn' = torn \ {t}
        /\ pc' = [pc EXCEPT ![c] = "leave"] /\ t # Idle
    BY DEF DeleteSelf
  <2>2. life \in [Tasks -> {"none", "ready", "deleted"}] /\ pc[c] = "task"
    BY DEF LifeInv, TypeOK, DeleteSelf
  <2>3. \A n \in CPs : owner'[Core0][n] \in Tasks \ torn' => Ready(owner[Core0][n])'
    BY <1>4, <2>1, <2>2 DEF LifeInv, Living, Ready
  <2>4. ASSUME NEW d \in Cores
        PROVE  /\ pc'[d] = "task" /\ pxCurrentTCBs'[d] # Idle =>
                    Ready(pxCurrentTCBs[d])' \/ pxCurrentTCBs'[d] \in torn'
               /\ pc'[d] = "leave" =>
                    pxCurrentTCBs'[d] # Idle /\ ~Ready(pxCurrentTCBs[d])'
               /\ pc'[d] = "dispatch" => CPENABLE'[d] = {}
    <3>1. CASE d = c
      BY <1>1, <2>1, <2>2, <3>1 DEF LifeInv, TypeOK, Ready
    <3>2. CASE d # c
      BY <1>1, <1>5, <2>1, <2>2, <3>2 DEF LifeInv, TypeOK, Living, Ready
    <3>3. QED
      BY <3>1, <3>2
  <2>5. \A u \in Tasks : Running(u)' => life'[u] # "none"
    BY <2>1, <2>2 DEF LifeInv, Living, Running, Runs
  <2>6. QED
    BY <2>3, <2>4, <2>5 DEF Living
<1>7. QED
  BY <1>2, <1>3, <1>6 DEF LifeInv, Apart, Runs, DeleteSelf

LEMMA DeleteOtherLife ==
  ASSUME LifeInv, UNCHANGED built, NEW t \in Tasks, DeleteOther(t)
  PROVE  LifeInv'
<1>1. TypeOK'
  BY HookOwners DEF LifeInv, TypeOK, DeleteOther, saVars
<1>2. Unused'
  BY HookOwners DEF LifeInv, TypeOK, Unused, DeleteOther
<1>3. \A n \in CPs : owner'[Core0][n] \in Tasks => owner'[Core0][n] = owner[Core0][n] /\ owner[Core0][n] # t
  BY HookOwners, CoprocAssumption DEF LifeInv, DeleteOther
<1>4. Living'
  <2>1. /\ UNCHANGED <<pxCurrentTCBs, pc, CPENABLE>>
        /\ life' = [life EXCEPT ![t] = "deleted"]
        /\ torn' = IF Running(t) THEN torn \cup {t} ELSE torn \ {t}
    BY DEF DeleteOther
  <2>2. life \in [Tasks -> {"none", "ready", "deleted"}]
    BY DEF LifeInv, TypeOK
  <2>3. \A n \in CPs : owner'[Core0][n] \in Tasks \ torn' => Ready(owner[Core0][n])'
    BY <1>3, <2>1, <2>2 DEF LifeInv, Living, Ready
  <2>4. ASSUME NEW d \in Cores
        PROVE  /\ pc'[d] = "task" /\ pxCurrentTCBs'[d] # Idle =>
                    Ready(pxCurrentTCBs[d])' \/ pxCurrentTCBs'[d] \in torn'
               /\ pc'[d] = "leave" =>
                    pxCurrentTCBs'[d] # Idle /\ ~Ready(pxCurrentTCBs[d])'
               /\ pc'[d] = "dispatch" => CPENABLE'[d] = {}
    BY <2>1, <2>2 DEF LifeInv, Living, Ready, Running, Runs
  <2>5. \A u \in Tasks : Running(u)' => life'[u] # "none"
    BY <2>1, <2>2 DEF LifeInv, Living, Running, Runs
  <2>6. QED
    BY <2>3, <2>4, <2>5 DEF Living
<1>5. QED
  BY <1>1, <1>2, <1>4 DEF LifeInv, Apart, Runs, DeleteOther

LEMMA OutdatedContents ==
  ASSUME NEW contents \in Contents, NEW t
  PROVE  Outdate(contents, t) \in Contents
BY DEF Outdate, Contents

LEMMA FreeTaskLife ==
  ASSUME LifeInv, UNCHANGED built, NEW t \in Tasks, FreeTask(t) PROVE LifeInv'
<1>1. reg' \in [Cores -> [CPs -> Contents]]
  BY OutdatedContents DEF LifeInv, TypeOK, FreeTask
<1>2. area' \in [Tasks -> [CPs -> Contents]]
  <2>1. Of(Junk) \in Contents
    BY DEF Of, Contents
  <2>2. QED
    BY <2>1, OutdatedContents DEF LifeInv, TypeOK, FreeTask
<1>3. TypeOK'
  BY <1>1, <1>2, BuiltCores DEF LifeInv, TypeOK, FreeTask
<1>4. Unused'
  BY DEF LifeInv, Unused, FreeTask
<1>5. Living'
  <2>1. \A u \in Tasks : life'[u] = IF u = t THEN "none" ELSE life[u]
    BY DEF LifeInv, TypeOK, FreeTask
  <2>2. /\ \A u \in Tasks \ {t} : u \in torn' <=> u \in torn
        /\ \A n \in CPs : owner[Core0][n] = t => torn' = torn
    BY DEF FreeTask
  <2>3. ~Ready(t) /\ \A c \in Cores : pxCurrentTCBs[c] # t
    BY DEF FreeTask, Ready, Running, Runs
  <2>4. UNCHANGED <<CPENABLE, owner, pxCurrentTCBs, pc>>
    BY DEF FreeTask
  <2>5. \A n \in CPs : owner[Core0][n] \in Tasks \ torn' => Ready(owner[Core0][n])'
    <3> SUFFICES ASSUME NEW n \in CPs, owner[Core0][n] \in Tasks \ torn'
                 PROVE  Ready(owner[Core0][n])'
      OBVIOUS
    <3>1. owner[Core0][n] \notin torn => Ready(owner[Core0][n])
      BY DEF LifeInv, Living
    <3>2. owner[Core0][n] # t
      BY <2>2, <2>3, <3>1
    <3>3. QED
      BY <2>1, <2>2, <2>4, <3>1, <3>2 DEF Ready
  <2>6. ASSUME NEW c \in Cores
        PROVE  /\ pc[c] = "task" /\ pxCurrentTCBs[c] # Idle =>
                    Ready(pxCurrentTCBs[c])' \/ pxCurrentTCBs[c] \in torn'
               /\ pc[c] = "leave" => pxCurrentTCBs[c] # Idle /\ ~Ready(pxCurrentTCBs[c])'
    <3>1. pxCurrentTCBs[c] # Idle => pxCurrentTCBs[c] \in Tasks \ {t}
      BY <2>3 DEF LifeInv, TypeOK
    <3>2. QED
      BY <2>1, <2>2, <2>4, <3>1 DEF LifeInv, Living, Ready
  <2>7. QED
    BY <2>1, <2>3, <2>4, <2>5, <2>6 DEF LifeInv, Living, Ready, Running, Runs
<1>6. QED
  BY <1>3, <1>4, <1>5 DEF LifeInv, Apart, Runs, FreeTask

LEMMA AdminLife ==
  ASSUME LifeInv, UNCHANGED built, NEW t \in Tasks, NEW cores \in (SUBSET built) \ {{}},
         CreateTask(t, cores) \/ vTaskCoreAffinitySet(t, cores)
  PROVE  LifeInv'
<1>1. cores \subseteq Cores
  BY BuiltCores DEF LifeInv
<1>2. TypeOK'
  BY <1>1 DEF LifeInv, TypeOK, CreateTask, vTaskCoreAffinitySet, cpVars, saVars, history
<1>3. Unused'
  BY DEF LifeInv, Unused, CreateTask, vTaskCoreAffinitySet, cpVars, saVars
<1>4. Living'
  BY DEF LifeInv, TypeOK, Living, Ready, Running, Runs, CreateTask, vTaskCoreAffinitySet,
         cpVars, saVars, history
<1>5. QED
  BY <1>2, <1>3, <1>4 DEF LifeInv, Apart, Runs, CreateTask, vTaskCoreAffinitySet

LEMMA StepLife == LifeInv /\ [Next]_vars => LifeInv'
<1> SUFFICES ASSUME LifeInv, [Next]_vars PROVE LifeInv'
  OBVIOUS
<1>1. CASE UNCHANGED vars
  BY <1>1 DEF LifeInv, TypeOK, Unused, Living, Apart, Ready, Running, Runs, vars, cpVars, saVars,
              history
<1>2. ASSUME NEW c \in built, CoreStep(c), UNCHANGED built PROVE LifeInv'
  <2>1. CASE \E n \in CPs : Compute(c, n) \/ Reclaim(c, n) \/ _xt_coproc_handler(c, n)
    BY <1>2, <2>1, ComputeLife, ReclaimLife, HandlerLife
  <2>2. CASE vPortYield(c)
    BY <1>2, <2>2, YieldLife
  <2>3. CASE vPortYieldFromInt(c)
    BY <1>2, <2>3, InterruptLife
  <2>4. CASE \E t \in Tasks \cup {Idle} : _frxt_dispatch(c, t)
    BY <1>2, <2>4, DispatchLife
  <2>5. CASE DeleteSelf(c)
    BY <1>2, <2>5, DeleteSelfLife
  <2>6. QED
    BY <1>2, <2>1, <2>2, <2>3, <2>4, <2>5 DEF CoreStep
<1>3. ASSUME NEW t \in Tasks, KernelStep(t), UNCHANGED built PROVE LifeInv'
  BY <1>3, DeleteOtherLife, FreeTaskLife, AdminLife DEF KernelStep
<1>4. QED
  BY <1>1, <1>2, <1>3 DEF Next

LEMMA LifeOwners == LifeInv => OwnersExist
BY CoprocAssumption DEF LifeInv, TypeOK, Living, Ready, OwnersExist

\* No coprocessor of core 0 has an owner that the kernel has freed, however it
\* was set, but for a task that was deleted while another core ran it.
THEOREM XtCoprocOwnersExist == Spec => []OwnersExist
<1>1. LifeInv /\ [Next]_vars => LifeInv'
  BY StepLife
<1>2. QED
  BY <1>1, InitLife, LifeOwners, PTL DEF Spec

-----------------------------------------------------------------------------
(* Coprocessors are enabled for their owners                               *)

LEMMA InitOwner == Init => OwnerInv
<1> SUFFICES ASSUME Init PROVE OwnerInv
  OBVIOUS
<1>1. LifeInv
  BY InitLife
<1>2. built \in SUBSET Cores /\ built # {}
  BY <1>1, BuiltCores DEF LifeInv
<1>3. QED
  BY <1>1, <1>2, CoprocAssumption
     DEF Init, OwnerInv, Enabled, Executes, Keeps, Runs, Owns, Ready

LEMMA HandlerOwner ==
  ASSUME OwnerInv, LifeInv', UNCHANGED built, NEW c \in built, NEW n \in CPs,
         _xt_coproc_handler(c, n)
  PROVE  OwnerInv'
<1> DEFINE t == pxCurrentTCBs[c]
           old == owner[c][n]
<1>1. c \in Cores /\ t \in Tasks /\ old \in Tasks \cup {Null} /\ pc[c] = "task"
  BY BuiltCores DEF OwnerInv, LifeInv, _xt_coproc_handler, TypeOK
<1>2. \A d \in Cores, m \in CPs : owner'[d][m] = IF d = c /\ m = n THEN t ELSE owner[d][m]
  BY <1>1 DEF OwnerInv, LifeInv, TypeOK, _xt_coproc_handler
<1>3. \A d \in Cores : CPENABLE'[d] = IF d = c THEN CPENABLE[c] \cup {n} ELSE CPENABLE[d]
  BY <1>1 DEF OwnerInv, LifeInv, TypeOK, _xt_coproc_handler
<1>4. \A u \in Tasks, m \in CPs :
        m \in XT_CPENABLE'[u] <=> m \in XT_CPENABLE[u] /\ ~(u = old /\ m = n)
  BY <1>1, CoprocAssumption
     DEF OwnerInv, LifeInv, TypeOK, _xt_coproc_handler, ReleaseOld, SaveOld
<1>5. UNCHANGED <<pxCurrentTCBs, pc, frame, affinity, life>>
  BY DEF _xt_coproc_handler
<1>6. \A d \in Cores : Enabled(d)'
  <2> SUFFICES ASSUME NEW d \in Cores, NEW m \in CPENABLE'[d]
               PROVE  IF Executes(pxCurrentTCBs[d], d) THEN owner'[d][m] = pxCurrentTCBs[d]
                      ELSE owner'[d][m] \in {pxCurrentTCBs[d], Null}
    BY <1>5 DEF Enabled, Executes, Runs, Owns
  <2>1. m \in CPs
    BY DEF LifeInv, TypeOK
  <2>2. CASE d = c /\ m = n
    BY <1>1, <1>2, <2>2
  <2>3. CASE ~(d = c /\ m = n)
    BY <1>2, <1>3, <2>1, <2>3 DEF OwnerInv, Enabled, Owns
  <2>4. QED
    BY <2>2, <2>3
<1>7. ASSUME NEW u \in Tasks PROVE Keeps(u)'
  <2>1. /\ XT_CPENABLE'[u] \subseteq XT_CPENABLE[u]
        /\ AtTask(u)' <=> AtTask(u)
        /\ Ready(u)' <=> Ready(u)
    BY <1>4, <1>5 DEF AtTask, Runs, Ready, LifeInv, TypeOK
  <2>2. ASSUME Ready(u), ~AtTask(u), NEW m \in XT_CPENABLE'[u]
        PROVE  \E d \in Cores : owner'[d][m] = u /\ affinity[u] = {d}
    <3>1. PICK d \in Cores : Owns(u, d, m) /\ affinity[u] = {d}
      BY <2>1, <2>2 DEF OwnerInv, Keeps
    <3>2. m \in CPs
      BY <2>1, <2>2 DEF OwnerInv, LifeInv, TypeOK
    <3>3. ~(d = c /\ m = n)
      BY <1>4, <2>2, <3>1 DEF Owns
    <3>4. QED
      BY <1>2, <3>1, <3>2, <3>3 DEF Owns
  <2>3. QED
    BY <1>5, <2>1, <2>2 DEF OwnerInv, Keeps, Owns
<1>8. \A u \in Tasks : affinity'[u] \subseteq built' /\ affinity'[u] # {}
  BY <1>5 DEF OwnerInv
<1>9. QED
  BY <1>5, <1>6, <1>7, <1>8 DEF OwnerInv

LEMMA LeaveOwner ==
  ASSUME OwnerInv, LifeInv', UNCHANGED built, NEW c \in built,
         NEW kept, NEW gone, NEW exit, Leave(c, kept, exit),
         kept \subseteq CPENABLE[c], gone \subseteq CPENABLE[c], kept \cap gone = {},
         exit # "interrupt" => kept = {},
         SMP /\ kept # {} => affinity[pxCurrentTCBs[c]] = {c},
         Gives(c, gone)
  PROVE  OwnerInv'
<1> DEFINE t == pxCurrentTCBs[c]
<1>1. /\ c \in Cores /\ t \in Tasks \cup {Idle}
      /\ pc[c] \in {"task", "leave"} /\ CPENABLE[c] \subseteq CPs
  BY BuiltCores DEF OwnerInv, LifeInv, TypeOK, Leave
<1>2. /\ \A d \in Cores : CPENABLE'[d] = IF d = c THEN {} ELSE CPENABLE[d]
      /\ \A d \in Cores : pc'[d] = IF d = c THEN "dispatch" ELSE pc[d]
      /\ \A u \in Tasks : XT_CPENABLE'[u] = IF u = t THEN kept ELSE XT_CPENABLE[u]
      /\ \A u \in Tasks : frame'[u] = IF u = t THEN exit ELSE frame[u]
  BY <1>1, CoprocAssumption DEF OwnerInv, LifeInv, TypeOK, Leave
<1>3. UNCHANGED <<pxCurrentTCBs, affinity, life>>
  BY DEF Leave
<1>4. /\ ~SMP => built = {c} /\ \A u \in Tasks : affinity[u] = {c}
      /\ \A d \in Cores : t \in Tasks /\ Runs(t, d) => d = c
      /\ t \in Tasks => life[t] # "none" /\ (Ready(t) => pc[c] = "task")
  <2>1. ~SMP => built = {c}
    BY DEF SMP
  <2>2. \A u \in Tasks : affinity[u] \subseteq built /\ affinity[u] # {}
    BY DEF OwnerInv
  <2>3. \A d \in Cores : t \in Tasks /\ Runs(t, d) => d = c
    BY <1>1, CoprocAssumption DEF OwnerInv, LifeInv, Apart, Runs
  <2>4. t \in Tasks => life[t] # "none" /\ (Ready(t) => pc[c] = "task")
    BY <1>1 DEF OwnerInv, LifeInv, Living, Running, Runs
  <2>5. QED
    BY <2>1, <2>2, <2>3, <2>4
<1>5. \A d \in Cores : Enabled(d)'
  <2> SUFFICES ASSUME NEW d \in Cores, NEW n \in CPENABLE'[d]
               PROVE  IF Executes(pxCurrentTCBs[d], d)' THEN owner'[d][n] = pxCurrentTCBs[d]
                      ELSE owner'[d][n] \in {pxCurrentTCBs[d], Null}
    BY <1>3 DEF Enabled, Executes, Runs, Owns
  <2>1. d # c /\ n \in CPENABLE[d] /\ n \in CPs
    BY <1>2 DEF LifeInv, TypeOK
  <2>2. owner'[d][n] = owner[d][n] /\ pc'[d] = pc[d]
    BY <1>2, <2>1 DEF Gives
  <2>3. QED
    BY <1>3, <2>1, <2>2 DEF OwnerInv, Enabled, Executes, Runs, Owns
<1>6. \A u \in Tasks \ {t} : (AtTask(u)' <=> AtTask(u)) /\ (Ready(u)' <=> Ready(u))
  BY <1>1, <1>2, <1>3 DEF AtTask, Runs, Ready
<1>7. ASSUME NEW u \in Tasks, u # t PROVE Keeps(u)'
  <2>1. ASSUME NEW d \in Cores, NEW n \in CPs, Owns(u, d, n) PROVE Owns(u, d, n)'
    <3>1. ~(d = c /\ n \in gone)
      BY <1>1, <1>7, <2>1, CoprocAssumption DEF OwnerInv, Enabled, Owns
    <3>2. QED
      BY <2>1, <3>1 DEF Owns, Gives
  <2>2. \A n \in XT_CPENABLE[u] : n \in CPs
    BY DEF OwnerInv, LifeInv, TypeOK
  <2>3. QED
    BY <1>2, <1>3, <1>6, <1>7, <2>1, <2>2 DEF OwnerInv, Keeps
<1>8. ASSUME t \in Tasks PROVE Keeps(t)'
  <2>1. ASSUME Ready(t), NEW n \in kept
        PROVE  owner'[c][n] = t /\ affinity[t] = {c}
    BY <1>1, <1>4, <1>8, <2>1, CoprocAssumption
       DEF OwnerInv, Enabled, Executes, Ready, Runs, Owns, Gives
  <2>2. QED
    BY <1>1, <1>2, <1>3, <1>4, <1>8, <2>1 DEF Keeps, Ready, Owns
<1>9. QED
  BY <1>3, <1>5, <1>7, <1>8 DEF OwnerInv

LEMMA YieldOwner ==
  ASSUME OwnerInv, LifeInv', UNCHANGED built, NEW c \in built, vPortYield(c) PROVE OwnerInv'
<1> DEFINE gone == IF SMP THEN CPENABLE[c] ELSE {}
<1>1. Gives(c, gone)
  BY BuiltCores, GiveUpOwners DEF OwnerInv, LifeInv, vPortYield, _xt_coproc_savecs, Gives
<1>2. Leave(c, {}, "solicited")
  BY DEF vPortYield
<1>3. QED
  BY <1>1, <1>2, LeaveOwner

\* A task that leaves its state in the core can run nowhere else.
LEMMA StaysHere ==
  ASSUME OwnerInv, NEW c \in Cores, ~Migrates(c), SMP, CPENABLE[c] # {}
  PROVE  affinity[pxCurrentTCBs[c]] = {c}
<1>1. pxCurrentTCBs[c] \in Tasks
  BY DEF OwnerInv, LifeInv, TypeOK
<1>2. affinity[pxCurrentTCBs[c]] \ {c} = {} /\ affinity[pxCurrentTCBs[c]] # {}
  BY <1>1 DEF Migrates, OwnerInv
<1>3. QED
  BY <1>2

LEMMA InterruptOwner ==
  ASSUME OwnerInv, LifeInv', UNCHANGED built, NEW c \in built, vPortYieldFromInt(c)
  PROVE  OwnerInv'
<1>1. c \in Cores
  BY BuiltCores DEF OwnerInv, LifeInv
<1>2. CASE SaveAll(c)
  <2>1. Leave(c, {}, "interrupt") /\ GiveUp(c, CPENABLE[c])
    BY <1>2 DEF SaveAll
  <2>2. Gives(c, CPENABLE[c])
    BY <1>1, <2>1, GiveUpOwners DEF OwnerInv, LifeInv
  <2>3. QED
    BY <2>1, <2>2, LeaveOwner
<1>3. CASE KeepAll(c)
  <2>1. Leave(c, CPENABLE[c], "interrupt") /\ UNCHANGED owner
    BY <1>3 DEF KeepAll
  <2>2. SMP /\ CPENABLE[c] # {} => affinity[pxCurrentTCBs[c]] = {c}
    BY <1>1, <1>3, StaysHere DEF KeepAll
  <2>3. Gives(c, {})
    BY <2>1 DEF Gives
  <2>4. QED
    BY <2>1, <2>2, <2>3, LeaveOwner
<1>4. QED
  BY <1>2, <1>3 DEF vPortYieldFromInt

LEMMA DispatchOwner ==
  ASSUME OwnerInv, LifeInv', UNCHANGED built, NEW c \in built, NEW t \in Tasks \cup {Idle},
         _frxt_dispatch(c, t)
  PROVE  OwnerInv'
<1>1. c \in Cores /\ pc[c] = "dispatch" /\ CPENABLE[c] = {}
  BY BuiltCores DEF OwnerInv, LifeInv, Living, _frxt_dispatch
<1>2. /\ \A d \in Cores : pxCurrentTCBs'[d] = IF d = c THEN t ELSE pxCurrentTCBs[d]
      /\ \A d \in Cores : pc'[d] = IF d = c THEN "task" ELSE pc[d]
      /\ \A d \in Cores \ {c} : CPENABLE'[d] = CPENABLE[d]
      /\ CPENABLE'[c] = IF t \in Tasks /\ frame[t] = "interrupt" THEN XT_CPENABLE[t] ELSE {}
  BY <1>1 DEF OwnerInv, LifeInv, TypeOK, _frxt_dispatch
<1>3. UNCHANGED <<owner, XT_CPENABLE, frame, affinity, life>>
  BY DEF _frxt_dispatch, saVars
<1>4. t \in Tasks => Ready(t) /\ c \in affinity[t] /\ \A d \in Cores \ {c} : ~Runs(t, d)
  BY CoprocAssumption DEF _frxt_dispatch, vTaskSwitchContext, Ready
<1>5. t \in Tasks => ~AtTask(t) /\ AtTask(t)'
  BY <1>1, <1>2, <1>4 DEF AtTask, Runs
<1>6. \A u \in Tasks \ {t} : AtTask(u)' <=> AtTask(u)
  BY <1>1, <1>2 DEF AtTask, Runs
<1>7. ASSUME NEW n \in CPENABLE'[c] PROVE owner[c][n] = t
  BY <1>1, <1>2, <1>4, <1>5, <1>7 DEF OwnerInv, Keeps, Owns
<1>8. \A d \in Cores : Enabled(d)'
  BY <1>1, <1>2, <1>3, <1>7 DEF OwnerInv, Enabled, Executes, Runs, Owns
<1>9. \A u \in Tasks : Keeps(u)'
  BY <1>3, <1>5, <1>6 DEF OwnerInv, Keeps, Ready, Owns
<1>10. QED
  BY <1>3, <1>8, <1>9 DEF OwnerInv

\* Nothing in this layer is about the contents.
LEMMA QuietOwner ==
  ASSUME OwnerInv, LifeInv',
         UNCHANGED <<built, CPENABLE, owner, XT_CPENABLE, pxCurrentTCBs, pc, frame, affinity, life>>
  PROVE  OwnerInv'
BY DEF OwnerInv, Enabled, Executes, Keeps, Owns, AtTask, Ready, Runs

LEMMA ReclaimOwner ==
  ASSUME OwnerInv, LifeInv', UNCHANGED built, NEW c \in built, NEW n \in CPs, Reclaim(c, n)
  PROVE  OwnerInv'
<1>1. c \in Cores
  BY BuiltCores DEF OwnerInv, LifeInv
<1>2. \A d \in Cores : CPENABLE'[d] = IF d = c THEN CPENABLE[c] \cup {n} ELSE CPENABLE[d]
  BY <1>1 DEF OwnerInv, LifeInv, TypeOK, Reclaim
<1>3. UNCHANGED <<owner, XT_CPENABLE, pxCurrentTCBs, pc, frame, affinity, life>>
  BY DEF Reclaim, saVars
<1>4. \A d \in Cores : Enabled(d)'
  BY <1>1, <1>2, <1>3 DEF OwnerInv, Enabled, Executes, Runs, Owns, Reclaim
<1>5. \A u \in Tasks : Keeps(u)'
  BY <1>3 DEF OwnerInv, Keeps, AtTask, Ready, Runs, Owns
<1>6. QED
  BY <1>3, <1>4, <1>5 DEF OwnerInv

\* A task is deleted, by itself or by another one: it is not ready any more.
LEMMA DeletedOwner ==
  ASSUME OwnerInv, LifeInv', UNCHANGED built, NEW t \in Tasks, NEW c \in Cores,
         portTaskDeleteHook(t), life[t] = "ready", life' = [life EXCEPT ![t] = "deleted"],
         pc' = pc \/ (Runs(t, c) /\ pc' = [pc EXCEPT ![c] = "leave"]),
         UNCHANGED <<CPENABLE, XT_CPENABLE, pxCurrentTCBs, frame, affinity>>
  PROVE  OwnerInv'
<1>1. \A u \in Tasks : life'[u] = IF u = t THEN "deleted" ELSE life[u]
  BY DEF OwnerInv, LifeInv, TypeOK
<1>2. \A d \in Cores, n \in CPs :
        owner'[d][n] = IF d = Core0 /\ owner[d][n] = t THEN Null ELSE owner[d][n]
  BY HookOwners DEF OwnerInv, LifeInv
<1>3. \A d \in Cores : pxCurrentTCBs[d] # t => pc'[d] = pc[d]
  BY DEF OwnerInv, LifeInv, TypeOK, Runs
<1>4. ASSUME NEW d \in Cores PROVE Enabled(d)'
  <2> DEFINE u == pxCurrentTCBs[d]
  <2> SUFFICES ASSUME NEW n \in CPENABLE[d]
               PROVE  IF Executes(u, d)' THEN owner'[d][n] = u ELSE owner'[d][n] \in {u, Null}
    BY DEF Enabled, Executes, Runs, Owns
  <2>1. n \in CPs /\ u \in Tasks \cup {Idle}
    BY DEF OwnerInv, LifeInv, TypeOK
  <2>2. IF Executes(u, d) THEN owner[d][n] = u ELSE owner[d][n] \in {u, Null}
    BY DEF OwnerInv, Enabled, Owns
  <2>3. CASE u = t
    <3>1. ~Executes(u, d)'
      BY <1>1, <2>3 DEF Executes
    <3>2. QED
      BY <1>2, <2>1, <2>2, <3>1
  <2>4. CASE u # t
    <3>1. Executes(u, d)' <=> Executes(u, d)
      BY <1>1, <1>3, <2>1, <2>4 DEF Executes, Runs
    <3>2. owner'[d][n] = owner[d][n]
      BY <1>2, <2>1, <2>2, <2>4, CoprocAssumption
    <3>3. QED
      BY <2>2, <3>1, <3>2
  <2>5. QED
    BY <2>3, <2>4
<1>5. \A u \in Tasks \ {t} : (AtTask(u)' <=> AtTask(u)) /\ (Ready(u)' <=> Ready(u))
  BY <1>1, <1>3 DEF AtTask, Ready, Runs
<1>6. \A u \in Tasks : Keeps(u)'
  <2>1. \A u \in Tasks : life'[u] = "none" => life[u] = "none"
    BY <1>1
  <2>2. \A u \in Tasks \ {t}, d \in Cores, n \in CPs : Owns(u, d, n)' <=> Owns(u, d, n)
    BY <1>2, CoprocAssumption DEF Owns
  <2>3. ~Ready(t)'
    BY <1>1 DEF Ready
  <2>4. \A u \in Tasks : \A n \in XT_CPENABLE[u] : n \in CPs
    BY DEF OwnerInv, LifeInv, TypeOK
  <2>5. QED
    BY <1>5, <2>1, <2>2, <2>3, <2>4 DEF OwnerInv, Keeps
<1>7. QED
  BY <1>4, <1>6 DEF OwnerInv

LEMMA FreeTaskOwner ==
  ASSUME OwnerInv, LifeInv', UNCHANGED built, NEW t \in Tasks, FreeTask(t) PROVE OwnerInv'
<1>1. UNCHANGED <<CPENABLE, owner, pxCurrentTCBs, pc>>
  BY DEF FreeTask
<1>2. \A u \in Tasks :
        /\ XT_CPENABLE'[u] = IF u = t THEN {} ELSE XT_CPENABLE[u]
        /\ affinity'[u] = IF u = t THEN built ELSE affinity[u]
        /\ frame'[u] = IF u = t THEN "start" ELSE frame[u]
        /\ life'[u] = IF u = t THEN "none" ELSE life[u]
  BY DEF OwnerInv, LifeInv, TypeOK, FreeTask
<1>3. \A u \in Tasks : (AtTask(u)' <=> AtTask(u)) /\ (u # t => (Ready(u)' <=> Ready(u)))
  BY <1>1, <1>2 DEF AtTask, Ready, Runs
<1>4. \A d \in Cores : Enabled(d)'
  <2> SUFFICES ASSUME NEW d \in Cores PROVE Enabled(d)'
    OBVIOUS
  <2>1. pxCurrentTCBs[d] \in (Tasks \ {t}) \cup {Idle}
    BY DEF OwnerInv, LifeInv, TypeOK, FreeTask, Running, Runs
  <2>2. Executes(pxCurrentTCBs[d], d)' <=> Executes(pxCurrentTCBs[d], d)
    BY <1>1, <1>2, <2>1 DEF Executes, Runs
  <2>3. QED
    BY <1>1, <2>2 DEF OwnerInv, Enabled, Owns
<1>5. \A u \in Tasks : Keeps(u)'
  BY <1>1, <1>2, <1>3 DEF OwnerInv, Keeps, Owns
<1>6. \A u \in Tasks : affinity'[u] \subseteq built /\ affinity'[u] # {}
  BY <1>2, BuiltCores DEF OwnerInv, LifeInv
<1>7. QED
  BY <1>4, <1>5, <1>6 DEF OwnerInv

LEMMA CreateTaskOwner ==
  ASSUME OwnerInv, LifeInv', UNCHANGED built, NEW t \in Tasks, NEW cores \in (SUBSET built) \ {{}},
         CreateTask(t, cores)
  PROVE  OwnerInv'
<1>1. UNCHANGED <<CPENABLE, owner, XT_CPENABLE, pxCurrentTCBs, pc, frame>>
  BY DEF CreateTask, cpVars, saVars
<1>2. \A u \in Tasks :
        /\ affinity'[u] = IF u = t THEN cores ELSE affinity[u]
        /\ life'[u] = IF u = t THEN "ready" ELSE life[u]
  BY DEF OwnerInv, LifeInv, TypeOK, CreateTask
<1>3. XT_CPENABLE[t] = {}
  BY DEF OwnerInv, Keeps, CreateTask
<1>4. \A d \in Cores : Enabled(d)'
  <2> SUFFICES ASSUME NEW d \in Cores PROVE Enabled(d)'
    OBVIOUS
  <2>1. pxCurrentTCBs[d] \in (Tasks \ {t}) \cup {Idle}
    BY DEF OwnerInv, LifeInv, TypeOK, Living, CreateTask, Running, Runs
  <2>2. Executes(pxCurrentTCBs[d], d)' <=> Executes(pxCurrentTCBs[d], d)
    BY <1>1, <1>2, <2>1 DEF Executes, Runs
  <2>3. QED
    BY <1>1, <2>2 DEF OwnerInv, Enabled, Owns
<1>5. \A u \in Tasks : Keeps(u)'
  BY <1>1, <1>2, <1>3 DEF OwnerInv, Keeps, AtTask, Ready, Runs, Owns
<1>6. \A u \in Tasks : affinity'[u] \subseteq built /\ affinity'[u] # {}
  <2>1. cores \subseteq built /\ cores # {}
    OBVIOUS
  <2>2. \A u \in Tasks : affinity[u] \subseteq built /\ affinity[u] # {}
    BY DEF OwnerInv
  <2>3. QED
    BY <1>2, <2>1, <2>2
<1>7. QED
  BY <1>1, <1>4, <1>5, <1>6 DEF OwnerInv

\* An affinity changes while its task executes, or keeps nothing.
LEMMA AffinityOwner ==
  ASSUME ~slipped', OwnerInv, LifeInv', UNCHANGED built, NEW t \in Tasks,
         NEW cores \in (SUBSET built) \ {{}}, vTaskCoreAffinitySet(t, cores)
  PROVE  OwnerInv'
<1>1. UNCHANGED <<CPENABLE, owner, XT_CPENABLE, pxCurrentTCBs, pc, frame, life>>
  BY DEF vTaskCoreAffinitySet, cpVars, saVars
<1>2. \A u \in Tasks : affinity'[u] = IF u = t THEN cores ELSE affinity[u]
  BY DEF OwnerInv, LifeInv, TypeOK, vTaskCoreAffinitySet
<1>3. AtTask(t) \/ XT_CPENABLE[t] = {}
  BY DEF vTaskCoreAffinitySet, MayPin, LeftBehind, Running, AtTask
<1>4. \A d \in Cores : Enabled(d)'
  BY <1>1 DEF OwnerInv, Enabled, Executes, Runs, Owns
<1>5. \A u \in Tasks : Keeps(u)'
  BY <1>1, <1>2, <1>3 DEF OwnerInv, Keeps, AtTask, Ready, Runs, Owns
<1>6. \A u \in Tasks : affinity'[u] \subseteq built /\ affinity'[u] # {}
  <2>1. cores \subseteq built /\ cores # {}
    OBVIOUS
  <2>2. \A u \in Tasks : affinity[u] \subseteq built /\ affinity[u] # {}
    BY DEF OwnerInv
  <2>3. QED
    BY <1>2, <2>1, <2>2
<1>7. QED
  BY <1>1, <1>4, <1>5, <1>6 DEF OwnerInv

LEMMA StepOwner == ~slipped' /\ OwnerInv /\ [Next]_vars => OwnerInv'
<1> SUFFICES ASSUME ~slipped', OwnerInv, [Next]_vars PROVE OwnerInv'
  OBVIOUS
<1>1. LifeInv'
  BY StepLife DEF OwnerInv
<1>2. CASE UNCHANGED vars
  BY <1>1, <1>2, QuietOwner DEF vars, cpVars, saVars
<1>3. ASSUME NEW c \in built, CoreStep(c), UNCHANGED built PROVE OwnerInv'
  <2>1. ASSUME NEW n \in CPs, Compute(c, n) \/ Reclaim(c, n) \/ _xt_coproc_handler(c, n)
        PROVE  OwnerInv'
    <3>1. CASE Compute(c, n)
      BY <1>1, <1>3, <3>1, QuietOwner DEF Compute
    <3>2. QED
      BY <1>1, <1>3, <2>1, <3>1, ReclaimOwner, HandlerOwner
  <2>2. CASE vPortYield(c) \/ vPortYieldFromInt(c)
    BY <1>1, <1>3, <2>2, YieldOwner, InterruptOwner
  <2>3. CASE \E t \in Tasks \cup {Idle} : _frxt_dispatch(c, t)
    BY <1>1, <1>3, <2>3, DispatchOwner
  <2>4. CASE DeleteSelf(c)
    <3>1. c \in Cores /\ pxCurrentTCBs[c] \in Tasks
      BY <2>4, BuiltCores DEF OwnerInv, LifeInv, TypeOK, DeleteSelf
    <3>2. QED
      BY <1>1, <1>3, <2>4, <3>1, DeletedOwner DEF DeleteSelf, Runs, saVars
  <2>5. QED
    BY <1>3, <2>1, <2>2, <2>3, <2>4 DEF CoreStep
<1>4. ASSUME NEW t \in Tasks, KernelStep(t), UNCHANGED built PROVE OwnerInv'
  <2>1. CASE DeleteOther(t)
    BY <1>1, <1>4, <2>1, CoprocAssumption, DeletedOwner DEF DeleteOther, saVars
  <2>2. QED
    BY <1>1, <1>4, <2>1, FreeTaskOwner, CreateTaskOwner, AffinityOwner DEF KernelStep
<1>5. QED
  BY <1>2, <1>3, <1>4 DEF Next

\* An affinity that has slipped is not forgotten, nor is a freed owner.
LEMMA Disturbances == [Next]_vars => (slipped => slipped') /\ (dangled => dangled')
<1> SUFFICES ASSUME [Next]_vars PROVE (slipped => slipped') /\ (dangled => dangled')
  OBVIOUS
<1>1. CASE UNCHANGED vars
  BY <1>1 DEF vars, history
<1>2. ASSUME NEW c \in built, CoreStep(c) PROVE UNCHANGED <<slipped, dangled>>
  BY <1>2 DEF CoreStep, Compute, Reclaim, _xt_coproc_handler, vPortYield, vPortYieldFromInt, SaveAll,
              KeepAll, Leave, _frxt_dispatch, DeleteSelf, history
<1>3. ASSUME NEW t \in Tasks, KernelStep(t)
      PROVE  (slipped => slipped') /\ (dangled => dangled')
  <2>1. DeleteOther(t) => UNCHANGED <<slipped, dangled>>
    BY DEF DeleteOther
  <2>2. FreeTask(t) => UNCHANGED slipped /\ (dangled => dangled')
    BY DEF FreeTask
  <2>3. ASSUME NEW cores \in (SUBSET built) \ {{}}, CreateTask(t, cores)
        PROVE  UNCHANGED <<slipped, dangled>>
    BY <2>3 DEF CreateTask, history
  <2>4. ASSUME NEW cores \in (SUBSET built) \ {{}}, vTaskCoreAffinitySet(t, cores)
        PROVE  (slipped => slipped') /\ UNCHANGED dangled
    BY <2>4 DEF vTaskCoreAffinitySet
  <2>5. QED
    BY <1>3, <2>1, <2>2, <2>3, <2>4 DEF KernelStep
<1>4. QED
  BY <1>1, <1>2, <1>3 DEF Next

LEMMA OwnerEnabled == OwnerInv => EnabledIsOwned
<1> SUFFICES ASSUME OwnerInv PROVE EnabledIsOwned
  OBVIOUS
<1>1. \A c \in Cores, t \in Tasks : Executes(t, c) => \A n \in CPENABLE[c] : owner[c][n] = t
  BY DEF OwnerInv, Enabled, Executes, Runs, Owns
<1>2. \A t \in Tasks : ~Running(t) => ~AtTask(t)
  BY DEF Running, AtTask
<1>3. QED
  BY <1>1, <1>2 DEF OwnerInv, Keeps, Ready, Owns, EnabledIsOwned

\* As long as affinities are changed only for tasks that execute or have released
\* their coprocessors, a coprocessor that is or will be enabled for a task is the
\* task's, on the one core where it can run.
THEOREM XtCoprocEnabledIsOwned == Spec => []EnabledIsOwned
<1> DEFINE Inv == slipped \/ OwnerInv
<1>1. Init => Inv
  BY InitOwner
<1>2. Inv /\ [Next]_vars => Inv'
  BY StepOwner, Disturbances
<1>3. Inv => EnabledIsOwned
  BY OwnerEnabled DEF EnabledIsOwned
<1>4. QED
  BY <1>1, <1>2, <1>3, PTL DEF Spec

-----------------------------------------------------------------------------
(* Owners are where their tasks are                                        *)

LEMMA InitTrace == Init => TraceInv
BY InitOwner, CoprocAssumption DEF Init, TraceInv, Traced, Owns

LEMMA HandlerTrace ==
  ASSUME TraceInv, OwnerInv', UNCHANGED built, NEW c \in built, NEW n \in CPs,
         _xt_coproc_handler(c, n)
  PROVE  TraceInv'
<1>t. PICK t \in Tasks : t = pxCurrentTCBs[c]
  BY BuiltCores DEF TraceInv, OwnerInv, LifeInv, TypeOK, _xt_coproc_handler
<1>old. PICK old \in Tasks \cup {Null} : old = owner[c][n]
  BY BuiltCores DEF TraceInv, OwnerInv, LifeInv, TypeOK
<1>1. c \in Cores /\ pc[c] = "task" /\ life[t] # "none" /\ old # t
  BY <1>t, <1>old, BuiltCores
     DEF TraceInv, OwnerInv, LifeInv, Living, Running, Runs, _xt_coproc_handler
<1>2. \A d \in Cores, m \in CPs :
        /\ owner'[d][m] = IF d = c /\ m = n THEN t ELSE owner[d][m]
        /\ m \in CPENABLE'[d] <=> m \in CPENABLE[d] \/ (d = c /\ m = n)
  BY <1>t, <1>1 DEF TraceInv, OwnerInv, LifeInv, TypeOK, _xt_coproc_handler
<1>3. \A u \in Tasks, m \in CPs :
        m \in XT_CPENABLE'[u] <=> m \in XT_CPENABLE[u] /\ ~(u = old /\ m = n)
  BY <1>old, CoprocAssumption
     DEF TraceInv, OwnerInv, LifeInv, TypeOK, _xt_coproc_handler, ReleaseOld, SaveOld
<1>4. UNCHANGED <<pxCurrentTCBs, pc, affinity, life>>
  BY DEF _xt_coproc_handler
<1>5. ASSUME NEW u \in Tasks, NEW d \in Cores, NEW m \in CPs PROVE Traced(u, d, m)'
  <2>1. CASE d = c /\ m = n
    BY <1>t, <1>1, <1>2, <1>4, <2>1 DEF Traced, Owed, Owns, Runs
  <2>2. CASE ~(d = c /\ m = n)
    <3> SUFFICES ASSUME Owns(u, d, m), SMP, Ready(u) PROVE Owed(u, d, m)'
      BY <1>2, <1>4, <2>2 DEF TraceInv, Traced, Owns, Ready, SMP
    <3>1. CASE Runs(u, d) /\ pc[d] = "task" /\ m \in CPENABLE[d]
      BY <1>2, <1>4, <3>1 DEF Owed, Runs
    <3>2. CASE ~AtTask(u) /\ m \in XT_CPENABLE[u] /\ affinity[u] = {d}
      <4>1. u = old => m # n
        <5> SUFFICES ASSUME u = old, m = n PROVE FALSE
          OBVIOUS
        <5>1. Owed(u, c, n)
          BY <1>old, <1>1 DEF TraceInv, Traced, Owns
        <5>2. affinity[u] = {c}
          BY <1>1, <3>2, <5>1 DEF Owed, AtTask
        <5>3. QED
          BY <2>2, <3>2, <5>2
      <4>2. QED
        BY <1>3, <1>4, <3>2, <4>1 DEF Owed, AtTask, Runs
    <3>3. QED
      BY <3>1, <3>2 DEF TraceInv, Traced, Owed
  <2>3. QED
    BY <2>1, <2>2
<1>6. QED
  BY <1>5 DEF TraceInv

LEMMA LeaveTrace ==
  ASSUME TraceInv, OwnerInv', UNCHANGED built, NEW c \in built,
         NEW kept, NEW gone, NEW exit, Leave(c, kept, exit),
         SMP => CPENABLE[c] \subseteq kept \cup gone,
         SMP /\ kept # {} => affinity[pxCurrentTCBs[c]] = {c},
         Gives(c, gone)
  PROVE  TraceInv'
<1> DEFINE t == pxCurrentTCBs[c]
<1>1. c \in Cores /\ t \in Tasks \cup {Idle} /\ (Ready(t) => pc[c] = "task")
  BY BuiltCores, CoprocAssumption
     DEF TraceInv, OwnerInv, LifeInv, TypeOK, Living, Ready, Leave
<1>2. /\ \A d \in Cores \ {c} : CPENABLE'[d] = CPENABLE[d] /\ pc'[d] = pc[d]
      /\ pc'[c] = "dispatch"
      /\ \A u \in Tasks : XT_CPENABLE'[u] = IF u = t THEN kept ELSE XT_CPENABLE[u]
      /\ UNCHANGED <<pxCurrentTCBs, affinity, life>>
  BY <1>1, CoprocAssumption DEF TraceInv, OwnerInv, LifeInv, TypeOK, Leave
<1>3. \A d \in Cores : t \in Tasks /\ Runs(t, d) => d = c
  BY <1>1, CoprocAssumption DEF TraceInv, OwnerInv, LifeInv, Apart, Runs
<1>4. ASSUME NEW u \in Tasks, NEW d \in Cores, NEW n \in CPs PROVE Traced(u, d, n)'
  <2> SUFFICES ASSUME Owns(u, d, n)' PROVE life[u] # "none" /\ (SMP /\ Ready(u) => Owed(u, d, n)')
    BY <1>2 DEF Traced, SMP, Ready
  <2>1. Owns(u, d, n) /\ ~(d = c /\ n \in gone)
    BY CoprocAssumption DEF Owns, Gives
  <2>2. life[u] # "none" /\ (SMP /\ Ready(u) => Owed(u, d, n))
    BY <2>1 DEF TraceInv, Traced
  <2> SUFFICES ASSUME SMP, Ready(u) PROVE Owed(u, d, n)'
    BY <2>2
  <2>3. CASE u # t
    <3>1. AtTask(u)' <=> AtTask(u)
      BY <1>1, <1>2, <2>3 DEF AtTask, Runs
    <3>2. Runs(u, d) => d # c
      BY <2>3 DEF Runs
    <3>3. QED
      BY <1>2, <2>2, <2>3, <3>1, <3>2 DEF Owed, Runs
  <2>4. CASE u = t
    <3>1. d = c /\ n \in CPENABLE[c]
      BY <1>1, <1>3, <2>2, <2>4 DEF Owed, AtTask, Runs
    <3>2. n \in kept
      BY <2>1, <3>1
    <3>3. ~AtTask(t)'
      BY <1>2, <1>3, <2>4 DEF AtTask, Runs
    <3>4. QED
      BY <1>2, <2>4, <3>1, <3>2, <3>3 DEF Owed
  <2>5. QED
    BY <2>3, <2>4
<1>5. QED
  BY <1>4 DEF TraceInv

LEMMA YieldTrace ==
  ASSUME TraceInv, OwnerInv', UNCHANGED built, NEW c \in built, vPortYield(c) PROVE TraceInv'
<1> DEFINE gone == IF SMP THEN CPENABLE[c] ELSE {}
<1>1. Gives(c, gone)
  BY BuiltCores, GiveUpOwners
     DEF TraceInv, OwnerInv, LifeInv, vPortYield, _xt_coproc_savecs, Gives
<1>2. Leave(c, {}, "solicited")
  BY DEF vPortYield
<1>3. QED
  BY <1>1, <1>2, LeaveTrace

LEMMA InterruptTrace ==
  ASSUME TraceInv, OwnerInv', UNCHANGED built, NEW c \in built, vPortYieldFromInt(c)
  PROVE  TraceInv'
<1>1. c \in Cores
  BY BuiltCores DEF TraceInv, OwnerInv, LifeInv
<1>2. CASE SaveAll(c)
  <2>1. Leave(c, {}, "interrupt") /\ GiveUp(c, CPENABLE[c])
    BY <1>2 DEF SaveAll
  <2>2. Gives(c, CPENABLE[c])
    BY <1>1, <2>1, GiveUpOwners DEF TraceInv, OwnerInv, LifeInv
  <2>3. QED
    BY <2>1, <2>2, LeaveTrace
<1>3. CASE KeepAll(c)
  <2>1. Leave(c, CPENABLE[c], "interrupt") /\ UNCHANGED owner
    BY <1>3 DEF KeepAll
  <2>2. SMP /\ CPENABLE[c] # {} => affinity[pxCurrentTCBs[c]] = {c}
    BY <1>1, <1>3, StaysHere DEF TraceInv, KeepAll
  <2>3. Gives(c, {})
    BY <2>1 DEF Gives
  <2>4. QED
    BY <2>1, <2>2, <2>3, LeaveTrace
<1>4. QED
  BY <1>2, <1>3 DEF vPortYieldFromInt

LEMMA DispatchTrace ==
  ASSUME TraceInv, OwnerInv', UNCHANGED built, NEW c \in built, NEW t \in Tasks \cup {Idle},
         _frxt_dispatch(c, t)
  PROVE  TraceInv'
<1>1. c \in Cores /\ pc[c] = "dispatch"
  BY BuiltCores DEF TraceInv, OwnerInv, LifeInv, _frxt_dispatch
<1>2. /\ \A d \in Cores : pxCurrentTCBs'[d] = IF d = c THEN t ELSE pxCurrentTCBs[d]
      /\ \A d \in Cores : pc'[d] = IF d = c THEN "task" ELSE pc[d]
      /\ \A d \in Cores \ {c} : CPENABLE'[d] = CPENABLE[d]
      /\ t \in Tasks /\ frame[t] = "interrupt" => CPENABLE'[c] = XT_CPENABLE[t]
      /\ UNCHANGED <<owner, XT_CPENABLE, affinity, life>>
  BY <1>1 DEF TraceInv, OwnerInv, LifeInv, TypeOK, _frxt_dispatch, saVars
<1>3. t \in Tasks => c \in affinity[t] /\ \A d \in Cores \ {c} : ~Runs(t, d)
  BY CoprocAssumption DEF _frxt_dispatch, vTaskSwitchContext
<1>4. ASSUME NEW u \in Tasks, NEW d \in Cores, NEW n \in CPs, Owed(u, d, n)
      PROVE  Owed(u, d, n)'
  <2>1. CASE u # t
    <3>1. AtTask(u)' <=> AtTask(u)
      BY <1>1, <1>2, <2>1 DEF AtTask, Runs
    <3>2. QED
      BY <1>1, <1>2, <1>4, <2>1, <3>1 DEF Owed, Runs
  <2>2. CASE u = t
    <3>1. n \in XT_CPENABLE[t] /\ affinity[t] = {d}
      BY <1>1, <1>3, <1>4, <2>2 DEF Owed, Runs
    <3>2. d = c
      BY <1>3, <2>2, <3>1
    <3>3. n \in CPENABLE'[c]
      BY <1>2, <2>2, <3>1 DEF TraceInv, OwnerInv, Keeps
    <3>4. QED
      BY <1>1, <1>2, <2>2, <3>2, <3>3 DEF Owed, Runs
  <2>3. QED
    BY <2>1, <2>2
<1>5. QED
  BY <1>2, <1>4 DEF TraceInv, Traced, Owns, Ready, SMP

\* Steps that add no owner and make no task ready, and leave where the others are.
LEMMA QuietTrace ==
  ASSUME TraceInv, OwnerInv', UNCHANGED built,
         \A t \in Tasks, c \in Cores, n \in CPs : Owns(t, c, n)' =>
           /\ Owns(t, c, n)
           /\ life'[t] # "none"
           /\ Ready(t)' => Ready(t) /\ (Owed(t, c, n) => Owed(t, c, n)')
  PROVE  TraceInv'
BY DEF TraceInv, Traced, SMP

LEMMA DeletedTrace ==
  ASSUME TraceInv, OwnerInv', UNCHANGED built, NEW t \in Tasks, NEW c \in Cores,
         portTaskDeleteHook(t), life[t] = "ready", life' = [life EXCEPT ![t] = "deleted"],
         pc' = pc \/ (Runs(t, c) /\ pc' = [pc EXCEPT ![c] = "leave"]),
         UNCHANGED <<CPENABLE, XT_CPENABLE, pxCurrentTCBs, frame, affinity>>
  PROVE  TraceInv'
<1>1. \A u \in Tasks : life'[u] = IF u = t THEN "deleted" ELSE life[u]
  BY DEF TraceInv, OwnerInv, LifeInv, TypeOK
<1>2. \A d \in Cores : pxCurrentTCBs[d] # t => pc'[d] = pc[d]
  BY DEF TraceInv, OwnerInv, LifeInv, TypeOK, Runs
<1>3. \A u \in Tasks \ {t}, d \in Cores, n \in CPs : Owed(u, d, n) => Owed(u, d, n)'
  BY <1>2 DEF Owed, AtTask, Runs
<1>4. ASSUME NEW u \in Tasks, NEW d \in Cores, NEW n \in CPs, Owns(u, d, n)'
      PROVE  Owns(u, d, n) /\ life'[u] # "none" /\ (Ready(u)' => Ready(u) /\ u # t)
  <2>1. Owns(u, d, n)
    BY <1>4, HookOwners, CoprocAssumption DEF TraceInv, OwnerInv, LifeInv, Owns
  <2>2. QED
    BY <1>1, <2>1 DEF TraceInv, Traced, Ready
<1>5. QED
  BY <1>3, <1>4, QuietTrace

LEMMA FreeTaskTrace ==
  ASSUME ~dangled', TraceInv, OwnerInv', UNCHANGED built, NEW t \in Tasks, FreeTask(t)
  PROVE  TraceInv'
<1>1. UNCHANGED <<CPENABLE, owner, pxCurrentTCBs, pc>>
  BY DEF FreeTask
<1>2. \A u \in Tasks \ {t} :
        XT_CPENABLE'[u] = XT_CPENABLE[u] /\ affinity'[u] = affinity[u] /\ life'[u] = life[u]
  BY DEF TraceInv, OwnerInv, LifeInv, TypeOK, FreeTask
<1>3. \A d \in Cores, n \in CPs : ~Owns(t, d, n)
  BY DEF FreeTask, Owns
<1>4. ASSUME NEW u \in Tasks \ {t}, NEW d \in Cores, NEW n \in CPs PROVE Traced(u, d, n)'
  <2>1. Owed(u, d, n) => Owed(u, d, n)'
    BY <1>1, <1>2 DEF Owed, AtTask, Runs
  <2>2. QED
    BY <1>1, <1>2, <2>1 DEF TraceInv, Traced, Owns, Ready, SMP
<1>5. \A d \in Cores, n \in CPs : Traced(t, d, n)'
  BY <1>1, <1>3 DEF Traced, Owns
<1>6. QED
  BY <1>4, <1>5 DEF TraceInv

LEMMA CreateTaskTrace ==
  ASSUME TraceInv, OwnerInv', UNCHANGED built, NEW t \in Tasks, NEW cores, CreateTask(t, cores)
  PROVE  TraceInv'
<1>1. UNCHANGED <<CPENABLE, owner, XT_CPENABLE, pxCurrentTCBs, pc>>
  BY DEF CreateTask, cpVars, saVars
<1>2. \A u \in Tasks \ {t} : affinity'[u] = affinity[u] /\ life'[u] = life[u]
  BY DEF TraceInv, OwnerInv, LifeInv, TypeOK, CreateTask
<1>3. \A d \in Cores, n \in CPs : ~Owns(t, d, n)
  BY DEF TraceInv, Traced, CreateTask
<1>4. ASSUME NEW u \in Tasks \ {t}, NEW d \in Cores, NEW n \in CPs PROVE Traced(u, d, n)'
  <2>1. Owed(u, d, n) => Owed(u, d, n)'
    BY <1>1, <1>2 DEF Owed, AtTask, Runs
  <2>2. QED
    BY <1>1, <1>2, <2>1 DEF TraceInv, Traced, Owns, Ready, SMP
<1>5. \A d \in Cores, n \in CPs : Traced(t, d, n)'
  BY <1>1, <1>3 DEF Traced, Owns
<1>6. QED
  BY <1>4, <1>5 DEF TraceInv

LEMMA AffinityTrace ==
  ASSUME ~slipped', TraceInv, OwnerInv', UNCHANGED built, NEW t \in Tasks, NEW cores,
         vTaskCoreAffinitySet(t, cores)
  PROVE  TraceInv'
<1>1. UNCHANGED <<CPENABLE, owner, XT_CPENABLE, pxCurrentTCBs, pc, life>>
  BY DEF vTaskCoreAffinitySet, cpVars, saVars
<1>2. \A u \in Tasks \ {t} : affinity'[u] = affinity[u]
  BY DEF TraceInv, OwnerInv, LifeInv, TypeOK, vTaskCoreAffinitySet
<1>3. AtTask(t) \/ XT_CPENABLE[t] = {}
  BY DEF vTaskCoreAffinitySet, MayPin, LeftBehind, Running, AtTask
<1>4. \A u \in Tasks, d \in Cores, n \in CPs : Owed(u, d, n) => Owed(u, d, n)'
  BY <1>1, <1>2, <1>3 DEF Owed, AtTask, Runs
<1>5. QED
  BY <1>1, <1>4 DEF TraceInv, Traced, Owns, Ready, SMP

LEMMA StepTrace == Undisturbed' /\ TraceInv /\ [Next]_vars => TraceInv'
<1> SUFFICES ASSUME Undisturbed', TraceInv, [Next]_vars PROVE TraceInv'
  OBVIOUS
<1>1. OwnerInv' /\ ~slipped' /\ ~dangled'
  BY StepOwner DEF TraceInv, Undisturbed
<1>2. CASE UNCHANGED vars
  BY <1>1, <1>2 DEF TraceInv, Traced, Owed, AtTask, Owns, Ready, Runs, SMP, vars, cpVars, saVars
<1>3. ASSUME NEW c \in built, CoreStep(c), UNCHANGED built PROVE TraceInv'
  <2>1. ASSUME NEW n \in CPs, Compute(c, n) \/ Reclaim(c, n) PROVE TraceInv'
    <3>1. /\ UNCHANGED <<owner, XT_CPENABLE, pxCurrentTCBs, pc, affinity, life>>
          /\ \A d \in Cores : CPENABLE[d] \subseteq CPENABLE'[d]
      <4>1. CASE Compute(c, n)
        BY <4>1 DEF Compute
      <4>2. CASE Reclaim(c, n)
        BY <4>2 DEF TraceInv, OwnerInv, LifeInv, TypeOK, Reclaim, saVars
      <4>3. QED
        BY <2>1, <4>1, <4>2
    <3>2. \A t \in Tasks, d \in Cores, m \in CPs : Owed(t, d, m) => Owed(t, d, m)'
      BY <3>1 DEF Owed, AtTask, Runs
    <3>3. QED
      BY <1>1, <1>3, <3>1, <3>2 DEF TraceInv, Traced, Owns, Ready, SMP
  <2>2. CASE \E n \in CPs : _xt_coproc_handler(c, n)
    BY <1>1, <1>3, <2>2, HandlerTrace
  <2>3. CASE vPortYield(c) \/ vPortYieldFromInt(c)
    BY <1>1, <1>3, <2>3, YieldTrace, InterruptTrace
  <2>4. CASE \E t \in Tasks \cup {Idle} : _frxt_dispatch(c, t)
    BY <1>1, <1>3, <2>4, DispatchTrace
  <2>5. CASE DeleteSelf(c)
    <3>1. c \in Cores /\ pxCurrentTCBs[c] \in Tasks
      BY <2>5, BuiltCores DEF TraceInv, OwnerInv, LifeInv, TypeOK, DeleteSelf
    <3>2. QED
      BY <1>1, <1>3, <2>5, <3>1, DeletedTrace DEF DeleteSelf, Runs, saVars
  <2>6. QED
    BY <1>3, <2>1, <2>2, <2>3, <2>4, <2>5 DEF CoreStep
<1>4. ASSUME NEW t \in Tasks, KernelStep(t), UNCHANGED built PROVE TraceInv'
  <2>1. CASE DeleteOther(t)
    BY <1>1, <1>4, <2>1, CoprocAssumption, DeletedTrace DEF DeleteOther, saVars
  <2>2. QED
    BY <1>1, <1>4, <2>1, FreeTaskTrace, CreateTaskTrace, AffinityTrace DEF KernelStep
<1>5. QED
  BY <1>2, <1>3, <1>4 DEF Next

-----------------------------------------------------------------------------
(* Tasks keep their state                                                  *)

\* What is left of x is at least what task t had of it.
Retains(x, y, t) == (x.callee = t => y.callee = t) /\ (x.caller = t => y.caller = t)

\* Nothing that bears on the state of n that task t counts on gets worse.
Same(t, n) ==
  /\ Ready(t)' => Ready(t)
  /\ need'[t][n] = need[t][n]
  /\ <<t, n>> \in forgotten => <<t, n>> \in forgotten'
  /\ n \in XT_CPSTORED'[t] <=> n \in XT_CPSTORED[t]
  /\ n \in XT_CP_CS_ST[t] => n \in XT_CP_CS_ST'[t]
  /\ Retains(area[t][n], area'[t][n], t)
  /\ \A c \in Cores :
       /\ Owns(t, c, n)' <=> Owns(t, c, n)
       /\ Owns(t, c, n) => /\ Retains(reg[c][n], reg'[c][n], t)
                           /\ Active(t, c, n) => Active(t, c, n)'

LEMMA OthersRetain ==
  ASSUME NEW x, NEW t, NEW u
  PROVE  /\ Retains(x, x, u)
         /\ u # t => Retains(x, Outdate(x, t), u) /\ Retains(x, Solicited(x, t), u)
BY DEF Retains, Outdate, Solicited

LEMMA CalleeStays == ASSUME NEW x, NEW t PROVE Solicited(x, t).callee = x.callee
BY DEF Solicited

LEMMA SameState ==
  ASSUME NEW t \in Tasks, NEW n \in CPs, Same(t, n), Ready(t) => StateOf(t, n)
  PROVE  Ready(t)' => StateOf(t, n)'
<1> SUFFICES ASSUME Ready(t)' PROVE StateOf(t, n)'
  OBVIOUS
<1>1. StateOf(t, n)
  BY DEF Same
<1>2. CalleeSaved(t, n) => CalleeSaved(t, n)'
  BY DEF Same, CalleeSaved, Retains
<1>3. InArea(t, n) => InArea(t, n)'
  BY <1>2 DEF Same, InArea, Has, Holds, Retains
<1>4. InCore(t, n)' <=> InCore(t, n)
  BY DEF Same, InCore
<1>5. ASSUME NEW c \in Cores, Owns(t, c, n)'
      PROVE  /\ Has(reg[c][n], t, n)'
             /\ n \notin XT_CPSTORED'[t]
             /\ ~Active(t, c, n)' => CalleeSaved(t, n)'
  <2>1. Owns(t, c, n)
    BY <1>5 DEF Same
  <2>2. QED
    BY <1>1, <1>2, <2>1 DEF Same, StateOf, Has, Holds, Retains
<1>6. QED
  BY <1>1, <1>3, <1>4, <1>5 DEF StateOf

\* Two cores do not both have n for the same task.
LEMMA OneOwner ==
  ASSUME TraceInv, NEW t \in Tasks, Ready(t), NEW n \in CPs, NEW c \in Cores, NEW d \in Cores,
         Owns(t, c, n), Owns(t, d, n)
  PROVE  c = d
<1>1. CASE SMP
  <2>1. Owed(t, c, n) /\ Owed(t, d, n)
    BY <1>1 DEF TraceInv, Traced
  <2>2. QED
    BY <2>1, CoprocAssumption DEF TraceInv, OwnerInv, LifeInv, Apart, Owed, AtTask, Runs
<1>2. CASE ~SMP
  BY <1>2, CoprocAssumption DEF SMP, TraceInv, OwnerInv, LifeInv, Unused, Owns
<1>3. QED
  BY <1>1, <1>2

\* A task owns what it owns on the core that it executes on.
LEMMA OwnsHere ==
  ASSUME TraceInv, NEW t \in Tasks, Ready(t), NEW n \in CPs, NEW c \in built, NEW d \in Cores,
         Runs(t, c), pc[c] = "task", Owns(t, d, n)
  PROVE  d = c /\ (SMP => n \in CPENABLE[c])
<1>1. c \in Cores
  BY BuiltCores DEF TraceInv, OwnerInv, LifeInv
<1>2. CASE SMP
  <2>1. Owed(t, d, n)
    BY <1>2 DEF TraceInv, Traced
  <2>2. QED
    BY <1>1, <2>1, CoprocAssumption DEF TraceInv, OwnerInv, LifeInv, Apart, Owed, AtTask, Runs
<1>3. CASE ~SMP
  BY <1>1, <1>3, CoprocAssumption DEF SMP, TraceInv, OwnerInv, LifeInv, Unused, Owns
<1>4. QED
  BY <1>2, <1>3

\* A core that leaves a ready task has come from executing it.
LEMMA ReadyLeaves ==
  ASSUME StateInv, NEW c \in built, NEW t \in Tasks, Ready(t), t = pxCurrentTCBs[c],
         NEW kept, NEW exit, Leave(c, kept, exit)
  PROVE  pc[c] = "task" /\ Runs(t, c)
<1>1. c \in Cores /\ pc[c] \in {"task", "leave"}
  BY BuiltCores DEF StateInv, TraceInv, OwnerInv, LifeInv, Leave
<1>2. pc[c] # "leave"
  BY <1>1 DEF StateInv, TraceInv, OwnerInv, LifeInv, Living
<1>3. QED
  BY <1>1, <1>2 DEF Runs

\* What is enabled for a task that executes is its own.
LEMMA EnabledHere ==
  ASSUME TraceInv, NEW t \in Tasks, Ready(t), NEW c \in Cores, Runs(t, c), pc[c] = "task",
         NEW n \in CPENABLE[c]
  PROVE  Owns(t, c, n)
BY CoprocAssumption DEF TraceInv, OwnerInv, Enabled, Executes, Ready, Runs

LEMMA InitState == Init => StateInv
<1> SUFFICES ASSUME Init PROVE StateInv
  OBVIOUS
<1>1. TraceInv
  BY InitTrace
<1>2. \A t \in Tasks, n \in CPs : need[t][n] = "nothing" /\ ~Ready(t)
  BY DEF Init, Ready
<1>3. QED
  BY <1>1, <1>2 DEF StateInv

\* Steps that leave the contents alone and make nothing inactive.
LEMMA QuietState ==
  ASSUME StateInv, TraceInv',
         \A t \in Tasks : life'[t] = "none" => life[t] = "none",
         UNCHANGED need, \A t \in Tasks, n \in CPs : Same(t, n)
  PROVE  StateInv'
<1> SUFFICES ASSUME NEW t \in Tasks, NEW n \in CPs
             PROVE  /\ life'[t] = "none" => need'[t][n] = "nothing"
                    /\ Ready(t)' => StateOf(t, n)'
  BY DEF StateInv
<1>1. QED
  BY SameState DEF StateInv

LEMMA ComputeState ==
  ASSUME StateInv, TraceInv', NEW c \in built, NEW n \in CPs, Compute(c, n) PROVE StateInv'
<1> DEFINE t == pxCurrentTCBs[c]
<1>1. c \in Cores /\ t \in Tasks /\ pc[c] = "task" /\ life[t] # "none"
  BY BuiltCores DEF StateInv, TraceInv, OwnerInv, LifeInv, Living, Running, Runs, TypeOK, Compute
<1>2. \A u \in Tasks, m \in CPs :
        /\ need'[u][m] = IF u = t /\ m = n THEN "full" ELSE need[u][m]
        /\ area'[u][m] = IF m # n THEN area[u][m] ELSE Outdate(area[u][m], t)
  BY <1>1 DEF StateInv, TraceInv, OwnerInv, LifeInv, TypeOK, Compute
<1>f. \A u, m : ~(u = t /\ m = n) => (<<u, m>> \in forgotten => <<u, m>> \in forgotten')
  BY DEF Compute
<1>3. \A d \in Cores, m \in CPs :
        reg'[d][m] = IF m # n THEN reg[d][m] ELSE IF d = c THEN Of(t) ELSE Outdate(reg[d][m], t)
  BY <1>1 DEF Compute
<1>4. UNCHANGED <<CPENABLE, owner, XT_CPENABLE, XT_CPSTORED, XT_CP_CS_ST, pxCurrentTCBs, pc, life>>
  BY DEF Compute
<1>5. owner[c][n] \in {t, Null}
  BY <1>1 DEF StateInv, TraceInv, OwnerInv, Enabled, Owns, Compute
<1>6. ASSUME Ready(t) PROVE StateOf(t, n)'
  <2>1. Owns(t, c, n)
    BY <1>1, <1>6, EnabledHere DEF StateInv, Runs, Compute
  <2>2. \A d \in Cores : Owns(t, d, n) => d = c
    BY <1>1, <1>6, OwnsHere DEF StateInv, Runs
  <2>3. n \notin XT_CPSTORED[t]
    BY <1>1, <1>6, <2>1 DEF StateInv, StateOf
  <2>4. Has(reg[c][n], t, n)' /\ Active(t, c, n)'
    BY <1>1, <1>2, <1>3, <1>4 DEF Has, Holds, Of, Active, Runs, Compute
  <2>5. QED
    BY <1>1, <1>2, <1>4, <2>1, <2>2, <2>3, <2>4 DEF StateOf, InCore, Owns
<1>7. ASSUME NEW u \in Tasks, NEW m \in CPs, ~(u = t /\ m = n) PROVE Same(u, m)
  <2>1. \A d \in Cores : Owns(u, d, m) => Retains(reg[d][m], reg'[d][m], u)
    <3> SUFFICES ASSUME NEW d \in Cores, Owns(u, d, m) PROVE Retains(reg[d][m], reg'[d][m], u)
      OBVIOUS
    <3>1. m = n => d # c /\ u # t
      BY <1>5, <1>7, CoprocAssumption DEF Owns
    <3>2. QED
      BY <1>3, <3>1, OthersRetain
  <2>2. Retains(area[u][m], area'[u][m], u)
    BY <1>2, <1>7, OthersRetain
  <2>3. QED
    BY <1>2, <1>f, <1>4, <1>7, <2>1, <2>2 DEF Same, Owns, Ready, Active, Runs
<1>8. ASSUME NEW u \in Tasks, NEW m \in CPs
      PROVE  /\ life'[u] = "none" => need'[u][m] = "nothing"
             /\ Ready(u)' => StateOf(u, m)'
  <2>1. CASE u = t /\ m = n
    BY <1>1, <1>4, <1>6, <2>1 DEF Ready
  <2>2. CASE ~(u = t /\ m = n)
    BY <1>2, <1>4, <1>7, <2>2, SameState DEF StateInv
  <2>3. QED
    BY <2>1, <2>2
<1>9. QED
  BY <1>8 DEF StateInv

LEMMA ReclaimState ==
  ASSUME StateInv, TraceInv', NEW c \in built, NEW n \in CPs, Reclaim(c, n) PROVE StateInv'
<1>1. c \in Cores
  BY BuiltCores DEF StateInv, TraceInv, OwnerInv, LifeInv
<1>2. \A d \in Cores : CPENABLE[d] \subseteq CPENABLE'[d]
  BY <1>1 DEF StateInv, TraceInv, OwnerInv, LifeInv, TypeOK, Reclaim
<1>3. UNCHANGED <<owner, reg, need, saVars, pxCurrentTCBs, pc, life, forgotten>>
  BY DEF Reclaim, history
<1>4. \A t \in Tasks, m \in CPs : Same(t, m)
  BY <1>2, <1>3 DEF Same, Retains, Ready, Owns, Active, Runs, saVars
<1>5. QED
  BY <1>3, <1>4, QuietState

LEMMA HandlerState ==
  ASSUME StateInv, TraceInv', NEW c \in built, NEW n \in CPs, _xt_coproc_handler(c, n)
  PROVE  StateInv'
<1>t. PICK t \in Tasks : t = pxCurrentTCBs[c]
  BY BuiltCores DEF StateInv, TraceInv, OwnerInv, LifeInv, TypeOK, _xt_coproc_handler
<1>old. PICK old \in Tasks \cup {Null} : old = owner[c][n]
  BY BuiltCores DEF StateInv, TraceInv, OwnerInv, LifeInv, TypeOK
<1>1. c \in Cores /\ t \in Tasks /\ pc[c] = "task" /\ Runs(t, c) /\ old # t
  BY <1>t, <1>old, BuiltCores
     DEF StateInv, TraceInv, OwnerInv, LifeInv, _xt_coproc_handler, Runs
<1>2. \A d \in Cores, m \in CPs :
        /\ owner'[d][m] = IF d = c /\ m = n THEN t ELSE owner[d][m]
        /\ reg'[d][m] = IF d = c /\ m = n THEN Restored(c, t, n) ELSE reg[d][m]
        /\ m \in CPENABLE'[d] <=> m \in CPENABLE[d] \/ (d = c /\ m = n)
  BY <1>t, <1>old, <1>1 DEF StateInv, TraceInv, OwnerInv, LifeInv, TypeOK, _xt_coproc_handler
<1>3. \A u \in Tasks, m \in CPs :
        /\ m \in XT_CPENABLE'[u] <=> m \in XT_CPENABLE[u] /\ ~(u = old /\ m = n)
        /\ area'[u][m] = IF u = old /\ m = n /\ SaveOld(old, n) THEN reg[c][n] ELSE area[u][m]
  BY <1>t, <1>old, <1>1, CoprocAssumption
     DEF StateInv, TraceInv, OwnerInv, LifeInv, TypeOK, _xt_coproc_handler, ReleaseOld, SaveOld
<1>4. \A u \in Tasks, m \in CPs :
        m \in XT_CPSTORED'[u] <=> \/ m \in XT_CPSTORED[u] /\ ~(u = t /\ m = n)
                                  \/ u = old /\ m = n /\ SaveOld(old, n)
  BY <1>t, <1>old, <1>1 DEF StateInv, TraceInv, OwnerInv, LifeInv, TypeOK, _xt_coproc_handler
<1>5. \A u \in Tasks, m \in CPs :
        m \in XT_CP_CS_ST[u] /\ ~(u = t /\ m = n) => m \in XT_CP_CS_ST'[u]
  BY <1>t, <1>old, <1>1 DEF StateInv, TraceInv, OwnerInv, LifeInv, TypeOK, _xt_coproc_handler
<1>6. UNCHANGED <<need, pxCurrentTCBs, pc, life, forgotten>>
  BY DEF _xt_coproc_handler, history
<1>7. Ready(t) => \A d \in Cores : ~Owns(t, d, n)
  BY <1>old, <1>1, OwnsHere DEF StateInv, Owns
<1>8. ASSUME Ready(t) PROVE StateOf(t, n)'
  <2>1. InArea(t, n)
    BY <1>1, <1>7, <1>8 DEF StateInv, StateOf, InCore
  <2>2. Has(Restored(c, t, n), t, n)
    BY <2>1 DEF InArea, CalleeSaved, Restored, RestoreAll, RestoreCallee, Has, Holds
  <2>3. \A d \in Cores : Owns(t, d, n)' <=> d = c
    BY <1>1, <1>2, <1>6, <1>7, <1>8 DEF Owns
  <2>4. n \notin XT_CPSTORED'[t] /\ Active(t, c, n)'
    BY <1>1, <1>2, <1>4, <1>6 DEF Active, Runs
  <2>5. InCore(t, n)'
    BY <1>1, <2>3 DEF InCore
  <2>6. QED
    BY <1>1, <1>2, <1>6, <2>2, <2>3, <2>4, <2>5 DEF StateOf, Has
<1>9. ASSUME old \in Tasks, Ready(old) PROVE StateOf(old, n)'
  <2>1. Owns(old, c, n) /\ StateOf(old, n)
    BY <1>old, <1>9 DEF StateInv, Owns
  <2>2. \A d \in Cores : ~(owner'[d][n] = old)
    BY <1>1, <1>2, <1>9, <2>1, OneOwner DEF StateInv, Owns
  <2>3. CASE SaveOld(old, n)
    BY <1>1, <1>3, <1>4, <1>6, <1>9, <2>1, <2>2, <2>3 DEF StateOf, InCore, InArea, Has, Owns
  <2>4. CASE ~SaveOld(old, n)
    <3>1. ~Active(old, c, n) /\ n \notin XT_CPSTORED[old]
      BY <1>t, <1>1, <1>9, <2>1, <2>4, CoprocAssumption DEF Active, Runs, SaveOld, StateOf
    <3>2. CalleeSaved(old, n)
      BY <1>1, <2>1, <3>1 DEF StateOf
    <3>3. InArea(old, n)'
      BY <1>1, <1>3, <1>4, <1>5, <1>6, <1>9, <2>4, <3>1, <3>2 DEF InArea, CalleeSaved
    <3>4. QED
      BY <2>2, <3>3 DEF StateOf, InCore, Owns
  <2>5. QED
    BY <2>3, <2>4
<1>10. ASSUME NEW u \in Tasks, NEW m \in CPs, ~(u \in {t, old} /\ m = n) PROVE Same(u, m)
  <2>1. \A d \in Cores : Owns(u, d, m)' <=> Owns(u, d, m)
    BY <1>old, <1>1, <1>2, <1>10 DEF Owns
  <2>2. \A d \in Cores : Owns(u, d, m) => reg'[d][m] = reg[d][m]
    BY <1>old, <1>1, <1>2, <1>10 DEF Owns
  <2>3. area'[u][m] = area[u][m] /\ (m \in XT_CPSTORED'[u] <=> m \in XT_CPSTORED[u])
    BY <1>3, <1>4, <1>10
  <2>4. m \in XT_CP_CS_ST[u] => m \in XT_CP_CS_ST'[u]
    BY <1>5, <1>10
  <2>5. \A d \in Cores : Active(u, d, m) => Active(u, d, m)'
    BY <1>2, <1>3, <1>6, <1>10 DEF Active, Runs
  <2>6. QED
    BY <1>6, <2>1, <2>2, <2>3, <2>4, <2>5 DEF Same, Retains, Ready
<1>11. ASSUME NEW u \in Tasks, NEW m \in CPs PROVE Ready(u)' => StateOf(u, m)'
  <2>1. CASE u = t /\ m = n
    BY <1>6, <1>8, <2>1 DEF Ready
  <2>2. CASE u = old /\ m = n
    BY <1>6, <1>9, <2>2 DEF Ready
  <2>3. CASE ~(u \in {t, old} /\ m = n)
    BY <1>10, <2>3, SameState DEF StateInv
  <2>4. QED
    BY <2>1, <2>2, <2>3
<1>12. QED
  BY <1>6, <1>11 DEF StateInv

\* Core c has left its task, which alone is affected.
LEMMA OthersLeft ==
  ASSUME StateInv, NEW c \in built, NEW kept, NEW gone, NEW exit, Leave(c, kept, exit),
         gone \subseteq CPENABLE[c], Gives(c, gone),
         NEW u \in Tasks \ {pxCurrentTCBs[c]}, NEW n \in CPs,
         need'[u][n] = need[u][n],
         <<u, n>> \in forgotten => <<u, n>> \in forgotten',
         n \in XT_CPSTORED'[u] <=> n \in XT_CPSTORED[u],
         n \in XT_CP_CS_ST[u] => n \in XT_CP_CS_ST'[u],
         Retains(area[u][n], area'[u][n], u),
         \A d \in Cores : Retains(reg[d][n], reg'[d][n], u)
  PROVE  Same(u, n)
<1> DEFINE t == pxCurrentTCBs[c]
<1>1. /\ c \in Cores /\ t \in Tasks \cup {Idle}
      /\ pc[c] \in {"task", "leave"} /\ CPENABLE[c] \subseteq CPs
  BY BuiltCores DEF StateInv, TraceInv, OwnerInv, LifeInv, TypeOK, Leave
<1>2. /\ \A d \in Cores \ {c} : CPENABLE'[d] = CPENABLE[d] /\ pc'[d] = pc[d]
      /\ XT_CPENABLE'[u] = XT_CPENABLE[u]
      /\ UNCHANGED <<pxCurrentTCBs, life>>
  BY <1>1, CoprocAssumption DEF StateInv, TraceInv, OwnerInv, LifeInv, TypeOK, Leave
<1>3. \A d \in Cores : Owns(u, d, n)' <=> Owns(u, d, n)
  <2>1. n \in gone => owner[c][n] # u
    BY <1>1, CoprocAssumption DEF StateInv, TraceInv, OwnerInv, Enabled, Owns
  <2>2. QED
    BY <2>1, CoprocAssumption DEF Gives, Owns
<1>4. \A d \in Cores : Active(u, d, n) <=> Active(u, d, n)'
  BY <1>1, <1>2 DEF Active, Runs
<1>5. QED
  BY <1>2, <1>3, <1>4 DEF Same, Ready

LEMMA KeepAllState ==
  ASSUME StateInv, TraceInv', NEW c \in built, KeepAll(c) PROVE StateInv'
<1>t. PICK t \in Tasks \cup {Idle} : t = pxCurrentTCBs[c]
  BY BuiltCores DEF StateInv, TraceInv, OwnerInv, LifeInv, TypeOK
<1>1. /\ Leave(c, CPENABLE[c], "interrupt")
      /\ UNCHANGED <<reg, owner, XT_CPSTORED, XT_CP_CS_ST, area, need, forgotten, pxCurrentTCBs, life>>
  BY DEF KeepAll, Leave
<1>2. \A u \in Tasks \ {t}, n \in CPs : Same(u, n)
  <2>1. Gives(c, {})
    BY <1>1 DEF Gives
  <2>2. QED
    BY <1>t, <1>1, <2>1, OthersLeft, OthersRetain
<1>3. ASSUME t \in Tasks, Ready(t), NEW n \in CPs PROVE Same(t, n)
  <2>1. ASSUME NEW d \in Cores, Owns(t, d, n), Active(t, d, n) PROVE Active(t, d, n)'
    <3>1. c \in Cores
      BY BuiltCores DEF StateInv, TraceInv, OwnerInv, LifeInv
    <3>2. pc[c] = "task" /\ Runs(t, c)
      BY <1>t, <1>1, <1>3, ReadyLeaves
    <3>3. XT_CPENABLE'[t] = CPENABLE[c] /\ pc'[c] = "dispatch"
      BY <1>t, <1>1, <1>3, <3>1, CoprocAssumption DEF StateInv, TraceInv, OwnerInv, LifeInv, TypeOK, Leave
    <3>4. d = c
      BY <1>3, <2>1, <3>2, OwnsHere DEF StateInv
    <3>5. QED
      BY <2>1, <3>2, <3>3, <3>4 DEF Active
  <2>2. QED
    BY <1>1, <2>1, OthersRetain DEF Same, Ready, Owns
<1>4. \A u \in Tasks, n \in CPs : Ready(u)' => StateOf(u, n)'
  BY <1>1, <1>2, <1>3, SameState DEF StateInv, Ready
<1>5. QED
  BY <1>1, <1>4 DEF StateInv

LEMMA SaveAllState ==
  ASSUME StateInv, TraceInv', NEW c \in built, SaveAll(c) PROVE StateInv'
<1>c. c \in Cores /\ CPENABLE[c] \subseteq CPs
  BY BuiltCores DEF StateInv, TraceInv, OwnerInv, LifeInv, TypeOK
<1>t. PICK t \in Tasks : t = pxCurrentTCBs[c]
  BY <1>c DEF StateInv, TraceInv, OwnerInv, LifeInv, TypeOK, SaveAll, Migrates
<1>1. /\ Leave(c, {}, "interrupt") /\ SMP
      /\ UNCHANGED <<reg, XT_CP_CS_ST, need, forgotten, pxCurrentTCBs, life>>
  BY DEF SaveAll, Leave, Migrates
<1>2. Gives(c, CPENABLE[c])
  BY <1>c, GiveUpOwners DEF StateInv, TraceInv, OwnerInv, LifeInv, SaveAll
<1>3. \A u \in Tasks, n \in CPs :
        /\ n \in XT_CPSTORED'[u] <=> n \in XT_CPSTORED[u] \/ (u = t /\ n \in CPENABLE[c])
        /\ area'[u][n] = IF u = t /\ n \in CPENABLE[c] THEN reg[c][n] ELSE area[u][n]
  BY <1>c, <1>t DEF StateInv, TraceInv, OwnerInv, LifeInv, TypeOK, SaveAll
<1>4. ASSUME NEW u \in Tasks \ {t}, NEW n \in CPs PROVE Same(u, n)
  <2>1. Retains(area[u][n], area'[u][n], u) /\ \A d \in Cores : Retains(reg[d][n], reg'[d][n], u)
    BY <1>1, <1>3, OthersRetain
  <2>2. n \in XT_CPSTORED'[u] <=> n \in XT_CPSTORED[u]
    BY <1>3
  <2>3. QED
    BY <1>t, <1>1, <1>2, <2>1, <2>2, OthersLeft
<1>5. ASSUME NEW n \in CPs, Ready(t) PROVE StateOf(t, n)'
  <2>1. pc[c] = "task" /\ Runs(t, c) /\ StateOf(t, n)
    BY <1>t, <1>1, <1>5, ReadyLeaves DEF StateInv
  <2>2. \A d \in Cores : Owns(t, d, n) => d = c /\ n \in CPENABLE[c]
    BY <1>1, <1>5, <2>1, OwnsHere DEF StateInv
  <2>3. ~InCore(t, n)'
    BY <1>c, <1>2, <2>2, CoprocAssumption DEF InCore, Owns, Gives
  <2>4. CASE n \in CPENABLE[c]
    <3>1. Owns(t, c, n)
      BY <1>c, <1>5, <2>1, <2>4, EnabledHere DEF StateInv
    <3>2. Has(reg[c][n], t, n)
      BY <1>c, <2>1, <3>1 DEF StateOf
    <3>3. InArea(t, n)'
      BY <1>1, <1>3, <2>4, <3>2 DEF InArea, Has
    <3>4. QED
      BY <2>3, <3>3 DEF StateOf, InCore
  <2>5. CASE n \notin CPENABLE[c]
    <3>1. InArea(t, n)
      BY <2>1, <2>2, <2>5 DEF StateOf, InCore
    <3>2. InArea(t, n)'
      BY <1>1, <1>3, <2>5, <3>1 DEF InArea, Has, CalleeSaved
    <3>3. QED
      BY <2>3, <3>2 DEF StateOf, InCore
  <2>6. QED
    BY <2>4, <2>5
<1>6. \A u \in Tasks, n \in CPs : Ready(u)' => StateOf(u, n)'
  BY <1>1, <1>4, <1>5, SameState DEF StateInv, Ready
<1>7. QED
  BY <1>1, <1>6 DEF StateInv

LEMMA YieldState ==
  ASSUME StateInv, TraceInv', NEW c \in built, vPortYield(c) PROVE StateInv'
<1>c. c \in Cores /\ CPENABLE[c] \subseteq CPs
  BY BuiltCores DEF StateInv, TraceInv, OwnerInv, LifeInv, TypeOK
<1>t. PICK t \in Tasks \cup {Idle} : t = pxCurrentTCBs[c]
  BY <1>c DEF StateInv, TraceInv, OwnerInv, LifeInv, TypeOK
<1>gone. PICK gone : gone = IF SMP THEN CPENABLE[c] ELSE {}
  OBVIOUS
<1>1. Leave(c, {}, "solicited") /\ UNCHANGED <<XT_CPSTORED, pxCurrentTCBs, life>>
  BY DEF vPortYield, Leave
<1>2. Gives(c, gone)
  BY <1>c, <1>gone, GiveUpOwners
     DEF StateInv, TraceInv, OwnerInv, LifeInv, vPortYield, _xt_coproc_savecs, Gives
<1>3. \A d \in Cores, n \in CPs : reg'[d][n] = Solicited(reg[d][n], t)
  BY <1>t DEF vPortYield
<1>4. \A u \in Tasks, n \in CPs :
        area'[u][n] = IF u = t THEN StoreCallee(c, t, n) ELSE Solicited(area[u][n], t)
  BY <1>t DEF vPortYield, _xt_coproc_savecs
<1>5. \A u \in Tasks, n \in CPs :
        /\ u # t => need'[u][n] = need[u][n]
        /\ u = t => need'[u][n] = IF need[u][n] = "full" THEN "callee" ELSE need[u][n]
  BY <1>t, CoprocAssumption DEF StateInv, TraceInv, OwnerInv, LifeInv, TypeOK, vPortYield
<1>6. \A u \in Tasks :
        XT_CP_CS_ST'[u] = IF u = t /\ CPENABLE[c] # {} THEN CPENABLE[c] ELSE XT_CP_CS_ST[u]
  BY <1>t DEF StateInv, TraceInv, OwnerInv, LifeInv, TypeOK, vPortYield, _xt_coproc_savecs
<1>f. \A u \in Tasks, n \in CPs :
        <<u, n>> \in forgotten' <=>
          \/ <<u, n>> \in forgotten
          \/ /\ u = t /\ CPENABLE[c] # {}
             /\ n \in XT_CP_CS_ST[t] \ (CPENABLE[c] \cup XT_CPSTORED[t])
  BY <1>t DEF vPortYield, _xt_coproc_savecs
<1>7. ASSUME NEW u \in Tasks \ {t}, NEW n \in CPs PROVE Same(u, n)
  <2>1. Retains(area[u][n], area'[u][n], u) /\ \A d \in Cores : Retains(reg[d][n], reg'[d][n], u)
    BY <1>3, <1>4, OthersRetain
  <2>2. need'[u][n] = need[u][n] /\ XT_CP_CS_ST'[u] = XT_CP_CS_ST[u]
    BY <1>5, <1>6
  <2>3. <<u, n>> \in forgotten => <<u, n>> \in forgotten'
    BY <1>f
  <2>4. QED
    BY <1>t, <1>gone, <1>1, <1>2, <2>1, <2>2, <2>3, OthersLeft
<1>8. ASSUME t \in Tasks, NEW n \in CPs, Ready(t) PROVE StateOf(t, n)'
  <2>1. pc[c] = "task" /\ Runs(t, c) /\ StateOf(t, n)
    BY <1>t, <1>1, <1>8, ReadyLeaves DEF StateInv
  <2>2. \A d \in Cores : Owns(t, d, n) => d = c
    BY <1>8, <2>1, OwnsHere DEF StateInv
  <2>3. \A d \in Cores : Owns(t, d, n)' => Owns(t, d, n)
    BY <1>2, <1>8, CoprocAssumption DEF Gives, Owns
  <2>4. need[t][n] \in {"nothing", "callee", "full"}
    BY <1>8 DEF StateInv, TraceInv, OwnerInv, LifeInv, TypeOK
  <2>5. need'[t][n] = IF need[t][n] = "nothing" THEN "nothing" ELSE "callee"
    BY <1>5, <1>8, <2>4
  <2>6. CASE need[t][n] = "nothing"
    <3>1. InArea(t, n)' /\ CalleeSaved(t, n)'
      BY <2>5, <2>6 DEF InArea, Has, CalleeSaved, Holds
    <3>2. \A d \in Cores : Has(reg[d][n], t, n)'
      BY <2>5, <2>6 DEF Has, Holds
    <3>3. QED
      BY <1>1, <2>1, <2>3, <3>1, <3>2 DEF StateOf
  <2>7. CASE need[t][n] # "nothing" /\ n \in CPENABLE[c]
    <3>1. Owns(t, c, n)
      BY <1>c, <1>8, <2>1, <2>7, EnabledHere DEF StateInv
    <3>2. n \notin XT_CPSTORED[t] /\ (<<t, n>> \in forgotten \/ reg[c][n].callee = t)
      BY <1>c, <2>1, <2>7, <3>1 DEF StateOf, Has, Holds
    <3>3. reg'[c][n].callee = reg[c][n].callee
      BY <1>c, <1>3, CalleeStays
    <3>4. area'[t][n].callee = reg[c][n].callee
      <4>1. area[t][n] \in Contents
        BY <1>8 DEF StateInv, TraceInv, OwnerInv, LifeInv, TypeOK
      <4>2. QED
        BY <1>4, <1>8, <2>7, <4>1 DEF StoreCallee, Solicited, Contents
    <3>5. CalleeSaved(t, n)' /\ InArea(t, n)'
      BY <1>f, <1>1, <1>6, <1>8, <2>5, <2>7, <3>2, <3>4 DEF CalleeSaved, InArea
    <3>6. Has(reg[c][n], t, n)'
      BY <1>f, <1>8, <2>5, <2>7, <3>2, <3>3 DEF Has, Holds
    <3>7. QED
      BY <1>1, <2>2, <2>3, <3>2, <3>5, <3>6 DEF StateOf
  <2>8. CASE need[t][n] # "nothing" /\ n \notin CPENABLE[c]
    <3>1. area'[t][n].callee = area[t][n].callee
      <4>1. area'[t][n] = Solicited(area[t][n], t)
        BY <1>4, <1>8, <2>8 DEF StoreCallee
      <4>2. QED
        BY <4>1, CalleeStays
    <3>2. n \notin XT_CPSTORED[t] /\ CalleeSaved(t, n) => CalleeSaved(t, n)'
      BY <1>f, <1>6, <1>8, <2>4, <2>5, <2>8, <3>1 DEF CalleeSaved
    <3>3. InArea(t, n) => InArea(t, n)'
      BY <1>f, <1>1, <1>8, <2>5, <2>8, <3>1, <3>2 DEF InArea, Has, Holds
    <3>4. InCore(t, n) => InCore(t, n)'
      BY <1>gone, <1>2, <2>8 DEF InCore, Gives, Owns
    <3>5. ASSUME NEW d \in Cores, Owns(t, d, n)
          PROVE  n \notin XT_CPSTORED[t] /\ Has(reg[d][n], t, n)' /\ CalleeSaved(t, n)'
      <4>1. ~Active(t, d, n)
        BY <2>1, <2>2, <2>8, <3>5 DEF Active
      <4>2. n \notin XT_CPSTORED[t] /\ Has(reg[d][n], t, n) /\ CalleeSaved(t, n)
        BY <2>1, <3>5, <4>1 DEF StateOf
      <4>3. reg'[d][n].callee = reg[d][n].callee
        BY <1>3, CalleeStays
      <4>4. QED
        BY <1>f, <1>8, <2>5, <2>8, <3>2, <4>2, <4>3 DEF Has, Holds
    <3>6. QED
      BY <1>1, <2>1, <2>3, <3>3, <3>4, <3>5 DEF StateOf
  <2>9. QED
    BY <2>6, <2>7, <2>8
<1>9. \A u \in Tasks, n \in CPs : Ready(u)' => StateOf(u, n)'
  BY <1>1, <1>7, <1>8, SameState DEF StateInv, Ready
<1>10. \A u \in Tasks, n \in CPs : need'[u][n] = "nothing" <=> need[u][n] = "nothing"
  BY <1>5
<1>11. QED
  BY <1>1, <1>9, <1>10 DEF StateInv

LEMMA DispatchState ==
  ASSUME StateInv, TraceInv', NEW c \in built, NEW t \in Tasks \cup {Idle}, _frxt_dispatch(c, t)
  PROVE  StateInv'
<1>1. c \in Cores /\ pc[c] = "dispatch"
  BY BuiltCores DEF StateInv, TraceInv, OwnerInv, LifeInv, _frxt_dispatch
<1>2. /\ \A d \in Cores : pxCurrentTCBs'[d] = IF d = c THEN t ELSE pxCurrentTCBs[d]
      /\ \A d \in Cores : pc'[d] = IF d = c THEN "task" ELSE pc[d]
      /\ \A d \in Cores \ {c} : CPENABLE'[d] = CPENABLE[d]
      /\ t \in Tasks /\ frame[t] = "interrupt" => CPENABLE'[c] = XT_CPENABLE[t]
      /\ UNCHANGED <<owner, reg, need, XT_CPENABLE, XT_CPSTORED, XT_CP_CS_ST, area, life, forgotten>>
  BY <1>1 DEF StateInv, TraceInv, OwnerInv, LifeInv, TypeOK, _frxt_dispatch, saVars, history
<1>3. ASSUME NEW u \in Tasks, NEW d \in Cores, NEW n \in CPs, Active(u, d, n)
      PROVE  Active(u, d, n)'
  <2>1. CASE d # c
    BY <1>2, <1>3, <2>1 DEF Active, Runs
  <2>2. CASE d = c
    <3>1. n \in XT_CPENABLE[u]
      BY <1>1, <1>3, <2>2 DEF Active
    <3>2. frame[u] = "interrupt"
      BY <3>1 DEF StateInv, TraceInv, OwnerInv, Keeps
    <3>3. QED
      BY <1>1, <1>2, <2>2, <3>1, <3>2 DEF Active, Runs
  <2>3. QED
    BY <2>1, <2>2
<1>4. \A u \in Tasks, n \in CPs : Same(u, n)
  BY <1>2, <1>3, OthersRetain DEF Same, Ready, Owns
<1>5. QED
  BY <1>2, <1>4, QuietState

\* A task is deleted, or moved to other cores: the others are not affected.
LEMMA DeletedState ==
  ASSUME StateInv, TraceInv', NEW t \in Tasks, NEW c \in Cores,
         portTaskDeleteHook(t), life[t] = "ready",
         life' = [life EXCEPT ![t] = "deleted"],
         pc' = pc \/ (Runs(t, c) /\ pc' = [pc EXCEPT ![c] = "leave"]),
         UNCHANGED <<CPENABLE, reg, need, saVars, pxCurrentTCBs, forgotten>>
  PROVE  StateInv'
<1>1. \A u \in Tasks : life'[u] = IF u = t THEN "deleted" ELSE life[u]
  BY DEF StateInv, TraceInv, OwnerInv, LifeInv, TypeOK
<1>2. \A u \in Tasks \ {t}, d \in Cores, n \in CPs : Owns(u, d, n)' <=> Owns(u, d, n)
  BY HookOwners, CoprocAssumption DEF StateInv, TraceInv, OwnerInv, LifeInv, Owns
<1>3. \A u \in Tasks \ {t}, d \in Cores, n \in CPs : Active(u, d, n)' <=> Active(u, d, n)
  BY DEF StateInv, TraceInv, OwnerInv, LifeInv, TypeOK, Active, Runs, saVars
<1>4. \A u \in Tasks \ {t}, n \in CPs : Same(u, n)
  BY <1>1, <1>2, <1>3, OthersRetain DEF Same, Ready, saVars
<1>5. \A u \in Tasks, n \in CPs : Ready(u)' => StateOf(u, n)'
  BY <1>1, <1>4, SameState DEF StateInv, Ready
<1>6. QED
  BY <1>1, <1>5 DEF StateInv

LEMMA FreeTaskState ==
  ASSUME StateInv, TraceInv', NEW t \in Tasks, FreeTask(t) PROVE StateInv'
<1>1. \A u \in Tasks \ {t} :
        /\ life'[u] = life[u] /\ need'[u] = need[u] /\ XT_CPENABLE'[u] = XT_CPENABLE[u]
        /\ XT_CPSTORED'[u] = XT_CPSTORED[u] /\ XT_CP_CS_ST'[u] = XT_CP_CS_ST[u]
        /\ \A n \in CPs : <<u, n>> \in forgotten => <<u, n>> \in forgotten'
  BY DEF StateInv, TraceInv, OwnerInv, LifeInv, TypeOK, FreeTask
<1>2. life'[t] = "none" /\ \A n \in CPs : need'[t][n] = "nothing"
  BY DEF StateInv, TraceInv, OwnerInv, LifeInv, TypeOK, FreeTask
<1>3. \A u \in Tasks \ {t}, n \in CPs :
        /\ Retains(area[u][n], area'[u][n], u)
        /\ \A d \in Cores : Retains(reg[d][n], reg'[d][n], u)
  BY OthersRetain DEF FreeTask
<1>4. UNCHANGED <<CPENABLE, owner, pxCurrentTCBs, pc>>
  BY DEF FreeTask
<1>5. \A u \in Tasks \ {t}, n \in CPs : Same(u, n)
  BY <1>1, <1>3, <1>4 DEF Same, Ready, Owns, Active, Runs
<1>6. \A u \in Tasks, n \in CPs : Ready(u)' => StateOf(u, n)'
  BY <1>2, <1>5, SameState DEF StateInv, Ready
<1>7. QED
  BY <1>1, <1>2, <1>6 DEF StateInv

LEMMA CreateTaskState ==
  ASSUME StateInv, TraceInv', NEW t \in Tasks, NEW cores, CreateTask(t, cores) PROVE StateInv'
<1>1. /\ \A u \in Tasks : life'[u] = IF u = t THEN "ready" ELSE life[u]
      /\ life[t] = "none"
      /\ UNCHANGED <<cpVars, saVars, pxCurrentTCBs, pc, forgotten>>
  BY DEF StateInv, TraceInv, OwnerInv, LifeInv, TypeOK, CreateTask, history
<1>2. \A u \in Tasks \ {t}, n \in CPs : Same(u, n)
  BY <1>1, OthersRetain DEF Same, Ready, Owns, Active, Runs, cpVars, saVars
<1>3. ASSUME NEW n \in CPs PROVE StateOf(t, n)'
  <2>1. need'[t][n] = "nothing"
    BY <1>1 DEF StateInv, cpVars
  <2>2. InArea(t, n)'
    BY <2>1 DEF InArea, CalleeSaved, Has, Holds
  <2>3. \A d \in Cores : ~Owns(t, d, n)'
    BY <1>1 DEF StateInv, TraceInv, Traced, Owns, cpVars
  <2>4. QED
    BY <2>2, <2>3 DEF StateOf
<1>4. \A u \in Tasks, n \in CPs : Ready(u)' => StateOf(u, n)'
  BY <1>2, <1>3, SameState DEF StateInv
<1>5. QED
  BY <1>1, <1>4 DEF StateInv, cpVars

LEMMA AffinityState ==
  ASSUME StateInv, TraceInv', NEW t \in Tasks, NEW cores, vTaskCoreAffinitySet(t, cores)
  PROVE  StateInv'
<1>1. UNCHANGED <<cpVars, saVars, pxCurrentTCBs, pc, life, forgotten>>
  BY DEF vTaskCoreAffinitySet
<1>2. \A u \in Tasks, n \in CPs : Same(u, n)
  BY <1>1, OthersRetain DEF Same, Ready, Owns, Active, Runs, cpVars, saVars
<1>3. QED
  BY <1>1, <1>2, QuietState DEF cpVars

LEMMA StepState == Undisturbed' /\ StateInv /\ [Next]_vars => StateInv'
<1> SUFFICES ASSUME Undisturbed', StateInv, [Next]_vars PROVE StateInv'
  OBVIOUS
<1>1. TraceInv'
  BY StepTrace DEF StateInv
<1>2. CASE UNCHANGED vars
  <2>1. UNCHANGED <<cpVars, saVars, pxCurrentTCBs, pc, life, forgotten>>
    BY <1>2 DEF vars, history
  <2>2. \A u \in Tasks, n \in CPs : Same(u, n)
    BY <2>1, OthersRetain DEF Same, Ready, Owns, Active, Runs, cpVars, saVars
  <2>3. QED
    BY <1>1, <2>1, <2>2, QuietState DEF cpVars
<1>3. ASSUME NEW c \in built, CoreStep(c), UNCHANGED built PROVE StateInv'
  <2>1. CASE \E n \in CPs : Compute(c, n) \/ Reclaim(c, n) \/ _xt_coproc_handler(c, n)
    BY <1>1, <2>1, ComputeState, ReclaimState, HandlerState
  <2>2. CASE vPortYield(c)
    BY <1>1, <2>2, YieldState
  <2>3. CASE vPortYieldFromInt(c)
    BY <1>1, <2>3, SaveAllState, KeepAllState DEF vPortYieldFromInt
  <2>4. CASE \E t \in Tasks \cup {Idle} : _frxt_dispatch(c, t)
    BY <1>1, <2>4, DispatchState
  <2>5. CASE DeleteSelf(c)
    <3>1. PICK t \in Tasks : t = pxCurrentTCBs[c]
      BY <2>5, BuiltCores DEF StateInv, TraceInv, OwnerInv, LifeInv, TypeOK, DeleteSelf
    <3>2. c \in Cores
      BY BuiltCores DEF StateInv, TraceInv, OwnerInv, LifeInv
    <3>3. QED
      BY <1>1, <2>5, <3>1, <3>2, DeletedState DEF DeleteSelf, Runs
  <2>6. QED
    BY <1>3, <2>1, <2>2, <2>3, <2>4, <2>5 DEF CoreStep
<1>4. ASSUME NEW t \in Tasks, KernelStep(t), UNCHANGED built PROVE StateInv'
  <2>1. CASE DeleteOther(t)
    BY <1>1, <2>1, DeletedState DEF DeleteOther
  <2>2. QED
    BY <1>1, <1>4, <2>1, FreeTaskState, CreateTaskState, AffinityState DEF KernelStep
<1>5. QED
  BY <1>2, <1>3, <1>4 DEF Next

LEMMA StateOfTask == StateInv => StateKept
<1> SUFFICES ASSUME StateInv, NEW c \in Cores, NEW t \in Tasks, Executes(t, c),
                    NEW n \in CPENABLE[c], <<t, n>> \notin forgotten
             PROVE  Holds(reg[c][n], t, need[t][n])
  BY DEF StateKept
<1>1. n \in CPs /\ Ready(t) /\ Owns(t, c, n)
  BY EnabledHere DEF StateInv, TraceInv, OwnerInv, LifeInv, TypeOK, Executes, Ready
<1>2. QED
  BY <1>1 DEF StateInv, StateOf, Has

\* As long as also no freed task is an owner, each finds what it left in the
\* coprocessors that it uses, but for what a second yield has lost, through
\* every order of switches, migrations, deletions and other tasks' uses.
THEOREM XtCoprocStateKept == Spec => []StateKept
<1> DEFINE Inv == ~Undisturbed \/ StateInv
<1>1. Init => Inv
  BY InitState
<1>2. Inv /\ [Next]_vars => Inv'
  BY StepState, Disturbances DEF Undisturbed
<1>3. Inv => StateKept
  BY StateOfTask DEF StateKept
<1>4. QED
  BY <1>1, <1>2, <1>3, PTL DEF Spec

-----------------------------------------------------------------------------
(* Memory: searches in the table.  Sets of numbers have a least element,   *)
(* and sets of places a greatest one, which is the entry that is found.    *)

Less == OpToRel(<, Nat)

LEMMA LessFounded == IsWellFoundedOn(Less, Nat)
  BY NatLessThanWellFounded, Zenon DEF Less

LEMMA LessIs ==
  ASSUME NEW x \in Nat, NEW y \in Nat, x < y
  PROVE  <<x, y>> \in Less
  BY DEF Less, OpToRel

LEMMA LeastIn ==
  ASSUME NEW S, S \subseteq Nat, S # {}
  PROVE  \E x \in S : \A y \in S : x <= y
<1>1. PICK x \in S : \A y \in S : ~(<<y, x>> \in Less)
  BY LessFounded, WFMin
<1>2. ASSUME NEW y \in S PROVE x <= y
  <2>1. ~(y < x)
    BY <1>1, <1>2, LessIs
  <2> QED BY <2>1
<1> QED BY <1>2

LEMMA MinOf ==
  ASSUME NEW S, S \subseteq Nat, S # {}
  PROVE  Min(S) \in S /\ \A y \in S : Min(S) <= y
<1>1. \E x \in S : \A y \in S : x <= y
  BY LeastIn
<1> QED BY <1>1 DEF Min

LEMMA MaxOf ==
  ASSUME NEW n \in Nat, NEW S, S \subseteq 0..n, S # {}
  PROVE  Max(S) \in S /\ \A y \in S : y <= Max(S)
<1> DEFINE T == {n - x : x \in S}
<1>1. PICK z \in T : \A y \in T : z <= y
  <2>1. T # {}
    OBVIOUS
  <2>2. ASSUME NEW x \in S PROVE n - x \in Nat
    BY x \in 0..n
  <2>3. T \subseteq Nat
    BY <2>2
  <2> QED BY <2>1, <2>3, LeastIn
<1>2. PICK m \in S : z = n - m
  OBVIOUS
<1>3. \A y \in S : m >= y
  <2> TAKE y \in S
  <2>1. n - y \in T
    OBVIOUS
  <2>2. z <= n - y
    BY <1>1, <2>1
  <2> QED BY <1>2, <2>2
<1>4. \E x \in S : \A y \in S : x >= y
  BY <1>3
<1> QED BY <1>4 DEF Max

\* The entries of a table have addresses, the first of them the lowest there is.
Searchable(map) ==
  0 \in Places /\ map[0].as = 0 /\ \A i \in Places : map[i].as \in Nat

LEMMA Found ==
  ASSUME NEW map, Searchable(map), NEW a \in Nat
  PROVE  LET f == find_addr_in_map(map, a)
         IN  /\ f \in Places /\ map[f].as <= a
             /\ \A i \in Places : f < i => a < map[i].as
<1> DEFINE S == {i \in Places : a >= map[i].as}
<1>1. S \subseteq 0 .. XCHAL_MPU_ENTRIES - 1 /\ XCHAL_MPU_ENTRIES - 1 \in Nat
  BY MpuAssumption DEF Places, Searchable
<1>2. 0 \in S
  BY DEF Searchable
<1>3. Max(S) \in S /\ \A y \in S : y <= Max(S)
  BY <1>1, <1>2, MaxOf
<1>4. find_addr_in_map(map, a) = Max(S)
  BY DEF find_addr_in_map
<1>5. ASSUME NEW i \in Places, Max(S) < i PROVE a < map[i].as
  <2>1. i \in Int /\ Max(S) \in Int
    BY <1>3, MpuAssumption DEF Places
  <2> HIDE DEF S
  <2>2. i \notin S
    BY <1>3, <1>5, <2>1
  <2> QED BY <2>1, <2>2 DEF Searchable, S
<1> QED BY <1>3, <1>4, <1>5

LEMMA FoundIs ==
  ASSUME NEW map, Searchable(map), NEW a \in Nat, NEW f \in Places,
         map[f].as <= a, \A i \in Places : f < i => a < map[i].as
  PROVE  find_addr_in_map(map, a) = f
<1> DEFINE g == find_addr_in_map(map, a)
<1>1. /\ g \in Places /\ map[g].as <= a
      /\ \A i \in Places : g < i => a < map[i].as
  BY Found
<1>2. f \in Int /\ g \in Int /\ map[f].as \in Nat /\ map[g].as \in Nat
  BY <1>1 DEF Places, Searchable
<1>3. ~(f < g) /\ ~(g < f)
  BY <1>1, <1>2
<1> QED BY <1>2, <1>3

-----------------------------------------------------------------------------
(* Memory: the configuration                                               *)

\* The setups that the first call may initialise the table with.
AnySetup == Setups \cup {NoSetup}

LEMMA SetupType ==
  ASSUME NEW s \in AnySetup
  PROVE  /\ s \in [stack : Ranges, regions : Regions]
         /\ s.stack \in Ranges /\ s.regions \in Regions
         /\ \A i \in 1..portNUM_CONFIGURABLE_REGIONS : s.regions[i].range \in Ranges
<1>1. Empty \in Ranges
  BY MpuAssumption DEF Empty, Ranges, Addresses
<1>2. NoSetup \in [stack : Ranges, regions : Regions]
  BY <1>1, MpuAssumption DEF NoSetup, Regions, Rights
<1>3. s \in [stack : Ranges, regions : Regions]
  BY <1>2, MpuAssumption DEF AnySetup
<1>4. s.stack \in Ranges /\ s.regions \in Regions
  BY <1>3
<1> QED BY <1>3, <1>4 DEF Regions

\* Where the ranges of a setup are numbered.
LEMMA Numbers ==
  ASSUME NEW s \in AnySetup
  PROVE  /\ portLEGACY \in {0, 1} /\ PRIVATE_STACK_IDX = portLEGACY
         /\ PRIVATE_CONFIGURABLE_IDX = portLEGACY + 1
         /\ NumUsed(s) \in Nat /\ portLEGACY <= NumUsed(s)
         /\ Used(s) \subseteq Pairs
         /\ s.stack # Empty => portLEGACY + 1 <= NumUsed(s)
         /\ s.stack = Empty => NumUsed(s) = portLEGACY
<1>1. /\ portLEGACY \in {0, 1} /\ PRIVATE_STACK_IDX = portLEGACY
      /\ PRIVATE_CONFIGURABLE_IDX = portLEGACY + 1
  BY DEF portLEGACY, PRIVATE_STACK_IDX, PRIVATE_CONFIGURABLE_IDX
<1>2. UsedRegions(s) \in 0..portNUM_CONFIGURABLE_REGIONS
  <2> DEFINE unused == {i \in DOMAIN s.regions : s.regions[i].range = Empty}
  <2>1. DOMAIN s.regions = 1..portNUM_CONFIGURABLE_REGIONS
    BY SetupType DEF Regions
  <2>2. CASE unused = {}
    BY <2>2, MpuAssumption DEF UsedRegions
  <2>3. CASE unused # {}
    <3>0. unused \subseteq Nat
      BY <2>1
    <3>1. Min(unused) \in unused
      BY <3>0, <2>3, MinOf
    <3>2. Min(unused) \in 1..portNUM_CONFIGURABLE_REGIONS
      BY <2>1, <3>1
    <3> HIDE DEF unused
    <3>3. Min(unused) - 1 \in 0..portNUM_CONFIGURABLE_REGIONS
      BY <3>2, MpuAssumption
    <3> QED BY <2>3, <3>3 DEF UsedRegions, unused
  <2> QED BY <2>2, <2>3
<1>3. s.stack = Empty => NumUsed(s) = portLEGACY
  BY DEF NumUsed
<1>4. s.stack # Empty => NumUsed(s) = UsedRegions(s) + (portLEGACY + 1)
  BY <1>1 DEF NumUsed
<1>5. /\ NumUsed(s) \in Nat /\ portLEGACY <= NumUsed(s)
      /\ NumUsed(s) <= portNUM_CONFIGURABLE_REGIONS + portLEGACY + 1
      /\ s.stack # Empty => portLEGACY + 1 <= NumUsed(s)
  BY <1>1, <1>2, <1>3, <1>4, MpuAssumption
<1>6. Used(s) \subseteq Pairs
  BY <1>1, <1>5, MpuAssumption DEF Used, Pairs
<1> QED BY <1>1, <1>3, <1>5, <1>6

\* A private range starts and ends where the setup has it.
LEMMA RangeOf ==
  ASSUME NEW s \in AnySetup, NEW p \in Pairs
  PROVE  /\ Details(s)[p].start = PrivateRanges(s)[p].start
         /\ Details(s)[p].end = PrivateRanges(s)[p].end
         /\ Details(s)[p].start \in Nat /\ Details(s)[p].end \in Nat
         /\ p < portLEGACY => /\ Details(s)[p].start = Legacy.start
                              /\ Details(s)[p].end = Legacy.end
         /\ p >= portLEGACY /\ s.stack = Empty =>
              Details(s)[p].start = 0 /\ Details(s)[p].end = 0
<1> DEFINE r == IF p < portLEGACY THEN Legacy
                ELSE IF s.stack = Empty THEN Empty
                ELSE IF p = PRIVATE_STACK_IDX THEN s.stack
                ELSE IF p - PRIVATE_STACK_IDX <= UsedRegions(s)
                  THEN s.regions[p - PRIVATE_STACK_IDX].range ELSE Empty
<1>1. PrivateRanges(s)[p] = [start |-> r.start, end |-> r.end, index |-> 0]
  BY DEF PrivateRanges
<1>2. Details(s)[p].start = r.start /\ Details(s)[p].end = r.end
  BY <1>1 DEF Details, Located
<1>3. p \in Int /\ portLEGACY \in {0, 1}
  BY Numbers DEF Pairs
<1>4. r \in Ranges
  <2>1. Legacy \in Ranges /\ Empty \in Ranges /\ s.stack \in Ranges
    BY SetupType, MpuAssumption DEF Empty, Ranges, Addresses
  <2>2. p > portLEGACY => p - PRIVATE_STACK_IDX \in 1..portNUM_CONFIGURABLE_REGIONS
    BY <1>3, Numbers, MpuAssumption DEF Pairs
  <2>3. p > portLEGACY => s.regions[p - PRIVATE_STACK_IDX].range \in Ranges
    BY <2>2, SetupType
  <2>4. p < portLEGACY \/ p = PRIVATE_STACK_IDX \/ p > portLEGACY
    BY <1>3, Numbers
  <2> QED BY <2>1, <2>3, <2>4
<1>5. r.start \in Nat /\ r.end \in Nat
  BY <1>4, MpuAssumption DEF Ranges, Addresses
<1>6. p < portLEGACY => r = Legacy
  OBVIOUS
<1>7. p >= portLEGACY /\ s.stack = Empty => r = Empty
  BY <1>3
<1> HIDE DEF r
<1>8. p >= portLEGACY /\ s.stack = Empty => r.start = 0 /\ r.end = 0
  BY <1>7 DEF Empty
<1>9. PrivateRanges(s)[p].start = r.start /\ PrivateRanges(s)[p].end = r.end
  BY <1>1
<1> QED BY <1>2, <1>5, <1>6, <1>8, <1>9

\* What Laid says of the places of the ranges.
LEMMA Geometry ==
  ASSUME NEW s \in AnySetup, Laid(s)
  PROVE  /\ \A i \in Places : Table(s)[i].as \in Nat
         /\ \A i, j \in Places : i <= j => Table(s)[i].as <= Table(s)[j].as
         /\ 0 \in Places /\ 1 \in Places /\ 2 \in Places
         /\ \A i \in {0, 1} : Table(s)[i].as = 0 /\ Table(s)[i].ar # AR_rw
         /\ \A p \in Used(s) :
              /\ PlaceOf(s, p) \in Places /\ PlaceOf(s, p) + 1 \in Places
              /\ PlaceOf(s, p) - 1 \in Places /\ PlaceOf(s, p) >= 2
              /\ PlaceOf(s, p) \in Int
              /\ Details(s)[p].start \in Nat /\ Details(s)[p].end \in Nat
              /\ Details(s)[p].start > 0
              /\ Table(s)[PlaceOf(s, p)].as = Details(s)[p].start
              /\ Table(s)[PlaceOf(s, p) + 1].as = Details(s)[p].end
              /\ Table(s)[PlaceOf(s, p) + 1].ar = AR_rx
              /\ Table(s)[PlaceOf(s, p) - 1].ar # AR_rw
              /\ Details(s)[p].start <= Details(s)[p].end
         /\ \A p, q \in Used(s) :
              p # q => /\ PlaceOf(s, p) # PlaceOf(s, q)
                       /\ PlaceOf(s, p) # PlaceOf(s, q) + 1
<1> USE DEF Laid, PairsLaid
<1>0. XCHAL_MPU_ENTRIES \in Nat /\ XCHAL_MPU_ENTRIES >= 3
  BY MpuAssumption
<1>1. 0 \in Places /\ 1 \in Places /\ 2 \in Places
  BY <1>0 DEF Places
<1>2. \A i \in Places : Table(s)[i].as \in Nat
  BY MpuAssumption DEF Addresses
<1>3. \A i, j \in Places : i <= j => Table(s)[i].as <= Table(s)[j].as
  <2> TAKE i, j \in Places
  <2> HAVE i <= j
  <2>1. CASE i = j
    BY <1>2, <2>1
  <2>2. CASE i < j
    BY <2>2 DEF InOrder
  <2> QED BY <2>1, <2>2 DEF Places
<1>4. ASSUME NEW p \in Used(s)
      PROVE  /\ PlaceOf(s, p) \in Places /\ PlaceOf(s, p) + 1 \in Places
             /\ PlaceOf(s, p) - 1 \in Places /\ PlaceOf(s, p) >= 2
             /\ PlaceOf(s, p) \in Int
  <2>1. PlaceOf(s, p) \in 2 .. XCHAL_MPU_ENTRIES - 2
    OBVIOUS
  <2> QED BY <1>0, <2>1 DEF Places
<1>5. ASSUME NEW p \in Used(s)
      PROVE  /\ Details(s)[p].start > 0
             /\ Table(s)[PlaceOf(s, p)].as = Details(s)[p].start
             /\ Table(s)[PlaceOf(s, p) + 1] = Entry(Details(s)[p].end, AR_rx)
             /\ Table(s)[PlaceOf(s, p) - 1].ar # AR_rw
  OBVIOUS
<1>7. \A p, q \in Used(s) :
        p # q => PlaceOf(s, p) # PlaceOf(s, q) /\ PlaceOf(s, p) # PlaceOf(s, q) + 1
  OBVIOUS
<1>8. \A i \in {0, 1} : Table(s)[i].as = 0 /\ Table(s)[i].ar # AR_rw
  OBVIOUS
<1> HIDE DEF Laid, PairsLaid
<1>6. ASSUME NEW p \in Used(s)
      PROVE  /\ Table(s)[PlaceOf(s, p) + 1].as = Details(s)[p].end
             /\ Table(s)[PlaceOf(s, p) + 1].ar = AR_rx
  <2> DEFINE e == Entry(Details(s)[p].end, AR_rx)
  <2>1. e.as = Details(s)[p].end /\ e.ar = AR_rx
    BY DEF Entry
  <2>2. Table(s)[PlaceOf(s, p) + 1] = e
    BY <1>5
  <2> QED BY <2>1, <2>2
<1>9. ASSUME NEW p \in Used(s)
      PROVE  /\ Details(s)[p].start \in Nat /\ Details(s)[p].end \in Nat
             /\ Details(s)[p].start <= Details(s)[p].end
  <2>1. Details(s)[p].start \in Nat /\ Details(s)[p].end \in Nat
    BY RangeOf, Numbers
  <2>2. Table(s)[PlaceOf(s, p)].as <= Table(s)[PlaceOf(s, p) + 1].as
    BY <1>3, <1>4
  <2> QED BY <2>1, <2>2, <1>5, <1>6
<1> QED BY <1>1, <1>2, <1>3, <1>4, <1>5, <1>6, <1>7, <1>8, <1>9

-----------------------------------------------------------------------------
(* Memory: the table with the pairs of some task in it                     *)

\* Entry i is not one of a private range.
Kept(s, i) == \A p \in Used(s) : i # PlaceOf(s, p) /\ i # PlaceOf(s, p) + 1

\* Private ranges have become narrower, and the first two entries, where the
\* pairs of a task without settings go, are of no consequence.
Narrowed(s, map) ==
  /\ \A i \in Places : map[i].as \in Nat
  /\ \A i \in {0, 1} : map[i].as = 0 /\ map[i].ar # AR_rw
  /\ \A p \in Used(s) :
       /\ Details(s)[p].start <= map[PlaceOf(s, p)].as
       /\ map[PlaceOf(s, p)].as <= map[PlaceOf(s, p) + 1].as
       /\ map[PlaceOf(s, p) + 1].as <= Details(s)[p].end
       /\ map[PlaceOf(s, p) + 1].ar = AR_rx
  /\ \A i \in Places : i >= 2 /\ Kept(s, i) => map[i] = Table(s)[i]

LEMMA TableNarrowed ==
  ASSUME NEW s \in AnySetup, Laid(s)
  PROVE  Narrowed(s, Table(s))
<1> DEFINE map == Table(s)
<1>1. ASSUME NEW p \in Used(s)
      PROVE  /\ Details(s)[p].start <= map[PlaceOf(s, p)].as
             /\ map[PlaceOf(s, p)].as <= map[PlaceOf(s, p) + 1].as
             /\ map[PlaceOf(s, p) + 1].as <= Details(s)[p].end
             /\ map[PlaceOf(s, p) + 1].ar = AR_rx
  BY Geometry
<1> QED BY <1>1, Geometry DEF Narrowed

\* An address has moved by no more than to that of the other entry of its pair.
LEMMA Above ==
  ASSUME NEW s \in AnySetup, Laid(s), NEW map, Narrowed(s, map), NEW i \in Places
  PROVE  \/ map[i].as <= Table(s)[i].as
         \/ \E p \in Used(s) : /\ i = PlaceOf(s, p)
                               /\ map[i].as <= Table(s)[i + 1].as
<1>1. CASE i \in {0, 1}
  BY <1>1, Geometry DEF Narrowed
<1>2. CASE i \notin {0, 1} /\ Kept(s, i)
  <2>1. i >= 2
    BY <1>2 DEF Places
  <2>2. map[i] = Table(s)[i] /\ Table(s)[i].as \in Nat
    BY <1>2, <2>1, Geometry DEF Narrowed
  <2> QED BY <2>2
<1>3. ASSUME NEW p \in Used(s), i = PlaceOf(s, p)
      PROVE  map[i].as <= Table(s)[i + 1].as
  <2>1. /\ map[i].as <= map[i + 1].as /\ map[i + 1].as <= Table(s)[i + 1].as
        /\ i + 1 \in Places
    BY <1>3, Geometry DEF Narrowed
  <2>2. map[i].as \in Nat /\ map[i + 1].as \in Nat /\ Table(s)[i + 1].as \in Nat
    BY <2>1, Geometry DEF Narrowed
  <2> QED BY <2>1, <2>2
<1>4. ASSUME NEW p \in Used(s), i = PlaceOf(s, p) + 1
      PROVE  map[i].as <= Table(s)[i].as
  BY <1>4, Geometry DEF Narrowed
<1> QED BY <1>1, <1>2, <1>3, <1>4 DEF Kept

LEMMA NotBelow ==
  ASSUME NEW s \in AnySetup, Laid(s), NEW map, Narrowed(s, map), NEW i \in Places
  PROVE  \/ Table(s)[i].as <= map[i].as
         \/ \E p \in Used(s) : /\ i = PlaceOf(s, p) + 1
                               /\ Table(s)[i - 1].as <= map[i].as
<1>1. CASE i \in {0, 1}
  BY <1>1, Geometry DEF Narrowed
<1>2. CASE i \notin {0, 1} /\ Kept(s, i)
  <2>1. i >= 2
    BY <1>2 DEF Places
  <2>2. map[i] = Table(s)[i] /\ Table(s)[i].as \in Nat
    BY <1>2, <2>1, Geometry DEF Narrowed
  <2> QED BY <2>2
<1>3. ASSUME NEW p \in Used(s), i = PlaceOf(s, p) + 1
      PROVE  Table(s)[i - 1].as <= map[i].as
  <2>1. i - 1 = PlaceOf(s, p) /\ i - 1 \in Places
    BY <1>3, Geometry
  <2>2. Table(s)[i - 1].as <= map[i - 1].as /\ map[i - 1].as <= map[i].as
    BY <1>3, <2>1, Geometry DEF Narrowed
  <2>3. map[i].as \in Nat /\ map[i - 1].as \in Nat /\ Table(s)[i - 1].as \in Nat
    BY <2>1, Geometry DEF Narrowed
  <2> QED BY <2>2, <2>3
<1>4. ASSUME NEW p \in Used(s), i = PlaceOf(s, p)
      PROVE  Table(s)[i].as <= map[i].as
  BY <1>4, Geometry DEF Narrowed
<1> QED BY <1>1, <1>2, <1>3, <1>4 DEF Kept

LEMMA NarrowedInOrder ==
  ASSUME NEW s \in AnySetup, Laid(s), NEW map, Narrowed(s, map)
  PROVE  InOrder(map)
<1> SUFFICES ASSUME NEW i \in Places, NEW j \in Places, i < j
             PROVE  map[i].as <= map[j].as
  BY DEF InOrder
<1> DEFINE T(k) == Table(s)[k].as
<1>1. i \in Int /\ j \in Int /\ map[i].as \in Nat /\ map[j].as \in Nat
  BY DEF Narrowed, Places
<1>2. \A k \in Places : T(k) \in Nat
  BY Geometry
<1>3. \A k, l \in Places : k <= l => T(k) <= T(l)
  BY Geometry
<1> HIDE DEF T
<1>4. CASE map[i].as <= T(i)
  <2>1. CASE T(j) <= map[j].as
    <3>1. T(i) <= T(j)
      BY <1>1, <1>3
    <3> QED BY <1>1, <1>2, <1>4, <2>1, <3>1
  <2>2. ASSUME NEW q \in Used(s), j = PlaceOf(s, q) + 1, T(j - 1) <= map[j].as
        PROVE  map[i].as <= map[j].as
    <3>1. j - 1 \in Places
      BY <2>2, Geometry
    <3>2. T(i) <= T(j - 1)
      BY <1>1, <1>3, <3>1
    <3> QED BY <1>1, <1>2, <1>4, <2>2, <3>1, <3>2
  <2> QED BY <2>1, <2>2, NotBelow DEF T
<1>5. ASSUME NEW p \in Used(s), i = PlaceOf(s, p), map[i].as <= T(i + 1)
      PROVE  map[i].as <= map[j].as
  <2>0. i + 1 \in Places
    BY <1>5, Geometry
  <2>1. CASE T(j) <= map[j].as
    <3>1. T(i + 1) <= T(j)
      BY <1>1, <1>3, <2>0
    <3> QED BY <1>1, <1>2, <1>5, <2>0, <2>1, <3>1
  <2>2. ASSUME NEW q \in Used(s), j = PlaceOf(s, q) + 1, T(j - 1) <= map[j].as
        PROVE  map[i].as <= map[j].as
    <3>1. j - 1 \in Places /\ PlaceOf(s, q) \in Int
      BY <2>2, Geometry
    <3>2. CASE i + 1 <= j - 1
      <4>1. T(i + 1) <= T(j - 1)
        BY <1>3, <2>0, <3>1, <3>2
      <4> QED BY <1>1, <1>2, <1>5, <2>0, <2>2, <3>1, <4>1
    <3>3. CASE i + 1 = j
      <4>1. PlaceOf(s, q) = i
        BY <1>1, <2>2, <3>1, <3>3
      <4>2. p = q
        BY <1>5, <4>1, Geometry
      <4> QED BY <1>5, <3>3, <4>2 DEF Narrowed
    <3> QED BY <1>1, <3>2, <3>3
  <2> QED BY <2>1, <2>2, NotBelow DEF T
<1> QED BY <1>4, <1>5, Above DEF T

LEMMA NarrowedSearchable ==
  ASSUME NEW s \in AnySetup, Laid(s), NEW map, Narrowed(s, map)
  PROVE  Searchable(map)
BY Geometry DEF Narrowed, Searchable

\* Outside of private ranges a search ends at the same entry in any such table.
LEMMA SameOutside ==
  ASSUME NEW s \in AnySetup, Laid(s), NEW map, Narrowed(s, map), NEW a \in Nat,
         \A p \in Used(s) : ~Covers(Details(s)[p], a)
  PROVE  find_addr_in_map(map, a) = find_addr_in_map(Table(s), a)
<1> DEFINE T(k) == Table(s)[k].as
<1>1. ASSUME NEW i \in Places
      PROVE  a >= map[i].as <=> a >= T(i)
  <2>1. map[i].as \in Nat /\ T(i) \in Nat
    BY Geometry DEF Narrowed
  <2>2. CASE i \in {0, 1}
    BY <2>2, Geometry DEF Narrowed
  <2>3. CASE i \notin {0, 1} /\ Kept(s, i)
    <3>1. i >= 2
      BY <2>3 DEF Places
    <3> QED BY <2>3, <3>1 DEF Narrowed
  <2>4. ASSUME NEW p \in Used(s), i = PlaceOf(s, p) \/ i = PlaceOf(s, p) + 1
        PROVE  a >= map[i].as <=> a >= T(i)
    <3> DEFINE b == Details(s)[p].start
               e == Details(s)[p].end
               u == map[PlaceOf(s, p)].as
               v == map[PlaceOf(s, p) + 1].as
    <3>1. b \in Nat /\ e \in Nat /\ b <= e
      BY Geometry
    <3>2. ~(b <= a /\ a < e)
      BY DEF Covers
    <3>3. u \in Nat /\ v \in Nat
      BY Geometry DEF Narrowed
    <3>4. b <= u /\ u <= v /\ v <= e
      BY DEF Narrowed
    <3>5. T(PlaceOf(s, p)) = b /\ T(PlaceOf(s, p) + 1) = e
      BY Geometry
    <3> HIDE DEF b, e, u, v, T
    <3>6. (a >= u <=> a >= b) /\ (a >= v <=> a >= e)
      BY <3>1, <3>2, <3>3, <3>4
    <3>7. CASE i = PlaceOf(s, p)
      BY <3>7, <3>6, <3>5 DEF u
    <3>8. CASE i = PlaceOf(s, p) + 1
      BY <3>8, <3>6, <3>5 DEF v
    <3> QED BY <2>4, <3>7, <3>8
  <2> QED BY <2>2, <2>3, <2>4 DEF Kept
<1>2. {i \in Places : a >= map[i].as} = {i \in Places : a >= T(i)}
  BY <1>1
<1> QED BY <1>2 DEF find_addr_in_map

LEMMA RightsOutside ==
  ASSUME NEW s \in AnySetup, Laid(s), NEW map, Narrowed(s, map), NEW a \in Nat,
         \A p \in Used(s) : ~Covers(Details(s)[p], a)
  PROVE  /\ RightsIn(map, a) = AR_rw <=> RightsIn(Table(s), a) = AR_rw
         /\ Table(s)[2].as <= a => RightsIn(map, a) = RightsIn(Table(s), a)
<1> DEFINE T(k) == Table(s)[k].as
           f == find_addr_in_map(Table(s), a)
<1>1. find_addr_in_map(map, a) = f
  BY SameOutside
<1>2. Searchable(Table(s))
  BY TableNarrowed, NarrowedSearchable
<1>3. f \in Places /\ T(f) <= a /\ \A i \in Places : f < i => a < T(i)
  BY <1>2, Found
<1> HIDE DEF f, T
<1>4. CASE f \in {0, 1}
  <2>1. map[f].ar # AR_rw /\ Table(s)[f].ar # AR_rw
    BY <1>4, Geometry DEF Narrowed
  <2>2. a < T(2)
    BY <1>3, <1>4, Geometry
  <2>3. ~(T(2) <= a)
    BY <2>2, Geometry DEF T
  <2> QED BY <1>1, <2>1, <2>3 DEF RightsIn, f, T
<1>5. CASE f \notin {0, 1} /\ Kept(s, f)
  <2>1. f >= 2
    BY <1>3, <1>5 DEF Places
  <2>2. map[f] = Table(s)[f]
    BY <1>3, <1>5, <2>1 DEF Narrowed
  <2> QED BY <1>1, <2>2 DEF RightsIn, f
<1>6. ASSUME NEW p \in Used(s), f = PlaceOf(s, p)
      PROVE  FALSE
  <2>1. T(f) = Details(s)[p].start /\ T(f + 1) = Details(s)[p].end
    BY <1>6, Geometry DEF T
  <2>2. a < T(f + 1)
    BY <1>3, <1>6, Geometry
  <2> QED BY <1>3, <2>1, <2>2 DEF Covers
<1>7. ASSUME NEW p \in Used(s), f = PlaceOf(s, p) + 1
      PROVE  map[f].ar = Table(s)[f].ar
  BY <1>7, Geometry DEF Narrowed
<1> QED BY <1>1, <1>4, <1>5, <1>6, <1>7 DEF RightsIn, f, Kept

\* Inside of one the pair decides.
LEMMA RightsInside ==
  ASSUME NEW s \in AnySetup, Laid(s), NEW map, Narrowed(s, map), NEW a \in Nat,
         NEW p \in Used(s), Covers(Details(s)[p], a)
  PROVE  RightsIn(map, a) = AR_rw <=>
           /\ map[PlaceOf(s, p)].as <= a /\ a < map[PlaceOf(s, p) + 1].as
           /\ map[PlaceOf(s, p)].ar = AR_rw
<1> DEFINE k == PlaceOf(s, p)
           m(i) == map[i].as
           T(i) == Table(s)[i].as
<1>1. k \in Int /\ k \in Places /\ k + 1 \in Places /\ k - 1 \in Places
  BY Geometry
<1>2. \A i \in Places : m(i) \in Nat /\ T(i) \in Nat /\ i \in Int
  BY Geometry DEF Narrowed, Places
<1>3. Searchable(map)
  BY NarrowedSearchable
<1>4. \A i, j \in Places : i < j => m(i) <= m(j)
  BY NarrowedInOrder DEF InOrder
<1>5. T(k) <= a /\ a < T(k + 1)
  BY Geometry DEF Covers
<1>6. ASSUME NEW i \in Places, k + 1 < i PROVE a < m(i)
  <2>1. CASE T(i) <= m(i)
    <3>1. T(k + 1) <= T(i)
      BY <1>1, <1>2, <1>6, Geometry
    <3> QED BY <1>1, <1>2, <1>5, <2>1, <3>1
  <2>2. ASSUME NEW q \in Used(s), i = PlaceOf(s, q) + 1, T(i - 1) <= m(i)
        PROVE  a < m(i)
    <3>1. i - 1 \in Places /\ k + 1 <= i - 1
      BY <1>1, <1>2, <1>6, <2>2, Geometry
    <3>2. T(k + 1) <= T(i - 1)
      BY <1>1, <3>1, Geometry
    <3> QED BY <1>1, <1>2, <1>5, <2>2, <3>1, <3>2
  <2> QED BY <2>1, <2>2, NotBelow
<1> HIDE DEF k, m, T
<1>7. CASE m(k + 1) <= a
  <2>1. \A i \in Places : k + 1 < i => a < m(i)
    BY <1>6
  <2>2. find_addr_in_map(map, a) = k + 1
    BY <1>1, <1>3, <1>7, <2>1, FoundIs DEF m
  <2>3. map[k + 1].ar = AR_rx
    BY DEF Narrowed, k
  <2>4. ~(a < m(k + 1))
    BY <1>1, <1>2, <1>7
  <2> QED BY <2>2, <2>3, <2>4 DEF RightsIn, AR_rx, AR_rw, k, m
<1>8. CASE m(k) <= a /\ a < m(k + 1)
  <2>1. ASSUME NEW i \in Places, k < i PROVE a < m(i)
    <3>1. i = k + 1 \/ k + 1 < i
      BY <1>1, <1>2, <2>1
    <3> QED BY <1>6, <1>8, <3>1
  <2>2. find_addr_in_map(map, a) = k
    BY <1>1, <1>3, <1>8, <2>1, FoundIs DEF m
  <2> QED BY <1>8, <2>2 DEF RightsIn, k, m
<1>9. CASE a < m(k)
  <2>1. ASSUME NEW i \in Places, k - 1 < i PROVE a < m(i)
    <3>1. i = k \/ k < i
      BY <1>1, <1>2, <2>1
    <3>2. k < i => m(k) <= m(i)
      BY <1>1, <1>4
    <3> QED BY <1>1, <1>2, <1>9, <3>1, <3>2
  <2>2. m(k - 1) <= a
    <3>1. T(k - 1) <= T(k)
      BY <1>1, Geometry DEF T
    <3>2. m(k - 1) <= T(k - 1) \/ m(k - 1) <= T(k)
      <4>1. (k - 1) + 1 = k
        BY <1>1
      <4> QED BY <1>1, <4>1, Above DEF m, T
    <3> QED BY <1>1, <1>2, <1>5, <3>1, <3>2
  <2>3. find_addr_in_map(map, a) = k - 1
    BY <1>1, <1>3, <2>1, <2>2, FoundIs DEF m
  <2>4. map[k - 1].ar # AR_rw
    <3>1. CASE k - 1 \in {0, 1}
      BY <3>1 DEF Narrowed
    <3>2. CASE k - 1 \notin {0, 1} /\ Kept(s, k - 1)
      <4>1. k - 1 >= 2
        BY <1>1, <3>2 DEF Places
      <4>2. map[k - 1] = Table(s)[k - 1]
        BY <1>1, <3>2, <4>1 DEF Narrowed
      <4> QED BY <4>2, Geometry DEF k
    <3>3. ASSUME NEW q \in Used(s), k - 1 = PlaceOf(s, q) PROVE FALSE
      <4>1. k = PlaceOf(s, q) + 1 /\ k # PlaceOf(s, q)
        BY <1>1, <3>3, Geometry
      <4>2. p # q
        BY <4>1 DEF k
      <4> QED BY <4>1, <4>2, Geometry DEF k
    <3>4. ASSUME NEW q \in Used(s), k - 1 = PlaceOf(s, q) + 1
          PROVE  map[k - 1].ar # AR_rw
      BY <3>4 DEF Narrowed, AR_rx, AR_rw
    <3> QED BY <3>1, <3>2, <3>3, <3>4 DEF Kept
  <2>5. ~(m(k) <= a)
    BY <1>1, <1>2, <1>9
  <2> QED BY <2>3, <2>4, <2>5 DEF RightsIn, k, m
<1> QED BY <1>1, <1>2, <1>7, <1>8, <1>9

-----------------------------------------------------------------------------
(* Memory: the pairs of a task that was not refused                        *)

\* A request that passed the checks, if there are any for it.
Accepted(s, g) ==
  /\ g \in Requests
  /\ g.regions # <<>> => Refusal(g, Details(s), NumUsed(s)) = "none"

LEMMA NotRefused ==
  ASSUME NEW s, NEW g, Accepted(s, g), g.regions # <<>>
  PROVE  /\ region_within_region(g.stack, Details(s)[PRIVATE_STACK_IDX])
         /\ \A i \in Checked(g, NumUsed(s)) :
              region_within_region(g.regions[i].range, Details(s)[i + PRIVATE_STACK_IDX])
BY DEF Accepted, Refusal

LEMMA RequestType ==
  ASSUME NEW g \in Requests
  PROVE  /\ g.stack.start \in Nat /\ g.stack.end \in Nat
         /\ g.regions = <<>> => g.stack # Empty
         /\ g.regions # <<>> =>
              /\ DOMAIN g.regions = 1..portNUM_CONFIGURABLE_REGIONS
              /\ \A i \in 1..portNUM_CONFIGURABLE_REGIONS :
                   /\ g.regions[i].range \in Ranges
                   /\ g.regions[i].range.start \in Nat
                   /\ g.regions[i].range.end \in Nat
<1>1. g \in [stack : Ranges, regions : Regions \cup {<<>>}]
  BY MpuAssumption
<1>2. g.stack \in Ranges /\ g.regions \in Regions \cup {<<>>}
  BY <1>1
<1>3. \A r \in Ranges : r.start \in Nat /\ r.end \in Nat
  BY MpuAssumption DEF Ranges, Addresses
<1>4. g.regions # <<>> => g.regions \in Regions
  BY <1>2
<1>5. g.regions # <<>> =>
        /\ DOMAIN g.regions = 1..portNUM_CONFIGURABLE_REGIONS
        /\ \A i \in 1..portNUM_CONFIGURABLE_REGIONS : g.regions[i].range \in Ranges
  BY <1>4 DEF Regions
<1>6. g.regions = <<>> => g.stack # Empty
  BY MpuAssumption
<1> QED BY <1>2, <1>3, <1>5, <1>6

\* The regions that are checked are those with a pair in use.
LEMMA CheckedInUse ==
  ASSUME NEW s \in AnySetup, NEW g
  PROVE  /\ \A p \in Used(s) : p > PRIVATE_STACK_IDX =>
              /\ p - PRIVATE_STACK_IDX \in Checked(g, NumUsed(s))
              /\ p - PRIVATE_STACK_IDX \in 1..portNUM_CONFIGURABLE_REGIONS
              /\ (p - PRIVATE_STACK_IDX) + PRIVATE_STACK_IDX = p
         /\ \A i \in Checked(g, NumUsed(s)) :
              /\ i + PRIVATE_STACK_IDX \in Used(s)
              /\ i + PRIVATE_STACK_IDX > PRIVATE_STACK_IDX
              /\ (i + PRIVATE_STACK_IDX) - PRIVATE_STACK_IDX = i
<1> DEFINE n == NumUsed(s)
           l == portLEGACY
<1>1. /\ l \in {0, 1} /\ PRIVATE_STACK_IDX = l /\ PRIVATE_CONFIGURABLE_IDX = l + 1
      /\ n \in Nat
  BY Numbers
<1>2. Used(s) = 0 .. n - 1
  BY DEF Used
<1>3. Checked(g, n) = 1 .. (IF n > l + 1 THEN n - (l + 1) ELSE 0)
  BY <1>1 DEF Checked
<1>4. Used(s) \subseteq 0 .. portNUM_CONFIGURABLE_REGIONS + l
  BY Numbers DEF Pairs
<1> HIDE DEF n, l
<1>5. ASSUME NEW p \in 0 .. n - 1, p > l
      PROVE  p - l \in 1 .. (IF n > l + 1 THEN n - (l + 1) ELSE 0)
  BY <1>1, <1>5
<1>6. ASSUME NEW p \in 0 .. portNUM_CONFIGURABLE_REGIONS + l, p > l
      PROVE  p - l \in 1..portNUM_CONFIGURABLE_REGIONS /\ (p - l) + l = p
  BY <1>1, <1>6, MpuAssumption
<1>7. ASSUME NEW i \in 1 .. (IF n > l + 1 THEN n - (l + 1) ELSE 0)
      PROVE  i + l \in 0 .. n - 1 /\ i + l > l /\ (i + l) - l = i
  BY <1>1
<1>8. \A p \in Used(s) : p > l =>
        /\ p - l \in Checked(g, n)
        /\ p - l \in 1..portNUM_CONFIGURABLE_REGIONS
        /\ (p - l) + l = p
  BY <1>2, <1>3, <1>4, <1>5, <1>6
<1>9. \A i \in Checked(g, n) :
        i + l \in Used(s) /\ i + l > l /\ (i + l) - l = i
  BY <1>2, <1>3, <1>7
<1> QED BY <1>1, <1>8, <1>9 DEF n

\* That a pair gives the right to write at an address.
PairGives(g, p, a) ==
  IF g.regions = <<>> THEN p < portLEGACY /\ Covers(AlignOut(g.stack), a)
  ELSE \/ p = PRIVATE_STACK_IDX /\ Covers(g.stack, a)
       \/ /\ p > PRIVATE_STACK_IDX
          /\ g.regions[p - PRIVATE_STACK_IDX].ar = AR_rw
          /\ Covers(g.regions[p - PRIVATE_STACK_IDX].range, a)

\* A pair's two entries stay within a range.
Fits(pair, range) ==
  /\ pair.first.as \in Nat /\ pair.last.as \in Nat
  /\ range.start <= pair.first.as /\ pair.first.as <= pair.last.as
  /\ pair.last.as <= range.end
  /\ pair.last.ar = AR_rx

GivesTo(pair, a) ==
  pair.first.as <= a /\ a < pair.last.as /\ pair.first.ar = AR_rw

LEMMA PairIs ==
  ASSUME NEW r, NEW ar, NEW index
  PROVE  /\ Pair(r, ar, index).at = index
         /\ Pair(r, ar, index).first.as = r.start /\ Pair(r, ar, index).last.as = r.end
         /\ Pair(r, ar, index).first.ar = ar /\ Pair(r, ar, index).last.ar = AR_rx
BY DEF Pair, Entry

LEMMA PairOf ==
  ASSUME NEW s \in AnySetup, Laid(s), NEW g, Accepted(s, g), Asked(g),
         NEW p \in Used(s), NEW a \in Nat
  PROVE  LET pair == PairFor(g, Details(s), p)
         IN  /\ pair.at = PlaceOf(s, p)
             /\ Fits(pair, Details(s)[p])
             /\ GivesTo(pair, a) <=> PairGives(g, p, a)
<1> DEFINE d == Details(s)[p]
           pair == PairFor(g, Details(s), p)
<1>0. PlaceOf(s, p) = d.index
  BY DEF PlaceOf
<1>1. /\ p \in Pairs /\ p \in Nat
      /\ portLEGACY \in {0, 1} /\ PRIVATE_STACK_IDX = portLEGACY
  BY Numbers DEF Pairs
<1>2. d.start \in Nat /\ d.end \in Nat /\ d.start <= d.end /\ d.start > 0
  BY Geometry
<1>3. AR_rx # AR_rw
  BY DEF AR_rx, AR_rw
<1>4. ASSUME NEW r, NEW ar, pair = Pair(r, ar, d.index),
             r.start \in Nat, r.end \in Nat,
             d.start <= r.start, r.start <= r.end, r.end <= d.end
      PROVE  /\ pair.at = PlaceOf(s, p) /\ Fits(pair, d)
             /\ GivesTo(pair, a) <=> Covers(r, a) /\ ar = AR_rw
  <2>1. /\ pair.at = d.index
        /\ pair.first.as = r.start /\ pair.last.as = r.end
        /\ pair.first.ar = ar /\ pair.last.ar = AR_rx
    BY <1>4, PairIs
  <2>2. Fits(pair, d)
    BY <1>4, <2>1 DEF Fits
  <2>3. GivesTo(pair, a) <=> Covers(r, a) /\ ar = AR_rw
    BY <2>1 DEF GivesTo, Covers
  <2> QED BY <1>0, <2>1, <2>2, <2>3
<1>5. CASE g.regions = <<>> /\ p < portLEGACY
  <2> DEFINE r == AlignOut(g.stack)
  <2>1. Legacy # Empty
    BY <1>5, <1>1 DEF portLEGACY
  <2>2. d.start = Legacy.start /\ d.end = Legacy.end
    BY <1>1, <1>5, RangeOf
  <2>3. r.start >= d.start /\ r.end <= d.end /\ r.start <= r.end
    BY <1>5, <2>1, <2>2 DEF Asked, region_within_region
  <2>4. r.start \in Int /\ r.end \in Int
    BY RequestType, MpuAssumption DEF AlignOut, Accepted
  <2>5. pair = Pair(r, AR_rw, d.index)
    BY <1>5 DEF PairFor, LegacyPair
  <2>6. PairGives(g, p, a) <=> Covers(r, a)
    BY <1>5 DEF PairGives
  <2> HIDE DEF r, d, pair
  <2>7. r.start \in Nat /\ r.end \in Nat /\ d.start <= r.start
    BY <1>2, <2>3, <2>4
  <2>8. /\ pair.at = PlaceOf(s, p) /\ Fits(pair, d)
        /\ GivesTo(pair, a) <=> Covers(r, a) /\ AR_rw = AR_rw
    BY <1>4, <2>3, <2>5, <2>7
  <2> QED BY <2>6, <2>8 DEF d, pair
<1>6. CASE g.regions = <<>> /\ ~(p < portLEGACY)
  <2>1. pair = Pair(d, AR_rx, d.index)
    BY <1>6 DEF PairFor, LegacyPair
  <2>2. ~PairGives(g, p, a)
    BY <1>6 DEF PairGives
  <2> HIDE DEF d, pair
  <2>3. /\ pair.at = PlaceOf(s, p) /\ Fits(pair, d)
        /\ GivesTo(pair, a) <=> Covers(d, a) /\ AR_rx = AR_rw
    BY <1>2, <1>4, <2>1
  <2> QED BY <1>3, <2>2, <2>3 DEF d, pair
<1>7. CASE g.regions # <<>> /\ p < portLEGACY
  <2>1. d.start = Legacy.start /\ d.end = Legacy.end
    BY <1>1, <1>7, RangeOf
  <2>2. pair = Pair(Legacy, AR_rx, d.index)
    BY <1>7 DEF PairFor, RestrictedPair
  <2>3. ~PairGives(g, p, a)
    BY <1>1, <1>7 DEF PairGives
  <2> HIDE DEF d, pair
  <2>4. /\ pair.at = PlaceOf(s, p) /\ Fits(pair, d)
        /\ GivesTo(pair, a) <=> Covers(Legacy, a) /\ AR_rx = AR_rw
    BY <1>2, <1>4, <2>1, <2>2
  <2> QED BY <1>3, <2>3, <2>4 DEF d, pair
<1>8. CASE g.regions # <<>> /\ p = PRIVATE_STACK_IDX
  <2>1. g.stack.start >= d.start /\ g.stack.end <= d.end
    BY <1>8, NotRefused DEF region_within_region
  <2>2. g.stack.start \in Nat /\ g.stack.end \in Nat /\ g.stack.start <= g.stack.end
    BY RequestType DEF Accepted, Asked
  <2>3. pair = Pair(g.stack, AR_rw, d.index)
    BY <1>1, <1>8 DEF PairFor, RestrictedPair
  <2>4. PairGives(g, p, a) <=> Covers(g.stack, a)
    BY <1>1, <1>8 DEF PairGives
  <2> HIDE DEF d, pair
  <2>5. /\ pair.at = PlaceOf(s, p) /\ Fits(pair, d)
        /\ GivesTo(pair, a) <=> Covers(g.stack, a) /\ AR_rw = AR_rw
    BY <1>2, <1>4, <2>1, <2>2, <2>3
  <2> QED BY <2>4, <2>5 DEF d, pair
<1>9. CASE g.regions # <<>> /\ p > PRIVATE_STACK_IDX
  <2> DEFINE i == p - PRIVATE_STACK_IDX
             r == g.regions[i]
  <2>1. i \in Checked(g, NumUsed(s)) /\ i \in 1..portNUM_CONFIGURABLE_REGIONS
        /\ i + PRIVATE_STACK_IDX = p
    BY <1>9, CheckedInUse
  <2>2. region_within_region(r.range, d)
    <3>1. region_within_region(g.regions[i].range, Details(s)[i + PRIVATE_STACK_IDX])
      BY <1>9, <2>1, NotRefused
    <3> QED BY <2>1, <3>1
  <2>3. r.range.start \in Nat /\ r.range.end \in Nat /\ r.range.start <= r.range.end
    BY <1>9, <2>1, RequestType DEF Accepted, Asked
  <2>4. r.range # Empty
    <3>1. r.range.start > 0
      BY <1>2, <2>2, <2>3 DEF region_within_region
    <3> QED BY <3>1 DEF Empty
  <2>5. pair = Pair(r.range, r.ar, d.index)
    BY <1>1, <1>9, <2>4 DEF PairFor, RestrictedPair
  <2>6. PairGives(g, p, a) <=> r.ar = AR_rw /\ Covers(r.range, a)
    BY <1>1, <1>9 DEF PairGives
  <2>7. r.range.start >= d.start /\ r.range.end <= d.end
    BY <2>2 DEF region_within_region
  <2> HIDE DEF d, pair, r, i
  <2>8. /\ pair.at = PlaceOf(s, p) /\ Fits(pair, d)
        /\ GivesTo(pair, a) <=> Covers(r.range, a) /\ r.ar = AR_rw
    BY <1>2, <1>4, <2>3, <2>5, <2>7
  <2> QED BY <2>6, <2>8 DEF d, pair
<1>10. p < portLEGACY \/ p = PRIVATE_STACK_IDX \/ p > PRIVATE_STACK_IDX
  BY <1>1
<1> QED BY <1>5, <1>6, <1>7, <1>8, <1>9, <1>10

\* No address is in two private ranges.
LEMMA RangesApart ==
  ASSUME NEW s \in AnySetup, Laid(s), NEW p \in Used(s), NEW q \in Used(s),
         NEW a \in Nat, Covers(Details(s)[p], a), Covers(Details(s)[q], a)
  PROVE  p = q
<1> DEFINE T(k) == Table(s)[k].as
<1>1. ASSUME NEW x \in Used(s), NEW y \in Used(s), PlaceOf(s, x) < PlaceOf(s, y),
             Covers(Details(s)[x], a), Covers(Details(s)[y], a)
      PROVE  FALSE
  <2>1. PlaceOf(s, x) + 1 < PlaceOf(s, y)
    <3>1. x # y /\ PlaceOf(s, x) \in Int /\ PlaceOf(s, y) \in Int
      BY <1>1, Geometry
    <3>2. PlaceOf(s, y) # PlaceOf(s, x) + 1
      BY <3>1, Geometry
    <3> QED BY <1>1, <3>1, <3>2
  <2>2. T(PlaceOf(s, x) + 1) <= T(PlaceOf(s, y))
    BY <2>1, Geometry
  <2>3. Details(s)[x].end <= Details(s)[y].start
    BY <2>2, Geometry
  <2>4. Details(s)[x].end \in Nat /\ Details(s)[y].start \in Nat
    BY Geometry
  <2> QED BY <1>1, <2>3, <2>4 DEF Covers
<1>2. PlaceOf(s, p) \in Int /\ PlaceOf(s, q) \in Int
  BY Geometry
<1>3. PlaceOf(s, p) = PlaceOf(s, q)
  BY <1>1, <1>2
<1> QED BY <1>3, Geometry

\* What was asked for is what the pairs in use give.
LEMMA GivenByPairs ==
  ASSUME NEW s \in AnySetup, Laid(s), g_num_used_mpu_entries = NumUsed(s),
         NEW g, Accepted(s, g), NEW a \in Nat
  PROVE  GivenToWrite(g, a) <=> \E p \in Used(s) : PairGives(g, p, a)
<1>0. /\ portLEGACY \in {0, 1} /\ PRIVATE_STACK_IDX = portLEGACY
      /\ NumUsed(s) \in Nat /\ portLEGACY <= NumUsed(s)
      /\ portLEGACY = 1 <=> Legacy # Empty
  BY Numbers DEF portLEGACY
<1>1. CASE g.regions = <<>>
  <2>1. Legacy # Empty => 0 \in Used(s) /\ 0 < portLEGACY
    BY <1>0 DEF Used
  <2>2. ASSUME NEW p \in Used(s), p < portLEGACY PROVE Legacy # Empty
    BY <1>0, <2>2 DEF Used
  <2> QED BY <1>1, <2>1, <2>2 DEF GivenToWrite, PairGives
<1>2. CASE g.regions # <<>>
  <2>1. Covers(g.stack, a) => PRIVATE_STACK_IDX \in Used(s)
    <3>1. CASE s.stack = Empty
      <4>1. PRIVATE_STACK_IDX \in Pairs
        BY <1>0, MpuAssumption DEF Pairs
      <4>2. Details(s)[PRIVATE_STACK_IDX].end = 0
        BY <1>0, <3>1, <4>1, RangeOf
      <4>3. g.stack.end <= 0 /\ g.stack.end \in Nat /\ g.stack.start \in Nat
        BY <1>2, <4>2, NotRefused, RequestType DEF region_within_region, Accepted
      <4> QED BY <4>3 DEF Covers
    <3>2. CASE s.stack # Empty
      BY <1>0, <3>2, Numbers DEF Used
    <3> QED BY <3>1, <3>2
  <2>2. ASSUME NEW i \in Checked(g, NumUsed(s)), g.regions[i].ar = AR_rw,
               Covers(g.regions[i].range, a)
        PROVE  \E p \in Used(s) : PairGives(g, p, a)
    <3>1. /\ i + PRIVATE_STACK_IDX \in Used(s)
          /\ i + PRIVATE_STACK_IDX > PRIVATE_STACK_IDX
          /\ (i + PRIVATE_STACK_IDX) - PRIVATE_STACK_IDX = i
      BY CheckedInUse
    <3>2. PairGives(g, i + PRIVATE_STACK_IDX, a)
      BY <1>2, <2>2, <3>1 DEF PairGives
    <3> QED BY <3>1, <3>2
  <2>3. ASSUME NEW p \in Used(s), PairGives(g, p, a)
        PROVE  GivenToWrite(g, a)
    <3>1. CASE p = PRIVATE_STACK_IDX /\ Covers(g.stack, a)
      BY <1>2, <3>1 DEF GivenToWrite
    <3>2. CASE /\ p > PRIVATE_STACK_IDX
               /\ g.regions[p - PRIVATE_STACK_IDX].ar = AR_rw
               /\ Covers(g.regions[p - PRIVATE_STACK_IDX].range, a)
      <4>1. p - PRIVATE_STACK_IDX \in Checked(g, NumUsed(s))
        BY <3>2, CheckedInUse
      <4> QED BY <1>2, <3>2, <4>1 DEF GivenToWrite
    <3> QED BY <1>2, <2>3, <3>1, <3>2 DEF PairGives
  <2>4. Covers(g.stack, a) => \E p \in Used(s) : PairGives(g, p, a)
    BY <1>2, <2>1 DEF PairGives
  <2> QED BY <1>2, <2>2, <2>3, <2>4 DEF GivenToWrite
<1> QED BY <1>1, <1>2

-----------------------------------------------------------------------------
(* Memory: the inductive invariant                                         *)

\* Each task's pairs are those of the request it was granted, or cleared.
TaskHas(s, t) ==
  IF granted[t] = Nothing THEN \A p \in Used(s) : mpumap[t][p] = Cleared
  ELSE /\ Accepted(s, granted[t])
       /\ \A p \in Used(s) : mpumap[t][p] = PairFor(granted[t], Details(s), p)

\* The table has the pairs of the task that runs, if it was granted any.
TableHas(s) ==
  given # Nothing =>
    /\ Accepted(s, given)
    /\ \A p \in Used(s) :
         /\ mpu[PlaceOf(s, p)] = PairFor(given, Details(s), p).first
         /\ mpu[PlaceOf(s, p) + 1] = PairFor(given, Details(s), p).last

\* The port has been set up with s; or not yet with anything.
SetUp(s) ==
  /\ g_num_used_mpu_entries = NumUsed(s)
  /\ g_privateDetails = Details(s)
  /\ Narrowed(s, mpu)
  /\ TableHas(s)
  /\ \A t \in UserTasks : TaskHas(s, t)

NotSetUp ==
  /\ mpu = [i \in Places |-> Entry(0, AR_rw)]
  /\ mpumap = [t \in UserTasks |-> [p \in Pairs |-> Cleared]]
  /\ granted = [t \in UserTasks |-> Nothing]
  /\ running = NoTask
  /\ given = Nothing

MpuInv ==
  /\ DOMAIN mpumap = UserTasks /\ DOMAIN granted = UserTasks
  /\ ~mpu_init_done => NotSetUp
  /\ mpu_init_done => \E s \in AnySetup : SetUp(s)

LEMMA LayoutLaid ==
  ASSUME Layout
  PROVE  /\ \A s \in AnySetup : Laid(s)
         /\ \A g \in Requests : Asked(g)
BY DEF Layout, AnySetup

LEMMA NothingIsNoRequest == Nothing \notin Requests
<1>1. Nothing.regions = <<>> /\ Nothing.stack = Empty
  BY DEF Nothing
<1> QED BY <1>1, RequestType

\* The first call sets the table and the ranges up.
LEMMA SetUpIs ==
  ASSUME Layout, NEW s \in AnySetup, ~mpu_init_done
  PROVE  /\ Initialised(s).n = NumUsed(s) /\ Initialised(s).map = Table(s)
         /\ Initialised(s).private = Details(s)
<1>1. InOrder(BuildMap(PrivateRanges(s), NumUsed(s)))
  BY LayoutLaid DEF Laid, Table
<1>2. Initialised(s) = setupMPU(PrivateRanges(s), NumUsed(s))
  BY DEF Initialised, init_private_mpu_regions, Layout
<1>3. setupMPU(PrivateRanges(s), NumUsed(s)) =
        [error |-> xtMPUError, n |-> NumUsed(s), map |-> Table(s),
         private |-> Details(s)]
  BY <1>1 DEF setupMPU, Table, Details
<1> QED BY <1>2, <1>3

LEMMA InitialisedIs ==
  ASSUME mpu_init_done, NEW s
  PROVE  /\ Initialised(s).n = g_num_used_mpu_entries /\ Initialised(s).map = mpu
         /\ Initialised(s).private = g_privateDetails
BY DEF Initialised, Config

LEMMA MpuInitInv == MpuInit => MpuInv
BY DEF MpuInit, MpuInv, NotSetUp

\* Whichever call initialises, the table and the ranges are afterwards those of
\* a setup, and what the table had of a task is still in it.
LEMMA AfterCall ==
  ASSUME Layout, MpuInv, NEW setup \in AnySetup,
         mpu' = Initialised(setup).map,
         g_num_used_mpu_entries' = Initialised(setup).n,
         g_privateDetails' = Initialised(setup).private,
         UNCHANGED <<running, given>>
  PROVE  \E s \in AnySetup :
           /\ Initialised(setup).n = NumUsed(s)
           /\ Initialised(setup).private = Details(s)
           /\ g_num_used_mpu_entries' = NumUsed(s)
           /\ g_privateDetails' = Details(s)
           /\ Narrowed(s, mpu') /\ TableHas(s)'
           /\ \A t \in UserTasks : TaskHas(s, t)
<1>1. CASE mpu_init_done
  <2>1. PICK s \in AnySetup : SetUp(s)
    BY <1>1 DEF MpuInv
  <2>2. /\ Initialised(setup).n = NumUsed(s) /\ Initialised(setup).map = mpu
        /\ Initialised(setup).private = Details(s)
    BY <1>1, <2>1, InitialisedIs DEF SetUp
  <2>3. Narrowed(s, mpu') /\ TableHas(s)'
    BY <2>1, <2>2 DEF SetUp, TableHas
  <2> QED BY <2>1, <2>2, <2>3 DEF SetUp
<1>2. CASE ~mpu_init_done
  <2>1. /\ Initialised(setup).n = NumUsed(setup)
        /\ Initialised(setup).map = Table(setup)
        /\ Initialised(setup).private = Details(setup)
    BY <1>2, SetUpIs
  <2>2. Narrowed(setup, Table(setup))
    BY LayoutLaid, TableNarrowed
  <2>3. NotSetUp
    BY <1>2 DEF MpuInv
  <2>4. TableHas(setup)'
    BY <2>3 DEF TableHas, NotSetUp
  <2>5. ASSUME NEW t \in UserTasks PROVE TaskHas(setup, t)
    <3>1. \A p \in Used(setup) : p \in Pairs
      BY Numbers
    <3> QED BY <2>3, <3>1 DEF TaskHas, NotSetUp
  <2> QED BY <2>1, <2>2, <2>4, <2>5
<1> QED BY <1>1, <1>2

LEMMA ConfigureInv ==
  ASSUME Layout, MpuInv, NEW setup \in Setups, Configure(setup)
  PROVE  MpuInv'
<1>1. setup \in AnySetup
  BY DEF AnySetup
<1>2. PICK s \in AnySetup :
        /\ g_num_used_mpu_entries' = NumUsed(s)
        /\ g_privateDetails' = Details(s)
        /\ Narrowed(s, mpu') /\ TableHas(s)'
        /\ \A t \in UserTasks : TaskHas(s, t)
  BY <1>1, AfterCall DEF Configure, Becomes
<1>3. \A t \in UserTasks : TaskHas(s, t)'
  BY <1>2 DEF TaskHas, Configure
<1>4. SetUp(s)'
  BY <1>2, <1>3 DEF SetUp
<1>5. mpu_init_done' /\ DOMAIN mpumap' = UserTasks /\ DOMAIN granted' = UserTasks
  BY DEF Configure, Becomes, MpuInv
<1> QED BY <1>4, <1>5 DEF MpuInv

LEMMA StoreInv ==
  ASSUME Layout, MpuInv, NEW t \in UserTasks, NEW g \in Requests,
         vPortStoreTaskMPUSettings(t, g)
  PROVE  MpuInv'
<1> DEFINE c == Initialised(NoSetup)
           refusal == IF g.regions = <<>> THEN "none" ELSE Refusal(g, c.private, c.n)
<1>1. NoSetup \in AnySetup
  BY DEF AnySetup
<1>2. /\ mpu' = c.map /\ g_num_used_mpu_entries' = c.n /\ g_privateDetails' = c.private
      /\ mpu_init_done' /\ UNCHANGED <<running, given>>
      /\ IF refusal = "none"
           THEN /\ mpumap' = [mpumap EXCEPT ![t] = init_task_mpu(@, g, c)]
                /\ granted' = [granted EXCEPT ![t] = g]
           ELSE UNCHANGED <<mpumap, granted>>
  BY DEF vPortStoreTaskMPUSettings, Becomes
<1>3. PICK s \in AnySetup :
        /\ c.n = NumUsed(s) /\ c.private = Details(s)
        /\ g_num_used_mpu_entries' = NumUsed(s)
        /\ g_privateDetails' = Details(s)
        /\ Narrowed(s, mpu') /\ TableHas(s)'
        /\ \A u \in UserTasks : TaskHas(s, u)
  BY <1>1, <1>2, AfterCall
<1> HIDE DEF c
<1>4. DOMAIN mpumap = UserTasks /\ DOMAIN granted = UserTasks
  BY DEF MpuInv
<1>5. DOMAIN mpumap' = UserTasks /\ DOMAIN granted' = UserTasks
  BY <1>2, <1>4
<1>6. CASE refusal = "none"
  <2>1. /\ mpumap' = [mpumap EXCEPT ![t] = init_task_mpu(@, g, c)]
        /\ granted' = [granted EXCEPT ![t] = g]
    BY <1>2, <1>6
  <2>2. ASSUME NEW u \in UserTasks, u # t PROVE TaskHas(s, u)'
    <3>1. mpumap'[u] = mpumap[u] /\ granted'[u] = granted[u]
      BY <1>4, <2>1, <2>2
    <3> QED BY <1>3, <3>1 DEF TaskHas
  <2>3. TaskHas(s, t)'
    <3>1. mpumap'[t] = init_task_mpu(mpumap[t], g, c) /\ granted'[t] = g
      BY <1>4, <2>1
    <3>2. Accepted(s, g)
      BY <1>3, <1>6 DEF Accepted
    <3>3. ASSUME NEW p \in Used(s)
          PROVE  mpumap'[t][p] = PairFor(g, Details(s), p)
      <4>1. p \in Pairs /\ p < c.n
        BY <1>3, Numbers DEF Used
      <4>2. mpumap'[t][p] = TaskPair(mpumap[t], g, c.private, c.n, p)
        BY <3>1, <4>1 DEF init_task_mpu
      <4> QED BY <1>3, <4>1, <4>2 DEF TaskPair
    <3>4. g # Nothing
      BY NothingIsNoRequest
    <3> QED BY <3>1, <3>2, <3>3, <3>4 DEF TaskHas
  <2>4. \A u \in UserTasks : TaskHas(s, u)'
    BY <2>2, <2>3
  <2> QED BY <1>2, <1>3, <1>5, <2>4 DEF SetUp, MpuInv
<1>7. CASE refusal # "none"
  <2>1. mpumap' = mpumap /\ granted' = granted
    BY <1>2, <1>7
  <2>2. \A u \in UserTasks : TaskHas(s, u)'
    BY <1>3, <2>1 DEF TaskHas
  <2> QED BY <1>2, <1>3, <1>5, <2>2 DEF SetUp, MpuInv
<1> QED BY <1>6, <1>7

\* Which entries a switch writes, and with what.
LEMMA WrittenIs ==
  ASSUME NEW s \in AnySetup, Laid(s), g_num_used_mpu_entries = NumUsed(s),
         NEW map, NEW pairs, NEW i \in Places
  PROVE  /\ (\A p \in Used(s) : i # pairs[p].at /\ i # pairs[p].at + 1)
              => Written(map, pairs)[i] = map[i]
         /\ \A p \in Used(s) :
              /\ i = pairs[p].at \/ i = pairs[p].at + 1
              /\ \A q \in Used(s) : q # p => i # pairs[q].at /\ i # pairs[q].at + 1
              => Written(map, pairs)[i] =
                   IF i = pairs[p].at THEN pairs[p].first ELSE pairs[p].last
<1> DEFINE writers == {p \in Used(s) : i = pairs[p].at \/ i = pairs[p].at + 1}
           pair == pairs[Min(writers)]
<1>1. writers = {p \in 0 .. g_num_used_mpu_entries - 1 : i \in WritesTo(pairs[p])}
  BY DEF WritesTo, Used
<1> HIDE DEF writers
<1>2. Written(map, pairs)[i] =
        IF writers = {} THEN map[i]
        ELSE IF i = pair.at THEN pair.first ELSE pair.last
  BY <1>1 DEF Written
<1>3. ASSUME \A p \in Used(s) : i # pairs[p].at /\ i # pairs[p].at + 1
      PROVE  writers = {}
  BY <1>3 DEF writers
<1>4. ASSUME NEW p \in Used(s), i = pairs[p].at \/ i = pairs[p].at + 1,
             \A q \in Used(s) : q # p => i # pairs[q].at /\ i # pairs[q].at + 1
      PROVE  writers # {} /\ Min(writers) = p
  <2>1. writers = {p}
    BY <1>4 DEF writers
  <2>2. p \in Nat
    BY Numbers DEF Used
  <2>3. Min({p}) \in {p}
    BY <2>2, MinOf
  <2> QED BY <2>1, <2>3
<1>5. ASSUME \A p \in Used(s) : i # pairs[p].at /\ i # pairs[p].at + 1
      PROVE  Written(map, pairs)[i] = map[i]
  BY <1>2, <1>3, <1>5
<1>6. ASSUME NEW p \in Used(s), i = pairs[p].at \/ i = pairs[p].at + 1,
             \A q \in Used(s) : q # p => i # pairs[q].at /\ i # pairs[q].at + 1
      PROVE  Written(map, pairs)[i] =
               IF i = pairs[p].at THEN pairs[p].first ELSE pairs[p].last
  BY <1>2, <1>4, <1>6
<1> QED BY <1>5, <1>6

\* The cleared pairs of a task without settings go into the first two entries.
LEMMA ClearedWritten ==
  ASSUME NEW s \in AnySetup, Laid(s), g_num_used_mpu_entries = NumUsed(s),
         NEW map, Narrowed(s, map), NEW pairs,
         \A p \in Used(s) : pairs[p] = Cleared
  PROVE  Narrowed(s, Written(map, pairs))
<1> DEFINE new == Written(map, pairs)
<1>1. /\ Cleared.at = 0 /\ Cleared.first = Entry(0, AR_none)
      /\ Cleared.last = Entry(0, AR_none)
      /\ Entry(0, AR_none).as = 0 /\ Entry(0, AR_none).ar # AR_rw
  BY DEF Cleared, Entry, AR_none, AR_rw
<1>2. ASSUME NEW i \in Places, i \notin {0, 1} PROVE new[i] = map[i]
  <2>1. \A p \in Used(s) : i # pairs[p].at /\ i # pairs[p].at + 1
    BY <1>1, <1>2
  <2> QED BY <2>1, WrittenIs
<1>3. ASSUME NEW i \in {0, 1} PROVE new[i].as = 0 /\ new[i].ar # AR_rw
  <2> DEFINE writers == {p \in 0 .. g_num_used_mpu_entries - 1 : i \in WritesTo(pairs[p])}
             pair == pairs[Min(writers)]
  <2>0. i \in Places
    BY Geometry
  <2>1. new[i] = IF writers = {} THEN map[i]
                 ELSE IF i = pair.at THEN pair.first ELSE pair.last
    BY <2>0 DEF Written
  <2>2. writers \subseteq Used(s) /\ writers \subseteq Nat
    BY Numbers DEF Used
  <2> HIDE DEF writers
  <2>3. CASE writers = {}
    BY <2>1, <2>3 DEF Narrowed
  <2>4. CASE writers # {}
    <3>1. Min(writers) \in Used(s)
      BY <2>2, <2>4, MinOf
    <3>2. pair = Cleared
      BY <3>1
    <3>3. new[i] = Entry(0, AR_none)
      BY <1>1, <2>1, <2>4, <3>2
    <3> QED BY <1>1, <3>3
  <2> QED BY <2>3, <2>4
<1> HIDE DEF new
<1>4. \A i \in Places : new[i].as \in Nat
  <2> TAKE i \in Places
  <2>1. i \in {0, 1} => new[i].as = 0
    BY <1>3
  <2> QED BY <1>2, <2>1 DEF Narrowed
<1>5. ASSUME NEW p \in Used(s)
      PROVE  /\ new[PlaceOf(s, p)] = map[PlaceOf(s, p)]
             /\ new[PlaceOf(s, p) + 1] = map[PlaceOf(s, p) + 1]
  <2>1. /\ PlaceOf(s, p) \in Places /\ PlaceOf(s, p) + 1 \in Places
        /\ PlaceOf(s, p) \notin {0, 1} /\ PlaceOf(s, p) + 1 \notin {0, 1}
    BY Geometry
  <2> QED BY <1>2, <2>1
<1>6. \A i \in Places : i >= 2 /\ Kept(s, i) => new[i] = Table(s)[i]
  <2> TAKE i \in Places
  <2>1. i >= 2 => i \notin {0, 1}
    OBVIOUS
  <2> QED BY <1>2, <2>1 DEF Narrowed
<1>7. Narrowed(s, new)
  BY <1>3, <1>4, <1>5, <1>6 DEF Narrowed
<1> QED BY <1>7 DEF new

\* Those of a task that was granted a request go where its ranges are.
LEMMA PairsWritten ==
  ASSUME NEW s \in AnySetup, Laid(s), g_num_used_mpu_entries = NumUsed(s),
         NEW map, Narrowed(s, map), NEW pairs,
         \A p \in Used(s) : pairs[p].at = PlaceOf(s, p) /\ Fits(pairs[p], Details(s)[p])
  PROVE  /\ Narrowed(s, Written(map, pairs))
         /\ \A p \in Used(s) :
              /\ Written(map, pairs)[PlaceOf(s, p)] = pairs[p].first
              /\ Written(map, pairs)[PlaceOf(s, p) + 1] = pairs[p].last
<1> DEFINE new == Written(map, pairs)
<1>1. ASSUME NEW i \in Places, Kept(s, i) PROVE new[i] = map[i]
  BY <1>1, WrittenIs DEF Kept
<1>2. ASSUME NEW p \in Used(s)
      PROVE  new[PlaceOf(s, p)] = pairs[p].first /\ new[PlaceOf(s, p) + 1] = pairs[p].last
  <2>1. /\ PlaceOf(s, p) \in Places /\ PlaceOf(s, p) + 1 \in Places
        /\ PlaceOf(s, p) \in Int
    BY Geometry
  <2>2. ASSUME NEW q \in Used(s), q # p
        PROVE  /\ PlaceOf(s, p) # pairs[q].at /\ PlaceOf(s, p) # pairs[q].at + 1
               /\ PlaceOf(s, p) + 1 # pairs[q].at
               /\ PlaceOf(s, p) + 1 # pairs[q].at + 1
    <3>1. pairs[q].at = PlaceOf(s, q) /\ PlaceOf(s, q) \in Int
      BY Geometry
    <3>2. /\ PlaceOf(s, p) # PlaceOf(s, q) /\ PlaceOf(s, p) # PlaceOf(s, q) + 1
          /\ PlaceOf(s, q) # PlaceOf(s, p) + 1
      BY <2>2, Geometry
    <3> QED BY <2>1, <3>1, <3>2
  <2>3. pairs[p].at = PlaceOf(s, p)
    OBVIOUS
  <2>4. new[PlaceOf(s, p)] = pairs[p].first
    BY <2>1, <2>2, <2>3, WrittenIs
  <2>5. PlaceOf(s, p) + 1 # pairs[p].at
    BY <2>1, <2>3
  <2>6. new[PlaceOf(s, p) + 1] = pairs[p].last
    BY <2>1, <2>2, <2>3, <2>5, WrittenIs
  <2> QED BY <2>4, <2>6
<1> HIDE DEF new
<1>3. ASSUME NEW p \in Used(s)
      PROVE  /\ Details(s)[p].start <= new[PlaceOf(s, p)].as
             /\ new[PlaceOf(s, p)].as <= new[PlaceOf(s, p) + 1].as
             /\ new[PlaceOf(s, p) + 1].as <= Details(s)[p].end
             /\ new[PlaceOf(s, p) + 1].ar = AR_rx
             /\ new[PlaceOf(s, p)].as \in Nat /\ new[PlaceOf(s, p) + 1].as \in Nat
  BY <1>2 DEF Fits
<1>4. \A i \in {0, 1} : i \in Places /\ Kept(s, i)
  BY Geometry DEF Kept
<1>5. \A i \in {0, 1} : new[i].as = 0 /\ new[i].ar # AR_rw
  BY <1>1, <1>4 DEF Narrowed
<1>6. \A i \in Places : new[i].as \in Nat
  <2> TAKE i \in Places
  <2>1. CASE Kept(s, i)
    BY <1>1, <2>1 DEF Narrowed
  <2>2. CASE ~Kept(s, i)
    BY <1>3, <2>2 DEF Kept
  <2> QED BY <2>1, <2>2
<1>7. \A i \in Places : i >= 2 /\ Kept(s, i) => new[i] = Table(s)[i]
  BY <1>1 DEF Narrowed
<1>8. Narrowed(s, new)
  BY <1>3, <1>5, <1>6, <1>7 DEF Narrowed
<1> QED BY <1>2, <1>8 DEF new

LEMMA RestoreInv ==
  ASSUME Layout, MpuInv, NEW t \in UserTasks, _xt_mpu_restore(t)
  PROVE  MpuInv'
<1>1. /\ mpu_init_done /\ given' = granted[t] /\ mpu' = Written(mpu, mpumap[t])
      /\ UNCHANGED <<mpu_init_done, g_num_used_mpu_entries, g_privateDetails,
                     mpumap, granted>>
  BY DEF _xt_mpu_restore, configured
<1>2. PICK s \in AnySetup : SetUp(s)
  BY <1>1 DEF MpuInv
<1>3. Laid(s) /\ Narrowed(s, mpu) /\ TaskHas(s, t) /\ g_num_used_mpu_entries = NumUsed(s)
  BY <1>2, LayoutLaid DEF SetUp
<1>4. Narrowed(s, mpu') /\ TableHas(s)'
  <2>1. CASE granted[t] = Nothing
    <3>1. \A p \in Used(s) : mpumap[t][p] = Cleared
      BY <1>3, <2>1 DEF TaskHas
    <3>2. Narrowed(s, mpu')
      BY <1>1, <1>3, <3>1, ClearedWritten
    <3> QED BY <1>1, <2>1, <3>2 DEF TableHas
  <2>2. CASE granted[t] # Nothing
    <3> DEFINE g == granted[t]
    <3>1. Accepted(s, g) /\ \A p \in Used(s) : mpumap[t][p] = PairFor(g, Details(s), p)
      BY <1>3, <2>2 DEF TaskHas
    <3>2. Asked(g)
      BY <3>1, LayoutLaid DEF Accepted
    <3> HIDE DEF g
    <3>3. \A p \in Used(s) : /\ mpumap[t][p].at = PlaceOf(s, p)
                             /\ Fits(mpumap[t][p], Details(s)[p])
      <4> TAKE p \in Used(s)
      <4>1. /\ PairFor(g, Details(s), p).at = PlaceOf(s, p)
            /\ Fits(PairFor(g, Details(s), p), Details(s)[p])
        BY <1>3, <3>1, <3>2, 0 \in Nat, PairOf
      <4> QED BY <3>1, <4>1
    <3>4. /\ Narrowed(s, mpu')
          /\ \A p \in Used(s) : /\ mpu'[PlaceOf(s, p)] = mpumap[t][p].first
                                /\ mpu'[PlaceOf(s, p) + 1] = mpumap[t][p].last
      BY <1>1, <1>3, <3>3, PairsWritten
    <3>5. given' = g
      BY <1>1 DEF g
    <3> QED BY <3>1, <3>4, <3>5 DEF TableHas
  <2> QED BY <2>1, <2>2
<1>5. \A u \in UserTasks : TaskHas(s, u)'
  BY <1>1, <1>2 DEF SetUp, TaskHas
<1>6. SetUp(s)'
  BY <1>1, <1>2, <1>4, <1>5 DEF SetUp
<1> QED BY <1>1, <1>6 DEF MpuInv

LEMMA DeleteInv ==
  ASSUME Layout, MpuInv, NEW t \in UserTasks, DeleteTask(t)
  PROVE  MpuInv'
<1>1. /\ mpumap' = [mpumap EXCEPT ![t] = [p \in Pairs |-> Cleared]]
      /\ granted' = [granted EXCEPT ![t] = Nothing]
      /\ UNCHANGED <<mpu_init_done, g_num_used_mpu_entries, g_privateDetails,
                     mpu, running, given>>
  BY DEF DeleteTask, configured
<1>2. DOMAIN mpumap = UserTasks /\ DOMAIN granted = UserTasks
  BY DEF MpuInv
<1>3. DOMAIN mpumap' = UserTasks /\ DOMAIN granted' = UserTasks
  BY <1>1, <1>2
<1>4. CASE ~mpu_init_done
  <2>1. NotSetUp
    BY <1>4 DEF MpuInv
  <2>2. /\ mpumap' = [u \in UserTasks |-> [p \in Pairs |-> Cleared]]
        /\ granted' = [u \in UserTasks |-> Nothing]
    BY <1>1, <2>1 DEF NotSetUp
  <2>3. NotSetUp'
    BY <1>1, <2>1, <2>2 DEF NotSetUp
  <2> QED BY <1>1, <1>3, <1>4, <2>3 DEF MpuInv
<1>5. CASE mpu_init_done
  <2>1. PICK s \in AnySetup : SetUp(s)
    BY <1>5 DEF MpuInv
  <2>2. ASSUME NEW u \in UserTasks PROVE TaskHas(s, u)'
    <3>1. CASE u = t
      <4>1. mpumap'[t] = [p \in Pairs |-> Cleared] /\ granted'[t] = Nothing
        BY <1>1, <1>2
      <4>2. \A p \in Used(s) : p \in Pairs
        BY Numbers
      <4> QED BY <3>1, <4>1, <4>2 DEF TaskHas
    <3>2. CASE u # t
      <4>1. mpumap'[u] = mpumap[u] /\ granted'[u] = granted[u]
        BY <1>1, <1>2, <3>2
      <4>2. TaskHas(s, u)
        BY <2>1 DEF SetUp
      <4> QED BY <4>1, <4>2 DEF TaskHas
    <3> QED BY <3>1, <3>2
  <2>3. SetUp(s)'
    BY <1>1, <2>1, <2>2 DEF SetUp, TableHas
  <2> QED BY <1>1, <1>3, <1>5, <2>3 DEF MpuInv
<1> QED BY <1>4, <1>5

LEMMA MpuStutterInv == MpuInv /\ UNCHANGED mpuVars => MpuInv'
BY DEF MpuInv, mpuVars, configured, NotSetUp, SetUp, TableHas, TaskHas

\* Whatever is configured, created, refused, deleted and switched in.
THEOREM MpuInductive ==
  ASSUME Layout PROVE MpuSpec => []MpuInv
<1>1. MpuInv /\ [MpuNext]_mpuVars => MpuInv'
  <2> SUFFICES ASSUME MpuInv, [MpuNext]_mpuVars PROVE MpuInv'
    OBVIOUS
  <2>1. ASSUME NEW setup \in Setups, Configure(setup) PROVE MpuInv'
    BY <2>1, ConfigureInv
  <2>2. ASSUME NEW t \in UserTasks, NEW g \in Requests, vPortStoreTaskMPUSettings(t, g)
        PROVE  MpuInv'
    BY <2>2, StoreInv
  <2>3. ASSUME NEW t \in UserTasks, _xt_mpu_restore(t) PROVE MpuInv'
    BY <2>3, RestoreInv
  <2>4. ASSUME NEW t \in UserTasks, DeleteTask(t) PROVE MpuInv'
    BY <2>4, DeleteInv
  <2>5. CASE UNCHANGED mpuVars
    BY <2>5, MpuStutterInv
  <2> QED BY <2>1, <2>2, <2>3, <2>4, <2>5 DEF MpuNext
<1> QED BY <1>1, MpuInitInv, PTL DEF MpuSpec

-----------------------------------------------------------------------------
(* Memory: what the invariant implies                                      *)

LEMMA InvInOrder == ASSUME Layout, MpuInv PROVE TableInOrder
<1>1. CASE mpu_init_done
  <2>1. PICK s \in AnySetup : SetUp(s)
    BY <1>1 DEF MpuInv
  <2> QED BY <2>1, LayoutLaid, NarrowedInOrder DEF SetUp, TableInOrder
<1>2. CASE ~mpu_init_done
  <2>1. \A i \in Places : mpu[i].as = 0
    BY <1>2 DEF MpuInv, NotSetUp, Entry
  <2> QED BY <2>1 DEF TableInOrder, InOrder
<1> QED BY <1>1, <1>2

\* The built table gives the right to write in the fixed regions with that right.
LEMMA FixedIs ==
  ASSUME NEW s \in AnySetup, Laid(s), NEW a \in Addresses
  PROVE  /\ \A i \in DOMAIN Fixed : Covers(Fixed[i], a) =>
              /\ RightsIn(Table(s), a) = Fixed[i].ar
              /\ Table(s)[2].as <= a
              /\ \A p \in Used(s) : ~Covers(Details(s)[p], a)
         /\ a \in 0 .. MaxAddress - 1 /\ RightsIn(Table(s), a) = AR_rw =>
              \E i \in DOMAIN Fixed : Fixed[i].ar = AR_rw /\ Covers(Fixed[i], a)
BY DEF Laid, FixedLaid

LEMMA InvFixedKept == ASSUME Layout, MpuInv PROVE FixedKept
<1> SUFFICES ASSUME mpu_init_done, NEW i \in DOMAIN Fixed, NEW a \in Addresses,
                    Covers(Fixed[i], a)
             PROVE  RightsAt(a) = Fixed[i].ar
  BY DEF FixedKept
<1>1. PICK s \in AnySetup : SetUp(s)
  BY DEF MpuInv
<1>2. Laid(s) /\ Narrowed(s, mpu)
  BY <1>1, LayoutLaid DEF SetUp
<1>3. a \in Nat
  BY MpuAssumption DEF Addresses
<1>4. /\ RightsIn(Table(s), a) = Fixed[i].ar /\ Table(s)[2].as <= a
      /\ \A p \in Used(s) : ~Covers(Details(s)[p], a)
  BY <1>2, FixedIs
<1> QED BY <1>2, <1>3, <1>4, RightsOutside DEF RightsAt

LEMMA InvOwnMemory == ASSUME Layout, MpuInv PROVE OwnMemoryOnly
<1> SUFFICES ASSUME running # NoTask, given # Nothing, NEW a \in 0..MaxAddress-1
             PROVE  RightsAt(a) = AR_rw <=>
                      \/ GivenToWrite(given, a)
                      \/ \E i \in DOMAIN Fixed : Fixed[i].ar = AR_rw /\ Covers(Fixed[i], a)
  BY DEF OwnMemoryOnly
<1>1. mpu_init_done
  BY DEF MpuInv, NotSetUp
<1>2. PICK s \in AnySetup : SetUp(s)
  BY <1>1 DEF MpuInv
<1>3. Laid(s) /\ Narrowed(s, mpu) /\ g_num_used_mpu_entries = NumUsed(s)
  BY <1>2, LayoutLaid DEF SetUp
<1>4. a \in Nat /\ a \in Addresses
  BY MpuAssumption DEF Addresses
<1>5. /\ Accepted(s, given) /\ Asked(given)
      /\ \A p \in Used(s) :
           /\ mpu[PlaceOf(s, p)] = PairFor(given, Details(s), p).first
           /\ mpu[PlaceOf(s, p) + 1] = PairFor(given, Details(s), p).last
  BY <1>2, LayoutLaid DEF SetUp, TableHas, Accepted
<1>6. GivenToWrite(given, a) <=> \E p \in Used(s) : PairGives(given, p, a)
  BY <1>3, <1>4, <1>5, GivenByPairs
<1>7. ASSUME NEW p \in Used(s)
      PROVE  /\ Fits(PairFor(given, Details(s), p), Details(s)[p])
             /\ GivesTo(PairFor(given, Details(s), p), a) <=> PairGives(given, p, a)
  BY <1>3, <1>4, <1>5, PairOf
<1>8. ASSUME NEW p \in Used(s), PairGives(given, p, a)
      PROVE  Covers(Details(s)[p], a)
  <2>1. Details(s)[p].start \in Nat /\ Details(s)[p].end \in Nat
    BY <1>3, Geometry
  <2> QED BY <1>4, <1>7, <1>8, <2>1 DEF Fits, GivesTo, Covers
<1>9. CASE \A p \in Used(s) : ~Covers(Details(s)[p], a)
  <2>1. RightsAt(a) = AR_rw <=> RightsIn(Table(s), a) = AR_rw
    BY <1>3, <1>4, <1>9, RightsOutside DEF RightsAt
  <2>2. RightsIn(Table(s), a) = AR_rw <=>
          \E i \in DOMAIN Fixed : Fixed[i].ar = AR_rw /\ Covers(Fixed[i], a)
    BY <1>3, <1>4, FixedIs
  <2>3. ~GivenToWrite(given, a)
    BY <1>6, <1>8, <1>9
  <2> QED BY <2>1, <2>2, <2>3
<1>10. ASSUME NEW p \in Used(s), Covers(Details(s)[p], a)
       PROVE  RightsAt(a) = AR_rw <=>
                \/ GivenToWrite(given, a)
                \/ \E i \in DOMAIN Fixed : Fixed[i].ar = AR_rw /\ Covers(Fixed[i], a)
  <2>1. RightsAt(a) = AR_rw <=> GivesTo(PairFor(given, Details(s), p), a)
    BY <1>3, <1>4, <1>5, <1>10, RightsInside DEF RightsAt, GivesTo
  <2>2. RightsAt(a) = AR_rw <=> PairGives(given, p, a)
    BY <1>7, <2>1
  <2>3. ASSUME NEW q \in Used(s), PairGives(given, q, a) PROVE q = p
    BY <1>3, <1>4, <1>8, <1>10, <2>3, RangesApart
  <2>4. GivenToWrite(given, a) <=> PairGives(given, p, a)
    BY <1>6, <2>3
  <2>5. ~\E i \in DOMAIN Fixed : Fixed[i].ar = AR_rw /\ Covers(Fixed[i], a)
    BY <1>3, <1>4, <1>10, FixedIs
  <2> QED BY <2>2, <2>4, <2>5
<1> QED BY <1>9, <1>10

\* The table stays in the order of its addresses: _xt_mpu_restore writes entries
\* of one pair after another, but each stays within the range that setupMPU laid
\* out for it, between the entries around.
THEOREM MpuTableInOrder ==
  ASSUME Layout PROVE MpuSpec => []TableInOrder
BY MpuInductive, InvInOrder, PTL

\* No request, granted or refused, changes the rights in the fixed regions.
THEOREM MpuFixedKept ==
  ASSUME Layout PROVE MpuSpec => []FixedKept
BY MpuInductive, InvFixedKept, PTL

\* A task that was not refused can write its own memory and what is shared, and
\* nothing else, whichever tasks ran before it.
THEOREM MpuOwnMemoryOnly ==
  ASSUME Layout PROVE MpuSpec => []OwnMemoryOnly
BY MpuInductive, InvOwnMemory, PTL
=============================================================================
