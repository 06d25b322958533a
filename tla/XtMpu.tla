------------------------------- MODULE XtMpu --------------------------------
(***************************************************************************)
(* Memory protection in the Xtensa port (Cadence/Xtensa/portmpu.c, mpu.S). *)
(* The MPU is a table of entries in the order of their addresses; each     *)
(* gives the access rights from its address to that of the next one.  The  *)
(* table is built once, with the fixed regions and, between them, a pair   *)
(* of entries for each range in which tasks may have memory of their own.  *)
(* A task keeps its versions of these pairs, checked when it is created,   *)
(* and writes them into the table when it is switched in.                  *)
(*                                                                         *)
(* Access rights are modelled by what they let unprivileged code do.       *)
(***************************************************************************)
EXTENDS Naturals, FiniteSetsExt, SequencesExt

CONSTANTS UserTasks,  \* unprivileged tasks
          NoTask,     \* no task has been switched in yet
          XCHAL_MPU_ENTRIES, XCHAL_MPU_ALIGN,
          MaxAddress, \* addresses are below it
          Fixed,      \* sequence of the fixed regions
          Legacy,     \* the region of legacy stacks, or Empty
          portNUM_CONFIGURABLE_REGIONS,
          Setups,     \* what the application may configure: stack and regions
          Requests    \* what a task may ask for: stack and regions

Empty == [start |-> 0, end |-> 0]

\* XTHAL_AR values: nothing, to execute or read, to read and write.
AR_none == "none"
AR_rx == "rx"
AR_rw == "rw"

Rights == {AR_none, AR_rx, AR_rw}
Addresses == 0..MaxAddress
Ranges == [start : Addresses, end : Addresses]
Regions == [1..portNUM_CONFIGURABLE_REGIONS -> [range : Ranges, ar : Rights]]

ASSUME MpuAssumption ==
  /\ NoTask \notin UserTasks
  /\ XCHAL_MPU_ENTRIES \in Nat \ 0..2 /\ XCHAL_MPU_ALIGN \in Nat \ {0}
  /\ MaxAddress \in Nat /\ portNUM_CONFIGURABLE_REGIONS \in Nat \ {0}
  /\ \A i \in DOMAIN Fixed : /\ Fixed[i].start \in Addresses
                             /\ Fixed[i].end \in Addresses
                             /\ Fixed[i].ar \in Rights
  /\ Legacy \in Ranges
  /\ Setups \subseteq [stack : Ranges, regions : Regions]
  /\ Requests \subseteq [stack : Ranges, regions : Regions \cup {<<>>}]
  /\ \A r \in Requests : r.regions = <<>> => r.stack # Empty

VARIABLES
  mpu_init_done, xtMPUError,
  g_num_used_mpu_entries,  \* pairs of entries that are switched
  g_privateDetails,        \* of each pair: its range and its place in the table
  mpu,                     \* the table
  mpumap,                  \* of each task: its version of each pair
  granted,                 \* of each task: the request its pairs are from
  running,                 \* the task switched in last
  given                    \* what it had been granted then

configured == <<mpu_init_done, xtMPUError, g_num_used_mpu_entries,
                g_privateDetails>>
mpuVars == <<configured, mpu, mpumap, granted, running, given>>

\* portLEGACY_UNPRIVILEGED_TASKS and the places of the pairs.
portLEGACY == IF Legacy = Empty THEN 0 ELSE 1
PRIVATE_STACK_IDX == portLEGACY
PRIVATE_CONFIGURABLE_IDX == 1 + PRIVATE_STACK_IDX
Pairs == 0 .. portNUM_CONFIGURABLE_REGIONS + portLEGACY

Places == 0 .. XCHAL_MPU_ENTRIES - 1
Entry(as, ar) == [as |-> as, ar |-> ar]
Cleared == [first |-> Entry(0, AR_none), last |-> Entry(0, AR_none), at |-> 0]

\* No request was granted.
Nothing == [stack |-> Empty, regions |-> <<>>]

\* Before the port touches it the table gives all rights, as XTOS leaves it.
MpuInit ==
  /\ mpu_init_done = FALSE
  /\ xtMPUError = "none"
  /\ g_num_used_mpu_entries = 0
  /\ g_privateDetails = [p \in Pairs |-> [start |-> 0, end |-> 0, index |-> 0]]
  /\ mpu = [i \in Places |-> Entry(0, AR_rw)]
  /\ mpumap = [t \in UserTasks |-> [p \in Pairs |-> Cleared]]
  /\ granted = [t \in UserTasks |-> Nothing]
  /\ running = NoTask
  /\ given = Nothing

-----------------------------------------------------------------------------
(* Checks                                                                  *)

region_mpu_aligned(r) ==
  r.start % XCHAL_MPU_ALIGN = 0 /\ r.end % XCHAL_MPU_ALIGN = 0

region_within_region(r, s) == r.start >= s.start /\ r.end <= s.end

region_overlaps_region(r, s) == r.start < s.end /\ r.end > s.start

FixedRanges == {[start |-> Fixed[i].start, end |-> Fixed[i].end] :
                  i \in DOMAIN Fixed}
AllFixed == FixedRanges \cup (IF Legacy = Empty THEN {} ELSE {Legacy})

\* Unused regions are left out.
private_overlap_other_regions(request) ==
  \E range \in {request.stack} \cup {r.range : r \in ToSet(request.regions)} :
    range # Empty /\ \E f \in AllFixed : region_overlaps_region(range, f)

mpu_fixed_regions_aligned == \A f \in AllFixed : region_mpu_aligned(f)

-----------------------------------------------------------------------------
(* The table                                                               *)

\* A start goes above an entry at the same address, an end below it.
Below(map, addr, start) ==
  {i \in Places : IF start THEN addr >= map[i].as ELSE addr > map[i].as}

\* The entries up to the place found move down by one.
add_mpu_entry_to_TCB(map, addr, ar, start) ==
  LET a == addr - (addr % XCHAL_MPU_ALIGN)
      found == Below(map, a, start)
      index == Max(found)
  IN  IF found = {} THEN map
      ELSE [i \in Places |-> IF i < index THEN map[i + 1]
                             ELSE IF i = index THEN Entry(a, ar) ELSE map[i]]

AddRegion(map, r) ==
  add_mpu_entry_to_TCB(add_mpu_entry_to_TCB(map, r.start, r.ar, TRUE),
                       r.end, AR_rx, FALSE)

find_addr_in_map(map, addr) == Max({i \in Places : addr >= map[i].as})

\* The first n ranges with their places in the table.
Located(private, n, map) ==
  [p \in Pairs |->
     IF p >= n \/ private[p].start = 0 THEN private[p]
     ELSE [private[p] EXCEPT !.index = find_addr_in_map(map, private[p].start)]]

\* xthal_check_map.
InOrder(map) == \A i, j \in Places : i < j => map[i].as <= map[j].as

\* The fixed regions, then the first n private ranges.
BuildMap(private, n) ==
  FoldLeft(AddRegion, [i \in Places |-> Entry(0, AR_rx)],
           Fixed \o [p \in 1..n |-> [start |-> private[p - 1].start,
                                     end |-> private[p - 1].end, ar |-> AR_rx]])

\* What the configuration is made of; error is xtMPUError.
Config == [error |-> xtMPUError, n |-> g_num_used_mpu_entries,
           private |-> g_privateDetails, map |-> mpu]

\* The table is written, and the place of each private range looked up.
setupMPU(private, n) ==
  LET map == BuildMap(private, n)
  IN  IF InOrder(map)
        THEN [error |-> xtMPUError, n |-> n, map |-> map,
              private |-> Located(private, n, map)]
        ELSE [error |-> "setup", n |-> n, map |-> mpu, private |-> private]

\* The ranges of a setup; the first unused region ends them.
UsedRegions(setup) ==
  LET unused == {i \in DOMAIN setup.regions : setup.regions[i].range = Empty}
  IN  IF unused = {} THEN portNUM_CONFIGURABLE_REGIONS ELSE Min(unused) - 1

PrivateRanges(setup) ==
  [p \in Pairs |->
     LET r == IF p < portLEGACY THEN Legacy
              ELSE IF setup.stack = Empty THEN Empty
              ELSE IF p = PRIVATE_STACK_IDX THEN setup.stack
              ELSE IF p - PRIVATE_STACK_IDX <= UsedRegions(setup)
                THEN setup.regions[p - PRIVATE_STACK_IDX].range ELSE Empty
     IN  [start |-> r.start, end |-> r.end, index |-> 0]]

NumUsed(setup) ==
  IF setup.stack = Empty THEN portLEGACY
  ELSE UsedRegions(setup) + PRIVATE_CONFIGURABLE_IDX

init_private_mpu_regions(setup) ==
  IF mpu_fixed_regions_aligned
    THEN setupMPU(PrivateRanges(setup), NumUsed(setup))
    ELSE [Config EXCEPT !.error = "fixed_not_aligned"]

\* Only the first call does anything, and mpu_init_done is set though it fails.
Initialised(setup) ==
  IF mpu_init_done THEN Config ELSE init_private_mpu_regions(setup)

-----------------------------------------------------------------------------
(* The pairs of a task                                                     *)

Checked(request, n) ==
  1 .. (IF n > PRIVATE_CONFIGURABLE_IDX THEN n - PRIVATE_CONFIGURABLE_IDX ELSE 0)

\* Mutant: a stack anywhere is accepted.
AnyStack(request, private, n) == "none"

\* The first check that fails, in the code's order.
Refusal(request, private, n) ==
  CASE private_overlap_other_regions(request) -> "overlap"
    [] ~region_mpu_aligned(request.stack) -> "not_aligned"
    [] \E i \in Checked(request, n) :
         ~region_mpu_aligned(request.regions[i].range) -> "not_aligned"
    [] ~region_within_region(request.stack, private[PRIVATE_STACK_IDX])
         -> "stack_not_in_range"
    [] \E i \in Checked(request, n) :
         ~region_within_region(request.regions[i].range,
                               private[i + PRIVATE_STACK_IDX])
         -> "region_not_in_range"
    [] OTHER -> "none"

Pair(range, ar, index) ==
  [first |-> Entry(range.start, ar), last |-> Entry(range.end, AR_rx),
   at |-> index]

AlignOut(r) ==
  [start |-> r.start - (r.start % XCHAL_MPU_ALIGN),
   end |-> ((r.end + XCHAL_MPU_ALIGN - 1) \div XCHAL_MPU_ALIGN) * XCHAL_MPU_ALIGN]

\* A restricted task has its stack and regions, ...
RestrictedPair(request, private, p) ==
  LET r == request.regions[p - PRIVATE_STACK_IDX]
      index == private[p].index
  IN  IF p < portLEGACY THEN Pair(Legacy, AR_rx, index)
      ELSE IF p = PRIVATE_STACK_IDX THEN Pair(request.stack, AR_rw, index)
      ELSE IF r.range = Empty THEN Pair(private[p], AR_rx, index)
      ELSE Pair(r.range, r.ar, index)

\* ... one created without regions has its stack, among the legacy stacks.
LegacyPair(request, private, p) ==
  IF p < portLEGACY
    THEN Pair(AlignOut(request.stack), AR_rw, private[p].index)
    ELSE Pair(private[p], AR_rx, private[p].index)

PairFor(request, private, p) ==
  IF request.regions = <<>> THEN LegacyPair(request, private, p)
  ELSE RestrictedPair(request, private, p)

\* The pairs in use are written; the first ones always are.
TaskPair(old, request, private, n, p) ==
  IF \/ p < n \/ p < portLEGACY
     \/ p = PRIVATE_STACK_IDX /\ request.regions # <<>>
    THEN PairFor(request, private, p)
    ELSE old[p]

init_task_mpu(old, request, c) ==
  [p \in Pairs |-> TaskPair(old, request, c.private, c.n, p)]

NoSetup == [stack |-> Empty,
            regions |-> [i \in 1..portNUM_CONFIGURABLE_REGIONS |->
                           [range |-> Empty, ar |-> AR_none]]]

-----------------------------------------------------------------------------
Becomes(c, error) ==
  /\ mpu_init_done' = TRUE
  /\ xtMPUError' = error
  /\ g_num_used_mpu_entries' = c.n
  /\ g_privateDetails' = c.private

\* vPortStoreTaskMPUSettings without settings: the application configures the
\* private ranges.
Configure(setup) ==
  LET c == Initialised(setup)
  IN  /\ running = NoTask
      /\ Becomes(c, c.error)
      /\ mpu' = c.map
      /\ UNCHANGED <<mpumap, granted, running, given>>

\* vPortStoreTaskMPUSettings of a task that the kernel creates, or, with no stack,
\* gives other regions.  Before the application's call it sets up no private ranges.
vPortStoreTaskMPUSettings(t, request) ==
  LET c == Initialised(NoSetup)
      refusal == IF request.regions = <<>> THEN "none"
                 ELSE Refusal(request, c.private, c.n)
  IN  /\ request.stack # Empty => granted[t] = Nothing /\ t # running
      /\ Becomes(c, IF refusal = "none" THEN c.error ELSE refusal)
      /\ mpu' = c.map
      /\ IF refusal = "none"
           THEN /\ mpumap' = [mpumap EXCEPT ![t] = init_task_mpu(@, request, c)]
                /\ granted' = [granted EXCEPT ![t] = request]
           ELSE UNCHANGED <<mpumap, granted>>
      /\ UNCHANGED <<running, given>>

\* Mutants: the end of a range stays that of the task that ran before; places
\* are counted from one.
StartOnly(pair) == {pair.at}
OneFurther(pair) == {pair.at + 1, pair.at + 2}

WritesTo(pair) == {pair.at, pair.at + 1}

\* The pairs in use are written, the last one first and of each the end before
\* the start: where several go to one place, the first pair's stays.
Written(map, pairs) ==
  [i \in Places |->
     LET writers == {p \in 0 .. g_num_used_mpu_entries - 1 : i \in WritesTo(pairs[p])}
         pair == pairs[Min(writers)]
     IN  IF writers = {} THEN map[i]
         ELSE IF i = pair.at THEN pair.first ELSE pair.last]

\* _xt_mpu_restore, when t is switched in.
_xt_mpu_restore(t) ==
  /\ mpu_init_done
  /\ running' = t
  /\ given' = granted[t]
  /\ mpu' = Written(mpu, mpumap[t])
  /\ UNCHANGED <<configured, mpumap, granted>>

\* prvDeleteTCB; a new task's settings are clear.
DeleteTask(t) ==
  /\ t # running
  /\ mpumap' = [mpumap EXCEPT ![t] = [p \in Pairs |-> Cleared]]
  /\ granted' = [granted EXCEPT ![t] = Nothing]
  /\ UNCHANGED <<configured, mpu, running, given>>

MpuNext ==
  \/ \E setup \in Setups : Configure(setup)
  \/ \E t \in UserTasks :
       \/ \E request \in Requests : vPortStoreTaskMPUSettings(t, request)
       \/ _xt_mpu_restore(t)
       \/ DeleteTask(t)

MpuSpec == MpuInit /\ [][MpuNext]_mpuVars

-----------------------------------------------------------------------------
\* The rights that unprivileged code has at an address.
RightsIn(map, a) == map[find_addr_in_map(map, a)].ar
RightsAt(a) == RightsIn(mpu, a)
Covers(r, a) == r.start <= a /\ a < r.end

\* The MPU has no entry in between aligned addresses.
IsEntry(e) ==
  e.as \in Addresses /\ e.as % XCHAL_MPU_ALIGN = 0 /\ e.ar \in Rights

\* Types; what is to go into the table, for every task, is aligned.
MpuTypeOK ==
  /\ mpu_init_done \in BOOLEAN /\ xtMPUError \in STRING
  /\ g_num_used_mpu_entries \in 0..Cardinality(Pairs)
  /\ \A p \in Pairs : /\ g_privateDetails[p].start \in Addresses
                      /\ g_privateDetails[p].end \in Addresses
                      /\ g_privateDetails[p].index \in Places
  /\ \A i \in Places : IsEntry(mpu[i])
  /\ \A t \in UserTasks, p \in Pairs :
       /\ IsEntry(mpumap[t][p].first) /\ IsEntry(mpumap[t][p].last)
       /\ mpumap[t][p].at + 1 \in Places
  /\ running \in UserTasks \cup {NoTask}

\* The table stays in the order of its addresses, as the MPU requires, whichever
\* task's pairs are written over whichever other's.
TableInOrder == InOrder(mpu)

\* Fixed regions, the kernel's among them, have the rights they were given,
\* whatever tasks ask for and whether they are refused.
FixedKept ==
  mpu_init_done =>
    \A i \in DOMAIN Fixed, a \in Addresses :
      Covers(Fixed[i], a) => RightsAt(a) = Fixed[i].ar

\* What a request gives the right to write.
GivenToWrite(request, a) ==
  IF request.regions = <<>>
    THEN Legacy # Empty /\ Covers(AlignOut(request.stack), a)
    ELSE \/ Covers(request.stack, a)
         \/ \E i \in Checked(request, g_num_used_mpu_entries) :
              request.regions[i].ar = AR_rw /\ Covers(request.regions[i].range, a)

\* A task that runs, unless the port refused its settings, can write what it was
\* given when it was switched in and what all tasks share, and nothing else: no
\* memory of the tasks that ran before, nor of the kernel.
OwnMemoryOnly ==
  running # NoTask /\ given # Nothing =>
    \A a \in 0..MaxAddress-1 :
      RightsAt(a) = AR_rw <=>
        \/ GivenToWrite(given, a)
        \/ \E i \in DOMAIN Fixed : Fixed[i].ar = AR_rw /\ Covers(Fixed[i], a)

-----------------------------------------------------------------------------
(* What the port takes for granted of the application's configuration: of  *)
(* what the kernel and the application ask for, and of the tables that are  *)
(* built of the setups, before any task's pairs are in them.                *)

\* Memory ends after its start; the kernel's legacy stacks are where it says.
Asked(request) ==
  /\ request.stack.start <= request.stack.end
  /\ \A i \in DOMAIN request.regions :
       request.regions[i].range.start <= request.regions[i].range.end
  /\ request.regions = <<>> /\ Legacy # Empty =>
       LET stack == AlignOut(request.stack)
       IN  region_within_region(stack, Legacy) /\ stack.start <= stack.end

Table(setup) == BuildMap(PrivateRanges(setup), NumUsed(setup))
Details(setup) == Located(PrivateRanges(setup), NumUsed(setup), Table(setup))
Used(setup) == 0 .. NumUsed(setup) - 1
PlaceOf(setup, p) == Details(setup)[p].index

\* The table has two entries to spare, and room for all: each private range has
\* its own two entries, with no rights to write in between nor just below.
PairsLaid(setup) ==
  LET map == Table(setup)
      range == Details(setup)
  IN  /\ \A i \in {0, 1} : map[i].as = 0 /\ map[i].ar # AR_rw
      /\ \A p \in Used(setup) :
           LET at == PlaceOf(setup, p)
           IN  /\ at \in 2 .. XCHAL_MPU_ENTRIES - 2
               /\ range[p].start > 0 /\ map[at].as = range[p].start
               /\ map[at + 1] = Entry(range[p].end, AR_rx)
               /\ map[at - 1].ar # AR_rw
      /\ \A p, q \in Used(setup) :
           p # q => PlaceOf(setup, p) \notin {PlaceOf(setup, q), PlaceOf(setup, q) + 1}

\* Private ranges are not in fixed regions, where the table has the rights that
\* were configured; it gives the right to write nowhere else.
FixedLaid(setup) ==
  LET map == Table(setup)
  IN  /\ \A i \in DOMAIN Fixed, a \in Addresses : Covers(Fixed[i], a) =>
           /\ RightsIn(map, a) = Fixed[i].ar
           /\ map[2].as <= a
           /\ \A p \in Used(setup) : ~Covers(Details(setup)[p], a)
      /\ \A a \in 0 .. MaxAddress - 1 : RightsIn(map, a) = AR_rw =>
           \E i \in DOMAIN Fixed : Fixed[i].ar = AR_rw /\ Covers(Fixed[i], a)

Laid(setup) ==
  /\ Table(setup) \in [Places -> [as : Addresses, ar : Rights]]
  /\ InOrder(Table(setup))
  /\ PairsLaid(setup) /\ FixedLaid(setup)

Layout ==
  /\ mpu_fixed_regions_aligned
  /\ \A setup \in Setups \cup {NoSetup} : Laid(setup)
  /\ \A request \in Requests : Asked(request)
=============================================================================
