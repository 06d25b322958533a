--------------------------- MODULE AurixCsaProofs ---------------------------
(***************************************************************************)
(* The context save areas of the AURIX ports, for any number of areas,     *)
(* tasks, calls and nested critical sections.  The argument gives every    *)
(* area an owner, the list it is in, and a rank, its height above the end  *)
(* of that list; the lists of the model are read off these two functions,  *)
(* and each step of the code changes them in a simple way.                 *)
(***************************************************************************)
EXTENDS AurixCsa, FiniteSetTheorems, NaturalsInduction, WellFoundedInduction, TLAPS

-----------------------------------------------------------------------------
(* Walking down a list                                                     *)

\* A set of numbers that is not empty has a least element.
LEMMA LeastOf ==
  ASSUME NEW s \in SUBSET Nat, s # {}
  PROVE  \E i \in s : \A j \in s : i <= j
<1> DEFINE Less == {p \in Nat \X Nat : p[1] < p[2]}
<1>1. IsWellFoundedOn(Less, Nat)
  BY NatLessThanWellFounded DEF OpToRel
<1>2. PICK i \in s : \A j \in s : ~(<<j, i>> \in Less)
  BY <1>1, WFMin
<1>3. ASSUME NEW j \in s PROVE i <= j
  <2>1. <<j, i>> \in Nat \X Nat /\ <<j, i>>[1] = j /\ <<j, i>>[2] = i
    OBVIOUS
  <2>2. ~(j < i)
    BY <1>2, <2>1
  <2>3. QED
    BY <2>2
<1> QED
  BY <1>3

\* A function that follows the links is the walk that Down makes.
LEMMA DownWalk ==
  ASSUME NEW next, NEW h, NEW f,
         f = [k \in Nat |-> f[k]], f[0] = h,
         \A k \in Nat \ {0} : f[k] = IF f[k - 1] = Null THEN Null
                                     ELSE next[f[k - 1]]
  PROVE  /\ Down(next, h, 0) = h
         /\ \A k \in Nat :
              Down(next, h, k + 1) = IF Down(next, h, k) = Null THEN Null
                                     ELSE next[Down(next, h, k)]
<1> DEFINE g == CHOOSE g : g = [k \in Nat |-> IF k = 0 THEN h
                                  ELSE LET a == g[k - 1]
                                       IN  IF a = Null THEN Null ELSE next[a]]
<1>1. g = [k \in Nat |-> IF k = 0 THEN h
                         ELSE LET a == g[k - 1]
                              IN  IF a = Null THEN Null ELSE next[a]]
  <2> DEFINE rhs == [k \in Nat |-> IF k = 0 THEN h
                         ELSE LET a == f[k - 1]
                              IN  IF a = Null THEN Null ELSE next[a]]
  <2>1. \A k \in Nat : f[k] = rhs[k]
    OBVIOUS
  <2>2. f = rhs
    BY <2>1
  <2> QED
    BY <2>2
<1>2. \A k : Down(next, h, k) = g[k]
  BY DEF Down
<1> HIDE DEF g
<1>3. g[0] = h
  BY <1>1
<1>4. ASSUME NEW k \in Nat
      PROVE  g[k + 1] = IF g[k] = Null THEN Null ELSE next[g[k]]
  BY <1>1
<1> QED
  BY <1>2, <1>3, <1>4

-----------------------------------------------------------------------------
(* Owners and ranks                                                        *)

Lists == {"free", "running"} \cup Tasks

\* own[a] is where area a is; rank[a] is how many areas a list has from a on.
Layout(own, rank, next, head) ==
  /\ own \in [Areas -> Places] /\ rank \in [Areas -> Nat \ {0}]
  /\ next \in [Areas -> Heads] /\ head \in [Lists -> Heads]
  /\ \A p \in Lists : head[p] # Null => own[head[p]] = p
  /\ \A a \in Areas : own[a] \in Lists =>
       head[own[a]] # Null /\ rank[a] <= rank[head[own[a]]]
  /\ \A a \in Areas : own[a] \in Lists /\ rank[a] = 1 => next[a] = Null
  /\ \A a \in Areas : own[a] \in Lists /\ rank[a] > 1 =>
       next[a] \in Areas /\ own[next[a]] = own[a] /\ rank[next[a]] = rank[a] - 1
  /\ \A a, b \in Areas : own[a] = own[b] /\ rank[a] = rank[b] => a = b

Height(rank, head, p) == IF head[p] = Null THEN 0 ELSE rank[head[p]]

LEMMA AreasFacts ==
  /\ Null \notin Areas /\ IsFiniteSet(Areas)
  /\ Cardinality(Areas) \in Nat /\ Areas = 1 .. Cardinality(Areas)
  /\ Lists = Places \ {"new"} /\ "free" \in Lists /\ "running" \in Lists
  /\ Tasks \subseteq Lists /\ "free" \notin Tasks /\ "running" \notin Tasks
  /\ "new" \notin Tasks /\ "new" \notin Lists /\ "new" \in Places
<1>1. IsFiniteSet(Areas) /\ Cardinality(Areas) \in Nat
  BY CsaAssumption, FS_CardinalityType
<1>2. Areas = 1 .. Cardinality(Areas)
  BY CsaAssumption
<1>3. "free" \notin Tasks /\ "running" \notin Tasks /\ "new" \notin Tasks
  BY CsaAssumption
<1> QED
  BY <1>1, <1>2, <1>3 DEF Null, Lists, Places

LEMMA HeightType ==
  ASSUME NEW own, NEW rank, NEW next, NEW head, Layout(own, rank, next, head),
         NEW p \in Lists
  PROVE  /\ Height(rank, head, p) \in Nat
         /\ head[p] # Null => head[p] \in Areas /\ Height(rank, head, p) > 0
         /\ head[p] = Null => Height(rank, head, p) = 0
         /\ \A a \in Areas : own[a] = p => rank[a] <= Height(rank, head, p)
BY AreasFacts DEF Layout, Height, Heads

\* There is an area at every rank of a list, up to its height.
LEMMA EveryRank ==
  ASSUME NEW own, NEW rank, NEW next, NEW head, Layout(own, rank, next, head),
         NEW p \in Lists, NEW i \in 1 .. Height(rank, head, p)
  PROVE  \E a \in Areas : own[a] = p /\ rank[a] = i
<1> DEFINE H == Height(rank, head, p)
           s == {k \in Nat : k < H /\ ~\E a \in Areas : own[a] = p /\ rank[a] = H - k}
<1>1. H \in Nat /\ H > 0 /\ head[p] \in Areas /\ own[head[p]] = p /\ rank[head[p]] = H
  <2>1. H \in Nat
    BY HeightType
  <2>2. head[p] # Null
    BY <2>1, HeightType
  <2> QED
    BY <2>1, <2>2, HeightType DEF Layout, Height
<1> HIDE DEF H
<1>2. ASSUME s # {} PROVE FALSE
  <2>1. PICK k \in s : \A j \in s : k <= j
    BY <1>2, LeastOf
  <2>2. k \in Nat /\ k < H /\ ~\E a \in Areas : own[a] = p /\ rank[a] = H - k
    BY <2>1
  <2>3. k # 0
    BY <1>1, <2>2
  <2>4. k - 1 \in Nat /\ k - 1 < H /\ k - 1 \notin s
    BY <2>1, <2>2, <2>3, <1>1
  <2>5. PICK a \in Areas : own[a] = p /\ rank[a] = H - (k - 1)
    BY <2>4
  <2>6. rank[a] > 1
    BY <2>5, <2>2, <1>1
  <2>7. next[a] \in Areas /\ own[next[a]] = p /\ rank[next[a]] = H - k
    BY <2>5, <2>6, <2>2, <1>1 DEF Layout
  <2> QED
    BY <2>7, <2>2
<1>3. H - i \in Nat /\ H - i < H /\ H - (H - i) = i
  BY <1>1 DEF H
<1>4. H - i \notin s
  BY <1>2
<1> QED
  BY <1>3, <1>4

\* The walk from the head of a list goes through its areas, then stays at Null.
LEMMA DownList ==
  ASSUME NEW own, NEW rank, NEW next, NEW head, Layout(own, rank, next, head),
         NEW p \in Lists, NEW k \in Nat
  PROVE  IF k < Height(rank, head, p)
           THEN /\ Down(next, head[p], k) \in Areas
                /\ own[Down(next, head[p], k)] = p
                /\ rank[Down(next, head[p], k)] = Height(rank, head, p) - k
           ELSE Down(next, head[p], k) = Null
<1> DEFINE H == Height(rank, head, p)
           elem(i) == CHOOSE a \in Areas : own[a] = p /\ rank[a] = i
           f == [j \in Nat |-> IF j < H THEN elem(H - j) ELSE Null]
           d(j) == Down(next, head[p], j)
<1>1. H \in Nat /\ (H > 0 => head[p] \in Areas /\ own[head[p]] = p /\ rank[head[p]] = H)
                /\ (H = 0 => head[p] = Null)
  <2>1. H \in Nat
    BY HeightType
  <2>2. ASSUME head[p] # Null PROVE own[head[p]] = p /\ rank[head[p]] = H
    BY <2>2 DEF Layout, Height
  <2> QED
    BY <2>1, <2>2, HeightType
<1>2. ASSUME NEW i \in 1 .. H
      PROVE  elem(i) \in Areas /\ own[elem(i)] = p /\ rank[elem(i)] = i
  BY EveryRank
<1> HIDE DEF H, elem
<1>3. ASSUME NEW a \in Areas, own[a] = p, NEW i, rank[a] = i, i \in 1 .. H
      PROVE  a = elem(i)
  BY <1>2, <1>3 DEF Layout
<1>4. \A j \in Nat : f[j] = IF j < H THEN elem(H - j) ELSE Null
  OBVIOUS
<1>5. ASSUME NEW j \in Nat, j # 0
      PROVE  f[j] = IF f[j - 1] = Null THEN Null ELSE next[f[j - 1]]
  <2>1. j - 1 \in Nat
    BY <1>5
  <2>2. CASE j < H
    <3>1. f[j] = elem(H - j) /\ f[j - 1] = elem(H - (j - 1))
      BY <1>4, <2>1, <2>2, <1>1
    <3>2. H - j \in 1 .. H /\ H - (j - 1) \in 1 .. H /\ H - (j - 1) > 1
      BY <1>1, <2>2, <1>5
    <3>3. next[elem(H - (j - 1))] \in Areas /\ own[next[elem(H - (j - 1))]] = p
          /\ rank[next[elem(H - (j - 1))]] = H - j
      BY <1>2, <3>2, <1>1, <1>5 DEF Layout
    <3>4. next[elem(H - (j - 1))] = elem(H - j)
      BY <1>3, <3>2, <3>3
    <3>5. f[j - 1] # Null
      BY <3>1, <3>2, <1>2, AreasFacts
    <3> QED
      BY <3>1, <3>4, <3>5
  <2>3. CASE j = H
    <3>1. f[j] = Null /\ f[j - 1] = elem(1)
      BY <1>4, <2>1, <2>3, <1>1
    <3>2. 1 \in 1 .. H
      BY <1>1, <2>3, <1>5
    <3>3. elem(1) # Null /\ next[elem(1)] = Null
      BY <1>2, <3>2, AreasFacts DEF Layout
    <3> QED
      BY <3>1, <3>3
  <2>4. CASE j > H
    <3>1. f[j] = Null /\ f[j - 1] = Null
      BY <1>4, <2>1, <2>4, <1>1
    <3> QED
      BY <3>1
  <2> QED
    BY <2>2, <2>3, <2>4, <1>1
<1>6. f[0] = head[p]
  <2>1. CASE H = 0
    BY <2>1, <1>4, <1>1
  <2>2. CASE H > 0
    <3>1. H \in 1 .. H /\ f[0] = elem(H)
      BY <2>2, <1>4, <1>1
    <3> QED
      BY <3>1, <1>3, <1>1, <2>2
  <2> QED
    BY <2>1, <2>2, <1>1
<1>8. /\ d(0) = head[p]
      /\ \A j \in Nat : d(j + 1) = IF d(j) = Null THEN Null ELSE next[d(j)]
  <2>1. f = [j \in Nat |-> f[j]]
    OBVIOUS
  <2> HIDE DEF f
  <2>2. \A j \in Nat \ {0} : f[j] = IF f[j - 1] = Null THEN Null
                                  ELSE next[f[j - 1]]
    BY <1>5
  <2>3. /\ Down(next, head[p], 0) = head[p]
        /\ \A j \in Nat :
             Down(next, head[p], j + 1) =
               IF Down(next, head[p], j) = Null THEN Null
               ELSE next[Down(next, head[p], j)]
    BY <2>1, <2>2, <1>6, DownWalk
  <2> QED
    BY <2>3
<1> HIDE DEF f, d
<1>9. \A j \in Nat : d(j) = f[j]
  <2> DEFINE s == {j \in Nat : d(j) # f[j]}
  <2>1. ASSUME s # {} PROVE FALSE
    <3>1. PICK j \in s : \A i \in s : j <= i
      BY <2>1, LeastOf
    <3>2. j # 0
      BY <3>1, <1>6, <1>8
    <3>3. j - 1 \in Nat /\ j - 1 \notin s /\ (j - 1) + 1 = j
      BY <3>1, <3>2
    <3>4. d(j - 1) = f[j - 1]
      BY <3>3
    <3>5. d(j) = f[j]
      BY <3>2, <3>3, <3>4, <1>5, <1>8
    <3> QED
      BY <3>1, <3>5
  <2> QED
    BY <2>1
<1>10. CASE k < H
  <2>1. d(k) = elem(H - k) /\ H - k \in 1 .. H
    BY <1>10, <1>9, <1>4, <1>1
  <2> QED
    BY <2>1, <1>2, <1>10 DEF d, H
<1>11. CASE ~(k < H)
  <2>1. d(k) = Null
    BY <1>11, <1>9, <1>4
  <2> QED
    BY <2>1, <1>11 DEF d, H
<1> QED
  BY <1>10, <1>11

\* Where the walk meets an area of a list.
LEMMA InList ==
  ASSUME NEW own, NEW rank, NEW next, NEW head, Layout(own, rank, next, head),
         NEW p \in Lists, NEW a \in Areas, own[a] = p
  PROVE  /\ Height(rank, head, p) - rank[a] \in 0 .. Height(rank, head, p) - 1
         /\ Down(next, head[p], Height(rank, head, p) - rank[a]) = a
<1> DEFINE H == Height(rank, head, p)
           k == H - rank[a]
<1>1. H \in Nat /\ rank[a] \in Nat /\ rank[a] > 0 /\ rank[a] <= H
  BY HeightType DEF Layout
<1> HIDE DEF H
<1>2. k \in Nat /\ k < H /\ H - k = rank[a] /\ k \in 0 .. H - 1
  BY <1>1
<1> HIDE DEF k
<1>3. /\ Down(next, head[p], k) \in Areas /\ own[Down(next, head[p], k)] = p
      /\ rank[Down(next, head[p], k)] = rank[a]
  BY <1>2, DownList DEF H
<1>4. Down(next, head[p], k) = a
  BY <1>3 DEF Layout
<1> QED
  BY <1>2, <1>4 DEF H, k

\* No list is longer than there are areas.
LEMMA HeightBound ==
  ASSUME NEW own, NEW rank, NEW next, NEW head, Layout(own, rank, next, head),
         NEW p \in Lists
  PROVE  Height(rank, head, p) <= Cardinality(Areas)
<1> DEFINE H == Height(rank, head, p)
           f == [i \in 1 .. H |-> CHOOSE a \in Areas : own[a] = p /\ rank[a] = i]
<1>1. H \in Nat
  BY HeightType
<1>2. ASSUME NEW i \in 1 .. H
      PROVE  f[i] \in Areas /\ rank[f[i]] = i
  BY EveryRank
<1>3. f \in [1 .. H -> Areas]
  BY <1>2
<1>4. \A i, j \in 1 .. H : f[i] = f[j] => i = j
  BY <1>2
<1>5. IsFiniteSet(1 .. H) /\ Cardinality(1 .. H) = H
  <2> HIDE DEF H
  <2>1. IsFiniteSet(1 .. H) /\ Cardinality(1 .. H) = IF 1 > H THEN 0 ELSE H - 1 + 1
    BY <1>1, FS_Interval
  <2> QED
    BY <2>1, <1>1
<1> HIDE DEF f, H
<1>6. ASSUME Cardinality(Areas) < Cardinality(1 .. H) PROVE FALSE
  <2>1. IsFiniteSet(Areas)
    BY AreasFacts
  <2>2. \E i, j \in 1 .. H : i # j /\ f[i] = f[j]
    BY ONLY <1>3, <1>5, <1>6, <2>1, FS_PigeonHole
  <2> QED
    BY <2>2, <1>4
<1> QED
  BY <1>1, <1>5, <1>6, AreasFacts DEF H

\* The first areas of a list are those with the highest ranks.
LEMMA FirstOf ==
  ASSUME NEW own, NEW rank, NEW head, Layout(own, rank, link, head),
         NEW p \in Lists, NEW n \in Nat
  PROVE  First(head[p], n) =
           {a \in Areas : own[a] = p /\ rank[a] > Height(rank, head, p) - n}
<1> DEFINE H == Height(rank, head, p)
<1>1. H \in Nat
  BY HeightType
<1>2. ASSUME NEW a \in First(head[p], n)
      PROVE  a \in Areas /\ own[a] = p /\ rank[a] > H - n
  <2>1. PICK k \in 0 .. n - 1 : a = Down(link, head[p], k) /\ a # Null
    BY DEF First
  <2>2. k < H
    BY <2>1, DownList
  <2>3. a \in Areas /\ own[a] = p /\ rank[a] = H - k
    BY <2>1, <2>2, DownList
  <2> HIDE DEF H
  <2> QED
    BY <2>3, <1>1
<1>3. ASSUME NEW a \in Areas, own[a] = p, rank[a] > H - n
      PROVE  a \in First(head[p], n)
  <2>1. H - rank[a] \in 0 .. H - 1 /\ Down(link, head[p], H - rank[a]) = a
    BY <1>3, InList
  <2>2. rank[a] \in Nat
    BY DEF Layout
  <2> HIDE DEF H
  <2>3. H - rank[a] \in 0 .. n - 1
    BY <2>1, <2>2, <1>1, <1>3
  <2> QED
    BY <2>1, <2>3, AreasFacts DEF First
<1> QED
  BY <1>2, <1>3

LEMMA WholeOf ==
  ASSUME NEW own, NEW rank, NEW head, Layout(own, rank, link, head),
         NEW p \in Lists
  PROVE  Whole(head[p]) = {a \in Areas : own[a] = p}
<1> DEFINE H == Height(rank, head, p)
           N == Cardinality(Areas)
<1>1. H \in Nat /\ N \in Nat /\ H <= N
  BY HeightType, AreasFacts, HeightBound
<1>2. \A a \in Areas : rank[a] \in Nat /\ rank[a] > 0
  BY DEF Layout
<1>3. Whole(head[p]) = {a \in Areas : own[a] = p /\ rank[a] > H - N}
  BY <1>1, FirstOf DEF Whole
<1> HIDE DEF H, N
<1>4. \A a \in Areas : rank[a] > H - N
  BY <1>1, <1>2
<1> QED
  BY <1>3, <1>4

-----------------------------------------------------------------------------
(* What the steps do to a layout                                           *)

\* The areas of p above rank low go, one by one, on top of q.
MovedOwn(own, rank, p, q, low) ==
  [a \in Areas |-> IF own[a] = p /\ rank[a] > low THEN q ELSE own[a]]

MovedRank(own, rank, head, p, q, low) ==
  [a \in Areas |->
     IF own[a] = p /\ rank[a] > low
       THEN Height(rank, head, q) + Height(rank, head, p) - rank[a] + 1
       ELSE rank[a]]

LEMMA MoveLayout ==
  ASSUME NEW own, NEW rank, NEW next, NEW head, Layout(own, rank, next, head),
         NEW p \in Lists, NEW q \in Lists, p # q,
         NEW low \in Nat, NEW top \in Areas, own[top] = p, rank[top] = low + 1,
         NEW next2 \in [Areas -> Heads],
         \A a \in Areas : ~(own[a] = p /\ rank[a] > low) => next2[a] = next[a],
         next2[head[p]] = head[q],
         \A a \in Areas : own[a] = p /\ rank[a] > low /\ a # head[p] =>
           next2[a] \in Areas /\ own[next2[a]] = p /\ rank[next2[a]] = rank[a] + 1,
         NEW head2 \in [Lists -> Heads],
         head2[p] = next[top], head2[q] = top,
         \A x \in Lists : x # p /\ x # q => head2[x] = head[x]
  PROVE  /\ Layout(MovedOwn(own, rank, p, q, low),
                   MovedRank(own, rank, head, p, q, low), next2, head2)
         /\ \A x \in Lists :
              Height(MovedRank(own, rank, head, p, q, low), head2, x) =
                IF x = p THEN low
                ELSE IF x = q THEN Height(rank, head, q) + Height(rank, head, p) - low
                ELSE Height(rank, head, x)
<1> DEFINE own2 == MovedOwn(own, rank, p, q, low)
           rank2 == MovedRank(own, rank, head, p, q, low)
           hp == Height(rank, head, p)
           hq == Height(rank, head, q)
           moved(a) == own[a] = p /\ rank[a] > low
<1>1. /\ own \in [Areas -> Places] /\ rank \in [Areas -> Nat \ {0}]
      /\ next \in [Areas -> Heads] /\ head \in [Lists -> Heads]
      /\ \A x \in Lists : head[x] # Null => head[x] \in Areas /\ own[head[x]] = x
      /\ \A a, b \in Areas : own[a] = own[b] /\ rank[a] = rank[b] => a = b
      /\ Null \notin Areas /\ p \in Places /\ q \in Places
  BY AreasFacts DEF Layout, Heads
<1>2. /\ hp \in Nat /\ hq \in Nat
      /\ \A a \in Areas : own[a] = p => rank[a] <= hp
      /\ \A a \in Areas : own[a] = q => rank[a] <= hq
      /\ head[q] = Null => hq = 0
      /\ head[q] # Null => rank[head[q]] = hq
  BY HeightType DEF Height
<1>3. low < hp /\ head[p] \in Areas /\ own[head[p]] = p /\ rank[head[p]] = hp
  <2>1. head[p] # Null
    BY AreasFacts DEF Layout
  <2> QED
    BY <2>1, <1>1, <1>2 DEF Height
<1> HIDE DEF hp, hq
<1>4. \A a \in Areas : /\ own2[a] = IF moved(a) THEN q ELSE own[a]
                       /\ rank2[a] = IF moved(a) THEN hq + hp - rank[a] + 1 ELSE rank[a]
  BY DEF MovedOwn, MovedRank, hp, hq
<1>5. own2 \in [Areas -> Places] /\ rank2 \in [Areas -> Nat \ {0}]
  <2>1. \A a \in Areas : moved(a) => hq + hp - rank[a] + 1 \in Nat \ {0}
    BY <1>1, <1>2
  <2>2. \A a \in Areas : own2[a] \in Places /\ rank2[a] \in Nat \ {0}
    BY <1>1, <1>4, <2>1
  <2> QED
    BY <2>2 DEF MovedOwn, MovedRank
<1> HIDE DEF own2, rank2
<1>6. next2 \in [Areas -> Heads]
  <2>1. ASSUME NEW a \in Areas PROVE next2[a] \in Heads
    <3>1. CASE ~moved(a)
      BY <3>1, <1>1
    <3>2. CASE moved(a) /\ a = head[p]
      BY <3>2, <1>1
    <3>3. CASE moved(a) /\ a # head[p]
      BY <3>3 DEF Heads
    <3> QED
      BY <3>1, <3>2, <3>3
  <2> QED
    BY <2>1
<1>7. /\ head2 \in [Lists -> Heads]
      /\ head2[q] = top /\ head2[p] = next[top]
      /\ \A x \in Lists : x # p /\ x # q => head2[x] = head[x]
  BY <1>1 DEF Heads
<1>8. own2[top] = q /\ rank2[top] = hq + hp - low
  BY <1>4, <1>2, <1>3
<1>9. IF low = 0 THEN head2[p] = Null
      ELSE /\ head2[p] \in Areas /\ own[head2[p]] = p /\ rank[head2[p]] = low
           /\ own2[head2[p]] = p /\ rank2[head2[p]] = low
  <2>1. CASE low = 0
    BY <2>1, <1>7 DEF Layout
  <2>2. CASE low # 0
    <3>1. next[top] \in Areas /\ own[next[top]] = p /\ rank[next[top]] = low
      BY <2>2 DEF Layout
    <3> QED
      BY <2>2, <3>1, <1>7, <1>4
  <2> QED
    BY <2>1, <2>2
<1>10. ASSUME NEW x \in Lists, head2[x] # Null PROVE own2[head2[x]] = x
  <2>1. CASE x = p
    BY <2>1, <1>9, <1>10
  <2>2. CASE x = q
    BY <2>2, <1>7, <1>8
  <2>3. CASE x # p /\ x # q
    BY <2>3, <1>10, <1>7, <1>4, <1>1
  <2> QED
    BY <2>1, <2>2, <2>3
<1>11. ASSUME NEW a \in Areas, own2[a] \in Lists
       PROVE  head2[own2[a]] # Null /\ rank2[a] <= rank2[head2[own2[a]]]
  <2>1. CASE own2[a] = q
    BY <2>1, <1>7, <1>8, <1>4, <1>2, <1>1, <1>3
  <2>2. CASE own2[a] = p
    <3>1. own[a] = p /\ rank2[a] = rank[a] /\ rank[a] <= low /\ rank[a] > 0
      BY <2>2, <1>4, <1>1
    <3> QED
      BY <3>1, <2>2, <1>9, <1>1
  <2>3. CASE own2[a] # q /\ own2[a] # p
    <3>1. own2[a] = own[a] /\ rank2[a] = rank[a] /\ own[a] # p /\ own[a] # q
      BY <2>3, <1>4
    <3>2. head[own[a]] # Null /\ rank[a] <= rank[head[own[a]]]
      BY <3>1, <1>11 DEF Layout
    <3> QED
      BY <3>1, <3>2, <1>11, <1>7, <1>4, <1>1
  <2> QED
    BY <2>1, <2>2, <2>3
<1>12. ASSUME NEW a \in Areas, own2[a] \in Lists, rank2[a] = 1
       PROVE  next2[a] = Null
  <2>1. CASE moved(a)
    <3>1. rank[a] = hp /\ hq = 0
      <4>1. hq + hp - rank[a] + 1 = 1 /\ rank[a] \in Nat /\ rank[a] <= hp
        BY <2>1, <1>12, <1>4, <1>2, <1>1
      <4>2. hp \in Nat /\ hq \in Nat
        BY <1>2
      <4> QED
        BY ONLY <4>1, <4>2
    <3>2. a = head[p]
      BY <2>1, <3>1, <1>3, <1>1
    <3>3. head[q] = Null
      BY <3>1, <1>2, <1>1
    <3> QED
      BY <3>2, <3>3
  <2>2. CASE ~moved(a)
    BY <2>2, <1>12, <1>4 DEF Layout
  <2> QED
    BY <2>1, <2>2
<1>13. ASSUME NEW a \in Areas, own2[a] \in Lists, rank2[a] > 1
       PROVE  /\ next2[a] \in Areas /\ own2[next2[a]] = own2[a]
              /\ rank2[next2[a]] = rank2[a] - 1
  <2>1. CASE moved(a) /\ a = head[p]
    <3>1. rank2[a] = hq + 1 /\ own2[a] = q
      BY <2>1, <1>4, <1>3, <1>2
    <3>2. head[q] # Null
      BY <3>1, <1>13, <1>2
    <3> QED
      BY <3>1, <3>2, <2>1, <1>1, <1>2, <1>4
  <2>2. CASE moved(a) /\ a # head[p]
    <3>1. next2[a] \in Areas /\ own[next2[a]] = p /\ rank[next2[a]] = rank[a] + 1
      BY <2>2
    <3>2. moved(next2[a])
      BY <3>1, <2>2, <1>1
    <3> QED
      BY <3>1, <3>2, <2>2, <1>4, <1>1, <1>2
  <2>3. CASE ~moved(a)
    <3>1. own2[a] = own[a] /\ rank2[a] = rank[a] /\ next2[a] = next[a]
      BY <2>3, <1>4
    <3>2. next[a] \in Areas /\ own[next[a]] = own[a] /\ rank[next[a]] = rank[a] - 1
      BY <3>1, <1>13 DEF Layout
    <3>3. ~moved(next[a])
      BY <3>2, <2>3, <1>1
    <3> QED
      BY <3>1, <3>2, <3>3, <1>4
  <2> QED
    BY <2>1, <2>2, <2>3
<1>14. ASSUME NEW a \in Areas, NEW b \in Areas, own2[a] = own2[b], rank2[a] = rank2[b]
       PROVE  a = b
  <2>1. CASE moved(a) /\ moved(b)
    <3>1. /\ hq + hp - rank[a] + 1 = hq + hp - rank[b] + 1
          /\ rank[a] \in Nat /\ rank[b] \in Nat /\ hp \in Nat /\ hq \in Nat
      BY <2>1, <1>14, <1>1, <1>2, <1>4
    <3>2. rank[a] = rank[b]
      BY ONLY <3>1
    <3> QED
      BY <2>1, <3>2, <1>1
  <2>2. CASE ~moved(a) /\ ~moved(b)
    BY <2>2, <1>14, <1>1, <1>4
  <2>3. CASE moved(a) /\ ~moved(b)
    BY <2>3, <1>14, <1>1, <1>2, <1>4
  <2>4. CASE ~moved(a) /\ moved(b)
    BY <2>4, <1>14, <1>1, <1>2, <1>4
  <2> QED
    BY <2>1, <2>2, <2>3, <2>4
<1>15. Layout(own2, rank2, next2, head2)
  BY <1>5, <1>6, <1>7, <1>10, <1>11, <1>12, <1>13, <1>14 DEF Layout
<1>16. ASSUME NEW x \in Lists
       PROVE  Height(rank2, head2, x) =
                IF x = p THEN low ELSE IF x = q THEN hq + hp - low
                ELSE Height(rank, head, x)
  <2>1. CASE x = p
    BY <2>1, <1>9, AreasFacts DEF Height
  <2>2. CASE x = q
    BY <2>2, <1>7, <1>8, AreasFacts DEF Height
  <2>3. CASE x # p /\ x # q
    <3>1. head2[x] = head[x]
      BY <2>3, <1>7
    <3>2. head[x] # Null => rank2[head[x]] = rank[head[x]]
      BY <2>3, <1>1, <1>4
    <3> QED
      BY <2>3, <3>1, <3>2 DEF Height
  <2> QED
    BY <2>1, <2>2, <2>3
<1> QED
  BY <1>15, <1>16 DEF own2, rank2, hp, hq

\* The areas under the running code up to rank low become those of task c, and
\* the areas of task t come under the others.
SwapOwn(own, rank, c, t, low) ==
  [a \in Areas |-> IF own[a] = "running" /\ rank[a] <= low THEN c
                   ELSE IF own[a] = t THEN "running" ELSE own[a]]

SwapRank(own, rank, head, t, low) ==
  [a \in Areas |-> IF own[a] = "running" /\ rank[a] > low
                     THEN Height(rank, head, t) + rank[a] - low ELSE rank[a]]

LEMMA SwapLayout ==
  ASSUME NEW own, NEW rank, NEW next, NEW head, Layout(own, rank, next, head),
         NEW c \in Tasks, NEW t \in Tasks, c # t, head[c] = Null,
         NEW low \in Nat, low <= Height(rank, head, "running"),
         NEW next2 \in [Areas -> Heads],
         \A a \in Areas : next2[a] = IF own[a] = "running" /\ rank[a] = low + 1
                                       THEN head[t] ELSE next[a],
         NEW head2 \in [Lists -> Heads],
         head2["running"] = IF low = Height(rank, head, "running") THEN head[t]
                            ELSE head["running"],
         head2[c] = Down(next, head["running"], Height(rank, head, "running") - low),
         head2[t] = Null,
         \A p \in Lists \ {c, t, "running"} : head2[p] = head[p]
  PROVE  /\ Layout(SwapOwn(own, rank, c, t, low),
                   SwapRank(own, rank, head, t, low), next2, head2)
         /\ \A p \in Lists :
              Height(SwapRank(own, rank, head, t, low), head2, p) =
                IF p = c THEN low
                ELSE IF p = t THEN 0
                ELSE IF p = "running"
                  THEN Height(rank, head, "running") - low + Height(rank, head, t)
                ELSE Height(rank, head, p)
<1> DEFINE own2 == SwapOwn(own, rank, c, t, low)
           rank2 == SwapRank(own, rank, head, t, low)
           hr == Height(rank, head, "running")
           ht == Height(rank, head, t)
           top(a) == own[a] = "running" /\ rank[a] > low
           bottom(a) == own[a] = "running" /\ rank[a] <= low
<1>1. /\ own \in [Areas -> Places] /\ rank \in [Areas -> Nat \ {0}]
      /\ next \in [Areas -> Heads] /\ head \in [Lists -> Heads]
      /\ \A x \in Lists : head[x] # Null => head[x] \in Areas /\ own[head[x]] = x
      /\ \A a, b \in Areas : own[a] = own[b] /\ rank[a] = rank[b] => a = b
      /\ \A a \in Areas : own[a] # c
      /\ Null \notin Areas /\ c \in Lists /\ t \in Lists /\ "running" \in Lists
      /\ c # "running" /\ t # "running" /\ Lists \subseteq Places
  BY AreasFacts DEF Layout, Heads
<1>2. /\ hr \in Nat /\ ht \in Nat /\ low <= hr
      /\ \A a \in Areas : own[a] = "running" => rank[a] <= hr
      /\ \A a \in Areas : own[a] = t => rank[a] <= ht
      /\ head[t] = Null => ht = 0
      /\ head[t] # Null => rank[head[t]] = ht
      /\ head["running"] = Null => hr = 0
      /\ head["running"] # Null => rank[head["running"]] = hr
  BY <1>1, HeightType DEF Height
<1>3. IF low = 0 THEN head2[c] = Null
      ELSE head2[c] \in Areas /\ own[head2[c]] = "running" /\ rank[head2[c]] = low
  <2>1. hr - low \in Nat /\ (low > 0 => hr - low < hr) /\ hr - (hr - low) = low
        /\ (low = 0 => ~(hr - low < hr))
    BY <1>2
  <2> QED
    BY <2>1, <1>1, DownList
<1> HIDE DEF hr, ht
<1>4. \A a \in Areas :
        /\ own2[a] = IF bottom(a) THEN c ELSE IF own[a] = t THEN "running" ELSE own[a]
        /\ rank2[a] = IF top(a) THEN ht + rank[a] - low ELSE rank[a]
  BY DEF SwapOwn, SwapRank, ht
<1>5. own2 \in [Areas -> Places] /\ rank2 \in [Areas -> Nat \ {0}]
  <2>1. \A a \in Areas : top(a) => ht + rank[a] - low \in Nat \ {0}
    BY <1>1, <1>2
  <2>2. \A a \in Areas : own2[a] \in Places /\ rank2[a] \in Nat \ {0}
    BY <1>1, <1>4, <2>1
  <2> QED
    BY <2>2 DEF SwapOwn, SwapRank
<1> HIDE DEF own2, rank2
<1>6. next2 \in [Areas -> Heads]
  <2>1. \A a \in Areas : next2[a] \in Heads
    BY <1>1
  <2> QED
    BY <2>1
<1>7. head2 \in [Lists -> Heads]
  <2>1. \A x \in Lists : head2[x] \in Heads
    BY <1>1, <1>3 DEF Heads
  <2> QED
    BY <2>1
<1>8. low < hr => head["running"] \in Areas /\ top(head["running"])
  BY <1>1, <1>2
<1>9. ASSUME NEW x \in Lists, head2[x] # Null PROVE own2[head2[x]] = x
  <2>1. CASE x = c
    BY <2>1, <1>9, <1>3, <1>4, <1>1
  <2>2. CASE x = "running" /\ low = hr
    BY <2>2, <1>9, <1>4, <1>1 DEF hr
  <2>3. CASE x = "running" /\ low # hr
    BY <2>3, <1>9, <1>8, <1>4, <1>1, <1>2 DEF hr
  <2>4. CASE x \notin {c, t, "running"}
    BY <2>4, <1>9, <1>4, <1>1
  <2> QED
    BY <1>9, <2>1, <2>2, <2>3, <2>4
<1>10. ASSUME NEW x \in Lists
       PROVE  Height(rank2, head2, x) =
                IF x = c THEN low ELSE IF x = t THEN 0
                ELSE IF x = "running" THEN hr - low + ht
                ELSE Height(rank, head, x)
  <2>1. CASE x = c
    BY <2>1, <1>3, <1>4, <1>1 DEF Height
  <2>2. CASE x = t
    BY <2>2 DEF Height
  <2>3. CASE x = "running" /\ low = hr
    <3>1. head2[x] = head[t]
      BY <2>3 DEF hr
    <3>2. head[t] # Null => head[t] \in Areas /\ rank2[head[t]] = rank[head[t]]
      BY <1>1, <1>4
    <3> QED
      BY <2>3, <3>1, <3>2, <1>1, <1>2 DEF Height
  <2>4. CASE x = "running" /\ low # hr
    <3>1. head2[x] = head["running"] /\ low < hr
      BY <2>4, <1>2 DEF hr
    <3>2. rank2[head["running"]] = ht + hr - low /\ head["running"] # Null
      BY <3>1, <1>8, <1>4, <1>1, <1>2
    <3> QED
      BY <2>4, <3>1, <3>2, <1>1, <1>2 DEF Height
  <2>5. CASE x \notin {c, t, "running"}
    <3>1. head2[x] = head[x] /\ (head[x] # Null => rank2[head[x]] = rank[head[x]])
      BY <2>5, <1>1, <1>4
    <3> QED
      BY <2>5, <3>1 DEF Height
  <2> QED
    BY <2>1, <2>2, <2>3, <2>4, <2>5
<1>11. ASSUME NEW a \in Areas, own2[a] \in Lists
       PROVE  head2[own2[a]] # Null /\ rank2[a] <= rank2[head2[own2[a]]]
  <2>1. rank2[a] > 0 /\ rank2[a] \in Nat
    BY <1>5
  <2>2. rank2[a] <= Height(rank2, head2, own2[a])
    <3>1. CASE bottom(a)
      BY <3>1, <1>4, <1>10, <1>1
    <3>2. CASE top(a)
      BY <3>2, <1>4, <1>10, <1>1, <1>2
    <3>3. CASE own[a] = t
      BY <3>3, <1>4, <1>10, <1>1, <1>2
    <3>4. CASE own[a] # "running" /\ own[a] # t
      <4>1. rank[a] <= Height(rank, head, own[a])
        BY <3>4, <1>11, <1>4, HeightType
      <4> QED
        BY <3>4, <4>1, <1>11, <1>4, <1>10, <1>1
    <3> QED
      BY <3>1, <3>2, <3>3, <3>4, <1>1
  <2> QED
    BY <2>1, <2>2 DEF Height
<1>12. ASSUME NEW a \in Areas, own2[a] \in Lists, rank2[a] = 1
       PROVE  next2[a] = Null
  <2>1. CASE top(a) /\ rank[a] = low + 1
    BY <2>1, <1>12, <1>4, <1>2, <1>1
  <2>2. CASE top(a) /\ rank[a] # low + 1
    BY <2>2, <1>12, <1>4, <1>2, <1>1
  <2>3. CASE ~top(a)
    <3>1. next2[a] = next[a] /\ rank[a] = 1 /\ own[a] \in Lists
      BY <2>3, <1>12, <1>4, <1>1
    <3> QED
      BY <3>1 DEF Layout
  <2> QED
    BY <2>1, <2>2, <2>3
<1>13. ASSUME NEW a \in Areas, own2[a] \in Lists, rank2[a] > 1
       PROVE  /\ next2[a] \in Areas /\ own2[next2[a]] = own2[a]
              /\ rank2[next2[a]] = rank2[a] - 1
  <2>1. CASE top(a) /\ rank[a] = low + 1
    <3>1. rank2[a] = ht + 1 /\ own2[a] = "running" /\ next2[a] = head[t]
      BY <2>1, <1>4, <1>2, <1>1
    <3>2. head[t] # Null
      BY <3>1, <1>13, <1>2
    <3> QED
      BY <3>1, <3>2, <1>1, <1>2, <1>4
  <2>2. CASE top(a) /\ rank[a] # low + 1
    <3>1. next[a] \in Areas /\ own[next[a]] = "running" /\ rank[next[a]] = rank[a] - 1
      BY <2>2, <1>1 DEF Layout
    <3>2. next2[a] = next[a] /\ top(next[a])
      BY <3>1, <2>2, <1>1
    <3> QED
      BY <3>1, <3>2, <2>2, <1>4, <1>1, <1>2
  <2>3. CASE ~top(a)
    <3>1. rank2[a] = rank[a] /\ next2[a] = next[a] /\ own[a] \in Lists
      BY <2>3, <1>4, <1>1, <1>13
    <3>2. next[a] \in Areas /\ own[next[a]] = own[a] /\ rank[next[a]] = rank[a] - 1
      BY <3>1, <1>13 DEF Layout
    <3>3. ~top(next[a]) /\ (bottom(a) => bottom(next[a]))
      BY <3>2, <2>3, <1>1
    <3> QED
      BY <3>1, <3>2, <3>3, <1>4, <2>3, <1>1
  <2> QED
    BY <2>1, <2>2, <2>3
<1>14. ASSUME NEW a \in Areas, NEW b \in Areas, own2[a] = own2[b], rank2[a] = rank2[b]
       PROVE  a = b
  <2>1. own[a] = own[b] \/ (top(a) /\ own[b] = t) \/ (top(b) /\ own[a] = t)
    BY <1>14, <1>4, <1>1
  <2>2. CASE own[a] = own[b]
    BY <2>2, <1>14, <1>4, <1>1, <1>2
  <2>3. CASE top(a) /\ own[b] = t
    BY <2>3, <1>14, <1>4, <1>1, <1>2
  <2>4. CASE top(b) /\ own[a] = t
    BY <2>4, <1>14, <1>4, <1>1, <1>2
  <2> QED
    BY <2>1, <2>2, <2>3, <2>4
<1>15. Layout(own2, rank2, next2, head2)
  BY <1>5, <1>6, <1>7, <1>9, <1>11, <1>12, <1>13, <1>14 DEF Layout
<1> QED
  BY <1>15, <1>10 DEF own2, rank2, hr, ht

\* Two areas are taken from the free list.
TakenOwn(own, lower, upper) ==
  [a \in Areas |-> IF a \in {lower, upper} THEN "new" ELSE own[a]]

LEMMA TakeLayout ==
  ASSUME NEW own, NEW rank, NEW next, NEW head, Layout(own, rank, next, head),
         \A a \in Areas : own[a] # "new",
         NEW lower, lower = head["free"], lower # Null,
         NEW upper, upper = next[lower], upper # Null,
         NEW head2 \in [Lists -> Heads], head2["free"] = next[upper],
         \A p \in Lists \ {"free"} : head2[p] = head[p]
  PROVE  /\ Layout(TakenOwn(own, lower, upper), rank, next, head2)
         /\ lower \in Areas /\ upper \in Areas /\ lower # upper
         /\ \A p \in Lists \ {"free"} :
              Height(rank, head2, p) = Height(rank, head, p)
<1> DEFINE own2 == TakenOwn(own, lower, upper)
           hf == Height(rank, head, "free")
<1>1. /\ own \in [Areas -> Places] /\ rank \in [Areas -> Nat \ {0}]
      /\ next \in [Areas -> Heads] /\ head \in [Lists -> Heads]
      /\ \A x \in Lists : head[x] # Null => head[x] \in Areas /\ own[head[x]] = x
      /\ \A a, b \in Areas : own[a] = own[b] /\ rank[a] = rank[b] => a = b
      /\ Null \notin Areas /\ "new" \in Places /\ "new" \notin Lists
      /\ "free" \in Lists
  BY AreasFacts DEF Layout, Heads
<1>2. hf \in Nat /\ \A a \in Areas : own[a] = "free" => rank[a] <= hf
  BY <1>1, HeightType
<1>3. lower \in Areas /\ own[lower] = "free" /\ rank[lower] = hf
  BY <1>1 DEF Height
<1> HIDE DEF hf
<1>4. rank[lower] > 1
  BY <1>1, <1>3 DEF Layout
<1>5. upper \in Areas /\ own[upper] = "free" /\ rank[upper] = hf - 1
  BY <1>1, <1>3, <1>4 DEF Layout
<1>6. IF hf = 2 THEN next[upper] = Null
      ELSE /\ next[upper] \in Areas /\ own[next[upper]] = "free"
           /\ rank[next[upper]] = hf - 2
  <2>1. CASE hf = 2
    BY <2>1, <1>1, <1>5 DEF Layout
  <2>2. CASE hf # 2
    <3>1. rank[upper] > 1
      BY <2>2, <1>1, <1>2, <1>3, <1>4, <1>5
    <3> QED
      BY <2>2, <3>1, <1>1, <1>5, <1>2 DEF Layout
  <2> QED
    BY <2>1, <2>2
<1>7. /\ head2 \in [Lists -> Heads] /\ head2["free"] = next[upper]
      /\ \A x \in Lists \ {"free"} : head2[x] = head[x]
  BY <1>1, <1>5
<1>8. \A a \in Areas : own2[a] = IF a \in {lower, upper} THEN "new" ELSE own[a]
  BY DEF TakenOwn
<1>9. own2 \in [Areas -> Places]
  <2>1. \A a \in Areas : own2[a] \in Places
    BY <1>8, <1>1
  <2> QED
    BY <2>1 DEF TakenOwn
<1> HIDE DEF own2
<1>10. ASSUME NEW x \in Lists, head2[x] # Null PROVE own2[head2[x]] = x
  <2>1. CASE x = "free"
    <3>1. next[upper] \in Areas /\ own[next[upper]] = "free" /\ rank[next[upper]] = hf - 2
      BY <2>1, <1>10, <1>6, <1>7
    <3>2. next[upper] \notin {lower, upper}
      BY <3>1, <1>3, <1>5, <1>2
    <3> QED
      BY <2>1, <3>1, <3>2, <1>7, <1>8
  <2>2. CASE x # "free"
    BY <2>2, <1>10, <1>7, <1>8, <1>1, <1>3, <1>5
  <2> QED
    BY <2>1, <2>2
<1>11. ASSUME NEW a \in Areas, own2[a] \in Lists
       PROVE  /\ own2[a] = own[a] /\ a \notin {lower, upper}
              /\ head2[own2[a]] # Null /\ rank[a] <= rank[head2[own2[a]]]
  <2>1. own2[a] = own[a] /\ a \notin {lower, upper}
    BY <1>11, <1>8, <1>1
  <2>2. head[own[a]] # Null /\ rank[a] <= rank[head[own[a]]]
    BY <2>1, <1>11 DEF Layout
  <2>3. CASE own[a] = "free"
    <3>1. rank[a] # hf /\ rank[a] # hf - 1 /\ rank[a] <= hf /\ rank[a] > 0
      BY <2>1, <2>3, <1>1, <1>2, <1>3, <1>5
    <3>2. hf # 2 /\ rank[a] <= hf - 2
      BY <3>1, <1>1, <1>2
    <3> QED
      BY <3>2, <2>1, <2>3, <1>6, <1>7, <1>1
  <2>4. CASE own[a] # "free"
    BY <2>1, <2>2, <2>4, <1>7, <1>11
  <2> QED
    BY <2>1, <2>3, <2>4
<1>12. ASSUME NEW a \in Areas, own2[a] \in Lists, rank[a] > 1
       PROVE  /\ next[a] \in Areas /\ own2[next[a]] = own2[a]
              /\ rank[next[a]] = rank[a] - 1
  <2>1. own2[a] = own[a] /\ a \notin {lower, upper}
    BY <1>11, <1>12
  <2>2. next[a] \in Areas /\ own[next[a]] = own[a] /\ rank[next[a]] = rank[a] - 1
    BY <2>1, <1>12 DEF Layout
  <2>3. own[a] = "free" => rank[a] <= hf /\ rank[a] # hf /\ rank[a] # hf - 1
    BY <2>1, <1>2, <1>3, <1>5, <1>1
  <2>4. next[a] \notin {lower, upper}
    BY <2>2, <2>3, <1>1, <1>2, <1>3, <1>5
  <2> QED
    BY <2>1, <2>2, <2>4, <1>8
<1>13. ASSUME NEW a \in Areas, own2[a] \in Lists, rank[a] = 1 PROVE next[a] = Null
  BY <1>11, <1>13 DEF Layout
<1>14. ASSUME NEW a \in Areas, NEW b \in Areas, own2[a] = own2[b], rank[a] = rank[b]
       PROVE  a = b
  BY <1>14, <1>8, <1>1, <1>2, <1>3, <1>5
<1>15. Layout(own2, rank, next, head2)
  BY <1>1, <1>9, <1>7, <1>10, <1>11, <1>12, <1>13, <1>14 DEF Layout
<1>16. lower # upper
  BY <1>2, <1>3, <1>5
<1> QED
  BY <1>15, <1>16, <1>3, <1>5, <1>7 DEF own2, Height

\* The two areas become the list of the new task.
FilledOwn(own, t) == [a \in Areas |-> IF own[a] = "new" THEN t ELSE own[a]]

FilledRank(rank, lower, upper) ==
  [a \in Areas |-> IF a = lower THEN 2 ELSE IF a = upper THEN 1 ELSE rank[a]]

LEMMA FillLayout ==
  ASSUME NEW own, NEW rank, NEW next, NEW head, Layout(own, rank, next, head),
         NEW t \in Tasks, head[t] = Null,
         NEW lower \in Areas, NEW upper \in Areas, lower # upper,
         \A a \in Areas : own[a] = "new" <=> a \in {lower, upper},
         NEW next2 \in [Areas -> Heads], next2[upper] = Null, next2[lower] = upper,
         \A a \in Areas \ {lower, upper} : next2[a] = next[a],
         NEW head2 \in [Lists -> Heads], head2[t] = lower,
         \A p \in Lists \ {t} : head2[p] = head[p]
  PROVE  /\ Layout(FilledOwn(own, t), FilledRank(rank, lower, upper), next2, head2)
         /\ \A p \in Lists :
              Height(FilledRank(rank, lower, upper), head2, p) =
                IF p = t THEN 2 ELSE Height(rank, head, p)
<1> DEFINE own2 == FilledOwn(own, t)
           rank2 == FilledRank(rank, lower, upper)
<1>1. /\ own \in [Areas -> Places] /\ rank \in [Areas -> Nat \ {0}]
      /\ next \in [Areas -> Heads] /\ head \in [Lists -> Heads]
      /\ \A x \in Lists : head[x] # Null => head[x] \in Areas /\ own[head[x]] = x
      /\ \A a, b \in Areas : own[a] = own[b] /\ rank[a] = rank[b] => a = b
      /\ \A a \in Areas : own[a] # t
      /\ Null \notin Areas /\ Null \in Heads /\ t \in Lists /\ t \in Places
      /\ "new" \notin Lists /\ Areas \subseteq Heads
  BY AreasFacts DEF Layout, Heads
<1>2. \A a \in Areas :
        /\ own2[a] = IF a \in {lower, upper} THEN t ELSE own[a]
        /\ rank2[a] = IF a = lower THEN 2 ELSE IF a = upper THEN 1 ELSE rank[a]
        /\ next2[a] = IF a = lower THEN upper ELSE IF a = upper THEN Null ELSE next[a]
  BY <1>1 DEF FilledOwn, FilledRank
<1>3. own2 \in [Areas -> Places] /\ rank2 \in [Areas -> Nat \ {0}]
  <2>1. \A a \in Areas : own2[a] \in Places /\ rank2[a] \in Nat \ {0}
    BY <1>1, <1>2
  <2> QED
    BY <2>1 DEF FilledOwn, FilledRank
<1>4. next2 \in [Areas -> Heads] /\ head2 \in [Lists -> Heads]
  BY <1>1
<1>5. head2[t] = lower /\ \A x \in Lists \ {t} : head2[x] = head[x]
  BY <1>1
<1> HIDE DEF own2, rank2
<1>6. ASSUME NEW x \in Lists, head2[x] # Null PROVE own2[head2[x]] = x
  <2>1. CASE x = t
    BY <2>1, <1>2, <1>5
  <2>2. CASE x # t
    <3>1. head2[x] = head[x] /\ head[x] \in Areas /\ own[head[x]] = x
      BY <2>2, <1>6, <1>5, <1>1
    <3>2. head[x] \notin {lower, upper}
      BY <3>1, <1>1
    <3> QED
      BY <3>1, <3>2, <1>2
  <2> QED
    BY <2>1, <2>2
<1>7. ASSUME NEW a \in Areas, own2[a] \in Lists
      PROVE  head2[own2[a]] # Null /\ rank2[a] <= rank2[head2[own2[a]]]
  <2>1. CASE a \in {lower, upper}
    BY <2>1, <1>1, <1>2, <1>5
  <2>2. CASE a \notin {lower, upper}
    <3>1. own2[a] = own[a] /\ rank2[a] = rank[a] /\ own[a] # t
      BY <2>2, <1>2, <1>1
    <3>2. head[own[a]] # Null /\ rank[a] <= rank[head[own[a]]]
      BY <3>1, <1>7 DEF Layout
    <3>3. head2[own2[a]] = head[own[a]] /\ head[own[a]] \in Areas
          /\ own[head[own[a]]] = own[a]
      BY <3>1, <3>2, <1>7, <1>5, <1>1
    <3>4. head[own[a]] \notin {lower, upper}
      BY <3>1, <3>3, <1>7, <1>1
    <3> QED
      BY <3>1, <3>2, <3>3, <3>4, <1>2
  <2> QED
    BY <2>1, <2>2
<1>8. ASSUME NEW a \in Areas, own2[a] \in Lists, rank2[a] = 1
      PROVE  next2[a] = Null
  <2>1. CASE a \in {lower, upper}
    <3>1. rank2[lower] = 2
      BY <1>2
    <3>2. a = upper
      BY <2>1, <3>1, <1>8
    <3> QED
      BY <3>2, <1>2
  <2>2. CASE a \notin {lower, upper}
    BY <2>2, <1>8, <1>2 DEF Layout
  <2> QED
    BY <2>1, <2>2
<1>9. ASSUME NEW a \in Areas, own2[a] \in Lists, rank2[a] > 1
      PROVE  /\ next2[a] \in Areas /\ own2[next2[a]] = own2[a]
             /\ rank2[next2[a]] = rank2[a] - 1
  <2>1. CASE a \in {lower, upper}
    <3>1. rank2[upper] = 1 /\ rank2[lower] = 2 /\ own2[lower] = own2[upper]
      BY <1>2
    <3>2. a = lower
      BY <2>1, <3>1, <1>9
    <3>3. next2[a] = upper
      BY <3>2, <1>2
    <3> QED
      BY <3>1, <3>2, <3>3
  <2>2. CASE a \notin {lower, upper}
    <3>1. own2[a] = own[a] /\ rank2[a] = rank[a] /\ next2[a] = next[a]
      BY <2>2, <1>2
    <3>2. next[a] \in Areas /\ own[next[a]] = own[a] /\ rank[next[a]] = rank[a] - 1
      BY <3>1, <1>9 DEF Layout
    <3>3. next[a] \notin {lower, upper}
      BY <3>1, <3>2, <1>9, <1>1
    <3> QED
      BY <3>1, <3>2, <3>3, <1>2
  <2> QED
    BY <2>1, <2>2
<1>10. ASSUME NEW a \in Areas, NEW b \in Areas, own2[a] = own2[b], rank2[a] = rank2[b]
       PROVE  a = b
  <2>1. own[a] # t /\ own[b] # t
    BY <1>1
  <2>2. CASE a \in {lower, upper} \/ b \in {lower, upper}
    BY <2>1, <2>2, <1>10, <1>2
  <2>3. CASE a \notin {lower, upper} /\ b \notin {lower, upper}
    BY <2>3, <1>10, <1>2, <1>1
  <2> QED
    BY <2>2, <2>3
<1>11. Layout(own2, rank2, next2, head2)
  BY <1>3, <1>4, <1>6, <1>7, <1>8, <1>9, <1>10 DEF Layout
<1>12. ASSUME NEW p \in Lists
       PROVE  Height(rank2, head2, p) = IF p = t THEN 2 ELSE Height(rank, head, p)
  <2>1. CASE p = t
    BY <2>1, <1>1, <1>2, <1>5 DEF Height
  <2>2. CASE p # t
    <3>1. head2[p] = head[p]
      BY <2>2, <1>5
    <3>2. head[p] # Null => head[p] \in Areas /\ head[p] \notin {lower, upper}
      BY <1>1
    <3> QED
      BY <2>2, <3>1, <3>2, <1>2 DEF Height
  <2> QED
    BY <2>1, <2>2
<1> QED
  BY <1>11, <1>12 DEF own2, rank2

\* The whole list of a task goes on top of the free list.
JoinedOwn(own, t) == [a \in Areas |-> IF own[a] = t THEN "free" ELSE own[a]]

JoinedRank(own, rank, head, t) ==
  [a \in Areas |-> IF own[a] = t THEN rank[a] + Height(rank, head, "free") ELSE rank[a]]

LEMMA JoinLayout ==
  ASSUME NEW own, NEW rank, NEW next, NEW head, Layout(own, rank, next, head),
         NEW t \in Tasks, NEW tail \in Areas, own[tail] = t, rank[tail] = 1,
         NEW next2 \in [Areas -> Heads], next2[tail] = head["free"],
         \A a \in Areas \ {tail} : next2[a] = next[a],
         NEW head2 \in [Lists -> Heads], head2["free"] = head[t], head2[t] = Null,
         \A p \in Lists \ {"free", t} : head2[p] = head[p]
  PROVE  /\ Layout(JoinedOwn(own, t), JoinedRank(own, rank, head, t), next2, head2)
         /\ \A p \in Lists \ {"free"} :
              Height(JoinedRank(own, rank, head, t), head2, p) =
                IF p = t THEN 0 ELSE Height(rank, head, p)
<1> DEFINE own2 == JoinedOwn(own, t)
           rank2 == JoinedRank(own, rank, head, t)
           hf == Height(rank, head, "free")
<1>1. /\ own \in [Areas -> Places] /\ rank \in [Areas -> Nat \ {0}]
      /\ next \in [Areas -> Heads] /\ head \in [Lists -> Heads]
      /\ \A x \in Lists : head[x] # Null => head[x] \in Areas /\ own[head[x]] = x
      /\ \A a, b \in Areas : own[a] = own[b] /\ rank[a] = rank[b] => a = b
      /\ Null \notin Areas /\ Null \in Heads /\ t \in Lists /\ t # "free"
      /\ "free" \in Lists /\ "free" \in Places
  BY AreasFacts DEF Layout, Heads
<1>2. /\ hf \in Nat /\ \A a \in Areas : own[a] = "free" => rank[a] <= hf
      /\ head["free"] = Null => hf = 0
      /\ head["free"] # Null => rank[head["free"]] = hf
      /\ head[t] # Null /\ head[t] \in Areas /\ own[head[t]] = t
      /\ \A a \in Areas : own[a] = t => rank[a] <= rank[head[t]]
  BY <1>1, HeightType DEF Height, Layout
<1> HIDE DEF hf
<1>3. \A a \in Areas :
        /\ own2[a] = IF own[a] = t THEN "free" ELSE own[a]
        /\ rank2[a] = IF own[a] = t THEN rank[a] + hf ELSE rank[a]
        /\ next2[a] = IF a = tail THEN head["free"] ELSE next[a]
  BY <1>1 DEF JoinedOwn, JoinedRank, hf
<1>4. own2 \in [Areas -> Places] /\ rank2 \in [Areas -> Nat \ {0}]
  <2>1. \A a \in Areas : own2[a] \in Places /\ rank2[a] \in Nat \ {0}
    BY <1>1, <1>2, <1>3
  <2> QED
    BY <2>1 DEF JoinedOwn, JoinedRank
<1>5. next2 \in [Areas -> Heads] /\ head2 \in [Lists -> Heads]
  BY <1>1
<1>6. /\ head2["free"] = head[t] /\ head2[t] = Null
      /\ \A x \in Lists \ {t, "free"} : head2[x] = head[x]
  BY <1>1
<1> HIDE DEF own2, rank2
<1>7. ASSUME NEW x \in Lists, head2[x] # Null PROVE own2[head2[x]] = x
  BY <1>7, <1>1, <1>2, <1>3, <1>6
<1>8. ASSUME NEW a \in Areas, own2[a] \in Lists
      PROVE  head2[own2[a]] # Null /\ rank2[a] <= rank2[head2[own2[a]]]
  <2>1. CASE own2[a] = "free"
    <3>1. rank2[head[t]] = rank[head[t]] + hf
      BY <1>2, <1>3
    <3>2. rank2[a] <= rank[head[t]] + hf
      BY <2>1, <1>1, <1>2, <1>3
    <3> QED
      BY <2>1, <3>1, <3>2, <1>2, <1>6
  <2>2. CASE own2[a] # "free"
    <3>1. own2[a] = own[a] /\ rank2[a] = rank[a] /\ own[a] # t
      BY <2>2, <1>3
    <3>2. head[own[a]] # Null /\ rank[a] <= rank[head[own[a]]]
      BY <3>1, <1>8 DEF Layout
    <3> QED
      BY <3>1, <3>2, <2>2, <1>1, <1>3, <1>6, <1>8
  <2> QED
    BY <2>1, <2>2
<1>9. ASSUME NEW a \in Areas, own2[a] \in Lists, rank2[a] = 1
      PROVE  next2[a] = Null
  <2>1. CASE own[a] = t
    <3>1. hf = 0 /\ rank[a] = 1
      BY <2>1, <1>9, <1>1, <1>2, <1>3
    <3>2. a = tail /\ head["free"] = Null
      BY <3>1, <2>1, <1>1, <1>2
    <3> QED
      BY <3>2, <1>3
  <2>2. CASE own[a] # t
    <3>1. next2[a] = next[a] /\ rank[a] = 1 /\ own[a] \in Lists
      BY <2>2, <1>9, <1>3
    <3> QED
      BY <3>1 DEF Layout
  <2> QED
    BY <2>1, <2>2
<1>10. ASSUME NEW a \in Areas, own2[a] \in Lists, rank2[a] > 1
       PROVE  /\ next2[a] \in Areas /\ own2[next2[a]] = own2[a]
              /\ rank2[next2[a]] = rank2[a] - 1
  <2>1. CASE a = tail
    <3>1. rank2[a] = 1 + hf /\ own2[a] = "free" /\ next2[a] = head["free"]
      BY <2>1, <1>3
    <3>2. head["free"] # Null
      BY <3>1, <1>10, <1>2
    <3> QED
      BY <3>1, <3>2, <1>1, <1>2, <1>3
  <2>2. CASE a # tail /\ own[a] = t
    <3>1. rank[a] > 1
      BY <2>2, <1>1
    <3>2. next[a] \in Areas /\ own[next[a]] = t /\ rank[next[a]] = rank[a] - 1
      BY <3>1, <2>2, <1>1 DEF Layout
    <3> QED
      BY <3>2, <2>2, <1>1, <1>2, <1>3
  <2>3. CASE own[a] # t
    <3>1. own2[a] = own[a] /\ rank2[a] = rank[a] /\ next2[a] = next[a]
      BY <2>3, <1>3
    <3>2. next[a] \in Areas /\ own[next[a]] = own[a] /\ rank[next[a]] = rank[a] - 1
      BY <3>1, <1>10 DEF Layout
    <3> QED
      BY <3>1, <3>2, <2>3, <1>3
  <2> QED
    BY <2>1, <2>2, <2>3
<1>11. ASSUME NEW a \in Areas, NEW b \in Areas, own2[a] = own2[b], rank2[a] = rank2[b]
       PROVE  a = b
  <2>1. CASE own[a] = own[b]
    BY <2>1, <1>11, <1>1, <1>2, <1>3
  <2>2. CASE own[a] = t /\ own[b] = "free"
    BY <2>2, <1>11, <1>1, <1>2, <1>3
  <2>3. CASE own[b] = t /\ own[a] = "free"
    BY <2>3, <1>11, <1>1, <1>2, <1>3
  <2> QED
    BY <2>1, <2>2, <2>3, <1>11, <1>3
<1>12. Layout(own2, rank2, next2, head2)
  BY <1>4, <1>5, <1>7, <1>8, <1>9, <1>10, <1>11 DEF Layout
<1>13. ASSUME NEW p \in Lists \ {"free"}
       PROVE  Height(rank2, head2, p) = IF p = t THEN 0 ELSE Height(rank, head, p)
  BY <1>1, <1>3, <1>6 DEF Height
<1> QED
  BY <1>12, <1>13 DEF own2, rank2

-----------------------------------------------------------------------------
(* The inductive invariant                                                 *)

HeadOf == [p \in Lists |-> Head(p)]

\* Whether task t is in a critical section, or on its way in or out.
Masks(t) == nest[t] > 0 \/ pc[t] \in {"count", "open"}

\* Contexts that the code of a handler has on top of the task's calls.
Extra ==
  CASE at = "task" -> 0
    [] at \in {"handler", "left"} -> 2
    [] OTHER -> 2 + CallDepth

Types ==
  /\ saved \in [Areas -> {OPEN, CONTEXT, MASKED}]
  /\ CCPN \in {OPEN, CONTEXT, MASKED}
  /\ uxCriticalNesting \in Nat
  /\ pxCurrentTCB \in Tasks
  /\ stack \in [Tasks -> [csa : Heads, nesting : Nat]]
  /\ at \in {"task", "handler", "left", "syscall", "returning"}
  /\ pc \in [Tasks -> {"run", "count", "open", "fill", "join"}]
  /\ nest \in [Tasks -> Nat] /\ calls \in [Tasks -> Nat]
  /\ life \in [Tasks -> {"none", "ready", "deleted"}]
  /\ new \in [task : Tasks, lower : Heads, upper : Heads]
  /\ last \in [task : Tasks, tail : Heads]

\* A task that does not exist has left nothing behind, and only the resident task
\* creates tasks and reclaims areas, one at a time.
Lives ==
  /\ life[Resident] = "ready" /\ life[pxCurrentTCB] # "none"
  /\ \A t \in Tasks : life[t] = "none" => nest[t] = 0 /\ calls[t] = 0 /\ pc[t] = "run"
  /\ \A t \in Tasks : pc[t] \in {"fill", "join"} => t = Resident
  /\ IF pc[Resident] = "fill"
       THEN /\ life[new.task] = "none"
            /\ new.lower \in Areas /\ new.upper \in Areas /\ new.lower # new.upper
       ELSE new.lower = Null /\ new.upper = Null
  /\ pc[Resident] = "join" =>
       life[last.task] = "deleted" /\ last.task # pxCurrentTCB /\ last.tail \in Areas

\* The count is that of the running task, and the others' are on their stacks.
Counts ==
  /\ uxCriticalNesting = nest[pxCurrentTCB]
  /\ stack[pxCurrentTCB].csa = Null
  /\ \A t \in Tasks \ {pxCurrentTCB} : stack[t].nesting = nest[t]
  /\ at = "task" => (CCPN = MASKED <=> Masks(pxCurrentTCB))
  /\ \A t \in Tasks : pc[t] = "open" => nest[t] = 0

\* Every list is as long as the calls of its task and the contexts saved above
\* them tell.
Lengths(rank) ==
  /\ Height(rank, HeadOf, "running") = calls[pxCurrentTCB] + Extra
  /\ \A t \in Tasks \ {pxCurrentTCB} :
       Height(rank, HeadOf, t) = IF life[t] = "none" THEN 0 ELSE calls[t] + 2

\* The context to which a task returns, next above its calls, keeps its mask.
Returns(own, rank) ==
  \A t \in Tasks, a \in Areas :
    /\ life[t] # "none" /\ rank[a] = calls[t] + 1
    /\ IF t = pxCurrentTCB THEN at # "task" /\ own[a] = "running" ELSE own[a] = t
    => (saved[a] = MASKED <=> Masks(t))

Held(own, rank) ==
  /\ \A a \in Areas : own[a] = "new" <=> a \in {new.lower, new.upper}
  /\ pc[Resident] = "join" => own[last.tail] = last.task /\ rank[last.tail] = 1

Placed(own, rank) ==
  /\ Layout(own, rank, link, HeadOf)
  /\ Lengths(rank) /\ Returns(own, rank) /\ Held(own, rank)

IInv == Types /\ Lives /\ Counts /\ \E own, rank : Placed(own, rank)

LEMMA InitInv == Init => IInv
<1> SUFFICES ASSUME Init PROVE IInv
  OBVIOUS
<1> DEFINE N == Cardinality(Areas)
           own == [a \in Areas |-> "free"]
           rank == [a \in Areas |-> N - a + 1]
<1>1. /\ N \in Nat /\ N > 0 /\ Areas = 1 .. N /\ Null \notin Areas /\ Areas \subseteq Heads
      /\ Resident \in Tasks /\ "free" \in Lists /\ "running" \in Lists /\ "new" \notin Lists
      /\ "free" \in Places /\ Tasks \subseteq Lists /\ "free" \notin Tasks
  <2>1. Areas # {} /\ Resident \in Tasks
    BY CsaAssumption
  <2>2. N > 0
    BY <2>1, AreasFacts
  <2> QED
    BY <2>1, <2>2, AreasFacts DEF Heads
<1>2. Types /\ Lives /\ Counts
  <2>1. Types
    BY <1>1 DEF Init, Types, NoStack, NoAreas, NoTail, OPEN, CONTEXT, MASKED, Heads, Null
  <2>2. Lives
    BY <1>1 DEF Init, Lives, NoAreas, NoTail
  <2>3. Counts
    BY <1>1 DEF Init, Counts, NoStack, Masks, OPEN, MASKED, Null
  <2> QED
    BY <2>1, <2>2, <2>3
<1>3. \A a \in Areas : /\ own[a] = "free" /\ rank[a] = N - a + 1
                       /\ link[a] = IF a + 1 \in Areas THEN a + 1 ELSE Null
  BY DEF Init
<1>4. HeadOf = [p \in Lists |-> IF p = "free" THEN 1 ELSE Null]
  <2>1. \A p \in Lists : HeadOf[p] = IF p = "free" THEN 1 ELSE Null
    BY <1>1 DEF HeadOf, Head, Init, NoStack, Lists
  <2> QED
    BY <2>1 DEF HeadOf
<1>5. own \in [Areas -> Places] /\ rank \in [Areas -> Nat \ {0}]
  <2> HIDE DEF N
  <2>1. \A a \in Areas : N - a + 1 \in Nat \ {0}
    BY <1>1
  <2> QED
    BY <2>1, <1>1
<1>6. HeadOf \in [Lists -> Heads]
  <2>1. 1 \in Heads /\ Null \in Heads
    BY <1>1 DEF Heads
  <2> QED
    BY <2>1, <1>4
<1>7. link \in [Areas -> Heads]
  BY <1>1 DEF Init, Heads
<1> HIDE DEF N, own, rank
<1>8. Layout(own, rank, link, HeadOf)
  <2>1. \A p \in Lists : HeadOf[p] # Null => own[HeadOf[p]] = p
    BY <1>1, <1>3, <1>4
  <2>2. \A a \in Areas : own[a] \in Lists =>
          HeadOf[own[a]] # Null /\ rank[a] <= rank[HeadOf[own[a]]]
    BY <1>1, <1>3, <1>4 DEF Null
  <2>3. \A a \in Areas : own[a] \in Lists /\ rank[a] = 1 => link[a] = Null
    BY <1>1, <1>3
  <2>4. \A a \in Areas : own[a] \in Lists /\ rank[a] > 1 =>
          link[a] \in Areas /\ own[link[a]] = own[a] /\ rank[link[a]] = rank[a] - 1
    BY <1>1, <1>3
  <2>5. \A a, b \in Areas : own[a] = own[b] /\ rank[a] = rank[b] => a = b
    BY <1>1, <1>3
  <2> QED
    BY <1>5, <1>6, <1>7, <2>1, <2>2, <2>3, <2>4, <2>5 DEF Layout
<1>9. Lengths(rank)
  <2>1. "running" # "free" /\ \A t \in Tasks : t # "free"
    BY <1>1
  <2>2. HeadOf["running"] = Null /\ \A t \in Tasks : HeadOf[t] = Null
    BY <1>1, <1>4, <2>1
  <2> QED
    BY <2>2, <1>1 DEF Lengths, Height, Extra, Init
<1>10. Returns(own, rank)
  BY <1>1, <1>3 DEF Returns, Init
<1>11. Held(own, rank)
  BY <1>1, <1>3 DEF Held, Init, NoAreas
<1> QED
  BY <1>2, <1>8, <1>9, <1>10, <1>11 DEF IInv, Placed

-----------------------------------------------------------------------------
(* Steps that leave the lists as they are                                  *)

LEMMA HeadOfKept == UNCHANGED <<FCX, PCXI, stack>> => HeadOf' = HeadOf
BY DEF HeadOf, Head

LEMMA ExtraType == Extra \in Nat
<1>1. CallDepth \in Nat
  BY CsaAssumption
<1>2. 2 + CallDepth \in Nat
  BY <1>1
<1>3. CASE at = "task"
  BY <1>3 DEF Extra
<1>4. CASE at \in {"handler", "left"}
  BY <1>4 DEF Extra
<1>5. CASE at \notin {"task", "handler", "left"}
  BY <1>2, <1>5 DEF Extra
<1> QED
  BY <1>3, <1>4, <1>5

\* The running task goes on in the port's code.
LEMMA TaskGoesOn ==
  ASSUME Types, Lives, at = "task", NEW own, NEW rank, Placed(own, rank),
         NEW x, x \notin {"fill", "join"}, pc[pxCurrentTCB] \notin {"fill", "join"},
         NEW y, pc' = [pc EXCEPT ![pxCurrentTCB] = x],
         nest' = [nest EXCEPT ![pxCurrentTCB] = y],
         UNCHANGED <<csaVars, kernelVars, at, calls, life, new, last>>
  PROVE  Placed(own, rank)' /\ Lives'
<1>1. /\ pxCurrentTCB \in Tasks /\ pc \in [Tasks -> {"run", "count", "open", "fill", "join"}]
      /\ nest \in [Tasks -> Nat] /\ Resident \in Tasks
  BY CsaAssumption DEF Types
<1>2. /\ \A t \in Tasks : pc'[t] = IF t = pxCurrentTCB THEN x ELSE pc[t]
      /\ \A t \in Tasks : t # pxCurrentTCB => nest'[t] = nest[t]
  BY <1>1
<1>3. /\ pc'[Resident] = "fill" <=> pc[Resident] = "fill"
      /\ pc'[Resident] = "join" <=> pc[Resident] = "join"
  BY <1>1, <1>2
<1>4. HeadOf' = HeadOf /\ link' = link
  BY HeadOfKept DEF csaVars, kernelVars
<1>5. Layout(own, rank, link, HeadOf)'
  BY <1>4 DEF Placed
<1>6. Lengths(rank)'
  BY <1>4 DEF Placed, Lengths, Extra, kernelVars
<1>7. Returns(own, rank)'
  <2>1. ASSUME NEW t \in Tasks, t # pxCurrentTCB PROVE Masks(t)' <=> Masks(t)
    BY <2>1, <1>2 DEF Masks
  <2> QED
    BY <2>1 DEF Placed, Returns, csaVars, kernelVars
<1>8. Held(own, rank)'
  BY <1>3 DEF Placed, Held
<1>9. Lives'
  <2>1. life[pxCurrentTCB] # "none" /\ pxCurrentTCB' = pxCurrentTCB
    BY DEF Lives, kernelVars
  <2>2. \A t \in Tasks : life[t] = "none" => nest'[t] = 0 /\ calls[t] = 0 /\ pc'[t] = "run"
    BY <1>2, <2>1 DEF Lives
  <2>3. \A t \in Tasks : pc'[t] \in {"fill", "join"} => t = Resident
    BY <1>2 DEF Lives
  <2> QED
    BY <1>3, <2>1, <2>2, <2>3 DEF Lives
<1> QED
  BY <1>5, <1>6, <1>7, <1>8, <1>9 DEF Placed

LEMMA CriticalInv ==
  IInv /\ (EnterCritical \/ CountUp \/ ExitCritical \/ Open) => IInv'
<1> SUFFICES ASSUME IInv, EnterCritical \/ CountUp \/ ExitCritical \/ Open PROVE IInv'
  OBVIOUS
<1> DEFINE c == pxCurrentTCB
<1>1. /\ c \in Tasks /\ pc \in [Tasks -> {"run", "count", "open", "fill", "join"}]
      /\ nest \in [Tasks -> Nat] /\ uxCriticalNesting = nest[c]
      /\ Types /\ Lives /\ Counts
  BY DEF IInv, Types, Counts
<1>2. PICK own, rank : Placed(own, rank)
  BY DEF IInv
<1>3. /\ at = "task" /\ at' = at
      /\ UNCHANGED <<csaVars, kernelVars, calls, life, new, last>>
      /\ pc[c] \notin {"fill", "join"}
  BY DEF EnterCritical, CountUp, ExitCritical, Open, AtPoint, taskVars
<1>4. PICK x \in {"run", "count", "open"}, y \in Nat :
        /\ pc' = [pc EXCEPT ![c] = x] /\ nest' = [nest EXCEPT ![c] = y]
        /\ uxCriticalNesting' = y
        /\ CCPN' \in {OPEN, CONTEXT, MASKED}
        /\ (CCPN' = MASKED <=> y > 0 \/ x \in {"count", "open"})
        /\ (x = "open" => y = 0)
  <2>1. CASE EnterCritical
    <3>1. nest' = [nest EXCEPT ![c] = nest[c]]
      BY <2>1, <1>1 DEF EnterCritical, taskVars
    <3> QED
      BY <2>1, <3>1, <1>1 DEF EnterCritical, Goto, vPortSetCCPN
  <2>2. CASE CountUp
    <3>1. CCPN = MASKED
      BY <2>2, <1>1 DEF CountUp, AtPoint, Counts, Masks
    <3>2. nest[c] + 1 \in Nat /\ nest[c] + 1 > 0
      BY <1>1
    <3> QED
      BY <2>2, <3>1, <3>2, <1>1 DEF CountUp, Goto
  <2>3. CASE ExitCritical
    <3>1. CCPN = MASKED /\ nest[c] - 1 \in Nat
      BY <2>3, <1>1 DEF ExitCritical, AtPoint, Counts, Masks
    <3>2. (nest[c] = 1 <=> ~(nest[c] - 1 > 0)) /\ (nest[c] = 1 => nest[c] - 1 = 0)
      BY <3>1, <1>1
    <3>3. \/ pc' = [pc EXCEPT ![c] = "open"] /\ nest[c] = 1
          \/ pc' = [pc EXCEPT ![c] = "run"] /\ nest[c] # 1
      BY <2>3, <1>1 DEF ExitCritical, Goto
    <3> QED
      BY <2>3, <3>1, <3>2, <3>3, <1>1 DEF ExitCritical
  <2>4. CASE Open
    <3>1. nest' = [nest EXCEPT ![c] = nest[c]] /\ uxCriticalNesting' = nest[c]
      BY <2>4, <1>1 DEF Open, taskVars
    <3>2. nest[c] = 0
      BY <2>4, <1>1 DEF Open, AtPoint, Counts
    <3>3. nest[c] \in Nat /\ ~(nest[c] > 0)
      BY <1>1, <3>2
    <3>4. pc' = [pc EXCEPT ![c] = "run"] /\ CCPN' = OPEN /\ OPEN # MASKED
      BY <2>4 DEF Open, Goto, vPortSetCCPN, OPEN, MASKED
    <3> QED
      BY <3>1, <3>2, <3>3, <3>4
  <2> QED
    BY <2>1, <2>2, <2>3, <2>4
<1>5. Placed(own, rank)' /\ Lives'
  BY <1>1, <1>2, <1>3, <1>4, TaskGoesOn
<1>6. Types'
  BY <1>1, <1>3, <1>4 DEF Types, csaVars, kernelVars
<1>7. Counts'
  <2>1. \A t \in Tasks \ {c} : nest'[t] = nest[t]
    BY <1>1, <1>4
  <2>2. nest'[c] = y /\ pc'[c] = x
    BY <1>1, <1>4
  <2>3. Masks(c)' <=> y > 0 \/ x \in {"count", "open"}
    BY <1>1, <1>4, <2>2, <1>3 DEF Masks, kernelVars
  <2> QED
    BY <1>1, <1>3, <1>4, <2>1, <2>2, <2>3 DEF Counts, kernelVars
<1> QED
  BY <1>5, <1>6, <1>7 DEF IInv

\* A request, or nothing, changes no part of the invariant.
LEMMA RequestInv ==
  IInv /\ (YieldFromISR \/ UNCHANGED vars) => IInv'
<1> SUFFICES ASSUME IInv, YieldFromISR \/ UNCHANGED vars PROVE IInv'
  OBVIOUS
<1>1. UNCHANGED <<csaVars, CCPN, uxCriticalNesting, kernelVars, at, pc, taskVars>>
  BY DEF YieldFromISR, vars, csaVars, kernelVars, taskVars
<1>2. PICK own, rank : Placed(own, rank)
  BY DEF IInv
<1> USE <1>1 DEF csaVars, kernelVars, taskVars
<1>3. Types' /\ Lives' /\ Counts'
  BY DEF IInv, Types, Lives, Counts, Masks
<1>4. HeadOf' = HeadOf
  BY HeadOfKept
<1>5. Layout(own, rank, link, HeadOf)' /\ Lengths(rank)'
  BY <1>2, <1>4 DEF Placed, Lengths, Extra
<1>6. Returns(own, rank)' /\ Held(own, rank)'
  BY <1>2 DEF Placed, Returns, Held, Masks
<1> QED
  BY <1>3, <1>5, <1>6 DEF IInv, Placed

LEMMA DeleteTaskInv ==
  ASSUME IInv, NEW t \in Tasks, DeleteTask(t)
  PROVE  IInv'
<1>1. PICK own, rank : Placed(own, rank)
  BY DEF IInv
<1>2. /\ life \in [Tasks -> {"none", "ready", "deleted"}]
      /\ life' = [life EXCEPT ![t] = "deleted"] /\ life[t] = "ready" /\ t # Resident
      /\ UNCHANGED <<csaVars, CCPN, uxCriticalNesting, kernelVars, at, pc, nest,
                     calls, new, last>>
      /\ Types /\ Lives /\ Counts
  BY DEF IInv, Types, DeleteTask
<1>3. /\ \A s \in Tasks : life'[s] = "none" <=> life[s] = "none"
      /\ life' \in [Tasks -> {"none", "ready", "deleted"}]
      /\ \A s \in Tasks : life[s] = "deleted" => life'[s] = "deleted"
      /\ \A s \in Tasks : s # t => life'[s] = life[s]
  BY <1>2
<1> USE DEF csaVars, kernelVars
<1>4. Types'
  BY <1>2, <1>3 DEF Types
<1>5. Lives'
  <2>1. pxCurrentTCB \in Tasks /\ Resident \in Tasks /\ new.task \in Tasks
        /\ last.task \in Tasks
    BY <1>2, CsaAssumption DEF Types
  <2> QED
    BY <2>1, <1>2, <1>3 DEF Lives
<1>6. Counts'
  BY <1>2 DEF Counts, Masks
<1>7. HeadOf' = HeadOf
  BY <1>2, HeadOfKept
<1>8. Layout(own, rank, link, HeadOf)'
  BY <1>1, <1>2, <1>7 DEF Placed
<1>9. Lengths(rank)'
  BY <1>1, <1>2, <1>3, <1>7 DEF Placed, Lengths, Extra
<1>10. Returns(own, rank)' /\ Held(own, rank)'
  BY <1>1, <1>2, <1>3 DEF Placed, Returns, Held, Masks
<1> QED
  BY <1>4, <1>5, <1>6, <1>8, <1>9, <1>10 DEF IInv, Placed

LEMMA HeadOfType ==
  ASSUME Types, NEW t \in Tasks
  PROVE  HeadOf[t] = stack[t].csa
BY AreasFacts DEF HeadOf, Head

LEMMA HeadOfEnds == HeadOf["free"] = FCX /\ HeadOf["running"] = PCXI
BY AreasFacts DEF HeadOf, Head

\* The end of a list is its area of rank one.
LEMMA TailOf ==
  ASSUME NEW own, NEW rank, NEW head, Layout(own, rank, link, head),
         NEW p \in Lists, Height(rank, head, p) > 0,
         NEW a, a = CHOOSE b \in Whole(head[p]) : link[b] = Null
  PROVE  a \in Areas /\ own[a] = p /\ rank[a] = 1
<1>1. Height(rank, head, p) \in Nat
  BY HeightType
<1>2. 1 \in 1 .. Height(rank, head, p)
  BY <1>1
<1>3. PICK b \in Areas : own[b] = p /\ rank[b] = 1
  BY <1>2, EveryRank
<1>4. Whole(head[p]) = {x \in Areas : own[x] = p}
  BY WholeOf
<1>5. b \in Whole(head[p]) /\ link[b] = Null
  BY <1>3, <1>4 DEF Layout
<1>6. a \in Whole(head[p]) /\ link[a] = Null
  BY <1>5
<1>7. a \in Areas /\ own[a] = p
  BY <1>4, <1>6
<1>8. ~(rank[a] > 1)
  BY <1>6, <1>7, AreasFacts DEF Layout
<1>9. rank[a] \in Nat /\ rank[a] > 0
  BY <1>7 DEF Layout
<1> QED
  BY <1>7, <1>8, <1>9

LEMMA FindTailInv ==
  ASSUME IInv, NEW t \in Tasks, FindTail(t)
  PROVE  IInv'
<1> DEFINE tail == CHOOSE a \in Whole(stack[t].csa) : link[a] = Null
<1>1. PICK own, rank : Placed(own, rank)
  BY DEF IInv
<1>2. /\ Types /\ Lives /\ Counts /\ Resident \in Tasks
      /\ pc \in [Tasks -> {"run", "count", "open", "fill", "join"}]
      /\ pc' = [pc EXCEPT ![Resident] = "join"] /\ pc[Resident] = "run"
      /\ pxCurrentTCB = Resident /\ life[t] = "deleted" /\ at = "task"
      /\ last' = [task |-> t, tail |-> tail]
      /\ UNCHANGED <<csaVars, CCPN, uxCriticalNesting, kernelVars, at, nest,
                     calls, life, new>>
  BY CsaAssumption DEF IInv, Types, FindTail, AtPoint, Goto
<1>3. t # Resident /\ t \in Lists
  BY <1>2, AreasFacts DEF Lives
<1>4. tail \in Areas /\ own[tail] = t /\ rank[tail] = 1
  <2>1. Height(rank, HeadOf, t) > 0
    <3>1. Height(rank, HeadOf, t) = calls[t] + 2 /\ calls[t] \in Nat
      BY <1>1, <1>2, <1>3 DEF Placed, Lengths, Types
    <3> QED
      BY <3>1
  <2>2. HeadOf[t] = stack[t].csa
    BY <1>2, HeadOfType
  <2> QED
    BY <1>1, <1>3, <2>1, <2>2, TailOf DEF Placed
<1> HIDE DEF tail
<1>5. /\ \A s \in Tasks : s # Resident => pc'[s] = pc[s]
      /\ pc'[Resident] = "join"
      /\ pc' \in [Tasks -> {"run", "count", "open", "fill", "join"}]
      /\ last'.task = t /\ last'.tail = tail
  BY <1>2
<1>6. \A s \in Tasks : Masks(s)' <=> Masks(s)
  BY <1>2, <1>5 DEF Masks
<1> USE DEF csaVars, kernelVars
<1>7. Types'
  <2>1. last' \in [task : Tasks, tail : Heads]
    BY <1>2, <1>4 DEF Heads
  <2> QED
    BY <1>2, <1>5, <2>1 DEF Types
<1>8. Lives'
  <2>1. life[Resident] = "ready"
    BY <1>2 DEF Lives
  <2>2. \A s \in Tasks : life[s] = "none" => nest[s] = 0 /\ calls[s] = 0 /\ pc'[s] = "run"
    BY <1>2, <1>5, <2>1 DEF Lives
  <2>3. \A s \in Tasks : pc'[s] \in {"fill", "join"} => s = Resident
    BY <1>2, <1>5 DEF Lives
  <2>4. new.lower = Null /\ new.upper = Null
    BY <1>2 DEF Lives
  <2> QED
    BY <1>2, <1>3, <1>4, <1>5, <2>1, <2>2, <2>3, <2>4 DEF Lives
<1>9. Counts'
  <2>1. \A s \in Tasks : pc'[s] = "open" => nest[s] = 0
    BY <1>2, <1>5 DEF Counts
  <2> QED
    BY <1>2, <1>6, <2>1 DEF Counts
<1>10. HeadOf' = HeadOf
  BY <1>2, HeadOfKept
<1>11. Layout(own, rank, link, HeadOf)' /\ Lengths(rank)'
  BY <1>1, <1>2, <1>10 DEF Placed, Lengths, Extra
<1>12. Returns(own, rank)'
  BY <1>1, <1>2, <1>6 DEF Placed, Returns
<1>13. Held(own, rank)'
  BY <1>1, <1>2, <1>4, <1>5 DEF Placed, Held
<1> QED
  BY <1>7, <1>8, <1>9, <1>11, <1>12, <1>13 DEF IInv, Placed

-----------------------------------------------------------------------------
(* Contexts saved and restored                                             *)

\* PutOn turns the links of the areas above rank low around.
LEMMA PutOnLinks ==
  ASSUME NEW own, NEW rank, NEW head, Layout(own, rank, link, head),
         NEW p \in Lists, NEW low \in Nat, NEW n \in Nat, n > 0,
         n = Height(rank, head, p) - low, NEW x
  PROVE  LET next2 == PutOn(head[p], n, x)
         IN  /\ next2 = [a \in Areas |-> next2[a]]
             /\ \A a \in Areas : ~(own[a] = p /\ rank[a] > low) => next2[a] = link[a]
             /\ next2[head[p]] = x
             /\ \A a \in Areas : own[a] = p /\ rank[a] > low /\ a # head[p] =>
                  /\ next2[a] \in Areas /\ own[next2[a]] = p
                  /\ rank[next2[a]] = rank[a] + 1
<1> DEFINE H == Height(rank, head, p)
           next2 == PutOn(head[p], n, x)
           S == First(head[p], n)
<1>1. H \in Nat /\ H - n = low /\ H > 0 /\ low < H
  <2>1. H \in Nat
    BY HeightType
  <2> HIDE DEF H
  <2> QED
    BY <2>1 DEF H
<1>2. head[p] \in Areas /\ own[head[p]] = p /\ rank[head[p]] = H
  <2>1. head[p] # Null
    BY <1>1, HeightType
  <2> QED
    BY <2>1, HeightType DEF Layout, Height
<1>3. S = {a \in Areas : own[a] = p /\ rank[a] > low}
  <2>1. First(head[p], n) = {a \in Areas : own[a] = p /\ rank[a] > H - n}
    BY FirstOf
  <2> HIDE DEF H
  <2> QED
    BY <2>1, <1>1
<1>4. /\ next2 = [a \in Areas |-> next2[a]]
      /\ \A a \in Areas : next2[a] = IF a \notin S THEN link[a]
                                     ELSE IF a = head[p] THEN x
                                     ELSE CHOOSE b \in S : link[b] = a
  BY DEF PutOn
<1>5. \A a : a \in S <=> a \in Areas /\ own[a] = p /\ rank[a] > low
  BY <1>3
<1> HIDE DEF next2, S
<1>6. ASSUME NEW a \in S, a # head[p]
      PROVE  next2[a] \in Areas /\ own[next2[a]] = p /\ rank[next2[a]] = rank[a] + 1
  <2>1. rank[a] \in Nat /\ rank[a] > low /\ rank[a] <= H /\ own[a] = p /\ rank[a] > 0
    BY <1>5, HeightType DEF Layout
  <2>2. rank[a] # H
    BY <1>2, <1>5, <1>6, <2>1 DEF Layout
  <2> HIDE DEF H
  <2>3. rank[a] + 1 \in 1 .. H
    BY <2>1, <2>2, <1>1
  <2>4. PICK b \in Areas : own[b] = p /\ rank[b] = rank[a] + 1
    BY <2>3, EveryRank DEF H
  <2>5. b \in S /\ link[b] \in Areas /\ own[link[b]] = p /\ rank[link[b]] = rank[a]
    BY <1>5, <2>1, <2>4 DEF Layout
  <2>6. link[b] = a
    BY <1>5, <2>1, <2>5 DEF Layout
  <2>7. next2[a] \in S /\ link[next2[a]] = a
    BY <1>4, <1>6, <2>5, <2>6
  <2>8. rank[next2[a]] # 1 /\ rank[next2[a]] \in Nat /\ rank[next2[a]] > 0
        /\ next2[a] \in Areas /\ own[next2[a]] = p
    BY <1>5, <2>7, AreasFacts DEF Layout
  <2>9. rank[a] = rank[next2[a]] - 1
    BY <2>7, <2>8 DEF Layout
  <2> QED
    BY <2>8, <2>9
<1>7. \A a \in Areas : a \notin S => next2[a] = link[a]
  BY <1>4
<1>8. next2[head[p]] = x
  BY <1>1, <1>2, <1>4, <1>5
<1>9. next2 = [a \in Areas |-> next2[a]]
  BY <1>4
<1> QED
  BY <1>5, <1>6, <1>7, <1>8, <1>9 DEF next2

\* The area n links down a list that reaches so far.
LEMMA TopOf ==
  ASSUME NEW own, NEW rank, NEW head, Layout(own, rank, link, head),
         NEW p \in Lists, NEW n \in Nat, n > 0, NEW top, top # Null,
         top = Down(link, head[p], n - 1)
  PROVE  /\ n <= Height(rank, head, p)
         /\ top \in Areas /\ own[top] = p
         /\ rank[top] = Height(rank, head, p) - n + 1
<1>1. n - 1 \in Nat /\ Height(rank, head, p) \in Nat
  BY HeightType
<1>2. n - 1 < Height(rank, head, p)
  BY <1>1, DownList
<1>3. top \in Areas /\ own[top] = p /\ rank[top] = Height(rank, head, p) - (n - 1)
  BY <1>1, <1>2, DownList
<1> QED
  BY <1>1, <1>2, <1>3

\* What saving or restoring n contexts does to the lists.
LEMMA ShiftLayout ==
  ASSUME NEW own, NEW rank, Layout(own, rank, link, HeadOf),
         NEW p \in {"free", "running"}, NEW q \in {"free", "running"}, p # q,
         NEW n \in Nat, n > 0, NEW top, top # Null,
         top = Down(link, HeadOf[p], n - 1),
         link' = PutOn(HeadOf[p], n, HeadOf[q]),
         HeadOf'[p] = link[top], HeadOf'[q] = top, stack' = stack
  PROVE  \E own2, rank2 :
           /\ Layout(own2, rank2, link', HeadOf')
           /\ Height(rank2, HeadOf', p) = Height(rank, HeadOf, p) - n
           /\ Height(rank2, HeadOf', q) = Height(rank, HeadOf, q) + n
           /\ \A t \in Tasks : Height(rank2, HeadOf', t) = Height(rank, HeadOf, t)
           /\ \A a \in Areas : own[a] # p =>
                own2[a] = own[a] /\ rank2[a] = rank[a]
           /\ \A a \in Areas : own[a] = p =>
                own2[a] = q \/ (own2[a] = p /\ rank2[a] = rank[a])
           /\ own[HeadOf[p]] = p /\ HeadOf[p] \in Areas
           /\ own2[HeadOf[p]] = q /\ rank2[HeadOf[p]] = Height(rank, HeadOf, q) + 1
<1> DEFINE hp == Height(rank, HeadOf, p)
           hq == Height(rank, HeadOf, q)
           low == hp - n
           own2 == MovedOwn(own, rank, p, q, low)
           rank2 == MovedRank(own, rank, HeadOf, p, q, low)
<1>1. p \in Lists /\ q \in Lists /\ \A t \in Tasks : t # p /\ t # q
  BY AreasFacts
<1>2. n <= hp /\ top \in Areas /\ own[top] = p /\ rank[top] = hp - n + 1
  BY <1>1, TopOf
<1>3. hp \in Nat /\ hq \in Nat
  BY <1>1, HeightType
<1> HIDE DEF hp, hq
<1>4. low \in Nat /\ n = hp - low /\ rank[top] = low + 1 /\ low < hp
  BY <1>2, <1>3
<1> HIDE DEF low
<1>5. /\ link' = [a \in Areas |-> link'[a]]
      /\ \A a \in Areas : ~(own[a] = p /\ rank[a] > low) => link'[a] = link[a]
      /\ link'[HeadOf[p]] = HeadOf[q]
      /\ \A a \in Areas : own[a] = p /\ rank[a] > low /\ a # HeadOf[p] =>
           link'[a] \in Areas /\ own[link'[a]] = p /\ rank[link'[a]] = rank[a] + 1
  BY <1>1, <1>4, PutOnLinks DEF hp
<1>6. /\ HeadOf' = [x \in Lists |-> HeadOf'[x]]
      /\ HeadOf'[p] = link[top] /\ HeadOf'[q] = top
      /\ \A x \in Lists : x # p /\ x # q => HeadOf'[x] = HeadOf[x]
  <2>1. \A x \in Tasks : HeadOf'[x] = HeadOf[x]
    BY AreasFacts DEF HeadOf, Head
  <2>2. \A x \in Lists : x # p /\ x # q => HeadOf'[x] = HeadOf[x]
    BY <2>1, <1>1 DEF Lists
  <2> QED
    BY <2>2 DEF HeadOf
<1>7. /\ Layout(own2, rank2, link', HeadOf')
      /\ \A x \in Lists : Height(rank2, HeadOf', x) =
                            IF x = p THEN low ELSE IF x = q THEN hq + hp - low
                            ELSE Height(rank, HeadOf, x)
  <2> PICK next2, head2 : next2 = link' /\ head2 = HeadOf'
    OBVIOUS
  <2>1. /\ next2 = [a \in Areas |-> next2[a]]
        /\ \A a \in Areas : ~(own[a] = p /\ rank[a] > low) => next2[a] = link[a]
        /\ next2[HeadOf[p]] = HeadOf[q]
    BY <1>5
  <2>2. \A a \in Areas : own[a] = p /\ rank[a] > low /\ a # HeadOf[p] =>
             next2[a] \in Areas /\ own[next2[a]] = p /\ rank[next2[a]] = rank[a] + 1
    BY <1>5
  <2>3. /\ head2 = [x \in Lists |-> head2[x]]
        /\ head2[p] = link[top] /\ head2[q] = top
        /\ \A x \in Lists : x # p /\ x # q => head2[x] = HeadOf[x]
    BY <1>6
  <2>4. next2 \in [Areas -> Heads] /\ head2 \in [Lists -> Heads]
    <3>1. /\ link \in [Areas -> Heads] /\ HeadOf \in [Lists -> Heads]
          /\ top \in Heads /\ link[top] \in Heads /\ HeadOf[q] \in Heads
      BY <1>1, <1>2 DEF Layout, Heads
    <3>2. \A a \in Areas : next2[a] \in Heads
      BY <2>1, <2>2, <3>1 DEF Heads
    <3>3. \A x \in Lists : head2[x] \in Heads
      BY <2>3, <3>1
    <3> QED
      BY <2>1, <2>3, <3>2, <3>3
  <2>5. /\ Layout(own2, rank2, next2, head2)
        /\ \A x \in Lists : Height(rank2, head2, x) =
                            IF x = p THEN low ELSE IF x = q THEN hq + hp - low
                            ELSE Height(rank, HeadOf, x)
    <3>1. /\ Layout(own, rank, link, HeadOf) /\ p \in Lists /\ q \in Lists /\ p # q
          /\ low \in Nat /\ top \in Areas /\ own[top] = p /\ rank[top] = low + 1
      BY <1>1, <1>2, <1>4
    <3>2. Layout(own2, rank2, next2, head2)
      BY ONLY <3>1, <2>1, <2>2, <2>3, <2>4, MoveLayout, SMTT(30) DEF own2, rank2
    <3>3. \A x \in Lists : Height(rank2, head2, x) =
                            IF x = p THEN low ELSE IF x = q THEN hq + hp - low
                            ELSE Height(rank, HeadOf, x)
      BY ONLY <3>1, <2>1, <2>2, <2>3, <2>4, MoveLayout, SMTT(30) DEF rank2, hp, hq
    <3> QED
      BY <3>2, <3>3
  <2> QED
    BY <2>5
<1>8. HeadOf[p] \in Areas /\ own[HeadOf[p]] = p /\ rank[HeadOf[p]] = hp
  <2>1. HeadOf[p] # Null
    BY <1>1, <1>3, <1>4, HeightType DEF hp
  <2> QED
    BY <2>1, <1>1, HeightType DEF Layout, Height, hp
<1>9. \A a \in Areas :
        /\ own2[a] = IF own[a] = p /\ rank[a] > low THEN q ELSE own[a]
        /\ rank2[a] = IF own[a] = p /\ rank[a] > low THEN hq + hp - rank[a] + 1
                      ELSE rank[a]
  BY DEF MovedOwn, MovedRank, hp, hq
<1> HIDE DEF own2, rank2
<1>10. own2[HeadOf[p]] = q /\ rank2[HeadOf[p]] = hq + 1
  BY <1>3, <1>4, <1>8, <1>9
<1>11. /\ Height(rank2, HeadOf', p) = hp - n /\ Height(rank2, HeadOf', q) = hq + n
       /\ \A t \in Tasks : Height(rank2, HeadOf', t) = Height(rank, HeadOf, t)
  BY <1>1, <1>3, <1>4, <1>7, AreasFacts
<1>12. /\ \A a \in Areas : own[a] # p => own2[a] = own[a] /\ rank2[a] = rank[a]
       /\ \A a \in Areas : own[a] = p =>
            own2[a] = q \/ (own2[a] = p /\ rank2[a] = rank[a])
  BY <1>9
<1> QED
  BY <1>7, <1>8, <1>10, <1>11, <1>12 DEF hp, hq

\* What holds of the other tasks when areas have only gone from p to q.
OthersKept(own, rank) ==
  /\ \A t \in Tasks \ {pxCurrentTCB} :
       Height(rank, HeadOf, t) = IF life[t] = "none" THEN 0 ELSE calls[t] + 2
  /\ \A t \in Tasks \ {pxCurrentTCB}, a \in Areas :
       life[t] # "none" /\ rank[a] = calls[t] + 1 /\ own[a] = t =>
         (saved[a] = MASKED <=> Masks(t))
  /\ Held(own, rank)

LEMMA OthersAreKept ==
  ASSUME Types, Lives, NEW own, NEW rank, Placed(own, rank),
         NEW p \in {"free", "running"}, NEW q \in {"free", "running"},
         NEW own2, NEW rank2,
         \A t \in Tasks : Height(rank2, HeadOf', t) = Height(rank, HeadOf, t),
         \A a \in Areas : own[a] # p => own2[a] = own[a] /\ rank2[a] = rank[a],
         \A a \in Areas : own[a] = p => own2[a] = q \/ own2[a] = p,
         \A a \in Areas : own[a] # p => saved'[a] = saved[a],
         UNCHANGED <<pxCurrentTCB, pc, nest, life, new, last>>,
         \A t \in Tasks \ {pxCurrentTCB} : calls'[t] = calls[t]
  PROVE  OthersKept(own2, rank2)'
<1>1. \A t \in Tasks : t # p /\ t # q /\ t # "new"
  BY AreasFacts
<1>2. p # "new" /\ q # "new" /\ last.task \in Tasks /\ Resident \in Tasks
  BY CsaAssumption DEF Types
<1>3. \A t \in Tasks \ {pxCurrentTCB} :
        Height(rank2, HeadOf', t) = IF life[t] = "none" THEN 0 ELSE calls[t] + 2
  BY DEF Placed, Lengths
<1>4. ASSUME NEW t \in Tasks \ {pxCurrentTCB}, NEW a \in Areas,
             life[t] # "none", rank2[a] = calls[t] + 1, own2[a] = t
      PROVE  saved'[a] = MASKED <=> Masks(t)
  <2>1. own[a] # p
    BY <1>1, <1>4
  <2>2. own[a] = t /\ rank[a] = calls[t] + 1 /\ saved'[a] = saved[a]
    BY <2>1, <1>4
  <2> QED
    BY <2>2, <1>4 DEF Placed, Returns
<1>5. Held(own2, rank2)'
  <2>1. Held(own, rank)
    BY DEF Placed
  <2>2. \A a \in Areas : own2[a] = "new" <=> own[a] = "new"
    BY <1>2
  <2>3. ASSUME pc[Resident] = "join"
        PROVE  own2[last.tail] = last.task /\ rank2[last.tail] = 1
    <3>1. last.tail \in Areas
      BY <2>3 DEF Lives
    <3> QED
      BY <3>1, <2>1, <2>3, <1>1, <1>2 DEF Held
  <2> QED
    BY <2>1, <2>2, <2>3 DEF Held
<1>6. \A t \in Tasks : Masks(t)' <=> Masks(t)
  BY DEF Masks
<1> QED
  BY <1>3, <1>4, <1>5, <1>6 DEF OthersKept

\* What saving n contexts does to the invariant.
LEMMA PushKeeps ==
  ASSUME Types, Lives, NEW own, NEW rank, Placed(own, rank), NEW n \in Nat, n > 0,
         NEW x \in {OPEN, CONTEXT, MASKED}, Push(n, x),
         UNCHANGED <<pxCurrentTCB, stack, pc, nest, life, new, last>>,
         \A t \in Tasks \ {pxCurrentTCB} : calls'[t] = calls[t]
  PROVE  /\ FCX \in Areas /\ saved'[FCX] = x
         /\ saved' \in [Areas -> {OPEN, CONTEXT, MASKED}]
         /\ \E own2, rank2 :
              /\ Layout(own2, rank2, link, HeadOf)' /\ OthersKept(own2, rank2)'
              /\ Height(rank2, HeadOf', "running") =
                   Height(rank, HeadOf, "running") + n
              /\ own2[FCX] = "running"
              /\ rank2[FCX] = Height(rank, HeadOf, "running") + 1
<1> DEFINE top == Down(link, FCX, n - 1)
<1>1. /\ top # Null /\ FCX' = link[top] /\ PCXI' = top
      /\ link' = PutOn(FCX, n, PCXI) /\ saved' = [saved EXCEPT ![FCX] = x]
  BY DEF Push
<1>2. HeadOf["free"] = FCX /\ HeadOf["running"] = PCXI
      /\ HeadOf'["free"] = FCX' /\ HeadOf'["running"] = PCXI'
  BY AreasFacts DEF HeadOf, Head
<1>3. Layout(own, rank, link, HeadOf)
  BY DEF Placed
<1> HIDE DEF top
<1>4. top = Down(link, HeadOf["free"], n - 1) /\ top # Null
      /\ link' = PutOn(HeadOf["free"], n, HeadOf["running"])
      /\ HeadOf'["free"] = link[top] /\ HeadOf'["running"] = top
  BY <1>1, <1>2 DEF top
<1>5. PICK own2, rank2 :
        /\ Layout(own2, rank2, link', HeadOf')
        /\ Height(rank2, HeadOf', "running") = Height(rank, HeadOf, "running") + n
        /\ \A t \in Tasks : Height(rank2, HeadOf', t) = Height(rank, HeadOf, t)
        /\ \A a \in Areas : own[a] # "free" =>
             own2[a] = own[a] /\ rank2[a] = rank[a]
        /\ \A a \in Areas : own[a] = "free" =>
             own2[a] = "running" \/ (own2[a] = "free" /\ rank2[a] = rank[a])
        /\ own[HeadOf["free"]] = "free" /\ HeadOf["free"] \in Areas
        /\ own2[HeadOf["free"]] = "running"
        /\ rank2[HeadOf["free"]] = Height(rank, HeadOf, "running") + 1
  <2> PICK t2 : t2 = top
    OBVIOUS
  <2>1. "free" # "running"
    OBVIOUS
  <2> QED
    BY <1>3, <1>4, <2>1, ShiftLayout
<1>6. FCX \in Areas /\ own[FCX] = "free" /\ own2[FCX] = "running"
      /\ rank2[FCX] = Height(rank, HeadOf, "running") + 1
  BY <1>2, <1>5
<1>7. saved' \in [Areas -> {OPEN, CONTEXT, MASKED}] /\ saved'[FCX] = x
      /\ \A a \in Areas : own[a] # "free" => saved'[a] = saved[a]
  BY <1>1, <1>6 DEF Types
<1>8. OthersKept(own2, rank2)'
  BY <1>5, <1>7, OthersAreKept
<1> QED
  BY <1>5, <1>6, <1>7, <1>8

\* What restoring n contexts does to the invariant.
LEMMA PopKeeps ==
  ASSUME Types, Lives, NEW own, NEW rank, Placed(own, rank), NEW n \in Nat, n > 0,
         Pop(n), UNCHANGED <<pxCurrentTCB, stack, pc, nest, life, new, last>>,
         \A t \in Tasks \ {pxCurrentTCB} : calls'[t] = calls[t]
  PROVE  /\ LET top == Down(link, PCXI, n - 1)
            IN  /\ top \in Areas /\ own[top] = "running"
                /\ rank[top] = Height(rank, HeadOf, "running") - n + 1
         /\ saved' \in [Areas -> {OPEN, CONTEXT, MASKED}]
         /\ \E own2, rank2 :
              /\ Layout(own2, rank2, link, HeadOf)' /\ OthersKept(own2, rank2)'
              /\ Height(rank2, HeadOf', "running") =
                   Height(rank, HeadOf, "running") - n
<1> DEFINE top == Down(link, PCXI, n - 1)
<1>1. /\ top # Null /\ FCX' = top /\ PCXI' = link[top]
      /\ link' = PutOn(PCXI, n, FCX)
      /\ saved' = [a \in Areas |-> IF a \in First(PCXI, n) THEN OPEN ELSE saved[a]]
  BY DEF Pop
<1>2. HeadOf["free"] = FCX /\ HeadOf["running"] = PCXI
      /\ HeadOf'["free"] = FCX' /\ HeadOf'["running"] = PCXI'
  BY AreasFacts DEF HeadOf, Head
<1>3. Layout(own, rank, link, HeadOf)
  BY DEF Placed
<1> HIDE DEF top
<1>4. top = Down(link, HeadOf["running"], n - 1) /\ top # Null
      /\ link' = PutOn(HeadOf["running"], n, HeadOf["free"])
      /\ HeadOf'["running"] = link[top] /\ HeadOf'["free"] = top
  BY <1>1, <1>2 DEF top
<1>5. PICK own2, rank2 :
        /\ Layout(own2, rank2, link', HeadOf')
        /\ Height(rank2, HeadOf', "running") = Height(rank, HeadOf, "running") - n
        /\ \A t \in Tasks : Height(rank2, HeadOf', t) = Height(rank, HeadOf, t)
        /\ \A a \in Areas : own[a] # "running" =>
             own2[a] = own[a] /\ rank2[a] = rank[a]
        /\ \A a \in Areas : own[a] = "running" =>
             own2[a] = "free" \/ (own2[a] = "running" /\ rank2[a] = rank[a])
  <2> PICK t2 : t2 = top
    OBVIOUS
  <2>1. "free" # "running"
    OBVIOUS
  <2> QED
    BY <1>3, <1>4, <2>1, ShiftLayout
<1>6. /\ top \in Areas /\ own[top] = "running"
      /\ rank[top] = Height(rank, HeadOf, "running") - n + 1
  BY <1>3, <1>4, AreasFacts, TopOf
<1>7. saved' \in [Areas -> {OPEN, CONTEXT, MASKED}]
      /\ \A a \in Areas : own[a] # "running" => saved'[a] = saved[a]
  <2>1. \A a \in First(PCXI, n) : own[a] = "running"
    BY <1>2, <1>3, AreasFacts, FirstOf
  <2> QED
    BY <1>1, <2>1 DEF Types
<1>8. OthersKept(own2, rank2)'
  BY <1>5, <1>7, OthersAreKept
<1> QED
  BY <1>5, <1>6, <1>7, <1>8 DEF top

-----------------------------------------------------------------------------
(* Calls, interrupts and traps, and the returns from them                  *)

LEMMA TaskCallInv ==
  ASSUME IInv, TaskCall \/ TaskReturn
  PROVE  IInv'
<1> DEFINE c == pxCurrentTCB
<1>1. PICK own, rank : Placed(own, rank)
  BY DEF IInv
<1>2. /\ Types /\ Lives /\ Counts /\ c \in Tasks /\ at = "task" /\ pc[c] = "run"
      /\ calls \in [Tasks -> Nat] /\ life[c] = "ready"
      /\ UNCHANGED <<CCPN, SRR, uxCriticalNesting, kernelVars, at, pc, nest, life,
                     new, last>>
  BY DEF IInv, Types, TaskCall, TaskReturn, AtPoint, Alive
<1> USE DEF kernelVars
<1>3. Height(rank, HeadOf, "running") = calls[c]
  BY <1>1, <1>2 DEF Placed, Lengths, Extra, Types
<1>4. /\ calls' \in [Tasks -> Nat] /\ \A t \in Tasks \ {c} : calls'[t] = calls[t]
      /\ saved' \in [Areas -> {OPEN, CONTEXT, MASKED}]
      /\ \E own2, rank2 :
           /\ Layout(own2, rank2, link, HeadOf)' /\ OthersKept(own2, rank2)'
           /\ Height(rank2, HeadOf', "running") = calls'[c]
  <2>1. CASE TaskCall
    <3>1. /\ calls' = [calls EXCEPT ![c] = calls[c] + 1] /\ Push(1, OPEN)
          /\ OPEN \in {OPEN, CONTEXT, MASKED}
      BY <2>1 DEF TaskCall
    <3>2. calls' \in [Tasks -> Nat] /\ calls'[c] = calls[c] + 1
          /\ \A t \in Tasks \ {c} : calls'[t] = calls[t]
      BY <1>2, <3>1
    <3>3. /\ saved' \in [Areas -> {OPEN, CONTEXT, MASKED}]
          /\ \E own2, rank2 :
               /\ Layout(own2, rank2, link, HeadOf)' /\ OthersKept(own2, rank2)'
               /\ Height(rank2, HeadOf', "running") =
                    Height(rank, HeadOf, "running") + 1
      BY <1>1, <1>2, <3>1, <3>2, PushKeeps
    <3> QED
      BY <1>3, <3>2, <3>3
  <2>2. CASE TaskReturn
    <3>1. /\ calls' = [calls EXCEPT ![c] = calls[c] - 1] /\ Pop(1) /\ calls[c] > 0
      BY <2>2 DEF TaskReturn
    <3>2. calls' \in [Tasks -> Nat] /\ calls'[c] = calls[c] - 1
          /\ \A t \in Tasks \ {c} : calls'[t] = calls[t]
      BY <1>2, <3>1
    <3>3. /\ saved' \in [Areas -> {OPEN, CONTEXT, MASKED}]
          /\ \E own2, rank2 :
               /\ Layout(own2, rank2, link, HeadOf)' /\ OthersKept(own2, rank2)'
               /\ Height(rank2, HeadOf', "running") =
                    Height(rank, HeadOf, "running") - 1
      BY <1>1, <1>2, <3>1, <3>2, PopKeeps
    <3> QED
      BY <1>3, <3>2, <3>3
  <2> QED
    BY <2>1, <2>2
<1>5. \E own2, rank2 : Placed(own2, rank2)'
  <2>1. PICK own2, rank2 :
           /\ Layout(own2, rank2, link, HeadOf)' /\ OthersKept(own2, rank2)'
           /\ Height(rank2, HeadOf', "running") = calls'[c]
    BY <1>4
  <2>2. at' = "task" /\ c' = c /\ calls'[c] + 0 = calls'[c]
    BY <1>2, <1>4
  <2>3. Lengths(rank2)' /\ Returns(own2, rank2)'
    BY <2>1, <2>2 DEF OthersKept, Lengths, Returns, Extra
  <2> QED
    BY <2>1, <2>3 DEF Placed, OthersKept
<1>6. Types'
  BY <1>2, <1>4 DEF Types
<1>7. Lives'
  BY <1>2, <1>4 DEF Lives
<1>8. Counts'
  BY <1>2 DEF Counts, Masks
<1> QED
  BY <1>5, <1>6, <1>7, <1>8 DEF IInv

LEMMA InterruptInv ==
  ASSUME IInv, ContextInterrupt \/ Syscall
  PROVE  IInv'
<1> DEFINE c == pxCurrentTCB
<1>1. PICK own, rank : Placed(own, rank)
  BY DEF IInv
<1>2. /\ Types /\ Lives /\ Counts /\ c \in Tasks /\ at = "task"
      /\ CCPN \in {OPEN, CONTEXT, MASKED} /\ calls \in [Tasks -> Nat]
      /\ UNCHANGED <<uxCriticalNesting, kernelVars, pc, taskVars>>
  BY DEF IInv, Types, ContextInterrupt, Syscall, AtPoint
<1> USE DEF kernelVars, taskVars
<1>3. Height(rank, HeadOf, "running") = calls[c] /\ calls[c] \in Nat
  BY <1>1, <1>2 DEF Placed, Lengths, Extra, Types
<1>4. PICK n \in Nat :
        /\ n > 0 /\ Push(n, CCPN) /\ n = Extra'
        /\ at' \in {"handler", "syscall"} /\ CCPN' \in {OPEN, CONTEXT, MASKED}
  <2>1. CASE ContextInterrupt
    BY <2>1 DEF ContextInterrupt, Extra, OPEN, CONTEXT, MASKED
  <2>2. CASE Syscall
    <3>1. 2 + CallDepth \in Nat /\ 2 + CallDepth > 0
      <4>1. CallDepth \in Nat
        BY CsaAssumption
      <4> QED
        BY <4>1
    <3>2. at' = "syscall" /\ Push(2 + CallDepth, CCPN) /\ CCPN' = CCPN
      BY <2>2 DEF Syscall
    <3> QED
      BY <3>1, <3>2, <1>2 DEF Extra
  <2> QED
    BY <2>1, <2>2
<1>5. /\ FCX \in Areas /\ saved'[FCX] = CCPN
      /\ saved' \in [Areas -> {OPEN, CONTEXT, MASKED}]
      /\ \E own2, rank2 :
           /\ Layout(own2, rank2, link, HeadOf)' /\ OthersKept(own2, rank2)'
           /\ Height(rank2, HeadOf', "running") = calls[c] + n
           /\ own2[FCX] = "running" /\ rank2[FCX] = calls[c] + 1
  BY <1>1, <1>2, <1>3, <1>4, PushKeeps
<1>6. PICK own2, rank2 :
           /\ Layout(own2, rank2, link, HeadOf)' /\ OthersKept(own2, rank2)'
           /\ Height(rank2, HeadOf', "running") = calls[c] + n
           /\ own2[FCX] = "running" /\ rank2[FCX] = calls[c] + 1
  BY <1>5
<1>7. Masks(c)' <=> Masks(c)
  BY <1>2 DEF Masks
<1>8. Placed(own2, rank2)'
  <2>1. Lengths(rank2)'
    BY <1>2, <1>4, <1>6 DEF Lengths, OthersKept
  <2>2. ASSUME NEW a \in Areas, own2[a] = "running", rank2[a] = calls[c] + 1
        PROVE  saved'[a] = MASKED <=> Masks(c)'
    <3>1. a = FCX
      BY <1>5, <1>6, <2>2 DEF Layout
    <3>2. CCPN = MASKED <=> Masks(c)
      BY <1>2 DEF Counts
    <3> QED
      BY <3>1, <3>2, <1>5, <1>7
  <2>3. Returns(own2, rank2)'
    BY <1>2, <1>6, <2>2 DEF Returns, OthersKept
  <2> QED
    BY <1>6, <2>1, <2>3 DEF Placed, OthersKept
<1>9. Types'
  BY <1>2, <1>4, <1>5 DEF Types
<1>10. Lives'
  BY <1>2 DEF Lives
<1>11. Counts'
  BY <1>2, <1>4 DEF Counts, Masks
<1> QED
  BY <1>8, <1>9, <1>10, <1>11 DEF IInv

LEMMA ReturnInv ==
  ASSUME IInv, InterruptReturn \/ SyscallReturn
  PROVE  IInv'
<1> DEFINE c == pxCurrentTCB
<1>1. PICK own, rank : Placed(own, rank)
  BY DEF IInv
<1>2. /\ Types /\ Lives /\ Counts /\ c \in Tasks /\ calls \in [Tasks -> Nat]
      /\ saved \in [Areas -> {OPEN, CONTEXT, MASKED}]
  BY DEF IInv, Types
<1>3. PICK n \in Nat :
        /\ n > 0 /\ n = Extra /\ Pop(n) /\ at # "task" /\ at' = "task"
        /\ CCPN' = saved[Down(link, PCXI, n - 1)]
        /\ UNCHANGED <<uxCriticalNesting, kernelVars, pc, taskVars>>
  <2>1. CASE InterruptReturn
    BY <2>1 DEF InterruptReturn, ReturnFrom, Extra
  <2>2. CASE SyscallReturn
    <3>1. 2 + CallDepth \in Nat /\ 2 + CallDepth > 0
      <4>1. CallDepth \in Nat
        BY CsaAssumption
      <4> QED
        BY <4>1
    <3> DEFINE m == 2 + CallDepth
    <3>2. m = Extra
      BY <2>2 DEF SyscallReturn, ReturnFrom, Extra
    <3>3. /\ Pop(m) /\ at # "task" /\ at' = "task"
          /\ CCPN' = saved[Down(link, PCXI, m - 1)]
          /\ UNCHANGED <<uxCriticalNesting, kernelVars, pc, taskVars>>
      BY <2>2 DEF SyscallReturn, ReturnFrom
    <3> HIDE DEF m
    <3>4. m \in Nat /\ m > 0
      BY <3>1 DEF m
    <3> QED
      BY <3>2, <3>3, <3>4
  <2> QED
    BY <2>1, <2>2
<1> USE DEF kernelVars, taskVars
<1> DEFINE top == Down(link, PCXI, n - 1)
<1>4. Height(rank, HeadOf, "running") = calls[c] + n /\ calls[c] \in Nat
  BY <1>1, <1>2, <1>3 DEF Placed, Lengths
<1>5. /\ top \in Areas /\ own[top] = "running"
      /\ rank[top] = Height(rank, HeadOf, "running") - n + 1
      /\ saved' \in [Areas -> {OPEN, CONTEXT, MASKED}]
      /\ \E own2, rank2 :
           /\ Layout(own2, rank2, link, HeadOf)' /\ OthersKept(own2, rank2)'
           /\ Height(rank2, HeadOf', "running") =
                Height(rank, HeadOf, "running") - n
  BY <1>1, <1>2, <1>3, PopKeeps
<1>6. PICK own2, rank2 :
           /\ Layout(own2, rank2, link, HeadOf)' /\ OthersKept(own2, rank2)'
           /\ Height(rank2, HeadOf', "running") = calls[c]
  BY <1>4, <1>5
<1> HIDE DEF top
<1>7. rank[top] = calls[c] + 1 /\ CCPN' = saved[top]
  BY <1>3, <1>4, <1>5 DEF top
<1>8. saved[top] = MASKED <=> Masks(c)
  BY <1>1, <1>2, <1>3, <1>5, <1>7 DEF Placed, Returns, Lives
<1>9. Placed(own2, rank2)'
  <2>1. at' = "task" /\ c' = c /\ calls'[c] + 0 = calls[c]
    BY <1>3, <1>4
  <2>2. Lengths(rank2)' /\ Returns(own2, rank2)'
    BY <1>6, <2>1 DEF OthersKept, Lengths, Returns, Extra
  <2> QED
    BY <1>6, <2>2 DEF Placed, OthersKept
<1>10. Types'
  BY <1>2, <1>3, <1>5, <1>7 DEF Types
<1>11. Lives'
  BY <1>2, <1>3 DEF Lives
<1>12. Counts'
  <2>1. Masks(c)' <=> Masks(c)
    BY <1>3 DEF Masks
  <2> QED
    BY <1>2, <1>3, <1>7, <1>8, <2>1 DEF Counts
<1> QED
  BY <1>9, <1>10, <1>11, <1>12 DEF IInv

-----------------------------------------------------------------------------
(* The context switch                                                      *)

\* A switch to another task.
SwitchTo(t, depth) ==
  /\ t \in Tasks \ {pxCurrentTCB} /\ life[t] = "ready" /\ pxCurrentTCB' = t
  /\ vPortLoadContext(t, depth)
  /\ stack' = [vPortSaveContext(depth) EXCEPT ![t] = NoStack]
  /\ UNCHANGED <<FCX, saved, CCPN, SRR, pc, taskVars>>

\* What it writes, in terms of the heads of the lists.
SwitchedLists(own, rank, low, depth, t) ==
  /\ link' \in [Areas -> Heads] /\ HeadOf' \in [Lists -> Heads]
  /\ \A a \in Areas :
       link'[a] = IF own[a] = "running" /\ rank[a] = low + 1
                    THEN HeadOf[t] ELSE link[a]
  /\ HeadOf'["running"] = IF depth = 0 THEN HeadOf[t] ELSE HeadOf["running"]
  /\ HeadOf'[pxCurrentTCB] = Down(link, HeadOf["running"], depth)
  /\ HeadOf'[t] = Null
  /\ \A p \in Lists \ {pxCurrentTCB, t, "running"} : HeadOf'[p] = HeadOf[p]
  /\ stack' \in [Tasks -> [csa : Heads, nesting : Nat]]
  /\ stack'[t] = NoStack /\ stack'[pxCurrentTCB].nesting = uxCriticalNesting
  /\ \A s \in Tasks \ {t, pxCurrentTCB} : stack'[s] = stack[s]

LEMMA SwitchedHeads ==
  ASSUME Types, NEW own, NEW rank, Layout(own, rank, link, HeadOf),
         NEW depth \in Nat, NEW low \in Nat,
         Height(rank, HeadOf, "running") = low + depth,
         NEW t, SwitchTo(t, depth)
  PROVE  SwitchedLists(own, rank, low, depth, t)
<1> DEFINE c == pxCurrentTCB
           hr == Height(rank, HeadOf, "running")
           d == Down(link, PCXI, depth)
<1>1. /\ c \in Tasks /\ t \in Tasks /\ t # c /\ FCX' = FCX
      /\ stack \in [Tasks -> [csa : Heads, nesting : Nat]] /\ uxCriticalNesting \in Nat /\ link \in [Areas -> Heads]
      /\ HeadOf \in [Lists -> Heads] /\ hr = low + depth
  BY DEF Types, Layout, SwitchTo
<1>2. HeadOf["free"] = FCX /\ HeadOf["running"] = PCXI
      /\ HeadOf'["free"] = FCX' /\ HeadOf'["running"] = PCXI'
      /\ \A s \in Tasks : HeadOf[s] = stack[s].csa /\ HeadOf'[s] = stack'[s].csa
  BY AreasFacts DEF HeadOf, Head
<1>3. d \in Heads
  <2>1. "running" \in Lists
    BY AreasFacts
  <2>2. Down(link, HeadOf["running"], depth) \in Areas \cup {Null}
    BY <2>1, DownList
  <2> QED
    BY <2>2, <1>2 DEF Heads
<1>4. stack' = [stack EXCEPT ![c] = [csa |-> d, nesting |-> uxCriticalNesting],
                             ![t] = NoStack]
  BY DEF SwitchTo, vPortSaveContext, LowerAt
<1> HIDE DEF d, hr
<1>5. /\ stack' \in [Tasks -> [csa : Heads, nesting : Nat]]
      /\ stack'[t] = NoStack /\ stack'[c].csa = d
      /\ stack'[c].nesting = uxCriticalNesting
      /\ \A s \in Tasks \ {t, c} : stack'[s] = stack[s]
  <2>1. NoStack \in [csa : Heads, nesting : Nat] /\ Null \in Heads
    BY DEF NoStack, Heads
  <2>2. [csa |-> d, nesting |-> uxCriticalNesting] \in [csa : Heads, nesting : Nat]
    BY <1>1, <1>3
  <2> DEFINE r == [csa |-> d, nesting |-> uxCriticalNesting]
  <2>3. r \in [csa : Heads, nesting : Nat] /\ r.csa = d
        /\ r.nesting = uxCriticalNesting
    BY <2>2
  <2>4. stack' = [stack EXCEPT ![c] = r, ![t] = NoStack]
    BY <1>4
  <2> HIDE DEF r
  <2>5. /\ stack'[t] = NoStack /\ stack'[c] = r
        /\ \A s \in Tasks \ {t, c} : stack'[s] = stack[s]
    BY <1>1, <2>4
  <2>6. stack' \in [Tasks -> [csa : Heads, nesting : Nat]]
    BY <1>1, <2>1, <2>3, <2>4
  <2> QED
    BY <2>3, <2>5, <2>6
<1>6. /\ PCXI' = IF depth = 0 THEN stack[t].csa ELSE PCXI
      /\ \A a \in Areas : link'[a] = IF own[a] = "running" /\ rank[a] = low + 1
                                       THEN stack[t].csa ELSE link[a]
      /\ link' \in [Areas -> Heads]
  <2>1. \A a \in Areas : own[a] = "running" => rank[a] <= hr /\ rank[a] \in Nat
    <3>1. "running" \in Lists /\ rank \in [Areas -> Nat \ {0}]
      BY AreasFacts DEF Layout
    <3> QED
      BY <3>1, HeightType DEF hr
  <2>2. CASE depth = 0
    <3>1. PCXI' = stack[t].csa /\ link' = link
      BY <2>2 DEF SwitchTo, vPortLoadContext
    <3>2. \A a \in Areas : own[a] = "running" => rank[a] # low + 1
      BY <1>1, <2>1, <2>2
    <3> QED
      BY <3>1, <3>2, <2>2, <1>1
  <2>3. CASE depth # 0
    <3> DEFINE above == Down(link, PCXI, depth - 1)
    <3>1. /\ PCXI' = PCXI /\ link' = [link EXCEPT ![above] = stack[t].csa]
      BY <2>3 DEF SwitchTo, vPortLoadContext, Above
    <3>2. above \in Areas /\ own[above] = "running" /\ rank[above] = low + 1
      <4>1. depth - 1 \in Nat /\ depth - 1 < hr /\ hr - (depth - 1) = low + 1
        BY <1>1, <2>3
      <4>2. above = Down(link, HeadOf["running"], depth - 1)
        BY <1>2
      <4> HIDE DEF above
      <4> QED
        BY <4>1, <4>2, AreasFacts, DownList DEF hr
    <3> HIDE DEF above
    <3>3. \A a \in Areas : own[a] = "running" /\ rank[a] = low + 1 <=> a = above
      BY <3>2 DEF Layout
    <3>4. stack[t].csa \in Heads
      BY <1>1
    <3> QED
      BY <3>1, <3>2, <3>3, <3>4, <2>3, <1>1
  <2> QED
    BY <2>2, <2>3
<1>7. \A p \in Lists \ {c, t, "running"} : HeadOf'[p] = HeadOf[p]
  BY <1>1, <1>2, <1>5 DEF Lists
<1>8. HeadOf'[t] = Null
  BY <1>1, <1>2, <1>5 DEF NoStack
<1>9. HeadOf' \in [Lists -> Heads]
  <2>1. \A p \in Lists : HeadOf'[p] \in Heads
    <3>1. PCXI' \in Heads
      BY <1>1, <1>2, <1>6, AreasFacts
    <3>2. FCX' \in Heads
      BY <1>1, <1>2, AreasFacts
    <3> QED
      BY <1>2, <1>5, <3>1, <3>2 DEF Lists
  <2> QED
    BY <2>1 DEF HeadOf
<1> QED
  BY <1>1, <1>2, <1>5, <1>6, <1>7, <1>8, <1>9 DEF d, SwitchedLists

\* Task t runs on, in the middle of the handler, where the running task was.
LEMMA SwitchedPlaced ==
  ASSUME Types, Lives, Counts, NEW own, NEW rank, Placed(own, rank),
         NEW depth \in Nat, Extra = 2 + depth, at # "task",
         Extra' = Extra, at' # "task",
         NEW t, SwitchTo(t, depth)
  PROVE  \E own2, rank2 : Placed(own2, rank2)'
<1> DEFINE c == pxCurrentTCB
           low == calls[c] + 2
           hr == Height(rank, HeadOf, "running")
           ht == Height(rank, HeadOf, t)
<1>0. /\ t \in Tasks /\ t # c /\ life[t] = "ready" /\ pxCurrentTCB' = t
      /\ UNCHANGED <<saved, pc, nest, calls, life, new, last>>
  BY DEF SwitchTo, taskVars
<1> USE <1>0
<1>1. /\ c \in Tasks /\ c # t /\ calls[c] \in Nat /\ calls[t] \in Nat
      /\ Layout(own, rank, link, HeadOf) /\ HeadOf[c] = Null
      /\ hr = low + depth /\ ht = calls[t] + 2 /\ c' = t
  <2>1. c \in Tasks /\ calls[c] \in Nat /\ calls[t] \in Nat
    BY DEF Types
  <2>2. HeadOf[c] = Null
    BY <2>1, HeadOfType DEF Counts
  <2>3. hr = calls[c] + Extra /\ ht = calls[t] + 2
    BY DEF Placed, Lengths
  <2> HIDE DEF hr, ht
  <2> QED
    BY <2>1, <2>2, <2>3 DEF Placed
<1>2. low \in Nat /\ low <= hr /\ hr - low = depth /\ (low = hr <=> depth = 0)
  BY <1>1
<1> HIDE DEF low, hr, ht
<1> PICK own2, rank2 : /\ own2 = SwapOwn(own, rank, c, t, low)
                       /\ rank2 = SwapRank(own, rank, HeadOf, t, low)
  OBVIOUS
<1>3. /\ link' \in [Areas -> Heads] /\ HeadOf' \in [Lists -> Heads]
      /\ \A a \in Areas :
           link'[a] = IF own[a] = "running" /\ rank[a] = low + 1
                        THEN HeadOf[t] ELSE link[a]
      /\ HeadOf'["running"] = IF low = hr THEN HeadOf[t] ELSE HeadOf["running"]
      /\ HeadOf'[c] = Down(link, HeadOf["running"], hr - low)
      /\ HeadOf'[t] = Null
      /\ \A p \in Lists \ {c, t, "running"} : HeadOf'[p] = HeadOf[p]
  <2>1. Height(rank, HeadOf, "running") = low + depth
    BY <1>1 DEF hr
  <2>2. /\ link' \in [Areas -> Heads] /\ HeadOf' \in [Lists -> Heads]
        /\ \A a \in Areas :
             link'[a] = IF own[a] = "running" /\ rank[a] = low + 1
                          THEN HeadOf[t] ELSE link[a]
        /\ HeadOf'["running"] = IF depth = 0 THEN HeadOf[t] ELSE HeadOf["running"]
        /\ HeadOf'[c] = Down(link, HeadOf["running"], depth)
        /\ HeadOf'[t] = Null
        /\ \A p \in Lists \ {c, t, "running"} : HeadOf'[p] = HeadOf[p]
    <3>1. SwitchedLists(own, rank, low, depth, t)
      BY <1>1, <1>2, <2>1, SwitchedHeads
    <3> QED
      BY <3>1 DEF SwitchedLists
  <2> QED
    BY <1>2, <2>2
<1>4. /\ Layout(own2, rank2, link', HeadOf')
      /\ \A p \in Lists : Height(rank2, HeadOf', p) =
                            IF p = c THEN low ELSE IF p = t THEN 0
                            ELSE IF p = "running" THEN hr - low + ht
                            ELSE Height(rank, HeadOf, p)
  <2> PICK next2, head2 : next2 = link' /\ head2 = HeadOf'
    OBVIOUS
  <2>1. next2 \in [Areas -> Heads] /\ head2 \in [Lists -> Heads]
    BY <1>3
  <2>2. \A a \in Areas :
           next2[a] = IF own[a] = "running" /\ rank[a] = low + 1
                        THEN HeadOf[t] ELSE link[a]
    BY <1>3
  <2>3. /\ head2["running"] = IF low = hr THEN HeadOf[t] ELSE HeadOf["running"]
        /\ head2[c] = Down(link, HeadOf["running"], hr - low)
        /\ head2[t] = Null
        /\ \A p \in Lists \ {c, t, "running"} : head2[p] = HeadOf[p]
    BY <1>3
  <2>4. /\ Layout(own2, rank2, next2, head2)
        /\ \A p \in Lists : Height(rank2, head2, p) =
                              IF p = c THEN low ELSE IF p = t THEN 0
                              ELSE IF p = "running" THEN hr - low + ht
                              ELSE Height(rank, HeadOf, p)
    <3>1. /\ own2 = SwapOwn(own, rank, c, t, low) /\ t \in Tasks
          /\ rank2 = SwapRank(own, rank, HeadOf, t, low)
      OBVIOUS
    <3> QED
      BY ONLY <1>1, <1>2, <2>1, <2>2, <2>3, <3>1, SwapLayout DEF hr, ht
  <2> QED
    BY <2>4
<1>5. \A a \in Areas :
        /\ own2[a] = IF own[a] = "running" /\ rank[a] <= low THEN c
                     ELSE IF own[a] = t THEN "running" ELSE own[a]
        /\ rank2[a] = IF own[a] = "running" /\ rank[a] > low
                        THEN ht + rank[a] - low ELSE rank[a]
  BY DEF SwapOwn, SwapRank, ht
<1>6. /\ \A a \in Areas : rank[a] \in Nat /\ own[a] # c
      /\ \A s \in Tasks : s # "running" /\ s # "new" /\ s \in Lists
      /\ "running" \in Lists
  BY <1>1, AreasFacts DEF Layout
<1>7. Lengths(rank2)'
  <2>1. Height(rank2, HeadOf', "running") = calls[t] + Extra
    <3>1. Height(rank2, HeadOf', "running") = hr - low + ht
      BY <1>1, <1>4, <1>6
    <3> QED
      BY <3>1, <1>1, <1>2
  <2>2. ASSUME NEW s \in Tasks \ {t}
        PROVE  Height(rank2, HeadOf', s) = IF life[s] = "none" THEN 0 ELSE calls[s] + 2
    <3>1. CASE s = c
      BY <3>1, <1>4, <1>6 DEF low, Lives
    <3>2. CASE s # c
      BY <3>2, <1>4, <1>6 DEF Placed, Lengths
    <3> QED
      BY <3>1, <3>2
  <2> QED
    BY <2>1, <2>2, <1>1 DEF Lengths
<1>8. Returns(own2, rank2)'
  <2>1. \A s \in Tasks : Masks(s)' <=> Masks(s)
    BY DEF Masks
  <2>2. ASSUME NEW a \in Areas, rank2[a] = calls[t] + 1, own2[a] = "running"
        PROVE  saved[a] = MASKED <=> Masks(t)
    <3>1. ~(own[a] = "running" /\ rank[a] > low)
      BY <1>1, <1>2, <1>5, <1>6, <2>2
    <3>2. own[a] = t /\ rank[a] = calls[t] + 1
      BY <3>1, <1>1, <1>2, <1>5, <1>6, <2>2
    <3> QED
      BY <3>2, <1>1 DEF Placed, Returns
  <2>3. ASSUME NEW s \in Tasks, NEW a \in Areas, s # t, life[s] # "none",
               rank2[a] = calls[s] + 1, own2[a] = s
        PROVE  saved[a] = MASKED <=> Masks(s)
    <3>1. CASE s = c
      <4>1. own[a] = "running" /\ rank[a] = calls[c] + 1
        BY <3>1, <2>3, <1>5, <1>6, <1>1, <1>2
      <4> QED
        BY <4>1, <3>1, <2>3 DEF Placed, Returns
    <3>2. CASE s # c
      <4>1. own[a] = s /\ rank[a] = calls[s] + 1
        BY <3>2, <2>3, <1>5, <1>6
      <4> QED
        BY <4>1, <3>2, <2>3 DEF Placed, Returns
    <3> QED
      BY <3>1, <3>2
  <2> QED
    BY <2>1, <2>2, <2>3, <1>1 DEF Returns
<1>9. Held(own2, rank2)'
  <2>1. Held(own, rank)
    BY DEF Placed
  <2>2. \A a \in Areas : own2[a] = "new" <=> own[a] = "new"
    BY <1>1, <1>5, <1>6
  <2>3. ASSUME pc[Resident] = "join"
        PROVE  own2[last.tail] = last.task /\ rank2[last.tail] = 1
    <3>1. /\ last.tail \in Areas /\ last.task \in Tasks /\ last.task # c
          /\ last.task # t
      BY <2>3 DEF Lives, Types
    <3>2. own[last.tail] = last.task /\ rank[last.tail] = 1
      BY <2>1, <2>3 DEF Held
    <3> QED
      BY <3>1, <3>2, <1>5, <1>6
  <2> QED
    BY <2>1, <2>2, <2>3 DEF Held
<1> QED
  BY <1>4, <1>7, <1>8, <1>9 DEF Placed

LEMMA SwitchInv ==
  ASSUME IInv, NEW depth \in Nat, Extra = 2 + depth, Extra' = Extra,
         at # "task", at' # "task",
         at' \in {"task", "handler", "left", "syscall", "returning"}, Switch(depth)
  PROVE  IInv'
<1>1. PICK own, rank : Placed(own, rank)
  BY DEF IInv
<1>2. Types /\ Lives /\ Counts
  BY DEF IInv
<1>3. PICK t \in Tasks :
        /\ life[t] = "ready" /\ pxCurrentTCB' = t
        /\ IF t = pxCurrentTCB
             THEN UNCHANGED <<link, PCXI, uxCriticalNesting, stack>>
             ELSE /\ vPortLoadContext(t, depth)
                  /\ stack' = [vPortSaveContext(depth) EXCEPT ![t] = NoStack]
        /\ UNCHANGED <<FCX, saved, CCPN, SRR, pc, taskVars>>
  BY DEF Switch
<1>4. CASE t = pxCurrentTCB
  <2>1. UNCHANGED <<csaVars, CCPN, uxCriticalNesting, kernelVars, pc, taskVars>>
    BY <1>3, <1>4 DEF csaVars, kernelVars
  <2> USE <2>1 DEF csaVars, kernelVars, taskVars
  <2>2. Types' /\ Lives' /\ Counts'
    BY <1>2 DEF Types, Lives, Counts, Masks
  <2>3. HeadOf' = HeadOf
    BY HeadOfKept
  <2>4. Layout(own, rank, link, HeadOf)' /\ Lengths(rank)'
    BY <1>1, <2>3 DEF Placed, Lengths
  <2>5. Returns(own, rank)' /\ Held(own, rank)'
    BY <1>1 DEF Placed, Returns, Held, Masks
  <2> QED
    BY <2>2, <2>4, <2>5 DEF IInv, Placed
<1>5. CASE t # pxCurrentTCB
  <2>1. SwitchTo(t, depth)
    BY <1>3, <1>5 DEF SwitchTo
  <2>2. \E own2, rank2 : Placed(own2, rank2)'
    BY <1>1, <1>2, <2>1, SwitchedPlaced
  <2>3. /\ link' \in [Areas -> Heads] /\ HeadOf' \in [Lists -> Heads]
        /\ stack' \in [Tasks -> [csa : Heads, nesting : Nat]]
        /\ stack'[t] = NoStack /\ stack'[pxCurrentTCB].nesting = uxCriticalNesting
        /\ \A s \in Tasks \ {t, pxCurrentTCB} : stack'[s] = stack[s]
    <3>1. /\ calls[pxCurrentTCB] + 2 \in Nat
          /\ Height(rank, HeadOf, "running") = calls[pxCurrentTCB] + 2 + depth
      BY <1>1, <1>2 DEF Placed, Lengths, Types
    <3> PICK low \in Nat : low = calls[pxCurrentTCB] + 2
      BY <3>1
    <3>2. /\ Types /\ Layout(own, rank, link, HeadOf) /\ low \in Nat
          /\ Height(rank, HeadOf, "running") = low + depth /\ depth \in Nat
      BY <1>1, <1>2, <3>1 DEF Placed
    <3>3. SwitchedLists(own, rank, low, depth, t)
      BY <2>1, <3>2, SwitchedHeads
    <3> QED
      BY <3>3 DEF SwitchedLists
  <2>4. uxCriticalNesting' = nest[t]
    <3>1. uxCriticalNesting' = stack[t].nesting
      BY <1>3, <1>5 DEF vPortLoadContext
    <3> QED
      BY <3>1, <1>2, <1>5 DEF Counts
  <2>5. Types'
    BY <1>2, <1>3, <2>3, <2>4 DEF Types, taskVars
  <2>6. Lives'
    BY <1>2, <1>3 DEF Lives, taskVars
  <2>7. Counts'
    <3>1. stack'[t].csa = Null
      BY <2>3 DEF NoStack
    <3>2. ASSUME NEW s \in Tasks \ {t} PROVE stack'[s].nesting = nest[s]
      BY <1>2, <2>3 DEF Counts
    <3> QED
      BY <1>2, <1>3, <2>4, <3>1, <3>2 DEF Counts, taskVars
  <2> QED
    BY <2>2, <2>5, <2>6, <2>7 DEF IInv
<1> QED
  BY <1>4, <1>5

LEMMA HandlerInv ==
  ASSUME IInv, vPortSystemContextHandler \/ vPortSyscallHandler
  PROVE  IInv'
<1>1. CASE vPortSystemContextHandler
  <2>1. Switch(0) /\ at = "handler" /\ at' = "left"
    BY <1>1 DEF vPortSystemContextHandler
  <2>2. Extra = 2 + 0 /\ Extra' = Extra /\ 0 \in Nat
    BY <2>1 DEF Extra
  <2> QED
    BY <2>1, <2>2, SwitchInv
<1>2. CASE vPortSyscallHandler
  <2>1. at = "syscall" /\ at' = "returning"
    BY <1>2 DEF vPortSyscallHandler
  <2>2. Extra = 2 + CallDepth /\ Extra' = Extra /\ CallDepth \in Nat
    <3>1. CallDepth \in Nat
      BY CsaAssumption
    <3> QED
      BY <2>1, <3>1 DEF Extra
  <2>3. CASE YieldId = 0
    <3>1. Switch(CallDepth)
      BY <1>2, <2>3 DEF vPortSyscallHandler, vPortSyscallYield
    <3> QED
      BY <2>1, <2>2, <3>1, SwitchInv
  <2>4. CASE YieldId # 0
    <3>1. UNCHANGED <<csaVars, CCPN, uxCriticalNesting, kernelVars, pc, taskVars>>
      BY <1>2, <2>4 DEF vPortSyscallHandler
    <3>2. PICK own, rank : Placed(own, rank)
      BY DEF IInv
    <3> USE <3>1 DEF csaVars, kernelVars, taskVars
    <3>3. Types' /\ Lives' /\ Counts'
      BY <2>1 DEF IInv, Types, Lives, Counts, Masks
    <3>4. HeadOf' = HeadOf
      BY HeadOfKept
    <3>5. Layout(own, rank, link, HeadOf)' /\ Lengths(rank)'
      BY <2>2, <3>2, <3>4 DEF Placed, Lengths
    <3>6. Returns(own, rank)' /\ Held(own, rank)'
      BY <2>1, <3>2 DEF Placed, Returns, Held, Masks
    <3> QED
      BY <3>3, <3>5, <3>6 DEF IInv, Placed
  <2> QED
    BY <2>3, <2>4
<1> QED
  BY <1>1, <1>2

-----------------------------------------------------------------------------
(* Creating tasks and reclaiming their areas                               *)

LEMMA TakeAreasInv ==
  ASSUME IInv, NEW t \in Tasks, TakeAreas(t)
  PROVE  IInv'
<1>1. PICK own, rank : Placed(own, rank)
  BY DEF IInv
<1> PICK lower, upper : lower = FCX /\ upper = link[FCX]
  OBVIOUS
<1>2. /\ Types /\ Lives /\ Counts /\ Resident \in Tasks
      /\ pc \in [Tasks -> {"run", "count", "open", "fill", "join"}]
      /\ pc' = [pc EXCEPT ![Resident] = "fill"] /\ pc[Resident] = "run"
      /\ pxCurrentTCB = Resident /\ life[t] = "none" /\ at = "task"
      /\ lower # Null /\ upper # Null /\ FCX' = link[upper]
      /\ new' = [task |-> t, lower |-> lower, upper |-> upper]
      /\ UNCHANGED <<PCXI, link, saved, CCPN, uxCriticalNesting, kernelVars, at,
                     nest, calls, life, last>>
  BY CsaAssumption DEF IInv, Types, TakeAreas, AtPoint, Goto
<1> USE DEF kernelVars
<1>3. /\ Layout(own, rank, link, HeadOf) /\ Null \notin Areas
      /\ \A a \in Areas : own[a] # "new"
      /\ lower = HeadOf["free"] /\ upper = link[lower]
  BY <1>1, <1>2, HeadOfEnds, AreasFacts DEF Placed, Held, Lives
<1>4. /\ HeadOf' \in [Lists -> Heads] /\ HeadOf'["free"] = link[upper]
      /\ \A p \in Lists \ {"free"} : HeadOf'[p] = HeadOf[p]
  <2>1. link \in [Areas -> Heads] /\ HeadOf \in [Lists -> Heads] /\ upper \in Areas
    BY <1>2, <1>3, AreasFacts DEF Layout, Heads
  <2>2. \A p \in Lists \ {"free"} : HeadOf'[p] = HeadOf[p]
    BY <1>2, AreasFacts DEF HeadOf, Head
  <2>3. HeadOf'["free"] = link[upper]
    BY <1>2, AreasFacts DEF HeadOf, Head
  <2>4. \A p \in Lists : HeadOf'[p] \in Heads
    BY <2>1, <2>2, <2>3
  <2> QED
    BY <2>2, <2>3, <2>4 DEF HeadOf
<1> PICK own2 : own2 = TakenOwn(own, lower, upper)
  OBVIOUS
<1>5. /\ Layout(own2, rank, link, HeadOf') /\ lower \in Areas /\ upper \in Areas
      /\ lower # upper
      /\ \A p \in Lists \ {"free"} : Height(rank, HeadOf', p) = Height(rank, HeadOf, p)
  <2> PICK head2 : head2 = HeadOf'
    OBVIOUS
  <2>1. /\ head2 \in [Lists -> Heads] /\ head2["free"] = link[upper]
        /\ \A p \in Lists \ {"free"} : head2[p] = HeadOf[p]
    BY <1>4
  <2>2. own2 = TakenOwn(own, lower, upper)
    OBVIOUS
  <2>3. /\ Layout(own2, rank, link, head2) /\ lower \in Areas /\ upper \in Areas
        /\ lower # upper
        /\ \A p \in Lists \ {"free"} : Height(rank, head2, p) = Height(rank, HeadOf, p)
    BY ONLY <1>2, <1>3, <2>1, <2>2, TakeLayout
  <2> QED
    BY <2>3
<1>6. /\ \A a \in Areas : own2[a] = IF a \in {lower, upper} THEN "new" ELSE own[a]
      /\ \A s \in Tasks : pc'[s] = IF s = Resident THEN "fill" ELSE pc[s]
      /\ pc' \in [Tasks -> {"run", "count", "open", "fill", "join"}]
      /\ \A s \in Tasks : s \in Lists \ {"free"} /\ s # "new"
      /\ "running" \in Lists \ {"free"}
      /\ new'.task = t /\ new'.lower = lower /\ new'.upper = upper
  BY <1>2, AreasFacts DEF TakenOwn
<1>7. \A s \in Tasks : Masks(s)' <=> Masks(s)
  BY <1>2, <1>6 DEF Masks
<1>8. Types'
  <2>1. new' \in [task : Tasks, lower : Heads, upper : Heads]
    BY <1>2, <1>5 DEF Heads
  <2> QED
    BY <1>2, <1>6, <2>1 DEF Types
<1>9. Lives'
  <2>1. life[Resident] = "ready"
    BY <1>2 DEF Lives
  <2>2. \A s \in Tasks : life[s] = "none" => nest[s] = 0 /\ calls[s] = 0 /\ pc'[s] = "run"
    BY <1>2, <1>6, <2>1 DEF Lives
  <2>3. \A s \in Tasks : pc'[s] \in {"fill", "join"} => s = Resident
    BY <1>2, <1>6 DEF Lives
  <2> QED
    BY <1>2, <1>5, <1>6, <2>1, <2>2, <2>3 DEF Lives
<1>10. Counts'
  <2>1. \A s \in Tasks : pc'[s] = "open" => nest[s] = 0
    BY <1>2, <1>6 DEF Counts
  <2> QED
    BY <1>2, <1>7, <2>1 DEF Counts
<1>11. Lengths(rank)'
  BY <1>1, <1>2, <1>5, <1>6 DEF Placed, Lengths, Extra
<1>12. Returns(own2, rank)'
  BY <1>1, <1>2, <1>6, <1>7 DEF Placed, Returns
<1>13. Held(own2, rank)'
  BY <1>2, <1>3, <1>6 DEF Held
<1> QED
  BY <1>2, <1>5, <1>8, <1>9, <1>10, <1>11, <1>12, <1>13 DEF IInv, Placed

LEMMA InitialiseStackInv ==
  ASSUME IInv, InitialiseStack
  PROVE  IInv'
<1>1. PICK own, rank : Placed(own, rank)
  BY DEF IInv
<1> PICK t, lower, upper : t = new.task /\ lower = new.lower /\ upper = new.upper
  OBVIOUS
<1>2. /\ Types /\ Lives /\ Counts /\ Resident \in Tasks
      /\ pc \in [Tasks -> {"run", "count", "open", "fill", "join"}]
      /\ life \in [Tasks -> {"none", "ready", "deleted"}]
      /\ saved \in [Areas -> {OPEN, CONTEXT, MASKED}]
      /\ stack \in [Tasks -> [csa : Heads, nesting : Nat]]
      /\ pc[Resident] = "fill" /\ pxCurrentTCB = Resident /\ at = "task"
      /\ t \in Tasks /\ life[t] = "none" /\ t # Resident
      /\ lower \in Areas /\ upper \in Areas /\ lower # upper
      /\ pc' = [pc EXCEPT ![Resident] = "run"]
      /\ link' = [link EXCEPT ![upper] = Null, ![lower] = upper]
      /\ saved' = [saved EXCEPT ![upper] = OPEN]
      /\ stack' = [stack EXCEPT ![t] = [csa |-> lower, nesting |-> 0]]
      /\ life' = [life EXCEPT ![t] = "ready"]
      /\ new' = NoAreas
      /\ UNCHANGED <<FCX, PCXI, CCPN, uxCriticalNesting, pxCurrentTCB, at, nest,
                     calls, last>>
  <2>1. pc[Resident] = "fill" /\ pxCurrentTCB = Resident
    BY DEF IInv, InitialiseStack, AtPoint, Lives, Types
  <2> QED
    BY <2>1, CsaAssumption DEF IInv, Types, InitialiseStack, AtPoint, Goto, Lives
<1>3. /\ Layout(own, rank, link, HeadOf) /\ Null \notin Areas /\ Null \in Heads
      /\ HeadOf[t] = Null
      /\ \A a \in Areas : own[a] = "new" <=> a \in {lower, upper}
  <2>1. Height(rank, HeadOf, t) = 0
    BY <1>1, <1>2 DEF Placed, Lengths
  <2>2. Layout(own, rank, link, HeadOf) /\ t \in Lists
    BY <1>1, <1>2, AreasFacts DEF Placed
  <2>3. HeadOf[t] = Null
    BY <2>1, <2>2, HeightType
  <2> QED
    BY <1>1, <2>2, <2>3, AreasFacts DEF Placed, Held, Heads
<1>4. /\ link' \in [Areas -> Heads] /\ link'[upper] = Null /\ link'[lower] = upper
      /\ \A a \in Areas \ {lower, upper} : link'[a] = link[a]
  <2>1. link \in [Areas -> Heads] /\ upper \in Heads
    BY <1>2, <1>3 DEF Layout, Heads
  <2> QED
    BY <2>1, <1>2, <1>3
<1>5. /\ stack' \in [Tasks -> [csa : Heads, nesting : Nat]]
      /\ stack'[t].csa = lower /\ stack'[t].nesting = 0
      /\ \A s \in Tasks \ {t} : stack'[s] = stack[s]
  <2> DEFINE r == [csa |-> lower, nesting |-> 0]
  <2>1. r \in [csa : Heads, nesting : Nat] /\ r.csa = lower /\ r.nesting = 0
    BY <1>2 DEF Heads
  <2>2. stack' = [stack EXCEPT ![t] = r]
    BY <1>2
  <2> HIDE DEF r
  <2> QED
    BY <2>1, <2>2, <1>2
<1>6. /\ HeadOf' \in [Lists -> Heads] /\ HeadOf'[t] = lower
      /\ \A p \in Lists \ {t} : HeadOf'[p] = HeadOf[p]
  <2>1. HeadOf \in [Lists -> Heads] /\ lower \in Heads
    BY <1>2, <1>3 DEF Layout, Heads
  <2>2. \A p \in Lists \ {t} : HeadOf'[p] = HeadOf[p]
    BY <1>2, <1>5, AreasFacts DEF HeadOf, Head, Lists
  <2>3. HeadOf'[t] = lower
    BY <1>2, <1>5, AreasFacts DEF HeadOf, Head
  <2>4. \A p \in Lists : HeadOf'[p] \in Heads
    BY <2>1, <2>2, <2>3
  <2> QED
    BY <2>2, <2>3, <2>4 DEF HeadOf
<1> PICK own2, rank2 : /\ own2 = FilledOwn(own, t)
                       /\ rank2 = FilledRank(rank, lower, upper)
  OBVIOUS
<1>7. /\ Layout(own2, rank2, link', HeadOf')
      /\ \A p \in Lists : Height(rank2, HeadOf', p) =
                            IF p = t THEN 2 ELSE Height(rank, HeadOf, p)
  <2> PICK next2, head2 : next2 = link' /\ head2 = HeadOf'
    OBVIOUS
  <2>1. /\ next2 \in [Areas -> Heads] /\ next2[upper] = Null /\ next2[lower] = upper
        /\ \A a \in Areas \ {lower, upper} : next2[a] = link[a]
        /\ head2 \in [Lists -> Heads] /\ head2[t] = lower
        /\ \A p \in Lists \ {t} : head2[p] = HeadOf[p]
    BY <1>4, <1>6
  <2>2. own2 = FilledOwn(own, t) /\ rank2 = FilledRank(rank, lower, upper)
        /\ t \in Tasks /\ lower \in Areas /\ upper \in Areas /\ lower # upper
    BY <1>2
  <2>3. /\ Layout(own2, rank2, next2, head2)
        /\ \A p \in Lists : Height(rank2, head2, p) =
                            IF p = t THEN 2 ELSE Height(rank, HeadOf, p)
    BY ONLY <1>3, <2>1, <2>2, FillLayout
  <2> QED
    BY <2>3
<1>8. /\ \A a \in Areas :
           /\ own2[a] = IF own[a] = "new" THEN t ELSE own[a]
           /\ rank2[a] = IF a = lower THEN 2 ELSE IF a = upper THEN 1 ELSE rank[a]
      /\ \A s \in Tasks : s \in Lists /\ s # "running" /\ s # "new"
      /\ "running" \in Lists
  BY <1>2, AreasFacts DEF FilledOwn, FilledRank
<1>9. /\ \A s \in Tasks : pc'[s] = IF s = Resident THEN "run" ELSE pc[s]
      /\ pc' \in [Tasks -> {"run", "count", "open", "fill", "join"}]
      /\ \A s \in Tasks : life'[s] = IF s = t THEN "ready" ELSE life[s]
      /\ life' \in [Tasks -> {"none", "ready", "deleted"}]
      /\ saved' \in [Areas -> {OPEN, CONTEXT, MASKED}]
      /\ \A a \in Areas : saved'[a] = IF a = upper THEN OPEN ELSE saved[a]
      /\ new'.lower = Null /\ new'.upper = Null
      /\ new' \in [task : Tasks, lower : Heads, upper : Heads]
  BY <1>2, <1>3 DEF NoAreas
<1>10. /\ nest[t] = 0 /\ calls[t] = 0 /\ pc[t] = "run" /\ calls[t] + 2 = 2
       /\ calls[t] + 1 = 1
  BY <1>2 DEF Lives
<1>11. \A s \in Tasks : Masks(s)' <=> Masks(s)
  BY <1>2, <1>9 DEF Masks
<1>12. Types'
  BY <1>2, <1>5, <1>9 DEF Types
<1>13. Lives'
  <2>1. /\ life'[Resident] = "ready" /\ pc'[Resident] = "run"
    BY <1>2, <1>9 DEF Lives
  <2>2. \A s \in Tasks : life'[s] = "none" => nest[s] = 0 /\ calls[s] = 0 /\ pc'[s] = "run"
    BY <1>2, <1>9 DEF Lives
  <2>3. \A s \in Tasks : pc'[s] \notin {"fill", "join"}
    BY <1>2, <1>9 DEF Lives
  <2> QED
    BY <1>2, <1>9, <2>1, <2>2, <2>3 DEF Lives
<1>14. Counts'
  <2>1. \A s \in Tasks : pc'[s] = "open" => nest[s] = 0
    BY <1>2, <1>9 DEF Counts
  <2> QED
    BY <1>2, <1>5, <1>10, <1>11, <2>1 DEF Counts
<1>15. Lengths(rank2)'
  BY <1>1, <1>2, <1>7, <1>8, <1>9, <1>10 DEF Placed, Lengths, Extra
<1>16. Returns(own2, rank2)'
  <2>1. ASSUME NEW s \in Tasks, NEW a \in Areas, s # Resident, life'[s] # "none",
               rank2[a] = calls[s] + 1, own2[a] = s
        PROVE  saved'[a] = MASKED <=> Masks(s)
    <3>1. CASE s = t
      <4>1. a \in {lower, upper}
        <5>1. own[a] # t
          BY <1>3, <1>8, <3>1 DEF Layout
        <5> QED
          BY <5>1, <1>3, <1>8, <2>1, <3>1
      <4>2. a = upper
        BY <4>1, <1>2, <1>8, <1>10, <2>1, <3>1
      <4>3. OPEN # MASKED
        BY DEF OPEN, MASKED
      <4> QED
        BY <4>2, <4>3, <1>9, <1>10, <3>1 DEF Masks
    <3>2. CASE s # t
      <4>1. own[a] = s /\ a \notin {lower, upper} /\ rank[a] = calls[s] + 1
            /\ saved'[a] = saved[a] /\ life[s] # "none"
        BY <3>2, <2>1, <1>3, <1>8, <1>9
      <4> QED
        BY <4>1, <2>1, <1>1, <1>2 DEF Placed, Returns
    <3> QED
      BY <3>1, <3>2
  <2> QED
    BY <1>2, <1>11, <2>1 DEF Returns
<1>17. Held(own2, rank2)'
  BY <1>2, <1>3, <1>8, <1>9 DEF Held
<1> QED
  BY <1>7, <1>12, <1>13, <1>14, <1>15, <1>16, <1>17 DEF IInv, Placed

LEMMA JoinFreeInv ==
  ASSUME IInv, JoinFree
  PROVE  IInv'
<1>1. PICK own, rank : Placed(own, rank)
  BY DEF IInv
<1> PICK t, tail, h : t = last.task /\ tail = last.tail /\ h = stack[t].csa
  OBVIOUS
<1>2. /\ Types /\ Lives /\ Counts /\ Resident \in Tasks
      /\ pc \in [Tasks -> {"run", "count", "open", "fill", "join"}]
      /\ life \in [Tasks -> {"none", "ready", "deleted"}]
      /\ saved \in [Areas -> {OPEN, CONTEXT, MASKED}]
      /\ stack \in [Tasks -> [csa : Heads, nesting : Nat]]
      /\ nest \in [Tasks -> Nat] /\ calls \in [Tasks -> Nat]
      /\ pc[Resident] = "join" /\ pxCurrentTCB = Resident /\ at = "task"
      /\ t \in Tasks /\ life[t] = "deleted" /\ t # Resident /\ tail \in Areas
      /\ link' = [link EXCEPT ![tail] = FCX] /\ FCX' = h
      /\ stack' = [stack EXCEPT ![t] = NoStack]
      /\ life' = [life EXCEPT ![t] = "none"]
      /\ pc' = [pc EXCEPT ![Resident] = "run", ![t] = "run"]
      /\ nest' = [nest EXCEPT ![t] = 0] /\ calls' = [calls EXCEPT ![t] = 0]
      /\ saved' = [a \in Areas |-> IF a \in Whole(h) THEN OPEN ELSE saved[a]]
      /\ last' = NoTail
      /\ UNCHANGED <<PCXI, CCPN, uxCriticalNesting, pxCurrentTCB, at, new>>
  <2>1. pc[Resident] = "join" /\ pxCurrentTCB = Resident
    BY DEF IInv, JoinFree, AtPoint, Lives, Types
  <2> QED
    BY <2>1, CsaAssumption DEF IInv, Types, JoinFree, AtPoint, Lives
<1>3. /\ Layout(own, rank, link, HeadOf) /\ Null \in Heads
      /\ own[tail] = t /\ rank[tail] = 1 /\ HeadOf[t] = h
      /\ t \in Lists /\ "free" \in Lists /\ "running" \in Lists
      /\ t # "free" /\ t # "running" /\ t # "new"
  BY <1>1, <1>2, HeadOfType, AreasFacts DEF Placed, Held, Heads
<1>4. /\ link' \in [Areas -> Heads] /\ link'[tail] = HeadOf["free"]
      /\ \A a \in Areas \ {tail} : link'[a] = link[a]
  <2>1. link \in [Areas -> Heads] /\ FCX = HeadOf["free"] /\ FCX \in Heads
    BY <1>3, HeadOfEnds DEF Layout
  <2> QED
    BY <2>1, <1>2
<1>5. /\ stack' \in [Tasks -> [csa : Heads, nesting : Nat]]
      /\ stack'[t].csa = Null /\ stack'[t].nesting = 0
      /\ \A s \in Tasks \ {t} : stack'[s] = stack[s]
  <2>1. NoStack \in [csa : Heads, nesting : Nat] /\ NoStack.csa = Null
        /\ NoStack.nesting = 0
    BY <1>3 DEF NoStack
  <2> QED
    BY <2>1, <1>2
<1>6. /\ HeadOf' \in [Lists -> Heads] /\ HeadOf'["free"] = HeadOf[t]
      /\ HeadOf'[t] = Null
      /\ \A p \in Lists \ {"free", t} : HeadOf'[p] = HeadOf[p]
  <2>1. HeadOf \in [Lists -> Heads]
    BY <1>3 DEF Layout
  <2>2. \A p \in Lists \ {"free", t} : HeadOf'[p] = HeadOf[p]
    BY <1>2, <1>5, AreasFacts DEF HeadOf, Head, Lists
  <2>3. HeadOf'[t] = Null /\ HeadOf'["free"] = HeadOf[t]
    BY <1>2, <1>3, <1>5, AreasFacts DEF HeadOf, Head
  <2>4. \A p \in Lists : HeadOf'[p] \in Heads
    BY <2>1, <2>2, <2>3, <1>3
  <2> QED
    BY <2>2, <2>3, <2>4 DEF HeadOf
<1> PICK own2, rank2 : /\ own2 = JoinedOwn(own, t)
                       /\ rank2 = JoinedRank(own, rank, HeadOf, t)
  OBVIOUS
<1>7. /\ Layout(own2, rank2, link', HeadOf')
      /\ \A p \in Lists \ {"free"} : Height(rank2, HeadOf', p) =
           IF p = t THEN 0 ELSE Height(rank, HeadOf, p)
  <2> PICK next2, head2 : next2 = link' /\ head2 = HeadOf'
    OBVIOUS
  <2>1. /\ next2 \in [Areas -> Heads] /\ next2[tail] = HeadOf["free"]
        /\ \A a \in Areas \ {tail} : next2[a] = link[a]
        /\ head2 \in [Lists -> Heads] /\ head2["free"] = HeadOf[t]
        /\ head2[t] = Null
        /\ \A p \in Lists \ {"free", t} : head2[p] = HeadOf[p]
    BY <1>4, <1>6
  <2>2. own2 = JoinedOwn(own, t) /\ rank2 = JoinedRank(own, rank, HeadOf, t)
        /\ t \in Tasks /\ tail \in Areas
    BY <1>2
  <2>3. /\ Layout(own2, rank2, next2, head2)
        /\ \A p \in Lists \ {"free"} : Height(rank2, head2, p) =
             IF p = t THEN 0 ELSE Height(rank, HeadOf, p)
    BY ONLY <1>3, <2>1, <2>2, JoinLayout
  <2> QED
    BY <2>3
<1>8. /\ \A a \in Areas :
           /\ own2[a] = IF own[a] = t THEN "free" ELSE own[a]
           /\ own[a] # t => rank2[a] = rank[a]
      /\ \A s \in Tasks : s \in Lists /\ s # "running" /\ s # "new" /\ s # "free"
  BY <1>2, AreasFacts DEF JoinedOwn, JoinedRank
<1>9. \A a \in Areas : own[a] # t => saved'[a] = saved[a]
  <2>1. Whole(h) = {a \in Areas : own[a] = t}
    BY <1>3, WholeOf
  <2> QED
    BY <2>1, <1>2
<1>10. /\ \A s \in Tasks : pc'[s] = IF s \in {Resident, t} THEN "run" ELSE pc[s]
       /\ pc' \in [Tasks -> {"run", "count", "open", "fill", "join"}]
       /\ \A s \in Tasks : life'[s] = IF s = t THEN "none" ELSE life[s]
       /\ life' \in [Tasks -> {"none", "ready", "deleted"}]
       /\ saved' \in [Areas -> {OPEN, CONTEXT, MASKED}]
       /\ \A s \in Tasks : nest'[s] = IF s = t THEN 0 ELSE nest[s]
       /\ \A s \in Tasks : calls'[s] = IF s = t THEN 0 ELSE calls[s]
       /\ nest' \in [Tasks -> Nat] /\ calls' \in [Tasks -> Nat]
       /\ last' \in [task : Tasks, tail : Heads]
  <2>1. NoTail \in [task : Tasks, tail : Heads]
    BY <1>2, <1>3 DEF NoTail
  <2> QED
    BY <1>2, <2>1
<1>11. \A s \in Tasks \ {t} : Masks(s)' <=> Masks(s)
  BY <1>2, <1>10 DEF Masks
<1>12. Types'
  BY <1>2, <1>5, <1>10 DEF Types
<1>13. Lives'
  <2>1. /\ life'[Resident] = "ready" /\ pc'[Resident] = "run"
        /\ new.lower = Null /\ new.upper = Null
    BY <1>2, <1>10 DEF Lives
  <2>2. \A s \in Tasks : life'[s] = "none" => nest'[s] = 0 /\ calls'[s] = 0 /\ pc'[s] = "run"
    BY <1>2, <1>10 DEF Lives
  <2>3. \A s \in Tasks : pc'[s] \notin {"fill", "join"}
    BY <1>2, <1>10 DEF Lives
  <2> QED
    BY <1>2, <2>1, <2>2, <2>3 DEF Lives
<1>14. Counts'
  <2>1. \A s \in Tasks : pc'[s] = "open" => nest'[s] = 0
    BY <1>2, <1>10 DEF Counts
  <2>2. \A s \in Tasks \ {Resident} : stack'[s].nesting = nest'[s]
    BY <1>2, <1>5, <1>10 DEF Counts
  <2> QED
    BY <1>2, <1>5, <1>10, <1>11, <2>1, <2>2 DEF Counts
<1>15. Lengths(rank2)'
  BY <1>1, <1>2, <1>3, <1>7, <1>8, <1>10 DEF Placed, Lengths, Extra
<1>16. Returns(own2, rank2)'
  <2>1. ASSUME NEW s \in Tasks, NEW a \in Areas, s # Resident, life'[s] # "none",
               rank2[a] = calls'[s] + 1, own2[a] = s
        PROVE  saved'[a] = MASKED <=> Masks(s)'
    <3>1. s # t /\ own[a] = s /\ rank[a] = calls[s] + 1 /\ saved'[a] = saved[a]
          /\ life[s] # "none"
      BY <2>1, <1>8, <1>9, <1>10
    <3> QED
      BY <3>1, <2>1, <1>1, <1>2, <1>11 DEF Placed, Returns
  <2> QED
    BY <1>2, <2>1 DEF Returns
<1>17. Held(own2, rank2)'
  BY <1>1, <1>2, <1>3, <1>8, <1>10 DEF Placed, Held
<1> QED
  BY <1>7, <1>12, <1>13, <1>14, <1>15, <1>16, <1>17 DEF IInv, Placed

-----------------------------------------------------------------------------
(* The theorems                                                            *)

LEMMA NextInv == IInv /\ [Next]_vars => IInv'
<1> SUFFICES ASSUME IInv, [Next]_vars PROVE IInv'
  OBVIOUS
<1>1. CASE TaskCall \/ TaskReturn
  BY <1>1, TaskCallInv
<1>2. CASE EnterCritical \/ CountUp \/ ExitCritical \/ Open
  BY <1>2, CriticalInv
<1>3. CASE ContextInterrupt \/ Syscall
  BY <1>3, InterruptInv
<1>4. CASE vPortSystemContextHandler \/ vPortSyscallHandler
  BY <1>4, HandlerInv
<1>5. CASE InterruptReturn \/ SyscallReturn
  BY <1>5, ReturnInv
<1>6. CASE InitialiseStack
  BY <1>6, InitialiseStackInv
<1>7. CASE JoinFree
  BY <1>7, JoinFreeInv
<1>8. ASSUME NEW t \in Tasks, TakeAreas(t) PROVE IInv'
  BY <1>8, TakeAreasInv
<1>9. ASSUME NEW t \in Tasks, DeleteTask(t) PROVE IInv'
  BY <1>9, DeleteTaskInv
<1>10. ASSUME NEW t \in Tasks, FindTail(t) PROVE IInv'
  BY <1>10, FindTailInv
<1>11. CASE YieldFromISR \/ UNCHANGED vars
  BY <1>11, RequestInv
<1> QED
  BY <1>1, <1>2, <1>3, <1>4, <1>5, <1>6, <1>7, <1>8, <1>9, <1>10, <1>11
     DEF Next, TaskStep, HandlerStep, NoRequester

\* The lists are laid out as the owners and the ranks of the areas say, always.
THEOREM Inductive == Spec => []IInv
BY InitInv, NextInv, PTL DEF Spec

LEMMA PlacesOfInv == IInv => EachAreaInOnePlace
<1> SUFFICES ASSUME IInv PROVE EachAreaInOnePlace
  OBVIOUS
<1>1. PICK own, rank : Placed(own, rank)
  BY DEF IInv
<1>2. Layout(own, rank, link, HeadOf) /\ own \in [Areas -> Places]
  BY <1>1 DEF Placed, Layout
<1>3. \A p \in Lists : p \in Places /\ p # "new" /\ Head(p) = HeadOf[p]
  BY AreasFacts DEF HeadOf
<1>4. \A p \in Places, a \in Areas : a \in In(p) <=> own[a] = p
  <2>1. ASSUME NEW p \in Lists, NEW a \in Areas PROVE a \in In(p) <=> own[a] = p
    <3>1. In(p) = Whole(HeadOf[p])
      BY <1>3 DEF In
    <3>2. Whole(HeadOf[p]) = {b \in Areas : own[b] = p}
      BY <1>2, WholeOf
    <3> QED
      BY <3>1, <3>2
  <2>2. ASSUME NEW a \in Areas PROVE a \in In("new") <=> own[a] = "new"
    <3>1. own[a] = "new" <=> a \in {new.lower, new.upper}
      BY <1>1 DEF Placed, Held
    <3> QED
      BY <3>1, AreasFacts DEF In
  <2> QED
    BY <2>1, <2>2, AreasFacts
<1>5. \A a \in Areas : own[a] \in Places
  BY <1>2
<1>6. ASSUME NEW p \in Places \ {"new"}
      PROVE  Down(link, Head(p), Cardinality(Areas)) = Null
  <2>1. p \in Lists /\ Cardinality(Areas) \in Nat
    BY AreasFacts
  <2>2. /\ Height(rank, HeadOf, p) <= Cardinality(Areas)
        /\ Height(rank, HeadOf, p) \in Nat
    BY <1>2, <2>1, HeightBound, HeightType
  <2>3. ~(Cardinality(Areas) < Height(rank, HeadOf, p))
    BY <2>1, <2>2
  <2>4. Down(link, HeadOf[p], Cardinality(Areas)) = Null
    BY <1>2, <2>1, <2>3, DownList
  <2> QED
    BY <1>3, <2>1, <2>4
<1> QED
  BY <1>4, <1>5, <1>6 DEF EachAreaInOnePlace

\* The height of a list is the number of areas that the walk from its head meets.
LEMMA LengthOf ==
  ASSUME NEW own, NEW rank, Layout(own, rank, link, HeadOf), NEW p \in Lists,
         NEW n \in Nat, Height(rank, HeadOf, p) = n
  PROVE  HasLength(HeadOf[p], n)
<1>1. ASSUME NEW k \in 0 .. n - 1 PROVE Down(link, HeadOf[p], k) # Null
  <2>1. k \in Nat /\ k < Height(rank, HeadOf, p)
    OBVIOUS
  <2>2. Down(link, HeadOf[p], k) \in Areas
    BY <2>1, DownList
  <2> QED
    BY <2>2, AreasFacts
<1>2. Down(link, HeadOf[p], n) = Null
  <2>1. ~(n < Height(rank, HeadOf, p))
    OBVIOUS
  <2> QED
    BY <2>1, DownList
<1> QED
  BY <1>1, <1>2 DEF HasLength

LEMMA CallsOfInv == IInv => OwnCalls
<1> SUFFICES ASSUME IInv PROVE OwnCalls
  OBVIOUS
<1>1. PICK own, rank : Placed(own, rank)
  BY DEF IInv
<1>2. /\ Layout(own, rank, link, HeadOf) /\ Types /\ Lengths(rank)
      /\ "running" \in Lists /\ Tasks \subseteq Lists
  BY <1>1, AreasFacts DEF IInv, Placed
<1>3. pxCurrentTCB \in Tasks /\ \A t \in Tasks : calls[t] \in Nat
  BY <1>2 DEF Types
<1>4. ASSUME at = "task" PROVE HasLength(PCXI, calls[pxCurrentTCB])
  <2>1. Height(rank, HeadOf, "running") = calls[pxCurrentTCB]
    BY <1>2, <1>3, <1>4 DEF Lengths, Extra
  <2>2. HasLength(HeadOf["running"], calls[pxCurrentTCB])
    BY <1>2, <1>3, <2>1, LengthOf
  <2> QED
    BY <2>2, HeadOfEnds
<1>5. ASSUME NEW t \in Tasks, life[t] # "none", t # pxCurrentTCB
      PROVE  HasLength(stack[t].csa, calls[t] + 2)
  <2>1. Height(rank, HeadOf, t) = calls[t] + 2 /\ calls[t] + 2 \in Nat
    BY <1>2, <1>3, <1>5 DEF Lengths
  <2>2. HasLength(HeadOf[t], calls[t] + 2)
    BY <1>2, <2>1, LengthOf
  <2> QED
    BY <1>2, <2>2, HeadOfType
<1> QED
  BY <1>4, <1>5 DEF OwnCalls

\* For any number of areas and tasks, and whatever they call, create and delete,
\* every area is in exactly one place and no list runs in circles.
THEOREM AurixEachAreaInOnePlace == Spec => []EachAreaInOnePlace
BY Inductive, PlacesOfInv, PTL

\* A task gets back the calls it had made, and nothing else.
THEOREM AurixOwnCalls == Spec => []OwnCalls
BY Inductive, CallsOfInv, PTL

\* Interrupts are masked for the running task exactly inside its own critical
\* sections, however often tasks switch inside them.
THEOREM AurixMaskFollowsTask == Spec => []MaskFollowsTask
<1>1. IInv => MaskFollowsTask
  BY DEF IInv, Counts, Masks, MaskFollowsTask
<1> QED
  BY <1>1, Inductive, PTL
=============================================================================
