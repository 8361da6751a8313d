---------------------------- MODULE MmallocProofs ----------------------------
(***************************************************************************)
(* Theorems about Mmalloc, for any number of entries and any sizes: areas  *)
(* that are allocated stay apart until the scan goes past a gap that is    *)
(* too small.                                                              *)
(***************************************************************************)
EXTENDS Mmalloc, FiniteSetTheorems, TLAPS

Ordered == Apart /\ Sorted /\ Linked

\* Every step keeps the types.
LEMMA TypeStep == TypeOK /\ [Next]_vars => TypeOK'
<1> SUFFICES ASSUME TypeOK, [Next]_vars PROVE TypeOK'
  OBVIOUS
<1> USE MmallocAssumption DEF TypeOK, Cells, list, locals
<1>1. ASSUME NEW blocks \in Requests, Call(blocks) PROVE TypeOK'
  BY <1>1 DEF Call
<1>2. CASE ScanPast
  BY <1>2 DEF ScanPast, Advance, ed_addr
<1>3. CASE ScanSkip
  BY <1>3 DEF ScanSkip, Advance
<1>4. CASE ReturnNull
  BY <1>4 DEF ReturnNull, Return
<1>5. ASSUME NEW e \in Ents, Insert(e) PROVE TypeOK'
  BY <1>5 DEF Insert, Fill, Return
<1>6. ASSUME NEW e \in Ents, Append(e) PROVE TypeOK'
  BY <1>6 DEF Append, Fill, Return
<1>7. ASSUME NEW e \in Ents, Mfree(e) PROVE TypeOK'
  BY <1>7 DEF Mfree
<1>8. CASE UNCHANGED vars
  BY <1>8 DEF vars
<1> QED
  BY <1>1, <1>2, <1>3, <1>4, <1>5, <1>6, <1>7, <1>8 DEF Next

\* Where the scan ends, the room it has found lies behind the entry it has
\* passed and before the next one.
LEMMA RoomFound ==
  ASSUME TypeOK, Ordered, Scanning, Found
  PROVE  /\ free_size > 0 /\ ent_prev \in Listed /\ ent = next[ent_prev]
         /\ ent_prev # Head => p_addr[ent_prev] + p_size[ent_prev] < free_offset
         /\ ent # Null => ent \in alloc /\ free_offset + free_size < p_addr[ent]
  BY MmallocAssumption DEF TypeOK, Cells, Ordered, Sorted, Scanning, Found, Listed, st_addr

\* That room is apart from every area.
LEMMA RoomApart ==
  ASSUME TypeOK, Ordered, Scanning, Found, NEW f \in alloc
  PROVE  \/ p_addr[f] + p_size[f] < free_offset
         \/ free_offset + free_size < p_addr[f]
<1> USE MmallocAssumption DEF TypeOK, Cells, Listed
<1>1. CASE f = ent_prev
  BY <1>1, RoomFound
<1>2. CASE f # ent_prev /\ After(ent_prev, f)
  BY <1>2, RoomFound DEF Ordered, Sorted, Apart, Below
<1>3. CASE f # ent_prev /\ ~After(ent_prev, f)
  BY <1>3, RoomFound DEF Ordered, Apart, Below, After
<1> QED
  BY <1>1, <1>2, <1>3

\* A new entry, put between the passed one and the next, keeps the order.
LEMMA InsertStep ==
  ASSUME TypeOK, Ordered, Scanning, NEW e \in Ents, Insert(e)
  PROVE  Ordered'
<1> USE MmallocAssumption DEF TypeOK, Cells, Listed, Insert, Fill
<1>1. prev[ent] = ent_prev
  BY RoomFound DEF Ordered, Linked
<1>2. Apart'
  BY RoomFound, RoomApart DEF Ordered, Apart, Below
<1>3. Sorted'
  BY <1>1, <1>2, RoomFound, RoomApart DEF Ordered, Apart, Sorted, Below, After
<1>4. Linked'
  BY <1>1, RoomFound DEF Ordered, Sorted, Linked
<1> QED
  BY <1>2, <1>3, <1>4 DEF Ordered

\* So does one put behind the last entry.
LEMMA AppendStep ==
  ASSUME TypeOK, Ordered, Scanning, NEW e \in Ents, Append(e)
  PROVE  Ordered'
<1> USE MmallocAssumption DEF TypeOK, Cells, Listed, Append, Fill
<1>1. Apart'
  BY RoomFound, RoomApart DEF Ordered, Apart, Below
<1>2. Sorted'
  BY <1>1, RoomFound, RoomApart DEF Ordered, Apart, Sorted, Below, After
<1>3. Linked'
  BY RoomFound DEF Ordered, Sorted, Linked
<1> QED
  BY <1>1, <1>2, <1>3 DEF Ordered

\* Releasing an entry joins its neighbours, which are in order.
LEMMA FreeStep ==
  ASSUME TypeOK, Ordered, NEW e \in Ents, Mfree(e)
  PROVE  Ordered'
<1> USE MmallocAssumption DEF TypeOK, Cells, Listed, Mfree
<1>1. Apart'
  BY DEF Ordered, Apart, Below
<1>2. Sorted'
  BY DEF Ordered, Apart, Sorted, Linked, Below, After
<1>3. Linked'
  BY DEF Ordered, Sorted, Linked
<1> QED
  BY <1>1, <1>2, <1>3 DEF Ordered

\* Until a gap is skipped, every step keeps the order and the scan's place.
LEMMA OrderStep ==
  ASSUME TypeOK, Ordered, Scanning, ~skipped', [Next]_vars
  PROVE  Ordered' /\ Scanning'
<1> USE MmallocAssumption DEF TypeOK, Cells, list, locals
<1>1. ASSUME UNCHANGED list PROVE Ordered'
  BY <1>1 DEF Ordered, Apart, Sorted, Linked, Below, After, Listed
<1>2. ASSUME NEW blocks \in Requests, Call(blocks) PROVE Ordered' /\ Scanning'
  BY <1>1, <1>2 DEF Call, Scanning, Listed
<1>3. CASE ScanPast
  BY <1>1, <1>3 DEF ScanPast, Advance, Scanning, Listed, Ordered, Sorted, Below, After,
     st_addr, ed_addr
<1>4. CASE ScanSkip
  BY <1>4 DEF ScanSkip
<1>5. CASE ReturnNull
  BY <1>1, <1>5 DEF ReturnNull, Return, Scanning
<1>6. ASSUME NEW e \in Ents, Insert(e) PROVE Ordered' /\ Scanning'
  BY <1>6, InsertStep DEF Insert, Return, Scanning
<1>7. ASSUME NEW e \in Ents, Append(e) PROVE Ordered' /\ Scanning'
  BY <1>7, AppendStep DEF Append, Return, Scanning
<1>8. ASSUME NEW e \in Ents, Mfree(e) PROVE Ordered' /\ Scanning'
  BY <1>8, FreeStep DEF Mfree, Scanning
<1>9. CASE UNCHANGED vars
  BY <1>1, <1>9 DEF vars, Scanning, Listed
<1> QED
  BY <1>2, <1>3, <1>4, <1>5, <1>6, <1>7, <1>8, <1>9 DEF Next

\* A skipped gap is never forgotten.
LEMMA SkippedStays == TypeOK /\ skipped /\ [Next]_vars => skipped'
<1> SUFFICES ASSUME skipped, [Next]_vars PROVE skipped'
  OBVIOUS
<1> QED
  BY DEF Next, vars, Call, ScanPast, ScanSkip, ReturnNull, Insert, Append, Mfree

\* The list is sorted by address, and the scan at its place, until a gap is
\* skipped.
THEOREM OrderInvariant == Spec => []OrderInv
<1>1. Init => OrderInv
  <2> SUFFICES ASSUME Init PROVE OrderInv
    OBVIOUS
  <2>1. TypeOK
    BY MmallocAssumption DEF Init, TypeOK, Cells
  <2>2. Apart /\ Sorted /\ Linked /\ Scanning
    BY DEF Init, Cells, Apart, Sorted, Linked, Scanning, Listed
  <2> QED
    BY <2>1, <2>2 DEF OrderInv
<1>2. OrderInv /\ [Next]_vars => OrderInv'
  BY TypeStep, OrderStep, SkippedStays DEF OrderInv, Ordered
<1>3. QED
  BY <1>1, <1>2, PTL DEF Spec

\* Two areas overlap only after mmalloc has gone past a gap that was too small.
THEOREM AreasApart == Spec => []SeparatedUnlessSkipped
<1>1. OrderInv => SeparatedUnlessSkipped
  BY DEF OrderInv, TypeOK, Apart, Below, SeparatedUnlessSkipped, NoOverlap, Disjoint,
     Separated
<1>2. QED
  BY <1>1, OrderInvariant, PTL
-----------------------------------------------------------------------------
(* The list itself, also behind a skipped gap. *)

\* An entry counts one more in the list, or one less.
LEMMA CountUp ==
  ASSUME NEW S, IsFiniteSet(S), NEW e, e \notin S
  PROVE  /\ IsFiniteSet(S \cup {e})
         /\ Cardinality(S) \in Nat /\ Cardinality(S \cup {e}) = Cardinality(S) + 1
  BY FS_AddElement, FS_CardinalityType

LEMMA CountDown ==
  ASSUME NEW S, IsFiniteSet(S), NEW e \in S
  PROVE  /\ IsFiniteSet(S \ {e})
         /\ Cardinality(S) \in Nat \ {0} /\ Cardinality(S \ {e}) = Cardinality(S) - 1
<1>1. e \notin S \ {e} /\ S = (S \ {e}) \cup {e} /\ IsFiniteSet(S \ {e})
  BY FS_RemoveElement
<1> DEFINE T == S \ {e}
<1>2. Cardinality(T) \in Nat /\ Cardinality(T \cup {e}) = Cardinality(T) + 1
  BY <1>1, CountUp
<1> QED
  BY <1>1, <1>2

\* An entry put between two neighbours takes the place of the second, and all
\* behind it move up.
LEMMA InsertKeepsList ==
  ASSUME ListInv, NEW e \in Ents, Insert(e)
  PROVE  Linked' /\ IsFiniteSet(alloc') /\ ListIntact'
<1> USE MmallocAssumption DEF TypeOK, Cells, Listed, Insert, Fill, Found
<1> DEFINE n == Cardinality(alloc)
<1>1. PICK place \in [Listed -> 0..n] : Chained(place)
  BY DEF ListInv, ListIntact
<1>2. /\ ent_prev \in Listed /\ ent = next[ent_prev] /\ ent \in alloc
      /\ prev[ent] = ent_prev /\ place[ent] = place[ent_prev] + 1
  BY <1>1 DEF ListInv, Standing, Chained
<1>3. IsFiniteSet(alloc') /\ n \in Nat /\ Cardinality(alloc') = n + 1
  BY CountUp DEF ListInv
<1>4. Linked'
  BY <1>1, <1>2 DEF ListInv, Linked, Chained
<1> DEFINE moved == [c \in Listed' |->
                       IF c = e THEN place[ent]
                       ELSE IF place[c] >= place[ent] THEN place[c] + 1 ELSE place[c]]
<1>5. moved \in [Listed' -> 0..Cardinality(alloc')]
  BY <1>1, <1>2, <1>3
<1>6. moved[Head] = 0
  BY <1>1, <1>2, <1>3 DEF Chained
<1>7. \A c, d \in Listed' : moved[c] = moved[d] => c = d
  BY <1>1, <1>2, <1>3 DEF Chained
<1>8. \A c \in Listed' :
        IF next'[c] = Null THEN moved[c] = Cardinality(alloc')
        ELSE /\ next'[c] \in alloc' /\ moved[next'[c]] = moved[c] + 1
             /\ prev'[next'[c]] = c
  BY <1>1, <1>2, <1>3 DEF Chained, ListInv
<1> QED
  BY <1>3, <1>4, <1>5, <1>6, <1>7, <1>8 DEF ListIntact, Chained

\* An entry behind the last takes the next place.
LEMMA AppendKeepsList ==
  ASSUME ListInv, NEW e \in Ents, Append(e)
  PROVE  Linked' /\ IsFiniteSet(alloc') /\ ListIntact'
<1> USE MmallocAssumption DEF TypeOK, Cells, Listed, Append, Fill, Found
<1> DEFINE n == Cardinality(alloc)
<1>1. PICK place \in [Listed -> 0..n] : Chained(place)
  BY DEF ListInv, ListIntact
<1>2. ent_prev \in Listed /\ next[ent_prev] = Null /\ place[ent_prev] = n
  BY <1>1 DEF ListInv, Standing, Chained
<1>3. IsFiniteSet(alloc') /\ n \in Nat /\ Cardinality(alloc') = n + 1
  BY CountUp DEF ListInv
<1>4. Linked'
  BY <1>1, <1>2 DEF ListInv, Linked, Chained
<1> DEFINE moved == [c \in Listed' |-> IF c = e THEN n + 1 ELSE place[c]]
<1>5. moved \in [Listed' -> 0..Cardinality(alloc')]
  BY <1>1, <1>3
<1>6. moved[Head] = 0
  BY <1>1 DEF Chained
<1>7. \A c, d \in Listed' : moved[c] = moved[d] => c = d
  BY <1>1, <1>3 DEF Chained
<1>8. \A c \in Listed' :
        IF next'[c] = Null THEN moved[c] = Cardinality(alloc')
        ELSE /\ next'[c] \in alloc' /\ moved[next'[c]] = moved[c] + 1
             /\ prev'[next'[c]] = c
  BY <1>1, <1>2, <1>3 DEF Chained, ListInv
<1> QED
  BY <1>3, <1>4, <1>5, <1>6, <1>7, <1>8 DEF ListIntact, Chained

\* All behind a released entry move down.
LEMMA FreeKeepsList ==
  ASSUME ListInv, NEW e \in Ents, Mfree(e)
  PROVE  Linked' /\ IsFiniteSet(alloc') /\ ListIntact'
<1> USE MmallocAssumption DEF TypeOK, Cells, Listed, Mfree
<1> DEFINE n == Cardinality(alloc)
<1>1. PICK place \in [Listed -> 0..n] : Chained(place)
  BY DEF ListInv, ListIntact
<1>2. prev[e] \in Listed /\ next[prev[e]] = e /\ place[e] = place[prev[e]] + 1
  BY <1>1 DEF ListInv, Linked, Chained
<1>3. /\ IsFiniteSet(alloc') /\ n \in Nat \ {0} /\ Cardinality(alloc') = n - 1
  BY CountDown DEF ListInv
<1>4. Linked'
  BY <1>1, <1>2 DEF ListInv, Linked, Chained
<1> DEFINE moved == [c \in Listed' |->
                       IF place[c] > place[e] THEN place[c] - 1 ELSE place[c]]
<1>5. moved \in [Listed' -> 0..Cardinality(alloc')]
  BY <1>1, <1>2, <1>3 DEF Chained
<1>6. moved[Head] = 0
  BY <1>1, <1>2 DEF Chained
<1>7. \A c, d \in Listed' : moved[c] = moved[d] => c = d
  BY <1>1, <1>2, <1>3 DEF Chained
<1>8. \A c \in Listed' :
        IF next'[c] = Null THEN moved[c] = Cardinality(alloc')
        ELSE /\ next'[c] \in alloc' /\ moved[next'[c]] = moved[c] + 1
             /\ prev'[next'[c]] = c
  BY <1>1, <1>2, <1>3 DEF Chained, ListInv
<1> QED
  BY <1>3, <1>4, <1>5, <1>6, <1>7, <1>8 DEF ListIntact, Chained

\* Every step keeps the list.
LEMMA ListStep == ListInv /\ [Next]_vars => ListInv'
<1> SUFFICES ASSUME ListInv, [Next]_vars PROVE ListInv'
  OBVIOUS
<1> USE MmallocAssumption DEF list, locals
<1>t. TypeOK'
  BY TypeStep DEF ListInv
<1>1. ASSUME UNCHANGED list PROVE Linked' /\ IsFiniteSet(alloc') /\ ListIntact'
  BY <1>1 DEF ListInv, Linked, ListIntact, Chained, Listed
<1>2. ASSUME NEW blocks \in Requests, Call(blocks)
      PROVE  UNCHANGED list /\ Standing'
  BY <1>2 DEF Call, Standing, Listed
<1>3. CASE ScanPast \/ ScanSkip
  <2>1. UNCHANGED list /\ ent \in Listed
    BY <1>3 DEF ScanPast, ScanSkip, Advance, ListInv, TypeOK, Standing, ListIntact,
       Chained, Listed
  <2>2. Standing'
    BY <1>3, <2>1 DEF ScanPast, ScanSkip, Advance, Standing, Listed
  <2> QED
    BY <1>t, <1>1, <2>1, <2>2 DEF ListInv
<1>4. CASE ReturnNull
  BY <1>t, <1>1, <1>4 DEF ReturnNull, Return, Standing, ListInv
<1>5. ASSUME NEW e \in Ents, Insert(e) PROVE ListInv'
  BY <1>t, <1>5, InsertKeepsList DEF Insert, Return, Standing, ListInv
<1>6. ASSUME NEW e \in Ents, Append(e) PROVE ListInv'
  BY <1>t, <1>6, AppendKeepsList DEF Append, Return, Standing, ListInv
<1>7. ASSUME NEW e \in Ents, Mfree(e) PROVE ListInv'
  BY <1>t, <1>7, FreeKeepsList DEF Mfree, Standing, ListInv
<1>8. CASE UNCHANGED vars
  BY <1>t, <1>1, <1>8 DEF vars, Standing, Listed, ListInv
<1> QED
  BY <1>t, <1>1, <1>2, <1>3, <1>4, <1>5, <1>6, <1>7, <1>8 DEF Next, ListInv

\* The links and the scan's place hold in every state, skipped gap or not.
THEOREM ListInvariant == Spec => []ListInv
<1>1. Init => ListInv
  <2> SUFFICES ASSUME Init PROVE ListInv
    OBVIOUS
  <2> USE MmallocAssumption DEF Init, Cells, Listed
  <2>1. IsFiniteSet(alloc) /\ Cardinality(alloc) = 0
    BY FS_EmptySet
  <2>2. [c \in Listed |-> 0] \in [Listed -> 0..Cardinality(alloc)]
    BY <2>1
  <2>3. Chained([c \in Listed |-> 0])
    BY <2>1 DEF Chained
  <2>4. TypeOK /\ Linked /\ Standing
    BY DEF TypeOK, Linked, Standing
  <2> QED
    BY <2>1, <2>2, <2>3, <2>4 DEF ListInv, ListIntact
<1>2. QED
  BY <1>1, ListStep, PTL DEF Spec

\* No sequence of insertions in the middle and of releases loses an entry, gives it
\* a second place or closes the list to a ring, not even behind a skipped gap.
THEOREM ListStaysIntact == Spec => []ListIntact
<1>1. ListInv => ListIntact
  BY DEF ListInv
<1>2. QED
  BY <1>1, ListInvariant, PTL

-----------------------------------------------------------------------------
(* Areas of one size. *)

\* Between two places of a grid there is room for a whole area and a block.
LEMMA GridGap ==
  ASSUME NEW size \in Nat, NEW j \in Nat, NEW k \in Nat,
         j * (size + 1) < k * (size + 1)
  PROVE  j * (size + 1) + size < k * (size + 1)
<1>1. ~(k <= j)
  <2> SUFFICES ASSUME k <= j PROVE FALSE
    OBVIOUS
  <2>1. PICK d \in Nat : j = k + d
    <3> WITNESS j - k \in Nat
    <3> QED
      OBVIOUS
  <2>2. j * (size + 1) = k * (size + 1) + d * (size + 1) /\ d * (size + 1) >= 0
    BY <2>1
  <2> QED
    BY <2>2
<1>2. PICK d \in Nat : k = j + 1 + d
  <2> WITNESS k - j - 1 \in Nat
  <2> QED
    BY <1>1
<1>3. k * (size + 1) = j * (size + 1) + (size + 1) + d * (size + 1) /\ d * (size + 1) >= 0
  BY <1>2
<1> QED
  BY <1>3

LEMMA GridNext ==
  ASSUME NEW size \in Nat, NEW a, GridPlace(a, size)
  PROVE  GridPlace(a + size + 1, size)
<1>1. PICK k \in Nat : a = k * (size + 1)
  BY DEF GridPlace
<1>2. a + size + 1 = (k + 1) * (size + 1)
  BY <1>1
<1> QED
  BY <1>2 DEF GridPlace

\* With one size, every step keeps the grid; none skips a gap.
LEMMA GridStep ==
  ASSUME NEW size \in Requests, OneSize, ListInv, OnGrid(size), [Next]_vars
  PROVE  OnGrid(size)'
<1> USE MmallocAssumption DEF TypeOK, Cells, list, locals
<1>0. size \in Nat
  OBVIOUS
<1>p. pc = "scan" /\ ent # Null => ent \in alloc
  BY DEF ListInv, ListIntact, Chained, Standing
<1>1. ASSUME NEW blocks \in Requests, Call(blocks) PROVE OnGrid(size)'
  <2>1. GridPlace(0, size)
    <3>1. 0 = 0 * (size + 1)
      BY <1>0
    <3> QED
      BY <3>1 DEF GridPlace
  <2> QED
    BY <1>1, <2>1 DEF Call, OnGrid, OneSize
<1>2. CASE ScanPast
  <2>1. GridPlace(p_addr[ent], size) /\ p_size[ent] = size
    BY <1>2, <1>p DEF ScanPast, OnGrid
  <2>2. GridPlace(free_offset', size)
    BY <1>0, <1>2, <2>1, GridNext DEF ScanPast, ed_addr
  <2> QED
    BY <1>2, <2>2 DEF ScanPast, Advance, OnGrid
<1>3. CASE ScanSkip
  <2>1. PICK j, k \in Nat : free_offset = j * (size + 1) /\ p_addr[ent] = k * (size + 1)
    BY <1>3, <1>p DEF ScanSkip, OnGrid, GridPlace
  <2>2. j * (size + 1) < k * (size + 1) /\ j * (size + 1) + size >= k * (size + 1)
    BY <1>3, <2>1 DEF ScanSkip, OnGrid, st_addr
  <2>3. j * (size + 1) + size < k * (size + 1)
    BY <1>0, <2>2, GridGap
  <2> QED
    BY <1>0, <2>2, <2>3
<1>4. CASE ReturnNull
  BY <1>4 DEF ReturnNull, Return, OnGrid
<1>5. ASSUME NEW e \in Ents, Insert(e) \/ Append(e) PROVE OnGrid(size)'
  BY <1>5 DEF Insert, Append, Fill, Return, OnGrid, Found, ListInv
<1>6. ASSUME NEW e \in Ents, Mfree(e) PROVE OnGrid(size)'
  BY <1>6 DEF Mfree, OnGrid, ListInv
<1>7. CASE UNCHANGED vars
  BY <1>7 DEF vars, OnGrid
<1> QED
  BY <1>1, <1>2, <1>3, <1>4, <1>5, <1>6, <1>7 DEF Next

\* A program whose requests all come to the same number of blocks never sees two
\* areas overlap: the scan never has to go past a gap that is too small.
THEOREM OneSizeApart == OneSize => (Spec => []NoOverlap)
<1> SUFFICES ASSUME OneSize PROVE Spec => []NoOverlap
  OBVIOUS
<1> DEFINE GridInv == /\ \A size \in Requests : OnGrid(size)
                      /\ Requests = {} => pc = "idle" /\ ~skipped
<1>1. Init => GridInv
  BY DEF Init, OnGrid
<1>2. ListInv /\ GridInv /\ [Next]_vars => GridInv'
  <2> SUFFICES ASSUME ListInv, GridInv, [Next]_vars PROVE GridInv'
    OBVIOUS
  <2>1. \A size \in Requests : OnGrid(size)'
    BY GridStep
  <2>2. Requests = {} => pc' = "idle" /\ ~skipped'
    BY DEF Next, vars, locals, Call, ScanPast, ScanSkip, ReturnNull, Found, Insert, Append,
       Return, Mfree
  <2> QED
    BY <2>1, <2>2
<1>3. ListInv /\ OrderInv /\ GridInv => NoOverlap
  BY DEF OnGrid, OrderInv, TypeOK, Apart, Below, NoOverlap, Disjoint
<1> HIDE DEF GridInv
<1>4. Spec => []ListInv
  BY ListInvariant
<1> QED
  BY <1>1, <1>2, <1>3, <1>4, OrderInvariant, PTL DEF Spec
-----------------------------------------------------------------------------
(* What a program sees of it. *)

\* free_size is that of the call, and 0 without one.
Asking ==
    /\ pc = "idle" => free_size = 0
    /\ pc = "scan" => free_size \in Nat \ {0}

LEMMA AskingStep == TypeOK /\ Asking /\ [Next]_vars => Asking'
<1> SUFFICES ASSUME TypeOK, Asking, [Next]_vars PROVE Asking'
  OBVIOUS
<1> USE MmallocAssumption DEF Asking
<1>1. ASSUME NEW blocks \in Requests, Call(blocks) PROVE Asking'
  BY <1>1 DEF Call
<1>2. CASE ScanPast \/ ScanSkip
  BY <1>2 DEF ScanPast, ScanSkip, Advance
<1>3. CASE ReturnNull
  BY <1>3 DEF ReturnNull, Return
<1>4. ASSUME NEW e \in Ents, Insert(e) \/ Append(e) \/ Mfree(e) PROVE Asking'
  BY <1>4 DEF Insert, Append, Mfree, Return, locals
<1>5. CASE UNCHANGED vars
  BY <1>5 DEF vars, locals
<1> QED
  BY <1>1, <1>2, <1>3, <1>4, <1>5 DEF Next

\* A new entry is an area of the size asked for, inside the whole area, and apart
\* from the others unless a gap was skipped.
LEMMA PoolGives ==
  ASSUME OrderInv, Asking, NEW e \in Ents, Insert(e) \/ Append(e)
  PROVE  Pool!Give(e)
<1> USE MmallocAssumption DEF TypeOK, Cells, OrderInv, Fill
<1> DEFINE area == [addr |-> free_offset, size |-> free_size]
<1>1. /\ pc = "scan" /\ Found /\ Fits /\ e \notin alloc /\ free_size # 0
      /\ free_size' = 0 /\ skipped' = skipped
  BY DEF Insert, Append, Found, Return, Asking
<1>2. Areas' = Pool!With(e, area)
  <2>1. /\ alloc' = alloc \cup {e}
        /\ p_addr' = [p_addr EXCEPT ![e] = free_offset]
        /\ p_size' = [p_size EXCEPT ![e] = free_size]
    BY DEF Insert, Append
  <2> QED
    BY <2>1 DEF Areas, Pool!With, Pool!Given
<1>3. free_offset \in 0..(Offset + AreaSize) /\ free_offset + free_size <= Offset + AreaSize
  BY <1>1 DEF Fits
<1>4. ASSUME ~skipped, NEW f \in alloc PROVE Pool!Apart(Areas[f], area)
  BY <1>1, <1>4, RoomApart DEF Ordered, Areas, Pool!Apart
<1> QED
  BY <1>1, <1>2, <1>3, <1>4 DEF Pool!Give, Pool!Given, Areas

LEMMA PoolStep ==
  ASSUME OrderInv, Asking, [Next]_vars
  PROVE  [Pool!Next]_(Pool!vars)
<1> USE MmallocAssumption DEF OrderInv
<1>1. ASSUME UNCHANGED list PROVE UNCHANGED Areas
  BY <1>1 DEF list, Areas
<1>2. ASSUME NEW blocks \in Requests, Call(blocks) PROVE Pool!Ask(blocks)
  BY <1>1, <1>2 DEF Call, Asking, Pool!Ask
<1>3. CASE ScanPast
  BY <1>1, <1>3 DEF ScanPast, Advance, Pool!vars
<1>4. CASE ScanSkip
  BY <1>1, <1>4 DEF ScanSkip, Advance, Asking, Pool!Next, Pool!Lapse
<1>5. CASE ReturnNull
  BY <1>1, <1>5 DEF ReturnNull, Found, Return, Asking, Pool!Next, Pool!Refuse
<1>6. ASSUME NEW e \in Ents, Insert(e) \/ Append(e) PROVE Pool!Give(e)
  BY <1>6, PoolGives
<1>7. ASSUME NEW e \in Ents, Mfree(e) PROVE Pool!Free(e)
  <2>1. Areas' = Pool!Without(e)
    BY <1>7 DEF Mfree, TypeOK, Areas, Pool!Without, Pool!Given
  <2> QED
    BY <1>7, <2>1 DEF Mfree, locals, Asking, Areas, Pool!Free, Pool!Given
<1>8. CASE UNCHANGED vars
  BY <1>1, <1>8 DEF vars, locals, Pool!vars
<1> QED
  BY <1>2, <1>3, <1>4, <1>5, <1>6, <1>7, <1>8 DEF Next, Pool!Next

\* Mmalloc implements AreaPool: also behind a skipped gap an area has the size that was
\* asked for, ends inside the whole area, and no call moves or takes away another one.
THEOREM ImplementsPool == Spec => KeepsPool
<1>1. Init => Pool!Init /\ Asking
  BY DEF Init, Pool!Init, Areas, Asking
<1>2. OrderInv => TypeOK
  BY DEF OrderInv
<1>3. Spec => []Asking
  BY <1>1, <1>2, AskingStep, OrderInvariant, PTL DEF Spec
<1> QED
  BY <1>1, <1>3, PoolStep, OrderInvariant, PTL DEF Spec, KeepsPool, Pool!Spec
=============================================================================
