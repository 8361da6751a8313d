------------------------------- MODULE Mmalloc -------------------------------
(***************************************************************************)
(* mmalloc.c: areas of a large file (the DDR of the FPGA, through ficfuse) *)
(* handed out first-fit from a doubly linked list of entries that starts   *)
(* at a dummy.  mmalloc is one action per round of its scan, mfree is one  *)
(* action.                                                                 *)
(*                                                                         *)
(* Addresses and sizes are counted in blocks of MMALLOC_BLOCK_SIZE: every  *)
(* size is rounded up to whole blocks and every address the scan computes  *)
(* is a sum of those.  An entry stands for its mapping, the pointer that   *)
(* mfree is given.  Two ways in which mmalloc returns NULL, malloc and     *)
(* mmap failing, are one.                                                  *)
(***************************************************************************)
EXTENDS Naturals, FiniteSets

CONSTANTS
    Ents,       \* mmallocEnt structures
    Head,       \* the dummy info.ent
    Null,
    Requests,   \* the sizes asked for, in blocks: size / MMALLOC_BLOCK_SIZE + 1
    Offset,     \* info.offset
    AreaSize    \* info.area_size

ASSUME MmallocAssumption ==
    /\ Head \notin Ents /\ Null \notin Ents /\ Head # Null
    /\ Requests \subseteq Nat \ {0}
    /\ Offset \in Nat /\ AreaSize \in Nat

VARIABLES
    next, prev,     \* the links of the list; info.ent has them too
    p_addr, p_size, \* the area of an entry
    alloc,          \* the entries in the list: allocated and not freed
    pc,             \* "idle", or "scan" in the loop of mmalloc
    free_offset, free_size, ent, ent_prev,  \* locals of mmalloc
    skipped         \* history: the scan has gone past a gap that is too small

list == <<next, prev, p_addr, p_size, alloc>>
locals == <<pc, free_offset, free_size, ent, ent_prev>>
vars == <<list, locals, skipped>>

Cells == Ents \cup {Head}

st_addr == p_addr[ent]
ed_addr == p_addr[ent] + p_size[ent]

\* mmallocInit
Init ==
    /\ next = [c \in Cells |-> Null] /\ prev = [c \in Cells |-> Null]
    /\ p_addr = [e \in Ents |-> 0] /\ p_size = [e \in Ents |-> 0]
    /\ alloc = {}
    /\ pc = "idle" /\ free_offset = 0 /\ free_size = 0
    /\ ent = Null /\ ent_prev = Head
    /\ skipped = FALSE
-----------------------------------------------------------------------------
(* mmalloc *)

Call(blocks) ==
    /\ pc = "idle"
    /\ pc' = "scan"
    /\ free_offset' = 0 /\ free_size' = blocks
    /\ ent_prev' = Head /\ ent' = next[Head]
    /\ UNCHANGED <<list, skipped>>

Advance == ent_prev' = ent /\ ent' = next[ent] /\ UNCHANGED <<pc, free_size, list>>

\* Mutant: the last block of the entry is taken for the first one after it.
ScanPastOffByOne ==
    /\ pc = "scan" /\ ent # Null
    /\ free_offset >= st_addr
    /\ free_offset' = ed_addr - 1
    /\ Advance
    /\ UNCHANGED skipped

\* The offset is not before the entry: look behind it, one block away.
ScanPast ==
    /\ pc = "scan" /\ ent # Null
    /\ free_offset >= st_addr
    /\ free_offset' = ed_addr + 1
    /\ Advance
    /\ UNCHANGED skipped

\* The gap before the entry is too small.  The loop goes on to the next entry
\* with the offset it has.
ScanSkip ==
    /\ pc = "scan" /\ ent # Null
    /\ free_offset < st_addr /\ free_offset + free_size >= st_addr
    /\ skipped' = TRUE
    /\ Advance
    /\ UNCHANGED free_offset

\* The loop ends at the end of the list or at a gap that is large enough.
Found ==
    /\ pc = "scan"
    /\ \/ ent = Null
       \/ ent # Null /\ free_offset < st_addr /\ free_offset + free_size < st_addr

\* Mutant: the size is not looked at.
FitsUnsized == free_offset <= Offset + AreaSize

\* info.offset is added to the end of the area; the scan does not start at it.
Fits == free_offset + free_size <= Offset + AreaSize

\* Locals are dead when mmalloc returns.
Return ==
    /\ pc' = "idle" /\ free_offset' = 0 /\ free_size' = 0
    /\ ent' = Null /\ ent_prev' = Head

ReturnNull ==
    /\ Found
    /\ Return
    /\ UNCHANGED <<list, skipped>>

Fill(e) ==
    /\ e \notin alloc
    /\ alloc' = alloc \cup {e}
    /\ p_addr' = [p_addr EXCEPT ![e] = free_offset]
    /\ p_size' = [p_size EXCEPT ![e] = free_size]

\* Mutant: the entry after the new one keeps its link to the one before.
InsertKeepsPrev(e) ==
    /\ Found /\ ent # Null /\ Fits
    /\ Fill(e)
    /\ next' = [next EXCEPT ![e] = ent, ![prev[ent]] = e]
    /\ prev' = [prev EXCEPT ![e] = prev[ent]]
    /\ Return
    /\ UNCHANGED skipped

Insert(e) ==
    /\ Found /\ ent # Null /\ Fits
    /\ Fill(e)
    /\ next' = [next EXCEPT ![e] = ent, ![prev[ent]] = e]
    /\ prev' = [prev EXCEPT ![e] = prev[ent], ![ent] = e]
    /\ Return
    /\ UNCHANGED skipped

Append(e) ==
    /\ Found /\ ent = Null /\ Fits
    /\ Fill(e)
    /\ next' = [next EXCEPT ![e] = Null, ![ent_prev] = e]
    /\ prev' = [prev EXCEPT ![e] = ent_prev]
    /\ Return
    /\ UNCHANGED skipped
-----------------------------------------------------------------------------
\* Mutant: the entry before the freed one is linked to itself.
MfreeSwapsLinks(e) ==
    /\ pc = "idle"
    /\ e \in alloc
    /\ alloc' = alloc \ {e}
    /\ next' = [next EXCEPT ![prev[e]] = prev[e], ![e] = Null]
    /\ prev' = [c \in Cells |-> IF c = e THEN Null
                                ELSE IF c = next[e] THEN prev[e] ELSE prev[c]]
    /\ p_addr' = [p_addr EXCEPT ![e] = 0] /\ p_size' = [p_size EXCEPT ![e] = 0]
    /\ UNCHANGED <<locals, skipped>>

\* mfree of a pointer that mmalloc returned.  For any other it does nothing.
Mfree(e) ==
    /\ pc = "idle"
    /\ e \in alloc
    /\ alloc' = alloc \ {e}
    /\ next' = [next EXCEPT ![prev[e]] = next[e], ![e] = Null]
    /\ prev' = [c \in Cells |-> IF c = e THEN Null
                                ELSE IF c = next[e] THEN prev[e] ELSE prev[c]]
    /\ p_addr' = [p_addr EXCEPT ![e] = 0] /\ p_size' = [p_size EXCEPT ![e] = 0]
    /\ UNCHANGED <<locals, skipped>>

Next ==
    \/ \E blocks \in Requests : Call(blocks)
    \/ ScanPast \/ ScanSkip \/ ReturnNull
    \/ \E e \in Ents : Insert(e) \/ Append(e) \/ Mfree(e)

Spec == Init /\ [][Next]_vars
-----------------------------------------------------------------------------
(* Properties *)

TypeOK ==
    /\ next \in [Cells -> Ents \cup {Null}]
    /\ prev \in [Cells -> Cells \cup {Null}]
    /\ p_addr \in [Ents -> Nat] /\ p_size \in [Ents -> Nat]
    /\ alloc \subseteq Ents
    /\ pc \in {"idle", "scan"}
    /\ free_offset \in Nat /\ free_size \in Nat
    /\ ent \in Ents \cup {Null} /\ ent_prev \in Cells
    /\ skipped \in BOOLEAN

Listed == alloc \cup {Head}

\* Every entry has a place of its own in the list, next leads from one place to the
\* one behind it and from the last to Null, and prev leads back.
Chained(place) ==
    /\ place[Head] = 0
    /\ \A c, d \in Listed : place[c] = place[d] => c = d
    /\ \A c \in Listed :
          IF next[c] = Null
          THEN place[c] = Cardinality(alloc)
          ELSE /\ next[c] \in alloc /\ place[next[c]] = place[c] + 1
               /\ prev[next[c]] = c

\* The list holds every allocated entry once, ends, and can be walked back: no
\* sequence of insertions in the middle and of releases loses an entry, not even
\* behind a gap that was skipped.
ListIntact == \E place \in [Listed -> 0..Cardinality(alloc)] : Chained(place)

Disjoint(e, f) ==
    \/ p_addr[e] + p_size[e] <= p_addr[f]
    \/ p_addr[f] + p_size[f] <= p_addr[e]

\* "Find allocatable area": two areas that are allocated never overlap.
NoOverlap == \A e, f \in alloc : e # f => Disjoint(e, f)

\* A free block stays between two areas.
Separated ==
    \A e, f \in alloc : p_addr[e] < p_addr[f] => p_addr[e] + p_size[e] < p_addr[f]

\* The areas stay apart until the scan has gone past a gap too small for its
\* request: that step is the only cause of an overlap.
SeparatedUnlessSkipped == skipped \/ (NoOverlap /\ Separated)
-----------------------------------------------------------------------------
(* The invariant behind it: until a gap is skipped, the list is sorted by   *)
(* address, and the scan stands right behind the entry it has passed.       *)

Below(e, f) == p_addr[e] + p_size[e] < p_addr[f]
After(c, e) == c = Head \/ Below(c, e)

Apart ==
    /\ \A e \in alloc : p_size[e] > 0
    /\ \A e, f \in alloc : e # f => Below(e, f) \/ Below(f, e)

\* next leads to the nearest area behind this one.
Sorted ==
    \A c \in Listed :
        /\ next[c] \in alloc \cup {Null}
        /\ next[c] # Null => After(c, next[c]) /\ next[c] # c
        /\ \A e \in alloc : e # c /\ After(c, e) =>
              next[c] # Null /\ (e = next[c] \/ Below(next[c], e))

\* prev leads back.
Linked ==
    /\ \A c \in Listed : next[c] # Null => prev[next[c]] = c
    /\ \A e \in alloc : prev[e] \in Listed /\ next[prev[e]] = e

Scanning ==
    pc = "scan" =>
        /\ free_size > 0
        /\ ent_prev \in Listed /\ ent = next[ent_prev]
        /\ free_offset = IF ent_prev = Head THEN 0
                         ELSE p_addr[ent_prev] + p_size[ent_prev] + 1

\* The scan holds two neighbours, and prev leads to a listed entry, whatever the
\* order of the areas is.
Standing == pc = "scan" => ent_prev \in Listed /\ ent = next[ent_prev]
ListInv == TypeOK /\ IsFiniteSet(alloc) /\ Linked /\ Standing /\ ListIntact

OrderInv == TypeOK /\ (skipped \/ (Apart /\ Sorted /\ Linked /\ Scanning))
-----------------------------------------------------------------------------
(* Programs that ask for areas of one size only. *)

OneSize == \A r, s \in Requests : r = s

\* Every area begins at a whole number of areas with a free block behind each, and
\* so does the room the scan looks for: no gap is ever too small.
GridPlace(a, size) == \E k \in Nat : a = k * (size + 1)
OnGrid(size) ==
    /\ ~skipped
    /\ \A e \in alloc : p_size[e] = size /\ GridPlace(p_addr[e], size)
    /\ pc = "scan" => free_size = size /\ GridPlace(free_offset, size)
-----------------------------------------------------------------------------
(* What a program sees of it, as the steps of an AreaPool. *)

Areas == [e \in alloc |-> [addr |-> p_addr[e], size |-> p_size[e]]]

Pool == INSTANCE AreaPool WITH
    Limit <- Offset + AreaSize, areas <- Areas, asked <- free_size, careless <- skipped

\* Also after a gap was skipped, mmalloc gives an area of the size asked for inside
\* the whole area, or NULL, and moves no other; mfree takes away the area it is given
\* alone.  Until then the new area is apart from all that are in use.
KeepsPool == Pool!Spec
=============================================================================
