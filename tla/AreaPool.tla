------------------------------ MODULE AreaPool ------------------------------
(***************************************************************************)
(* What mmalloc and mfree promise a program: areas of the size asked for,  *)
(* inside the whole area and apart from every other, which stay where they *)
(* are until they are freed.                                               *)
(***************************************************************************)
EXTENDS Naturals

CONSTANTS
    Ents,       \* names of areas
    Requests,   \* the sizes asked for
    Limit       \* the first block behind the whole area

VARIABLES
    areas,      \* [addr, size] of each area that was given and not freed
    asked,      \* the size that a call of mmalloc looks for, or 0
    careless    \* areas are no longer kept apart

vars == <<areas, asked, careless>>

Given == DOMAIN areas
Without(e) == [f \in Given \ {e} |-> areas[f]]
With(e, a) == [f \in Given \cup {e} |-> IF f = e THEN a ELSE areas[f]]

\* A free block stays between two areas.
Apart(a, b) == a.addr + a.size < b.addr \/ b.addr + b.size < a.addr

Init == areas = [e \in {} |-> 0] /\ asked = 0 /\ careless = FALSE

Ask(size) ==
    /\ asked = 0
    /\ asked' = size
    /\ UNCHANGED <<areas, careless>>

Give(e) ==
    /\ asked # 0 /\ e \notin Given
    /\ \E addr \in 0..Limit :
          LET area == [addr |-> addr, size |-> asked]
          IN  /\ addr + asked <= Limit
              /\ careless \/ \A f \in Given : Apart(areas[f], area)
              /\ areas' = With(e, area)
    /\ asked' = 0
    /\ UNCHANGED careless

\* mmalloc returns NULL.
Refuse ==
    /\ asked # 0
    /\ asked' = 0
    /\ UNCHANGED <<areas, careless>>

\* The promise to keep areas apart ends while mmalloc looks for room.
Lapse ==
    /\ asked # 0
    /\ careless' = TRUE
    /\ UNCHANGED <<areas, asked>>

Free(e) ==
    /\ asked = 0 /\ e \in Given
    /\ areas' = Without(e)
    /\ UNCHANGED <<asked, careless>>

Next ==
    \/ \E size \in Requests : Ask(size)
    \/ \E e \in Ents : Give(e) \/ Free(e)
    \/ Refuse \/ Lapse

Spec == Init /\ [][Next]_vars
=============================================================================
