----------------------------- MODULE BusPromise -----------------------------
(***************************************************************************)
(* What an operation of the parallel bus promises its caller, with no pins *)
(* and no handshake in it: it moves its words one at a time, it returns 0  *)
(* only after the last one, and it may give up at any point.  The promise  *)
(* is void for an operation in which the Pi ran ahead of the FPGA or a     *)
(* fast word timed out, which only FicBus can name.                        *)
(***************************************************************************)
EXTENDS Naturals

CONSTANTS
    Ops,        \* the operations
    Words       \* the number of words of each, in both directions together

VARIABLES
    status,     \* "busy" in a call, "idle" after 0 and "failed" after -1
    op,         \* the operation of the current or the last call
    moved,      \* the words it has moved
    void        \* nothing is promised of this call

vars == <<status, op, moved, void>>

Init == status = "idle" /\ op \in Ops /\ moved = 0 /\ void = FALSE

Call(o) ==
    /\ status # "busy"
    /\ status' = "busy" /\ op' = o /\ moved' = 0 /\ void' = FALSE

Move ==
    /\ status = "busy" /\ ~void
    /\ moved < Words[op]
    /\ moved' = moved + 1
    /\ UNCHANGED <<status, op, void>>

Void ==
    /\ status = "busy" /\ ~void
    /\ void' = TRUE /\ moved' = 0
    /\ UNCHANGED <<status, op>>

Succeed ==
    /\ status = "busy"
    /\ void \/ moved = Words[op]
    /\ status' = "idle"
    /\ UNCHANGED <<op, moved, void>>

Fail ==
    /\ status = "busy"
    /\ status' = "failed" /\ moved' = 0 /\ void' = FALSE
    /\ UNCHANGED op

Next == Move \/ Void \/ Succeed \/ Fail \/ \E o \in Ops : Call(o)

Spec == Init /\ [][Next]_vars
=============================================================================
