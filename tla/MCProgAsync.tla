----------------------------- MODULE MCProgAsync -----------------------------
(* Three calls, one buffer more for a call whose thread is not created. *)
EXTENDS ProgAsync, TLC

\* Buffers, and threads, are told apart only by equality.
Symmetry == Permutations(Buffers) \cup Permutations(Tasks)
=============================================================================
