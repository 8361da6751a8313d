------------------------------ MODULE MCMmalloc ------------------------------
(* Few entries, in an area that holds them and not much more. *)
EXTENDS Mmalloc, TLC

\* The structures malloc returns are told apart only by equality.
EntSymmetry == Permutations(Ents)
=============================================================================
