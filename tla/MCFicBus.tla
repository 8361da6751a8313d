------------------------------ MODULE MCFicBus ------------------------------
(* The mk1 and mk2 boards: the configurations give the words their numbers. *)
EXTENDS FicBus
=============================================================================
