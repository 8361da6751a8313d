------------------------------ MODULE MCFicFuse ------------------------------
(* A DDR of three words, so that a request can have a head, a body and a    *)
(* tail, and two workers that overlap in every way.                         *)
EXTENDS FicFuse, TLC

MemRequests ==
    [kind : {"read", "write"}, offset : {0, 1, 3, 4, 6}, size : {0, 1, 3, 6, 8}]
OtherRequests ==
    {[kind |-> "reg_read", offset |-> 12, size |-> 4],
     [kind |-> "reg_write", offset |-> 4, size |-> 3],
     [kind |-> "ddr_read", offset |-> 0, size |-> 8],
     [kind |-> "ddr_write", offset |-> 4, size |-> 8],
     [kind |-> "ddr_debug", offset |-> 0, size |-> 4],
     [kind |-> "init", offset |-> 0, size |-> 0]}
MCRequests == MemRequests \cup OtherRequests

MCSymmetry == Permutations(Workers)
=============================================================================
