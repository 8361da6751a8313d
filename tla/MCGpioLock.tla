----------------------------- MODULE MCGpioLock -----------------------------
(* Two threads of one process (ficfuse) and one of another (a program that  *)
(* uses mmread, or pyficprog).                                              *)
EXTENDS GpioLock

CONSTANTS t1, t2, t3, p1, p2

MCProcessOf == [t \in Threads |-> IF t = t3 THEN p2 ELSE p1]
=============================================================================
