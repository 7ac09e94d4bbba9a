---------------------------- MODULE MCFdManager ----------------------------
(* FdManager for TLC: the hooked threads are interchangeable.              *)
EXTENDS FdManager, TLC

Symmetry == Permutations(Threads \ Unhooked)
=============================================================================
