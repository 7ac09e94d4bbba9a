---------------------------- MODULE MCIOManager ----------------------------
(* Instances of the event half of IOManager for TLC. *)
EXTENDS IOManagerProofs, TLC

(* The threads of the pool are interchangeable.                            *)
Symmetry == Permutations(Threads)
=============================================================================
