---------------------------- MODULE MCRunControl ----------------------------
(***************************************************************************)
(* RunControl with two tasks and two terminals.                            *)
(***************************************************************************)
EXTENDS RunControl, TLC

CONSTANTS a, b, sh1, sh2

Symmetry == Permutations(Shells) \cup Permutations(Tasks)
=============================================================================
