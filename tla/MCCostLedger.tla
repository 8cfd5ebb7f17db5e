---------------------------- MODULE MCCostLedger ----------------------------
(***************************************************************************)
(* CostLedger with two workers, so that their probes meet, or one worker   *)
(* and reviews, and a budget too small for all of them.                    *)
(***************************************************************************)
EXTENDS CostLedger, TLC

\* The workers of a run are interchangeable (used by the safety run only).
Symmetry == Permutations(PiCalls)
=============================================================================
