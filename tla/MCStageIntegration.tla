------------------------- MODULE MCStageIntegration -------------------------
(***************************************************************************)
(* StageIntegration with two tasks: one whose own review is skipped and    *)
(* one that is reviewed, or both reviewed.                                 *)
(***************************************************************************)
EXTENDS StageIntegration

CONSTANTS t1, t2
=============================================================================
