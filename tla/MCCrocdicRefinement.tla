------------------------- MODULE MCCrocdicRefinement -------------------------
(***************************************************************************)
(* The instances of MCCrocdicTop, for the refinement of CrocdicJob.        *)
(***************************************************************************)
EXTENDS MCCrocdicTop, CrocdicRefinement

=============================================================================
