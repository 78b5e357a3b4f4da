------------------------- MODULE MCRunnerRefinement -------------------------
(* Small instances of RunnerRefinement.                                      *)
EXTENDS RunnerRefinement
=============================================================================
