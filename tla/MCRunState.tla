----------------------------- MODULE MCRunState -----------------------------
(* Small instances of RunState.  A caller makes at most one new runner, so   *)
(* as many runners as callers are enough.                                    *)
EXTENDS RunState, TLC

RSymmetry ==
  Permutations(Callers) \cup Permutations(Cancellers) \cup Permutations(Runners)
=============================================================================
