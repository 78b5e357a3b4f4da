------------------------------ MODULE MCRunner ------------------------------
(* Small instances of Runner.  Callers, and cancellers, are interchangeable. *)
EXTENDS Runner, TLC

Symmetry == Permutations(Callers) \cup Permutations(Cancellers)
=============================================================================
