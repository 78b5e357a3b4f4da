----------------------------- MODULE MCTurnLoop -----------------------------
(* TurnLoop for TLC: every constant gets its value in the configurations.    *)
EXTENDS TurnLoop
=============================================================================
