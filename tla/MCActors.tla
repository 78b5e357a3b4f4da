------------------------------- MODULE MCActors -------------------------------
(* Model values for the instances of Actors.                                 *)
EXTENDS Actors

CONSTANTS a1
=============================================================================
