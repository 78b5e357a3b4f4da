-------------------------- MODULE RunnerRefinement --------------------------
(***************************************************************************)
(* Runner implements SingleFlight: a run is a flight, joinable while the   *)
(* runner's state holds it (running, or queued behind a shell), landed     *)
(* when its Deferred is completed.  Shell commands are not visible.        *)
(***************************************************************************)
EXTENDS Runner

Flight(c) == IF op[c] = "run" THEN awaits[c] ELSE NoOne

Answer(c) ==
  IF op[c] = "shell" THEN "none"
  ELSE IF result[c] = "interrupted" THEN "cancelled" ELSE result[c]

joinableBar == [r \in Runners |-> ref[r].run]
flightBar   == [c \in Callers |-> Flight(c)]
answerBar   == [c \in Callers |-> Answer(c)]

Promise == INSTANCE SingleFlight
             WITH joinable <- joinableBar, flight <- flightBar,
                  landed <- done, answer <- answerBar

(* Runner's every step is a step of SingleFlight or invisible to it: calls   *)
(* join only what has not landed, and return what their flight landed with.  *)
ImplementsSingleFlight == Promise!Spec

(* ... and if, beyond the fairness of FairSpec, all work ends, then every     *)
(* flight lands and everyone on it is answered (or has given up).            *)
ImplementsSingleFlightLive == WorkIsFinite => Promise!Lands
=============================================================================
