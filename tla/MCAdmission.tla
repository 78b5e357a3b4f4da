----------------------------- MODULE MCAdmission ------------------------------
(* Model values for the instances of Admission.                              *)
EXTENDS Admission

CONSTANTS t1, t2, t3
=============================================================================
