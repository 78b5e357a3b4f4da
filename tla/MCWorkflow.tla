------------------------------ MODULE MCWorkflow ------------------------------
(* A small instance of Workflow: two callers of resume.                      *)
EXTENDS Workflow

CONSTANTS r1, r2

MCResumers == {r1, r2}
=============================================================================
