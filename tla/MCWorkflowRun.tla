--------------------------- MODULE MCWorkflowRun ---------------------------
(* Model-checking instance of WorkflowRun. *)
EXTENDS WorkflowRun
=============================================================================
