------------------------------- MODULE MCJobs -------------------------------
(* Model-checking instance of Jobs: two jobs, one agent, one streaming job. *)
EXTENDS Jobs

CONSTANTS j1, j2, o1
MCJobIds == {j1, j2}
MCOwners == {o1}
MCStreaming == {j1}
MCMayStartFor == [j \in MCJobIds |-> IF j = j1 THEN {o1} ELSE {o1, Unowned}]
=============================================================================
