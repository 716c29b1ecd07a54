---------------------------- MODULE MCAgentLoop ----------------------------
(* Model-checking instance of AgentLoop. *)
EXTENDS AgentLoop

CONSTANTS p1, p2, p3, n1
MCPrompts == {p1, p2}
MCThreePrompts == {p1, p2, p3}
MCNotes == {n1}
=============================================================================
