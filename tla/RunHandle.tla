----------------------------- MODULE RunHandle -----------------------------
(***************************************************************************)
(* What the holder of a WorkflowRun relies on (the loop driver is one):    *)
(* no child is admitted once the run was stopped, the result comes after   *)
(* the last child was released, and a cancellation that was accepted is    *)
(* the outcome.                                                            *)
(***************************************************************************)
CONSTANTS Calls

VARIABLES
  children,    \* calls whose child is starting, running or being released
  stopped,     \* the abort signal fired
  cancelled,   \* cancel() was accepted
  outcome      \* "none", or the stopReason of the settled result

Init == children = {} /\ stopped = FALSE /\ cancelled = FALSE /\ outcome = "none"

Admit(c) ==
  /\ ~stopped /\ c \notin children
  /\ children' = children \cup {c}
  /\ UNCHANGED <<stopped, cancelled, outcome>>

Release(c) ==
  /\ c \in children
  /\ children' = children \ {c}
  /\ UNCHANGED <<stopped, cancelled, outcome>>

Cancel ==
  /\ ~stopped
  /\ stopped' = TRUE /\ cancelled' = TRUE
  /\ UNCHANGED <<children, outcome>>

(* The program ended: nothing more is admitted and no cancellation taken. *)
Conclude ==
  /\ ~stopped
  /\ stopped' = TRUE
  /\ UNCHANGED <<children, cancelled, outcome>>

Settle(r) ==
  /\ stopped /\ outcome = "none" /\ children = {}
  /\ cancelled <=> r = "cancelled"
  /\ outcome' = r
  /\ UNCHANGED <<children, stopped, cancelled>>

Next ==
  \/ Cancel
  \/ Conclude
  \/ \E c \in Calls : Admit(c) \/ Release(c)
  \/ \E r \in {"completed", "error", "cancelled"} : Settle(r)

Spec == Init /\ [][Next]_<<children, stopped, cancelled, outcome>>
=============================================================================
