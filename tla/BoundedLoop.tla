---------------------------- MODULE BoundedLoop ----------------------------
(***************************************************************************)
(* What the reliability loop promises, independently of drivers, storage   *)
(* and crashes: one implement-review pass, at most one rework pass, and a  *)
(* final outcome that never changes.  The whole durable state is the       *)
(* outcome and the number of attempts settled so far; attempts alternate,  *)
(* implementation first, so the number names them.                         *)
(***************************************************************************)
EXTENDS Naturals

(* implement, review, rework, second review *)
MaxAttempts == 4

VARIABLES outcome,          \* "open" or the terminal stage reached
          settled           \* attempts whose report is stored

vars == <<outcome, settled>>

Init == outcome = "open" /\ settled = 0

SettleImplement ==
  /\ outcome = "open" /\ settled % 2 = 0 /\ settled < MaxAttempts
  /\ settled' = settled + 1
  /\ UNCHANGED outcome

Approve ==
  /\ outcome = "open" /\ settled % 2 = 1
  /\ settled' = settled + 1
  /\ outcome' = "completed"

(* The last review's rejection is the durable blocker. *)
RequestChanges ==
  /\ outcome = "open" /\ settled % 2 = 1
  /\ settled' = settled + 1
  /\ outcome' = IF settled + 1 = MaxAttempts THEN "blocked" ELSE "open"

Abort ==
  /\ outcome = "open"
  /\ outcome' \in {"failed", "cancelled"}
  /\ UNCHANGED settled

Next == SettleImplement \/ Approve \/ RequestChanges \/ Abort

Spec == Init /\ [][Next]_vars
=============================================================================
