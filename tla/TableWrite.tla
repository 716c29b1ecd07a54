----------------------------- MODULE TableWrite -----------------------------
(***************************************************************************)
(* The writes of a KvTable (put, delete, update) and what each makes of    *)
(* the record current at its slot in the order of writes.                  *)
(***************************************************************************)
EXTENDS Naturals

CONSTANTS
  Callers, Keys,
  MaxValue,         \* bound: records are 0..MaxValue
  Absent            \* no record under this key

ASSUME WriteAssumption == Keys # {} /\ MaxValue \in Nat /\ Absent \notin Nat

Values == 0..MaxValue
Record == Values \cup {Absent}
Empty == [k \in Keys |-> Absent]

Ops == {"put", "delete", "update"}
Replies == {"none", "stored", "deleted", "absent", "missing-key", "rejected"}

(* update's transform is an increment: it tells a lost update apart. *)
Applied(w, current) ==
  IF w.op = "put" THEN w.value
  ELSE IF w.op = "delete" THEN Absent
  ELSE (current + 1) % (MaxValue + 1)

(* A delete or an update of a record that does not exist writes nothing. *)
Vacuous(w, current) == current = Absent /\ w.op # "put"
VacuousReply(w) == IF w.op = "delete" THEN "absent" ELSE "missing-key"
Reply(w) == IF w.op = "delete" THEN "deleted" ELSE "stored"

NoWrite == [state |-> "idle", op |-> "put", key |-> CHOOSE k \in Keys : TRUE,
            value |-> 0, reply |-> "none"]
=============================================================================
