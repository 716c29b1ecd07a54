---------------------------- MODULE DurableTable ----------------------------
(***************************************************************************)
(* What an open storage domain promises its callers: every write commits   *)
(* at one instant between its call and its reply, on the value current at  *)
(* that instant, or is refused and changes nothing.  A crash keeps every   *)
(* committed write; of the others at most the one being written may land.  *)
(***************************************************************************)
EXTENDS TableWrite

VARIABLES table,        \* key -> committed record, or Absent
          write         \* write[c] = [state, op, key, value, reply]

vars == <<table, write>>

Init ==
  /\ table \in [Keys -> Record]
  /\ write = [c \in Callers |-> NoWrite]

Call(c) ==
  /\ write[c].state = "idle"
  /\ \E op \in Ops, k \in Keys, v \in Values :
       write' = [write EXCEPT ![c] = [state |-> "called", op |-> op, key |-> k,
                                      value |-> v, reply |-> "none"]]
  /\ UNCHANGED table

Commit(c) ==
  LET w == write[c] IN
  /\ w.state = "called" /\ ~Vacuous(w, table[w.key])
  /\ table' = [table EXCEPT ![w.key] = Applied(w, @)]
  /\ write' = [write EXCEPT ![c].state = "committed"]

Answer(c, reply) ==
  /\ write' = [write EXCEPT ![c].state = "idle", ![c].reply = reply]
  /\ UNCHANGED table

Resolve(c) == write[c].state = "committed" /\ Answer(c, Reply(write[c]))

Skip(c) ==
  LET w == write[c] IN
  /\ w.state = "called" /\ Vacuous(w, table[w.key])
  /\ Answer(c, VacuousReply(w))

Reject(c) == write[c].state \in {"idle", "called"} /\ Answer(c, "rejected")

(* A record of the predecessor format is taken over: at an open, so while no *)
(* write is under way, and where the table has none of its own.              *)
Import(k) ==
  /\ table[k] = Absent
  /\ \A c \in Callers : write[c].state = "idle"
  /\ \E v \in Values : table' = [table EXCEPT ![k] = v]
  /\ UNCHANGED write

Crash ==
  /\ write' = [c \in Callers |-> NoWrite]
  /\ \/ UNCHANGED table
     \/ \E c \in Callers :
          LET w == write[c] IN
          /\ w.state = "called" /\ ~Vacuous(w, table[w.key])
          /\ table' = [table EXCEPT ![w.key] = Applied(w, @)]

Next ==
  \/ \E c \in Callers : Call(c) \/ Commit(c) \/ Resolve(c) \/ Skip(c) \/ Reject(c)
  \/ \E k \in Keys : Import(k)
  \/ Crash

Spec == Init /\ [][Next]_vars
=============================================================================
