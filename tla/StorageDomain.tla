--------------------------- MODULE StorageDomain ---------------------------
(***************************************************************************)
(* One storage domain over the JSON backend: open with the legacy          *)
(* bootstrap (per-record-unit.ts) and record validation, the write chain   *)
(* of domain.ts, the units' publish protocol (single-unit.ts,              *)
(* per-record-unit.ts, atomic.ts), close, and crashes.                     *)
(*                                                                         *)
(* Each caller has at most one write outstanding; the chain runs them one  *)
(* at a time.  The state of a write is                                     *)
(*   "queued"     on the chain, its job not started                        *)
(*   "writing"    the unit was called; the old document is still in place  *)
(*   "renamed"    the document is replaced, its directory not synced       *)
(*   "durable"    the unit's promise resolved; memory not yet updated      *)
(*   "idle"       settled with reply, or never called                      *)
(***************************************************************************)
EXTENDS TableWrite, Sequences

CONSTANTS
  Stale,            \* a document stamped with a version the unit does not accept
  Invalid,          \* an accepted document the owner's schema refuses
  PerRecord,        \* layout: one document per record, else one file
  BackupAndSkip,    \* invalidRecords: 'backup-and-skip'
  Legacy,           \* records of the predecessor's whole-unit file
  DirSyncFails,     \* the directory fsync after a rename may fail
  PowerLoss         \* a crash loses directory changes that were not synced

ASSUME LayoutAssumption ==
  /\ PerRecord \in BOOLEAN /\ BackupAndSkip \in BOOLEAN
  /\ DirSyncFails \in BOOLEAN /\ PowerLoss \in BOOLEAN
ASSUME LegacyAssumption == Legacy \in [Keys -> Record]

ASSUME ForeignAssumption == Stale \notin Record /\ Invalid \notin Record /\ Stale # Invalid

VARIABLES
  lifecycle,    \* "closed", "loading", "bootstrap", "validating", "open", "closing"
  files,        \* key -> the document the running system reads
  synced,       \* key -> the document a power loss leaves
  unit,         \* the single-file unit's own copy, published whole
  mem,          \* key -> record in the domain's memory: what get() returns
  chain,        \* callers with a job on the write chain
  call,         \* call[c], a write as in DurableTable with its states above
  next,         \* the record the running job writes
  origin        \* history: "fresh" or "used" medium, until "opened"

mediumVars == <<files, synced>>
vars == <<lifecycle, mediumVars, unit, mem, chain, call, next, origin>>

Document == Record \cup {Stale, Invalid}

(* The records the domain serves of these documents: a stale one reads as   *)
(* absent, an invalid one is never served.                                  *)
Table(docs) == [k \in Keys |-> IF docs[k] \in Record THEN docs[k] ELSE Absent]

(* Types; and close() drains: no accepted write is left unanswered by a     *)
(* closed domain, and none runs on a released unit.                         *)
TypeOK ==
  /\ lifecycle \in {"closed", "loading", "bootstrap", "validating", "open", "closing"}
  /\ files \in [Keys -> Document] /\ synced \in [Keys -> Document]
  /\ unit \in [Keys -> Record]
  /\ mem \in [Keys -> Record]
  /\ chain \in Seq(Callers)
  /\ call \in [Callers -> [state : {"idle", "queued", "writing", "renamed", "durable"},
                           op : Ops, key : Keys, value : Values, reply : Replies]]
  /\ next \in Record
  /\ origin \in {"fresh", "used", "opened"}
  /\ lifecycle = "closed" => chain = << >> /\ \A c \in Callers : call[c].state = "idle"

(* Any medium an earlier version of the program left behind. *)
Init ==
  /\ lifecycle = "closed"
  /\ files \in [Keys -> IF PerRecord THEN Document ELSE Record]
  /\ synced = files
  /\ unit = Empty
  /\ mem = Empty
  /\ chain = << >>
  /\ call = [c \in Callers |-> NoWrite]
  /\ next = Absent
  /\ origin = IF files = Empty THEN "fresh" ELSE "used"

-----------------------------------------------------------------------------
(* DomainFacility.open. *)

open ==
  /\ lifecycle = "closed"
  /\ lifecycle' = "loading"
  /\ UNCHANGED <<mediumVars, unit, mem, chain, call, next, origin>>

hasNewDocuments == \E k \in Keys : files[k] # Absent

(* loadAll finds no document path and a legacy file. *)
bootstrapBegins ==
  /\ lifecycle = "loading" /\ PerRecord
  /\ ~hasNewDocuments /\ Legacy # Empty
  /\ lifecycle' = "bootstrap"
  /\ UNCHANGED <<mediumVars, unit, mem, chain, call, next, origin>>

(* Each legacy record becomes a document of its own, durably, in turn. *)
bootstrapRecord(k) ==
  /\ lifecycle = "bootstrap"
  /\ Legacy[k] # Absent /\ files[k] = Absent
  /\ files' = [files EXCEPT ![k] = Legacy[k]]
  /\ synced' = files'
  /\ UNCHANGED <<lifecycle, unit, mem, chain, call, next, origin>>

(* loadAll returns the snapshot. *)
loadAll ==
  /\ \/ lifecycle = "loading" /\ (PerRecord => hasNewDocuments \/ Legacy = Empty)
     \/ lifecycle = "bootstrap" /\ \A k \in Keys : Legacy[k] # Absent => files[k] # Absent
  /\ lifecycle' = "validating"
  /\ UNCHANGED <<mediumVars, unit, mem, chain, call, next, origin>>

(* backup-and-skip: an invalid record's document is renamed aside. *)
backupRecord(k) ==
  /\ lifecycle = "validating" /\ PerRecord /\ BackupAndSkip
  /\ files[k] = Invalid
  /\ files' = [files EXCEPT ![k] = Absent]
  /\ UNCHANGED <<lifecycle, synced, unit, mem, chain, call, next, origin>>

(* Every record that is left satisfies the schema: the domain is open. *)
openReturns ==
  /\ lifecycle = "validating" /\ \A k \in Keys : files[k] # Invalid
  /\ lifecycle' = "open"
  /\ mem' = Table(files)
  /\ unit' = Table(files)
  /\ origin' = "opened"
  /\ UNCHANGED <<mediumVars, chain, call, next>>

(* A read or write failure, or a record the schema refuses: the unit is     *)
(* closed and the name is free again.                                       *)
openRejects ==
  /\ lifecycle \in {"loading", "bootstrap", "validating"}
  /\ lifecycle' = "closed"
  /\ UNCHANGED <<mediumVars, unit, mem, chain, call, next, origin>>

-----------------------------------------------------------------------------
(* Calls: put, delete, update. *)

enqueue(c) ==
  /\ call[c].state = "idle" /\ lifecycle \in {"open", "closing"}
  /\ IF lifecycle = "open"
       THEN /\ \E op \in Ops, k \in Keys, v \in Values :
                 /\ op # "put" => v = 0
                 /\ call' = [call EXCEPT ![c] = [state |-> "queued", op |-> op, key |-> k,
                                              value |-> v, reply |-> "none"]]
            /\ chain' = Append(chain, c)
       ELSE /\ call' = [call EXCEPT ![c].reply = "rejected"]
            /\ UNCHANGED chain
  /\ UNCHANGED <<lifecycle, mediumVars, unit, mem, next, origin>>

(* The job settles its caller and the chain moves on. *)
Settle(c, reply) ==
  /\ call' = [call EXCEPT ![c].state = "idle", ![c].reply = reply]
  /\ chain' = Tail(chain)
  /\ next' = Absent

Running(c, state) == chain # << >> /\ Head(chain) = c /\ call[c].state = state

(* Wrong: update's transform was applied when update() was called. *)
jobStartsEarlyValue(c) ==
  LET w == call[c] IN
  /\ Running(c, "queued")
  /\ next' = IF w.op = "update" THEN (w.value + 1) % 3 ELSE Applied(w, mem[w.key])
  /\ call' = [call EXCEPT ![c].state = "writing"]
  /\ unit' = IF PerRecord THEN unit ELSE [unit EXCEPT ![w.key] = next']
  /\ UNCHANGED <<lifecycle, mediumVars, mem, chain, origin>>

(* The slot of a job: existence and the transformed value are decided here. *)
(* The single-file unit changes its own copy before it publishes.           *)
jobStarts(c) ==
  LET w == call[c] IN
  /\ Running(c, "queued")
  /\ IF Vacuous(w, mem[w.key])
       THEN Settle(c, VacuousReply(w)) /\ UNCHANGED unit
       ELSE /\ next' = Applied(w, mem[w.key])
            /\ call' = [call EXCEPT ![c].state = "writing"]
            /\ unit' = IF PerRecord THEN unit ELSE [unit EXCEPT ![w.key] = next']
            /\ UNCHANGED chain
  /\ UNCHANGED <<lifecycle, mediumVars, mem, origin>>

(* Wrong: the write resolves right after the rename. *)
renameOverUnsynced(c) ==
  /\ Running(c, "writing") /\ (PerRecord => call[c].op # "delete")
  /\ files' = IF PerRecord THEN [files EXCEPT ![call[c].key] = next] ELSE unit
  /\ call' = [call EXCEPT ![c].state = "durable"]
  /\ UNCHANGED <<lifecycle, synced, unit, mem, chain, next, origin>>

(* writeAtomic up to its rename; the single file carries every record. *)
renameOver(c) ==
  LET w == call[c] IN
  /\ Running(c, "writing") /\ (PerRecord => w.op # "delete")
  /\ files' = IF PerRecord THEN [files EXCEPT ![w.key] = next] ELSE unit
  /\ call' = [call EXCEPT ![c].state = "renamed"]
  /\ UNCHANGED <<lifecycle, synced, unit, mem, chain, next, origin>>

(* The rest of writeAtomic: the directory is synced. *)
fsyncDirectory(c) ==
  /\ Running(c, "renamed")
  /\ synced' = files
  /\ call' = [call EXCEPT ![c].state = "durable"]
  /\ UNCHANGED <<lifecycle, files, unit, mem, chain, next, origin>>

(* deleteRecord of the per-record unit: rm, and nothing else. *)
deleteRecord(c) ==
  /\ Running(c, "writing") /\ PerRecord /\ call[c].op = "delete"
  /\ files' = [files EXCEPT ![call[c].key] = Absent]
  /\ call' = [call EXCEPT ![c].state = "durable"]
  /\ UNCHANGED <<lifecycle, synced, unit, mem, chain, next, origin>>

(* Wrong: the chain's tail is the rejected promise itself. *)
unitRejectsWedged(c) ==
  /\ Running(c, "writing") \/ (Running(c, "renamed") /\ DirSyncFails)
  /\ unit' = IF PerRecord THEN unit ELSE [unit EXCEPT ![call[c].key] = mem[call[c].key]]
  /\ call' = [call EXCEPT ![c].state = "idle", ![c].reply = "rejected"]
  /\ UNCHANGED <<lifecycle, mediumVars, mem, chain, next, origin>>

(* The unit's promise rejects: the single-file unit rolls its copy back.    *)
(* After the rename only the directory fsync can fail.                      *)
unitRejects(c) ==
  /\ Running(c, "writing") \/ (Running(c, "renamed") /\ DirSyncFails)
  /\ unit' = IF PerRecord THEN unit ELSE [unit EXCEPT ![call[c].key] = mem[call[c].key]]
  /\ Settle(c, "rejected")
  /\ UNCHANGED <<lifecycle, mediumVars, mem, origin>>

(* Wrong: memory is left as it was. *)
publishUnseen(c) ==
  /\ Running(c, "durable")
  /\ Settle(c, Reply(call[c]))
  /\ UNCHANGED <<lifecycle, mediumVars, unit, mem, origin>>

(* Memory, domain/changed and the caller's promise, in one segment. *)
publish(c) ==
  /\ Running(c, "durable")
  /\ mem' = [mem EXCEPT ![call[c].key] = next]
  /\ Settle(c, Reply(call[c]))
  /\ UNCHANGED <<lifecycle, mediumVars, unit, origin>>

-----------------------------------------------------------------------------
(* Close, crash. *)

close ==
  /\ lifecycle = "open"
  /\ lifecycle' = "closing"
  /\ UNCHANGED <<mediumVars, unit, mem, chain, call, next, origin>>

(* Wrong: the unit is released while writes are still queued. *)
closeEndsUndrained ==
  /\ lifecycle = "closing"
  /\ lifecycle' = "closed"
  /\ mem' = Empty /\ unit' = Empty
  /\ UNCHANGED <<mediumVars, chain, call, next, origin>>

(* The chain drained: the unit is released and the name is free again. *)
closeEnds ==
  /\ lifecycle = "closing" /\ chain = << >>
  /\ lifecycle' = "closed"
  /\ mem' = Empty /\ unit' = Empty
  /\ UNCHANGED <<mediumVars, chain, call, next, origin>>

(* The process dies, or the machine loses power: then each changed entry    *)
(* whose directory was not synced may be back at its old document.          *)
crash ==
  /\ lifecycle # "closed"
  /\ lifecycle' = "closed"
  /\ files' \in IF ~PowerLoss THEN {files}
                ELSE IF PerRecord
                  THEN {f \in [Keys -> Document] : \A k \in Keys : f[k] \in {files[k], synced[k]}}
                  ELSE {files, synced}
  /\ synced' = IF PowerLoss THEN files' ELSE synced
  /\ mem' = Empty /\ unit' = Empty
  /\ chain' = << >>
  /\ call' = [c \in Callers |-> NoWrite]
  /\ next' = Absent
  /\ UNCHANGED origin

Job(c) ==
  jobStarts(c) \/ renameOver(c) \/ fsyncDirectory(c) \/ deleteRecord(c)
  \/ unitRejects(c) \/ publish(c)

Next ==
  \/ open \/ bootstrapBegins \/ loadAll \/ openReturns \/ openRejects
  \/ \E k \in Keys : bootstrapRecord(k) \/ backupRecord(k)
  \/ \E c \in Callers : enqueue(c) \/ Job(c)
  \/ close \/ closeEnds \/ crash

Spec == Init /\ [][Next]_vars

(* File operations answer, and a close that began goes on. *)
Fairness ==
  /\ \A c \in Callers : WF_vars(Job(c))
  /\ WF_vars(closeEnds)

LiveSpec == Spec /\ Fairness

-----------------------------------------------------------------------------
(* Reads and the medium never diverge: whenever no job is between its unit   *)
(* call and its publication, memory holds exactly what a re-open would load. *)
MemoryMatchesMedium ==
  (/\ lifecycle \in {"open", "closing"}
   /\ \A c \in Callers : call[c].state \in {"idle", "queued"})
  => mem = Table(files)

(* A crash loses no write the unit resolved, and revives no deleted record:  *)
(* with no unit call in flight the next open finds the same records.         *)
CrashKeepsResolved ==
  [][ (/\ lifecycle \in {"open", "closing"} /\ lifecycle' = "closed"
       /\ \A c \in Callers : call[c].state \notin {"writing", "renamed"})
      => Table(files') = Table(files) ]_vars

(* The first successful open of a fresh tree has every legacy record. *)
LegacyIsImported ==
  [][ origin = "fresh" /\ origin' = "opened" /\ PerRecord
      => \A k \in Keys : Legacy[k] # Absent => mem'[k] = Legacy[k] ]_vars

(* The chain, the units and the crashes add up to atomic durable writes: an  *)
(* update sees the value at its slot and none is lost, a rejected write      *)
(* leaves no trace and does not ride along with a later one.  A write        *)
(* commits when its document is in place, or, where power may fail, when     *)
(* its directory is synced.                                                  *)
Committed == IF PowerLoss THEN {"durable"} ELSE {"renamed", "durable"}

Abstract == INSTANCE DurableTable WITH
  table <- Table(IF PowerLoss THEN synced ELSE files),
  write <- [c \in Callers |->
             [call[c] EXCEPT !.state = IF @ = "idle" THEN "idle"
                                       ELSE IF @ \in Committed THEN "committed"
                                       ELSE "called"]]

ImplementsDurableTable == Abstract!Spec

(* Every write is answered, also behind one that was rejected, and a close   *)
(* ends; only a crash may leave a caller without an answer.                  *)
WritesSettle ==
  /\ \A c \in Callers : call[c].state # "idle" ~> call[c].state = "idle"
  /\ lifecycle = "closing" ~> lifecycle = "closed"
=============================================================================
