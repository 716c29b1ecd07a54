----------------------------- MODULE LoopDriver -----------------------------
(***************************************************************************)
(* One loop and the driver that owns it (driver.ts), with the storage      *)
(* domain underneath, the stage runs, the acceptance gate and the shared   *)
(* workspace around it.                                                    *)
(*                                                                         *)
(* JavaScript runs a handler to its next await without interruption, so an *)
(* action is one synchronous segment and pc names the await the driver is  *)
(* suspended at:                                                           *)
(*   "top"        about to run an iteration of driveStages                 *)
(*   "inspect"    awaiting acceptance.inspect                              *)
(*   "diff"       awaiting boundedDiff (or between it and engine.start)    *)
(*   "running"    awaiting run.result                                      *)
(*   "disposing"  awaiting run.dispose                                     *)
(*   "gate"       awaiting acceptance.review: candidate not yet inspected  *)
(*   "gateput"    awaiting acceptance.review: its record being stored      *)
(*   "put"        awaiting table.put: not durable yet                      *)
(*   "putted"     awaiting table.put: durable, memory not updated yet      *)
(*   "done"       result settled                                           *)
(*   "idle"       no driver: the process restarted                         *)
(* Cancellation, workspace edits and crashes interleave at every await.    *)
(***************************************************************************)
EXTENDS LoopRecord

CONSTANTS
  Keys,           \* candidate identities (digests of the workspace state)
  NoKey,          \* no candidate observed
  DirSyncFails    \* the directory fsync after the rename may fail

ASSUME KeysAssumption == NoKey \notin Keys
ASSUME DirSyncAssumption == DirSyncFails \in BOOLEAN

VARIABLES
  disk,             \* the loop's record on the medium
  mem,              \* the loop's record in the domain's memory: what get() returns
  pc,
  todo,             \* the record the pending put carries
  cancelRequested,
  run,              \* the stage run: "none", "live", "cancelling", "settled"
  report,           \* what the settled run returned
  acceptance,       \* acceptanceStatus: candidate key and checksPassed
  result,           \* the handle's promise: "pending", "resolved", "rejected"
  work,             \* the workspace's current candidate identity
  checks,           \* whether the required checks pass right now
  shown,            \* history: the candidate named in the last review prompt
  vouched,          \* history: what the last acceptance.review established
  faulted           \* history: some put was rejected by the backend

loopVars == <<disk, mem, todo>>
driverVars == <<pc, cancelRequested, run, report, acceptance, result>>
workVars == <<work, checks>>
historyVars == <<shown, vouched, faulted>>
vars == <<loopVars, driverVars, workVars, historyVars>>

PCs == {"top", "inspect", "diff", "running", "disposing", "gate", "gateput",
        "put", "putted", "done", "idle"}

NoStatus == [key |-> NoKey, checksPassed |-> FALSE]
Statuses == [key : Keys \cup {NoKey}, checksPassed : BOOLEAN]

(* A settled run's value: a valid implement report, a review verdict, a     *)
(* report that fails validation, or one of the other stop reasons.          *)
Reports == ReviewVerdict \cup {"summary", "invalid", "cancelled", "error"}

NoVouch == [verdict |-> "none", shown |-> NoKey, key |-> NoKey, checks |-> FALSE]
Vouches == [verdict : ReviewVerdict \cup {"none"}, shown : Keys \cup {NoKey},
            key : Keys \cup {NoKey}, checks : BOOLEAN]

TypeOK ==
  /\ disk \in ReliabilityLoopRecord
  /\ mem \in ReliabilityLoopRecord
  /\ todo \in ReliabilityLoopRecord
  /\ pc \in PCs
  /\ cancelRequested \in BOOLEAN
  /\ run \in {"none", "live", "cancelling", "settled"}
  /\ report \in Reports \cup {"none"}
  /\ acceptance \in Statuses
  /\ result \in {"pending", "resolved", "rejected"}
  /\ work \in Keys /\ checks \in BOOLEAN
  /\ shown \in Keys \cup {NoKey}
  /\ vouched \in Vouches
  /\ faulted \in BOOLEAN

-----------------------------------------------------------------------------
(* start() stored the initial record, with or without an acceptance task,   *)
(* and handed the loop to a driver.                                         *)
Init ==
  /\ disk \in {InitialRecord(gated) : gated \in BOOLEAN}
  /\ mem = disk
  /\ todo = disk
  /\ pc = "top"
  /\ cancelRequested = FALSE
  /\ run = "none"
  /\ report = "none"
  /\ acceptance = NoStatus
  /\ result = "pending"
  /\ work \in Keys
  /\ checks \in BOOLEAN
  /\ shown = NoKey
  /\ vouched = NoVouch
  /\ faulted = FALSE

(* drive(): a durable-seam or invariant fault rejects the result. *)
settleReject == pc' = "done" /\ result' = "rejected" /\ UNCHANGED todo

settleResolve == pc' = "done" /\ result' = "resolved" /\ UNCHANGED todo

(* The put is issued only for a record that passes the assertion. *)
writeRecord(r) ==
  IF assertReliabilityLoopRecord(r)
    THEN pc' = "put" /\ todo' = r /\ UNCHANGED result
    ELSE settleReject

Await(next) == pc' = next /\ UNCHANGED <<todo, result>>

(* engine.start(): on behalf of a review, the prompt names the inspected    *)
(* candidate.                                                               *)
EngineStart ==
  /\ Await("running")
  /\ run' = "live"
  /\ shown' = IF StageKind(mem.stage) = "review" THEN acceptance.key ELSE shown

(* The catch block of runStage around everything up to engine.start. *)
StageCannotStart ==
  /\ IF cancelRequested THEN Await("top") ELSE writeRecord(FailedRecord(mem))
  /\ UNCHANGED <<run, shown>>

(* One iteration of driveStages, up to its first await.  An implement       *)
(* stage reaches engine.start without awaiting; a review stage awaits the   *)
(* acceptance inspection and the diff first.                                *)
driveStages ==
  /\ pc = "top"
  /\ IF ~assertReliabilityLoopRecord(mem) THEN
       settleReject /\ UNCHANGED <<run, shown>>
     ELSE IF isTerminalStage(mem.stage) THEN
       settleResolve /\ UNCHANGED <<run, shown>>
     ELSE IF cancelRequested THEN
       writeRecord(CancelledRecord(mem)) /\ UNCHANGED <<run, shown>>
     ELSE IF StageKind(mem.stage) = "implement" THEN
       EngineStart \/ StageCannotStart
     ELSE
       /\ Await(IF mem.gated THEN "inspect" ELSE "diff")
       /\ UNCHANGED <<run, shown>>
  /\ UNCHANGED <<disk, mem, cancelRequested, report, acceptance, workVars,
                 vouched, faulted>>

(* Wrong: the status lacks the host's judgement. *)
inspectReturnsKeyOnly ==
  /\ pc = "inspect"
  /\ acceptance' = [key |-> work]
  /\ Await("diff")
  /\ UNCHANGED <<disk, mem, cancelRequested, run, report, workVars, historyVars>>

inspectReturns ==
  /\ pc = "inspect"
  /\ acceptance' = [key |-> work, checksPassed |-> checks]
  /\ Await("diff")
  /\ UNCHANGED <<disk, mem, cancelRequested, run, report, workVars, historyVars>>

(* inspect rejects (aborted, or no executor), or the prompt with the        *)
(* evidence index exceeds the handoff bound.                                *)
inspectThrows ==
  /\ pc = "inspect"
  /\ StageCannotStart
  /\ UNCHANGED <<disk, mem, cancelRequested, report, acceptance, workVars,
                 vouched, faulted>>

(* Wrong: a cancel during the diff is forgotten. *)
startReviewUnchecked ==
  /\ pc = "diff"
  /\ EngineStart \/ StageCannotStart
  /\ UNCHANGED <<disk, mem, cancelRequested, report, acceptance, workVars,
                 vouched, faulted>>

(* The check that no run starts after a cancel, and engine.start. *)
startReview ==
  /\ pc = "diff"
  /\ IF cancelRequested THEN Await("top") /\ UNCHANGED <<run, shown>>
     ELSE EngineStart \/ StageCannotStart
  /\ UNCHANGED <<disk, mem, cancelRequested, report, acceptance, workVars,
                 vouched, faulted>>

(* What a run of the current stage may settle with. *)
StageReports ==
  {"invalid", "cancelled", "error"} \cup
  (IF StageKind(mem.stage) = "implement" THEN {"summary"} ELSE ReviewVerdict)

(* The run settles by itself, or because it was cancelled; the driver then  *)
(* disposes it.  A run that was asked to cancel may still complete.         *)
runSettles ==
  /\ pc = "running"
  /\ run' = "settled"
  /\ report' \in StageReports
  /\ Await("disposing")
  /\ UNCHANGED <<disk, mem, cancelRequested, acceptance, workVars, historyVars>>

applyReport ==
  IF StageKind(mem.stage) = "implement" THEN
    writeRecord(AfterImplement(mem, StageRound(mem.stage)))
  ELSE IF mem.gated THEN
    IF acceptance.key = NoKey THEN writeRecord(FailedRecord(mem)) ELSE Await("gate")
  ELSE writeRecord(AfterReview(mem, StageRound(mem.stage), report))

applySettled ==
  IF cancelRequested THEN Await("top")
  ELSE IF report \in {"invalid", "cancelled", "error"} THEN
    writeRecord(FailedRecord(mem))
  ELSE applyReport

(* run.dispose() resolves: the run owns nothing any more. *)
runDisposed ==
  /\ pc = "disposing"
  /\ run' = "none"
  /\ applySettled
  /\ UNCHANGED <<disk, mem, cancelRequested, report, acceptance, workVars, historyVars>>

(* acceptance.review: the store inspects the candidate again and compares   *)
(* it with the one the reviewer was shown.                                  *)
reviewInspects ==
  /\ pc = "gate"
  /\ acceptance' = [key |-> work, checksPassed |-> checks /\ work = acceptance.key]
  /\ vouched' = [verdict |-> report, shown |-> shown, key |-> work, checks |-> checks]
  /\ Await("gateput")
  /\ UNCHANGED <<disk, mem, cancelRequested, run, report, workVars, shown, faulted>>

(* Wrong: the reviewer's verdict stands although the checks fail. *)
ModelVerdict == report

(* The required checks override an approving reviewer. *)
EnforcedVerdict == IF acceptance.checksPassed THEN report ELSE "changes-requested"

(* Wrong: a cancel while the review was being stored is forgotten. *)
reviewReturnsUnchecked ==
  /\ pc = "gateput"
  /\ writeRecord(AfterReview(mem, StageRound(mem.stage), EnforcedVerdict))
  /\ UNCHANGED <<disk, mem, cancelRequested, run, report, acceptance, workVars, historyVars>>

reviewReturns ==
  /\ pc = "gateput"
  /\ IF cancelRequested THEN Await("top")
     ELSE writeRecord(AfterReview(mem, StageRound(mem.stage), EnforcedVerdict))
  /\ UNCHANGED <<disk, mem, cancelRequested, run, report, acceptance, workVars, historyVars>>

reviewThrows ==
  /\ pc \in {"gate", "gateput"}
  /\ IF cancelRequested THEN Await("top") ELSE writeRecord(FailedRecord(mem))
  /\ UNCHANGED <<disk, mem, cancelRequested, run, report, acceptance, workVars, historyVars>>

-----------------------------------------------------------------------------
(* table.put: durable first, then memory, then the awaiting driver. *)

putDurable ==
  /\ pc = "put"
  /\ disk' = todo
  /\ Await("putted")
  /\ UNCHANGED <<mem, cancelRequested, run, report, acceptance, workVars, historyVars>>

(* Wrong: memory keeps the record the put replaced. *)
putReturnsUnpublished ==
  /\ pc = "putted"
  /\ Await("top")
  /\ UNCHANGED <<disk, mem, cancelRequested, run, report, acceptance, workVars, historyVars>>

putReturns ==
  /\ pc = "putted"
  /\ mem' = todo
  /\ Await("top")
  /\ UNCHANGED <<disk, cancelRequested, run, report, acceptance, workVars, historyVars>>

(* The backend rejects; after the rename only a failing directory fsync     *)
(* can still reject, and then the medium already holds the new record.      *)
putRejects ==
  /\ \/ pc = "put"
     \/ pc = "putted" /\ DirSyncFails
  /\ settleReject
  /\ faulted' = TRUE
  /\ UNCHANGED <<disk, mem, cancelRequested, run, report, acceptance, workVars,
                 shown, vouched>>

-----------------------------------------------------------------------------
(* cancel() of a handle, and the cancel inside dispose(). *)
cancel ==
  /\ pc # "idle" /\ ~cancelRequested
  /\ cancelRequested' = TRUE
  /\ run' = IF run = "live" THEN "cancelling" ELSE run
  /\ UNCHANGED <<loopVars, pc, report, acceptance, result, workVars, historyVars>>

(* A fresh driver for an unsettled record: after a restart, or after a      *)
(* driver whose put was rejected released the loop.                         *)
resume ==
  /\ pc = "idle" \/ pc = "done"
  /\ ~isTerminalStage(mem.stage)
  /\ pc' = "top"
  /\ cancelRequested' = FALSE
  /\ acceptance' = NoStatus
  /\ result' = "pending"
  /\ UNCHANGED <<loopVars, run, report, workVars, historyVars>>

(* The process dies; the next one loads the domain from the medium. *)
crash ==
  /\ pc # "idle"
  /\ pc' = "idle"
  /\ mem' = disk
  /\ cancelRequested' = FALSE
  /\ run' = "none"
  /\ report' = "none"
  /\ acceptance' = NoStatus
  /\ result' = "pending"
  /\ UNCHANGED <<disk, todo, workVars, historyVars>>

(* Agents and users edit the shared workspace, and checks are re-run, at    *)
(* any time.                                                                *)
edit ==
  /\ work' \in Keys
  /\ checks' \in BOOLEAN
  /\ UNCHANGED <<loopVars, driverVars, historyVars>>

Driver ==
  \/ driveStages
  \/ inspectReturns \/ inspectThrows \/ startReview
  \/ runDisposed
  \/ reviewInspects \/ reviewReturns \/ reviewThrows
  \/ putDurable \/ putReturns \/ putRejects

Next == Driver \/ runSettles \/ cancel \/ resume \/ crash \/ edit

Spec == Init /\ [][Next]_vars

(* The awaits a driver makes settle: the store's queue drains, git diff has *)
(* a timeout, storage answers, and a run is disposed within the engine's    *)
(* grace.  A stage run may take forever, unless it was asked to cancel.     *)
Fairness ==
  /\ WF_vars(Driver)
  /\ WF_vars(runSettles /\ run = "cancelling")

LiveSpec == Spec /\ Fairness

-----------------------------------------------------------------------------
(* The result promise rejects only when the durable record cannot be         *)
(* maintained: a rejected put, never a record the stage machine itself       *)
(* produced (driver.ts, the comment on result).                              *)
RejectsOnlyOnFault == result = "rejected" => faulted

(* A gated loop completes only when the candidate the reviewer was shown was *)
(* still the workspace's candidate, with its required checks passing, when   *)
(* the store judged it, and the reviewer itself approved.  Edits, crashes    *)
(* and a resumed review never let an unreviewed candidate through.           *)
CompletedWasVouched ==
  disk.stage = "completed" /\ disk.gated =>
    /\ vouched.verdict = "approved"
    /\ vouched.checks
    /\ vouched.key = vouched.shown
    /\ vouched.key # NoKey

(* After a cancel the driver starts no new stage and records no attempt: the *)
(* only record it may still put is the cancelled one, whichever await the    *)
(* request arrived at.                                                       *)
CancelWritesOnlyCancelled ==
  [][ cancelRequested /\ pc # "put" /\ pc' = "put" => todo' = CancelledRecord(mem) ]_vars

(* resume() never re-runs a settled attempt: a stage run only starts for an  *)
(* attempt the medium does not hold yet, even when the process died between  *)
(* the durable write and its publication in memory.                          *)
NeverRerunsSettled ==
  [][ run = "none" /\ run' = "live"
      => ~AttemptSettled(disk, StageKind(mem.stage), StageRound(mem.stage)) ]_vars

(* The medium shows exactly a bounded loop: attempts settle once and in      *)
(* order, at most one rework happens, and a terminal outcome is final.       *)
Abstract == INSTANCE BoundedLoop WITH
  outcome <- IF isTerminalStage(disk.stage) THEN disk.stage ELSE "open",
  settled <- disk.implement + disk.review.round

ImplementsBoundedLoop == Abstract!Spec

(* A cancelled driver settles and owns no run afterwards: every await between *)
(* the request and the terminal record ends, and no run is started that      *)
(* nobody cancels.                                                           *)
CancelSettles ==
  cancelRequested ~> (run = "none" /\ (result # "pending" \/ pc = "idle"))
=============================================================================
