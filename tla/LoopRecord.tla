----------------------------- MODULE LoopRecord -----------------------------
(***************************************************************************)
(* The durable record of one reliability loop: its stage, its two settled  *)
(* attempt slots and the transitions the stage machine may write.          *)
(*                                                                         *)
(* Data is abstracted to what the stage machine tells apart.  An absent    *)
(* slot is round 0; settledAt, error and acceptanceTaskId are recorded by  *)
(* their presence; objective, prompts, summaries and feedback are left     *)
(* out.                                                                    *)
(***************************************************************************)
EXTENDS Naturals

TERMINAL_STAGES == {"completed", "blocked", "failed", "cancelled"}

ReliabilityLoopStage ==
  TERMINAL_STAGES \cup
  {"implementing", "reviewing", "rework-implementing", "rework-reviewing"}

isTerminalStage(stage) == stage \in TERMINAL_STAGES

LoopRound == {1, 2}

ReviewVerdict == {"approved", "changes-requested"}

ReviewAttempt == [round : LoopRound, verdict : ReviewVerdict]

NoReview == [round |-> 0, verdict |-> "none"]

ReliabilityLoopRecord ==
  [ stage     : ReliabilityLoopStage,
    implement : {0} \cup LoopRound,
    review    : {NoReview} \cup ReviewAttempt,
    gated     : BOOLEAN,      \* acceptanceTaskId !== undefined
    settledAt : BOOLEAN,
    error     : BOOLEAN ]

(* The record start() writes before any run exists. *)
InitialRecord(gated) ==
  [ stage |-> "implementing", implement |-> 0, review |-> NoReview,
    gated |-> gated, settledAt |-> FALSE, error |-> FALSE ]

-----------------------------------------------------------------------------
(* checks.ts: the stage and the attempt slots agree. *)

isChangesRequestedAt(r, implementRound, reviewRound) ==
  /\ r.implement = implementRound
  /\ r.review = [round |-> reviewRound, verdict |-> "changes-requested"]

isApprovedPair(r) ==
  /\ r.implement \in LoopRound
  /\ r.review = [round |-> r.implement, verdict |-> "approved"]

(* Every prefix of attempts an aborted loop may keep. *)
isCoherentPrefix(r) ==
  \/ r.implement = 0 /\ r.review = NoReview
  \/ r.implement = 1 /\ (r.review = NoReview \/ isChangesRequestedAt(r, 1, 1))
  \/ isChangesRequestedAt(r, 2, 1)

slotsMatchStage(r) ==
  /\ r.stage = "implementing"        => r.implement = 0 /\ r.review = NoReview
  /\ r.stage = "reviewing"           => r.implement = 1 /\ r.review = NoReview
  /\ r.stage = "rework-implementing" => isChangesRequestedAt(r, 1, 1)
  /\ r.stage = "rework-reviewing"    => isChangesRequestedAt(r, 2, 1)
  /\ r.stage = "completed"           => isApprovedPair(r)
  /\ r.stage = "blocked"             => isChangesRequestedAt(r, 2, 2)
  /\ r.stage \in {"failed", "cancelled"} => isCoherentPrefix(r)

assertReliabilityLoopRecord(r) ==
  /\ isTerminalStage(r.stage) <=> r.settledAt
  /\ r.stage = "failed" <=> r.error
  /\ slotsMatchStage(r)

-----------------------------------------------------------------------------
(* The run a working stage executes, and the record each outcome writes. *)

StageKind(stage) ==
  IF stage \in {"implementing", "rework-implementing"} THEN "implement" ELSE "review"

StageRound(stage) == IF stage \in {"implementing", "reviewing"} THEN 1 ELSE 2

(* Wrong: the settled attempts are not carried over. *)
FailedRecordEmpty(r) ==
  [InitialRecord(r.gated) EXCEPT !.stage = "failed", !.settledAt = TRUE, !.error = TRUE]

FailedRecord(r) == [r EXCEPT !.stage = "failed", !.settledAt = TRUE, !.error = TRUE]

CancelledRecord(r) == [r EXCEPT !.stage = "cancelled", !.settledAt = TRUE]

AfterImplement(r, round) ==
  [r EXCEPT !.implement = round,
            !.stage = IF round = 1 THEN "reviewing" ELSE "rework-reviewing"]

(* Wrong: the blocked record is not marked settled. *)
AfterReviewUnsettled(r, round, verdict) ==
  [r EXCEPT !.review = [round |-> round, verdict |-> verdict],
            !.stage = IF verdict = "approved" THEN "completed"
                      ELSE IF round = 1 THEN "rework-implementing" ELSE "blocked",
            !.settledAt = verdict = "approved"]

AfterReview(r, round, verdict) ==
  LET settled == [r EXCEPT !.review = [round |-> round, verdict |-> verdict]]
  IN  IF verdict = "approved"
        THEN [settled EXCEPT !.stage = "completed", !.settledAt = TRUE]
      ELSE IF round = 1
        THEN [settled EXCEPT !.stage = "rework-implementing"]
      ELSE [settled EXCEPT !.stage = "blocked", !.settledAt = TRUE]

(* The attempt (kind, round) is settled in record r: its report is stored. *)
AttemptSettled(r, kind, round) ==
  IF kind = "implement" THEN r.implement >= round ELSE r.review.round >= round
=============================================================================
