-------------------------- MODULE LoopDriverProofs --------------------------
(***************************************************************************)
(* Proofs about LoopDriver for every set of candidate identities.          *)
(***************************************************************************)
EXTENDS LoopDriver, TLAPS

-----------------------------------------------------------------------------
(* The record operations stay in the record type. *)

LEMMA RecordOpsType ==
  ASSUME NEW r \in ReliabilityLoopRecord
  PROVE  /\ FailedRecord(r) \in ReliabilityLoopRecord
         /\ CancelledRecord(r) \in ReliabilityLoopRecord
         /\ \A n \in LoopRound : AfterImplement(r, n) \in ReliabilityLoopRecord
         /\ \A n \in LoopRound, v \in ReviewVerdict :
              AfterReview(r, n, v) \in ReliabilityLoopRecord
<1>1. FailedRecord(r) \in ReliabilityLoopRecord
  BY DEF FailedRecord, ReliabilityLoopRecord, ReliabilityLoopStage, TERMINAL_STAGES
<1>2. CancelledRecord(r) \in ReliabilityLoopRecord
  BY DEF CancelledRecord, ReliabilityLoopRecord, ReliabilityLoopStage, TERMINAL_STAGES
<1>3. ASSUME NEW n \in LoopRound PROVE AfterImplement(r, n) \in ReliabilityLoopRecord
  BY DEF AfterImplement, ReliabilityLoopRecord, ReliabilityLoopStage, LoopRound
<1>4. ASSUME NEW n \in LoopRound, NEW v \in ReviewVerdict
      PROVE  AfterReview(r, n, v) \in ReliabilityLoopRecord
  BY DEF AfterReview, ReliabilityLoopRecord, ReliabilityLoopStage, TERMINAL_STAGES,
         LoopRound, ReviewVerdict, ReviewAttempt
<1>. QED BY <1>1, <1>2, <1>3, <1>4

(* A working record that passes the assertion is followed only by records   *)
(* that pass it.                                                            *)
LEMMA RecordOpsCoherent ==
  ASSUME NEW r \in ReliabilityLoopRecord,
         assertReliabilityLoopRecord(r), ~isTerminalStage(r.stage)
  PROVE  /\ assertReliabilityLoopRecord(FailedRecord(r))
         /\ assertReliabilityLoopRecord(CancelledRecord(r))
         /\ StageKind(r.stage) = "implement" =>
              assertReliabilityLoopRecord(AfterImplement(r, StageRound(r.stage)))
         /\ StageKind(r.stage) = "review" => \A v \in ReviewVerdict :
              assertReliabilityLoopRecord(AfterReview(r, StageRound(r.stage), v))
<1>. USE DEF assertReliabilityLoopRecord, isTerminalStage, TERMINAL_STAGES,
             slotsMatchStage, isCoherentPrefix, isChangesRequestedAt, isApprovedPair
<1>1. assertReliabilityLoopRecord(FailedRecord(r))
  BY DEF FailedRecord, ReliabilityLoopRecord, ReliabilityLoopStage
<1>2. assertReliabilityLoopRecord(CancelledRecord(r))
  BY DEF CancelledRecord, ReliabilityLoopRecord, ReliabilityLoopStage
<1>3. ASSUME StageKind(r.stage) = "implement"
      PROVE  assertReliabilityLoopRecord(AfterImplement(r, StageRound(r.stage)))
  BY <1>3 DEF AfterImplement, StageKind, StageRound, ReliabilityLoopRecord, ReliabilityLoopStage
<1>4. ASSUME StageKind(r.stage) = "review", NEW v \in ReviewVerdict
      PROVE  assertReliabilityLoopRecord(AfterReview(r, StageRound(r.stage), v))
  BY <1>4 DEF AfterReview, StageKind, StageRound, ReliabilityLoopRecord, ReliabilityLoopStage,
         ReviewVerdict, LoopRound
<1>. QED BY <1>1, <1>2, <1>3, <1>4

-----------------------------------------------------------------------------
(* Type correctness. *)

USE DEF PCs, Reports, Statuses, Vouches, NoStatus, NoVouch

LEMMA WriteType ==
  ASSUME TypeOK, NEW r \in ReliabilityLoopRecord, writeRecord(r)
  PROVE  todo' \in ReliabilityLoopRecord /\ pc' \in PCs
         /\ result' \in {"pending", "resolved", "rejected"}
  BY DEF TypeOK, writeRecord, settleReject

LEMMA CannotStartType ==
  ASSUME TypeOK, StageCannotStart
  PROVE  todo' \in ReliabilityLoopRecord /\ pc' \in PCs
         /\ result' \in {"pending", "resolved", "rejected"}
         /\ run' = run /\ shown' = shown
  BY RecordOpsType, WriteType DEF TypeOK, StageCannotStart, Await

LEMMA EngineStartType ==
  ASSUME TypeOK, EngineStart
  PROVE  todo' \in ReliabilityLoopRecord /\ pc' \in PCs
         /\ result' \in {"pending", "resolved", "rejected"}
         /\ run' = "live" /\ shown' \in Keys \cup {NoKey}
  BY DEF TypeOK, EngineStart, Await

(* What the await the driver is suspended at says about its run and its     *)
(* report; type correctness alone is not inductive, because the report a    *)
(* gate sees must be a verdict.                                             *)
ControlInv ==
  /\ run = "none" <=> pc \notin {"running", "disposing"}
  /\ pc = "disposing" => report \in StageReports
  /\ pc \in {"gate", "gateput"} => report \in ReviewVerdict
  /\ pc \in {"inspect", "diff", "gate", "gateput"} => StageKind(mem.stage) = "review"
  /\ pc \in {"inspect", "diff", "running", "disposing", "gate", "gateput", "put"}
       => ~isTerminalStage(mem.stage)
  /\ pc \in {"inspect", "gate", "gateput"} => mem.gated

TypeInv == TypeOK /\ ControlInv

LEMMA TypeInit == Init => TypeInv
<1>. SUFFICES ASSUME Init PROVE TypeInv
  OBVIOUS
<1>0. ASSUME NEW g \in BOOLEAN PROVE InitialRecord(g) \in ReliabilityLoopRecord
  BY DEF InitialRecord, ReliabilityLoopRecord, ReliabilityLoopStage
<1>1. disk \in ReliabilityLoopRecord
  BY <1>0 DEF Init
<1>2. TypeOK
  BY <1>1 DEF Init, TypeOK
<1>3. ControlInv
  BY DEF Init, ControlInv
<1>. QED BY <1>2, <1>3 DEF TypeInv

LEMMA TypeNext == TypeInv /\ [Next]_vars => TypeInv'
<1>. SUFFICES ASSUME TypeInv, [Next]_vars PROVE TypeInv'
  OBVIOUS
<1>. USE RecordOpsType, WriteType, CannotStartType, EngineStartType
     DEF vars, loopVars, driverVars, workVars, historyVars
<1>0. TypeOK /\ ControlInv /\ StageRound(mem.stage) \in LoopRound
  BY DEF TypeInv, StageRound, LoopRound
<1>s. StageKind(mem.stage) \in {"implement", "review"}
  BY DEF StageKind
<1>1. CASE driveStages
  <2>1. CASE ~assertReliabilityLoopRecord(mem) \/ isTerminalStage(mem.stage)
    BY <1>0, <1>1, <2>1 DEF driveStages, TypeInv, ControlInv, TypeOK, settleReject, settleResolve
  <2>2. CASE assertReliabilityLoopRecord(mem) /\ ~isTerminalStage(mem.stage)
    <3>1. CASE cancelRequested
      BY <1>0, <1>1, <2>2, <3>1
         DEF driveStages, TypeInv, ControlInv, TypeOK, writeRecord, settleReject
    <3>2. CASE ~cancelRequested /\ StageKind(mem.stage) = "implement" /\ EngineStart
      BY <1>0, <1>1, <2>2, <3>2 DEF driveStages, TypeInv, ControlInv, TypeOK, EngineStart, Await
    <3>3. CASE ~cancelRequested /\ StageKind(mem.stage) = "implement" /\ StageCannotStart
      BY <1>0, <1>1, <2>2, <3>3
         DEF driveStages, TypeInv, ControlInv, TypeOK, StageCannotStart, writeRecord, settleReject
    <3>4. CASE ~cancelRequested /\ StageKind(mem.stage) = "review"
      BY <1>0, <1>1, <2>2, <3>4 DEF driveStages, TypeInv, ControlInv, TypeOK, Await
    <3>. QED BY <1>1, <1>s, <2>2, <3>1, <3>2, <3>3, <3>4 DEF driveStages
  <2>. QED BY <2>1, <2>2
<1>2. CASE inspectReturns
  BY <1>0, <1>2 DEF inspectReturns, TypeInv, ControlInv, TypeOK, Await
<1>3. CASE inspectThrows
  BY <1>0, <1>3 DEF inspectThrows, TypeInv, ControlInv, TypeOK, StageCannotStart, Await,
                    writeRecord, settleReject
<1>4. CASE startReview
  <2>1. CASE cancelRequested
    BY <1>0, <1>4, <2>1 DEF startReview, TypeInv, ControlInv, TypeOK, Await
  <2>2. CASE ~cancelRequested /\ EngineStart
    BY <1>0, <1>4, <2>2 DEF startReview, TypeInv, ControlInv, TypeOK, EngineStart, Await
  <2>3. CASE ~cancelRequested /\ StageCannotStart
    BY <1>0, <1>4, <2>3 DEF startReview, TypeInv, ControlInv, TypeOK, StageCannotStart,
                            writeRecord, settleReject
  <2>. QED BY <1>4, <2>1, <2>2, <2>3 DEF startReview
<1>5. CASE runSettles
  BY <1>0, <1>5 DEF runSettles, TypeInv, ControlInv, TypeOK, Await, StageReports, ReviewVerdict
<1>6. CASE runDisposed
  <2>1. CASE cancelRequested
    BY <1>0, <1>6, <2>1 DEF runDisposed, applySettled, TypeInv, ControlInv, TypeOK, Await
  <2>2. CASE ~cancelRequested /\ report \in {"invalid", "cancelled", "error"}
    BY <1>0, <1>6, <2>2 DEF runDisposed, applySettled, TypeInv, ControlInv, TypeOK,
                            writeRecord, settleReject
  <2>3. CASE ~cancelRequested /\ report \notin {"invalid", "cancelled", "error"}
    <3>1. applyReport
      BY <1>6, <2>3 DEF runDisposed, applySettled
    <3>2. CASE StageKind(mem.stage) = "implement"
      <4>. DEFINE r == AfterImplement(mem, StageRound(mem.stage))
      <4>1. r \in ReliabilityLoopRecord
        BY <1>0, RecordOpsType DEF TypeOK
      <4>2. writeRecord(r)
        BY <3>1, <3>2 DEF applyReport
      <4>. HIDE DEF r
      <4>. QED
        BY <1>0, <1>6, <4>1, <4>2
           DEF runDisposed, TypeInv, ControlInv, TypeOK, writeRecord, settleReject
    <3>3. CASE StageKind(mem.stage) = "review"
      <4>1. report \in ReviewVerdict
        BY <1>0, <1>6, <2>3, <3>3 DEF runDisposed, ControlInv, StageReports
      <4>2. CASE ~mem.gated
        BY <1>0, <1>6, <3>1, <3>3, <4>1, <4>2
           DEF runDisposed, applyReport, TypeInv, ControlInv, TypeOK, writeRecord, settleReject
      <4>3. CASE mem.gated /\ acceptance.key = NoKey
        BY <1>0, <1>6, <3>1, <3>3, <4>3
           DEF runDisposed, applyReport, TypeInv, ControlInv, TypeOK, writeRecord, settleReject
      <4>4. CASE mem.gated /\ acceptance.key # NoKey
        BY <1>0, <1>6, <3>1, <3>3, <4>1, <4>4
           DEF runDisposed, applyReport, TypeInv, ControlInv, TypeOK, Await
      <4>. QED BY <4>2, <4>3, <4>4
    <3>. QED BY <1>s, <3>2, <3>3
  <2>. QED BY <2>1, <2>2, <2>3
<1>7. CASE reviewInspects
  BY <1>0, <1>7 DEF reviewInspects, TypeInv, ControlInv, TypeOK, Await
<1>8. CASE reviewReturns
  <2>1. EnforcedVerdict \in ReviewVerdict
    BY <1>0, <1>8 DEF reviewReturns, EnforcedVerdict, ControlInv, ReviewVerdict
  <2>2. CASE cancelRequested
    BY <1>0, <1>8, <2>2 DEF reviewReturns, TypeInv, ControlInv, TypeOK, Await
  <2>3. CASE ~cancelRequested
    <3>. DEFINE r == AfterReview(mem, StageRound(mem.stage), EnforcedVerdict)
    <3>1. r \in ReliabilityLoopRecord
      BY <1>0, <2>1, RecordOpsType DEF TypeOK
    <3>2. writeRecord(r)
      BY <1>8, <2>3 DEF reviewReturns
    <3>. HIDE DEF r
    <3>. QED
      BY <1>0, <1>8, <3>1, <3>2
         DEF reviewReturns, TypeInv, ControlInv, TypeOK, writeRecord, settleReject
  <2>. QED BY <2>2, <2>3
<1>9. CASE reviewThrows
  BY <1>0, <1>9 DEF reviewThrows, TypeInv, ControlInv, TypeOK, Await, writeRecord, settleReject
<1>10. CASE putDurable \/ putReturns \/ putRejects
  BY <1>0, <1>10 DEF putDurable, putReturns, putRejects, settleReject, TypeInv, ControlInv,
                     TypeOK, Await
<1>11. CASE cancel
  BY <1>0, <1>11 DEF cancel, TypeInv, ControlInv, TypeOK, StageReports
<1>12. CASE resume
  BY <1>0, <1>12 DEF resume, TypeInv, ControlInv, TypeOK, StageReports
<1>13. CASE crash
  BY <1>0, <1>13 DEF crash, TypeInv, ControlInv, TypeOK, StageReports
<1>14. CASE edit \/ UNCHANGED vars
  BY <1>0, <1>14 DEF edit, TypeInv, ControlInv, TypeOK, StageReports
<1>. QED
  BY <1>1, <1>2, <1>3, <1>4, <1>5, <1>6, <1>7, <1>8, <1>9, <1>10, <1>11, <1>12,
     <1>13, <1>14 DEF Next, Driver

(* The driver's state always has its declared shape. *)
THEOREM TypeCorrect == Spec => []TypeOK
<1>1. TypeInv => TypeOK
  BY DEF TypeInv
<1>. QED BY <1>1, TypeInit, TypeNext, PTL DEF Spec

-----------------------------------------------------------------------------
(* The records the driver puts.  Successor(r, s): s is what the stage        *)
(* machine may write over the working record r.                              *)

Successor(r, s) ==
  \/ s = FailedRecord(r)
  \/ s = CancelledRecord(r)
  \/ /\ StageKind(r.stage) = "implement"
     /\ s = AfterImplement(r, StageRound(r.stage))
  \/ /\ StageKind(r.stage) = "review"
     /\ \E v \in ReviewVerdict : s = AfterReview(r, StageRound(r.stage), v)

CoherentInv ==
  /\ assertReliabilityLoopRecord(mem)
  /\ assertReliabilityLoopRecord(disk)
  /\ pc \in {"put", "putted"} =>
       /\ assertReliabilityLoopRecord(todo)
       /\ Successor(mem, todo)
       /\ ~isTerminalStage(mem.stage)
  /\ RejectsOnlyOnFault

LEMMA WriteCoherent ==
  ASSUME TypeOK, assertReliabilityLoopRecord(mem), ~isTerminalStage(mem.stage),
         NEW r, Successor(mem, r), writeRecord(r)
  PROVE  /\ pc' = "put" /\ todo' = r /\ result' = result
         /\ assertReliabilityLoopRecord(todo')
<1>1. assertReliabilityLoopRecord(r)
  BY RecordOpsCoherent DEF TypeOK, Successor
<1>. QED BY <1>1 DEF writeRecord

LEMMA CoherentInit == Init => CoherentInv
<1>. SUFFICES ASSUME Init PROVE CoherentInv
  OBVIOUS
<1>1. ASSUME NEW g \in BOOLEAN PROVE assertReliabilityLoopRecord(InitialRecord(g))
  BY DEF InitialRecord, assertReliabilityLoopRecord, isTerminalStage, TERMINAL_STAGES,
         slotsMatchStage
<1>. QED BY <1>1 DEF Init, CoherentInv, RejectsOnlyOnFault

(* A step that leaves the records and the put alone. *)
LEMMA CoherentAwait ==
  ASSUME CoherentInv, pc' \notin {"put", "putted"}, mem' = mem, disk' = disk,
         result' \in {result, "pending", "resolved"}, faulted' = faulted
  PROVE  CoherentInv'
  BY DEF CoherentInv, RejectsOnlyOnFault

(* A step that issues a put. *)
LEMMA CoherentWrite ==
  ASSUME TypeInv, CoherentInv, ~isTerminalStage(mem.stage),
         mem' = mem, disk' = disk, faulted' = faulted,
         NEW r, Successor(mem, r), writeRecord(r)
  PROVE  CoherentInv'
<1>1. /\ pc' = "put" /\ todo' = r /\ result' = result
      /\ assertReliabilityLoopRecord(todo')
  BY WriteCoherent DEF TypeInv, CoherentInv
<1>. QED BY <1>1 DEF CoherentInv, RejectsOnlyOnFault, Successor

LEMMA CoherentNext == TypeInv /\ CoherentInv /\ [Next]_vars => CoherentInv'
<1>. SUFFICES ASSUME TypeInv, CoherentInv, [Next]_vars PROVE CoherentInv'
  OBVIOUS
<1>. USE DEF vars, loopVars, driverVars, workVars, historyVars
<1>0. /\ TypeOK /\ ControlInv
      /\ assertReliabilityLoopRecord(mem)
      /\ Successor(mem, FailedRecord(mem))
      /\ Successor(mem, CancelledRecord(mem))
  BY DEF TypeInv, CoherentInv, Successor
<1>s. StageKind(mem.stage) \in {"implement", "review"}
  BY DEF StageKind
<1>1. CASE driveStages
  <2>0. mem' = mem /\ disk' = disk /\ faulted' = faulted
    BY <1>1 DEF driveStages
  <2>1. CASE isTerminalStage(mem.stage)
    BY <1>0, <1>1, <2>0, <2>1, CoherentAwait DEF driveStages, settleResolve
  <2>2. CASE ~isTerminalStage(mem.stage) /\ cancelRequested
    BY <1>0, <1>1, <2>0, <2>2, CoherentWrite DEF driveStages
  <2>3. CASE ~isTerminalStage(mem.stage) /\ ~cancelRequested
             /\ StageKind(mem.stage) = "implement"
    BY <1>0, <1>1, <2>0, <2>3, CoherentWrite, CoherentAwait
       DEF driveStages, EngineStart, StageCannotStart, Await
  <2>4. CASE ~isTerminalStage(mem.stage) /\ ~cancelRequested
             /\ StageKind(mem.stage) = "review"
    BY <1>0, <1>1, <2>0, <2>4, CoherentAwait DEF driveStages, Await
  <2>. QED BY <1>s, <2>1, <2>2, <2>3, <2>4
<1>2. CASE inspectReturns
  BY <1>2, CoherentAwait DEF inspectReturns, Await
<1>3. CASE inspectThrows
  BY <1>0, <1>3, CoherentAwait, CoherentWrite
     DEF inspectThrows, StageCannotStart, Await, ControlInv
<1>4. CASE startReview
  BY <1>0, <1>4, CoherentAwait, CoherentWrite
     DEF startReview, EngineStart, StageCannotStart, Await, ControlInv
<1>5. CASE runSettles
  BY <1>5, CoherentAwait DEF runSettles, Await
<1>6. CASE runDisposed
  <2>0. mem' = mem /\ disk' = disk /\ faulted' = faulted /\ ~isTerminalStage(mem.stage)
    BY <1>0, <1>6 DEF runDisposed, ControlInv
  <2>1. CASE cancelRequested
    BY <1>6, <2>0, <2>1, CoherentAwait DEF runDisposed, applySettled, Await
  <2>2. CASE ~cancelRequested /\ report \in {"invalid", "cancelled", "error"}
    BY <1>0, <1>6, <2>0, <2>2, CoherentWrite DEF runDisposed, applySettled
  <2>3. CASE ~cancelRequested /\ report \notin {"invalid", "cancelled", "error"}
    <3>1. applyReport
      BY <1>6, <2>3 DEF runDisposed, applySettled
    <3>2. CASE StageKind(mem.stage) = "implement"
      <4>1. Successor(mem, AfterImplement(mem, StageRound(mem.stage)))
        BY <3>2 DEF Successor
      <4>. QED BY <2>0, <3>1, <3>2, <4>1, CoherentWrite DEF applyReport
    <3>3. CASE StageKind(mem.stage) = "review"
      <4>1. report \in ReviewVerdict
        BY <1>0, <1>6, <2>3, <3>3 DEF runDisposed, ControlInv, StageReports
      <4>2. Successor(mem, AfterReview(mem, StageRound(mem.stage), report))
        BY <3>3, <4>1 DEF Successor
      <4>. QED
        BY <1>0, <2>0, <3>1, <3>3, <4>2, CoherentWrite, CoherentAwait DEF applyReport, Await
    <3>. QED BY <1>s, <3>2, <3>3
  <2>. QED BY <2>1, <2>2, <2>3
<1>7. CASE reviewInspects
  BY <1>7, CoherentAwait DEF reviewInspects, Await
<1>8. CASE reviewReturns
  <2>1. EnforcedVerdict \in ReviewVerdict /\ StageKind(mem.stage) = "review"
        /\ ~isTerminalStage(mem.stage)
    BY <1>0, <1>8 DEF reviewReturns, EnforcedVerdict, ControlInv, ReviewVerdict
  <2>2. Successor(mem, AfterReview(mem, StageRound(mem.stage), EnforcedVerdict))
    BY <2>1 DEF Successor
  <2>. QED BY <1>8, <2>1, <2>2, CoherentAwait, CoherentWrite DEF reviewReturns, Await
<1>9. CASE reviewThrows
  BY <1>0, <1>9, CoherentAwait, CoherentWrite DEF reviewThrows, Await, ControlInv
<1>10. CASE putDurable
  BY <1>10 DEF putDurable, Await, CoherentInv, RejectsOnlyOnFault, Successor
<1>11. CASE putReturns
  BY <1>11 DEF putReturns, Await, CoherentInv, RejectsOnlyOnFault
<1>12. CASE putRejects
  BY <1>12 DEF putRejects, settleReject, CoherentInv, RejectsOnlyOnFault
<1>13. CASE cancel \/ edit \/ UNCHANGED vars
  BY <1>13 DEF cancel, edit, CoherentInv, RejectsOnlyOnFault, Successor
<1>14. CASE resume
  BY <1>14, CoherentAwait DEF resume
<1>15. CASE crash
  BY <1>15 DEF crash, CoherentInv, RejectsOnlyOnFault
<1>. QED
  BY <1>1, <1>2, <1>3, <1>4, <1>5, <1>6, <1>7, <1>8, <1>9, <1>10, <1>11, <1>12,
     <1>13, <1>14, <1>15 DEF Next, Driver

(* The result rejects only after a rejected put, whatever crashes, cancels   *)
(* and storage faults happened: the stage machine never trips its own        *)
(* assertion.                                                                *)
THEOREM RejectionNeedsFault == Spec => []RejectsOnlyOnFault
<1>1. CoherentInv => RejectsOnlyOnFault
  BY DEF CoherentInv
<1>. QED BY <1>1, TypeInit, TypeNext, CoherentInit, CoherentNext, PTL DEF Spec

-----------------------------------------------------------------------------
(* After a cancel the only record put is the cancelled one. *)

LEMMA CancelStep ==
  ASSUME [Next]_vars, cancelRequested, pc # "put", pc' = "put"
  PROVE  todo' = CancelledRecord(mem)
<1>. USE DEF vars, loopVars, driverVars, workVars, historyVars
<1>1. CASE driveStages
  BY <1>1 DEF driveStages, settleReject, settleResolve, writeRecord, EngineStart,
              StageCannotStart, Await
<1>2. CASE inspectReturns \/ inspectThrows \/ startReview
  BY <1>2 DEF inspectReturns, inspectThrows, startReview, EngineStart, StageCannotStart, Await
<1>3. CASE runSettles \/ runDisposed
  BY <1>3 DEF runSettles, runDisposed, applySettled, Await
<1>4. CASE reviewInspects \/ reviewReturns \/ reviewThrows
  BY <1>4 DEF reviewInspects, reviewReturns, reviewThrows, Await
<1>5. CASE putDurable \/ putReturns \/ putRejects
  BY <1>5 DEF putDurable, putReturns, putRejects, settleReject, Await
<1>6. CASE cancel \/ resume \/ crash \/ edit \/ UNCHANGED vars
  BY <1>6 DEF cancel, resume, crash, edit
<1>. QED BY <1>1, <1>2, <1>3, <1>4, <1>5, <1>6 DEF Next, Driver

(* Whatever await a cancel arrives at, the driver records nothing after it   *)
(* but the cancelled outcome.                                                *)
THEOREM CancelIsRespected == Spec => CancelWritesOnlyCancelled
<1>1. [Next]_vars =>
        [cancelRequested /\ pc # "put" /\ pc' = "put" => todo' = CancelledRecord(mem)]_vars
  BY CancelStep
<1>. QED BY <1>1, PTL DEF Spec, CancelWritesOnlyCancelled

-----------------------------------------------------------------------------
(* Memory and medium agree, except between the durable write and its         *)
(* publication, provided a write the backend rejected left the medium alone. *)

AgreeInv == disk = IF pc = "putted" THEN todo ELSE mem

LEMMA AgreeInit == Init => AgreeInv
  BY DEF Init, AgreeInv

LEMMA PuttedOnlyAfterPut ==
  ASSUME [Next]_vars, pc' = "putted"
  PROVE  putDurable \/ (pc = "putted" /\ UNCHANGED loopVars)
<1>. USE DEF vars, loopVars, driverVars, workVars, historyVars
<1>1. CASE driveStages
  BY <1>1 DEF driveStages, settleReject, settleResolve, writeRecord, EngineStart,
              StageCannotStart, Await
<1>2. CASE inspectReturns \/ inspectThrows \/ startReview
  BY <1>2 DEF inspectReturns, inspectThrows, startReview, EngineStart, StageCannotStart,
              Await, writeRecord, settleReject
<1>3. CASE runSettles \/ runDisposed
  BY <1>3 DEF runSettles, runDisposed, applySettled, applyReport, Await, writeRecord,
              settleReject
<1>4. CASE reviewInspects \/ reviewReturns \/ reviewThrows
  BY <1>4 DEF reviewInspects, reviewReturns, reviewThrows, Await, writeRecord, settleReject
<1>5. CASE putDurable \/ putReturns \/ putRejects
  BY <1>5 DEF putReturns, putRejects, settleReject, Await
<1>6. CASE cancel \/ resume \/ crash \/ edit \/ UNCHANGED vars
  BY <1>6 DEF cancel, resume, crash, edit
<1>. QED BY <1>1, <1>2, <1>3, <1>4, <1>5, <1>6 DEF Next, Driver

(* Which steps change the two copies of the record. *)
LEMMA CopiesChange ==
  ASSUME [Next]_vars
  PROVE  putDurable \/ putReturns \/ crash \/ (mem' = mem /\ disk' = disk)
  BY DEF Next, Driver, driveStages, inspectReturns, inspectThrows, startReview, runSettles,
         runDisposed, reviewInspects, reviewReturns, reviewThrows, putRejects, cancel,
         resume, edit, vars, loopVars

LEMMA PuttedEnds ==
  ASSUME [Next]_vars, pc = "putted", pc' # "putted", ~DirSyncFails
  PROVE  putReturns \/ crash
  BY DEF Next, Driver, driveStages, inspectReturns, inspectThrows, startReview, runSettles,
         runDisposed, reviewInspects, reviewReturns, reviewThrows, putDurable, putRejects,
         cancel, resume, edit, vars, driverVars

LEMMA AgreeNext ==
  ASSUME ~DirSyncFails, AgreeInv, [Next]_vars
  PROVE  AgreeInv'
<1>1. CASE putDurable
  BY <1>1 DEF putDurable, AgreeInv, Await
<1>2. CASE putReturns
  BY <1>2 DEF putReturns, AgreeInv, Await
<1>3. CASE crash
  BY <1>3 DEF crash, AgreeInv
<1>4. CASE ~putDurable /\ ~putReturns /\ ~crash
  <2>1. mem' = mem /\ disk' = disk
    BY <1>4, CopiesChange
  <2>2. CASE pc' = "putted"
    BY <1>4, <2>1, <2>2, PuttedOnlyAfterPut DEF AgreeInv, loopVars
  <2>3. CASE pc' # "putted"
    BY <1>4, <2>1, <2>3, PuttedEnds DEF AgreeInv
  <2>. QED BY <2>2, <2>3
<1>. QED BY <1>1, <1>2, <1>3, <1>4

-----------------------------------------------------------------------------
(* Settled attempts are never re-run. *)

(* A coherent working record does not hold the attempt its stage runs. *)
LEMMA WorkingAttemptOpen ==
  ASSUME NEW r \in ReliabilityLoopRecord,
         assertReliabilityLoopRecord(r), ~isTerminalStage(r.stage)
  PROVE  ~AttemptSettled(r, StageKind(r.stage), StageRound(r.stage))
  BY DEF assertReliabilityLoopRecord, isTerminalStage, TERMINAL_STAGES, slotsMatchStage,
         isChangesRequestedAt, AttemptSettled, StageKind, StageRound, NoReview,
         ReliabilityLoopRecord, ReliabilityLoopStage

LEMMA RunStarts ==
  ASSUME TypeInv, [Next]_vars, run = "none", run' = "live"
  PROVE  /\ pc \in {"top", "diff"}
         /\ ~isTerminalStage(mem.stage)
  BY DEF TypeInv, ControlInv, Next, Driver, driveStages, inspectReturns, inspectThrows, startReview,
         StageCannotStart, runSettles, runDisposed, reviewInspects, reviewReturns, reviewThrows,
         putDurable, putReturns, putRejects, cancel, resume, crash, edit, vars, driverVars

LEMMA RerunStep ==
  ASSUME TypeInv, CoherentInv, AgreeInv, [Next]_vars, run = "none", run' = "live"
  PROVE  ~AttemptSettled(disk, StageKind(mem.stage), StageRound(mem.stage))
<1>1. disk = mem
  BY RunStarts DEF AgreeInv
<1>. QED BY <1>1, RunStarts, WorkingAttemptOpen DEF TypeInv, TypeOK, CoherentInv

(* When rejected writes leave the medium alone, no stage run ever starts     *)
(* for an attempt the medium already holds, across crashes and resumes.      *)
THEOREM SettledAttemptsAreFinal ==
  ASSUME ~DirSyncFails
  PROVE  Spec => NeverRerunsSettled
<1>1. TypeInv /\ CoherentInv /\ AgreeInv /\ [Next]_vars =>
        [run = "none" /\ run' = "live"
           => ~AttemptSettled(disk, StageKind(mem.stage), StageRound(mem.stage))]_vars
  BY RerunStep
<1>2. AgreeInv /\ [Next]_vars => AgreeInv'
  BY AgreeNext
<1>. QED
  BY <1>1, <1>2, TypeInit, TypeNext, CoherentInit, CoherentNext, AgreeInit, PTL
     DEF Spec, NeverRerunsSettled

-----------------------------------------------------------------------------
(* The medium shows a bounded loop. *)

Outcome(r) == IF isTerminalStage(r.stage) THEN r.stage ELSE "open"
Settled(r) == r.implement + r.review.round

(* What the number of settled attempts is at each working stage. *)
LEMMA WorkingSettled ==
  ASSUME NEW r \in ReliabilityLoopRecord,
         assertReliabilityLoopRecord(r), ~isTerminalStage(r.stage)
  PROVE  /\ r.implement \in Nat /\ r.review.round \in Nat
         /\ Outcome(r) = "open"
         /\ StageKind(r.stage) = "implement" =>
              /\ r.implement + 1 = StageRound(r.stage)
              /\ r.review.round = r.implement
              /\ Settled(r) \in {0, 2}
         /\ StageKind(r.stage) = "review" =>
              /\ r.implement = StageRound(r.stage)
              /\ r.review.round + 1 = StageRound(r.stage)
              /\ Settled(r) = IF StageRound(r.stage) = 1 THEN 1 ELSE 3
  BY DEF assertReliabilityLoopRecord, isTerminalStage, TERMINAL_STAGES, slotsMatchStage,
         isChangesRequestedAt, Outcome, Settled, StageKind, StageRound, NoReview,
         ReliabilityLoopRecord, ReliabilityLoopStage

(* The effect of each record operation on the abstract state. *)
LEMMA OpsAbstract ==
  ASSUME NEW r \in ReliabilityLoopRecord,
         assertReliabilityLoopRecord(r), ~isTerminalStage(r.stage)
  PROVE  /\ Outcome(FailedRecord(r)) = "failed" /\ Settled(FailedRecord(r)) = Settled(r)
         /\ Outcome(CancelledRecord(r)) = "cancelled"
         /\ Settled(CancelledRecord(r)) = Settled(r)
         /\ StageKind(r.stage) = "implement" =>
              LET s == AfterImplement(r, StageRound(r.stage)) IN
              Outcome(s) = "open" /\ Settled(s) = Settled(r) + 1
         /\ StageKind(r.stage) = "review" =>
              \A v \in ReviewVerdict :
                LET s == AfterReview(r, StageRound(r.stage), v) IN
                /\ Settled(s) = Settled(r) + 1
                /\ Outcome(s) = IF v = "approved" THEN "completed"
                                ELSE IF Settled(r) + 1 = 4 THEN "blocked" ELSE "open"
<1>. USE WorkingSettled
<1>1. Outcome(FailedRecord(r)) = "failed" /\ Settled(FailedRecord(r)) = Settled(r)
  BY DEF FailedRecord, Outcome, Settled, isTerminalStage, TERMINAL_STAGES, ReliabilityLoopRecord
<1>2. Outcome(CancelledRecord(r)) = "cancelled" /\ Settled(CancelledRecord(r)) = Settled(r)
  BY DEF CancelledRecord, Outcome, Settled, isTerminalStage, TERMINAL_STAGES, ReliabilityLoopRecord
<1>3. ASSUME StageKind(r.stage) = "implement"
      PROVE  LET s == AfterImplement(r, StageRound(r.stage)) IN
             Outcome(s) = "open" /\ Settled(s) = Settled(r) + 1
  BY <1>3 DEF AfterImplement, Outcome, Settled, isTerminalStage, TERMINAL_STAGES,
              ReliabilityLoopRecord
<1>4. ASSUME StageKind(r.stage) = "review", NEW v \in ReviewVerdict
      PROVE  LET s == AfterReview(r, StageRound(r.stage), v) IN
             /\ Settled(s) = Settled(r) + 1
             /\ Outcome(s) = IF v = "approved" THEN "completed"
                             ELSE IF Settled(r) + 1 = 4 THEN "blocked" ELSE "open"
  <2>1. StageRound(r.stage) \in {1, 2}
    BY DEF StageRound
  <2>. QED
    BY <1>4, <2>1 DEF AfterReview, Outcome, Settled, isTerminalStage, TERMINAL_STAGES,
                      ReliabilityLoopRecord
<1>. QED BY <1>1, <1>2, <1>3, <1>4

LEMMA RefineInit == Init => Abstract!Init
<1>. SUFFICES ASSUME Init PROVE Abstract!Init
  OBVIOUS
<1>1. PICK g \in BOOLEAN : disk = InitialRecord(g)
  BY DEF Init
<1>. QED BY <1>1 DEF Abstract!Init, InitialRecord, NoReview, isTerminalStage, TERMINAL_STAGES

(* Only the durable write moves the medium, and it takes one abstract step. *)
LEMMA RefineNext ==
  ASSUME ~DirSyncFails, TypeInv, CoherentInv, AgreeInv, [Next]_vars
  PROVE  [Abstract!Next]_Abstract!vars
<1>1. CASE putDurable
  <2>1. /\ disk = mem /\ disk' = todo /\ Successor(disk, todo)
        /\ disk \in ReliabilityLoopRecord
        /\ assertReliabilityLoopRecord(disk) /\ ~isTerminalStage(disk.stage)
    BY <1>1 DEF putDurable, AgreeInv, CoherentInv, TypeInv, TypeOK
  <2>2. /\ StageKind(disk.stage) = "implement" => Settled(disk) \in {0, 2}
        /\ StageKind(disk.stage) = "review" => Settled(disk) \in {1, 3}
        /\ Outcome(disk) = "open"
    BY <2>1, WorkingSettled
  <2>3. CASE todo = FailedRecord(disk) \/ todo = CancelledRecord(disk)
    <3>1. Outcome(disk)= "open" /\ Outcome(todo) \in {"failed", "cancelled"} /\ Settled(todo) = Settled(disk)
      BY <2>1, <2>2, <2>3, OpsAbstract
    <3>2. Abstract!Abort
      BY <2>1, <3>1 DEF Abstract!Abort, Outcome, Settled
    <3>. QED BY <3>2 DEF Abstract!Next
  <2>4. CASE StageKind(disk.stage) = "implement"
             /\ todo = AfterImplement(disk, StageRound(disk.stage))
    <3>1. Outcome(todo) = "open" /\ Settled(todo) = Settled(disk) + 1 /\ Settled(disk) \in {0, 2}
      BY <2>1, <2>2, <2>4, OpsAbstract
    <3>2. Abstract!SettleImplement
      BY <2>1, <2>2, <3>1 DEF Abstract!SettleImplement, Abstract!MaxAttempts, Outcome, Settled
    <3>. QED BY <3>2 DEF Abstract!Next
  <2>5. ASSUME StageKind(disk.stage) = "review", NEW v \in ReviewVerdict,
               todo = AfterReview(disk, StageRound(disk.stage), v)
        PROVE  Abstract!Next
    <3>1. /\ Settled(todo) = Settled(disk) + 1 /\ Settled(disk) \in {1, 3}
          /\ Outcome(todo) = IF v = "approved" THEN "completed"
                             ELSE IF Settled(disk) + 1 = 4 THEN "blocked" ELSE "open"
      BY <2>1, <2>2, <2>5, OpsAbstract
    <3>2. CASE v = "approved"
      <4>1. Abstract!Approve
        BY <2>1, <2>2, <3>1, <3>2 DEF Abstract!Approve, Outcome, Settled
      <4>. QED BY <4>1 DEF Abstract!Next
    <3>3. CASE v # "approved"
      <4>1. Abstract!RequestChanges
        BY <2>1, <2>2, <3>1, <3>3
           DEF Abstract!RequestChanges, Abstract!MaxAttempts, Outcome, Settled
      <4>. QED BY <4>1 DEF Abstract!Next
    <3>. QED BY <3>2, <3>3
  <2>. QED BY <2>1, <2>3, <2>4, <2>5 DEF Successor
<1>2. CASE ~putDurable
  <2>1. disk' = disk
    BY <1>2, CopiesChange DEF putReturns, crash
  <2>. QED BY <2>1 DEF Abstract!vars
<1>. QED BY <1>1, <1>2

(* When rejected writes leave the medium alone, the driver implements the    *)
(* bounded loop: attempts settle once and in order, at most one rework       *)
(* happens and the outcome is final, across crashes, cancels and faults.     *)
THEOREM DriverImplementsBoundedLoop ==
  ASSUME ~DirSyncFails
  PROVE  Spec => ImplementsBoundedLoop
<1>1. TypeInv /\ CoherentInv /\ AgreeInv /\ [Next]_vars => [Abstract!Next]_Abstract!vars
  BY RefineNext
<1>2. AgreeInv /\ [Next]_vars => AgreeInv'
  BY AgreeNext
<1>. QED
  BY <1>1, <1>2, RefineInit, TypeInit, TypeNext, CoherentInit, CoherentNext, AgreeInit, PTL
     DEF Spec, ImplementsBoundedLoop, Abstract!Spec

-----------------------------------------------------------------------------
(* A gated completion was vouched for.  The chain from the inspected         *)
(* candidate to the completed record: the key the prompt names is the one    *)
(* the gate compares, a passing comparison is what the history records, and  *)
(* only then is a completed record put.                                      *)

Vouched ==
  /\ vouched.verdict = "approved" /\ vouched.checks
  /\ vouched.key = vouched.shown /\ vouched.key # NoKey

VouchInv ==
  /\ pc = "diff" /\ mem.gated => acceptance.key \in Keys
  /\ pc \in {"running", "disposing"} /\ mem.gated /\ StageKind(mem.stage) = "review"
       => acceptance.key = shown
  /\ pc = "gate" => acceptance.key = shown
  /\ pc = "gateput" =>
       /\ vouched.verdict = report
       /\ acceptance.checksPassed =>
            vouched.checks /\ vouched.key = vouched.shown /\ vouched.key # NoKey
  /\ pc \in {"put", "putted"} /\ todo.stage = "completed" /\ todo.gated => Vouched
  /\ mem.stage = "completed" /\ mem.gated => Vouched

(* Only an approving review completes, and operations keep the gate. *)
LEMMA CompletingRecords ==
  ASSUME NEW r \in ReliabilityLoopRecord, NEW n, NEW v
  PROVE  /\ FailedRecord(r).stage # "completed" /\ CancelledRecord(r).stage # "completed"
         /\ AfterImplement(r, n).stage # "completed"
         /\ AfterReview(r, n, v).stage = "completed" => v = "approved"
         /\ AfterReview(r, n, v).gated = r.gated
  BY DEF FailedRecord, CancelledRecord, AfterImplement, AfterReview, ReliabilityLoopRecord

LEMMA VouchInit == Init => VouchInv
<1>. SUFFICES ASSUME Init PROVE VouchInv
  OBVIOUS
<1>1. PICK g \in BOOLEAN : disk = InitialRecord(g)
  BY DEF Init
<1>. QED BY <1>1 DEF Init, VouchInv, InitialRecord

(* A step that only moves control, to an await VouchInv says nothing about. *)
LEMMA VouchAwait ==
  ASSUME VouchInv, pc' \in {"top", "inspect", "done", "idle"}, mem' = mem, vouched' = vouched
  PROVE  VouchInv'
  BY DEF VouchInv, Vouched

(* A step that puts a record which does not complete the loop, or is vouched. *)
LEMMA VouchWrite ==
  ASSUME VouchInv, NEW r, writeRecord(r), mem' = mem, vouched' = vouched,
         r.stage = "completed" /\ r.gated => Vouched
  PROVE  VouchInv'
  BY DEF VouchInv, Vouched, writeRecord, settleReject

LEMMA VouchNext ==
  ASSUME TypeInv, CoherentInv, AgreeInv, VouchInv, [Next]_vars, ~DirSyncFails
  PROVE  VouchInv'
<1>. USE DEF vars, loopVars, driverVars, workVars, historyVars
<1>0. TypeOK /\ ControlInv /\ mem \in ReliabilityLoopRecord
  BY DEF TypeInv, TypeOK
<1>s. StageKind(mem.stage) \in {"implement", "review"}
  BY DEF StageKind
<1>w. ASSUME writeRecord(FailedRecord(mem)) \/ writeRecord(CancelledRecord(mem)),
             mem' = mem, vouched' = vouched
      PROVE  VouchInv'
  BY <1>0, <1>w, VouchWrite, CompletingRecords
<1>n. ASSUME ~isTerminalStage(mem.stage) PROVE mem.stage # "completed"
  BY <1>n DEF isTerminalStage, TERMINAL_STAGES
<1>1. CASE driveStages
  <2>0. mem' = mem /\ vouched' = vouched /\ acceptance' = acceptance /\ report' = report
    BY <1>1 DEF driveStages
  <2>1. CASE ~assertReliabilityLoopRecord(mem) \/ isTerminalStage(mem.stage)
    BY <1>1, <2>0, <2>1, VouchAwait DEF driveStages, settleReject, settleResolve
  <2>2. CASE assertReliabilityLoopRecord(mem) /\ ~isTerminalStage(mem.stage) /\ cancelRequested
    BY <1>1, <1>w, <2>0, <2>2 DEF driveStages
  <2>3. CASE assertReliabilityLoopRecord(mem) /\ ~isTerminalStage(mem.stage)
             /\ ~cancelRequested /\ StageKind(mem.stage) = "implement"
    <3>1. CASE EngineStart
      BY <1>n, <2>0, <2>3, <3>1 DEF EngineStart, Await, VouchInv
    <3>2. CASE StageCannotStart
      BY <1>w, <2>0, <2>3, <3>2 DEF StageCannotStart
    <3>. QED BY <1>1, <2>3, <3>1, <3>2 DEF driveStages
  <2>4. CASE assertReliabilityLoopRecord(mem) /\ ~isTerminalStage(mem.stage)
             /\ ~cancelRequested /\ StageKind(mem.stage) = "review"
    <3>1. pc' = (IF mem.gated THEN "inspect" ELSE "diff")
      BY <1>1, <2>4 DEF driveStages, Await
    <3>. QED BY <1>n, <2>0, <2>4, <3>1 DEF VouchInv
  <2>. QED BY <1>s, <2>1, <2>2, <2>3, <2>4
<1>2. CASE inspectReturns
  BY <1>0, <1>2, <1>n DEF inspectReturns, Await, VouchInv, TypeOK, ControlInv
<1>3. CASE inspectThrows
  BY <1>3, <1>w, VouchAwait DEF inspectThrows, StageCannotStart, Await
<1>4. CASE startReview
  <2>1. CASE cancelRequested
    BY <1>4, <2>1, VouchAwait DEF startReview, Await
  <2>2. CASE EngineStart
    BY <1>0, <1>4, <1>n, <2>2 DEF startReview, EngineStart, Await, VouchInv, ControlInv
  <2>3. CASE ~cancelRequested /\ StageCannotStart
    BY <1>4, <1>w, <2>3 DEF startReview, StageCannotStart
  <2>. QED BY <1>4, <2>1, <2>2, <2>3 DEF startReview
<1>5. CASE runSettles
  BY <1>0, <1>5, <1>n DEF runSettles, Await, VouchInv, ControlInv
<1>6. CASE runDisposed
  <2>0. mem' = mem /\ vouched' = vouched /\ acceptance' = acceptance /\ shown' = shown
        /\ pc = "disposing" /\ ~isTerminalStage(mem.stage)
    BY <1>0, <1>6 DEF runDisposed, ControlInv
  <2>1. CASE cancelRequested
    BY <1>6, <2>0, <2>1, VouchAwait DEF runDisposed, applySettled, Await
  <2>2. CASE ~cancelRequested /\ report \in {"invalid", "cancelled", "error"}
    BY <1>6, <1>w, <2>0, <2>2 DEF runDisposed, applySettled
  <2>3. CASE ~cancelRequested /\ report \notin {"invalid", "cancelled", "error"}
    <3>1. applyReport
      BY <1>6, <2>3 DEF runDisposed, applySettled
    <3>2. CASE StageKind(mem.stage) = "implement"
      BY <1>0, <2>0, <3>1, <3>2, VouchWrite, CompletingRecords DEF applyReport
    <3>3. CASE StageKind(mem.stage) = "review" /\ ~mem.gated
      BY <1>0, <2>0, <3>1, <3>3, VouchWrite, CompletingRecords DEF applyReport
    <3>4. CASE StageKind(mem.stage) = "review" /\ mem.gated /\ acceptance.key = NoKey
      BY <1>w, <2>0, <3>1, <3>4 DEF applyReport
    <3>5. CASE StageKind(mem.stage) = "review" /\ mem.gated /\ acceptance.key # NoKey
      BY <1>n, <2>0, <3>1, <3>5 DEF applyReport, Await, VouchInv
    <3>. QED BY <1>s, <3>2, <3>3, <3>4, <3>5
  <2>. QED BY <2>1, <2>2, <2>3
<1>7. CASE reviewInspects
  BY <1>0, <1>7, <1>n, KeysAssumption
     DEF reviewInspects, Await, VouchInv, TypeOK, ControlInv
<1>8. CASE reviewReturns
  <2>1. CASE cancelRequested
    BY <1>8, <2>1, VouchAwait DEF reviewReturns, Await
  <2>2. CASE ~cancelRequested
    <3>1. EnforcedVerdict = "approved" => Vouched
      BY <1>8 DEF reviewReturns, EnforcedVerdict, VouchInv, Vouched
    <3>. QED BY <1>0, <1>8, <2>2, <3>1, VouchWrite, CompletingRecords DEF reviewReturns
  <2>. QED BY <2>1, <2>2
<1>9. CASE reviewThrows
  BY <1>9, <1>w, VouchAwait DEF reviewThrows, Await
<1>10. CASE putDurable
  BY <1>10 DEF putDurable, Await, VouchInv, Vouched
<1>11. CASE putReturns
  BY <1>11 DEF putReturns, Await, VouchInv, Vouched
<1>12. CASE putRejects
  BY <1>12, VouchAwait DEF putRejects, settleReject
<1>13. CASE cancel \/ edit \/ UNCHANGED vars
  BY <1>13 DEF cancel, edit, VouchInv, Vouched
<1>14. CASE resume
  BY <1>14, VouchAwait DEF resume
<1>15. CASE crash
  BY <1>15 DEF crash, VouchInv, Vouched, AgreeInv
<1>. QED
  BY <1>1, <1>2, <1>3, <1>4, <1>5, <1>6, <1>7, <1>8, <1>9, <1>10, <1>11, <1>12,
     <1>13, <1>14, <1>15 DEF Next, Driver

(* When rejected writes leave the medium alone, a gated loop is durably      *)
(* completed only if the reviewer approved exactly the candidate it was      *)
(* shown, unchanged and with its required checks passing at the gate.        *)
THEOREM GatedCompletionIsVouched ==
  ASSUME ~DirSyncFails
  PROVE  Spec => []CompletedWasVouched
<1>1. AgreeInv /\ VouchInv => CompletedWasVouched
  BY DEF AgreeInv, VouchInv, Vouched, CompletedWasVouched
<1>2. AgreeInv /\ [Next]_vars => AgreeInv'
  BY AgreeNext
<1>3. TypeInv /\ CoherentInv /\ AgreeInv /\ VouchInv /\ [Next]_vars => VouchInv'
  BY VouchNext
<1>. QED
  BY <1>1, <1>2, <1>3, TypeInit, TypeNext, CoherentInit, CoherentNext, AgreeInit, VouchInit,
     PTL DEF Spec
=============================================================================
