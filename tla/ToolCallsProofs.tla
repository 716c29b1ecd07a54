--------------------------- MODULE ToolCallsProofs ---------------------------
(***************************************************************************)
(* Proofs about ToolCalls for any number of calls, any pool and any number *)
(* of registry changes and crashes.                                        *)
(***************************************************************************)
EXTENDS ToolCalls, FiniteSetTheorems, SequenceTheorems, WellFoundedInduction, TLAPS

-----------------------------------------------------------------------------
(* The scheduler's part of the inductive invariant.                         *)

(* Where the scheduler is inside a group. *)
Pool == {"prepare", "commit", "race", "drain"}

(* A drain with nothing in flight may be that of a batch that started none. *)
InGroup == pc \in Pool /\ (pc = "drain" => inFlight # {})

ControlType ==
  /\ pc \in {"plan", "prepare", "commit", "race", "drain", "ended", "crashed", "resumed"}
  /\ consumed \in 0..N /\ started \in consumed..N /\ committed \in 0..started
  /\ groupMode \in Modes /\ mode \in [Calls -> Modes] /\ startedAs \in [Calls -> Modes]
  /\ call \in [Calls -> States] /\ inFlight \subseteq Calls /\ ran \subseteq Calls
  /\ aborted \in BOOLEAN /\ failure \in BOOLEAN /\ signal \in BOOLEAN /\ unrecorded \in BOOLEAN
  /\ switches \in 0..MaxSwitches /\ crashes \in 0..MaxCrashes

(* The calls that are neither settled nor waiting belong to the group: only *)
(* its first call may be exclusive, and then it is the only one.            *)
GroupInv ==
  /\ \A i \in Calls : call[i] \in {"checkpoint", "running"} => i \in inFlight
  /\ \A i \in Calls : call[i] = "preparing" => pc = "prepare" /\ i = started
  /\ pc \notin Pool => inFlight = {}
  /\ inFlight \subseteq (consumed + 1)..started
  /\ InGroup => /\ started > consumed
                /\ startedAs[consumed + 1] = groupMode
                /\ \A i \in (consumed + 2)..started : startedAs[i] = "parallel"
                /\ groupMode = "exclusive" => started = consumed + 1

(* Room for the call under preparation was checked before it was started.   *)
RoomInv ==
  /\ Cardinality(inFlight) =< MaxParallel
  /\ pc = "prepare" => started \notin inFlight /\ Room

(* A group is left with every started call committed and no failure, or     *)
(* with a failure and what it has in flight to drain.                       *)
CommitInv ==
  /\ pc = "plan" => consumed = started /\ committed = started /\ ~failure
  /\ pc = "drain" => failure
  /\ pc \in {"ended", "crashed", "resumed", "drain"} \/ 
       \A i \in (committed + 1)..started :
         call[i] \in {"preparing", "slot", "rejected"} \/ i \in inFlight
  /\ \A i \in Calls : call[i] = "rejected" => failure

Inv == ControlType /\ GroupInv /\ RoomInv /\ CommitInv

LEMMA CallsFinite ==
  ASSUME NEW S, S \subseteq Calls
  PROVE  IsFiniteSet(S) /\ Cardinality(S) \in Nat
<1>1. IsFiniteSet(Calls)
  BY ToolCallsAssumption, FS_Interval DEF Calls
<1>. QED BY <1>1, FS_Subset, FS_CardinalityType

(* The race yields one of the settled calls. *)
LEMMA MinElement ==
  ASSUME NEW S, S \subseteq Nat, S # {}
  PROVE  Min(S) \in S
<1>. DEFINE R == {ss \in Nat \X Nat : ss[1] < ss[2]}
<1>1. R = OpToRel(<, Nat)
  BY Zenon DEF OpToRel
<1>2. IsWellFoundedOn(R, Nat)
  BY <1>1, NatLessThanWellFounded, Zenon
<1>3. PICK x \in S : \A y \in S : ~ (<<y, x>> \in R)
  <2>. HIDE DEF R
  <2>. QED BY <1>2, WFMin
<1>4. \A y \in S : x =< y
  <2>. TAKE y \in S
  <2>1. x \in Nat /\ y \in Nat /\ <<y, x>> \notin R
    BY <1>3
  <2>. QED BY <2>1
<1>. QED BY <1>3, <1>4 DEF Min

LEMMA RacedLemma ==
  ASSUME ControlType, Settled # {}
  PROVE  /\ Raced \subseteq inFlight
         /\ Cardinality(Raced) < Cardinality(inFlight)
         /\ \A i \in inFlight \ Raced : call[i] \in {"slot", "rejected"}
<1>1. Min(Settled) \in Settled
  <2>1. Settled \subseteq inFlight
    BY DEF Settled
  <2>2. inFlight \subseteq Calls /\ Calls \subseteq Nat
    BY ToolCallsAssumption DEF ControlType, Calls
  <2>. HIDE DEF Settled
  <2>. QED BY <2>1, <2>2, MinElement
<1>2. Settled \subseteq inFlight /\ IsFiniteSet(inFlight) /\ Cardinality(inFlight) \in Nat
  BY CallsFinite DEF Settled, ControlType
<1>3. Cardinality(inFlight \ {Min(Settled)}) = Cardinality(inFlight) - 1
  BY <1>1, <1>2, FS_RemoveElement
<1>. QED BY <1>1, <1>2, <1>3 DEF Raced, Settled

-----------------------------------------------------------------------------
(* Every step preserves the scheduler's part.                               *)

LEMMA InitControl == Init => Inv
<1>. SUFFICES ASSUME Init PROVE Inv
  OBVIOUS
<1>1. inFlight = {} /\ Cardinality({}) = 0
  BY FS_EmptySet DEF Init
<1>2. ControlType
  <2>1. /\ consumed \in 0..N /\ started \in consumed..N /\ committed \in 0..started
        /\ switches \in 0..MaxSwitches /\ crashes \in 0..MaxCrashes
    BY ToolCallsAssumption DEF Init
  <2>2. call \in [Calls -> States]
    BY DEF Init, States
  <2>. QED BY <2>1, <2>2 DEF Init, ControlType, Modes
<1>3. GroupInv
  BY ToolCallsAssumption DEF Init, GroupInv, InGroup, Pool
<1>4. RoomInv
  BY <1>1, ToolCallsAssumption DEF Init, RoomInv
<1>5. CommitInv
  BY ToolCallsAssumption DEF Init, CommitInv
<1>. QED BY <1>2, <1>3, <1>4, <1>5 DEF Inv

LEMMA ControlTypeNext == Inv /\ [Next]_vars => ControlType'
<1>. SUFFICES ASSUME Inv, [Next]_vars PROVE ControlType'
  OBVIOUS
<1>0. ControlType /\ GroupInv /\ CommitInv /\ N \in Nat \ {0}
  BY ToolCallsAssumption DEF Inv
<1>. USE DEF ControlType, vars, scheduler, dispatches, registry
<1>1. CASE Plan
  <2>0. consumed + 1 \in Calls /\ mode[consumed + 1] \in Modes
    BY <1>0, <1>1 DEF Plan, Calls
  <2>1. CASE signal
    BY <1>0, <1>1, <2>0, <2>1 DEF Plan, SkipRest
  <2>2. CASE ~signal
    <3>1. call' \in [Calls -> States] /\ startedAs' \in [Calls -> Modes]
      BY <1>0, <1>1, <2>0, <2>2 DEF Plan, StartCall, States
    <3>2. started' \in consumed'..N /\ committed' \in 0..started'
      BY <1>0, <1>1, <2>2 DEF Plan, StartCall, CommitInv
    <3>. QED BY <1>0, <1>1, <2>0, <2>2, <3>1, <3>2 DEF Plan, StartCall
  <2>. QED BY <2>1, <2>2
<1>2. CASE StepEnds
  BY <1>0, <1>2 DEF StepEnds
<1>3. CASE Prepared
  <2>1. /\ UNCHANGED <<scheduler, failure, ran, signal, registry, startedAs, unrecorded, crashes>>
        /\ pc' \in {"drain", "commit"}
        /\ inFlight' \in {inFlight, inFlight \union {started}}
        /\ \E v \in {"idle", "checkpoint", "slot"} : call' = [call EXCEPT ![started] = v]
    BY <1>3 DEF Prepared
  <2>2. started \in Calls
    BY <1>0, <1>3 DEF Prepared, GroupInv, InGroup, Pool, Calls
  <2>. QED BY <1>0, <2>1, <2>2 DEF States
<1>4. CASE PrepareRejects
  BY <1>0, <1>4 DEF PrepareRejects, States
<1>5. CASE Commit
  BY <1>0, <1>5 DEF Commit, Ready
<1>6. CASE CommitRejects
  BY <1>0, <1>6 DEF CommitRejects
<1>7. CASE CommitEnds
  <2>1. CASE failure
    BY <1>0, <1>7, <2>1 DEF CommitEnds
  <2>2. CASE StartCall(started + 1) /\ MayJoin /\ ~failure
    <3>1. started < N
      BY <1>0, <1>7, <2>2 DEF CommitEnds, MayJoin, GroupEnd, Modes, GroupInv, InGroup, Pool
    <3>2. started + 1 \in Calls /\ mode[started + 1] \in Modes
      BY <1>0, <3>1 DEF Calls
    <3>3. call' \in [Calls -> States] /\ startedAs' \in [Calls -> Modes]
      BY <1>0, <2>2, <3>2 DEF StartCall, States
    <3>4. /\ started' = started + 1 /\ pc' = "prepare"
          /\ UNCHANGED <<consumed, committed, groupMode, inFlight, failure, ran, signal, mode,
                         switches, unrecorded, crashes>>
          /\ aborted' \in BOOLEAN
      BY <1>0, <1>7, <2>2 DEF CommitEnds, StartCall, SkipRest
    <3>. QED BY <1>0, <3>1, <3>3, <3>4
  <2>3. CASE SkipRest /\ ~failure
    BY <1>0, <1>7, <2>3 DEF CommitEnds, SkipRest
  <2>4. CASE /\ ~failure
             /\ UNCHANGED <<call, started, committed, startedAs>>
             /\ consumed' \in {consumed, started} /\ pc' \in {"race", "plan"}
    BY <1>0, <1>7, <2>4 DEF CommitEnds
  <2>. QED BY <1>7, <2>1, <2>2, <2>3, <2>4 DEF CommitEnds
<1>8. CASE Race
  BY <1>0, <1>8, RacedLemma DEF Race
<1>9. CASE DrainEnds
  BY <1>0, <1>9 DEF DrainEnds
<1>10. CASE Resume
  BY <1>0, <1>10 DEF Resume
<1>11. ASSUME NEW i \in Calls, Dispatch(i) PROVE ControlType'
  BY <1>0, <1>11 DEF Dispatch, Checkpointed, CheckpointFails, BodySettles, DispatchRejects, States
<1>12. ASSUME NEW i \in Calls, Reclassify(i) PROVE ControlType'
  BY <1>0, <1>12, ToolCallsAssumption DEF Reclassify, Modes
<1>13. CASE Abort
  BY <1>0, <1>13 DEF Abort
<1>14. CASE Crash
  BY <1>0, <1>14, ToolCallsAssumption DEF Crash, States
<1>15. CASE UNCHANGED vars
  BY <1>0, <1>15
<1>16. CASE PlanFails \/ StartFails
  BY <1>0, <1>16 DEF PlanFails, StartFails, SkipFails, Fails
<1>. QED
  BY <1>1, <1>2, <1>3, <1>4, <1>5, <1>6, <1>7, <1>8, <1>9, <1>10, <1>11, <1>12, <1>13, <1>14,
     <1>15, <1>16 DEF Next, Step

(* What commitReady's end may do, in the terms the invariants use.          *)
LEMMA CommitEndsCases ==
  ASSUME ControlType, GroupInv, CommitEnds
  PROVE  \/ /\ pc' = "drain" /\ failure
            /\ UNCHANGED <<call, scheduler, startedAs, log>>
         \/ /\ ~failure /\ MayJoin /\ Room /\ StartCall(started + 1)
            /\ started + 1 \in Calls /\ groupMode = "parallel"
            /\ UNCHANGED <<consumed, committed, groupMode>>
         \/ /\ ~failure /\ pc' = "race"
            /\ UNCHANGED <<call, consumed, started, committed, groupMode, startedAs, log>>
         \/ /\ ~failure /\ inFlight = {} /\ SkipRest /\ UNCHANGED groupMode
         \/ /\ ~failure /\ inFlight = {} /\ pc' = "plan" /\ consumed' = started
            /\ UNCHANGED <<call, started, committed, groupMode, startedAs, log>>
<1>1. CASE failure
  BY <1>1 DEF CommitEnds
<1>2. ASSUME ~failure, MayJoin, Room, StartCall(started + 1), UNCHANGED <<consumed, committed, groupMode>>
      PROVE  started + 1 \in Calls /\ groupMode = "parallel"
  BY <1>2, ToolCallsAssumption
     DEF CommitEnds, MayJoin, GroupEnd, Modes, GroupInv, InGroup, Pool, ControlType, Calls
<1>3. CASE ~failure
  BY <1>2, <1>3 DEF CommitEnds
<1>. QED BY <1>1, <1>3

LEMMA GroupNext == Inv /\ [Next]_vars => GroupInv'
<1>. SUFFICES ASSUME Inv, [Next]_vars PROVE GroupInv'
  OBVIOUS
<1>0. ControlType /\ GroupInv /\ CommitInv /\ N \in Nat \ {0}
  BY ToolCallsAssumption DEF Inv
<1>t. /\ consumed \in 0..N /\ started \in consumed..N /\ call \in [Calls -> States]
      /\ startedAs \in [Calls -> Modes] /\ inFlight \subseteq Calls
  BY <1>0 DEF ControlType
<1>. USE DEF GroupInv, InGroup, Pool, vars, scheduler, dispatches, registry
<1>1. CASE Plan
  <2>0. inFlight = {} /\ inFlight' = inFlight /\ consumed = started
    BY <1>0, <1>1 DEF Plan, CommitInv
  <2>1. CASE signal
    BY <1>0, <1>1, <2>0, <2>1 DEF Plan, SkipRest
  <2>2. CASE ~signal
    <3>1. /\ started' = consumed + 1 /\ consumed' = consumed /\ pc' = "prepare"
          /\ call' = [call EXCEPT ![consumed + 1] = "preparing"]
          /\ startedAs' = [startedAs EXCEPT ![consumed + 1] = mode[consumed + 1]]
          /\ groupMode' = mode[consumed + 1]
      BY <1>1, <2>2 DEF Plan, StartCall
    <3>2. consumed + 1 \in Calls
      BY <1>0, <1>t, <1>1 DEF Plan, Calls
    <3>. QED BY <1>0, <1>t, <1>1, <2>0, <3>1, <3>2 DEF Plan
  <2>. QED BY <2>1, <2>2
<1>2. CASE StepEnds
  BY <1>0, <1>2 DEF StepEnds
<1>3. CASE Prepared
  <2>1. /\ UNCHANGED <<scheduler, startedAs>> /\ pc = "prepare" /\ pc' \in {"drain", "commit"}
        /\ \/ inFlight' = inFlight /\ \E v \in {"idle", "slot"} : call' = [call EXCEPT ![started] = v]
           \/ /\ inFlight' = inFlight \union {started}
              /\ call' = [call EXCEPT ![started] = "checkpoint"]
    BY <1>3 DEF Prepared
  <2>2. started \in Calls /\ started \in (consumed + 1)..started
    BY <1>0, <1>t, <2>1 DEF Calls
  <2>. QED BY <1>0, <1>t, <2>1, <2>2
<1>4. CASE PrepareRejects
  BY <1>0, <1>t, <1>4 DEF PrepareRejects
<1>5. CASE Commit \/ CommitRejects
  BY <1>0, <1>5 DEF Commit, CommitRejects
<1>6. CASE CommitEnds
  <2>0. inFlight' = inFlight /\ pc = "commit"
    BY <1>6 DEF CommitEnds
  <2>1. CASE pc' \in {"drain", "race"} /\ UNCHANGED <<call, consumed, started, groupMode, startedAs>>
    BY <1>0, <2>0, <2>1
  <2>2. CASE /\ MayJoin /\ StartCall(started + 1) /\ started + 1 \in Calls
             /\ groupMode = "parallel" /\ UNCHANGED <<consumed, groupMode>>
    <3>1. /\ started' = started + 1 /\ pc' = "prepare"
          /\ call' = [call EXCEPT ![started + 1] = "preparing"]
          /\ startedAs' = [startedAs EXCEPT ![started + 1] = "parallel"]
      BY <2>2 DEF StartCall, MayJoin
    <3>. QED BY <1>0, <1>t, <2>0, <2>2, <3>1
  <2>3. CASE inFlight = {} /\ SkipRest
    BY <1>0, <2>0, <2>3 DEF SkipRest
  <2>4. CASE inFlight = {} /\ pc' = "plan" /\ UNCHANGED call
    BY <1>0, <2>0, <2>4
  <2>. QED BY <1>0, <1>6, <2>1, <2>2, <2>3, <2>4, CommitEndsCases
<1>7. CASE Race
  BY <1>0, <1>7, RacedLemma DEF Race
<1>8. CASE DrainEnds
  BY <1>0, <1>8 DEF DrainEnds, Settled
<1>9. CASE Resume
  BY <1>0, <1>9 DEF Resume
<1>10. ASSUME NEW i \in Calls, Dispatch(i) PROVE GroupInv'
  BY <1>0, <1>t, <1>10 DEF Dispatch, Checkpointed, CheckpointFails, BodySettles, DispatchRejects
<1>11. ASSUME NEW i \in Calls, Reclassify(i) PROVE GroupInv'
  BY <1>0, <1>11 DEF Reclassify
<1>12. CASE Abort
  BY <1>0, <1>12 DEF Abort
<1>13. CASE Crash
  BY <1>13 DEF Crash
<1>14. CASE UNCHANGED vars
  BY <1>0, <1>14
<1>15. CASE PlanFails
  BY <1>0, <1>15 DEF PlanFails, SkipFails, Fails
<1>16. CASE StartFails
  BY <1>0, <1>16 DEF StartFails, SkipFails, Fails
<1>. QED
  BY <1>1, <1>2, <1>3, <1>4, <1>5, <1>6, <1>7, <1>8, <1>9, <1>10, <1>11, <1>12, <1>13, <1>14,
     <1>15, <1>16 DEF Next, Step

LEMMA RoomNext == Inv /\ [Next]_vars => RoomInv'
<1>. SUFFICES ASSUME Inv, [Next]_vars PROVE RoomInv'
  OBVIOUS
<1>0. ControlType /\ GroupInv /\ RoomInv /\ CommitInv
  BY DEF Inv
<1>t. /\ IsFiniteSet(inFlight) /\ Cardinality(inFlight) \in Nat
      /\ consumed \in Nat /\ started \in Nat
  BY <1>0, CallsFinite, ToolCallsAssumption DEF ControlType
<1>e. Cardinality({}) = 0 /\ 0 < MaxParallel /\ MaxParallel \in Nat
  BY FS_EmptySet, ToolCallsAssumption
<1>. USE DEF RoomInv, Room, vars, scheduler, dispatches, registry
<1>1. CASE Plan
  <2>1. inFlight' = {}
    BY <1>0, <1>1 DEF Plan, GroupInv, Pool
  <2>. QED BY <1>e, <2>1
<1>2. CASE StepEnds
  BY <1>0, <1>2 DEF StepEnds
<1>3. CASE Prepared
  <2>1. CASE inFlight' = inFlight
    BY <1>0, <1>3, <2>1 DEF Prepared
  <2>2. CASE inFlight' = inFlight \union {started}
    <3>1. Cardinality(inFlight') = Cardinality(inFlight) + 1
      BY <1>0, <1>t, <1>3, <2>2, FS_AddElement DEF Prepared
    <3>. QED BY <1>0, <1>t, <1>e, <1>3, <3>1 DEF Prepared
  <2>. QED BY <1>3, <2>1, <2>2 DEF Prepared
<1>4. CASE PrepareRejects
  BY <1>0, <1>4 DEF PrepareRejects
<1>5. CASE Commit \/ CommitRejects
  BY <1>0, <1>5 DEF Commit, CommitRejects
<1>6. CASE CommitEnds
  <2>0. inFlight' = inFlight
    BY <1>6 DEF CommitEnds
  <2>1. CASE pc' # "prepare"
    BY <1>0, <2>0, <2>1
  <2>2. CASE pc' = "prepare"
    <3>1. Room /\ started' = started + 1
      BY <1>0, <1>6, <2>2, CommitEndsCases DEF StartCall, SkipRest
    <3>2. started + 1 \notin inFlight
      BY <1>0, <1>t DEF GroupInv
    <3>. QED BY <1>0, <2>0, <3>1, <3>2
  <2>. QED BY <2>1, <2>2
<1>7. CASE Race
  <2>1. Cardinality(inFlight') < Cardinality(inFlight) /\ pc' # "prepare" /\ inFlight' \subseteq inFlight
    BY <1>0, <1>7, RacedLemma DEF Race
  <2>2. Cardinality(inFlight') \in Nat
    BY <1>t, <2>1, FS_Subset, FS_CardinalityType
  <2>. QED BY <1>0, <1>t, <1>e, <2>1, <2>2
<1>8. CASE DrainEnds \/ Crash
  <2>1. inFlight' = {} /\ pc' # "prepare"
    BY <1>8 DEF DrainEnds, Crash
  <2>. QED BY <1>e, <2>1
<1>9. CASE Resume
  BY <1>0, <1>9 DEF Resume
<1>10. ASSUME NEW i \in Calls, Dispatch(i) PROVE RoomInv'
  BY <1>0, <1>10 DEF Dispatch, Checkpointed, CheckpointFails, BodySettles, DispatchRejects
<1>11. ASSUME NEW i \in Calls, Reclassify(i) PROVE RoomInv'
  BY <1>0, <1>11 DEF Reclassify
<1>12. CASE Abort \/ UNCHANGED vars
  BY <1>0, <1>12 DEF Abort
<1>13. CASE PlanFails \/ StartFails
  BY <1>0, <1>13 DEF PlanFails, StartFails, SkipFails, Fails
<1>. QED
  BY <1>1, <1>2, <1>3, <1>4, <1>5, <1>6, <1>7, <1>8, <1>9, <1>10, <1>11, <1>12, <1>13 DEF Next, Step

LEMMA CommitNext == Inv /\ [Next]_vars => CommitInv'
<1>. SUFFICES ASSUME Inv, [Next]_vars PROVE CommitInv'
  OBVIOUS
<1>0. ControlType /\ GroupInv /\ CommitInv
  BY DEF Inv
<1>t. /\ consumed \in Nat /\ started \in Nat /\ committed \in 0..started /\ N \in Nat \ {0}
      /\ call \in [Calls -> States] /\ inFlight \subseteq Calls
      /\ consumed \in 0..N /\ started \in consumed..N
  BY <1>0, ToolCallsAssumption DEF ControlType
<1>. USE DEF CommitInv, vars, scheduler, dispatches, registry
<1>1. CASE Plan
  <2>1. CASE signal
    BY <1>0, <1>t, <1>1, <2>1 DEF Plan, SkipRest
  <2>2. CASE ~signal
    <3>1. /\ started' = consumed + 1 /\ committed' = committed /\ pc' = "prepare"
          /\ call' = [call EXCEPT ![consumed + 1] = "preparing"] /\ failure' = failure
          /\ committed = consumed /\ inFlight' = inFlight /\ consumed + 1 \in Calls
      BY <1>0, <1>t, <1>1, <2>2 DEF Plan, StartCall, Calls
    <3>. QED BY <1>0, <1>t, <3>1
  <2>. QED BY <2>1, <2>2
<1>2. CASE StepEnds
  BY <1>0, <1>2 DEF StepEnds
<1>3. CASE Prepared
  <2>1. /\ UNCHANGED <<scheduler, failure>> /\ pc = "prepare" /\ pc' \in {"drain", "commit"}
        /\ \/ inFlight' = inFlight /\ call' = [call EXCEPT ![started] = "slot"]
           \/ inFlight' = inFlight /\ pc' = "drain" /\ call' = [call EXCEPT ![started] = "idle"]
           \/ /\ inFlight' = inFlight \union {started}
              /\ call' = [call EXCEPT ![started] = "checkpoint"]
    BY <1>3 DEF Prepared
  <2>2. \A i \in Calls : call'[i] = "rejected" => failure'
    BY <1>0, <1>t, <2>1
  <2>3. ASSUME NEW i \in (committed + 1)..started, pc' = "commit"
        PROVE  call'[i] \in {"preparing", "slot", "rejected"} \/ i \in inFlight'
    <3>1. i \in Calls /\ (call[i] \in {"preparing", "slot", "rejected"} \/ i \in inFlight)
      BY <1>0, <1>t, <2>1 DEF Calls
    <3>. QED BY <1>t, <2>1, <2>3, <3>1
  <2>4. pc' = "drain" => failure'
    BY <1>3 DEF Prepared
  <2>. QED BY <2>1, <2>2, <2>3, <2>4
<1>4. CASE PrepareRejects
  BY <1>0, <1>t, <1>4 DEF PrepareRejects
<1>5. CASE Commit
  BY <1>0, <1>t, <1>5 DEF Commit, Ready
<1>6. CASE CommitRejects
  BY <1>0, <1>6 DEF CommitRejects
<1>7. CASE CommitEnds
  <2>0. /\ inFlight' = inFlight /\ failure' = failure /\ Ready = {} /\ pc = "commit"
    BY <1>7 DEF CommitEnds
  <2>1. CASE pc' \in {"drain", "race"} /\ UNCHANGED <<call, committed, started>>
    <3>1. pc' = "drain" => failure
      BY <1>7 DEF CommitEnds, StartCall, SkipRest
    <3>. QED BY <1>0, <2>0, <2>1, <3>1
  <2>2. CASE StartCall(started + 1) /\ started + 1 \in Calls /\ committed' = committed
    BY <1>0, <1>t, <2>0, <2>2 DEF StartCall
  <2>3. CASE ~failure /\ inFlight = {} /\ SkipRest
    BY <1>0, <1>t, <2>0, <2>3 DEF SkipRest
  <2>4. CASE /\ ~failure /\ inFlight = {} /\ pc' = "plan" /\ consumed' = started
             /\ UNCHANGED <<call, started, committed>>
    <3>1. ASSUME committed # started PROVE FALSE
      <4>1. committed + 1 \in (committed + 1)..started /\ committed + 1 \in Calls
        BY <1>t, <3>1 DEF Calls
      <4>2. call[committed + 1] \in {"preparing", "slot", "rejected"}
        BY <1>0, <2>0, <2>4, <4>1
      <4>3. call[committed + 1] # "slot"
        BY <1>t, <2>0, <4>1 DEF Ready
      <4>. QED BY <1>0, <2>0, <2>4, <4>1, <4>2, <4>3 DEF GroupInv
    <3>. QED BY <1>0, <1>t, <2>0, <2>4, <3>1
  <2>. QED BY <1>0, <1>7, <2>1, <2>2, <2>3, <2>4, CommitEndsCases
<1>8. CASE Race
  <2>1. \A i \in inFlight \ inFlight' : call[i] \in {"slot", "rejected"}
    BY <1>0, <1>8, RacedLemma DEF Race
  <2>. QED BY <1>0, <1>8, <2>1 DEF Race
<1>9. CASE DrainEnds \/ Resume
  BY <1>0, <1>9 DEF DrainEnds, Resume
<1>10. ASSUME NEW i \in Calls, Dispatch(i) PROVE CommitInv'
  <2>1. i \in inFlight /\ pc # "plan"
    BY <1>0, <1>10 DEF Dispatch, Checkpointed, CheckpointFails, BodySettles, DispatchRejects,
                       GroupInv, Pool
  <2>2. /\ UNCHANGED <<pc, scheduler, inFlight>>
        /\ \/ failure' /\ call' = [call EXCEPT ![i] = "rejected"]
           \/ failure' = failure /\ \E v \in {"slot", "running"} : call' = [call EXCEPT ![i] = v]
    BY <1>10 DEF Dispatch, Checkpointed, CheckpointFails, BodySettles, DispatchRejects
  <2>3. \A j \in Calls : call'[j] = "rejected" => failure'
    BY <1>0, <1>t, <2>2
  <2>4. ASSUME pc \notin {"ended", "crashed", "resumed", "drain"}, NEW j \in (committed + 1)..started
        PROVE  call'[j] \in {"preparing", "slot", "rejected"} \/ j \in inFlight'
    <3>1. j \in Calls /\ (call[j] \in {"preparing", "slot", "rejected"} \/ j \in inFlight)
      BY <1>0, <1>t, <2>4 DEF Calls
    <3>. QED BY <1>t, <2>1, <2>2, <3>1
  <2>5. pc' = "drain" => failure'
    BY <1>0, <2>2
  <2>. QED BY <2>1, <2>2, <2>3, <2>4, <2>5
<1>11. ASSUME NEW i \in Calls, Reclassify(i) PROVE CommitInv'
  BY <1>0, <1>11 DEF Reclassify
<1>12. CASE Abort \/ UNCHANGED vars
  BY <1>0, <1>12 DEF Abort
<1>13. CASE Crash
  BY <1>13 DEF Crash
<1>14. CASE PlanFails \/ StartFails
  BY <1>0, <1>14 DEF PlanFails, StartFails, SkipFails, Fails
<1>. QED
  BY <1>1, <1>2, <1>3, <1>4, <1>5, <1>6, <1>7, <1>8, <1>9, <1>10, <1>11, <1>12, <1>13, <1>14
     DEF Next, Step

LEMMA Control == Spec => []Inv
<1>1. Inv /\ [Next]_vars => Inv'
  BY ControlTypeNext, GroupNext, RoomNext, CommitNext DEF Inv
<1>. QED BY <1>1, InitControl, PTL DEF Spec

-----------------------------------------------------------------------------

(* An exclusive call runs alone, also when a registry change made it         *)
(* exclusive while the pool was running, and parallel ones stay within the   *)
(* pool, whatever its size.                                                  *)
THEOREM ExclusiveCallsRunAlone == Spec => []ExclusiveAlone
<1>1. Inv => ExclusiveAlone
  <2>. SUFFICES ASSUME Inv PROVE ExclusiveAlone
    OBVIOUS
  <2>0. ControlType /\ GroupInv /\ RoomInv /\ N \in Nat
    BY ToolCallsAssumption DEF Inv
  <2>1. \A i \in Busy : i \in (consumed + 1)..started /\ InGroup
    BY <2>0 DEF Busy, GroupInv, InGroup, Pool, ControlType
  <2>2. ASSUME NEW i \in Busy, startedAs[i] = "exclusive" PROVE Busy = {i}
    <3>1. i = consumed + 1
      BY <2>0, <2>1, <2>2 DEF GroupInv, ControlType
    <3>2. started = consumed + 1
      BY <2>0, <2>1, <2>2, <3>1 DEF GroupInv
    <3>3. \A j \in (consumed + 1)..started : j = i
      BY <2>0, <3>1, <3>2 DEF ControlType
    <3>. QED BY <2>1, <3>3
  <2>. QED BY <2>0, <2>2 DEF ExclusiveAlone, RoomInv
<1>. QED BY <1>1, Control, PTL

(* Once a scheduler failure is recorded nothing more is started or           *)
(* dispatched, wherever the scheduler was when it happened.                  *)
THEOREM NothingStartsAfterFailure == Spec => FailureStopsDispatch
<1>1. Inv /\ [Next]_vars => [failure => started' = started /\ inFlight' \subseteq inFlight]_vars
  <2>. SUFFICES ASSUME Inv, Next, failure
                PROVE  started' = started /\ inFlight' \subseteq inFlight
    BY DEF vars
  <2>0. ControlType /\ GroupInv /\ CommitInv
    BY DEF Inv
  <2>. USE DEF scheduler, dispatches, registry
  <2>1. CASE Plan \/ StepEnds
    BY <2>0, <2>1 DEF Plan, StepEnds, CommitInv
  <2>2. CASE CommitEnds \/ PlanFails \/ StartFails
    BY <2>0, <2>2 DEF CommitEnds, PlanFails, StartFails
  <2>3. CASE Race
    BY <2>0, <2>3, RacedLemma DEF Race
  <2>4. CASE \E i \in Calls : Dispatch(i) \/ Reclassify(i)
    BY <2>4 DEF Dispatch, Checkpointed, CheckpointFails, BodySettles, DispatchRejects, Reclassify
  <2>5. CASE Prepared \/ PrepareRejects \/ Commit \/ CommitRejects \/ DrainEnds \/ Abort
             \/ Crash \/ Resume
    BY <2>5 DEF Prepared, PrepareRejects, Commit, CommitRejects, DrainEnds, Abort, Crash, Resume
  <2>. QED BY <2>1, <2>2, <2>3, <2>4, <2>5 DEF Next, Step
<1>. QED BY <1>1, Control, PTL DEF Spec, FailureStopsDispatch
-----------------------------------------------------------------------------
(* Logs.  A log is well formed when each result is logged as exactly the     *)
(* earlier calls are answered, after its call unless that was not started,   *)
(* and when a step that closes has every call answered, unless it lost some  *)
(* (lost).  This is a property of the log alone, which its prefixes share: a *)
(* crash may keep any.                                                       *)

Events == {Ask, End} \union [type : {"call"}, id : Calls, as : {"none"}]
            \union [type : {"result"}, id : Calls, as : Outcomes]

Called(l, n, i) == \E k \in 1..n : l[k] = CallEvent(i)

WellLogged(l, lost) ==
  /\ l \in Seq(Events)
  /\ \A m \in 1..Len(l) : l[m] = Ask => m = 1
  /\ \A n \in 0..Len(l) : \E k \in 0..N : AnsweredIn(l, n) = 1..k
  /\ \A m \in 1..Len(l) : l[m].type = "result" =>
       /\ AnsweredIn(l, m - 1) = 1..(l[m].id - 1)
       /\ l[m].as # "notStarted" => Called(l, m - 1, l[m].id)
  /\ \A m \in 1..Len(l) : l[m] = End /\ l[1] = Ask => lost \/ AnsweredIn(l, m) = Calls

LEMMA EventKinds ==
  /\ Ask \in Events /\ Ask.type = "assistant" /\ Ask.as = "none"
  /\ End \in Events /\ End.type = "end" /\ End.as = "none" /\ Ask # End
  /\ \A i \in Calls : /\ CallEvent(i) \in Events /\ CallEvent(i).type = "call"
                       /\ CallEvent(i).id = i /\ CallEvent(i).as = "none"
                       /\ CallEvent(i) # Ask /\ CallEvent(i) # End
  /\ \A i \in Calls, as \in Outcomes :
       /\ ResultEvent(i, as) \in Events /\ ResultEvent(i, as).type = "result"
       /\ ResultEvent(i, as).id = i /\ ResultEvent(i, as).as = as
       /\ ResultEvent(i, as) # Ask /\ ResultEvent(i, as) # End
  /\ \A e \in Events : e.type = "result" => e.id \in Calls /\ e.as \in Outcomes
<1>. USE DEF Ask, End, CallEvent, ResultEvent, Events
<1>1. /\ Ask \in Events /\ Ask.type = "assistant" /\ Ask.as = "none"
      /\ End \in Events /\ End.type = "end" /\ End.as = "none"
  OBVIOUS
<1>2. Ask # End
  <2>1. Ask.type # End.type
    OBVIOUS
  <2>. QED BY <2>1
<1>3. ASSUME NEW i \in Calls
      PROVE  /\ CallEvent(i) \in Events /\ CallEvent(i).type = "call"
             /\ CallEvent(i).id = i /\ CallEvent(i).as = "none"
  OBVIOUS
<1>4. ASSUME NEW i \in Calls, NEW as \in Outcomes
      PROVE  /\ ResultEvent(i, as) \in Events /\ ResultEvent(i, as).type = "result"
             /\ ResultEvent(i, as).id = i /\ ResultEvent(i, as).as = as
  OBVIOUS
<1>5. ASSUME NEW e \in Events, e.type = "result" PROVE e.id \in Calls /\ e.as \in Outcomes
  BY <1>5
<1>. HIDE DEF Ask, End, CallEvent, ResultEvent, Events
<1>6. \A i \in Calls : CallEvent(i) # Ask /\ CallEvent(i) # End
  <2>1. Ask.type = "assistant" /\ End.type = "end"
    BY <1>1
  <2>2. \A i \in Calls : CallEvent(i).type = "call"
    BY <1>3
  <2>. QED BY <2>1, <2>2
<1>7. \A i \in Calls, as \in Outcomes : ResultEvent(i, as) # Ask /\ ResultEvent(i, as) # End
  <2>1. Ask.type = "assistant" /\ End.type = "end"
    BY <1>1
  <2>2. \A i \in Calls, as \in Outcomes : ResultEvent(i, as).type = "result"
    BY <1>4
  <2>. QED BY <2>1, <2>2
<1>. QED BY <1>1, <1>2, <1>3, <1>4, <1>5, <1>6, <1>7

(* The answers of a prefix and of a concatenation. *)
LEMMA AnsweredPrefix ==
  ASSUME NEW l, NEW s, NEW n \in Nat, \A k \in 1..n : s[k] = l[k]
  PROVE  AnsweredIn(s, n) = AnsweredIn(l, n)
  BY DEF AnsweredIn

LEMMA AnsweredNone == \A l : AnsweredIn(l, 0) = {}
  BY DEF AnsweredIn

LEMMA AnsweredConcat ==
  ASSUME NEW l \in Seq(Events), NEW t \in Seq(Events), NEW n \in 0..Len(t)
  PROVE  AnsweredIn(l \o t, Len(l) + n) = Answered(l) \union AnsweredIn(t, n)
<1>. DEFINE c == l \o t
<1>1. /\ Len(l) \in Nat /\ Len(t) \in Nat
      /\ \A i \in 1..Len(l) + Len(t) : c[i] = IF i =< Len(l) THEN l[i] ELSE t[i - Len(l)]
  BY ConcatProperties, LenProperties
<1>. HIDE DEF c
<1>2. ASSUME NEW k \in 1..(Len(l) + n), c[k].type = "result"
      PROVE  c[k].id \in Answered(l) \union AnsweredIn(t, n)
  <2>1. CASE k =< Len(l)
    BY <1>1, <1>2, <2>1 DEF Answered, AnsweredIn
  <2>2. CASE ~(k =< Len(l))
    <3>1. k - Len(l) \in 1..n /\ c[k] = t[k - Len(l)]
      BY <1>1, <2>2
    <3>. QED BY <1>2, <3>1 DEF AnsweredIn
  <2>. QED BY <2>1, <2>2
<1>3. ASSUME NEW k \in 1..Len(l), l[k].type = "result" PROVE l[k].id \in AnsweredIn(c, Len(l) + n)
  <2>1. k \in 1..(Len(l) + n) /\ c[k] = l[k]
    BY <1>1
  <2>. QED BY <1>3, <2>1 DEF AnsweredIn
<1>4. ASSUME NEW k \in 1..n, t[k].type = "result" PROVE t[k].id \in AnsweredIn(c, Len(l) + n)
  <2>1. Len(l) + k \in 1..(Len(l) + n) /\ c[Len(l) + k] = t[k]
    BY <1>1
  <2>. QED BY <1>4, <2>1 DEF AnsweredIn
<1>5. AnsweredIn(c, Len(l) + n) \subseteq Answered(l) \union AnsweredIn(t, n)
  BY <1>2 DEF AnsweredIn
<1>6. Answered(l) \union AnsweredIn(t, n) \subseteq AnsweredIn(c, Len(l) + n)
  BY <1>3, <1>4 DEF AnsweredIn, Answered
<1>. QED BY <1>5, <1>6 DEF c

LEMMA PrefixWellLogged ==
  ASSUME NEW l, NEW u \in BOOLEAN, WellLogged(l, u), NEW n \in 0..Len(l), NEW v \in BOOLEAN,
         u => v \/ \A m \in 1..n : l[m] # End
  PROVE  WellLogged(SubSeq(l, 1, n), v)
<1>. DEFINE s == SubSeq(l, 1, n)
<1>1. l \in Seq(Events) /\ Len(l) \in Nat
  BY DEF WellLogged
<1>2. \A i \in 1..n : l[i] \in Events
  BY <1>1
<1>3. s \in Seq(Events) /\ Len(s) = n /\ \A i \in 1..n : s[i] = l[i]
  BY <1>1, <1>2, SubSeqProperties
<1>. HIDE DEF s
<1>4. \A m \in 0..n : AnsweredIn(s, m) = AnsweredIn(l, m)
  <2>. TAKE m \in 0..n
  <2>1. m \in Nat /\ \A k \in 1..m : s[k] = l[k]
    BY <1>3
  <2>. QED BY <2>1, AnsweredPrefix
<1>5. ASSUME NEW m \in 1..n, s[m].type = "result"
      PROVE  /\ AnsweredIn(s, m - 1) = 1..(s[m].id - 1)
             /\ s[m].as # "notStarted" => Called(s, m - 1, s[m].id)
  <2>1. m \in 1..Len(l) /\ s[m] = l[m] /\ m - 1 \in 0..n
    BY <1>1, <1>3
  <2>2. \A i : Called(l, m - 1, i) => Called(s, m - 1, i)
    BY <1>3, <2>1 DEF Called
  <2>. QED BY <1>4, <1>5, <2>1, <2>2 DEF WellLogged
<1>6. \A m \in 1..n : m \in 1..Len(l) /\ m \in 0..n /\ 1 \in 1..n
  BY <1>1
<1>7. \A m \in 0..n : m \in 0..Len(l)
  BY <1>1
<1>8. ASSUME NEW m \in 1..n, s[m] = End, s[1] = Ask PROVE v \/ AnsweredIn(s, m) = Calls
  <2>1. l[m] = End /\ l[1] = Ask /\ m \in 1..Len(l) /\ AnsweredIn(s, m) = AnsweredIn(l, m)
    BY <1>3, <1>4, <1>6, <1>8
  <2>. QED BY <2>1 DEF WellLogged
<1>9. \A m \in 1..n : s[m] = Ask => m = 1
  BY <1>3, <1>6 DEF WellLogged
<1>10. \A m \in 0..n : \E k \in 0..N : AnsweredIn(s, m) = 1..k
  BY <1>4, <1>7 DEF WellLogged
<1>11. WellLogged(s, v)
  BY <1>3, <1>5, <1>8, <1>9, <1>10 DEF WellLogged
<1>. QED BY <1>11 DEF s

LEMMA ConcatWellLogged ==
  ASSUME NEW l, NEW u \in BOOLEAN, WellLogged(l, u), NEW t \in Seq(Events),
         \A m \in 1..Len(t) : t[m] # Ask,
         \A n \in 1..Len(t) : \E k \in 0..N : Answered(l) \union AnsweredIn(t, n) = 1..k,
         \A m \in 1..Len(t) : t[m].type = "result" =>
           /\ Answered(l) \union AnsweredIn(t, m - 1) = 1..(t[m].id - 1)
           /\ t[m].as # "notStarted" => Called(l, Len(l), t[m].id) \/ Called(t, m - 1, t[m].id),
         \A m \in 1..Len(t) : t[m] = End /\ Ask \in ToSet(l) =>
           u \/ Answered(l) \union AnsweredIn(t, m) = Calls
  PROVE  /\ WellLogged(l \o t, u) /\ Len(l \o t) = Len(l) + Len(t)
         /\ Answered(l \o t) = Answered(l) \union Answered(t)
         /\ \A i \in 1..Len(l) : (l \o t)[i] = l[i]
         /\ \A i \in 1..Len(t) : (l \o t)[Len(l) + i] = t[i]
<1>. DEFINE c == l \o t
<1>1. l \in Seq(Events) /\ Len(l) \in Nat /\ Len(t) \in Nat
  BY DEF WellLogged
<1>2. /\ c \in Seq(Events) /\ Len(c) = Len(l) + Len(t)
      /\ \A i \in 1..Len(l) + Len(t) : c[i] = IF i =< Len(l) THEN l[i] ELSE t[i - Len(l)]
  BY <1>1, ConcatProperties
<1>3. \A n \in 0..Len(t) : AnsweredIn(c, Len(l) + n) = Answered(l) \union AnsweredIn(t, n)
  BY <1>1, AnsweredConcat
<1>. HIDE DEF c
<1>4. \A i \in 1..Len(l) : c[i] = l[i]
  <2>. TAKE i \in 1..Len(l)
  <2>1. i \in 1..Len(l) + Len(t) /\ i =< Len(l)
    BY <1>1
  <2>. QED BY <1>2, <2>1
<1>5. \A i \in 1..Len(t) : c[Len(l) + i] = t[i]
  <2>. TAKE i \in 1..Len(t)
  <2>1. Len(l) + i \in 1..Len(l) + Len(t) /\ ~(Len(l) + i =< Len(l)) /\ (Len(l) + i) - Len(l) = i
    BY <1>1
  <2>. QED BY <1>2, <2>1
<1>6. \A n \in 0..Len(l) : AnsweredIn(c, n) = AnsweredIn(l, n)
  <2>. TAKE n \in 0..Len(l)
  <2>1. n \in Nat /\ \A k \in 1..n : c[k] = l[k]
    BY <1>1, <1>4
  <2>. QED BY <2>1, AnsweredPrefix
<1>7. Answered(c) = Answered(l) \union Answered(t)
  BY <1>1, <1>2, <1>3 DEF Answered
<1>8. \A m \in 1..Len(c) : m \in 1..Len(l) \/ \E j \in 1..Len(t) : m = Len(l) + j
  <2>. TAKE m \in 1..Len(c)
  <2>1. m \in 1..Len(l) \/ (m - Len(l) \in 1..Len(t) /\ m = Len(l) + (m - Len(l)))
    BY <1>1, <1>2
  <2>. QED BY <2>1
<1>9. ASSUME NEW m \in 1..Len(c), c[m] = Ask PROVE m = 1
  BY <1>4, <1>5, <1>8, <1>9 DEF WellLogged
<1>10. ASSUME NEW n \in 0..Len(c) PROVE \E k \in 0..N : AnsweredIn(c, n) = 1..k
  <2>1. CASE n \in 0..Len(l)
    BY <1>6, <2>1 DEF WellLogged
  <2>2. CASE n \notin 0..Len(l)
    <3>1. n - Len(l) \in 1..Len(t) /\ n - Len(l) \in 0..Len(t) /\ n = Len(l) + (n - Len(l))
      BY <1>1, <1>2, <2>2
    <3>. QED BY <1>3, <3>1
  <2>. QED BY <2>1, <2>2
<1>11. ASSUME NEW m \in 1..Len(c), c[m].type = "result"
       PROVE  /\ AnsweredIn(c, m - 1) = 1..(c[m].id - 1)
              /\ c[m].as # "notStarted" => Called(c, m - 1, c[m].id)
  <2>1. CASE m \in 1..Len(l)
    <3>1. m - 1 \in 0..Len(l) /\ c[m] = l[m]
      BY <1>1, <1>4, <2>1
    <3>2. \A i : Called(l, m - 1, i) => Called(c, m - 1, i)
      BY <1>1, <1>4, <2>1 DEF Called
    <3>. QED BY <1>6, <1>11, <2>1, <3>1, <3>2 DEF WellLogged
  <2>2. ASSUME NEW j \in 1..Len(t), m = Len(l) + j
        PROVE  /\ AnsweredIn(c, m - 1) = 1..(c[m].id - 1)
               /\ c[m].as # "notStarted" => Called(c, m - 1, c[m].id)
    <3>1. j - 1 \in 0..Len(t) /\ c[m] = t[j] /\ m - 1 = Len(l) + (j - 1)
      BY <1>1, <1>5, <2>2
    <3>2. \A i : Called(l, Len(l), i) => Called(c, m - 1, i)
      <4>. SUFFICES ASSUME NEW i, NEW k \in 1..Len(l), l[k] = CallEvent(i)
                    PROVE  Called(c, m - 1, i)
        BY DEF Called
      <4>1. k \in 1..(m - 1) /\ c[k] = CallEvent(i)
        BY <1>1, <1>4, <3>1
      <4>. QED BY <4>1 DEF Called
    <3>3. \A i : Called(t, j - 1, i) => Called(c, m - 1, i)
      <4>. SUFFICES ASSUME NEW i, NEW k \in 1..(j - 1), t[k] = CallEvent(i)
                    PROVE  Called(c, m - 1, i)
        BY DEF Called
      <4>0. k \in 1..Len(t) /\ k =< j - 1
        BY <1>1
      <4>1. Len(l) + k \in 1..(m - 1) /\ c[Len(l) + k] = CallEvent(i)
        BY <1>1, <1>5, <3>1, <4>0
      <4>. QED BY <4>1 DEF Called
    <3>. QED BY <1>3, <1>11, <3>1, <3>2, <3>3
  <2>. QED BY <1>8, <2>1, <2>2
<1>12. ASSUME NEW m \in 1..Len(c), c[m] = End, c[1] = Ask PROVE u \/ AnsweredIn(c, m) = Calls
  <2>1. 1 \in 1..Len(l) /\ l[1] = Ask
    <3>1. 1 \in 1..Len(c)
      BY <1>1, <1>2
    <3>2. ASSUME NEW j \in 1..Len(t), 1 = Len(l) + j PROVE FALSE
      BY <1>5, <1>12, <3>2
    <3>. QED BY <1>4, <1>8, <1>12, <3>1, <3>2
  <2>2. CASE m \in 1..Len(l)
    BY <1>4, <1>6, <1>12, <2>1, <2>2 DEF WellLogged
  <2>3. ASSUME NEW j \in 1..Len(t), m = Len(l) + j PROVE u \/ AnsweredIn(c, m) = Calls
    <3>1. Ask \in ToSet(l)
      BY <1>1, <2>1 DEF ToSet
    <3>2. j \in 0..Len(t) /\ t[j] = End
      BY <1>1, <1>5, <1>12, <2>3
    <3>. QED BY <1>3, <2>3, <3>1, <3>2
  <2>. QED BY <1>8, <2>2, <2>3
<1>13. WellLogged(c, u)
  BY <1>2, <1>9, <1>10, <1>11, <1>12 DEF WellLogged
<1>. QED BY <1>2, <1>4, <1>5, <1>7, <1>13 DEF c
(* One event more. *)
LEMMA AppendWellLogged ==
  ASSUME NEW l, NEW u \in BOOLEAN, WellLogged(l, u), NEW e \in Events, e # Ask,
         e.type = "result" => /\ Answered(l) = 1..(e.id - 1)
                              /\ e.as # "notStarted" => Called(l, Len(l), e.id),
         e = End /\ Ask \in ToSet(l) => u \/ Answered(l) = Calls
  PROVE  /\ WellLogged(Append(l, e), u) /\ Len(Append(l, e)) = Len(l) + 1
         /\ \A i \in 1..Len(l) : Append(l, e)[i] = l[i]
         /\ Append(l, e)[Len(l) + 1] = e
         /\ Answered(Append(l, e)) = IF e.type = "result" THEN 1..e.id ELSE Answered(l)
<1>. DEFINE t == <<e>>
<1>1. l \in Seq(Events) /\ Len(l) \in Nat /\ Append(l, e) = l \o t
  BY AppendIsConcat DEF WellLogged
<1>2. t \in Seq(Events) /\ Len(t) = 1 /\ t[1] = e
  OBVIOUS
<1>. HIDE DEF t
<1>3. AnsweredIn(t, 1) = IF e.type = "result" THEN {e.id} ELSE {}
  BY <1>2 DEF AnsweredIn
<1>4. \A n \in 1..Len(t) : n = 1
  BY <1>2
<1>5. AnsweredIn(t, 0) = {}
  BY AnsweredNone
<1>6. PICK k \in 0..N : Answered(l) = 1..k
  BY <1>1 DEF WellLogged, Answered
<1>7. e.type = "result" => e.id \in 1..N
  BY EventKinds DEF Calls
<1>8. e.type = "result" => Answered(l) \union {e.id} = 1..e.id /\ e.id \in 0..N
  BY <1>7, ToolCallsAssumption
<1>9. \E j \in 0..N : Answered(l) \union AnsweredIn(t, 1) = 1..j
  BY <1>3, <1>6, <1>8
<1>10. /\ \A m \in 1..Len(t) : t[m] # Ask
       /\ \A n \in 1..Len(t) : \E j \in 0..N : Answered(l) \union AnsweredIn(t, n) = 1..j
       /\ \A m \in 1..Len(t) : t[m].type = "result" =>
            /\ Answered(l) \union AnsweredIn(t, m - 1) = 1..(t[m].id - 1)
            /\ t[m].as # "notStarted" => Called(l, Len(l), t[m].id) \/ Called(t, m - 1, t[m].id)
       /\ \A m \in 1..Len(t) : t[m] = End /\ Ask \in ToSet(l) =>
            u \/ Answered(l) \union AnsweredIn(t, m) = Calls
  <2>1. \A m \in 1..Len(t) : m = 1 /\ m - 1 = 0 /\ t[m] = e
    BY <1>2, <1>4
  <2>2. e = End => e.type # "result"
    BY EventKinds
  <2>. QED BY <1>3, <1>5, <1>9, <2>1, <2>2
<1>11. /\ WellLogged(l \o t, u) /\ Len(l \o t) = Len(l) + Len(t)
       /\ Answered(l \o t) = Answered(l) \union Answered(t)
       /\ \A i \in 1..Len(l) : (l \o t)[i] = l[i]
       /\ \A i \in 1..Len(t) : (l \o t)[Len(l) + i] = t[i]
  BY <1>2, <1>10, ConcatWellLogged
<1>12. Answered(t) = IF e.type = "result" THEN {e.id} ELSE {}
  BY <1>2, <1>3 DEF Answered
<1>13. Answered(l \o t) = IF e.type = "result" THEN 1..e.id ELSE Answered(l)
  BY <1>8, <1>11, <1>12 DEF Answered
<1>14. 1 \in 1..Len(t)
  BY <1>2
<1>15. (l \o t)[Len(l) + 1] = e
  BY <1>2, <1>11, <1>14
<1>. QED BY <1>1, <1>2, <1>11, <1>13, <1>15

(* The answers to the calls an aborted batch did not start. *)
LEMMA SkippedLemma ==
  ASSUME NEW k \in 0..N
  PROVE  /\ Skipped(k + 1) \in Seq(Events) /\ Len(Skipped(k + 1)) = 2 * (N - k)
         /\ \A n \in 0..2 * (N - k) : AnsweredIn(Skipped(k + 1), n) = (k + 1)..(k + n \div 2)
         /\ \A i \in (k + 1)..N :
              /\ 2 * (i - k) - 1 \in 1..2 * (N - k) /\ 2 * (i - k) \in 1..2 * (N - k)
              /\ Skipped(k + 1)[2 * (i - k) - 1] = CallEvent(i)
              /\ Skipped(k + 1)[2 * (i - k)] = ResultEvent(i, "skipped")
         /\ \A m \in 1..2 * (N - k) : \E i \in (k + 1)..N :
              m = 2 * (i - k) - 1 \/ m = 2 * (i - k)
<1>. DEFINE t == Skipped(k + 1)
<1>1. N \in Nat /\ k \in Nat /\ k =< N /\ 2 * (N - k) \in Nat
  BY ToolCallsAssumption
<1>2. t = [j \in 1..2 * (N - k) |->
            IF j % 2 = 1 THEN CallEvent(k + 1 + (j - 1) \div 2)
            ELSE ResultEvent(k + 1 + (j - 1) \div 2, "skipped")]
  <2>1. N + 1 - (k + 1) = N - k
    BY <1>1
  <2>. QED BY <2>1 DEF Skipped
<1>. HIDE DEF t
<1>3. ASSUME NEW j \in 1..2 * (N - k)
      PROVE  \E i \in (k + 1)..N :
               \/ j = 2 * (i - k) - 1 /\ t[j] = CallEvent(i)
               \/ j = 2 * (i - k) /\ t[j] = ResultEvent(i, "skipped")
  <2>. DEFINE i == k + 1 + (j - 1) \div 2
  <2>1. /\ i \in (k + 1)..N
        /\ j % 2 = 1 => j = 2 * (i - k) - 1
        /\ j % 2 # 1 => j = 2 * (i - k)
    BY <1>1
  <2>2. t[j] = IF j % 2 = 1 THEN CallEvent(i) ELSE ResultEvent(i, "skipped")
    BY <1>2
  <2>. QED BY <2>1, <2>2
<1>4. ASSUME NEW i \in (k + 1)..N
      PROVE  /\ 2 * (i - k) - 1 \in 1..2 * (N - k) /\ 2 * (i - k) \in 1..2 * (N - k)
             /\ t[2 * (i - k) - 1] = CallEvent(i)
             /\ t[2 * (i - k)] = ResultEvent(i, "skipped")
  <2>1. 2 * (i - k) - 1 \in 1..2 * (N - k) /\ 2 * (i - k) \in 1..2 * (N - k)
    BY <1>1
  <2>2. PICK a \in (k + 1)..N :
          \/ 2 * (i - k) - 1 = 2 * (a - k) - 1 /\ t[2 * (i - k) - 1] = CallEvent(a)
          \/ 2 * (i - k) - 1 = 2 * (a - k) /\ t[2 * (i - k) - 1] = ResultEvent(a, "skipped")
    BY <1>3, <2>1
  <2>3. PICK b \in (k + 1)..N :
          \/ 2 * (i - k) = 2 * (b - k) - 1 /\ t[2 * (i - k)] = CallEvent(b)
          \/ 2 * (i - k) = 2 * (b - k) /\ t[2 * (i - k)] = ResultEvent(b, "skipped")
    BY <1>3, <2>1
  <2>4. a = i /\ 2 * (i - k) - 1 # 2 * (a - k)
    BY <1>1, <2>2
  <2>5. b = i /\ 2 * (i - k) # 2 * (b - k) - 1
    BY <1>1, <2>3
  <2>. QED BY <2>1, <2>2, <2>3, <2>4, <2>5
<1>5. (k + 1)..N \subseteq Calls
  BY <1>1 DEF Calls
<1>6. t \in Seq(Events) /\ Len(t) = 2 * (N - k)
  <2>1. \A j \in 1..2 * (N - k) : t[j] \in Events
    BY <1>3, <1>5, EventKinds DEF Outcomes
  <2>2. t \in [1..2 * (N - k) -> Events]
    BY <1>2, <2>1
  <2>. QED BY <1>1, <2>2
<1>7. ASSUME NEW n \in 0..2 * (N - k)
      PROVE  AnsweredIn(t, n) = (k + 1)..(k + n \div 2)
  <2>1. ASSUME NEW j \in 1..n, t[j].type = "result" PROVE t[j].id \in (k + 1)..(k + n \div 2)
    <3>1. j \in 1..2 * (N - k)
      BY <1>1
    <3>2. PICK i \in (k + 1)..N :
            \/ j = 2 * (i - k) - 1 /\ t[j] = CallEvent(i)
            \/ j = 2 * (i - k) /\ t[j] = ResultEvent(i, "skipped")
      BY <1>3, <3>1
    <3>3. j = 2 * (i - k) /\ t[j].id = i
      BY <1>5, <2>1, <3>2, EventKinds DEF Outcomes
    <3>4. i - k =< n \div 2
      BY <1>1, <3>3
    <3>. QED BY <1>1, <3>3, <3>4
  <2>2. ASSUME NEW i \in (k + 1)..(k + n \div 2)
        PROVE  \E j \in 1..n : t[j].type = "result" /\ t[j].id = i
    <3>1. i \in (k + 1)..N /\ 2 * (i - k) \in 1..n
      BY <1>1
    <3>2. t[2 * (i - k)] = ResultEvent(i, "skipped")
      BY <1>4, <3>1
    <3>. QED BY <1>5, <3>1, <3>2, EventKinds DEF Outcomes
  <2>. QED BY <2>1, <2>2 DEF AnsweredIn
<1>8. \A m \in 1..2 * (N - k) : \E i \in (k + 1)..N : m = 2 * (i - k) - 1 \/ m = 2 * (i - k)
  BY <1>3
<1>. QED BY <1>4, <1>6, <1>7, <1>8 DEF t

LEMMA SkippedWellLogged ==
  ASSUME NEW l, NEW u \in BOOLEAN, WellLogged(l, u), NEW k \in 0..N, Answered(l) = 1..k
  PROVE  /\ WellLogged(l \o Skipped(k + 1), u) /\ Answered(l \o Skipped(k + 1)) = Calls
         /\ Len(l \o Skipped(k + 1)) >= Len(l)
         /\ \A i \in 1..Len(l) : (l \o Skipped(k + 1))[i] = l[i]
         /\ \A i \in (k + 1)..N : Called(l \o Skipped(k + 1), Len(l \o Skipped(k + 1)), i)
         /\ \A m \in 1..Len(l \o Skipped(k + 1)) : m \in 1..Len(l) \/
              \E i \in (k + 1)..N : (l \o Skipped(k + 1))[m] \in {CallEvent(i), ResultEvent(i, "skipped")}
<1>. DEFINE t == Skipped(k + 1)
<1>. DEFINE c == l \o t
<1>1. N \in Nat /\ k \in Nat /\ k =< N /\ Len(l) \in Nat
  BY ToolCallsAssumption DEF WellLogged
<1>2. /\ t \in Seq(Events) /\ Len(t) = 2 * (N - k)
      /\ \A n \in 0..2 * (N - k) : AnsweredIn(t, n) = (k + 1)..(k + n \div 2)
      /\ \A i \in (k + 1)..N :
              /\ 2 * (i - k) - 1 \in 1..2 * (N - k) /\ 2 * (i - k) \in 1..2 * (N - k)
              /\ t[2 * (i - k) - 1] = CallEvent(i)
              /\ t[2 * (i - k)] = ResultEvent(i, "skipped")
      /\ \A m \in 1..2 * (N - k) : \E i \in (k + 1)..N : m = 2 * (i - k) - 1 \/ m = 2 * (i - k)
  BY SkippedLemma
<1>. HIDE DEF t
<1>3. (k + 1)..N \subseteq Calls /\ "skipped" \in Outcomes
  BY <1>1 DEF Calls, Outcomes
<1>4. \A m \in 1..Len(t) : \E i \in (k + 1)..N : t[m] \in {CallEvent(i), ResultEvent(i, "skipped")}
  BY <1>2
<1>5. \A m \in 1..Len(t) : t[m] # Ask /\ t[m] # End
  BY <1>3, <1>4, EventKinds
<1>6. ASSUME NEW n \in 0..Len(t)
      PROVE  Answered(l) \union AnsweredIn(t, n) = 1..(k + n \div 2) /\ k + n \div 2 \in 0..N
  <2>1. n \div 2 \in 0..(N - k)
    BY <1>1, <1>2
  <2>2. 1..k \union (k + 1)..(k + n \div 2) = 1..(k + n \div 2)
    BY <1>1, <2>1
  <2>3. AnsweredIn(t, n) = (k + 1)..(k + n \div 2)
    BY <1>2
  <2>4. k + n \div 2 \in 0..N
    BY <1>1, <2>1
  <2>. QED BY <2>2, <2>3, <2>4
<1>7. ASSUME NEW m \in 1..Len(t), t[m].type = "result"
      PROVE  /\ Answered(l) \union AnsweredIn(t, m - 1) = 1..(t[m].id - 1)
             /\ Called(t, m - 1, t[m].id)
  <2>1. PICK i \in (k + 1)..N : m = 2 * (i - k) - 1 \/ m = 2 * (i - k)
    BY <1>2
  <2>a. i \in Calls /\ t[2 * (i - k) - 1] = CallEvent(i) /\ t[2 * (i - k)] = ResultEvent(i, "skipped")
    BY <1>2, <1>3
  <2>b. CallEvent(i).type = "call" /\ ResultEvent(i, "skipped").id = i
    BY <1>3, <2>a, EventKinds
  <2>2. m = 2 * (i - k) /\ t[m].id = i
    BY <1>7, <2>1, <2>a, <2>b
  <2>c. i - k \in Nat \ {0} /\ \A d \in Nat \ {0} : (2 * d - 1) \div 2 = d - 1
    BY <1>1
  <2>3. m - 1 \in 0..Len(t) /\ (m - 1) \div 2 = i - k - 1 /\ m - 1 \in 1..(m - 1)
    <3>. DEFINE d == i - k
    <3>1. m = 2 * d /\ d \in Nat \ {0} /\ (2 * d - 1) \div 2 = d - 1
      BY <2>2, <2>c
    <3>. HIDE DEF d
    <3>2. (m - 1) \div 2 = d - 1
      BY <3>1
    <3>3. m - 1 \in 0..Len(t) /\ m - 1 \in 1..(m - 1)
      BY <1>1, <1>2, <3>1
    <3>. QED BY <3>2, <3>3 DEF d
  <2>4. Answered(l) \union AnsweredIn(t, m - 1) = 1..(k + (i - k - 1))
    BY <1>6, <2>3
  <2>5. t[m - 1] = CallEvent(i)
    BY <1>2, <2>2
  <2>6. k + (i - k - 1) = i - 1
    BY <1>1
  <2>. QED BY <2>2, <2>3, <2>4, <2>5, <2>6 DEF Called
<1>8. \A n \in 1..Len(t) : \E j \in 0..N : Answered(l) \union AnsweredIn(t, n) = 1..j
  <2>. TAKE n \in 1..Len(t)
  <2>1. n \in 0..Len(t)
    BY <1>1, <1>2
  <2>. QED BY <1>6, <2>1
<1>9. /\ WellLogged(c, u) /\ Len(c) = Len(l) + Len(t)
      /\ Answered(c) = Answered(l) \union Answered(t)
      /\ \A i \in 1..Len(l) : c[i] = l[i]
      /\ \A i \in 1..Len(t) : c[Len(l) + i] = t[i]
  <2>1. \A m \in 1..Len(t) : t[m] # Ask
    BY <1>5
  <2>2. \A m \in 1..Len(t) : t[m] = End /\ Ask \in ToSet(l) =>
          u \/ Answered(l) \union AnsweredIn(t, m) = Calls
    BY <1>5
  <2>3. \A m \in 1..Len(t) : t[m].type = "result" =>
          /\ Answered(l) \union AnsweredIn(t, m - 1) = 1..(t[m].id - 1)
          /\ t[m].as # "notStarted" => Called(l, Len(l), t[m].id) \/ Called(t, m - 1, t[m].id)
    BY <1>7
  <2>. QED BY <1>2, <1>8, <2>1, <2>2, <2>3, ConcatWellLogged
<1>. HIDE DEF c
<1>10. Answered(c) = Calls
  <2>1. Len(t) \in 0..Len(t) /\ k + Len(t) \div 2 = N
    BY <1>1, <1>2
  <2>. QED BY <1>6, <1>9, <2>1 DEF Answered, Calls
<1>11. ASSUME NEW i \in (k + 1)..N PROVE Called(c, Len(c), i)
  <2>. DEFINE j == 2 * (i - k) - 1
  <2>1. j \in 1..Len(t) /\ t[j] = CallEvent(i)
    BY <1>2
  <2>. HIDE DEF j
  <2>a. Len(t) \in Nat
    BY <1>1, <1>2
  <2>2. c[Len(l) + j] = CallEvent(i) /\ Len(l) + j \in 1..Len(c)
    BY <1>1, <1>9, <2>1, <2>a
  <2>. QED BY <2>2 DEF Called
<1>12. ASSUME NEW m \in 1..Len(c), m \notin 1..Len(l)
       PROVE  \E i \in (k + 1)..N : c[m] \in {CallEvent(i), ResultEvent(i, "skipped")}
  <2>1. m - Len(l) \in 1..Len(t) /\ m = Len(l) + (m - Len(l))
    BY <1>1, <1>2, <1>9, <1>12
  <2>2. c[m] = t[m - Len(l)]
    BY <1>9, <2>1
  <2>. QED BY <1>4, <2>1, <2>2
<1>13. Len(c) >= Len(l)
  BY <1>1, <1>2, <1>9
<1>. QED BY <1>9, <1>10, <1>11, <1>12, <1>13 DEF c, t
(* The unanswered requests of an open step, in order. *)
LEMMA PendingLemma ==
  ASSUME NEW l, Ask \in ToSet(l), End \notin ToSet(l), NEW k \in 0..N, Answered(l) = 1..k
  PROVE  PendingCalls(l) = [j \in 1..(N - k) |-> k + j]
<1>. DEFINE P == (k + 1)..N
<1>. DEFINE Rank(i) == Cardinality({x \in P : x =< i})
<1>1. N \in Nat /\ k \in Nat /\ k =< N
  BY ToolCallsAssumption
<1>2. Calls \ Answered(l) = P
  BY <1>1 DEF Calls
<1>3. Cardinality(P) = N - k
  <2>1. k + 1 \in Int /\ N \in Int
    BY <1>1
  <2>2. Cardinality(P) = IF k + 1 > N THEN 0 ELSE N - (k + 1) + 1
    BY <2>1, FS_Interval
  <2>. QED BY <1>1, <2>2
<1>4. ASSUME NEW i \in P PROVE Rank(i) = i - k
  <2>1. {x \in P : x =< i} = (k + 1)..i
    BY <1>1
  <2>2. Cardinality((k + 1)..i) = i - k
    BY <1>1, FS_Interval
  <2>. QED BY <2>1, <2>2
<1>. HIDE DEF Rank
<1>5. ASSUME NEW j \in 1..(N - k) PROVE (CHOOSE i \in P : Rank(i) = j) = k + j
  <2>1. k + j \in P /\ Rank(k + j) = j
    BY <1>1, <1>4
  <2>2. \A i \in P : Rank(i) = j => i = k + j
    BY <1>1, <1>4
  <2>. HIDE DEF P
  <2>. QED BY <2>1, <2>2
<1>6. PendingCalls(l) = [j \in 1..Cardinality(P) |-> CHOOSE i \in P : Rank(i) = j]
  <2>. DEFINE Q == IF Ask \in ToSet(l) /\ End \notin ToSet(l) THEN Calls \ Answered(l) ELSE {}
  <2>1. Q = P
    BY <1>2
  <2>2. PendingCalls(l) =
          [j \in 1..Cardinality(Q) |-> CHOOSE i \in Q : Cardinality({x \in Q : x =< i}) = j]
    BY DEF PendingCalls
  <2>. HIDE DEF P, Q
  <2>. QED BY <2>1, <2>2 DEF Rank
<1>. QED BY <1>3, <1>5, <1>6

(* The results answer every request that has no answer yet; what they report *)
(* as not started has no call in the log.                                    *)
LEMMA ResultsLemma ==
  ASSUME NEW l, NEW u \in BOOLEAN, WellLogged(l, u), Ask \in ToSet(l), End \notin ToSet(l)
  PROVE  /\ results(l) \in Seq(Events)
         /\ WellLogged(l \o results(l), u) /\ Len(l \o results(l)) >= Len(l)
         /\ Answered(l \o results(l)) = Calls
         /\ \A i \in 1..Len(l) : (l \o results(l))[i] = l[i]
         /\ \A m \in 1..Len(l \o results(l)) : m \in 1..Len(l) \/
              LET e == (l \o results(l))[m]
              IN  /\ e # End /\ e.as # "skipped"
                  /\ e.as = "notStarted" => ~Called(l, Len(l), e.id)
<1>a. N \in Nat /\ l \in Seq(Events) /\ Len(l) \in Nat
  BY ToolCallsAssumption DEF WellLogged
<1>b. PICK k \in 0..N : Answered(l) = 1..k
  BY <1>a DEF WellLogged, Answered
<1>d. \A i : CallEvent(i) \in ToSet(l) <=> Called(l, Len(l), i)
  BY <1>a DEF ToSet, Called
<1>. DEFINE t == results(l)
<1>. DEFINE as(j) == IF CallEvent(k + j) \in ToSet(l) THEN "unknown" ELSE "notStarted"
<1>1. t = [j \in 1..(N - k) |-> ResultEvent(k + j, as(j))]
  <2>. DEFINE p == PendingCalls(l)
  <2>1. p = [j \in 1..(N - k) |-> k + j]
    BY <1>b, PendingLemma
  <2>2. t = [j \in DOMAIN p |->
              ResultEvent(p[j], IF CallEvent(p[j]) \in ToSet(l) THEN "unknown" ELSE "notStarted")]
    BY DEF results
  <2>. HIDE DEF p, t
  <2>. QED BY <2>1, <2>2
<1>2. \A j \in 1..(N - k) : k + j \in Calls /\ as(j) \in Outcomes /\ as(j) # "skipped"
  BY <1>a DEF Calls, Outcomes
<1>3. \A j \in 1..(N - k) : as(j) = "unknown" <=> Called(l, Len(l), k + j)
  BY <1>d
<1>. HIDE DEF t, as
<1>4. \A j \in 1..(N - k) :
        /\ t[j] \in Events /\ t[j].type = "result" /\ t[j].id = k + j /\ t[j].as = as(j)
        /\ t[j] # Ask /\ t[j] # End
  <2>. TAKE j \in 1..(N - k)
  <2>1. t[j] = ResultEvent(k + j, as(j)) /\ k + j \in Calls /\ as(j) \in Outcomes
    BY <1>1, <1>2
  <2>2. ASSUME NEW a \in Calls, NEW b \in Outcomes
        PROVE  LET e == ResultEvent(a, b)
               IN  /\ e \in Events /\ e.type = "result" /\ e.id = a /\ e.as = b
                   /\ e # Ask /\ e # End
    BY EventKinds
  <2>3. LET e == ResultEvent(k + j, as(j))
        IN  /\ e \in Events /\ e.type = "result" /\ e.id = k + j /\ e.as = as(j)
            /\ e # Ask /\ e # End
    BY <2>1, <2>2
  <2>. QED BY <2>1, <2>3
<1>5. t \in Seq(Events) /\ Len(t) = N - k
  <2>1. t \in [1..(N - k) -> Events]
    BY <1>1, <1>4
  <2>2. N - k \in Nat
    BY <1>a
  <2>. QED BY <2>1, <2>2
<1>6. ASSUME NEW n \in 0..(N - k)
      PROVE  Answered(l) \union AnsweredIn(t, n) = 1..(k + n) /\ k + n \in 0..N
  <2>1. \A m \in 1..n : m \in 1..(N - k)
    BY <1>a
  <2>2. {m \in 1..n : t[m].type = "result"} = 1..n
    BY <1>4, <2>1
  <2>3. AnsweredIn(t, n) = {k + m : m \in 1..n}
    BY <1>4, <2>1, <2>2 DEF AnsweredIn
  <2>4. {k + m : m \in 1..n} = (k + 1)..(k + n)
    <3>1. \A x \in (k + 1)..(k + n) : x - k \in 1..n /\ x = k + (x - k)
      BY <1>a
    <3>2. \A m \in 1..n : k + m \in (k + 1)..(k + n)
      BY <1>a
    <3>. QED BY <3>1, <3>2
  <2>5. 1..k \union (k + 1)..(k + n) = 1..(k + n) /\ k + n \in 0..N
    BY <1>a
  <2>. QED BY <1>b, <2>3, <2>4, <2>5
<1>7. ASSUME NEW m \in 1..Len(t)
      PROVE  /\ Answered(l) \union AnsweredIn(t, m - 1) = 1..(t[m].id - 1)
             /\ t[m].as # "notStarted" => Called(l, Len(l), t[m].id)
  <2>1. m \in 1..(N - k) /\ m - 1 \in 0..(N - k) /\ k + (m - 1) = k + m - 1
    BY <1>a, <1>5
  <2>2. as(m) # "notStarted" => as(m) = "unknown"
    BY DEF as
  <2>3. t[m].id = k + m /\ t[m].as = as(m)
    BY <1>4, <2>1
  <2>4. Answered(l) \union AnsweredIn(t, m - 1) = 1..(k + (m - 1))
    BY <1>6, <2>1
  <2>5. k + (m - 1) = t[m].id - 1
    BY <2>1, <2>3
  <2>6. t[m].as # "notStarted" => Called(l, Len(l), t[m].id)
    BY <1>3, <2>1, <2>2, <2>3
  <2>. QED BY <2>4, <2>5, <2>6
<1>8. \A m \in 1..Len(t) : m \in 1..(N - k) /\ m \in 0..(N - k)
  BY <1>a, <1>5
<1>9. /\ WellLogged(l \o t, u) /\ Len(l \o t) = Len(l) + Len(t)
      /\ Answered(l \o t) = Answered(l) \union Answered(t)
      /\ \A i \in 1..Len(l) : (l \o t)[i] = l[i]
      /\ \A i \in 1..Len(t) : (l \o t)[Len(l) + i] = t[i]
  <2>1. /\ \A m \in 1..Len(t) : t[m] # Ask /\ t[m] # End
        /\ \A n \in 1..Len(t) : \E j \in 0..N : Answered(l) \union AnsweredIn(t, n) = 1..j
    BY <1>4, <1>6, <1>8
  <2>. QED BY <1>5, <1>7, <2>1, ConcatWellLogged
<1>10. Answered(l \o t) = Calls
  <2>1. N - k \in 0..(N - k) /\ k + (N - k) = N
    BY <1>a
  <2>. QED BY <1>5, <1>6, <1>9, <2>1 DEF Answered, Calls
<1>. DEFINE c == l \o t
<1>. HIDE DEF c
<1>11. ASSUME NEW m \in 1..Len(c), m \notin 1..Len(l)
       PROVE  LET e == c[m]
              IN  /\ e # End /\ e.as # "skipped"
                  /\ e.as = "notStarted" => ~Called(l, Len(l), e.id)
  <2>1. m - Len(l) \in 1..Len(t) /\ m = Len(l) + (m - Len(l))
    BY <1>a, <1>5, <1>9, <1>11 DEF c
  <2>2. c[m] = t[m - Len(l)]
    BY <1>9, <2>1 DEF c
  <2>. QED BY <1>2, <1>3, <1>4, <1>8, <2>1, <2>2
<1>12. Len(c) >= Len(l)
  BY <1>a, <1>5, <1>9 DEF c
<1>. QED BY <1>5, <1>9, <1>10, <1>11, <1>12 DEF c, t

(* Recovery answers every request that has no answer yet, and closes the     *)
(* step; what it reports as not started has no call in the log.              *)
LEMMA ClosersLemma ==
  ASSUME NEW l, NEW u \in BOOLEAN, WellLogged(l, u)
  PROVE  /\ WellLogged(l \o Closers(l), u) /\ Len(l \o Closers(l)) >= Len(l)
         /\ \A i \in 1..Len(l) : (l \o Closers(l))[i] = l[i]
         /\ Ask \in ToSet(l \o Closers(l)) => u \/ Answered(l \o Closers(l)) = Calls
         /\ \A m \in 1..Len(l \o Closers(l)) : m \in 1..Len(l) \/
              LET e == (l \o Closers(l))[m]
              IN  /\ e.as # "skipped"
                  /\ e.as = "notStarted" => ~Called(l, Len(l), e.id)
<1>1. N \in Nat /\ l \in Seq(Events) /\ Len(l) \in Nat
  BY ToolCallsAssumption DEF WellLogged
<1>2. PICK k \in 0..N : Answered(l) = 1..k
  BY <1>1 DEF WellLogged, Answered
<1>3. \A e : e \in ToSet(l) <=> \E m \in 1..Len(l) : l[m] = e
  BY <1>1 DEF ToSet
<1>4. \A i : CallEvent(i) \in ToSet(l) <=> Called(l, Len(l), i)
  BY <1>3 DEF Called
<1>5. CASE End \in ToSet(l)
  <2>1. PendingCalls(l) = << >>
    <3>1. Cardinality({}) = 0
      BY FS_EmptySet
    <3>. QED BY <1>5, <3>1 DEF PendingCalls
  <2>2. results(l) = << >>
    BY <2>1 DEF results
  <2>3. Closers(l) = << >>
    BY <1>5, <2>2 DEF Closers
  <2>4. l \o Closers(l) = l
    BY <1>1, <2>3, ConcatEmptySeq
  <2>5. ASSUME Ask \in ToSet(l), ~u PROVE Answered(l) = Calls
    <3>1. PICK m \in 1..Len(l) : l[m] = End
      BY <1>3, <1>5
    <3>2. l[1] = Ask
      BY <1>3, <2>5 DEF WellLogged
    <3>3. AnsweredIn(l, m) = Calls
      BY <2>5, <3>1, <3>2 DEF WellLogged
    <3>4. AnsweredIn(l, m) \subseteq Answered(l)
      BY <1>1 DEF AnsweredIn, Answered
    <3>5. Answered(l) \subseteq Calls
      BY <1>1, <1>2 DEF Calls
    <3>. QED BY <3>3, <3>4, <3>5
  <2>. QED BY <1>1, <2>4, <2>5
<1>6. CASE End \notin ToSet(l) /\ Ask \notin ToSet(l)
  <2>1. PendingCalls(l) = << >>
    <3>1. Cardinality({}) = 0
      BY FS_EmptySet
    <3>. QED BY <1>6, <3>1 DEF PendingCalls
  <2>2. results(l) = << >>
    BY <2>1 DEF results
  <2>3. Closers(l) = <<End>>
    BY <1>6, <2>2 DEF Closers
  <2>4. l \o Closers(l) = Append(l, End)
    BY <1>1, <2>3, EventKinds, AppendIsConcat
  <2>5. /\ WellLogged(Append(l, End), u) /\ Len(Append(l, End)) = Len(l) + 1
        /\ \A i \in 1..Len(l) : Append(l, End)[i] = l[i]
        /\ Append(l, End)[Len(l) + 1] = End
    BY <1>6, EventKinds, AppendWellLogged
  <2>6. \A m \in 1..(Len(l) + 1) : m \in 1..Len(l) \/ m = Len(l) + 1
    BY <1>1
  <2>7. Ask \notin ToSet(Append(l, End))
    <3>1. \A m \in 1..(Len(l) + 1) : Append(l, End)[m] # Ask
      BY <1>3, <1>6, <2>5, <2>6, EventKinds
    <3>2. DOMAIN Append(l, End) = 1..(Len(l) + 1)
      BY <2>5, LenProperties DEF WellLogged
    <3>. QED BY <3>1, <3>2 DEF ToSet
  <2>. QED BY <1>1, <2>4, <2>5, <2>6, <2>7, EventKinds
<1>7. CASE End \notin ToSet(l) /\ Ask \in ToSet(l)
  <2>. DEFINE c == l \o results(l)
  <2>1. /\ WellLogged(c, u) /\ Len(c) >= Len(l) /\ Answered(c) = Calls
        /\ \A i \in 1..Len(l) : c[i] = l[i]
        /\ \A m \in 1..Len(c) : m \in 1..Len(l) \/
             LET e == c[m]
             IN  /\ e # End /\ e.as # "skipped"
                 /\ e.as = "notStarted" => ~Called(l, Len(l), e.id)
    BY <1>7, ResultsLemma
  <2>2. Closers(l) = results(l) \o <<End>>
    BY <1>7 DEF Closers
  <2>3. results(l) \in Seq(Events)
    BY <1>7, ResultsLemma
  <2>4. c \in Seq(Events) /\ Len(c) \in Nat
    BY <2>1 DEF WellLogged
  <2>5. l \o Closers(l) = Append(c, End)
    <3>1. <<End>> \in Seq(Events)
      BY EventKinds
    <3>2. l \o (results(l) \o <<End>>) = (l \o results(l)) \o <<End>>
      BY <1>1, <2>3, <3>1, ConcatAssociative
    <3>. HIDE DEF c
    <3>3. c \o <<End>> = Append(c, End)
      BY <2>4, EventKinds, AppendIsConcat
    <3>. QED BY <2>2, <3>2, <3>3 DEF c
  <2>. HIDE DEF c
  <2>6. /\ WellLogged(Append(c, End), u) /\ Len(Append(c, End)) = Len(c) + 1
        /\ \A i \in 1..Len(c) : Append(c, End)[i] = c[i]
        /\ Append(c, End)[Len(c) + 1] = End
        /\ Answered(Append(c, End)) = Calls
    BY <2>1, EventKinds, AppendWellLogged
  <2>7. ASSUME NEW m \in 1..(Len(c) + 1), m \notin 1..Len(l)
        PROVE  LET e == Append(c, End)[m]
               IN  /\ e.as # "skipped"
                   /\ e.as = "notStarted" => ~Called(l, Len(l), e.id)
    <3>1. CASE m = Len(c) + 1
      BY <2>6, <3>1, EventKinds
    <3>2. CASE m # Len(c) + 1
      <4>1. m \in 1..Len(c)
        BY <2>4, <2>7, <3>2
      <4>. QED BY <2>1, <2>6, <2>7, <4>1
    <3>. QED BY <3>1, <3>2
  <2>8. Len(Append(c, End)) >= Len(l) /\ \A i \in 1..Len(l) : i \in 1..Len(c)
    BY <1>1, <2>1, <2>4, <2>6
  <2>9. \A i \in 1..Len(l) : Append(c, End)[i] = l[i]
    BY <2>1, <2>6, <2>8
  <2>. QED BY <2>5, <2>6, <2>7, <2>8, <2>9
<1>. QED BY <1>5, <1>6, <1>7
-----------------------------------------------------------------------------
(* The log of the step and what was made durable of it.                      *)

LogInv ==
  /\ WellLogged(log, unrecorded)
  /\ durable \in 0..Len(log) /\ flushing \in [Calls -> Nat]
  /\ pc \in {"plan"} \union Pool =>
       /\ Ask \in ToSet(log) /\ \A m \in 1..Len(log) : log[m] # End
       /\ \A i \in 1..started : Called(log, Len(log), i)
  /\ pc \in {"plan", "prepare", "commit", "race"} => Answered(log) = 1..committed
  /\ pc \in {"ended", "resumed"} /\ Ask \in ToSet(log) => unrecorded \/ Answered(log) = Calls

(* Only a closed step of a failed batch lost recovery results. *)
LostInv == unrecorded => failure /\ End \in ToSet(log)

(* The scheduler starts nothing more, and nothing is left to run. *)
Over ==
  \/ pc \in {"ended", "crashed", "resumed"}
  \/ pc = "plan" /\ consumed = N
  \/ pc = "drain" /\ inFlight = {}

NotRun == {"skipped", "notStarted"}

(* A body that was invoked has its call in the durable part of the log, and *)
(* a checkpoint waits for a part that has it; what is reported as not run   *)
(* is reported when nothing can be invoked any more.                        *)
RanInv ==
  /\ \A i \in ran : i =< started /\ Called(log, durable, i)
  /\ \A i \in Calls : call[i] = "checkpoint" =>
       flushing[i] \in 0..Len(log) /\ Called(log, flushing[i], i)
  /\ \A m \in 1..Len(log) : log[m].as \in NotRun => log[m].id \notin ran /\ Over

(* A call stays in a log that grows. *)
LEMMA CalledGrows ==
  ASSUME NEW l, NEW s, NEW n \in Nat, NEW m \in Nat, n =< m, NEW i,
         \A k \in 1..n : s[k] = l[k], Called(l, n, i)
  PROVE  Called(s, m, i)
<1>1. PICK k \in 1..n : l[k] = CallEvent(i)
  BY DEF Called
<1>2. k \in 1..m
  OBVIOUS
<1>. QED BY <1>1, <1>2 DEF Called

LEMMA MaxOfTwo ==
  ASSUME NEW a \in Nat, NEW b \in Nat
  PROVE  Max({a, b}) \in {a, b} /\ Max({a, b}) >= a /\ Max({a, b}) >= b
<1>1. \E x \in {a, b} : \A y \in {a, b} : x >= y
  <2>1. CASE a >= b
    BY <2>1
  <2>2. CASE b >= a
    BY <2>2
  <2>. QED BY <2>1, <2>2
<1>. QED BY <1>1 DEF Max

(* A step that only lets the log grow. *)
LEMMA RanGrows ==
  ASSUME LogInv, RanInv,
         ControlType, Len(log') \in Nat, Len(log') >= Len(log), \A i \in 1..Len(log) : log'[i] = log[i],
         durable' = durable, flushing' = flushing, ran' = ran,
         started' \in Nat, started' >= started,
         \A i \in Calls : call'[i] = "checkpoint" => call[i] = "checkpoint",
         Over => Over',
         \A m \in 1..Len(log') : m \in 1..Len(log)
           \/ (log'[m].as \in NotRun => log'[m].id \notin ran /\ Over')
  PROVE  RanInv'
<1>1. Len(log) \in Nat /\ durable \in Nat /\ durable =< Len(log) /\ started \in Nat
  BY ToolCallsAssumption DEF LogInv, WellLogged, ControlType
<1>2. ASSUME NEW i \in ran PROVE i =< started' /\ Called(log', durable, i)
  <2>0. i \in Calls
    BY <1>2 DEF ControlType
  <2>1. i \in Nat /\ i =< started /\ Called(log, durable, i)
    BY <1>2, <2>0, ToolCallsAssumption DEF RanInv, Calls
  <2>2. \A k \in 1..durable : log'[k] = log[k]
    BY <1>1
  <2>3. Called(log', durable, i)
    BY <1>1, <2>1, <2>2, CalledGrows
  <2>. QED BY <1>1, <2>1, <2>3
<1>3. ASSUME NEW i \in Calls, call'[i] = "checkpoint"
      PROVE  flushing[i] \in 0..Len(log') /\ Called(log', flushing[i], i)
  <2>1. flushing[i] \in 0..Len(log) /\ Called(log, flushing[i], i)
    BY <1>3 DEF RanInv
  <2>2. flushing[i] \in Nat /\ \A k \in 1..flushing[i] : log'[k] = log[k]
    BY <1>1, <2>1
  <2>3. Called(log', flushing[i], i)
    BY <2>1, <2>2, CalledGrows
  <2>. QED BY <1>1, <2>1, <2>3
<1>4. ASSUME NEW m \in 1..Len(log'), log'[m].as \in NotRun PROVE log'[m].id \notin ran /\ Over'
  BY <1>4 DEF RanInv
<1>. QED BY <1>2, <1>3, <1>4 DEF RanInv

(* A step that leaves the log and what is durable of it alone. *)
LEMMA LogStays ==
  ASSUME ControlType, LogInv, RanInv, UNCHANGED <<log, unrecorded, durable, ran>>,
         flushing' \in [Calls -> Nat],
         started' = started,
         \/ pc' = pc /\ committed' = committed
         \/ /\ pc' \in {"plan"} \union Pool => pc \in {"plan"} \union Pool
            /\ pc' \in {"plan", "prepare", "commit", "race"} =>
                 pc \in {"plan", "prepare", "commit", "race"} /\ committed' = committed
            /\ pc' \notin {"ended", "resumed"}
  PROVE  LogInv'
  BY DEF LogInv, Called

LEMMA InitLog == Init => LogInv /\ RanInv
<1>. SUFFICES ASSUME Init PROVE LogInv /\ RanInv
  OBVIOUS
<1>1. /\ log = <<Ask>> /\ Len(log) = 1 /\ log[1] = Ask /\ log \in Seq(Events)
      /\ \A m \in 1..Len(log) : m = 1
  BY EventKinds DEF Init
<1>2. Ask.type # "result" /\ Ask # End /\ Ask.as \notin NotRun
  BY EventKinds DEF NotRun
<1>3. \A n \in 0..1 : AnsweredIn(log, n) = {}
  BY <1>1, <1>2 DEF AnsweredIn
<1>4. 0 \in 0..N /\ 1..0 = {}
  BY ToolCallsAssumption
<1>5. WellLogged(log, FALSE)
  BY <1>1, <1>2, <1>3, <1>4 DEF WellLogged
<1>6. Answered(log) = 1..committed
  BY <1>1, <1>3, <1>4 DEF Init, Answered
<1>7. Ask \in ToSet(log)
  BY <1>1 DEF ToSet
<1>8. LogInv
  <2>1. WellLogged(log, unrecorded)
    BY <1>5 DEF Init
  <2>. QED BY <1>1, <1>2, <1>6, <1>7, <2>1 DEF Init, LogInv
<1>9. RanInv
  BY <1>1, <1>2 DEF Init, RanInv
<1>. QED BY <1>8, <1>9
(* The scheduler logs one event more. *)
LEMMA LogAppends ==
  ASSUME ControlType, LogInv, RanInv, pc \in {"plan"} \union Pool, NEW e \in Events, e # Ask,
         log' = Append(log, e),
         e.type = "result" => Answered(log) = 1..(e.id - 1) /\ Called(log, Len(log), e.id),
         e = End => Answered(log) = Calls,
         e.as \notin NotRun,
         UNCHANGED <<durable, flushing, ran, unrecorded>>,
         started' \in Nat, started' >= started,
         \A i \in 1..started' : i \in 1..started \/ e = CallEvent(i),
         pc' \in {"plan"} \union Pool => e # End,
         pc' \in {"plan", "prepare", "commit", "race"} =>
           1..committed' = IF e.type = "result" THEN 1..e.id ELSE Answered(log),
         pc' \in {"ended", "resumed"} => e = End,
         \A i \in Calls : call'[i] = "checkpoint" => call[i] = "checkpoint",
         Over => Over'
  PROVE  LogInv' /\ RanInv'
<1>0. /\ WellLogged(log, unrecorded) /\ unrecorded \in BOOLEAN /\ unrecorded' = unrecorded
      /\ Len(log) \in Nat /\ Ask \in ToSet(log)
  BY DEF LogInv, WellLogged, ControlType
<1>1. /\ WellLogged(log', unrecorded) /\ Len(log') = Len(log) + 1
      /\ \A i \in 1..Len(log) : log'[i] = log[i]
      /\ log'[Len(log) + 1] = e
      /\ Answered(log') = IF e.type = "result" THEN 1..e.id ELSE Answered(log)
  BY <1>0, AppendWellLogged
<1>2. \A m \in 1..Len(log') : m \in 1..Len(log) \/ m = Len(log) + 1
  BY <1>0, <1>1
<1>3. Ask \in ToSet(log')
  <2>1. PICK m \in 1..Len(log) : log[m] = Ask
    BY <1>0 DEF ToSet, WellLogged
  <2>2. m \in 1..Len(log') /\ log'[m] = Ask
    BY <1>0, <1>1, <2>1
  <2>. QED BY <1>1, <2>2 DEF ToSet, WellLogged
<1>4. ASSUME pc' \in {"plan"} \union Pool, NEW i \in 1..started' PROVE Called(log', Len(log'), i)
  <2>1. CASE i \in 1..started
    <3>1. Called(log, Len(log), i)
      BY <2>1 DEF LogInv
    <3>2. Len(log') \in Nat /\ Len(log) =< Len(log')
      BY <1>0, <1>1
    <3>. QED BY <1>0, <1>1, <3>1, <3>2, CalledGrows
  <2>2. CASE e = CallEvent(i)
    BY <1>0, <1>1, <2>2 DEF Called
  <2>. QED BY <2>1, <2>2
<1>5. durable' \in 0..Len(log') /\ flushing' \in [Calls -> Nat]
  BY <1>0, <1>1 DEF LogInv
<1>6. pc' \in {"plan"} \union Pool => \A m \in 1..Len(log') : log'[m] # End
  BY <1>1, <1>2 DEF LogInv
<1>7. pc' \in {"ended", "resumed"} => Answered(log') = Calls
  BY <1>1, EventKinds
<1>8. LogInv'
  BY <1>0, <1>1, <1>3, <1>4, <1>5, <1>6, <1>7 DEF LogInv
<1>9. RanInv'
  BY <1>0, <1>1, <1>2, RanGrows
<1>. QED BY <1>8, <1>9

(* The aborted batch. *)
LEMMA LogSkips ==
  ASSUME Inv, LogInv, RanInv, SkipRest, pc \in {"plan", "commit"}, pc = "plan" => consumed < N,
         committed = started, UNCHANGED <<durable, flushing, ran, unrecorded>>
  PROVE  LogInv' /\ RanInv'
<1>0. /\ WellLogged(log, unrecorded) /\ unrecorded \in BOOLEAN /\ Len(log) \in Nat
      /\ started \in 0..N /\ Answered(log) = 1..started /\ N \in Nat /\ ControlType
  BY ToolCallsAssumption DEF LogInv, WellLogged, Inv, ControlType
<1>. DEFINE c == log \o Skipped(started + 1)
<1>1. /\ WellLogged(c, unrecorded) /\ Answered(c) = Calls /\ Len(c) >= Len(log)
      /\ \A i \in 1..Len(log) : c[i] = log[i]
      /\ \A i \in (started + 1)..N : Called(c, Len(c), i)
      /\ \A m \in 1..Len(c) : m \in 1..Len(log) \/
           \E i \in (started + 1)..N : c[m] \in {CallEvent(i), ResultEvent(i, "skipped")}
  <2>. HIDE DEF c
  <2>1. /\ WellLogged(log \o Skipped(started + 1), unrecorded)
        /\ Answered(log \o Skipped(started + 1)) = Calls
        /\ Len(log \o Skipped(started + 1)) >= Len(log)
        /\ \A i \in 1..Len(log) : (log \o Skipped(started + 1))[i] = log[i]
        /\ \A i \in (started + 1)..N :
             Called(log \o Skipped(started + 1), Len(log \o Skipped(started + 1)), i)
        /\ \A m \in 1..Len(log \o Skipped(started + 1)) : m \in 1..Len(log) \/
             \E i \in (started + 1)..N :
               (log \o Skipped(started + 1))[m] \in {CallEvent(i), ResultEvent(i, "skipped")}
    BY ONLY <1>0, SkippedWellLogged, ZenonT(40)
  <2>. QED BY <2>1 DEF c
<1>2. /\ log' = c /\ consumed' = N /\ started' = N /\ committed' = N /\ pc' = "plan" /\ call' = call
  BY DEF SkipRest
<1>. HIDE DEF c
<1>3. Len(c) \in Nat
  BY <1>1 DEF WellLogged
<1>4. (started + 1)..N \subseteq Calls /\ \A i \in 1..N : i \in 1..started \/ i \in (started + 1)..N
  BY <1>0 DEF Calls
<1>5. \A m \in 1..Len(c) : c[m] # End
  BY <1>1, <1>4, EventKinds DEF LogInv, Pool, Outcomes
<1>6. Ask \in ToSet(c)
  <2>1. PICK m \in 1..Len(log) : log[m] = Ask
    BY <1>0 DEF ToSet, WellLogged, LogInv, Pool
  <2>2. m \in 1..Len(c) /\ c[m] = Ask
    BY <1>0, <1>1, <1>3, <2>1
  <2>. QED BY <1>1, <2>2 DEF ToSet, WellLogged
<1>7. ASSUME NEW i \in 1..N PROVE Called(c, Len(c), i)
  <2>1. CASE i \in 1..started
    <3>1. Called(log, Len(log), i)
      BY <2>1 DEF LogInv, Pool
    <3>. QED BY <1>0, <1>1, <1>3, <3>1, CalledGrows
  <2>. QED BY <1>1, <1>4, <2>1
<1>8. durable' \in 0..Len(c) /\ flushing' \in [Calls -> Nat]
  BY <1>0, <1>1, <1>3 DEF LogInv
<1>9. LogInv'
  BY <1>1, <1>2, <1>5, <1>6, <1>7, <1>8 DEF LogInv, Calls
<1>10. Over'
  BY <1>2 DEF Over
<1>11. ASSUME NEW m \in 1..Len(c), m \notin 1..Len(log), c[m].as \in NotRun PROVE c[m].id \notin ran
  <2>1. PICK i \in (started + 1)..N : c[m] \in {CallEvent(i), ResultEvent(i, "skipped")}
    BY <1>1, <1>11
  <2>2. c[m].id = i
    BY <1>4, <2>1, EventKinds DEF Outcomes
  <2>3. ~(i =< started)
    BY <1>0, <2>1
  <2>. QED BY <2>2, <2>3 DEF RanInv
<1>12. RanInv'
  <2>1. started' >= started /\ started' \in Nat
    BY <1>0, <1>2
  <2>. QED BY <1>0, <1>1, <1>2, <1>3, <1>10, <1>11, <2>1, RanGrows
<1>. QED BY <1>9, <1>12

(* An answer of the aborted batch could not be logged. *)
LEMMA LogSkipFails ==
  ASSUME Inv, LogInv, RanInv, SkipFails, pc \in {"plan", "commit"}, inFlight = {},
         UNCHANGED <<durable, flushing, ran, unrecorded, started, call, inFlight>>,
         committed = started
  PROVE  LogInv' /\ RanInv'
<1>0. /\ WellLogged(log, unrecorded) /\ unrecorded \in BOOLEAN /\ Len(log) \in Nat
      /\ started \in 0..N /\ started \in Nat /\ Answered(log) = 1..started /\ N \in Nat /\ ControlType
  BY ToolCallsAssumption DEF LogInv, WellLogged, Inv, ControlType
<1>. DEFINE c == log \o Skipped(started + 1)
<1>1. /\ WellLogged(c, unrecorded) /\ Len(c) >= Len(log)
      /\ \A i \in 1..Len(log) : c[i] = log[i]
      /\ \A m \in 1..Len(c) : m \in 1..Len(log) \/
           \E i \in (started + 1)..N : c[m] \in {CallEvent(i), ResultEvent(i, "skipped")}
  BY <1>0, SkippedWellLogged
<1>2. PICK n \in Len(log)..Len(c) : log' = SubSeq(c, 1, n)
  BY DEF SkipFails, Fails, Appended
<1>3. pc' = "drain"
  BY DEF SkipFails, Fails
<1>. HIDE DEF c
<1>4. Len(c) \in Nat /\ n \in Nat /\ n =< Len(c) /\ Len(log) =< n /\ n \in 0..Len(c)
      /\ \A i \in 1..n : i \in 1..Len(c)
  BY <1>0, <1>1 DEF WellLogged
<1>5. WellLogged(log', unrecorded)
  BY <1>0, <1>1, <1>2, <1>4, PrefixWellLogged
<1>6. Len(log') = n /\ \A i \in 1..n : log'[i] = c[i]
  <2>1. \A i \in 1..n : c[i] \in Events
    BY <1>1, <1>4 DEF WellLogged
  <2>. QED BY <1>2, <1>4, <2>1, SubSeqProperties
<1>7. \A i \in 1..Len(log) : i \in 1..n /\ log'[i] = log[i]
  <2>. TAKE i \in 1..Len(log)
  <2>1. i \in 1..n
    BY <1>0, <1>4
  <2>. QED BY <1>1, <1>6, <2>1
<1>8. \A m \in 1..n : m \in 1..Len(log) \/
        \E i \in (started + 1)..N : log'[m] \in {CallEvent(i), ResultEvent(i, "skipped")}
  BY <1>1, <1>4, <1>6
<1>9. (started + 1)..N \subseteq Calls
  BY <1>0 DEF Calls
<1>10. \A m \in 1..n : log'[m] # End
  BY <1>7, <1>8, <1>9, EventKinds DEF LogInv, Pool, Outcomes
<1>11. Ask \in ToSet(log')
  <2>1. PICK m \in 1..Len(log) : log[m] = Ask
    BY <1>0 DEF ToSet, WellLogged, LogInv, Pool
  <2>2. m \in DOMAIN log' /\ log'[m] = Ask
    BY <1>5, <1>6, <1>7, <2>1 DEF WellLogged
  <2>. QED BY <2>2 DEF ToSet
<1>12. ASSUME NEW i \in 1..started PROVE Called(log', n, i)
  <2>1. Called(log, Len(log), i)
    BY DEF LogInv, Pool
  <2>. QED BY <1>0, <1>4, <1>7, <2>1, CalledGrows
<1>13. durable' \in 0..Len(log') /\ flushing' \in [Calls -> Nat]
  BY <1>0, <1>4, <1>6 DEF LogInv
<1>14. LogInv'
  BY <1>3, <1>5, <1>6, <1>10, <1>11, <1>12, <1>13 DEF LogInv, Pool
<1>15. Over'
  BY <1>3 DEF Over
<1>16. ASSUME NEW m \in 1..n, m \notin 1..Len(log), log'[m].as \in NotRun PROVE log'[m].id \notin ran
  <2>1. PICK i \in (started + 1)..N : log'[m] \in {CallEvent(i), ResultEvent(i, "skipped")}
    BY <1>8, <1>16
  <2>2. log'[m].id = i
    BY <1>9, <2>1, EventKinds DEF Outcomes
  <2>3. ~(i =< started)
    BY <1>0, <2>1
  <2>. QED BY <2>2, <2>3 DEF RanInv
<1>17. RanInv'
  <2>1. Len(log') \in Nat /\ Len(log') >= Len(log) /\ started' \in Nat /\ started' >= started
    BY <1>0, <1>4, <1>6
  <2>2. \A m \in 1..Len(log') : m \in 1..Len(log) \/
          (log'[m].as \in NotRun => log'[m].id \notin ran /\ Over')
    BY <1>6, <1>15, <1>16
  <2>. QED BY <1>0, <1>7, <1>15, <2>1, <2>2, RanGrows
<1>. QED BY <1>14, <1>17

(* What recovery adds says of no call that ran that it did not: the results *)
(* of a call whose body was invoked are told from its record.               *)
LEMMA RecoveredDidNotRun ==
  ASSUME LogInv, RanInv, NEW e, e.as \in NotRun, e.as # "skipped",
         e.as = "notStarted" => ~Called(log, Len(log), e.id)
  PROVE  e.id \notin ran
<1>1. ~Called(log, Len(log), e.id)
  BY DEF NotRun
<1>2. ASSUME e.id \in ran PROVE FALSE
  <2>1. Called(log, durable, e.id) /\ durable \in Nat /\ durable =< Len(log) /\ Len(log) \in Nat
    BY <1>2 DEF RanInv, LogInv, WellLogged
  <2>. QED BY <1>1, <2>1, CalledGrows
<1>. QED BY <1>2

(* The log a step or a resume ends with. *)
LEMMA LogEnds ==
  ASSUME ControlType, LogInv, RanInv, pc' \in {"ended", "resumed"},
         UNCHANGED <<durable, flushing, ran, started, call>>,
         WellLogged(log', unrecorded'), Len(log') >= Len(log),
         \A i \in 1..Len(log) : log'[i] = log[i],
         Ask \in ToSet(log') => unrecorded' \/ Answered(log') = Calls,
         \A m \in 1..Len(log') : m \in 1..Len(log) \/
              /\ log'[m].as # "skipped"
              /\ log'[m].as = "notStarted" => ~Called(log, Len(log), log'[m].id)
  PROVE  LogInv' /\ RanInv'
<1>0. Len(log) \in Nat /\ started \in Nat /\ Len(log') \in Nat
  <2>1. consumed \in 0..N /\ started \in consumed..N
    BY DEF ControlType
  <2>2. started \in Nat
    BY <2>1, ToolCallsAssumption
  <2>. QED BY <2>2 DEF LogInv, WellLogged
<1>1. LogInv'
  <2>1. durable' \in 0..Len(log') /\ flushing' \in [Calls -> Nat]
    BY <1>0 DEF LogInv
  <2>. QED BY <2>1 DEF LogInv, Pool
<1>2. Over'
  BY DEF Over
<1>3. ASSUME NEW m \in 1..Len(log'), m \notin 1..Len(log), log'[m].as \in NotRun
      PROVE  log'[m].id \notin ran
  BY <1>3, RecoveredDidNotRun
<1>4. RanInv'
  BY <1>0, <1>2, <1>3, RanGrows
<1>. QED BY <1>1, <1>4

(* Recovery of the stored log. *)
LEMMA LogResumes ==
  ASSUME ControlType, LogInv, RanInv, Resume
  PROVE  LogInv' /\ RanInv'
<1>0. WellLogged(log, unrecorded) /\ unrecorded \in BOOLEAN
  BY DEF LogInv, ControlType
<1>. DEFINE c == log \o Closers(log)
<1>1. /\ WellLogged(c, unrecorded) /\ Len(c) >= Len(log) /\ \A i \in 1..Len(log) : c[i] = log[i]
      /\ Ask \in ToSet(c) => unrecorded \/ Answered(c) = Calls
      /\ \A m \in 1..Len(c) : m \in 1..Len(log) \/
           /\ c[m].as # "skipped"
           /\ c[m].as = "notStarted" => ~Called(log, Len(log), c[m].id)
  BY <1>0, ClosersLemma
<1>2. /\ log' = c /\ unrecorded' = unrecorded /\ pc' = "resumed"
      /\ UNCHANGED <<durable, flushing, ran, started, call>>
  BY DEF Resume, dispatches, scheduler
<1>. HIDE DEF c
<1>. QED BY <1>1, <1>2, LogEnds

(* Recovery of the failed batch, up to an append that rejects. *)
LEMMA LogDrains ==
  ASSUME ControlType, LogInv, RanInv, DrainEnds
  PROVE  LogInv' /\ RanInv' /\ End \in ToSet(log')
<1>0. /\ WellLogged(log, unrecorded) /\ Len(log) \in Nat /\ unrecorded \in BOOLEAN
      /\ Ask \in ToSet(log) /\ \A m \in 1..Len(log) : log[m] # End
  <2>1. pc = "drain"
    BY DEF DrainEnds
  <2>2. WellLogged(log, unrecorded) /\ Ask \in ToSet(log) /\ \A m \in 1..Len(log) : log[m] # End
    BY <2>1 DEF LogInv, Pool
  <2>3. unrecorded \in BOOLEAN
    BY DEF ControlType
  <2>4. Len(log) \in Nat
    BY <2>2 DEF WellLogged
  <2>. QED BY <2>2, <2>3, <2>4
<1>1. WellLogged(log, FALSE)
  BY <1>0 DEF WellLogged
<1>. DEFINE c == log \o results(log)
<1>2. /\ WellLogged(c, FALSE) /\ Len(c) >= Len(log) /\ Answered(c) = Calls
      /\ \A i \in 1..Len(log) : c[i] = log[i]
      /\ \A m \in 1..Len(c) : m \in 1..Len(log) \/
           /\ c[m] # End /\ c[m].as # "skipped"
           /\ c[m].as = "notStarted" => ~Called(log, Len(log), c[m].id)
  <2>1. End \notin ToSet(log)
    BY <1>0 DEF ToSet, WellLogged
  <2>. QED BY <1>0, <1>1, <2>1, ResultsLemma
<1>3. PICK n \in Len(log)..Len(c) :
        log' = Append(SubSeq(c, 1, n), End) /\ unrecorded' = (SubSeq(c, 1, n) # c)
  BY DEF DrainEnds, Appended
<1>. DEFINE r == SubSeq(c, 1, n)
<1>. HIDE DEF c
<1>4. Len(c) \in Nat /\ n \in Nat /\ n =< Len(c) /\ Len(log) =< n /\ n \in 0..Len(c)
      /\ (\A i \in 1..n : i \in 1..Len(c)) /\ unrecorded' \in BOOLEAN
  BY <1>0, <1>2, <1>3 DEF WellLogged
<1>5. WellLogged(r, FALSE)
  BY <1>2, <1>4, PrefixWellLogged
<1>6. Len(r) = n /\ \A i \in 1..n : r[i] = c[i]
  <2>1. \A i \in 1..n : c[i] \in Events
    BY <1>2, <1>4 DEF WellLogged
  <2>. QED BY <1>4, <2>1, SubSeqProperties
<1>. HIDE DEF r
<1>7. WellLogged(r, unrecorded')
  BY <1>5 DEF WellLogged
<1>8. ~unrecorded' => Answered(r) = Calls
  BY <1>2, <1>3 DEF r
<1>9. log' = Append(r, End)
  BY <1>3 DEF r
<1>10. /\ WellLogged(log', unrecorded') /\ Len(log') = n + 1
       /\ \A i \in 1..n : log'[i] = r[i]
       /\ log'[n + 1] = End
       /\ Answered(log') = Answered(r)
  <2>1. End \in Events /\ End # Ask /\ End.type = "end"
    BY EventKinds
  <2>2. unrecorded' \in BOOLEAN /\ (unrecorded' \/ Answered(r) = Calls)
    BY <1>4, <1>8
  <2>3. /\ WellLogged(Append(r, End), unrecorded') /\ Len(Append(r, End)) = Len(r) + 1
        /\ \A i \in 1..Len(r) : Append(r, End)[i] = r[i]
        /\ Append(r, End)[Len(r) + 1] = End
        /\ Answered(Append(r, End)) = Answered(r)
    BY <1>7, <2>1, <2>2, AppendWellLogged
  <2>. QED BY <1>6, <1>9, <2>3
<1>11. Ask \in ToSet(log') => unrecorded' \/ Answered(log') = Calls
  BY <1>8, <1>10
<1>12. \A i \in 1..Len(log) : log'[i] = log[i]
  <2>. TAKE i \in 1..Len(log)
  <2>1. i \in 1..n
    BY <1>0, <1>4
  <2>. QED BY <1>2, <1>6, <1>10, <2>1
<1>13. ASSUME NEW m \in 1..Len(log'), m \notin 1..Len(log)
       PROVE  /\ log'[m].as # "skipped"
              /\ log'[m].as = "notStarted" => ~Called(log, Len(log), log'[m].id)
  <2>1. CASE m = n + 1
    BY <1>10, <2>1, EventKinds
  <2>2. CASE m # n + 1
    <3>1. m \in 1..n /\ m \in 1..Len(c)
      BY <1>4, <1>10, <2>2
    <3>2. log'[m] = c[m]
      BY <1>6, <1>10, <3>1
    <3>. QED BY <1>2, <1>13, <3>1, <3>2
  <2>. QED BY <2>1, <2>2
<1>14. Len(log') >= Len(log)
  BY <1>0, <1>4, <1>10
<1>15. pc' = "ended" /\ UNCHANGED <<durable, flushing, ran, started, call>>
  BY DEF DrainEnds, scheduler
<1>16. End \in ToSet(log')
  <2>1. n + 1 \in DOMAIN log'
    BY <1>4, <1>10 DEF WellLogged
  <2>. QED BY <1>10, <2>1 DEF ToSet
<1>. QED BY <1>10, <1>11, <1>12, <1>13, <1>14, <1>15, <1>16, LogEnds

LEMMA LogNext ==
  ASSUME Inv, LogInv, RanInv, [Next]_vars
  PROVE  LogInv' /\ RanInv'
<1>0. ControlType /\ GroupInv /\ CommitInv
  BY DEF Inv
<1>t. /\ N \in Nat /\ consumed \in Nat /\ started \in Nat /\ committed \in Nat
      /\ consumed =< started /\ started =< N /\ committed =< started
      /\ call \in [Calls -> States]
      /\ Len(log) \in Nat /\ durable \in 0..Len(log) /\ flushing \in [Calls -> Nat]
  <2>1. N \in Nat
    BY ToolCallsAssumption
  <2>2. consumed \in 0..N /\ started \in consumed..N /\ committed \in 0..started
    BY <1>0 DEF ControlType
  <2>. QED BY <1>0, <2>1, <2>2 DEF ControlType, LogInv, WellLogged
<1>. USE DEF vars, scheduler, dispatches, registry
<1>s. ASSUME NEW i \in Calls, StartCall(i), i = started + 1, pc \in {"plan", "commit"}, ~Over,
             UNCHANGED <<durable, flushing, ran, committed, unrecorded>>
      PROVE  LogInv' /\ RanInv'
  <2>. DEFINE e == CallEvent(i)
  <2>1. /\ log' = Append(log, e) /\ started' = i /\ pc' = "prepare"
        /\ call' = [call EXCEPT ![i] = "preparing"]
    BY <1>s DEF StartCall
  <2>2. e \in Events /\ e # Ask /\ e # End /\ e.type # "result" /\ e.as \notin NotRun
    BY EventKinds DEF NotRun
  <2>3. \A j \in 1..started' : j \in 1..started \/ e = CallEvent(j)
    BY <1>t, <1>s, <2>1
  <2>. HIDE DEF e
  <2>4. Answered(log) = 1..committed
    BY <1>s DEF LogInv
  <2>5. started' \in Nat /\ started' >= started
    BY <1>t, <1>s, <2>1
  <2>6. \A j \in Calls : call'[j] = "checkpoint" => call[j] = "checkpoint"
    BY <1>t, <2>1
  <2>7. /\ pc \in {"plan"} \union Pool /\ pc' \notin {"ended", "resumed"}
        /\ UNCHANGED <<durable, flushing, ran, unrecorded>> /\ log' = Append(log, e)
    BY <1>s, <2>1 DEF Pool
  <2>8. Over => Over'
    BY <1>s
  <2>9. 1..committed' = IF e.type = "result" THEN 1..e.id ELSE Answered(log)
    BY <1>s, <2>2, <2>4
  <2>. HIDE DEF Over, Pool
  <2>. QED BY <1>0, <2>2, <2>3, <2>5, <2>6, <2>7, <2>8, <2>9, LogAppends
<1>r. ASSUME NEW e \in Events, e = ResultEvent(committed + 1, "done"), committed + 1 =< started,
             pc = "commit", log' = Append(log, e),
             UNCHANGED <<durable, flushing, ran, started, call, unrecorded>>,
             pc' = "drain" \/ (pc' = "commit" /\ committed' = committed + 1)
      PROVE  LogInv' /\ RanInv'
  <2>1. /\ committed + 1 \in Calls /\ "done" \in Outcomes /\ committed + 1 \in 1..started
        /\ (committed + 1) - 1 = committed
    BY <1>t, <1>r DEF Calls, Outcomes
  <2>2. /\ e # Ask /\ e # End /\ e.type = "result" /\ e.as \notin NotRun /\ e.id = committed + 1
    BY <1>r, <2>1, EventKinds DEF NotRun
  <2>3. Answered(log) = 1..(e.id - 1) /\ Called(log, Len(log), e.id)
    BY <1>r, <2>1, <2>2 DEF LogInv, Pool
  <2>4. ~Over
    BY <1>r DEF Over
  <2>5. started' >= started /\ started' \in Nat
    BY <1>t, <1>r
  <2>. QED BY <1>0, <1>r, <2>2, <2>3, <2>4, <2>5, LogAppends DEF Pool
<1>u. ASSUME UNCHANGED <<log, durable, ran>>, flushing' = flushing, started' = started,
             \A i \in Calls : call'[i] = "checkpoint" => call[i] = "checkpoint",
             Over => Over'
      PROVE  RanInv'
  BY <1>0, <1>t, <1>u, RanGrows
<1>c. ASSUME pc = "commit", Ready = {}, ~failure, inFlight = {} PROVE committed = started
  <2>1. SUFFICES ASSUME committed # started PROVE FALSE
    OBVIOUS
  <2>2. committed + 1 \in (committed + 1)..started /\ committed + 1 \in Calls
    BY <1>t, <2>1 DEF Calls
  <2>3. call[committed + 1] \in {"preparing", "slot", "rejected"}
    BY <1>0, <1>c, <2>2 DEF CommitInv
  <2>4. call[committed + 1] # "slot"
    BY <1>t, <1>c, <2>2 DEF Ready
  <2>. QED BY <1>0, <1>c, <2>2, <2>3, <2>4 DEF GroupInv, CommitInv
<1>1. CASE Plan
  <2>1. consumed = started /\ committed = started /\ ~Over
    BY <1>0, <1>t, <1>1 DEF Plan, CommitInv, Over
  <2>2. CASE signal
    BY <1>1, <2>1, <2>2, LogSkips DEF Plan
  <2>3. CASE ~signal
    <3>1. consumed + 1 \in Calls
      BY <1>t, <1>1 DEF Plan, Calls
    <3>. QED BY <1>1, <1>s, <2>1, <2>3, <3>1 DEF Plan
  <2>. QED BY <2>2, <2>3
<1>2. CASE StepEnds
  <2>1. Answered(log) = Calls
    BY <1>0, <1>t, <1>2 DEF StepEnds, CommitInv, LogInv, Calls
  <2>2. End \in Events /\ End # Ask /\ End.type # "result" /\ End.as \notin NotRun
    BY EventKinds DEF NotRun
  <2>3. Over'
    BY <1>2 DEF StepEnds, Over
  <2>4. \A i \in 1..started' : i \in 1..started
    BY <1>2 DEF StepEnds
  <2>5. /\ log' = Append(log, End) /\ pc = "plan" /\ pc' = "ended" /\ call' = call /\ started' = started
        /\ UNCHANGED <<durable, flushing, ran, unrecorded>>
    BY <1>2 DEF StepEnds
  <2>6. started' >= started /\ started' \in Nat
    BY <1>t, <2>5
  <2>. QED BY <1>0, <2>1, <2>2, <2>3, <2>4, <2>5, <2>6, LogAppends DEF Pool
<1>3. CASE Prepared
  <2>1. /\ UNCHANGED <<scheduler, durable, ran, log, unrecorded>> /\ pc = "prepare" /\ pc' \in {"drain", "commit"}
        /\ \/ flushing' = flushing /\ \E v \in {"idle", "slot"} : call' = [call EXCEPT ![started] = v]
           \/ /\ flushing' = [flushing EXCEPT ![started] = Len(log)]
              /\ call' = [call EXCEPT ![started] = "checkpoint"]
    BY <1>3 DEF Prepared
  <2>2. started \in 1..started /\ started \in Calls
    BY <1>0, <1>t, <2>1 DEF GroupInv, InGroup, Pool, Calls
  <2>3. Called(log, Len(log), started)
    BY <2>1, <2>2 DEF LogInv, Pool
  <2>4. flushing' \in [Calls -> Nat]
    BY <1>t, <2>1
  <2>5. LogInv'
    BY <1>0, <2>1, <2>4, LogStays DEF Pool
  <2>6. ~Over
    BY <2>1 DEF Over
  <2>7. ASSUME NEW i \in Calls, call'[i] = "checkpoint"
        PROVE  flushing'[i] \in 0..Len(log) /\ Called(log, flushing'[i], i)
    <3>1. CASE i = started /\ call'[started] = "checkpoint"
      BY <1>t, <2>1, <2>2, <2>3, <3>1
    <3>2. CASE i # started
      BY <1>t, <2>1, <2>7, <3>2 DEF RanInv
    <3>. QED BY <2>7, <3>1, <3>2
  <2>. QED BY <2>1, <2>5, <2>6, <2>7 DEF RanInv, Called
<1>4. CASE PrepareRejects
  <2>1. /\ UNCHANGED <<log, unrecorded, durable, ran, flushing, started, committed>> /\ pc = "prepare" /\ pc' = "drain"
        /\ call' = [call EXCEPT ![started] = "idle"]
    BY <1>4 DEF PrepareRejects
  <2>2. LogInv'
    BY <1>0, <1>t, <2>1, LogStays DEF Pool
  <2>3. \A i \in Calls : call'[i] = "checkpoint" => call[i] = "checkpoint"
    BY <1>t, <2>1
  <2>4. Over => Over'
    BY <2>1 DEF Over
  <2>. QED BY <1>u, <2>1, <2>2, <2>3, <2>4
<1>5. CASE Commit
  <2>1. /\ committed + 1 =< started /\ log' = Append(log, ResultEvent(committed + 1, "done"))
        /\ pc = "commit" /\ pc' = pc /\ committed' = committed + 1
        /\ UNCHANGED <<durable, flushing, ran, started, call, unrecorded>>
    BY <1>5 DEF Commit, Ready
  <2>2. ResultEvent(committed + 1, "done") \in Events
    BY <1>t, <2>1, EventKinds DEF Calls, Outcomes
  <2>. QED BY <1>r, <2>1, <2>2
<1>6. CASE CommitRejects
  <2>1. /\ committed + 1 =< started
        /\ log' = log \/ log' = Append(log, ResultEvent(committed + 1, "done"))
        /\ pc = "commit" /\ pc' = "drain"
        /\ UNCHANGED <<durable, flushing, ran, started, call, committed, unrecorded>>
    BY <1>6 DEF CommitRejects, Ready
  <2>2. ResultEvent(committed + 1, "done") \in Events
    BY <1>t, <2>1, EventKinds DEF Calls, Outcomes
  <2>3. CASE log' = log
    <3>1. LogInv'
      BY <1>0, <1>t, <2>1, <2>3, LogStays DEF Pool
    <3>2. Over => Over'
      BY <2>1 DEF Over
    <3>. QED BY <1>u, <2>1, <2>3, <3>1, <3>2
  <2>4. CASE log' = Append(log, ResultEvent(committed + 1, "done"))
    BY <1>r, <2>1, <2>2, <2>4
  <2>. QED BY <2>1, <2>3, <2>4
<1>7. CASE CommitEnds
  <2>0. UNCHANGED <<durable, flushing, ran, unrecorded>> /\ pc = "commit" /\ Ready = {} /\ ~Over
    BY <1>7 DEF CommitEnds, Over
  <2>1. CASE pc' \in {"drain", "race"} /\ UNCHANGED <<call, started, committed, log>>
    <3>1. LogInv'
      BY <1>0, <1>t, <2>0, <2>1, LogStays DEF Pool
    <3>. QED BY <1>u, <2>0, <2>1, <3>1
  <2>2. CASE StartCall(started + 1) /\ started + 1 \in Calls /\ committed' = committed
    BY <1>s, <2>0, <2>2
  <2>3. ASSUME ~failure, inFlight = {} PROVE committed = started
    BY <1>c, <2>0, <2>3
  <2>4. CASE ~failure /\ inFlight = {} /\ SkipRest
    BY <2>0, <2>3, <2>4, LogSkips
  <2>5. CASE ~failure /\ inFlight = {} /\ pc' = "plan" /\ UNCHANGED <<call, started, committed, log>>
    <3>1. LogInv'
      BY <1>0, <1>t, <2>0, <2>5, LogStays DEF Pool
    <3>. QED BY <1>u, <2>0, <2>5, <3>1
  <2>. QED BY <1>0, <1>7, <2>1, <2>2, <2>4, <2>5, CommitEndsCases
<1>8. CASE Race
  <2>1. /\ UNCHANGED <<log, unrecorded, durable, ran, flushing, started, committed, call>>
        /\ pc = "race" /\ pc' \in {"drain", "commit"}
    BY <1>8 DEF Race
  <2>2. LogInv'
    BY <1>0, <1>t, <2>1, LogStays DEF Pool
  <2>3. Over => Over'
    BY <2>1 DEF Over
  <2>. QED BY <1>u, <2>1, <2>2, <2>3
<1>9. CASE DrainEnds \/ Resume
  BY <1>0, <1>9, LogDrains, LogResumes
<1>10. ASSUME NEW i \in Calls, Checkpointed(i) PROVE LogInv' /\ RanInv'
  <2>1. flushing[i] \in 0..Len(log) /\ Called(log, flushing[i], i)
    BY <1>10 DEF Checkpointed, RanInv
  <2>2. /\ durable' \in 0..Len(log) /\ durable' >= durable /\ durable' >= flushing[i]
        /\ flushing[i] \in Nat /\ durable \in Nat /\ durable' \in Nat
    <3>1. flushing[i] \in Nat /\ durable \in Nat
      BY <1>t, <2>1
    <3>2. durable' = Max({durable, flushing[i]})
      BY <1>10 DEF Checkpointed
    <3>. QED BY <1>t, <2>1, <3>1, <3>2, MaxOfTwo
  <2>3. i \in inFlight /\ pc \in Pool /\ ~Over /\ i =< started
    <3>1. i \in inFlight
      BY <1>0, <1>10 DEF Checkpointed, GroupInv
    <3>2. pc \in Pool /\ i \in (consumed + 1)..started
      BY <1>0, <3>1 DEF GroupInv
    <3>3. ~Over
      BY <3>1, <3>2 DEF Pool, Over
    <3>4. i =< started
      BY <1>t, <3>2
    <3>. QED BY <3>1, <3>2, <3>3, <3>4
  <2>4. /\ UNCHANGED <<log, unrecorded, flushing, started, committed, pc, consumed>>
        /\ \E v \in {"slot", "running"} : call' = [call EXCEPT ![i] = v]
        /\ ran' \subseteq ran \union {i}
    BY <1>10 DEF Checkpointed
  <2>5. LogInv'
    BY <2>2, <2>4 DEF LogInv, Called
  <2>6. ASSUME NEW j \in ran' PROVE j =< started /\ Called(log, durable', j)
    <3>1. CASE j = i
      BY <2>1, <2>2, <2>3, <3>1, CalledGrows
    <3>2. CASE j \in ran
      <4>1. j =< started /\ Called(log, durable, j)
        BY <3>2 DEF RanInv
      <4>. QED BY <2>2, <4>1, CalledGrows
    <3>. QED BY <2>4, <3>1, <3>2
  <2>7. \A j \in Calls : call'[j] = "checkpoint" => call[j] = "checkpoint"
    BY <1>t, <2>4
  <2>. QED BY <2>3, <2>4, <2>5, <2>6, <2>7 DEF RanInv, Called
<1>11. ASSUME NEW i \in Calls, CheckpointFails(i) \/ BodySettles(i) \/ DispatchRejects(i)
       PROVE  LogInv' /\ RanInv'
  <2>1. /\ UNCHANGED <<log, unrecorded, durable, ran, flushing, started, committed, pc, consumed, inFlight>>
        /\ \E v \in {"slot", "rejected"} : call' = [call EXCEPT ![i] = v]
    BY <1>11 DEF CheckpointFails, BodySettles, DispatchRejects
  <2>2. LogInv'
    BY <1>0, <1>t, <2>1, LogStays
  <2>3. \A j \in Calls : call'[j] = "checkpoint" => call[j] = "checkpoint"
    BY <1>t, <2>1
  <2>4. Over => Over'
    BY <2>1 DEF Over
  <2>. QED BY <1>u, <2>1, <2>2, <2>3, <2>4
<1>12. ASSUME UNCHANGED <<log, unrecorded, durable, ran, flushing, started, committed, pc, consumed, call,
                          inFlight>>
       PROVE  LogInv' /\ RanInv'
  <2>1. LogInv'
    BY <1>0, <1>t, <1>12, LogStays
  <2>2. Over => Over'
    BY <1>12 DEF Over
  <2>. QED BY <1>u, <1>12, <2>1, <2>2
<1>13. CASE Crash
  <2>1. PICK kept \in durable..Len(log) : log' = SubSeq(log, 1, kept)
    BY <1>13 DEF Crash
  <2>2. /\ UNCHANGED <<durable, flushing, ran, started>> /\ pc' = "crashed"
        /\ call' = [i \in Calls |-> "idle"]
    BY <1>13 DEF Crash
  <2>3. kept \in 0..Len(log) /\ kept \in Nat /\ durable \in Nat
    BY <1>t
  <2>a. /\ log \in Seq(Events) /\ unrecorded \in BOOLEAN /\ unrecorded' \in BOOLEAN
        /\ unrecorded => unrecorded' \/ End \notin ToSet(log')
    BY <1>0, <1>13, Zenon DEF Crash, LogInv, WellLogged, ControlType
  <2>b. log' \in Seq(Events) /\ Len(log') = kept /\ \A m \in 1..kept : log'[m] = log[m]
    <3>1. \A m \in 1..kept : log[m] \in Events
      BY <1>t, <2>3, <2>a
    <3>. QED BY <2>1, <2>3, <3>1, SubSeqProperties
  <2>c. unrecorded => unrecorded' \/ \A m \in 1..kept : log[m] # End
    BY <2>a, <2>b DEF ToSet
  <2>4. WellLogged(log', unrecorded')
    BY <2>1, <2>3, <2>a, <2>c, PrefixWellLogged DEF LogInv
  <2>5. Len(log') = kept /\ \A k \in 1..kept : log'[k] = log[k]
    BY <2>b
  <2>6. durable \in 0..Len(log')
    BY <2>3, <2>5
  <2>7. LogInv'
    BY <1>t, <2>2, <2>4, <2>6 DEF LogInv, Pool
  <2>8. ASSUME NEW i \in ran PROVE i =< started /\ Called(log', durable, i)
    <3>1. i =< started /\ Called(log, durable, i)
      BY <2>8 DEF RanInv
    <3>2. \A k \in 1..durable : log'[k] = log[k]
      BY <2>3, <2>5
    <3>. QED BY <2>3, <3>1, <3>2, CalledGrows
  <2>9. ASSUME NEW m \in 1..Len(log'), log'[m].as \in NotRun PROVE log'[m].id \notin ran
    <3>1. m \in 1..Len(log) /\ log'[m] = log[m]
      BY <1>t, <2>3, <2>5
    <3>. QED BY <2>9, <3>1 DEF RanInv
  <2>. QED BY <2>2, <2>7, <2>8, <2>9 DEF RanInv, Over
<1>14. CASE PlanFails \/ StartFails
  <2>1. /\ UNCHANGED <<durable, ran, flushing, started, committed, call, inFlight, unrecorded>>
        /\ pc \in {"plan", "commit"} /\ pc' = "drain"
    BY <1>14 DEF PlanFails, StartFails, SkipFails, Fails
  <2>2. CASE log' = log
    <3>1. LogInv'
      BY <1>0, <1>t, <2>1, <2>2, LogStays DEF Pool
    <3>2. Over => Over'
      BY <1>t, <1>14, <2>1 DEF Over, PlanFails, StartFails
    <3>. QED BY <1>u, <2>1, <2>2, <3>1, <3>2
  <2>3. CASE SkipFails
    <3>1. CASE inFlight = {} /\ committed = started
      BY <2>1, <2>3, <3>1, LogSkipFails
    <3>2. CASE PlanFails
      BY <1>0, <3>1, <3>2 DEF PlanFails, GroupInv, Pool, CommitInv
    <3>3. CASE log' # log /\ StartFails
      <4>1. /\ inFlight = {} /\ ~failure /\ Ready = {} /\ pc = "commit"
        BY <3>3 DEF StartFails, Fails
      <4>. QED BY <1>c, <3>1, <4>1
    <3>. QED BY <1>14, <2>2, <3>2, <3>3
  <2>. QED BY <1>14, <2>2, <2>3 DEF PlanFails, StartFails, Fails
<1>. QED
  BY <1>1, <1>2, <1>3, <1>4, <1>5, <1>6, <1>7, <1>8, <1>9, <1>10, <1>11, <1>12, <1>13, <1>14
     DEF Next, Step, Dispatch, Reclassify, Abort

LEMMA LostNext ==
  ASSUME Inv, LogInv, RanInv, LostInv, [Next]_vars
  PROVE  LostInv'
<1>0. /\ ControlType /\ CommitInv /\ Len(log) \in Nat /\ log \in Seq(Events)
  BY DEF Inv, LogInv, WellLogged
<1>. USE DEF LostInv, vars, scheduler, dispatches, registry
<1>1. CASE /\ Plan \/ PlanFails \/ StepEnds \/ Prepared \/ PrepareRejects \/ Commit \/ CommitRejects
              \/ CommitEnds \/ StartFails \/ Race
  <2>1. pc \in {"plan"} \union Pool /\ unrecorded' = unrecorded
    BY <1>1 DEF Plan, PlanFails, StepEnds, Prepared, PrepareRejects, Commit, CommitRejects, CommitEnds,
                StartFails, Race, Pool
  <2>2. \A m \in 1..Len(log) : log[m] # End
    BY <2>1 DEF LogInv
  <2>3. End \notin ToSet(log)
    BY <1>0, <2>2 DEF ToSet
  <2>. QED BY <2>1, <2>3
<1>2. CASE DrainEnds
  <2>1. failure /\ failure' = failure
    BY <1>0, <1>2 DEF DrainEnds, CommitInv
  <2>2. End \in ToSet(log')
    BY <1>0, <1>2, LogDrains
  <2>. QED BY <2>1, <2>2
<1>3. CASE Resume
  <2>1. /\ log' = log \o Closers(log) /\ failure' = failure /\ unrecorded' = unrecorded
        /\ unrecorded \in BOOLEAN
    BY <1>0, <1>3 DEF Resume, ControlType
  <2>2. /\ log' \in Seq(Events) /\ Len(log') >= Len(log) /\ \A i \in 1..Len(log) : log'[i] = log[i]
    BY <2>1, ClosersLemma DEF LogInv, WellLogged
  <2>3. \A i \in DOMAIN log : i \in DOMAIN log' /\ log'[i] = log[i]
    BY <1>0, <2>2
  <2>4. End \in ToSet(log) => End \in ToSet(log')
    BY <2>3 DEF ToSet
  <2>. QED BY <2>1, <2>4
<1>4. CASE Crash
  BY <1>4, Zenon DEF Crash
<1>5. CASE \E i \in Calls : Dispatch(i) \/ Reclassify(i)
  <2>1. UNCHANGED <<log, unrecorded>> /\ (failure' = TRUE \/ failure' = failure)
    BY <1>5 DEF Dispatch, Checkpointed, CheckpointFails, BodySettles, DispatchRejects, Reclassify
  <2>. QED BY <2>1
<1>6. CASE Abort \/ UNCHANGED vars
  BY <1>6 DEF Abort
<1>. QED BY <1>1, <1>2, <1>3, <1>4, <1>5, <1>6 DEF Next, Step

LEMMA Log == Spec => [](Inv /\ LogInv /\ RanInv /\ LostInv)
<1>1. Inv /\ [Next]_vars => Inv'
  BY ControlTypeNext, GroupNext, RoomNext, CommitNext DEF Inv
<1>2. Inv /\ LogInv /\ RanInv /\ [Next]_vars => LogInv' /\ RanInv'
  BY LogNext
<1>3. Inv /\ LogInv /\ RanInv /\ LostInv /\ [Next]_vars => LostInv'
  BY LostNext
<1>4. Init => LostInv
  BY DEF Init, LostInv
<1>. QED BY <1>1, <1>2, <1>3, <1>4, InitControl, InitLog, PTL DEF Spec

-----------------------------------------------------------------------------

(* Every request of a stored assistant message is answered once, in model    *)
(* order, and none is left unanswered when the step closed, by completion,   *)
(* abort, failure or the recovery of any number of crashes, unless it is the *)
(* stored end of a failed step that could not record a recovery result.      *)
THEOREM RequestsAnsweredInOrder == Spec => []AnsweredInOrder
<1>1. Inv /\ LogInv /\ RanInv /\ LostInv => AnsweredInOrder
  <2>. SUFFICES ASSUME Inv, LogInv, RanInv, LostInv PROVE AnsweredInOrder
    OBVIOUS
  <2>1. log \in Seq(Events) /\ DOMAIN log = 1..Len(log) /\ Len(log) \in Nat
    BY DEF LogInv, WellLogged
  <2>2. TypeOK
    <3>1. durable \in Nat /\ flushing \in [Calls -> Nat]
      BY <2>1 DEF LogInv
    <3>2. {aborted, failure, signal, unrecorded} \subseteq BOOLEAN
      BY Zenon DEF Inv, ControlType
    <3>. QED BY <2>1, <3>1, <3>2 DEF Inv, ControlType, TypeOK, Events
  <2>3. ASSUME NEW m \in DOMAIN log, log[m].type = "result"
        PROVE  /\ AnsweredIn(log, m - 1) = 1..(log[m].id - 1)
               /\ log[m].as # "notStarted" => \E k \in 1..(m - 1) : log[k] = CallEvent(log[m].id)
    BY <2>1, <2>3 DEF LogInv, WellLogged, Called
  <2>. QED BY <2>2, <2>3 DEF AnsweredInOrder, LogInv, LostInv
<1>. QED BY <1>1, Log, PTL

(* A call that is reported as skipped or not started never ran: the model    *)
(* may ask again without repeating an effect.                                *)
THEOREM NotStartedMeansNotRun == Spec => []NotStartedNeverRan
<1>1. LogInv /\ RanInv => NotStartedNeverRan
  <2>. SUFFICES ASSUME LogInv, RanInv, NEW m \in DOMAIN log, log[m].as \in NotRun
                PROVE  log[m].id \notin ran
    BY DEF NotStartedNeverRan, NotRun
  <2>1. DOMAIN log = 1..Len(log)
    BY DEF LogInv, WellLogged
  <2>. QED BY <2>1 DEF RanInv
<1>. QED BY <1>1, Log, PTL
=============================================================================
