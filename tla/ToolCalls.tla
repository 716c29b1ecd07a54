----------------------------- MODULE ToolCalls -----------------------------
(***************************************************************************)
(* The tool calls of one assistant step: the scheduler of                   *)
(* agent-loop/src/tool-calls.ts over the staged tool runtime                *)
(* (tools/src/index.ts), the checkpoint taken before a tool body            *)
(* (session-checkpoint-policy), and the recovery of unanswered calls        *)
(* (session/src/repair.ts) after a scheduler failure or a crash.            *)
(*                                                                         *)
(* Calls 1..N are in model order.  The scheduler runs between two awaits    *)
(* without interruption; pc says what it awaits:                           *)
(*   "plan"     the next group          "prepare"  policy of call `started'*)
(*   "commit"   post-execute policy     "race"     a dispatched call        *)
(*   "drain"    the dispatched calls, after a scheduler failure             *)
(* and then "ended" (step/end logged), "crashed", "resumed".                *)
(* A finalize that need not be awaited is the same commit.  An append may   *)
(* reject (an observer of internal/dispatch throws) and then logs nothing;  *)
(* only that of the step's end is taken to succeed.  The content of results,*)
(* nested (PTC) calls and turn boundaries are left out.                     *)
(***************************************************************************)
EXTENDS Naturals, FiniteSets, FiniteSetsExt, SequencesExt

CONSTANTS
  N,             \* calls of the step
  MaxParallel,   \* maxParallelToolCalls
  MaxSwitches,   \* bound: changes of a call's mode by registry changes
  MaxCrashes     \* bound: crashes

ASSUME ToolCallsAssumption ==
  /\ N \in Nat \ {0} /\ MaxParallel \in Nat \ {0}
  /\ MaxSwitches \in Nat /\ MaxCrashes \in Nat

Calls == 1..N
Modes == {"parallel", "exclusive"}
States == {"idle", "preparing", "checkpoint", "running", "slot", "rejected"}
Outcomes == {"done", "skipped", "unknown", "notStarted"}

VARIABLES
  pc,
  consumed,    \* calls of the finished groups
  groupMode,   \* mode the group was planned with
  started,     \* calls started, over all groups
  committed,   \* results committed, over all groups
  call,        \* call -> its state; `rejected': the dispatch promise failed
  inFlight,    \* calls dispatched and not yet raced
  aborted,     \* the group's copy of the signal
  failure,     \* a schedulerFailure is recorded
  signal,      \* the step's abort signal
  mode,        \* call -> live mode in the tool registry
  startedAs,   \* history: call -> its live mode when it was started
  log,         \* session events of the step, from the assistant message on
  durable,     \* length of the prefix of log a flush made durable
  flushing,    \* call -> length of log its checkpoint waits for
  ran,         \* history: calls whose body was invoked
  unrecorded,  \* history: the step closed in log lost a recovery result
  switches, crashes

scheduler == <<consumed, groupMode, started, committed, aborted>>
dispatches == <<call, inFlight, failure, flushing, durable, ran>>
registry == <<mode, switches>>
vars == <<pc, scheduler, dispatches, signal, registry, startedAs, log, unrecorded, crashes>>

Ask == [type |-> "assistant", id |-> 0, as |-> "none"]
CallEvent(i) == [type |-> "call", id |-> i, as |-> "none"]
ResultEvent(i, as) == [type |-> "result", id |-> i, as |-> as]
End == [type |-> "end", id |-> 0, as |-> "none"]

(* The calls whose result is one of the first n events of a log. *)
AnsweredIn(l, n) == {l[m].id : m \in {k \in 1..n : l[k].type = "result"}}
Answered(l) == AnsweredIn(l, Len(l))

TypeOK ==
  /\ pc \in {"plan", "prepare", "commit", "race", "drain", "ended", "crashed", "resumed"}
  /\ consumed \in 0..N /\ started \in consumed..N /\ committed \in 0..started
  /\ groupMode \in Modes /\ mode \in [Calls -> Modes] /\ startedAs \in [Calls -> Modes]
  /\ call \in [Calls -> States] /\ inFlight \subseteq Calls /\ ran \subseteq Calls
  /\ {aborted, failure, signal, unrecorded} \subseteq BOOLEAN
  /\ log \in Seq({Ask, End} \union [type : {"call"}, id : Calls, as : {"none"}]
                  \union [type : {"result"}, id : Calls, as : Outcomes])
  /\ durable \in Nat /\ flushing \in [Calls -> Nat]
  /\ switches \in 0..MaxSwitches /\ crashes \in 0..MaxCrashes

Init ==
  /\ pc = "plan" /\ consumed = 0 /\ started = 0 /\ committed = 0
  /\ groupMode = "parallel" /\ aborted = FALSE /\ failure = FALSE
  /\ call = [i \in Calls |-> "idle"] /\ inFlight = {} /\ ran = {}
  /\ signal \in BOOLEAN
  /\ mode \in [Calls -> Modes] /\ startedAs = mode
  /\ log = <<Ask>> /\ durable = 0 /\ flushing = [i \in Calls |-> 0]
  /\ unrecorded = FALSE /\ switches = 0 /\ crashes = 0

-----------------------------------------------------------------------------
(* The scheduler: executeToolCalls and runGroup. *)

GroupEnd == IF groupMode = "parallel" THEN N ELSE consumed + 1

(* startCall up to its await of prepare. *)
StartCall(i) ==
  /\ log' = Append(log, CallEvent(i))
  /\ started' = i
  /\ call' = [call EXCEPT ![i] = "preparing"]
  /\ startedAs' = [startedAs EXCEPT ![i] = mode[i]]
  /\ pc' = "prepare"

(* appendSkippedToolCall for every call from i on: a call and its result. *)
Skipped(i) ==
  [j \in 1..2 * (N + 1 - i) |->
    LET k == i + (j - 1) \div 2
    IN IF j % 2 = 1 THEN CallEvent(k) ELSE ResultEvent(k, "skipped")]

(* What appending the events of t to l leaves when an append may reject:    *)
(* the ones before it.                                                      *)
Appended(l, t) == {SubSeq(l \o t, 1, n) : n \in Len(l)..Len(l \o t)}

(* An aborted batch answers the calls it did not start, and returns. *)
SkipRest ==
  /\ log' = log \o Skipped(started + 1)
  /\ consumed' = N /\ started' = N /\ committed' = N
  /\ pc' = "plan"
  /\ UNCHANGED <<call, startedAs>>

(* The batch throws what its log kept of the answers: the step recovers.    *)
Fails(logs) ==
  /\ log' \in logs
  /\ failure' = TRUE
  /\ pc' = "drain"

(* One of the answers could not be appended. *)
SkipFails ==
  Fails(Appended(log, Skipped(started + 1)) \ {log \o Skipped(started + 1)})

(* The head of executeToolCalls' loop: classify the next call, form its     *)
(* group and start it, unless the signal is aborted already.                *)
Plan ==
  /\ pc = "plan" /\ consumed < N
  /\ groupMode' = mode[consumed + 1]
  /\ aborted' = signal
  /\ IF signal THEN SkipRest
     ELSE StartCall(consumed + 1) /\ UNCHANGED <<consumed, committed>>
  /\ UNCHANGED <<inFlight, failure, flushing, durable, ran, signal, registry, unrecorded, crashes>>

(* executionMode throws, or the append of the first event of the group.     *)
PlanFails ==
  /\ pc = "plan" /\ consumed < N
  /\ Fails({log}) \/ (signal /\ SkipFails)
  /\ UNCHANGED <<scheduler, call, inFlight, flushing, durable, ran, signal, registry, startedAs, unrecorded, crashes>>

(* Every call is consumed: the step ends. *)
StepEnds ==
  /\ pc = "plan" /\ consumed = N
  /\ log' = Append(log, End)
  /\ pc' = "ended"
  /\ UNCHANGED <<scheduler, dispatches, signal, registry, startedAs, unrecorded, crashes>>

(* Wrong: a failure that another dispatch reported meanwhile is not noticed. *)
PreparedUnchecked ==
  /\ pc = "prepare"
  /\ \/ /\ ~signal
        /\ call' = [call EXCEPT ![started] = "checkpoint"]
        /\ inFlight' = inFlight \union {started}
        /\ flushing' = [flushing EXCEPT ![started] = Len(log)]
     \/ /\ call' = [call EXCEPT ![started] = "slot"]
        /\ UNCHANGED <<inFlight, flushing>>
  /\ pc' = "commit"
  /\ UNCHANGED <<scheduler, failure, durable, ran, signal, registry, startedAs, log, unrecorded, crashes>>

(* prepare resolved: the call is dispatched, which begins with the flush of *)
(* its checkpoint, or its result is settled (denied, cancelled, an error).  *)
(* After a scheduler failure it is neither.                                 *)
Prepared ==
  /\ pc = "prepare"
  /\ \/ /\ failure /\ pc' = "drain"
        /\ call' = [call EXCEPT ![started] = "idle"]
        /\ UNCHANGED <<inFlight, flushing>>
     \/ /\ ~failure /\ ~signal /\ pc' = "commit"
        /\ call' = [call EXCEPT ![started] = "checkpoint"]
        /\ inFlight' = inFlight \union {started}
        /\ flushing' = [flushing EXCEPT ![started] = Len(log)]
     \/ /\ ~failure /\ pc' = "commit"
        /\ call' = [call EXCEPT ![started] = "slot"]
        /\ UNCHANGED <<inFlight, flushing>>
  /\ UNCHANGED <<scheduler, failure, durable, ran, signal, registry, startedAs, log, unrecorded, crashes>>

(* prepare rejects. *)
PrepareRejects ==
  /\ pc = "prepare"
  /\ call' = [call EXCEPT ![started] = "idle"]
  /\ failure' = TRUE
  /\ pc' = "drain"
  /\ UNCHANGED <<scheduler, inFlight, flushing, durable, ran, signal, registry, startedAs, log, unrecorded, crashes>>

(* Wrong: results are committed as they settle. *)
ReadyUnordered == {i \in (committed + 1)..started : call[i] = "slot" /\ i \notin Answered(log)}

(* The call commitReady takes next: the first uncommitted one, once settled. *)
Ready == {i \in {committed + 1} : i =< started /\ call[i] = "slot"}

(* One round of commitReady: policy, the result event, its contexts. *)
Commit ==
  /\ pc = "commit"
  /\ \E i \in Ready : log' = Append(log, ResultEvent(i, "done"))
  /\ committed' = committed + 1
  /\ UNCHANGED <<pc, consumed, groupMode, started, aborted, dispatches, signal, registry, startedAs, unrecorded, crashes>>

(* A round of commitReady throws, before or after it appended the result. *)
CommitRejects ==
  /\ pc = "commit"
  /\ \E i \in Ready : log' \in {log, Append(log, ResultEvent(i, "done"))}
  /\ failure' = TRUE
  /\ pc' = "drain"
  /\ UNCHANGED <<scheduler, call, inFlight, flushing, durable, ran, signal, registry, startedAs, unrecorded, crashes>>

(* fillPool's bound on the dispatched calls. *)
Room == Cardinality(inFlight) < MaxParallel

(* Wrong: the group's mode stands for every call of it. *)
MayJoinAsPlanned == started < GroupEnd

(* The next call of the group may start beside the ones in flight. *)
MayJoin ==
  /\ started < GroupEnd
  /\ mode[started + 1] = "parallel"

(* commitReady found no more: the failure is thrown, or fillPool goes on,   *)
(* then the race; with nothing in flight the group is over.                 *)
CommitEnds ==
  /\ pc = "commit" /\ Ready = {}
  /\ IF failure
     THEN pc' = "drain" /\ UNCHANGED <<call, scheduler, startedAs, log>>
     ELSE /\ aborted' = (aborted \/ signal)
          /\ \/ /\ ~aborted' /\ MayJoin /\ Room
                /\ StartCall(started + 1)
                /\ UNCHANGED <<consumed, committed>>
             \/ /\ aborted' \/ ~MayJoin \/ ~Room
                /\ inFlight # {}
                /\ pc' = "race"
                /\ UNCHANGED <<call, consumed, started, committed, startedAs, log>>
             \/ /\ inFlight = {} /\ aborted' /\ SkipRest
             \/ /\ inFlight = {} /\ ~aborted' /\ ~MayJoin
                /\ consumed' = started
                /\ pc' = "plan"
                /\ UNCHANGED <<call, started, committed, startedAs, log>>
          /\ UNCHANGED groupMode
  /\ UNCHANGED <<inFlight, failure, flushing, durable, ran, signal, registry, unrecorded, crashes>>

(* The next start throws, in executionMode or the append of its call, or an *)
(* answer to a call that the aborted batch did not start.                   *)
StartFails ==
  /\ pc = "commit" /\ Ready = {} /\ ~failure
  /\ aborted' = (aborted \/ signal)
  /\ \/ ~aborted' /\ started < GroupEnd /\ Room /\ Fails({log})
     \/ aborted' /\ inFlight = {} /\ SkipFails
  /\ UNCHANGED <<consumed, groupMode, started, committed, call, inFlight, flushing, durable, ran, signal, registry,
                 startedAs, unrecorded, crashes>>

Settled == {i \in inFlight : call[i] \in {"slot", "rejected"}}

(* Wrong: the raced promise stays in the map. *)
RacedKept == inFlight

(* inFlight.delete(settledIndex): of several, the race yields the first. *)
Raced == inFlight \ {Min(Settled)}

(* A dispatched call settled. *)
Race ==
  /\ pc = "race" /\ Settled # {}
  /\ inFlight' = Raced
  /\ pc' = IF failure THEN "drain" ELSE "commit"
  /\ UNCHANGED <<scheduler, call, failure, flushing, durable, ran, signal, registry, startedAs, log, unrecorded, crashes>>

-----------------------------------------------------------------------------
(* Recovery: ToolCallRecovery and openTurnClosers. *)

(* Requests of the assistant message without a result, in its order; a      *)
(* closed step has none.                                                    *)
PendingCalls(l) ==
  LET open == IF Ask \in ToSet(l) /\ End \notin ToSet(l) THEN Calls \ Answered(l) ELSE {}
  IN [j \in 1..Cardinality(open) |->
       CHOOSE i \in open : Cardinality({k \in open : k =< i}) = j]

(* The error results for them, told apart by a recorded call. *)
results(l) ==
  LET pending == PendingCalls(l) IN
  [j \in DOMAIN pending |->
    ResultEvent(pending[j], IF CallEvent(pending[j]) \in ToSet(l) THEN "unknown" ELSE "notStarted")]

Closers(l) == results(l) \o (IF End \in ToSet(l) THEN << >> ELSE <<End>>)

(* Every dispatch settled: the failure reaches the step, which records an   *)
(* error result for each call left without one, until an append rejects,    *)
(* and ends either way.                                                     *)
DrainEnds ==
  /\ pc = "drain" /\ Settled = inFlight
  /\ inFlight' = {}
  /\ \E recorded \in Appended(log, results(log)) :
       /\ log' = Append(recorded, End)
       /\ unrecorded' = (recorded # log \o results(log))
  /\ pc' = "ended"
  /\ UNCHANGED <<scheduler, call, failure, flushing, durable, ran, signal, registry, startedAs, crashes>>

(* resume(): the stored log, then the closers of its open tail. *)
Resume ==
  /\ pc = "crashed"
  /\ log' = log \o Closers(log)
  /\ pc' = "resumed"
  /\ UNCHANGED <<scheduler, dispatches, signal, registry, startedAs, unrecorded, crashes>>

-----------------------------------------------------------------------------
(* The dispatched calls, on their own.                                       *)

(* Wrong: the body is invoked while the checkpoint is still being written. *)
CheckpointedEarly(i) ==
  /\ call[i] = "checkpoint"
  /\ call' = [call EXCEPT ![i] = IF signal THEN "slot" ELSE "running"]
  /\ ran' = IF signal THEN ran ELSE ran \union {i}
  /\ UNCHANGED <<pc, scheduler, inFlight, failure, flushing, durable, signal, registry, startedAs, log, unrecorded, crashes>>

(* The checkpoint's flush resolved: the body runs, unless the signal was    *)
(* aborted meanwhile.                                                       *)
Checkpointed(i) ==
  /\ call[i] = "checkpoint"
  /\ durable' = Max({durable, flushing[i]})
  /\ call' = [call EXCEPT ![i] = IF signal THEN "slot" ELSE "running"]
  /\ ran' = IF signal THEN ran ELSE ran \union {i}
  /\ UNCHANGED <<pc, scheduler, inFlight, failure, flushing, signal, registry, startedAs, log, unrecorded, crashes>>

(* The flush failed: an error result, and no body. *)
CheckpointFails(i) ==
  /\ call[i] = "checkpoint"
  /\ call' = [call EXCEPT ![i] = "slot"]
  /\ UNCHANGED <<pc, scheduler, inFlight, failure, flushing, durable, ran, signal, registry, startedAs, log, unrecorded, crashes>>

(* The body returned, threw, or gave in to the abort. *)
BodySettles(i) ==
  /\ call[i] = "running"
  /\ call' = [call EXCEPT ![i] = "slot"]
  /\ UNCHANGED <<pc, scheduler, inFlight, failure, flushing, durable, ran, signal, registry, startedAs, log, unrecorded, crashes>>

(* The dispatch promise itself rejects: the first schedulerFailure. *)
DispatchRejects(i) ==
  /\ call[i] \in {"checkpoint", "running"}
  /\ call' = [call EXCEPT ![i] = "rejected"]
  /\ failure' = TRUE
  /\ UNCHANGED <<pc, scheduler, inFlight, flushing, durable, ran, signal, registry, startedAs, log, unrecorded, crashes>>

-----------------------------------------------------------------------------
(* The world: cancellation, the registry, crashes. *)

Live == pc \notin {"ended", "crashed", "resumed"}

Abort ==
  /\ Live /\ ~signal
  /\ signal' = TRUE
  /\ UNCHANGED <<pc, scheduler, dispatches, registry, startedAs, log, unrecorded, crashes>>

(* A registration changed the mode of a call that has not started. *)
Reclassify(i) ==
  /\ Live /\ i > started /\ switches < MaxSwitches
  /\ mode' = [mode EXCEPT ![i] = IF @ = "parallel" THEN "exclusive" ELSE "parallel"]
  /\ switches' = switches + 1
  /\ UNCHANGED <<pc, scheduler, dispatches, signal, startedAs, log, unrecorded, crashes>>

(* The process dies; the stored log is a prefix with all that was flushed.  *)
Crash ==
  /\ pc # "crashed" /\ crashes < MaxCrashes
  /\ \E kept \in durable..Len(log) : log' = SubSeq(log, 1, kept)
  /\ pc' = "crashed"
  /\ call' = [i \in Calls |-> "idle"] /\ inFlight' = {}
  /\ unrecorded' = (unrecorded /\ End \in ToSet(log'))
  /\ crashes' = crashes + 1
  /\ UNCHANGED <<scheduler, failure, flushing, durable, ran, signal, registry, startedAs>>

-----------------------------------------------------------------------------

Step ==
  \/ Plan \/ PlanFails \/ StepEnds \/ Prepared \/ PrepareRejects \/ Commit \/ CommitRejects
  \/ CommitEnds \/ StartFails \/ Race \/ DrainEnds

Dispatch(i) == Checkpointed(i) \/ CheckpointFails(i) \/ BodySettles(i) \/ DispatchRejects(i)

Next ==
  \/ Step
  \/ \E i \in Calls : Dispatch(i) \/ Reclassify(i)
  \/ Abort \/ Crash \/ Resume

Spec == Init /\ [][Next]_vars

(* Policies, flushes and tool bodies settle: the runtime awaits each body   *)
(* to its end and has no timeout of its own.                                *)
Fairness == WF_vars(Step) /\ \A i \in Calls : WF_vars(Dispatch(i))

LiveSpec == Spec /\ Fairness

-----------------------------------------------------------------------------
(* Results appear in model order, one for each call and none twice, each    *)
(* after its call unless it says the call was not started; when the step    *)
(* closed, by completion, abort, failure or crash recovery, no request of   *)
(* a stored assistant message is left unanswered, but in a failed step that *)
(* could not record an answer either and whose end is stored: resume() does *)
(* not repair that one.                                                     *)
AnsweredInOrder ==
  /\ TypeOK
  /\ \A m \in DOMAIN log : log[m].type = "result" =>
       /\ AnsweredIn(log, m - 1) = 1..(log[m].id - 1)
       /\ log[m].as # "notStarted" => \E k \in 1..(m - 1) : log[k] = CallEvent(log[m].id)
  /\ pc \in {"ended", "resumed"} /\ Ask \in ToSet(log) /\ ~unrecorded => Answered(log) = Calls
  /\ unrecorded => failure

(* What the model is told did not run did not run, so that it may safely    *)
(* ask again: neither an aborted batch nor a failed one nor the recovery of *)
(* a crashed one gives that answer to a call whose body was invoked.        *)
NotStartedNeverRan ==
  \A m \in DOMAIN log : log[m].as \in {"notStarted", "skipped"} => log[m].id \notin ran

Busy == {i \in Calls : call[i] \in {"preparing", "checkpoint", "running"}}

(* An exclusive call is a barrier, also when a registry change made it one  *)
(* while the pool was running, and parallel ones stay within the pool.      *)
ExclusiveAlone ==
  /\ \A i \in Busy : startedAs[i] = "exclusive" => Busy = {i}
  /\ Cardinality(inFlight) =< MaxParallel

(* A scheduler failure starts and dispatches nothing more, wherever the     *)
(* scheduler was when it happened.                                          *)
FailureStopsDispatch ==
  [][failure => started' = started /\ inFlight' \subseteq inFlight]_vars

(* The batch ends once what it started has settled, whatever was aborted,   *)
(* failed or reclassified on the way.                                       *)
BatchEnds == <>(pc \in {"ended", "crashed"})
=============================================================================
