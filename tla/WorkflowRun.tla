---------------------------- MODULE WorkflowRun ----------------------------
(***************************************************************************)
(* One workflow run of workflow-ptc: the host half (host.ts, PtcWorkflowRun) *)
(* and the guest half in the sandboxed process (guest.ts, runtime.ts).     *)
(*                                                                         *)
(* An agent() call of the script takes a concurrency slot, asks the host   *)
(* for a child, announces it, waits for its result, announces the end,     *)
(* drains the progress channel, has the child disposed and gives the slot  *)
(* back.  The guest's calls to the host are messages in flight: the host   *)
(* handles a call, and the guest receives the reply, in one step, any time *)
(* after it was sent and in any order.  Once the signal is aborted every   *)
(* binding throws, so the guest's further steps cannot reach the host and  *)
(* are left out.  Child results are "completed" or "failed" whatever their *)
(* text; the script is free to drop a call and to return at any time.      *)
(***************************************************************************)
EXTENDS Naturals, FiniteSets, SequencesExt

CONSTANTS
  MaxTotalAgents,        \* limits.maxTotalAgents
  MaxConcurrentAgents    \* limits.maxConcurrentAgents

ASSUME LimitsAssumption == MaxTotalAgents \in Nat /\ MaxConcurrentAgents \in Nat \ {0}

Calls == 1..MaxTotalAgents

VARIABLES
  drive,        \* the host's drive(): "cwd", "running", "settling", "sweeping", "done"
  aborted,      \* controller.signal.aborted
  cancelled,    \* cancelReason is set
  result,       \* what drive() will return: "none" until the program ended
  child,        \* c -> "none", "starting", "live", "disposing", "late", "gone"
  announced,    \* c -> agent events the observer saw: "none", "started", "ended"
  script,       \* the guest: "running", "draining", "sent"
  value,        \* its stopReason: "completed" or "error"
  call,         \* c -> "none", "waiting", "starting", "awaiting", "ended", "disposing", "done"
  slotWaiters,  \* calls queued for a slot
  queued,       \* progress events behind the batch in flight
  inFlight      \* the batch in flight, << >> when none

hostVars == <<drive, aborted, cancelled, result, child, announced>>
guestVars == <<script, value, call, slotWaiters, queued, inFlight>>
vars == <<hostVars, guestVars>>

(* Calls between acquireSlot and releaseSlot. *)
Active == {c \in Calls : call[c] \in {"starting", "awaiting", "ended", "disposing"}}

(* Startups whose startChild task is in `pending`: a child published after  *)
(* the abort keeps it there until it is disposed.                           *)
Pending == {c \in Calls : child[c] \in {"starting", "late"}}

Event(kind, c) == [kind |-> kind, call |-> c]

(* Types; progress is queued only behind a frame in flight; and the guest's *)
(* slots bound the children the host holds at once.                         *)
TypeOK ==
  /\ drive \in {"cwd", "running", "settling", "sweeping", "done"}
  /\ aborted \in BOOLEAN /\ cancelled \in BOOLEAN
  /\ result \in {"none", "completed", "error", "cancelled"}
  /\ child \in [Calls -> {"none", "starting", "live", "disposing", "late", "gone"}]
  /\ announced \in [Calls -> {"none", "started", "ended"}]
  /\ script \in {"running", "draining", "sent"} /\ value \in {"completed", "error"}
  /\ call \in [Calls -> {"none", "waiting", "starting", "awaiting", "ended", "disposing", "done"}]
  /\ slotWaiters \in Seq(Calls)
  /\ \A q \in {queued, inFlight} : q \in Seq([kind : {"start", "end"}, call : Calls])
  /\ queued # << >> => inFlight # << >>
  /\ Cardinality({c \in Calls : child[c] \notin {"none", "gone"}}) <= MaxConcurrentAgents

Init ==
  /\ drive = "cwd" /\ aborted = FALSE /\ cancelled = FALSE /\ result = "none"
  /\ child = [c \in Calls |-> "none"]
  /\ announced = [c \in Calls |-> "none"]
  /\ script = "running" /\ value = "completed"
  /\ call = [c \in Calls |-> "none"]
  /\ slotWaiters = << >> /\ queued = << >> /\ inFlight = << >>

-----------------------------------------------------------------------------
(* Guest *)

(* The guest can reach the host. *)
GuestRuns == drive = "running" /\ ~aborted

(* send() and flush(): one batch in flight, the rest queue behind it. *)
Send(e) ==
  IF inFlight = << >>
  THEN inFlight' = <<e>> /\ UNCHANGED queued
  ELSE queued' = Append(queued, e) /\ UNCHANGED inFlight

(* Wrong: the freed slot is not handed to the oldest waiter alone. *)
ReleaseAllWaiters(c) ==
  /\ call' = [d \in Calls |-> IF d = c THEN "done"
                              ELSE IF call[d] = "waiting" THEN "starting" ELSE call[d]]
  /\ slotWaiters' = << >>

(* releaseSlot() as call c ends: the slot goes to the oldest waiter. *)
ReleaseSlot(c) ==
  IF slotWaiters = << >>
  THEN call' = [call EXCEPT ![c] = "done"] /\ UNCHANGED slotWaiters
  ELSE /\ call' = [call EXCEPT ![c] = "done", ![Head(slotWaiters)] = "starting"]
       /\ slotWaiters' = Tail(slotWaiters)

(* The agent() hook up to startChild; calls beyond the cap throw.  A free   *)
(* slot is taken at once, else the call queues.                             *)
Agent(c) ==
  /\ GuestRuns /\ call[c] = "none"
  /\ \A d \in 1..(c - 1) : call[d] # "none"
  /\ IF Cardinality(Active) < MaxConcurrentAgents
     THEN call' = [call EXCEPT ![c] = "starting"] /\ UNCHANGED slotWaiters
     ELSE call' = [call EXCEPT ![c] = "waiting"] /\ slotWaiters' = Append(slotWaiters, c)
  /\ UNCHANGED <<hostVars, script, value, queued, inFlight>>

(* Wrong: the child is disposed while its progress may still be queued. *)
DisposeUndrained(c) ==
  /\ GuestRuns /\ call[c] = "ended" /\ child[c] = "live"
  /\ call' = [call EXCEPT ![c] = "disposing"]
  /\ child' = [child EXCEPT ![c] = "disposing"]
  /\ UNCHANGED <<drive, aborted, cancelled, result, announced,
                 script, value, slotWaiters, queued, inFlight>>

(* The dispose() of a finished call: drain(), then disposeChild. *)
Dispose(c) ==
  /\ GuestRuns /\ call[c] = "ended" /\ child[c] = "live"
  /\ inFlight = << >>
  /\ call' = [call EXCEPT ![c] = "disposing"]
  /\ child' = [child EXCEPT ![c] = "disposing"]
  /\ UNCHANGED <<drive, aborted, cancelled, result, announced,
                 script, value, slotWaiters, queued, inFlight>>

(* The script settles, with agent() calls it dropped possibly still going. *)
ScriptReturns(v) ==
  /\ GuestRuns /\ script = "running"
  /\ script' = "draining" /\ value' = v
  /\ UNCHANGED <<hostVars, call, slotWaiters, queued, inFlight>>

(* runWorkflowGuest returns once the progress channel was drained. *)
GuestReturns ==
  /\ GuestRuns /\ script = "draining" /\ inFlight = << >>
  /\ script' = "sent"
  /\ UNCHANGED <<hostVars, value, call, slotWaiters, queued, inFlight>>

-----------------------------------------------------------------------------
(* Host bindings *)

(* startChild while the run is active: startActivation is pending. *)
StartChild(c) ==
  /\ GuestRuns /\ call[c] = "starting" /\ child[c] = "none"
  /\ child' = [child EXCEPT ![c] = "starting"]
  /\ UNCHANGED <<drive, aborted, cancelled, result, announced, guestVars>>

(* The provider publishes the child.  After an abort it is disposed at once *)
(* and the startChild task fails; else the guest announces it and reads its *)
(* result.                                                                  *)
ChildStarted(c) ==
  /\ child[c] = "starting"
  /\ IF aborted
     THEN /\ child' = [child EXCEPT ![c] = "late"]
          /\ UNCHANGED <<call, queued, inFlight>>
     ELSE /\ child' = [child EXCEPT ![c] = "live"]
          /\ call' = [call EXCEPT ![c] = "awaiting"]
          /\ Send(Event("start", c))
  /\ UNCHANGED <<drive, aborted, cancelled, result, announced, script, value, slotWaiters>>

(* startActivation rejects: AGENT_START, the slot is given back. *)
ChildStartFails(c) ==
  /\ child[c] = "starting"
  /\ child' = [child EXCEPT ![c] = "gone"]
  /\ IF aborted THEN UNCHANGED <<call, slotWaiters>> ELSE ReleaseSlot(c)
  /\ UNCHANGED <<drive, aborted, cancelled, result, announced, script, value, queued, inFlight>>

(* The child's result, or its rejection, reaches agent(), which announces   *)
(* the end of the agent.  An aborted read rejects instead.                  *)
ChildResult(c) ==
  /\ GuestRuns /\ call[c] = "awaiting" /\ child[c] = "live"
  /\ call' = [call EXCEPT ![c] = "ended"]
  /\ Send(Event("end", c))
  /\ UNCHANGED <<hostVars, script, value, slotWaiters>>

(* record.run.dispose() settled, resolved or not: the record is forgotten   *)
(* and, while the run is active, the waiting call gives its slot back.      *)
ChildDisposed(c) ==
  /\ child[c] \in {"disposing", "late"}
  /\ child' = [child EXCEPT ![c] = "gone"]
  /\ IF GuestRuns /\ call[c] = "disposing" THEN ReleaseSlot(c) ELSE UNCHANGED <<call, slotWaiters>>
  /\ UNCHANGED <<drive, aborted, cancelled, result, announced, script, value, queued, inFlight>>

(* onProgress for each event of a batch, in its order: a start makes the    *)
(* call's agent live, an end without a live agent is ignored.  A call sends *)
(* each of the two once.                                                    *)
OnProgress(seen, batch) ==
  [c \in Calls |->
    LET starts == {i \in DOMAIN batch : batch[i] = Event("start", c)}
        ends == {j \in DOMAIN batch : batch[j] = Event("end", c)}
    IN IF \E j \in ends : seen[c] = "started" \/ \E i \in starts : i < j THEN "ended"
       ELSE IF starts # {} THEN "started" ELSE seen[c]]

(* The progress binding: the batch is applied, its acknowledgement flushes  *)
(* what queued behind it.                                                   *)
Progress ==
  /\ GuestRuns /\ inFlight # << >>
  /\ announced' = OnProgress(announced, inFlight)
  /\ inFlight' = queued /\ queued' = << >>
  /\ UNCHANGED <<drive, aborted, cancelled, result, child, script, value, call, slotWaiters>>

-----------------------------------------------------------------------------
(* Host lifecycle *)

(* disposeChild for every published record. *)
DisposePublished == child' = [c \in Calls |-> IF child[c] = "live" THEN "disposing" ELSE child[c]]

(* Wrong: the signal is not aborted. *)
CancelUnsignalled ==
  /\ drive \in {"cwd", "running"} /\ ~cancelled
  /\ cancelled' = TRUE
  /\ DisposePublished
  /\ UNCHANGED <<drive, aborted, result, announced, guestVars>>

(* cancel(), by the holder, by dispose() or by the external signal: the     *)
(* first request before the program ended wins.                             *)
Cancel ==
  /\ drive \in {"cwd", "running"} /\ ~cancelled
  /\ cancelled' = TRUE /\ aborted' = TRUE
  /\ DisposePublished
  /\ UNCHANGED <<drive, result, announced, guestVars>>

(* The working directory is known and the run still active. *)
Begin ==
  /\ drive = "cwd" /\ ~aborted
  /\ drive' = "running"
  /\ UNCHANGED <<aborted, cancelled, result, child, announced, guestVars>>

(* Wrong: the program's own stop reason survives a cancellation. *)
OutcomeOfProgram(r) == r

(* An accepted cancellation is the outcome, whatever the program reported. *)
Outcome(r) == IF cancelled THEN "cancelled" ELSE r

(* The program ended with r, or the attempt to run it failed: terminal is   *)
(* set and the finally block aborts the signal and disposes the published   *)
(* children.                                                                *)
Conclude(r) ==
  /\ drive \in {"cwd", "running"}
  /\ r = "completed" => drive = "running" /\ script = "sent" /\ value = "completed"
  /\ result' = Outcome(r)
  /\ aborted' = TRUE
  /\ DisposePublished
  /\ drive' = "settling"
  /\ UNCHANGED <<cancelled, announced, guestVars>>

(* Wrong: admitted startups are not waited for. *)
PendingIgnored ==
  /\ drive = "settling"
  /\ DisposePublished
  /\ drive' = "sweeping"
  /\ UNCHANGED <<aborted, cancelled, result, announced, guestVars>>

(* while (pending.size > 0) await Promise.allSettled([...pending]), then    *)
(* the children that remain are disposed.                                   *)
PendingSettled ==
  /\ drive = "settling" /\ Pending = {}
  /\ DisposePublished
  /\ drive' = "sweeping"
  /\ UNCHANGED <<aborted, cancelled, result, announced, guestVars>>

(* Their disposals settled; agents still live end "cancelled". *)
Swept ==
  /\ drive = "sweeping" /\ \A c \in Calls : child[c] # "disposing"
  /\ announced' = [c \in Calls |-> IF announced[c] = "started" THEN "ended" ELSE announced[c]]
  /\ drive' = "done"
  /\ UNCHANGED <<aborted, cancelled, result, child, guestVars>>

(* The result is settled; the holder may keep it for ever. *)
Settled == drive = "done" /\ UNCHANGED vars

HostNext ==
  \/ Cancel \/ Begin \/ PendingSettled \/ Swept \/ Settled \/ Progress
  \/ \E r \in {"completed", "error"} : Conclude(r)
  \/ \E c \in Calls : StartChild(c) \/ ChildStarted(c) \/ ChildStartFails(c)
                      \/ ChildResult(c) \/ ChildDisposed(c)

GuestNext ==
  \/ GuestReturns
  \/ \E v \in {"completed", "error"} : ScriptReturns(v)
  \/ \E c \in Calls : Agent(c) \/ Dispose(c)

Next == HostNext \/ GuestNext

Spec == Init /\ [][Next]_vars

(* The runtime stops an aborted program and returns a finished one, a       *)
(* provider honours the startup signal and releases what it is asked to.    *)
Fairness ==
  /\ WF_vars(Begin) /\ WF_vars(PendingSettled) /\ WF_vars(Swept)
  /\ WF_vars((aborted \/ script = "sent") /\ \E r \in {"completed", "error"} : Conclude(r))
  /\ \A c \in Calls :
       /\ WF_vars(aborted /\ (ChildStarted(c) \/ ChildStartFails(c)))
       /\ WF_vars(ChildDisposed(c))

LiveSpec == Spec /\ Fairness

-----------------------------------------------------------------------------
(* Properties *)

(* drive() returns only after every admitted child was released and every   *)
(* agent the observer saw start was also seen to end, however startup,      *)
(* cancellation and the end of the program interleave.                      *)
SettledIsClean ==
  drive = "done" => \A c \in Calls : child[c] \in {"none", "gone"} /\ announced[c] # "started"

(* An agent event is delivered while the child it names is registered with  *)
(* the host: drain() keeps a child alive until its events were seen.  Only  *)
(* the closing sweep announces ends of children that are gone.              *)
AnnouncedWhileLive ==
  [][\A c \in Calls : announced'[c] # announced[c] => child[c] = "live" \/ drive' = "done"]_vars

Handle == INSTANCE RunHandle WITH
  children <- {c \in Calls : child[c] \notin {"none", "gone"}},
  stopped <- aborted,
  outcome <- IF drive = "done" THEN result ELSE "none"

(* The run is what its holder relies on: see RunHandle. *)
ImplementsRunHandle == Handle!Spec

(* A cancelled run, and one whose program returned, settles: dispose()      *)
(* never hangs on a child that starts late.                                 *)
RunSettles == (cancelled \/ script = "sent") ~> drive = "done"
=============================================================================
