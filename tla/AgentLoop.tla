----------------------------- MODULE AgentLoop -----------------------------
(***************************************************************************)
(* The driver of one agent (agent-loop/src/agent.ts, ReactLoopAgent) and    *)
(* its inbox (inbox.ts).  A waking message starts the driver, which opens   *)
(* turns and, in each, claims pending input, lets pre-step listeners decide *)
(* on it and runs a step, until nothing is pending; a cancel aborts the     *)
(* activity under way.                                                     *)
(*                                                                         *)
(* The driver stops at its awaits and where it emits events whose listeners *)
(* may call back into the agent, the observers of its own appends to the    *)
(* session log included; between two such points it runs without            *)
(* interruption.  Assembly, the model stream with its retries and the tool  *)
(* calls are external: a step ends with more to do (tool results) or not,   *)
(* throws, or sees the abort.  Messages are identities; what a turn logs is *)
(* whether its turn and step are open.  The session log accepts every       *)
(* append that does not reenter another.                                    *)
(***************************************************************************)
EXTENDS Naturals, FiniteSets, SequencesExt

CONSTANTS
  Prompts,    \* messages sent with wakeup (followup, steer)
  Notes,      \* messages sent without (inject)
  Causes,     \* cancel causes in use: "user" (parent and hook alike), "disposed"
  Failures    \* what listeners and the step may do: "reject", "rewrite", "error"

ASSUME AgentLoopAssumption ==
  /\ Prompts \intersect Notes = {}
  /\ Causes \subseteq {"user", "disposed"} /\ Failures \subseteq {"reject", "rewrite", "error"}

Messages == Prompts \union Notes
Targets == {"next-turn", "next-step"}
Endings == {"none", "completed", "max-tokens"}

VARIABLES
  phase,          \* "idle", "maintenance", "running"
  abort,          \* first cause the activity's signal was aborted with, or "none"
  wakeRequested,  \* the phase's latched wake
  at,             \* where the running driver is
  stepped,        \* phase.step > 0: this turn had a step
  ended,          \* turnEnds as the steps of this turn left it
  inbox,          \* target -> pending messages
  hand,           \* messages claimed for the step being proposed
  fate,           \* message -> "unsent", "sent", "admitted", "discarded", "dropped"
  turnOpen,       \* turn/start logged, turn/end not
  stepOpen,       \* step/start logged, step/end not
  disposed        \* teardown has cancelled the agent

control == <<phase, abort, wakeRequested, at, stepped, ended>>
mail == <<inbox, hand, fate>>
log == <<turnOpen, stepOpen>>
vars == <<control, mail, log, disposed>>

Queued(target) == ToSet(inbox[target])
Pending == Queued("next-turn") \union Queued("next-step")

TypeOK ==
  /\ phase \in {"idle", "maintenance", "running"}
  /\ abort \in Causes \union {"none"} /\ (phase = "idle" => abort = "none")
  /\ wakeRequested \in BOOLEAN /\ stepped \in BOOLEAN /\ ended \in Endings
  /\ at \in {"none", "open", "claim", "claimTurn", "preStep", "step", "admit", "request", "stopping",
             "turnEnd", "retire"}
  /\ (at = "none") <=> (phase # "running")
  /\ inbox \in [Targets -> Seq(Messages)] /\ hand \in Seq(Messages)
  /\ fate \in [Messages -> {"unsent", "sent", "admitted", "discarded", "dropped"}]
  /\ turnOpen \in BOOLEAN /\ stepOpen \in BOOLEAN /\ disposed \in BOOLEAN

Init ==
  /\ phase = "idle" /\ abort = "none" /\ wakeRequested = FALSE
  /\ at = "none" /\ stepped = FALSE /\ ended = "none"
  /\ inbox = [t \in Targets |-> << >>] /\ hand = << >>
  /\ fate = [m \in Messages |-> "unsent"]
  /\ turnOpen = FALSE /\ stepOpen = FALSE /\ disposed = FALSE

Settle(messages, outcome) ==
  fate' = [m \in Messages |-> IF m \in messages THEN outcome ELSE fate[m]]

-----------------------------------------------------------------------------
(* Callers *)

(* Where only the observers of an append by the driver run: of turn/start or *)
(* step/end, of the first splice of a claim, of turn/end.  An append that    *)
(* reenters is refused, so they can neither send nor remove, and a cancel    *)
(* that would clear pending messages throws before it aborts.                *)
Publishing == at \in {"claim", "claimTurn", "turnEnd"}

(* A phase with a fresh controller and no latch. *)
EnterPhase(kind, driver) ==
  /\ phase' = kind /\ at' = driver /\ abort' = "none" /\ wakeRequested' = FALSE
  /\ stepped' = FALSE /\ ended' = "none"

(* wakeDriver(): start a driver, or latch the wake behind maintenance or an *)
(* aborted activity; never behind a disposal.                               *)
WakeDriver(wakeAfterAbort) ==
  IF phase = "idle" THEN EnterPhase("running", "open")
  ELSE /\ wakeRequested' = (wakeRequested \/ (abort # "disposed" /\ (phase = "maintenance" \/ wakeAfterAbort)))
       /\ UNCHANGED <<phase, abort, at, stepped, ended>>

(* send(): waking input cannot join an aborted activity. *)
Send(m, target) ==
  LET wakeup == m \in Prompts
      wakingAfterAbort == wakeup /\ phase # "idle" /\ abort # "none"
      resolved == IF wakingAfterAbort THEN "next-turn" ELSE target
  IN  /\ ~Publishing
      /\ fate[m] = "unsent" /\ (m \in Notes => target = "next-step")
      /\ inbox' = [inbox EXCEPT ![resolved] = Append(@, m)]
      /\ fate' = [fate EXCEPT ![m] = "sent"]
      /\ IF wakeup THEN WakeDriver(wakingAfterAbort) ELSE UNCHANGED control
      /\ UNCHANGED <<hand, log, disposed>>

(* cancel(): the inbox and the latch go unless kept; the first cause stays. *)
Cancel(cause, keepInbox) ==
  /\ Publishing => keepInbox \/ Pending = {}
  /\ at = "claimTurn" => hand # << >>
  /\ IF keepInbox THEN UNCHANGED <<inbox, fate, wakeRequested>>
     ELSE /\ inbox' = [t \in Targets |-> << >>] /\ Settle(Pending, "discarded")
          /\ wakeRequested' = FALSE
  /\ abort' = IF phase # "idle" /\ abort = "none" THEN cause ELSE abort
  /\ disposed' = (disposed \/ cause = "disposed")
  /\ UNCHANGED <<phase, at, stepped, ended, hand, log>>

(* inbox.remove() of a pending message: locate it and splice it out. *)
RemoveMessage(m) ==
  /\ ~Publishing
  /\ \E target \in Targets : \E i \in DOMAIN inbox[target] :
       inbox[target][i] = m /\ inbox' = [inbox EXCEPT ![target] = RemoveAt(@, i)]
  /\ fate' = [fate EXCEPT ![m] = "discarded"]
  /\ UNCHANGED <<control, hand, log, disposed>>

(* runMaintenance() from the idle phase. *)
RunMaintenance ==
  /\ phase = "idle"
  /\ EnterPhase("maintenance", "none")
  /\ UNCHANGED <<mail, log, disposed>>

(* The task settles: replay a latched wake whose message is still pending. *)
MaintenanceEnds ==
  /\ phase = "maintenance"
  /\ IF abort # "disposed" /\ wakeRequested /\ Pending # {}
     THEN EnterPhase("running", "open") ELSE EnterPhase("idle", "none")
  /\ UNCHANGED <<mail, log, disposed>>

-----------------------------------------------------------------------------
(* The driver *)

At(place) == phase = "running" /\ at = place
Aborted == abort # "none"
GoTo(place) == at' = place /\ UNCHANGED <<phase, abort, wakeRequested>>

(* Wrong: a turn that throws leaves its step open in the log. *)
UnwindOpenStep ==
  /\ turnOpen' = FALSE /\ UNCHANGED stepOpen
  /\ Settle(ToSet(hand), "dropped") /\ hand' = << >> /\ UNCHANGED inbox
  /\ GoTo("retire") /\ UNCHANGED <<stepped, ended, disposed>>

(* A throw out of turn(): step/end and turn/end are logged on the way. *)
Unwind ==
  /\ turnOpen' = FALSE /\ stepOpen' = FALSE
  /\ Settle(ToSet(hand), "dropped") /\ hand' = << >> /\ UNCHANGED inbox
  /\ GoTo("retire") /\ UNCHANGED <<stepped, ended, disposed>>

(* throwIfAborted() or a failure, at a place of the driver. *)
Throws(place) == At(place) /\ (Aborted \/ "error" \in Failures) /\ Unwind

(* turn/end of a turn that ran its course. *)
EndTurn == turnOpen' = FALSE /\ GoTo("turnEnd") /\ UNCHANGED <<stepped, ended>>

(* turn() returns: another turn if work is pending, under a fresh controller *)
(* whatever the observers of turn/end did to the old one; else false.        *)
NextTurn ==
  /\ At("turnEnd")
  /\ IF Pending # {} THEN EnterPhase("running", "open")
     ELSE GoTo("retire") /\ UNCHANGED <<stepped, ended>>
  /\ UNCHANGED <<mail, log, disposed>>

(* turn() up to turn/start. *)
OpenTurn ==
  /\ At("open") /\ ~Aborted
  /\ turnOpen' = TRUE
  /\ GoTo("claim")
  /\ UNCHANGED <<stepped, ended, mail, stepOpen, disposed>>

(* Wrong: the steering stays queued after it was claimed. *)
ClaimKeepsSteering ==
  /\ At("claim") /\ ~Aborted
  /\ hand' = inbox["next-step"] /\ UNCHANGED inbox
  /\ GoTo(IF stepped THEN "preStep" ELSE "claimTurn")
  /\ UNCHANGED <<stepped, ended, fate, log, disposed>>

(* claim(): all steering, *)
Claim ==
  /\ At("claim") /\ ~Aborted
  /\ hand' = inbox["next-step"] /\ inbox' = [inbox EXCEPT !["next-step"] = << >>]
  /\ GoTo(IF stepped THEN "preStep" ELSE "claimTurn")
  /\ UNCHANGED <<stepped, ended, fate, log, disposed>>

(* and, without another look at the signal, one queued prompt for the        *)
(* turn's first step.                                                        *)
ClaimTurn ==
  LET turns == inbox["next-turn"]
      taken == IF turns = << >> THEN 0 ELSE 1
  IN  /\ At("claimTurn")
      /\ hand' = hand \o SubSeq(turns, 1, taken)
      /\ inbox' = [inbox EXCEPT !["next-turn"] = SubSeq(turns, taken + 1, Len(turns))]
      /\ GoTo("preStep")
      /\ UNCHANGED <<stepped, ended, fate, log, disposed>>

(* A pre-step listener rejects: the turn ends blocked. *)
Reject ==
  /\ At("preStep") /\ ~Aborted /\ "reject" \in Failures
  /\ Unwind

(* The listeners empty the proposal, or it was empty and there is no        *)
(* runtime context to add: the turn ends, unless a tool step must go on.    *)
EnterEmpty ==
  /\ At("preStep") /\ ~Aborted /\ (hand = << >> \/ "rewrite" \in Failures)
  /\ Settle(ToSet(hand), "dropped") /\ hand' = << >> /\ UNCHANGED inbox
  /\ \/ ended # "none" /\ EndTurn /\ UNCHANGED stepOpen
     \/ ended = "none" /\ ~stepped /\ turnOpen' = FALSE /\ GoTo("retire") /\ UNCHANGED <<stepped, ended, stepOpen>>
     \/ ended = "none" /\ stepped /\ stepOpen' = TRUE /\ GoTo("step") /\ UNCHANGED <<stepped, ended, turnOpen>>
  /\ UNCHANGED disposed

(* Wrong: the abort is not looked at after the listeners. *)
EnterUnchecked ==
  /\ At("preStep")
  /\ stepOpen' = TRUE /\ stepped' = TRUE
  /\ GoTo("step")
  /\ UNCHANGED <<ended, mail, turnOpen, disposed>>

(* The proposal enters a step: step/start.  Runtime context may fill an     *)
(* empty proposal.                                                          *)
Enter ==
  /\ At("preStep") /\ ~Aborted
  /\ stepOpen' = TRUE /\ stepped' = TRUE
  /\ GoTo("step")
  /\ UNCHANGED <<ended, mail, turnOpen, disposed>>

(* step() up to the admission: the request is prepared. *)
Prepare ==
  /\ At("step") /\ ~Aborted
  /\ GoTo("admit")
  /\ UNCHANGED <<stepped, ended, mail, log, disposed>>

(* A request-context listener throws: nothing is admitted. *)
AdmissionThrows == At("admit") /\ "error" \in Failures /\ Unwind

(* The request-context listeners return: the messages are admitted, aborted *)
(* or not, and the request is built unless aborted.                         *)
Admit ==
  /\ At("admit")
  /\ Settle(ToSet(hand), "admitted") /\ hand' = << >> /\ UNCHANGED inbox
  /\ IF Aborted THEN turnOpen' = FALSE /\ stepOpen' = FALSE /\ GoTo("retire")
     ELSE UNCHANGED log /\ GoTo("request")
  /\ UNCHANGED <<stepped, ended, disposed>>

(* The model and its tools are done: step/end.  Tool calls leave `ending`   *)
(* at "none"; a turn that once hit max-tokens keeps that ending.  An ended  *)
(* turn stops unless steering is pending.                                   *)
StepEnds(ending) ==
  /\ At("request") /\ ~Aborted
  /\ stepOpen' = FALSE
  /\ ended' = IF ended = "max-tokens" THEN ended ELSE ending
  /\ GoTo(IF ended' # "none" /\ inbox["next-step"] = << >> THEN "stopping" ELSE "claim")
  /\ UNCHANGED <<stepped, mail, turnOpen, disposed>>

(* The turn-stopping listeners are done. *)
Stop ==
  /\ At("stopping") /\ ~Aborted
  /\ IF inbox["next-step"] = << >> THEN EndTurn
     ELSE GoTo("claim") /\ UNCHANGED <<stepped, ended, turnOpen>>
  /\ UNCHANGED <<mail, stepOpen, disposed>>

(* Wrong: the latched wake is forgotten. *)
RetireForgetful ==
  /\ At("retire")
  /\ EnterPhase("idle", "none")
  /\ UNCHANGED <<mail, log, disposed>>

(* The end of kick(): idle, then replay a latched wake. *)
Retire ==
  /\ At("retire")
  /\ IF wakeRequested /\ Pending # {} THEN EnterPhase("running", "open") ELSE EnterPhase("idle", "none")
  /\ UNCHANGED <<mail, log, disposed>>

Driver ==
  \/ OpenTurn \/ Claim \/ ClaimTurn \/ Reject \/ EnterEmpty \/ Enter
  \/ Prepare \/ Admit \/ AdmissionThrows
  \/ \E ending \in Endings : StepEnds(ending)
  \/ Stop \/ NextTurn \/ Retire
  \/ \E place \in {"open", "claim", "preStep", "step", "request", "stopping"} : Throws(place)

Next ==
  \/ Driver \/ RunMaintenance \/ MaintenanceEnds
  \/ \E m \in Messages, target \in Targets : Send(m, target)
  \/ \E m \in Messages : RemoveMessage(m)
  \/ \E cause \in Causes, keepInbox \in BOOLEAN :
       (cause = "disposed" => ~keepInbox) /\ Cancel(cause, keepInbox)

Spec == Init /\ [][Next]_vars

(* The driver's awaits and maintenance tasks settle. *)
LiveSpec == Spec /\ WF_vars(Driver) /\ WF_vars(MaintenanceEnds)

-----------------------------------------------------------------------------
(* A message sent is in exactly one place until it meets its one fate:      *)
(* claims, cancels, removals and turns that throw neither lose it without a *)
(* trace nor leave a second copy for a later step.                          *)
MessagesConserved ==
  /\ \A target \in Targets : IsInjective(inbox[target])
  /\ IsInjective(hand)
  /\ Queued("next-turn") \intersect Queued("next-step") = {} /\ Pending \intersect ToSet(hand) = {}
  /\ {m \in Messages : fate[m] = "sent"} = Pending \union ToSet(hand)

(* The log is balanced wherever the driver rests: every way out of a turn,  *)
(* throws at any await included, closes the step and the turn it opened,    *)
(* and claimed messages are held only inside an open turn.                  *)
BalancedLog ==
  /\ TypeOK
  /\ stepOpen => turnOpen
  /\ hand # << >> => turnOpen
  /\ at \in {"none", "open", "turnEnd", "retire"} => ~turnOpen

(* An aborted driver only unwinds: it opens no turn or step and gets a fresh *)
(* signal only by retiring or by ending maintenance (agent.ts:316, :360).    *)
(* There are two exceptions, for an abort by an observer of the driver's own *)
(* appends: a claim under way is finished, its messages to be dropped        *)
(* (inbox.ts:110-111), and an abort that comes with turn/end, when the turn  *)
(* has run its course, does not hold back the turn that pending work is owed *)
(* (agent.ts:387-395).                                                       *)
AbortedOnlyUnwinds ==
  [][Aborted =>
       /\ (turnOpen' => turnOpen) /\ (stepOpen' => stepOpen)
       /\ Len(hand') <= Len(hand) \/ at = "claimTurn"
       /\ \/ Aborted' \/ at = "retire" \/ phase = "maintenance"
          \/ at = "turnEnd" /\ Pending # {}]_vars

(* A wake latched behind maintenance or an aborted activity is not          *)
(* forgotten: a driver runs again while its message is pending, unless the  *)
(* agent is disposed.                                                       *)
LatchedWakeReplays ==
  (wakeRequested /\ Pending # {}) ~>
    (Pending = {} \/ disposed \/ (phase = "running" /\ ~Aborted))

(* "Live drivers claim queued work themselves" (agent.ts:217): a driver that *)
(* was not aborted does not give up its turns while a prompt is pending,     *)
(* where nothing fails or cancels.                                           *)
LiveDriversClaim ==
  [][at # "retire" /\ at' = "retire" /\ ~Aborted => Pending \intersect Prompts = {}]_vars

(* "Disposal never latches, so teardown waits on no model turn": once       *)
(* disposed, an aborted activity is not followed by another driver.         *)
DisposalParksWakes ==
  [][disposed /\ Aborted => ~(phase' = "running" /\ ~Aborted')]_vars
=============================================================================
