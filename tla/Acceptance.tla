----------------------------- MODULE Acceptance -----------------------------
(***************************************************************************)
(* The acceptance store (acceptance-store.ts): the requirements a session  *)
(* declared, the receipts of the checks the host ran, and the review bound *)
(* to a candidate.  plan() calls queue on the session and then on the      *)
(* task; run() and review() queue on the task; inspect() does not queue.   *)
(* The workspace is edited by others at any moment.                        *)
(*                                                                         *)
(* One session: sessions share no row and no queue.  Every table row is    *)
(* read in memory and put durably (StorageDomain): a put lands whole, on   *)
(* the medium and then in memory, or is rejected and lands in neither.     *)
(* What only decides whether one check passes (reports, skips, builds,     *)
(* targets, attachments) is an outcome of running or observing it.         *)
(*                                                                         *)
(* The tables hand out their rows by reference, and run() has one receipt  *)
(* object: once its first put has landed, what it then observes is read in *)
(* the row, and by an inspect() under way, before it is stored.            *)
(*                                                                         *)
(* A caller's call is suspended at:                                        *)
(*   "idle"      no call                                                   *)
(*   "planning"  plan() waits for its turn in planTails                    *)
(*   "plan", "run", "review"   it waits for its turn in tails              *)
(*   "put"       it awaits tasks.put of row, and goes on at next           *)
(*   "activate"  plan() awaits active.put                                  *)
(*   "source"    run() awaits the probes that precede the command          *)
(*   "command"   run() awaits the command and the probes that follow it    *)
(*   "observe"   inspect() awaits the probes of the checks in left, then   *)
(*               the candidate's diff; "reobserve" the same inside review()*)
(*   "shown"     no call; the caller holds the view inspect() returned     *)
(***************************************************************************)
EXTENDS Naturals, Sequences, FiniteSets

CONSTANTS
  Tools,            \* calls of dsh_acceptance: plan() and run()
  Drivers,          \* loop drivers: inspect(), a reviewer's run, then review()
  Checks,
  Contents,         \* digests of a check's input scope
  Commands,         \* executable parts of a requirement
  Plans,            \* the requirement sets callers declare
  MaxAttempts,      \* limits.maxAttempts
  MaxRevisions,     \* limits.maxRevisions
  MaxTasks,         \* bound: task ids available to plan()
  Teardown,         \* the host may tear the runtime down
  Undeclared, Unknown, NoKey

Requirement == [origin : {"user", "plan"}, required : BOOLEAN, command : Commands]
Requirements == [Checks -> Requirement \cup {Undeclared}]

ASSUME PlansAssumption == Plans \subseteq Requirements
ASSUME LimitsAssumption == MaxAttempts \in Nat \ {0} /\ MaxRevisions \in Nat \ {0}
ASSUME CallsAssumption == IsFiniteSet(Tools) /\ IsFiniteSet(Drivers)
ASSUME TasksAssumption == MaxTasks \in Nat /\ Teardown \in BOOLEAN
ASSUME ValuesAssumption == Undeclared \notin Requirement /\ Unknown \notin Contents

Calls == Tools \cup Drivers
Tasks == 1..MaxTasks
None == 0

NoRequirements == [k \in Checks |-> Undeclared]
NoReview == [verdict |-> "none", key |-> NoKey]
NoTask == [revision |-> 0, requirements |-> NoRequirements, evidence |-> <<>>,
           review |-> NoReview]
NoReceipt == [id |-> 0, check |-> Unknown, spec |-> Undeclared, source |-> Unknown,
              outcome |-> "running"]
Idle == [pc |-> "idle", task |-> None, check |-> Unknown, plan |-> NoRequirements,
         receipt |-> NoReceipt, row |-> NoTask, next |-> "idle", seen |-> NoTask,
         left |-> {}, current |-> [k \in Checks |-> Unknown], problem |-> FALSE,
         key |-> NoKey, shown |-> <<>>, verdict |-> "none"]

VARIABLES
  tasks,        \* tasks[t] in memory, NoTask where the table has no row
  stored,       \* stored[t]: the same row as the medium has it
  active,       \* the session's active task
  work,         \* work[k]: digest of the current content of check k's scope
  call,         \* call[c] = [pc, ...], Idle where a field has no meaning
  planTail,     \* the session's unsettled plan() calls, in order
  tails,        \* tails[t]: the unsettled calls queued on t, in order
  phase,        \* "up", "stopping", "draining", "closed"
  awaited,      \* the calls drain() waits for
  owed          \* history: the queued calls unsettled when drain() was called

tableVars == <<tasks, stored, active>>
queueVars == <<planTail, tails>>
stopVars == <<phase, awaited, owed>>
vars == <<tableVars, work, call, queueVars, stopVars>>

Exists(t) == tasks[t].revision > 0
Receipts(evidence) == {evidence[i] : i \in DOMAIN evidence}

Init ==
  /\ tasks = [t \in Tasks |-> NoTask] /\ stored = tasks
  /\ active = None
  /\ work \in [Checks -> Contents]
  /\ call = [c \in Calls |-> Idle]
  /\ planTail = <<>>
  /\ tails = [t \in Tasks |-> <<>>]
  /\ phase = "up"
  /\ awaited = {} /\ owed = {}

-----------------------------------------------------------------------------
(* Queues and puts. *)

Goes(c, r) == call' = [call EXCEPT ![c] = r]
At(c, pc) == call[c].pc = pc

(* Wrong: work starts at once. *)
TurnAtOnce(c) == TRUE

(* queue: the call runs when every call queued before it on the task settled. *)
Turn(c) == LET q == tails[call[c].task] IN q # <<>> /\ Head(q) = c

Queued(t, c) == tails' = [tails EXCEPT ![t] = Append(@, c)]

Pop(q, c) == IF q # <<>> /\ Head(q) = c THEN Tail(q) ELSE q

(* The promise settles, resolved or rejected: its successors may run. *)
Settle(c) ==
  /\ Goes(c, Idle)
  /\ planTail' = Pop(planTail, c)
  /\ tails' = [t \in Tasks |-> Pop(tails[t], c)]
  /\ awaited' = awaited \ {c} /\ owed' = owed \ {c}
  /\ UNCHANGED phase

Put(c, r, row, next) == Goes(c, [r EXCEPT !.pc = "put", !.row = row, !.next = next])

(* The unit is one file: a put writes every row as memory has it.  A row     *)
(* that a run changed in place while the file was being written is late.     *)
Publishes(rows, put) ==
  \E late \in SUBSET (Tasks \ put) :
    stored' = [t \in Tasks |-> IF t \in late THEN stored[t] ELSE rows[t]]

putReturns(c) ==
  LET rows == [tasks EXCEPT ![call[c].task] = call[c].row] IN
  /\ At(c, "put") /\ phase # "closed"
  /\ tasks' = rows /\ Publishes(rows, {call[c].task})
  /\ \/ call[c].next = "return" /\ Settle(c)
     \/ /\ call[c].next # "return"
        /\ Goes(c, [call[c] EXCEPT !.pc = call[c].next, !.row = NoTask, !.next = "idle"])
        /\ UNCHANGED <<queueVars, stopVars>>
  /\ UNCHANGED <<active, work>>

(* A rejected put rejects the call, except in run(), which catches the one  *)
(* before its command (runThrows).                                          *)
putRejects(c) ==
  /\ At(c, "put") /\ call[c].next # "command"
  /\ Settle(c)
  /\ UNCHANGED <<tableVars, work>>

-----------------------------------------------------------------------------
(* plan() *)

(* Bound: every plan under way can still be given a task id. *)
TaskIdsLeft == active # None \/ Cardinality({t \in Tasks : ~Exists(t)}) > Len(planTail)

planCalled(c) ==
  /\ At(c, "idle") /\ phase # "closed" /\ TaskIdsLeft
  /\ \E p \in Plans : Goes(c, [Idle EXCEPT !.pc = "planning", !.plan = p])
  /\ planTail' = Append(planTail, c)
  /\ UNCHANGED <<tableVars, work, tails, stopVars>>

(* A randomUUID: in no row and in no other plan under way. *)
FreshTask(t) ==
  /\ ~Exists(t) /\ tails[t] = <<>>
  /\ \A u \in 1..(t - 1) : Exists(u) \/ tails[u] # <<>>

planQueues(c, t) ==
  /\ IF active = None THEN FreshTask(t) ELSE t = active
  /\ Queued(t, c)
  /\ Goes(c, [call[c] EXCEPT !.pc = "plan", !.task = t])
  /\ UNCHANGED <<tableVars, work, planTail, stopVars>>

(* Wrong: plans of one session do not wait for each other. *)
planBeginsAtOnce(c) ==
  /\ At(c, "planning")
  /\ \E t \in Tasks : planQueues(c, t)

planBegins(c) ==
  /\ At(c, "planning") /\ Head(planTail) = c
  /\ \E t \in Tasks : planQueues(c, t)

(* requirementPromise: what a user requirement fixes.  origin and required   *)
(* stand for the quoted text, description, level and logical target as well. *)
requirementPromise(check) ==
  IF check = Undeclared THEN Undeclared
  ELSE [origin |-> check.origin, required |-> check.required]

Locked(requirements) ==
  {k \in Checks : requirements[k] # Undeclared /\ requirements[k].origin = "user"}

KeepsPromises(old, new) ==
  \A k \in Locked(old) : requirementPromise(new[k]) = requirementPromise(old[k])

Revised(old, p) ==
  [revision |-> old.revision + 1, requirements |-> p, evidence |-> old.evidence,
   review |-> NoReview]

(* Wrong: the session's pointer is stored before the task it names. *)
planPointerFirst(c) ==
  LET old == tasks[call[c].task] IN
  /\ At(c, "plan") /\ Turn(c)
  /\ old.revision < MaxRevisions
  /\ KeepsPromises(old.requirements, call[c].plan)
  /\ active' = call[c].task
  /\ Put(c, call[c], Revised(old, call[c].plan), "return")
  /\ UNCHANGED <<tasks, stored, work, queueVars, stopVars>>

plan(c) ==
  LET old == tasks[call[c].task]
      p == call[c].plan
  IN
  /\ At(c, "plan") /\ Turn(c)
  /\ old.revision < MaxRevisions
  /\ KeepsPromises(old.requirements, p)
  /\ Put(c, call[c], Revised(old, p), "activate")
  /\ UNCHANGED <<tableVars, work, queueVars, stopVars>>

(* Wrong: a refused plan does not release the queue of its task. *)
planRefusedHeld(c) ==
  /\ At(c, "plan") /\ Turn(c)
  /\ Goes(c, Idle)
  /\ planTail' = Pop(planTail, c)
  /\ awaited' = awaited \ {c} /\ owed' = owed \ {c}
  /\ UNCHANGED <<tableVars, work, tails, phase>>

(* plan throws: the guards of plan fail, or the request changes objective or *)
(* cwd or has no reason, or Git has no baseline, or the caller aborted.      *)
planRefused(c) ==
  /\ At(c, "plan") /\ Turn(c)
  /\ Settle(c)
  /\ UNCHANGED <<tableVars, work>>

planActivates(c) ==
  /\ At(c, "activate") /\ phase # "closed"
  /\ active' = call[c].task
  /\ Publishes(tasks, {})
  /\ Settle(c)
  /\ UNCHANGED <<tasks, work>>

activateRejects(c) ==
  /\ At(c, "activate")
  /\ Settle(c)
  /\ UNCHANGED <<tableVars, work>>

-----------------------------------------------------------------------------
(* run() *)

runCalled(c) ==
  /\ At(c, "idle") /\ phase # "closed"
  /\ \E t \in Tasks, k \in Checks :
       /\ Exists(t)
       /\ Queued(t, c)
       /\ Goes(c, [Idle EXCEPT !.pc = "run", !.task = t, !.check = k])
  /\ UNCHANGED <<tableVars, work, planTail, stopVars>>

(* A randomUUID: in no receipt stored or under way. *)
FreshId ==
  LET used == {r.id : r \in UNION {Receipts(tasks[t].evidence) : t \in Tasks}}
                \cup {call[d].receipt.id : d \in Calls}
  IN CHOOSE i \in 1..(Cardinality(used) + 1) : i \notin used

(* filter(): the elements of s at the positions kept, in their order. *)
Only(s, kept) ==
  [n \in 1..Cardinality(kept) |->
     s[CHOOSE i \in kept : Cardinality({j \in kept : j <= i}) = n]]

(* save: the receipt replaces its earlier form and voids the review. *)
Saved(t, r) ==
  LET others == {i \in DOMAIN tasks[t].evidence : tasks[t].evidence[i].id # r.id}
  IN  [tasks[t] EXCEPT !.review = NoReview, !.evidence = Append(Only(@, others), r)]

Save(c, r, next) ==
  Put(c, [call[c] EXCEPT !.receipt = r], Saved(call[c].task, r), next)

run(c) ==
  LET t == call[c].task
      k == call[c].check
      spec == tasks[t].requirements[k]
  IN
  /\ At(c, "run") /\ Turn(c)
  /\ spec # Undeclared /\ Len(tasks[t].evidence) < MaxAttempts
  /\ Save(c, [id |-> FreshId, check |-> k, spec |-> spec, source |-> Unknown,
              outcome |-> "running"], "source")
  /\ UNCHANGED <<tableVars, work, queueVars, stopVars>>

runRefused(c) ==
  LET t == call[c].task IN
  /\ At(c, "run") /\ Turn(c)
  /\ \/ tasks[t].requirements[call[c].check] = Undeclared
     \/ Len(tasks[t].evidence) >= MaxAttempts
  /\ Settle(c)
  /\ UNCHANGED <<tableVars, work>>

(* The receipt object changed in place: the row in memory and the snapshots  *)
(* of that row hold it by reference.                                         *)
Written(evidence, r) ==
  [i \in DOMAIN evidence |-> IF evidence[i].id = r.id THEN r ELSE evidence[i]]

(* run() writes what it observed into its receipt, then saves it. *)
Writes(c, r, next) ==
  LET t == call[c].task IN
  /\ tasks' = [tasks EXCEPT ![t].evidence = Written(@, r)]
  /\ call' = [d \in Calls |->
       CASE d = c -> [call[d] EXCEPT !.pc = "put", !.receipt = r, !.row = Saved(t, r),
                                     !.next = next]
         [] d # c /\ call[d].task = t -> [call[d] EXCEPT !.seen.evidence = Written(@, r)]
         [] OTHER -> call[d]]
  /\ UNCHANGED <<stored, active, work, queueVars, stopVars>>

(* captureSource and the probes before the command; they answer only until  *)
(* the teardown aborts evidenceLifecycle.                                   *)
sourceReturns(c) ==
  /\ At(c, "source") /\ phase = "up"
  /\ Writes(c, [call[c].receipt EXCEPT !.source = work[call[c].check]], "command")

(* "rejected" stands for failed, unverified and cancelled: nothing in the   *)
(* store tells them apart.                                                  *)
Outcome(ok, before, after) == IF ok /\ before = after THEN "passed" ELSE "rejected"

commandReturns(c) ==
  LET r == call[c].receipt IN
  /\ At(c, "command") /\ phase = "up"
  /\ \E ok \in BOOLEAN :
       Writes(c, [r EXCEPT !.outcome = Outcome(ok, r.source, work[r.check])], "return")

(* The catch of run(): a probe, before or after captureSource answered, the *)
(* command's report or the save before the command failed, or the caller    *)
(* aborted.                                                                 *)
runThrows(c) ==
  LET r == call[c].receipt IN
  /\ \/ At(c, "source") \/ At(c, "command")
     \/ At(c, "put") /\ call[c].next = "command"
  /\ \E source \in {r.source} \cup IF At(c, "source") /\ phase = "up" THEN {work[r.check]} ELSE {} :
       Writes(c, [r EXCEPT !.source = source, !.outcome = "rejected"], "return")

-----------------------------------------------------------------------------
(* inspect() and review() *)

Declared(task) == {k \in Checks : task.requirements[k] # Undeclared}
Required(task) == {k \in Declared(task) : task.requirements[k].required}

(* passed(id) of evaluateAcceptance: the latest receipt of the check passed, *)
(* under the declared spec, on the current content.                          *)
Passed(task, k, current) ==
  \E i \in DOMAIN task.evidence :
    LET r == task.evidence[i] IN
    /\ r.check = k
    /\ \A j \in DOMAIN task.evidence : j > i => task.evidence[j].check # k
    /\ r.outcome = "passed" /\ r.spec = task.requirements[k] /\ r.source = current[k]

evaluateAcceptance(task, current) == \A k \in Required(task) : Passed(task, k, current)

candidateKey(task, current, diff) ==
  [revision |-> task.revision, current |-> current, diff |-> diff,
   evidence |-> [i \in DOMAIN task.evidence |-> task.evidence[i].id]]

(* The snapshot inspect() works from.  Its review decides only between the  *)
(* statuses "checks-passed" and "accepted", which no call acts on.          *)
Inspecting(r, t, pc) ==
  [r EXCEPT !.pc = pc, !.task = t, !.seen = [tasks[t] EXCEPT !.review = NoReview],
            !.left = Declared(tasks[t])]

inspectCalled(c) ==
  /\ At(c, "idle") /\ phase # "closed"
  /\ \E t \in Tasks : Exists(t) /\ Goes(c, Inspecting(Idle, t, "observe"))
  /\ UNCHANGED <<tableVars, work, queueVars, stopVars>>

(* The probes of one check answer, or one of them fails. *)
observe(c) ==
  /\ At(c, "observe") \/ At(c, "reobserve")
  /\ \E k \in call[c].left :
       \/ /\ phase = "up"
          /\ Goes(c, [call[c] EXCEPT !.left = @ \ {k}, !.current[k] = work[k]])
       \/ Goes(c, [call[c] EXCEPT !.left = @ \ {k},
                                  !.problem = @ \/ k \in Required(call[c].seen)])
  /\ UNCHANGED <<tableVars, work, queueVars, stopVars>>

(* The diff of the whole candidate; without one, the view has a problem. *)
Diff(c) == {Unknown} \cup IF phase = "up" THEN {work} ELSE {}

(* A candidate with a problem is never approved, whatever its key: Unknown  *)
(* stands for the key of each of them.                                      *)
Observed(r, diff) ==
  IF r.problem \/ diff = Unknown THEN Unknown
  ELSE candidateKey(r.seen, r.current, diff)

inspectReturns(c) ==
  LET r == call[c] IN
  /\ At(c, "observe") /\ r.left = {}
  /\ \E diff \in Diff(c) :
       Goes(c, [Idle EXCEPT !.pc = "shown", !.task = r.task,
                            !.key = Observed(r, diff),
                            !.shown = r.seen.evidence])
  /\ UNCHANGED <<tableVars, work, queueVars, stopVars>>

inspectThrows(c) ==
  /\ At(c, "observe") \/ At(c, "reobserve")
  /\ call[c].left = {}
  /\ Settle(c)
  /\ UNCHANGED <<tableVars, work>>

(* The view was read for its status, or no verdict came of it. *)
dismiss(c) ==
  /\ At(c, "shown")
  /\ Goes(c, Idle)
  /\ UNCHANGED <<tableVars, work, queueVars, stopVars>>

reviewCalled(c) ==
  /\ At(c, "shown") /\ phase # "closed"
  /\ \E v \in {"approved", "changes-requested"} :
       Goes(c, [call[c] EXCEPT !.pc = "review", !.verdict = v])
  /\ Queued(call[c].task, c)
  /\ UNCHANGED <<tableVars, work, planTail, stopVars>>

reviewInspects(c) ==
  /\ At(c, "review") /\ Turn(c)
  /\ Goes(c, Inspecting(call[c], call[c].task, "reobserve"))
  /\ UNCHANGED <<tableVars, work, queueVars, stopVars>>

(* Wrong: the candidate may have changed since it was shown. *)
SameCandidateAssumed(r, key) == evaluateAcceptance(r.seen, r.current) /\ key # Unknown

(* Every required check passes, and this is the candidate that was shown. *)
StillAcceptable(r, key) ==
  /\ evaluateAcceptance(r.seen, r.current)
  /\ key # Unknown /\ key = r.key

(* The review to store.  The key of one that is no approval only tells       *)
(* "changes-requested" from "not-reviewed" in the status, and is left out.   *)
Recorded(ok, verdict, key) ==
  IF ok /\ verdict = "approved" THEN [verdict |-> verdict, key |-> key]
  ELSE [verdict |-> "changes-requested", key |-> NoKey]

review(c) ==
  LET r == call[c] IN
  /\ At(c, "reobserve") /\ r.left = {}
  /\ \E diff \in Diff(c) :
       LET ok == StillAcceptable(r, Observed(r, diff))
       IN Put(c, [Idle EXCEPT !.task = r.task, !.shown = r.shown],
              [tasks[r.task] EXCEPT !.review = Recorded(ok, r.verdict, r.key)], "return")
  /\ UNCHANGED <<tableVars, work, queueVars, stopVars>>

-----------------------------------------------------------------------------
(* The workspace, the teardown and a crash. *)

edit ==
  /\ \E k \in Checks, v \in Contents : work' = [work EXCEPT ![k] = v]
  /\ UNCHANGED <<tableVars, call, queueVars, stopVars>>

(* evidenceLifecycle.abort(), then stopLiveLoops() *)
abort ==
  /\ Teardown /\ phase = "up"
  /\ phase' = "stopping"
  /\ UNCHANGED <<tableVars, work, call, queueVars, awaited, owed>>

Last(q) == IF q = <<>> THEN {} ELSE {q[Len(q)]}

TaskTails == UNION {Last(tails[t]) : t \in Tasks}
Pending == {planTail[i] : i \in DOMAIN planTail} \cup
           UNION {{tails[t][i] : i \in DOMAIN tails[t]} : t \in Tasks}

(* Wrong: drain forgets the plans that have not reached their task's queue. *)
drainTasks ==
  /\ phase = "stopping" /\ phase' = "draining"
  /\ awaited' = TaskTails
  /\ owed' = Pending
  /\ UNCHANGED <<tableVars, work, call, queueVars>>

(* drain(): the tails of that moment; each settles after its predecessors. *)
drain ==
  /\ phase = "stopping" /\ phase' = "draining"
  /\ awaited' = Last(planTail) \cup TaskTails
  /\ owed' = Pending
  /\ UNCHANGED <<tableVars, work, call, queueVars>>

(* drain() resolved and the acceptance domain closed. *)
close ==
  /\ phase = "draining" /\ awaited = {}
  /\ phase' = "closed"
  /\ UNCHANGED <<tableVars, work, call, queueVars, awaited, owed>>

(* The process dies, or ends after the close, and starts again: memory is    *)
(* what the medium has.                                                      *)
restart ==
  /\ tasks' = stored
  /\ call' = [c \in Calls |-> Idle]
  /\ planTail' = <<>> /\ tails' = [t \in Tasks |-> <<>>]
  /\ phase' = "up" /\ awaited' = {} /\ owed' = {}
  /\ UNCHANGED <<stored, active, work>>

Step(c) ==
  \/ putReturns(c) \/ putRejects(c)
  \/ planBegins(c) \/ plan(c) \/ planRefused(c) \/ planActivates(c) \/ activateRejects(c)
  \/ run(c) \/ runRefused(c) \/ sourceReturns(c) \/ commandReturns(c) \/ runThrows(c)
  \/ observe(c) \/ inspectReturns(c) \/ inspectThrows(c)
  \/ reviewInspects(c) \/ review(c)

Next ==
  \/ \E c \in Calls : Step(c)
  \/ \E c \in Tools : planCalled(c) \/ runCalled(c)
  \/ \E c \in Drivers : inspectCalled(c) \/ reviewCalled(c) \/ dismiss(c)
  \/ edit \/ abort \/ drain \/ close \/ restart

Spec == Init /\ [][Next]_vars

(* Probes, commands and puts answer. *)
Fairness == \A c \in Calls : WF_vars(Step(c))

LiveSpec == Spec /\ Fairness

-----------------------------------------------------------------------------
Receipt == [id : Nat \ {0}, check : Checks, spec : Requirement,
            source : Contents \cup {Unknown},
            outcome : {"running", "passed", "rejected"}]

(* Rows stay within the declared limits, in memory and on the medium: at     *)
(* most MaxAttempts receipts, each with an id of its own, and at most        *)
(* MaxRevisions plans, however many calls test the limits at once            *)
(* (acceptance-store.ts:83, :124).  The active pointer names a stored task,  *)
(* after a rejected put or a crash between the two puts of plan() as well    *)
(* (acceptance-store.ts:103-104).                                            *)
TypeOK ==
  /\ \A t \in Tasks : \A task \in {tasks[t], stored[t]} :
       /\ task.revision \in 0..MaxRevisions
       /\ task.requirements \in Requirements
       /\ task.evidence \in Seq(Receipt) /\ Len(task.evidence) <= MaxAttempts
       /\ \A i, j \in DOMAIN task.evidence :
            task.evidence[i].id = task.evidence[j].id => i = j
       /\ task.review.verdict \in {"none", "approved", "changes-requested"}
  /\ active \in {t \in Tasks : Exists(t) /\ stored[t].revision > 0} \cup {None}
  /\ phase \in {"up", "stopping", "draining", "closed"}
  /\ awaited \subseteq Calls /\ owed \subseteq Calls

(* An approval, read or stored, always rests on the receipts and the plan of *)
(* its row: they are the ones its key names, and on the content its key      *)
(* names they pass every required check.  A plan, a run or an edit while a   *)
(* review is being verified, a receipt changed in place, a rejected put or a *)
(* crash never leaves an approval over other evidence                        *)
(* (acceptance-store.ts:139-201, :283-292).  And evidence is stored first:   *)
(* the command of a check runs only while a receipt that says so, with the   *)
(* source it started from, is on the medium, so that a crash during the      *)
(* command leaves its trace (acceptance-store.ts:112, :161-163).             *)
ApprovalRestsOnEvidence ==
  /\ \A t \in Tasks : \A task \in {tasks[t], stored[t]} :
       LET key == task.review.key IN
       task.review.verdict = "approved" =>
            /\ key # Unknown
            /\ key = candidateKey(task, key.current, key.diff)
            /\ evaluateAcceptance(task, key.current)
  /\ \A c \in Calls : At(c, "command") =>
       /\ call[c].receipt.source # Unknown
       /\ call[c].receipt \in Receipts(stored[call[c].task].evidence)

(* Settled receipts stay where and what they are. *)
Final(old, new) ==
  \A i \in DOMAIN old : old[i].outcome # "running" => i \in DOMAIN new /\ new[i] = old[i]

(* A settled receipt is never changed, dropped or overtaken by an older one, *)
(* whatever runs, plans and reviews of its task were called at once: "latest *)
(* attempt" means latest started, and what it observed is immutable          *)
(* (acceptance-schema.ts:52, acceptance-store.ts:133-136).  This holds on    *)
(* the medium for ever, and in memory until the process restarts from the    *)
(* medium.                                                                   *)
ReceiptsAreFinal ==
  [][\A t \in Tasks :
       /\ Final(stored[t].evidence, stored'[t].evidence)
       /\ Final(tasks[t].evidence, tasks'[t].evidence) \/ tasks' = stored]_vars

(* "a rejected backend write leaves memory untouched (no divergence between  *)
(* reads and the medium)" (storage-domain domain.ts:5-7): a row that no put  *)
(* is about to replace reads as it is stored.  run() changes the receipt in  *)
(* the row before it puts it (acceptance-store.ts:196-202), so the code does *)
(* not meet this when that put is rejected: a settled receipt is read, and   *)
(* the next restart has it running again.                                    *)
ReadsMatchMedium ==
  \A t \in Tasks : (\A c \in Calls : ~(At(c, "put") /\ call[c].task = t)) => tasks[t] = stored[t]

(* Once a session has an active task it keeps it, and what that task        *)
(* promised the user stays in every later plan, whatever plans are declared *)
(* at the same time (acceptance-store.ts:48, :77-88).                       *)
UserPromisesKept ==
  [][active # None =>
       /\ active' = active
       /\ KeepsPromises(tasks[active].requirements, tasks'[active].requirements)]_vars

(* drain() waits for every call queued before it, the plans that have not   *)
(* reached a task's queue included: none of them still has a put to make    *)
(* when the domain is closed (acceptance-store.ts:308-309).                 *)
DrainCovers == phase = "closed" => owed = {}

(* An approval is recorded over the receipts its reviewer was shown, which  *)
(* have not changed since: the review is bound to unchanged observed inputs *)
(* (acceptance-store.ts:272).                                               *)
ReviewSawReceipts ==
  \A c \in Calls :
    At(c, "put") /\ call[c].row.review.verdict = "approved" =>
      call[c].row.evidence = call[c].shown

(* Every call settles: no queue is wedged by a rejection, no call waits for *)
(* itself (acceptance-store.ts:77-109, :324-329).                           *)
CallsSettle ==
  \A c \in Calls : ~At(c, "idle") /\ ~At(c, "shown") ~> At(c, "idle") \/ At(c, "shown")
=============================================================================
