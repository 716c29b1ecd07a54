-------------------------- MODULE AcceptanceProofs --------------------------
(***************************************************************************)
(* Proofs about Acceptance, for any number of callers, checks, tasks and    *)
(* any limits: an approval rests on the evidence stored with it, settled    *)
(* receipts are final, user promises survive, and a drain forgets nobody.   *)
(*                                                                         *)
(* The argument is the queue's: a call that has a row to put is the head of *)
(* its task's queue, so nobody else changes the row it computed from.       *)
(***************************************************************************)
EXTENDS Acceptance, Integers, FiniteSetTheorems, FunctionTheorems, SequenceTheorems, TLAPS

Verdicts == {"none", "approved", "changes-requested"}
Currents == [Checks -> Contents \union {Unknown}]
Keys == [revision : 0..MaxRevisions, current : Currents, diff : [Checks -> Contents],
         evidence : Seq(Nat)] \union {NoKey, Unknown}
Rows == [revision : 0..MaxRevisions, requirements : Requirements, evidence : Seq(Receipt),
         review : [verdict : Verdicts, key : Keys]]

(* The places where a call stands in its task's queue, and those it only    *)
(* reaches as the head of it.                                               *)
Holding == {"put", "activate", "source", "command", "reobserve"}
Queueing == {"plan", "run", "review"} \union Holding

CallRecords ==
  [pc : {"idle", "planning", "observe", "shown"} \union Queueing,
   task : Tasks \union {None}, check : Checks \union {Unknown}, plan : Requirements,
   receipt : Receipt \union {NoReceipt}, row : Rows,
   next : {"idle", "activate", "return", "source", "command"}, seen : Rows,
   left : SUBSET Checks, current : Currents, problem : BOOLEAN, key : Keys,
   shown : Seq(Receipt), verdict : Verdicts]

-----------------------------------------------------------------------------
(* What a stored row promises. *)

Distinct(evidence) ==
  \A i, j \in DOMAIN evidence : evidence[i].id = evidence[j].id => i = j

Vouched(row) ==
  row.review.verdict = "approved" =>
    /\ row.review.key # Unknown
    /\ row.review.key = candidateKey(row, row.review.key.current, row.review.key.diff)
    /\ evaluateAcceptance(row, row.review.key.current)

RowOK(row) ==
  row \in Rows /\ Len(row.evidence) <= MaxAttempts /\ Distinct(row.evidence) /\ Vouched(row)

(* The medium has the row of memory, up to what a run wrote in place. *)
Trails(old, new) ==
  /\ old.revision = new.revision /\ old.requirements = new.requirements
  /\ Final(old.evidence, new.evidence)

(* The receipt of the run under way is the latest one of its row. *)
OnRecord(row, receipt) ==
  /\ receipt \in Receipt /\ receipt.outcome = "running"
  /\ Len(row.evidence) > 0 /\ row.evidence[Len(row.evidence)] = receipt
  /\ row.review.verdict # "approved"

Under(evidence, receipt) ==
  /\ Len(evidence) > 0 /\ evidence[Len(evidence)].id = receipt.id
  /\ evidence[Len(evidence)].outcome = "running"

(* A row to put was computed from the stored one, old. *)
PutOK(r, old) ==
  /\ RowOK(r.row) /\ old.revision <= r.row.revision
  /\ KeepsPromises(old.requirements, r.row.requirements)
  /\ Final(old.evidence, r.row.evidence)
  /\ r.next # "idle"
  /\ r.next = "activate" => r.row.revision > 0
  /\ r.next \in {"source", "command"} => r.check \in Checks /\ OnRecord(r.row, r.receipt)
  /\ r.next = "command" => r.receipt.source # Unknown /\ OnRecord(old, r.receipt)

(* What the head of a queue may rely on at its await: row is its task's in   *)
(* memory, disk on the medium.                                              *)
HeldOK(r, row, disk) ==
  /\ r.pc = "put" => PutOK(r, row)
  /\ r.pc = "activate" => row.revision > 0
  /\ r.pc \in {"source", "command"} => r.check \in Checks /\ OnRecord(row, r.receipt)
  /\ r.pc = "command" => r.receipt.source # Unknown /\ OnRecord(disk, r.receipt)
  /\ r.pc = "reobserve" => r.seen = [row EXCEPT !.review = NoReview]

(* Calls of plan() until they settle; past "planning" they lead planTail. *)
InPlan(r) == r.pc \in {"planning", "plan", "activate"} \/ (r.pc = "put" /\ r.next = "activate")
Planning(r) == InPlan(r) /\ r.pc # "planning"

CallOK(r, row, disk, pointer) ==
  /\ HeldOK(r, row, disk)
  /\ r.pc = "run" => r.check \in Checks
  /\ r.pc \in {"observe", "shown"} => r.task \in Tasks
  /\ Planning(r) => pointer \in {None, r.task}

Tables ==
  /\ tasks \in [Tasks -> Rows] /\ \A t \in Tasks : RowOK(tasks[t])
  /\ stored \in [Tasks -> Rows]
  /\ \A t \in Tasks : RowOK(stored[t]) /\ Trails(stored[t], tasks[t])
  /\ active \in Tasks \union {None} /\ (active # None => Exists(active))
  /\ work \in [Checks -> Contents]

CallsInv == call \in [Calls -> CallRecords] /\ \A c \in Calls : CallOK(call[c], tasks[call[c].task], stored[call[c].task], active)

-----------------------------------------------------------------------------
(* The queues and the drain. *)

In(c, q) == \E i \in DOMAIN q : q[i] = c
IsQueue(q) == q \in Seq(Calls) /\ \A i, j \in DOMAIN q : q[i] = q[j] => i = j
Leads(c, q) == q # <<>> /\ Head(q) = c

QueueInv ==
  /\ DOMAIN tails = Tasks /\ \A t \in Tasks : IsQueue(tails[t])
  /\ IsQueue(planTail)
  /\ \A c \in Calls, t \in Tasks : In(c, tails[t]) <=> (call[c].pc \in Queueing /\ call[c].task = t)
  /\ \A c \in Calls : In(c, planTail) <=> InPlan(call[c])
  /\ \A c \in Calls : call[c].pc \in Queueing => call[c].task \in Tasks
  /\ \A c \in Calls : call[c].pc \in Holding => Leads(c, tails[call[c].task])
  /\ \A c \in Calls : Planning(call[c]) => Leads(c, planTail)

(* A call that was queued when drain() ran is not behind the tail it awaits. *)
Covered(d, q, waits) == \E i, j \in DOMAIN q : i <= j /\ q[i] = d /\ q[j] \in waits

DrainInv ==
  /\ phase \in {"up", "stopping", "draining", "closed"}
  /\ awaited \subseteq Calls /\ owed \subseteq Calls
  /\ phase \in {"draining", "closed"} =>
       \A d \in owed : Covered(d, planTail, awaited) \/ \E t \in Tasks : Covered(d, tails[t], awaited)
  /\ phase = "closed" => owed = {}

Inv == Tables /\ CallsInv /\ QueueInv /\ DrainInv

(* What no step may do to the tables. *)
LegalStep ==
  /\ \A t \in Tasks : /\ Final(stored[t].evidence, stored'[t].evidence)
                      /\ Final(tasks[t].evidence, tasks'[t].evidence) \/ tasks' = stored
                      /\ KeepsPromises(tasks[t].requirements, tasks'[t].requirements)
  /\ active # None => active' = active

-----------------------------------------------------------------------------
(* Queues. *)

LEMMA PopFacts ==
  ASSUME NEW q, IsQueue(q), NEW c, In(c, q) => Leads(c, q)
  PROVE  /\ IsQueue(Pop(q, c)) /\ ~In(c, Pop(q, c))
         /\ \A d : d # c => (In(d, Pop(q, c)) <=> In(d, q))
         /\ \A d : d # c /\ Leads(d, q) => Leads(d, Pop(q, c))
         /\ \A d, waits : d # c /\ Covered(d, q, waits) => Covered(d, Pop(q, c), waits \ {c})
<1>0. q \in Seq(Calls) /\ DOMAIN q = 1..Len(q) /\ Len(q) \in Nat
  BY DEF IsQueue
<1>1. CASE Leads(c, q)
  <2>. DEFINE p == Tail(q)
              n == Len(q)
  <2>1. Pop(q, c) = p /\ q # <<>> /\ q[1] = c
    BY <1>1 DEF Pop, Leads
  <2>2. n > 0
    BY <1>0, <2>1
  <2>3. p \in Seq(Calls) /\ Len(p) = n - 1 /\ DOMAIN p = 1..(n - 1)
    BY <1>0, <2>1
  <2>4. \A i \in 1..(n - 1) : p[i] = q[i + 1]
    BY <1>0, <2>1
  <2>. HIDE DEF p
  <2>5. ASSUME NEW i \in DOMAIN p PROVE i \in 1..(n - 1) /\ i + 1 \in DOMAIN q /\ p[i] = q[i + 1]
    BY <1>0, <2>3, <2>4
  <2>6. IsQueue(p)
    <3>1. ASSUME NEW i \in DOMAIN p, NEW j \in DOMAIN p, p[i] = p[j] PROVE i = j
      <4>1. i + 1 = j + 1
        BY <2>5, <3>1 DEF IsQueue
      <4>. QED BY <1>0, <2>5, <4>1
    <3>. QED BY <2>3, <3>1 DEF IsQueue
  <2>7. ~In(c, p)
    <3>1. ASSUME NEW i \in DOMAIN p, p[i] = c PROVE FALSE
      <4>1. 1 \in DOMAIN q
        BY <1>0, <2>2
      <4>2. i + 1 = 1
        BY <2>1, <2>5, <3>1, <4>1 DEF IsQueue
      <4>. QED BY <2>5, <4>2
    <3>. QED BY <3>1 DEF In
  <2>8. ASSUME NEW d, d # c, NEW i \in DOMAIN q, q[i] = d
        PROVE  i - 1 \in DOMAIN p /\ p[i - 1] = d /\ i \in 2..n
    <3>1. i # 1
      BY <2>1, <2>8
    <3>2. i \in 2..n
      BY <1>0, <3>1
    <3>3. i - 1 \in 1..(n - 1) /\ (i - 1) + 1 = i
      BY <1>0, <3>2
    <3>. QED BY <2>3, <2>4, <2>8, <3>2, <3>3
  <2>9. ASSUME NEW d, d # c PROVE In(d, p) <=> In(d, q)
    <3>1. In(d, p) => In(d, q)
      BY <2>5 DEF In
    <3>2. In(d, q) => In(d, p)
      BY <2>8, <2>9 DEF In
    <3>. QED BY <3>1, <3>2
  <2>10. ASSUME NEW d, NEW waits, d # c, Covered(d, q, waits) PROVE Covered(d, p, waits \ {c})
    <3>1. PICK i \in DOMAIN q, j \in DOMAIN q : i <= j /\ q[i] = d /\ q[j] \in waits
      BY <2>10 DEF Covered
    <3>2. i - 1 \in DOMAIN p /\ p[i - 1] = d /\ i \in 2..n
      BY <2>8, <2>10, <3>1
    <3>3. j \in 2..n /\ j - 1 \in 1..(n - 1) /\ (j - 1) + 1 = j
      BY <1>0, <3>1, <3>2
    <3>4. j - 1 \in DOMAIN p /\ p[j - 1] = q[j]
      BY <2>3, <2>4, <3>3
    <3>5. p[j - 1] # c
      BY <2>7, <3>4 DEF In
    <3>6. i - 1 <= j - 1
      BY <3>1, <3>2, <3>3
    <3>. QED BY <3>1, <3>2, <3>4, <3>5, <3>6 DEF Covered
  <2>11. \A d : d # c /\ Leads(d, q) => Leads(d, p)
    BY <1>1 DEF Leads
  <2>. QED BY <2>1, <2>6, <2>7, <2>9, <2>10, <2>11
<1>2. CASE ~Leads(c, q)
  <2>1. Pop(q, c) = q
    BY <1>2 DEF Pop, Leads
  <2>2. ~In(c, q)
    BY <1>2
  <2>3. ASSUME NEW d, NEW waits, Covered(d, q, waits) PROVE Covered(d, q, waits \ {c})
    BY <2>2, <2>3 DEF Covered, In
  <2>. QED BY <2>1, <2>2, <2>3
<1>. QED BY <1>1, <1>2

LEMMA AppendFacts ==
  ASSUME NEW q, IsQueue(q), NEW c \in Calls, ~In(c, q)
  PROVE  /\ IsQueue(Append(q, c))
         /\ \A d : In(d, Append(q, c)) <=> (In(d, q) \/ d = c)
         /\ \A d : Leads(d, q) => Leads(d, Append(q, c))
         /\ \A d, waits : Covered(d, q, waits) => Covered(d, Append(q, c), waits)
<1>. DEFINE p == Append(q, c)
            n == Len(q)
<1>0. q \in Seq(Calls) /\ DOMAIN q = 1..n /\ n \in Nat
  BY DEF IsQueue
<1>1. /\ p \in Seq(Calls) /\ Len(p) = n + 1 /\ DOMAIN p = 1..(n + 1)
      /\ \A i \in 1..n : p[i] = q[i]
      /\ p[n + 1] = c
  BY <1>0
<1>2. ASSUME NEW d, Leads(d, q) PROVE Leads(d, p)
  BY <1>0, <1>2 DEF Leads
<1>. HIDE DEF p, n
<1>3. DOMAIN q \subseteq DOMAIN p /\ n + 1 \in DOMAIN p /\ \A i \in DOMAIN p : i \in DOMAIN q \/ i = n + 1
  BY <1>0, <1>1
<1>4. \A d : In(d, p) <=> (In(d, q) \/ d = c)
  BY <1>0, <1>1, <1>3 DEF In
<1>5. IsQueue(p)
  <2>1. ASSUME NEW i \in DOMAIN p, NEW j \in DOMAIN p, p[i] = p[j] PROVE i = j
    <3>1. CASE i \in DOMAIN q /\ j \in DOMAIN q
      BY <1>0, <1>1, <2>1, <3>1 DEF IsQueue
    <3>2. CASE i \in DOMAIN q /\ j = n + 1
      BY <1>0, <1>1, <2>1, <3>2 DEF In
    <3>3. CASE i = n + 1 /\ j \in DOMAIN q
      BY <1>0, <1>1, <2>1, <3>3 DEF In
    <3>. QED BY <1>3, <3>1, <3>2, <3>3
  <2>. QED BY <1>1, <2>1 DEF IsQueue
<1>6. ASSUME NEW d, NEW waits, Covered(d, q, waits) PROVE Covered(d, p, waits)
  BY <1>0, <1>1, <1>3, <1>6 DEF Covered
<1>. QED BY <1>2, <1>4, <1>5, <1>6 DEF p

-----------------------------------------------------------------------------
(* Rows. *)

LEMMA Constants ==
  /\ MaxAttempts \in Nat /\ MaxRevisions \in Nat /\ MaxTasks \in Nat
  /\ NoRequirements \in Requirements /\ Undeclared \notin Requirement /\ Unknown \notin Contents
  /\ NoReview \in [verdict : Verdicts, key : Keys] /\ NoReview.verdict = "none"
  /\ NoTask \in Rows /\ RowOK(NoTask) /\ NoTask.revision = 0 /\ None \notin Tasks
<1>1. MaxAttempts \in Nat /\ MaxRevisions \in Nat /\ MaxTasks \in Nat
  BY LimitsAssumption, TasksAssumption
<1>2. NoRequirements \in Requirements /\ Undeclared \notin Requirement /\ Unknown \notin Contents
  BY ValuesAssumption DEF NoRequirements, Requirements
<1>3. NoReview \in [verdict : Verdicts, key : Keys] /\ NoReview.verdict = "none"
  BY DEF NoReview, Verdicts, Keys
<1>4. /\ NoTask.revision = 0 /\ NoTask.requirements = NoRequirements
      /\ NoTask.evidence = <<>> /\ NoTask.review = NoReview
  BY DEF NoTask
<1>5. NoTask \in Rows
  <2>1. 0 \in 0..MaxRevisions /\ <<>> \in Seq(Receipt)
    BY <1>1
  <2>. QED BY <1>2, <1>3, <2>1 DEF NoTask, Rows
<1>6. RowOK(NoTask)
  <2>1. Len(NoTask.evidence) = 0 /\ DOMAIN NoTask.evidence = {}
    BY <1>4
  <2>. QED BY <1>1, <1>3, <1>4, <1>5, <2>1 DEF RowOK, Distinct, Vouched
<1>7. None \notin Tasks
  BY DEF None, Tasks
<1>. QED BY <1>1, <1>2, <1>3, <1>4, <1>5, <1>6, <1>7

LEMMA RowFacts ==
  ASSUME NEW row, RowOK(row)
  PROVE  /\ row \in Rows /\ row.revision \in 0..MaxRevisions /\ row.requirements \in Requirements
         /\ row.evidence \in Seq(Receipt) /\ Len(row.evidence) \in Nat
         /\ DOMAIN row.evidence = 1..Len(row.evidence)
         /\ \A i \in 1..Len(row.evidence) : row.evidence[i] \in Receipt
         /\ Len(row.evidence) <= MaxAttempts /\ Distinct(row.evidence)
         /\ row.review \in [verdict : Verdicts, key : Keys]
<1>1. row \in Rows /\ row.evidence \in Seq(Receipt)
  BY DEF RowOK, Rows
<1>. QED BY <1>1 DEF RowOK, Rows

(* A filter that keeps the first m elements. *)
LEMMA OnlyPrefix ==
  ASSUME NEW s, NEW m \in Nat
  PROVE  Only(s, 1..m) = [n \in 1..m |-> s[n]]
<1>1. \A i \in 0..m : Cardinality(1..i) = i
  BY FS_Interval
<1>2. Cardinality(1..m) = m
  BY <1>1
<1>. DEFINE place(n) == CHOOSE i \in 1..m : Cardinality({j \in 1..m : j <= i}) = n
<1>3. ASSUME NEW n \in 1..m PROVE place(n) = n
  <2>1. ASSUME NEW i \in 1..m PROVE Cardinality({j \in 1..m : j <= i}) = i
    <3>1. {j \in 1..m : j <= i} = 1..i
      OBVIOUS
    <3>2. i \in 0..m
      OBVIOUS
    <3>. QED BY <1>1, <3>1, <3>2
  <2>. QED BY <2>1
<1>4. Only(s, 1..m) = [n \in 1..m |-> s[place(n)]]
  BY <1>2 DEF Only
<1>. HIDE DEF place
<1>5. [n \in 1..m |-> s[place(n)]] = [n \in 1..m |-> s[n]]
  BY <1>3
<1>. QED BY <1>4, <1>5

(* save: the receipt is new, or replaces the running one at the end. *)
LEMMA SavedFacts ==
  ASSUME NEW t \in Tasks, RowOK(tasks[t]), NEW r \in Receipt,
         \/ /\ Len(tasks[t].evidence) < MaxAttempts
            /\ \A i \in DOMAIN tasks[t].evidence : tasks[t].evidence[i].id # r.id
         \/ Under(tasks[t].evidence, r)
  PROVE  /\ RowOK(Saved(t, r)) /\ Saved(t, r).revision = tasks[t].revision
         /\ Saved(t, r).requirements = tasks[t].requirements
         /\ Final(tasks[t].evidence, Saved(t, r).evidence)
         /\ Len(Saved(t, r).evidence) > 0 /\ Saved(t, r).evidence[Len(Saved(t, r).evidence)] = r
         /\ Saved(t, r).review = NoReview
         /\ Under(tasks[t].evidence, r) => Len(Saved(t, r).evidence) = Len(tasks[t].evidence)
<1>. DEFINE old == tasks[t].evidence
            kept == {i \in DOMAIN old : old[i].id # r.id}
<1>1. /\ old \in Seq(Receipt) /\ Len(old) \in Nat /\ DOMAIN old = 1..Len(old)
      /\ \A i \in 1..Len(old) : old[i] \in Receipt
      /\ Len(old) <= MaxAttempts /\ Distinct(old) /\ tasks[t] \in Rows
  BY RowFacts
<1>2. PICK m \in Nat : /\ kept = 1..m /\ m <= Len(old) /\ m + 1 <= MaxAttempts
                       /\ \A i \in 1..m : old[i].id # r.id
                       /\ \A i \in 1..Len(old) : i > m => old[i].outcome = "running"
                       /\ Under(old, r) => m + 1 = Len(old)
  <2>1. CASE Len(old) < MaxAttempts /\ \A i \in DOMAIN old : old[i].id # r.id
    <3>1. kept = 1..Len(old)
      BY <1>1, <2>1
    <3>2. Len(old) + 1 <= MaxAttempts
      BY <1>1, <2>1, Constants
    <3>3. \A i \in 1..Len(old) : ~(i > Len(old))
      BY <1>1
    <3>4. \A i \in 1..Len(old) : old[i].id # r.id
      BY <1>1, <2>1
    <3>5. PICK n \in Nat : n = Len(old)
      BY <1>1
    <3>. HIDE DEF kept, old
    <3>6. n <= Len(old) /\ n + 1 <= MaxAttempts
      BY <3>2, <3>5
    <3>7. \A i \in 1..Len(old) : i > n => old[i].outcome = "running"
      BY <3>3, <3>5
    <3>8. kept = 1..n /\ \A i \in 1..n : old[i].id # r.id
      BY <3>1, <3>4, <3>5
    <3>9. ~Under(old, r)
      <4>1. Len(old) > 0 => Len(old) \in 1..Len(old)
        BY <1>1
      <4>. QED BY <3>4, <4>1 DEF Under
    <3>. QED BY <3>6, <3>7, <3>8, <3>9
  <2>2. CASE Under(old, r)
    <3>. DEFINE m == Len(old) - 1
    <3>1. m \in Nat /\ Len(old) \in 1..Len(old) /\ Len(old) = m + 1
      BY <1>1, <2>2 DEF Under
    <3>2. old[Len(old)].id = r.id /\ old[Len(old)].outcome = "running"
      BY <2>2 DEF Under
    <3>. HIDE DEF m
    <3>3. \A i \in 1..Len(old) : old[i].id # r.id <=> i # Len(old)
      BY <1>1, <3>1, <3>2 DEF Distinct
    <3>4. \A i \in 1..Len(old) : i # Len(old) <=> i \in 1..m
      BY <3>1
    <3>5. kept = 1..m
      <4>1. 1..m \subseteq 1..Len(old)
        BY <3>1
      <4>. QED BY <1>1, <3>3, <3>4, <4>1
    <3>6. \A i \in 1..Len(old) : i > m => i = Len(old)
      BY <3>1
    <3>7. \A i \in 1..m : old[i].id # r.id
      BY <3>1, <3>3, <3>4
    <3>8. m <= Len(old) /\ m + 1 <= MaxAttempts
      BY <1>1, <3>1
    <3>. QED BY <3>1, <3>2, <3>5, <3>6, <3>7, <3>8
  <2>. QED BY <2>1, <2>2
<1>. DEFINE head == [n \in 1..m |-> old[n]]
            new == Append(head, r)
<1>3. Only(old, kept) = head
  <2>1. PICK s : s = old
    OBVIOUS
  <2>2. Only(s, 1..m) = [n \in 1..m |-> s[n]]
    BY <1>2, OnlyPrefix
  <2>3. kept = 1..m
    BY <1>2
  <2>. HIDE DEF kept, old
  <2>. QED BY <2>1, <2>2, <2>3
<1>4. head \in Seq(Receipt) /\ Len(head) = m
  <2>1. \A n \in 1..m : old[n] \in Receipt
    BY <1>1, <1>2
  <2>2. head \in [1..m -> Receipt]
    BY <2>1
  <2>. QED BY <2>2
<1>5. /\ new \in Seq(Receipt) /\ Len(new) = m + 1 /\ DOMAIN new = 1..(m + 1) /\ new[m + 1] = r
      /\ \A i \in 1..m : new[i] = old[i]
  <2>. HIDE DEF head
  <2>1. \A i \in 1..m : new[i] = head[i]
    BY <1>4
  <2>2. \A i \in 1..m : head[i] = old[i]
    BY DEF head
  <2>. QED BY <1>4, <2>1, <2>2
<1>6. PICK s : s = Saved(t, r)
  OBVIOUS
<1>7. s = [tasks[t] EXCEPT !.review = NoReview, !.evidence = new]
  BY <1>3, <1>6 DEF Saved
<1>. HIDE DEF head, new, kept, old
<1>8. /\ s \in Rows /\ s.revision = tasks[t].revision /\ s.requirements = tasks[t].requirements
      /\ s.evidence = new /\ s.review = NoReview
  BY <1>1, <1>5, <1>7, Constants DEF Rows
<1>9. Distinct(new)
  <2>1. ASSUME NEW i \in 1..(m + 1), NEW j \in 1..(m + 1), new[i].id = new[j].id PROVE i = j
    <3>1. (i \in 1..m \/ i = m + 1) /\ (j \in 1..m \/ j = m + 1)
      OBVIOUS
    <3>2. CASE i \in 1..m /\ j \in 1..m
      <4>1. i \in DOMAIN old /\ j \in DOMAIN old
        BY <1>1, <1>2, <3>2
      <4>. QED BY <1>1, <1>5, <2>1, <3>2, <4>1 DEF Distinct
    <3>3. CASE i = m + 1 /\ j \in 1..m
      BY <1>2, <1>5, <2>1, <3>3
    <3>4. CASE i \in 1..m /\ j = m + 1
      BY <1>2, <1>5, <2>1, <3>4
    <3>. QED BY <3>1, <3>2, <3>3, <3>4
  <2>. QED BY <1>5, <2>1 DEF Distinct
<1>10. Final(old, new)
  <2>1. ASSUME NEW i \in DOMAIN old, old[i].outcome # "running" PROVE i \in 1..m
    <3>1. i \in 1..Len(old) /\ ~(i > m)
      BY <1>1, <1>2, <2>1
    <3>2. PICK n : n = Len(old) /\ n \in Nat
      BY <1>1
    <3>3. i \in 1..n /\ ~(i > m) /\ m \in Nat
      BY <1>2, <3>1, <3>2
    <3>. QED BY <3>2, <3>3
  <2>2. 1..m \subseteq 1..(m + 1)
    OBVIOUS
  <2>. QED BY <1>5, <2>1, <2>2 DEF Final
<1>11. RowOK(s)
  <2>1. Vouched(s)
    BY <1>8, Constants DEF Vouched
  <2>2. Len(s.evidence) <= MaxAttempts
    BY <1>2, <1>5, <1>8
  <2>. QED BY <1>8, <1>9, <2>1, <2>2 DEF RowOK
<1>12. Len(s.evidence) > 0 /\ s.evidence[Len(s.evidence)] = r
  BY <1>5, <1>8
<1>13. Under(tasks[t].evidence, r) => Len(s.evidence) = Len(old)
  BY <1>2, <1>5, <1>8 DEF old
<1>. QED BY <1>6, <1>8, <1>10, <1>11, <1>12, <1>13 DEF old

WrittenRow(row, r) == [row EXCEPT !.evidence = Written(@, r)]

(* A receipt written in place: the row changes at its running end only. *)
LEMMA WrittenFacts ==
  ASSUME NEW row, RowOK(row), row.review.verdict # "approved", NEW r \in Receipt,
         Under(row.evidence, r), NEW new, new = WrittenRow(row, r)
  PROVE  /\ RowOK(new) /\ new.revision = row.revision /\ new.requirements = row.requirements
         /\ new.review = row.review /\ Final(row.evidence, new.evidence)
         /\ Len(new.evidence) = Len(row.evidence) /\ new.evidence[Len(row.evidence)] = r
         /\ \A i \in DOMAIN row.evidence : i # Len(row.evidence) => new.evidence[i] = row.evidence[i]
<1>. DEFINE old == row.evidence
            n == Len(old)
<1>1. /\ old \in Seq(Receipt) /\ n \in Nat /\ DOMAIN old = 1..n
      /\ \A i \in 1..n : old[i] \in Receipt
      /\ n <= MaxAttempts /\ Distinct(old) /\ row \in Rows
  BY RowFacts
<1>2. n \in 1..n /\ old[n].id = r.id /\ old[n].outcome = "running"
  BY <1>1 DEF Under
<1>3. \A i \in 1..n : old[i].id = r.id <=> i = n
  BY <1>1, <1>2 DEF Distinct
<1>4. PICK w : w = Written(old, r)
  OBVIOUS
<1>5. /\ w \in Seq(Receipt) /\ Len(w) = n /\ DOMAIN w = 1..n
      /\ \A i \in 1..n : w[i] = IF i = n THEN r ELSE old[i]
  <2>1. w = [i \in 1..n |-> IF i = n THEN r ELSE old[i]]
    BY <1>1, <1>3, <1>4 DEF Written
  <2>2. \A i \in 1..n : (IF i = n THEN r ELSE old[i]) \in Receipt
    BY <1>1
  <2>. HIDE DEF n, old
  <2>3. w \in [1..n -> Receipt]
    BY <2>1, <2>2
  <2>. QED BY <1>1, <2>1, <2>3
<1>. HIDE DEF old
<1>6. new = [row EXCEPT !.evidence = w]
  BY <1>4 DEF old, WrittenRow
<1>7. /\ new \in Rows /\ new.revision = row.revision /\ new.requirements = row.requirements
      /\ new.review = row.review /\ new.evidence = w
  BY <1>1, <1>5, <1>6 DEF Rows
<1>8. \A i \in 1..n : w[i].id = old[i].id
  BY <1>2, <1>5
<1>9. Distinct(w)
  BY <1>1, <1>5, <1>8 DEF Distinct
<1>10. Final(old, w)
  BY <1>1, <1>2, <1>5 DEF Final
<1>11. RowOK(new)
  BY <1>1, <1>5, <1>7, <1>9 DEF RowOK, Vouched
<1>. QED BY <1>1, <1>2, <1>5, <1>7, <1>10, <1>11 DEF old

LEMMA FinalFacts ==
  /\ \A e : Final(e, e)
  /\ \A e1, e2, e3 : Final(e1, e2) /\ Final(e2, e3) => Final(e1, e3)
  /\ \A row : Trails(row, row)
<1>1. \A e : Final(e, e)
  BY DEF Final
<1>2. ASSUME NEW e1, NEW e2, NEW e3, Final(e1, e2), Final(e2, e3) PROVE Final(e1, e3)
  BY <1>2 DEF Final
<1>. QED BY <1>1, <1>2 DEF Trails

LEMMA ImageIsFinite ==
  ASSUME NEW S, IsFiniteSet(S), NEW f, f \in [S -> {f[x] : x \in S}]
  PROVE  IsFiniteSet({f[x] : x \in S})
<1>1. f \in Surjection(S, {f[x] : x \in S})
  BY DEF Surjection
<1>. QED BY <1>1, FS_Surjection

(* randomUUID(): an id no stored receipt has. *)
LEMMA FreshIdFacts ==
  ASSUME Tables, CallsInv
  PROVE  /\ FreshId \in Nat \ {0}
         /\ \A t \in Tasks : \A i \in DOMAIN tasks[t].evidence : tasks[t].evidence[i].id # FreshId
<1>. DEFINE rows == {Receipts(tasks[t].evidence) : t \in Tasks}
            ids == {r.id : r \in UNION rows}
            used == ids \cup {call[d].receipt.id : d \in Calls}
<1>1. IsFiniteSet(Tasks) /\ IsFiniteSet(Calls)
  <2>1. IsFiniteSet(1..MaxTasks)
    BY Constants, FS_Interval
  <2>. QED BY <2>1, CallsAssumption, FS_Union DEF Tasks, Calls
<1>2. ASSUME NEW t \in Tasks PROVE IsFiniteSet(Receipts(tasks[t].evidence))
  <2>. DEFINE e == tasks[t].evidence
  <2>1. e \in Seq(Receipt) /\ Len(e) \in Nat /\ DOMAIN e = 1..Len(e)
    BY RowFacts DEF Tables
  <2>2. IsFiniteSet(DOMAIN e)
    BY <2>1, FS_Interval
  <2>3. e \in [DOMAIN e -> {e[x] : x \in DOMAIN e}]
    BY <2>1
  <2>. HIDE DEF e
  <2>4. IsFiniteSet({e[x] : x \in DOMAIN e})
    BY <2>2, <2>3, ImageIsFinite
  <2>. QED BY <2>4 DEF e, Receipts
<1>3. IsFiniteSet(rows)
  <2>. DEFINE f == [t \in Tasks |-> Receipts(tasks[t].evidence)]
  <2>1. f \in [Tasks -> {f[x] : x \in Tasks}] /\ {f[x] : x \in Tasks} = rows
    OBVIOUS
  <2>. HIDE DEF f, rows
  <2>. QED BY <1>1, <2>1, ImageIsFinite
<1>4. IsFiniteSet(UNION rows)
  BY <1>2, <1>3, FS_UNION
<1>5. IsFiniteSet(ids)
  <2>. DEFINE f == [r \in UNION rows |-> r.id]
  <2>1. f \in [UNION rows -> {f[x] : x \in UNION rows}] /\ {f[x] : x \in UNION rows} = ids
    OBVIOUS
  <2>. HIDE DEF f, rows, ids
  <2>. QED BY <1>4, <2>1, ImageIsFinite
<1>6. IsFiniteSet({call[d].receipt.id : d \in Calls})
  <2>. DEFINE f == [d \in Calls |-> call[d].receipt.id]
  <2>1. /\ f \in [Calls -> {f[x] : x \in Calls}]
        /\ {f[x] : x \in Calls} = {call[d].receipt.id : d \in Calls}
    OBVIOUS
  <2>. HIDE DEF f
  <2>. QED BY <1>1, <2>1, ImageIsFinite
<1>7. IsFiniteSet(used) /\ Cardinality(used) \in Nat
  <2>. HIDE DEF ids
  <2>. QED BY <1>5, <1>6, FS_Union, FS_CardinalityType
<1>8. FreshId = CHOOSE i \in 1..(Cardinality(used) + 1) : i \notin used
  BY DEF FreshId
<1>9. ASSUME NEW t \in Tasks, NEW i \in DOMAIN tasks[t].evidence
      PROVE  tasks[t].evidence[i].id \in used
  <2>1. tasks[t].evidence[i] \in UNION rows
    BY DEF Receipts
  <2>. HIDE DEF rows
  <2>. QED BY <2>1
<1>. HIDE DEF used, ids, rows
<1>10. \E i \in 1..(Cardinality(used) + 1) : i \notin used
  <2>. SUFFICES ASSUME 1..(Cardinality(used) + 1) \subseteq used PROVE FALSE
    OBVIOUS
  <2>1. Cardinality(1..(Cardinality(used) + 1)) <= Cardinality(used)
    BY <1>7, FS_Subset
  <2>2. Cardinality(1..(Cardinality(used) + 1)) = Cardinality(used) + 1
    BY <1>7, FS_Interval
  <2>. QED BY <1>7, <2>1, <2>2
<1>11. FreshId \in 1..(Cardinality(used) + 1) /\ FreshId \notin used
  BY <1>8, <1>10
<1>. QED BY <1>7, <1>9, <1>11

-----------------------------------------------------------------------------
(* How the parts of the invariant move. *)

LEMMA Reflexive ==
  ASSUME Tables, UNCHANGED tableVars, UNCHANGED work
  PROVE  Tables' /\ LegalStep
<1>1. tasks' = tasks /\ stored' = stored /\ active' = active /\ work' = work
  BY DEF tableVars
<1>2. Tables'
  BY <1>1 DEF Tables, Exists
<1>3. \A e : Final(e, e)
  BY FinalFacts
<1>4. \A q : KeepsPromises(q, q)
  BY DEF KeepsPromises
<1>. QED BY <1>1, <1>2, <1>3, <1>4 DEF LegalStep

LEMMA CallMoves ==
  ASSUME call \in [Calls -> CallRecords], NEW c \in Calls, NEW n \in CallRecords, Goes(c, n)
  PROVE  /\ call' \in [Calls -> CallRecords] /\ call'[c] = n
         /\ \A d \in Calls : d # c => call'[d] = call[d]
BY DEF Goes

(* Only c's record changes: the others rely on what they relied on. *)
LEMMA CallsInvMoves ==
  ASSUME CallsInv, NEW c \in Calls, NEW n \in CallRecords, Goes(c, n), UNCHANGED tableVars,
         CallOK(n, tasks[n.task], stored[n.task], active)
  PROVE  CallsInv'
<1>1. tasks' = tasks /\ stored' = stored /\ active' = active
  BY DEF tableVars
<1>2. /\ call' \in [Calls -> CallRecords] /\ call'[c] = n
      /\ \A d \in Calls : d # c => call'[d] = call[d]
  BY CallMoves DEF CallsInv
<1>3. ASSUME NEW d \in Calls PROVE CallOK(call'[d], tasks[call'[d].task], stored[call'[d].task], active)
  <2>1. CASE d = c
    BY <1>2, <2>1
  <2>2. CASE d # c
    BY <1>2, <2>2 DEF CallsInv
  <2>. QED BY <2>1, <2>2
<1>. QED BY <1>1, <1>2, <1>3 DEF CallsInv

(* c stays in the queues it was in. *)
LEMMA QueuesStay ==
  ASSUME CallsInv, QueueInv, DrainInv, NEW c \in Calls, NEW n \in CallRecords, Goes(c, n),
         UNCHANGED queueVars, UNCHANGED stopVars,
         n.pc \in Queueing <=> call[c].pc \in Queueing,
         n.pc \in Queueing => n.task = call[c].task,
         n.pc \in Holding => Leads(c, tails[n.task]),
         InPlan(n) <=> InPlan(call[c]), Planning(n) => Leads(c, planTail)
  PROVE  QueueInv' /\ DrainInv'
<1>1. planTail' = planTail /\ tails' = tails /\ phase' = phase /\ awaited' = awaited /\ owed' = owed
  BY DEF queueVars, stopVars
<1>2. call'[c] = n /\ \A d \in Calls : d # c => call'[d] = call[d]
  BY CallMoves DEF CallsInv
<1>3. ASSUME NEW d \in Calls
      PROVE  /\ \A t \in Tasks : In(d, tails[t]) <=> (call'[d].pc \in Queueing /\ call'[d].task = t)
             /\ In(d, planTail) <=> InPlan(call'[d])
             /\ call'[d].pc \in Queueing => call'[d].task \in Tasks
             /\ call'[d].pc \in Holding => Leads(d, tails[call'[d].task])
             /\ Planning(call'[d]) => Leads(d, planTail)
  <2>1. CASE d = c
    <3>1. \A t \in Tasks : In(c, tails[t]) <=> (n.pc \in Queueing /\ n.task = t)
      BY DEF QueueInv
    <3>2. In(c, planTail) <=> InPlan(n)
      BY DEF QueueInv
    <3>3. n.pc \in Queueing => n.task \in Tasks
      BY DEF QueueInv
    <3>. QED BY <1>2, <2>1, <3>1, <3>2, <3>3
  <2>2. CASE d # c
    <3>1. call'[d] = call[d]
      BY <1>2, <2>2
    <3>. QED BY <3>1 DEF QueueInv
  <2>. QED BY <2>1, <2>2
<1>4. QueueInv'
  BY <1>1, <1>3 DEF QueueInv
<1>5. DrainInv'
  BY <1>1 DEF DrainInv
<1>. QED BY <1>4, <1>5

(* c joins the queue of task t. *)
LEMMA QueuedJoins ==
  ASSUME CallsInv, QueueInv, DrainInv, NEW c \in Calls, NEW n \in CallRecords, Goes(c, n),
         NEW t \in Tasks, Queued(t, c), UNCHANGED planTail, UNCHANGED stopVars,
         call[c].pc \notin Queueing, n.pc \in Queueing, n.pc \notin Holding, n.task = t,
         InPlan(n) <=> InPlan(call[c]), Planning(n) => Leads(c, planTail)
  PROVE  QueueInv' /\ DrainInv'
<1>1. phase' = phase /\ awaited' = awaited /\ owed' = owed
  BY DEF stopVars
<1>2. call'[c] = n /\ \A d \in Calls : d # c => call'[d] = call[d]
  BY CallMoves DEF CallsInv
<1>3. IsQueue(tails[t]) /\ ~In(c, tails[t])
  BY DEF QueueInv
<1>4. PICK q : q = Append(tails[t], c)
  OBVIOUS
<1>5. /\ DOMAIN tails' = Tasks /\ tails'[t] = q
      /\ \A u \in Tasks : u # t => tails'[u] = tails[u]
  BY <1>4 DEF QueueInv, Queued
<1>6. /\ IsQueue(q)
      /\ \A d : In(d, q) <=> (In(d, tails[t]) \/ d = c)
      /\ \A d : Leads(d, tails[t]) => Leads(d, q)
      /\ \A d, waits : Covered(d, tails[t], waits) => Covered(d, q, waits)
  BY <1>3, <1>4, AppendFacts
<1>7. ASSUME NEW u \in Tasks
      PROVE  /\ IsQueue(tails'[u])
             /\ \A d : In(d, tails'[u]) <=> (In(d, tails[u]) \/ (d = c /\ u = t))
             /\ \A d : Leads(d, tails[u]) => Leads(d, tails'[u])
             /\ \A d, waits : Covered(d, tails[u], waits) => Covered(d, tails'[u], waits)
  <2>1. CASE u = t
    BY <1>5, <1>6, <2>1
  <2>2. CASE u # t
    <3>1. tails'[u] = tails[u] /\ IsQueue(tails[u])
      BY <1>5, <2>2 DEF QueueInv
    <3>. QED BY <2>2, <3>1
  <2>. QED BY <2>1, <2>2
<1>8. ASSUME NEW d \in Calls
      PROVE  /\ \A u \in Tasks : In(d, tails'[u]) <=> (call'[d].pc \in Queueing /\ call'[d].task = u)
             /\ In(d, planTail) <=> InPlan(call'[d])
             /\ call'[d].pc \in Queueing => call'[d].task \in Tasks
             /\ call'[d].pc \in Holding => Leads(d, tails'[call'[d].task])
             /\ Planning(call'[d]) => Leads(d, planTail)
  <2>1. CASE d = c
    <3>1. \A u \in Tasks : ~In(c, tails[u])
      BY DEF QueueInv
    <3>2. \A u \in Tasks : In(c, tails'[u]) <=> (n.pc \in Queueing /\ n.task = u)
      BY <1>7, <3>1
    <3>3. In(c, planTail) <=> InPlan(n)
      BY DEF QueueInv
    <3>. QED BY <1>2, <2>1, <3>2, <3>3
  <2>2. CASE d # c
    <3>1. call'[d] = call[d]
      BY <1>2, <2>2
    <3>2. /\ \A u \in Tasks : In(d, tails[u]) <=> (call[d].pc \in Queueing /\ call[d].task = u)
          /\ In(d, planTail) <=> InPlan(call[d])
          /\ call[d].pc \in Queueing => call[d].task \in Tasks
          /\ call[d].pc \in Holding => Leads(d, tails[call[d].task])
          /\ Planning(call[d]) => Leads(d, planTail)
      BY DEF QueueInv
    <3>3. call[d].pc \in Holding => call[d].task \in Tasks
      BY <3>2 DEF Queueing
    <3>4. \A u \in Tasks : In(d, tails'[u]) <=> In(d, tails[u])
      BY <1>7, <2>2
    <3>5. call[d].pc \in Holding => Leads(d, tails'[call[d].task])
      BY <1>7, <3>2, <3>3
    <3>. QED BY <3>1, <3>2, <3>4, <3>5
  <2>. QED BY <2>1, <2>2
<1>9. QueueInv'
  <2>1. IsQueue(planTail')
    BY DEF QueueInv
  <2>. QED BY <1>5, <1>7, <1>8, <2>1 DEF QueueInv
<1>10. DrainInv'
  <2>1. ASSUME NEW d \in owed, phase \in {"draining", "closed"}
        PROVE  Covered(d, planTail, awaited) \/ \E u \in Tasks : Covered(d, tails'[u], awaited)
    BY <1>7, <2>1 DEF DrainInv
  <2>. QED BY <1>1, <2>1 DEF DrainInv
<1>. QED BY <1>9, <1>10

(* A plan() joins the session's queue. *)
LEMMA PlanJoins ==
  ASSUME CallsInv, QueueInv, DrainInv, NEW c \in Calls, NEW n \in CallRecords, Goes(c, n),
         planTail' = Append(planTail, c), UNCHANGED tails, UNCHANGED stopVars,
         call[c].pc = "idle", n.pc = "planning"
  PROVE  QueueInv' /\ DrainInv'
<1>1. phase' = phase /\ awaited' = awaited /\ owed' = owed
  BY DEF stopVars
<1>2. call'[c] = n /\ \A d \in Calls : d # c => call'[d] = call[d]
  BY CallMoves DEF CallsInv
<1>3. ~InPlan(call[c]) /\ InPlan(n) /\ ~Planning(n) /\ n.pc \notin Queueing /\ call[c].pc \notin Queueing
  BY DEF InPlan, Planning, Queueing, Holding
<1>4. IsQueue(planTail) /\ ~In(c, planTail)
  BY <1>3 DEF QueueInv
<1>5. /\ IsQueue(planTail')
      /\ \A d : In(d, planTail') <=> (In(d, planTail) \/ d = c)
      /\ \A d : Leads(d, planTail) => Leads(d, planTail')
      /\ \A d, waits : Covered(d, planTail, waits) => Covered(d, planTail', waits)
  <2>1. PICK q : q = Append(planTail, c)
    OBVIOUS
  <2>2. /\ IsQueue(q)
        /\ \A d : In(d, q) <=> (In(d, planTail) \/ d = c)
        /\ \A d : Leads(d, planTail) => Leads(d, q)
        /\ \A d, waits : Covered(d, planTail, waits) => Covered(d, q, waits)
    BY <1>4, <2>1, AppendFacts
  <2>. QED BY <2>1, <2>2
<1>6. ASSUME NEW d \in Calls
      PROVE  /\ \A u \in Tasks : In(d, tails[u]) <=> (call'[d].pc \in Queueing /\ call'[d].task = u)
             /\ In(d, planTail') <=> InPlan(call'[d])
             /\ call'[d].pc \in Queueing => call'[d].task \in Tasks
             /\ call'[d].pc \in Holding => Leads(d, tails[call'[d].task])
             /\ Planning(call'[d]) => Leads(d, planTail')
  <2>1. CASE d = c
    <3>1. \A u \in Tasks : ~In(c, tails[u])
      BY <1>3 DEF QueueInv
    <3>2. n.pc \notin Holding
      BY <1>3 DEF Queueing
    <3>. QED BY <1>2, <1>3, <1>5, <2>1, <3>1, <3>2
  <2>2. CASE d # c
    <3>1. call'[d] = call[d]
      BY <1>2, <2>2
    <3>2. /\ \A u \in Tasks : In(d, tails[u]) <=> (call[d].pc \in Queueing /\ call[d].task = u)
          /\ In(d, planTail) <=> InPlan(call[d])
          /\ call[d].pc \in Queueing => call[d].task \in Tasks
          /\ call[d].pc \in Holding => Leads(d, tails[call[d].task])
          /\ Planning(call[d]) => Leads(d, planTail)
      BY DEF QueueInv
    <3>. QED BY <1>5, <2>2, <3>1, <3>2
  <2>. QED BY <2>1, <2>2
<1>7. QueueInv'
  BY <1>5, <1>6 DEF QueueInv
<1>8. DrainInv'
  <2>1. ASSUME NEW d \in owed, phase \in {"draining", "closed"}
        PROVE  Covered(d, planTail', awaited) \/ \E u \in Tasks : Covered(d, tails[u], awaited)
    BY <1>5, <2>1 DEF DrainInv
  <2>. QED BY <1>1, <2>1 DEF DrainInv
<1>. QED BY <1>7, <1>8

(* c settles at the head of the queues it stands in. *)
LEMMA SettleMoves ==
  ASSUME CallsInv, QueueInv, DrainInv, NEW c \in Calls, Settle(c), Idle \in CallRecords,
         call[c].pc \in Queueing => Leads(c, tails[call[c].task]),
         InPlan(call[c]) => Leads(c, planTail)
  PROVE  QueueInv' /\ DrainInv'
<1>1. /\ phase' = phase /\ awaited' = awaited \ {c} /\ owed' = owed \ {c}
      /\ Goes(c, Idle) /\ planTail' = Pop(planTail, c)
      /\ DOMAIN tails' = Tasks /\ \A t \in Tasks : tails'[t] = Pop(tails[t], c)
  BY DEF Settle
<1>2. call'[c] = Idle /\ \A d \in Calls : d # c => call'[d] = call[d]
  BY <1>1, CallMoves DEF CallsInv
<1>3. /\ IsQueue(planTail') /\ ~In(c, planTail')
      /\ \A d : d # c => (In(d, planTail') <=> In(d, planTail))
      /\ \A d : d # c /\ Leads(d, planTail) => Leads(d, planTail')
      /\ \A d, waits : d # c /\ Covered(d, planTail, waits) => Covered(d, planTail', waits \ {c})
  <2>1. IsQueue(planTail) /\ (In(c, planTail) => Leads(c, planTail))
    BY DEF QueueInv
  <2>2. PICK q : q = Pop(planTail, c)
    OBVIOUS
  <2>3. /\ IsQueue(q) /\ ~In(c, q)
        /\ \A d : d # c => (In(d, q) <=> In(d, planTail))
        /\ \A d : d # c /\ Leads(d, planTail) => Leads(d, q)
        /\ \A d, waits : d # c /\ Covered(d, planTail, waits) => Covered(d, q, waits \ {c})
    BY <2>1, <2>2, PopFacts
  <2>. QED BY <1>1, <2>2, <2>3
<1>4. ASSUME NEW t \in Tasks
      PROVE  /\ IsQueue(tails'[t]) /\ ~In(c, tails'[t])
             /\ \A d : d # c => (In(d, tails'[t]) <=> In(d, tails[t]))
             /\ \A d : d # c /\ Leads(d, tails[t]) => Leads(d, tails'[t])
             /\ \A d, waits : d # c /\ Covered(d, tails[t], waits) => Covered(d, tails'[t], waits \ {c})
  <2>1. IsQueue(tails[t]) /\ (In(c, tails[t]) => Leads(c, tails[t]))
    BY DEF QueueInv
  <2>2. PICK q : q = Pop(tails[t], c)
    OBVIOUS
  <2>3. /\ IsQueue(q) /\ ~In(c, q)
        /\ \A d : d # c => (In(d, q) <=> In(d, tails[t]))
        /\ \A d : d # c /\ Leads(d, tails[t]) => Leads(d, q)
        /\ \A d, waits : d # c /\ Covered(d, tails[t], waits) => Covered(d, q, waits \ {c})
    BY <2>1, <2>2, PopFacts
  <2>. QED BY <1>1, <2>2, <2>3
<1>5. Idle.pc \notin Queueing /\ Idle.pc \notin Holding /\ ~InPlan(Idle) /\ ~Planning(Idle)
  BY DEF Idle, Queueing, Holding, InPlan, Planning
<1>6. ASSUME NEW d \in Calls
      PROVE  /\ \A u \in Tasks : In(d, tails'[u]) <=> (call'[d].pc \in Queueing /\ call'[d].task = u)
             /\ In(d, planTail') <=> InPlan(call'[d])
             /\ call'[d].pc \in Queueing => call'[d].task \in Tasks
             /\ call'[d].pc \in Holding => Leads(d, tails'[call'[d].task])
             /\ Planning(call'[d]) => Leads(d, planTail')
  <2>1. CASE d = c
    BY <1>2, <1>3, <1>4, <1>5, <2>1
  <2>2. CASE d # c
    <3>1. call'[d] = call[d]
      BY <1>2, <2>2
    <3>2. /\ \A u \in Tasks : In(d, tails[u]) <=> (call[d].pc \in Queueing /\ call[d].task = u)
          /\ In(d, planTail) <=> InPlan(call[d])
          /\ call[d].pc \in Queueing => call[d].task \in Tasks
          /\ call[d].pc \in Holding => Leads(d, tails[call[d].task])
          /\ Planning(call[d]) => Leads(d, planTail)
      BY DEF QueueInv
    <3>3. call[d].pc \in Holding => call[d].task \in Tasks
      BY <3>2 DEF Queueing
    <3>4. \A u \in Tasks : In(d, tails'[u]) <=> In(d, tails[u])
      BY <1>4, <2>2
    <3>5. call[d].pc \in Holding => Leads(d, tails'[call[d].task])
      BY <1>4, <2>2, <3>2, <3>3
    <3>. QED BY <1>3, <2>2, <3>1, <3>2, <3>4, <3>5
  <2>. QED BY <2>1, <2>2
<1>7. QueueInv'
  BY <1>1, <1>3, <1>4, <1>6 DEF QueueInv
<1>8. DrainInv'
  <2>1. ASSUME NEW d \in owed \ {c}, phase \in {"draining", "closed"}
        PROVE  \/ Covered(d, planTail', awaited \ {c})
               \/ \E u \in Tasks : Covered(d, tails'[u], awaited \ {c})
    <3>1. Covered(d, planTail, awaited) \/ \E u \in Tasks : Covered(d, tails[u], awaited)
      BY <2>1 DEF DrainInv
    <3>. QED BY <1>3, <1>4, <3>1
  <2>. QED BY <1>1, <2>1 DEF DrainInv
<1>. QED BY <1>7, <1>8

LEMMA IdleFacts ==
  /\ Idle \in CallRecords /\ Idle.pc = "idle" /\ Idle.row = NoTask
  /\ \A row, disk, pointer : CallOK(Idle, row, disk, pointer)
<1>1. NoReceipt \in Receipt \union {NoReceipt} /\ <<>> \in Seq(Receipt)
  OBVIOUS
<1>2. [k \in Checks |-> Unknown] \in Currents /\ NoKey \in Keys
  BY DEF Currents, Keys
<1>3. Idle \in CallRecords
  BY <1>1, <1>2, Constants DEF Idle, CallRecords, Verdicts
<1>4. Idle.pc = "idle" /\ Idle.row = NoTask
  BY DEF Idle
<1>5. ASSUME NEW row, NEW disk, NEW pointer PROVE CallOK(Idle, row, disk, pointer)
  BY <1>4 DEF CallOK, HeldOK, InPlan, Planning
<1>. QED BY <1>3, <1>4, <1>5

(* The general step: what c's new record and the others rely on still holds. *)
LEMMA CallsRely ==
  ASSUME CallsInv, NEW c \in Calls, NEW n \in CallRecords, Goes(c, n),
         CallOK(n, tasks'[n.task], stored'[n.task], active'),
         \A d \in Calls : d # c => CallOK(call[d], tasks'[call[d].task], stored'[call[d].task], active')
  PROVE  CallsInv'
<1>1. /\ call' \in [Calls -> CallRecords] /\ call'[c] = n
      /\ \A d \in Calls : d # c => call'[d] = call[d]
  BY CallMoves DEF CallsInv
<1>2. ASSUME NEW d \in Calls PROVE CallOK(call'[d], tasks'[call'[d].task], stored'[call'[d].task], active')
  <2>1. CASE d = c
    BY <1>1, <2>1
  <2>2. CASE d # c
    BY <1>1, <2>2
  <2>. QED BY <2>1, <2>2
<1>. QED BY <1>1, <1>2 DEF CallsInv

(* A call that settles and leaves the tables alone. *)
LEMMA SettleStep ==
  ASSUME Inv, NEW c \in Calls, Settle(c), UNCHANGED <<tableVars, work>>,
         call[c].pc \in Queueing => Leads(c, tails[call[c].task]),
         InPlan(call[c]) => Leads(c, planTail)
  PROVE  Inv' /\ LegalStep
<1>1. Goes(c, Idle)
  BY DEF Settle
<1>2. QueueInv' /\ DrainInv'
  BY IdleFacts, SettleMoves DEF Inv
<1>3. CallsInv'
  BY <1>1, IdleFacts, CallsInvMoves DEF Inv
<1>4. Tables' /\ LegalStep
  BY Reflexive DEF Inv
<1>. QED BY <1>2, <1>3, <1>4 DEF Inv

(* A call that only moves on. *)
LEMMA MoveStep ==
  ASSUME Inv, NEW c \in Calls, NEW n \in CallRecords, Goes(c, n),
         UNCHANGED <<tableVars, work, queueVars, stopVars>>,
         n.pc \in Queueing <=> call[c].pc \in Queueing,
         n.pc \in Queueing => n.task = call[c].task,
         n.pc \in Holding => Leads(c, tails[n.task]),
         InPlan(n) <=> InPlan(call[c]), Planning(n) => Leads(c, planTail),
         CallOK(n, tasks[n.task], stored[n.task], active)
  PROVE  Inv' /\ LegalStep
<1>1. QueueInv' /\ DrainInv'
  BY QueuesStay DEF Inv
<1>2. CallsInv'
  BY CallsInvMoves DEF Inv
<1>3. Tables' /\ LegalStep
  BY Reflexive DEF Inv
<1>. QED BY <1>1, <1>2, <1>3 DEF Inv

-----------------------------------------------------------------------------
(* One step per action: puts that land and puts that start. *)

LEMMA CallFacts ==
  ASSUME Inv, NEW c \in Calls
  PROVE  /\ call[c] \in CallRecords /\ CallOK(call[c], tasks[call[c].task], stored[call[c].task], active)
         /\ call[c].pc \in Queueing => call[c].task \in Tasks /\ RowOK(tasks[call[c].task])
         /\ call[c].pc \in Holding => call[c].pc \in Queueing /\ Leads(c, tails[call[c].task])
         /\ InPlan(call[c]) => In(c, planTail)
         /\ Planning(call[c]) => Leads(c, planTail)
<1>1. call[c] \in CallRecords /\ CallOK(call[c], tasks[call[c].task], stored[call[c].task], active)
  BY DEF Inv, CallsInv
<1>2. call[c].pc \in Queueing => call[c].task \in Tasks
  BY DEF Inv, QueueInv
<1>3. call[c].pc \in Holding => call[c].pc \in Queueing /\ Leads(c, tails[call[c].task])
  BY DEF Inv, QueueInv, Queueing
<1>4. /\ InPlan(call[c]) => In(c, planTail)
      /\ Planning(call[c]) => Leads(c, planTail)
  BY DEF Inv, QueueInv
<1>5. \A t \in Tasks : RowOK(tasks[t])
  BY DEF Inv, Tables
<1>. QED BY <1>1, <1>2, <1>3, <1>4, <1>5

(* A call past its own turn in planTail leads it when it settles. *)
LEMMA SettlesFromHead ==
  ASSUME Inv, NEW c \in Calls, Settle(c), UNCHANGED <<tableVars, work>>,
         call[c].pc # "planning",
         call[c].pc \in Queueing => Leads(c, tails[call[c].task])
  PROVE  Inv' /\ LegalStep
<1>1. InPlan(call[c]) => Leads(c, planTail)
  BY CallFacts DEF Planning
<1>. QED BY <1>1, SettleStep

LEMMA PutStep ==
  ASSUME Inv, NEW c \in Calls, NEW r \in CallRecords, NEW row,
         NEW next \in {"activate", "return", "source"}, Put(c, r, row, next),
         UNCHANGED <<tableVars, work, queueVars, stopVars>>,
         call[c].pc \in Queueing, Leads(c, tails[call[c].task]), r.task = call[c].task,
         InPlan(call[c]) <=> next = "activate",
         RowOK(row), tasks[r.task].revision <= row.revision,
         KeepsPromises(tasks[r.task].requirements, row.requirements),
         Final(tasks[r.task].evidence, row.evidence),
         next = "activate" => row.revision > 0,
         next = "source" => r.check \in Checks /\ OnRecord(row, r.receipt)
  PROVE  Inv' /\ LegalStep
<1>1. PICK n : n = [r EXCEPT !.pc = "put", !.row = row, !.next = next]
  OBVIOUS
<1>2. /\ n \in CallRecords /\ n.pc = "put" /\ n.row = row /\ n.next = next
      /\ n.task = r.task /\ n.check = r.check /\ n.receipt = r.receipt
  <2>1. row \in Rows
    BY RowFacts
  <2>2. "put" \in {"idle", "planning", "observe", "shown"} \union Queueing
    BY DEF Queueing, Holding
  <2>. QED BY <1>1, <2>1, <2>2 DEF CallRecords
<1>3. Goes(c, n)
  BY <1>1 DEF Put
<1>4. PutOK(n, tasks[n.task])
  <2>1. n.next # "idle" /\ n.next # "command"
    BY <1>2
  <2>. QED BY <1>2, <2>1 DEF PutOK
<1>5. HeldOK(n, tasks[n.task], stored[n.task])
  BY <1>2, <1>4 DEF HeldOK
<1>6. n.pc \in Queueing /\ n.pc \in Holding /\ call[c].pc # "planning"
  BY <1>2 DEF Queueing, Holding
<1>7. InPlan(n) <=> InPlan(call[c])
  BY <1>2 DEF InPlan
<1>8. Planning(n) => Planning(call[c])
  BY <1>6, <1>7 DEF Planning
<1>9. Planning(n) => Leads(c, planTail) /\ active \in {None, n.task}
  BY <1>2, <1>8, CallFacts DEF CallOK
<1>10. CallOK(n, tasks[n.task], stored[n.task], active)
  BY <1>2, <1>5, <1>9 DEF CallOK
<1>. QED BY <1>2, <1>3, <1>6, <1>7, <1>9, <1>10, MoveStep

(* What the file holds once the rows of put are published. *)
LEMMA Published ==
  ASSUME Tables, tasks' \in [Tasks -> Rows], \A u \in Tasks : RowOK(tasks'[u]),
         \A u \in Tasks : Final(tasks[u].evidence, tasks'[u].evidence),
         NEW put, \A u \in Tasks \ put : tasks'[u] = tasks[u],
         NEW rows, tasks' = rows, Publishes(rows, put)
  PROVE  /\ stored' \in [Tasks -> Rows]
         /\ \A u \in Tasks : RowOK(stored'[u]) /\ Trails(stored'[u], tasks'[u])
         /\ \A u \in Tasks : Final(stored[u].evidence, stored'[u].evidence)
         /\ \A u \in Tasks : stored'[u] \in {stored[u], tasks'[u]}
         /\ \A u \in Tasks \intersect put : stored'[u] = tasks'[u]
<1>1. PICK late \in SUBSET (Tasks \ put) :
        stored' = [t \in Tasks |-> IF t \in late THEN stored[t] ELSE rows[t]]
  BY DEF Publishes
<1>2. ASSUME NEW u \in Tasks
      PROVE  /\ stored'[u] \in Rows /\ RowOK(stored'[u]) /\ Trails(stored'[u], tasks'[u])
             /\ Final(stored[u].evidence, stored'[u].evidence)
             /\ stored'[u] \in {stored[u], tasks'[u]} /\ (u \in put => stored'[u] = tasks'[u])
  <2>1. RowOK(stored[u]) /\ Trails(stored[u], tasks[u]) /\ stored[u] \in Rows
    BY DEF Tables
  <2>2. CASE u \in late
    <3>1. stored'[u] = stored[u] /\ tasks'[u] = tasks[u] /\ u \notin put
      BY <1>1, <2>2
    <3>. QED BY <2>1, <3>1, FinalFacts
  <2>3. CASE u \notin late
    <3>1. stored'[u] = tasks'[u]
      BY <1>1, <2>3
    <3>2. Final(stored[u].evidence, tasks'[u].evidence)
      BY <2>1, FinalFacts DEF Trails
    <3>. QED BY <3>1, <3>2, FinalFacts
  <2>. QED BY <2>2, <2>3
<1>3. stored' \in [Tasks -> Rows]
  BY <1>1, <1>2
<1>. QED BY <1>2, <1>3

(* A row that is published while its run's command is under way has the      *)
(* receipt on record: what others rely on holds in memory and on the medium. *)
LEMMA OthersRely ==
  ASSUME NEW r, NEW row, NEW disk, NEW disk2 \in {disk, row}, NEW pointer,
         CallOK(r, row, disk, pointer)
  PROVE  CallOK(r, row, disk2, pointer)
BY DEF CallOK, HeldOK

(* A call that does not lead its task's queue relies on no row. *)
LEMMA NotHolding ==
  ASSUME NEW r, r.pc \notin Holding, NEW row1, NEW disk1, NEW pointer,
         CallOK(r, row1, disk1, pointer), NEW row2, NEW disk2
  PROVE  CallOK(r, row2, disk2, pointer)
<1>1. r.pc \notin {"put", "activate", "source", "command", "reobserve"}
  BY DEF Holding
<1>. QED BY <1>1 DEF CallOK, HeldOK

(* Nobody else relies on the row of the call that leads its task's queue. *)
LEMMA PutLands ==
  ASSUME Inv, NEW c \in Calls, At(c, "put"),
         NEW rows, rows = [tasks EXCEPT ![call[c].task] = call[c].row],
         tasks' = rows, Publishes(rows, {call[c].task}), UNCHANGED <<active, work>>
  PROVE  /\ Tables' /\ LegalStep /\ tasks'[call[c].task] = call[c].row
         /\ stored'[call[c].task] = call[c].row
         /\ PutOK(call[c], tasks[call[c].task])
         /\ \A d \in Calls : d # c => CallOK(call[d], tasks'[call[d].task], stored'[call[d].task], active')
<1>. DEFINE t == call[c].task
<1>1. call[c].pc = "put" /\ call[c].pc \in Holding
  BY DEF At, Holding
<1>2. t \in Tasks /\ Leads(c, tails[t]) /\ PutOK(call[c], tasks[t])
  BY <1>1, CallFacts DEF CallOK, HeldOK
<1>3. PICK row : row = call[c].row
  OBVIOUS
<1>4. /\ RowOK(row) /\ tasks[t].revision <= row.revision
      /\ KeepsPromises(tasks[t].requirements, row.requirements)
      /\ Final(tasks[t].evidence, row.evidence)
  BY <1>2, <1>3 DEF PutOK
<1>5. tasks \in [Tasks -> Rows] /\ (\A u \in Tasks : RowOK(tasks[u]))
  BY DEF Inv, Tables
<1>. HIDE DEF t
<1>6. /\ tasks' = [tasks EXCEPT ![t] = row] /\ tasks'[t] = row
      /\ \A u \in Tasks : u # t => tasks'[u] = tasks[u]
  BY <1>2, <1>3, <1>5 DEF t
<1>7. tasks' \in [Tasks -> Rows]
  BY <1>4, <1>5, <1>6, RowFacts
<1>8. ASSUME NEW u \in Tasks
      PROVE  /\ RowOK(tasks'[u]) /\ tasks[u].revision <= tasks'[u].revision
             /\ Final(tasks[u].evidence, tasks'[u].evidence)
             /\ KeepsPromises(tasks[u].requirements, tasks'[u].requirements)
  <2>1. CASE u = t
    BY <1>4, <1>6, <2>1
  <2>2. CASE u # t
    <3>1. tasks[u].revision \in 0..MaxRevisions
      BY <1>5, RowFacts
    <3>2. tasks[u].revision <= tasks[u].revision
      BY <3>1, Constants
    <3>3. tasks'[u] = tasks[u]
      BY <1>6, <2>2
    <3>. QED BY <1>5, <3>2, <3>3, FinalFacts DEF KeepsPromises
  <2>. QED BY <2>1, <2>2
<1>9. /\ stored' \in [Tasks -> Rows]
      /\ \A u \in Tasks : RowOK(stored'[u]) /\ Trails(stored'[u], tasks'[u])
      /\ \A u \in Tasks : Final(stored[u].evidence, stored'[u].evidence)
      /\ \A u \in Tasks : stored'[u] \in {stored[u], tasks'[u]}
      /\ stored'[t] = tasks'[t]
  <2>1. \A u \in Tasks \ {t} : tasks'[u] = tasks[u]
    BY <1>6
  <2>2. Publishes(rows, {t}) /\ tasks' = rows
    BY DEF t
  <2>. QED BY <1>2, <1>7, <1>8, <2>1, <2>2, Published DEF Inv
<1>10. Tables'
  <2>1. active \in Tasks \union {None} /\ (active # None => tasks[active].revision > 0)
        /\ work \in [Checks -> Contents]
    BY DEF Inv, Tables, Exists
  <2>2. active # None => tasks'[active].revision > 0
    <3>1. ASSUME active # None PROVE tasks'[active].revision > 0
      <4>1. active \in Tasks /\ tasks[active].revision > 0
        BY <2>1, <3>1
      <4>2. /\ tasks[active].revision \in 0..MaxRevisions /\ tasks'[active].revision \in 0..MaxRevisions
            /\ tasks[active].revision <= tasks'[active].revision
        BY <1>5, <1>8, <4>1, RowFacts
      <4>. QED BY <4>1, <4>2, Constants
    <3>. QED BY <3>1
  <2>. QED BY <1>7, <1>8, <1>9, <2>1, <2>2 DEF Tables, Exists
<1>11. LegalStep
  BY <1>8, <1>9 DEF LegalStep
<1>12. ASSUME NEW d \in Calls, d # c
       PROVE  CallOK(call[d], tasks'[call[d].task], stored'[call[d].task], active')
  <2>1. CallOK(call[d], tasks[call[d].task], stored[call[d].task], active) /\ active' = active
    BY CallFacts
  <2>2. CASE call[d].pc \in Holding
    <3>1. call[d].task \in Tasks /\ Leads(d, tails[call[d].task])
      BY <2>2, CallFacts
    <3>2. call[d].task # t
      BY <1>2, <1>12, <3>1 DEF Leads, t
    <3>3. /\ tasks'[call[d].task] = tasks[call[d].task]
          /\ stored'[call[d].task] \in {stored[call[d].task], tasks[call[d].task]}
      BY <1>6, <1>9, <3>1, <3>2
    <3>. QED BY <2>1, <3>3, OthersRely
  <2>3. CASE call[d].pc \notin Holding
    BY <2>1, <2>3, NotHolding
  <2>. QED BY <2>2, <2>3
<1>. QED BY <1>2, <1>3, <1>6, <1>9, <1>10, <1>11, <1>12 DEF t

LEMMA PutReturns ==
  ASSUME Inv, NEW c \in Calls, putReturns(c)
  PROVE  Inv' /\ LegalStep
<1>. DEFINE r == call[c]
<1>1. r.pc = "put" /\ r.pc # "planning" /\ r.pc \in Holding /\ r.pc \in Queueing
  BY DEF putReturns, At, Holding, Queueing
<1>2. /\ r \in CallRecords /\ Leads(c, tails[r.task])
      /\ CallOK(r, tasks[r.task], stored[r.task], active) /\ (Planning(r) => Leads(c, planTail))
  BY <1>1, CallFacts
<1>3. /\ Tables' /\ LegalStep /\ tasks'[r.task] = r.row /\ stored'[r.task] = r.row
      /\ PutOK(r, tasks[r.task]) /\ active' = active
      /\ \A d \in Calls : d # c => CallOK(call[d], tasks'[call[d].task], stored'[call[d].task], active')
  <2>1. PICK rows : rows = [tasks EXCEPT ![r.task] = r.row]
    OBVIOUS
  <2>2. /\ At(c, "put") /\ tasks' = rows /\ Publishes(rows, {r.task})
        /\ UNCHANGED <<active, work>>
    BY <2>1 DEF putReturns
  <2>. QED BY <2>1, <2>2, PutLands
<1>4. CASE r.next = "return"
  <2>1. Settle(c)
    BY <1>4 DEF putReturns
  <2>2. ~InPlan(r)
    BY <1>1, <1>4 DEF InPlan
  <2>3. QueueInv' /\ DrainInv'
    BY <1>1, <1>2, <2>1, <2>2, IdleFacts, SettleMoves DEF Inv
  <2>4. Goes(c, Idle) /\ CallOK(Idle, tasks'[Idle.task], stored'[Idle.task], active')
    BY <2>1, IdleFacts DEF Settle
  <2>5. CallsInv'
    BY <1>3, <2>4, IdleFacts, CallsRely DEF Inv
  <2>. QED BY <1>3, <2>3, <2>5 DEF Inv
<1>5. CASE r.next # "return"
  <2>1. PICK n : n = [r EXCEPT !.pc = r.next, !.row = NoTask, !.next = "idle"]
    OBVIOUS
  <2>2. Goes(c, n) /\ UNCHANGED queueVars /\ UNCHANGED stopVars
    BY <1>5, <2>1 DEF putReturns
  <2>3. r.next \in {"activate", "source", "command"}
    <3>1. r.next \in {"idle", "activate", "return", "source", "command"}
      BY <1>2 DEF CallRecords
    <3>. QED BY <1>3, <1>5, <3>1 DEF PutOK
  <2>4. r.next \in Holding /\ r.next \in Queueing
    BY <2>3 DEF Holding, Queueing
  <2>. HIDE DEF r
  <2>5. /\ n \in CallRecords /\ n.pc = r.next /\ n.task = r.task
        /\ n.check = r.check /\ n.receipt = r.receipt
    BY <1>2, <2>1, <2>4, Constants DEF CallRecords
  <2>6. InPlan(n) <=> InPlan(r)
    BY <1>1, <2>3, <2>5 DEF InPlan
  <2>7. Planning(n) => Planning(r)
    BY <1>1, <2>6 DEF Planning
  <2>8. HeldOK(n, r.row, r.row)
    <3>1. n.pc = "activate" => r.row.revision > 0
      BY <1>3, <2>5 DEF PutOK
    <3>2. /\ n.pc \in {"source", "command"} => n.check \in Checks /\ OnRecord(r.row, n.receipt)
          /\ n.pc = "command" => n.receipt.source # Unknown /\ OnRecord(r.row, n.receipt)
      BY <1>3, <2>5 DEF PutOK
    <3>. QED BY <2>3, <2>5, <3>1, <3>2 DEF HeldOK
  <2>9. CallOK(n, tasks'[n.task], stored'[n.task], active')
    <3>1. Planning(n) => active \in {None, n.task}
      BY <1>2, <2>5, <2>7 DEF CallOK
    <3>. QED BY <1>3, <2>3, <2>5, <2>8, <3>1 DEF CallOK
  <2>10. CallsInv'
    BY <1>3, <2>2, <2>5, <2>9, CallsRely DEF Inv
  <2>11. QueueInv' /\ DrainInv'
    <3>1. /\ n.pc \in Queueing <=> call[c].pc \in Queueing
          /\ n.pc \in Queueing => n.task = call[c].task
          /\ n.pc \in Holding => Leads(c, tails[n.task])
          /\ InPlan(n) <=> InPlan(call[c])
          /\ Planning(n) => Leads(c, planTail)
      BY <1>1, <1>2, <2>4, <2>5, <2>6, <2>7 DEF r
    <3>. QED BY <2>2, <2>5, <3>1, QueuesStay DEF Inv
  <2>. QED BY <1>3, <2>10, <2>11 DEF Inv
<1>. QED BY <1>4, <1>5

LEMMA PutRejects ==
  ASSUME Inv, NEW c \in Calls, putRejects(c)
  PROVE  Inv' /\ LegalStep
<1>1. call[c].pc = "put" /\ call[c].pc # "planning" /\ call[c].pc \in Holding
  BY DEF putRejects, At, Holding
<1>2. Leads(c, tails[call[c].task])
  BY <1>1, CallFacts
<1>. QED BY <1>1, <1>2, SettlesFromHead DEF putRejects

LEMMA PlanCalled ==
  ASSUME Inv, NEW c \in Calls, planCalled(c)
  PROVE  Inv' /\ LegalStep
<1>1. PICK p \in Plans : Goes(c, [Idle EXCEPT !.pc = "planning", !.plan = p])
  BY DEF planCalled
<1>2. PICK n : n = [Idle EXCEPT !.pc = "planning", !.plan = p]
  OBVIOUS
<1>3. p \in Requirements
  BY PlansAssumption
<1>4. n \in CallRecords /\ n.pc = "planning"
  BY <1>2, <1>3, IdleFacts DEF CallRecords
<1>5. CallOK(n, tasks[n.task], stored[n.task], active)
  BY <1>4 DEF CallOK, HeldOK, Planning
<1>6. Goes(c, n) /\ UNCHANGED <<tableVars, work>> /\ tails' = tails /\ UNCHANGED stopVars
  BY <1>1, <1>2 DEF planCalled
<1>7. QueueInv' /\ DrainInv'
  BY <1>4, <1>6, PlanJoins DEF Inv, planCalled, At
<1>8. CallsInv'
  BY <1>4, <1>5, <1>6, CallsInvMoves DEF Inv
<1>9. Tables' /\ LegalStep
  BY <1>6, Reflexive DEF Inv
<1>. QED BY <1>7, <1>8, <1>9 DEF Inv

(* A call that joins the queue of a task. *)
LEMMA JoinStep ==
  ASSUME Inv, NEW c \in Calls, NEW n \in CallRecords, Goes(c, n),
         NEW t \in Tasks, Queued(t, c), UNCHANGED <<tableVars, work, planTail, stopVars>>,
         call[c].pc \notin Queueing, n.pc \in {"plan", "run", "review"}, n.task = t,
         InPlan(n) <=> InPlan(call[c]), Planning(n) => Leads(c, planTail),
         n.pc = "run" => n.check \in Checks, Planning(n) => active \in {None, t}
  PROVE  Inv' /\ LegalStep
<1>1. n.pc \in Queueing /\ n.pc \notin Holding
  BY DEF Queueing, Holding
<1>2. CallOK(n, tasks[n.task], stored[n.task], active)
  BY DEF CallOK, HeldOK
<1>3. QueueInv' /\ DrainInv'
  BY <1>1, QueuedJoins DEF Inv
<1>4. CallsInv'
  BY <1>2, CallsInvMoves DEF Inv
<1>5. Tables' /\ LegalStep
  BY Reflexive DEF Inv
<1>. QED BY <1>3, <1>4, <1>5 DEF Inv

LEMMA PlanBegins ==
  ASSUME Inv, NEW c \in Calls, planBegins(c)
  PROVE  Inv' /\ LegalStep
<1>1. PICK t \in Tasks : planQueues(c, t)
  BY DEF planBegins
<1>2. PICK n : n = [call[c] EXCEPT !.pc = "plan", !.task = t]
  OBVIOUS
<1>3. call[c].pc = "planning" /\ Head(planTail) = c
  BY DEF planBegins, At
<1>4. "plan" \in {"idle", "planning", "observe", "shown"} \union Queueing
  BY DEF Queueing
<1>5. n \in CallRecords /\ n.pc = "plan" /\ n.task = t
  <2>1. PICK r \in CallRecords : r = call[c]
    BY CallFacts
  <2>2. n = [r EXCEPT !.pc = "plan", !.task = t]
    BY <1>2, <2>1
  <2>. QED BY <1>4, <2>2 DEF CallRecords
<1>6. InPlan(call[c]) /\ InPlan(n) /\ call[c].pc \notin Queueing
  BY <1>3, <1>5 DEF InPlan, Queueing, Holding
<1>7. Leads(c, planTail)
  <2>1. In(c, planTail) /\ planTail \in Seq(Calls)
    BY <1>6, CallFacts DEF Inv, QueueInv, IsQueue
  <2>2. planTail # <<>>
    BY <2>1 DEF In
  <2>. QED BY <1>3, <2>2 DEF Leads
<1>8. active \in {None, t}
  BY <1>1 DEF planQueues
<1>9. Goes(c, n) /\ Queued(t, c) /\ UNCHANGED <<tableVars, work, planTail, stopVars>>
  BY <1>1, <1>2 DEF planQueues
<1>10. n.pc \in {"plan", "run", "review"} /\ n.pc # "run"
  BY <1>5
<1>. QED BY <1>5, <1>6, <1>7, <1>8, <1>9, <1>10, JoinStep

LEMMA PlanPuts ==
  ASSUME Inv, NEW c \in Calls, plan(c)
  PROVE  Inv' /\ LegalStep
<1>. DEFINE r == call[c]
            old == tasks[r.task]
<1>1. r.pc = "plan" /\ r.pc \in Queueing
  BY DEF plan, At, Queueing
<1>2. InPlan(r)
  BY <1>1 DEF InPlan
<1>3. r \in CallRecords /\ RowOK(old) /\ old \in Rows /\ old.revision \in 0..MaxRevisions
  BY <1>1, CallFacts, RowFacts
<1>4. /\ Leads(c, tails[r.task]) /\ old.revision < MaxRevisions
      /\ KeepsPromises(old.requirements, r.plan)
      /\ Put(c, r, Revised(old, r.plan), "activate")
      /\ UNCHANGED <<tableVars, work, queueVars, stopVars>>
  BY DEF plan, Turn, Leads
<1>. HIDE DEF r, old
<1>5. PICK row : row = Revised(old, r.plan)
  OBVIOUS
<1>6. /\ row \in Rows /\ row.revision = old.revision + 1 /\ row.requirements = r.plan
      /\ row.evidence = old.evidence /\ row.review = NoReview
  <2>1. r.plan \in Requirements /\ old.evidence \in Seq(Receipt)
    BY <1>3 DEF CallRecords, Rows
  <2>2. old.revision + 1 \in 0..MaxRevisions
    BY <1>3, <1>4, Constants
  <2>. QED BY <1>5, <2>1, <2>2, Constants DEF Revised, Rows
<1>7. RowOK(row)
  <2>1. Vouched(row)
    BY <1>6, Constants DEF Vouched
  <2>. QED BY <1>3, <1>6, <2>1 DEF RowOK
<1>8. old.revision <= row.revision /\ row.revision > 0
  BY <1>3, <1>6, Constants
<1>9. Final(old.evidence, row.evidence)
  BY <1>6 DEF Final
<1>10. KeepsPromises(old.requirements, row.requirements)
  BY <1>4, <1>6
<1>11. Put(c, r, row, "activate")
  BY <1>4, <1>5
<1>. QED BY <1>1, <1>2, <1>3, <1>4, <1>7, <1>8, <1>9, <1>10, <1>11, PutStep DEF r, old

LEMMA PlanRefused ==
  ASSUME Inv, NEW c \in Calls, planRefused(c)
  PROVE  Inv' /\ LegalStep
<1>1. call[c].pc # "planning" /\ Leads(c, tails[call[c].task])
  BY DEF planRefused, At, Turn, Leads
<1>. QED BY <1>1, SettlesFromHead DEF planRefused

LEMMA ActivateRejects ==
  ASSUME Inv, NEW c \in Calls, activateRejects(c)
  PROVE  Inv' /\ LegalStep
<1>1. call[c].pc # "planning" /\ call[c].pc \in Holding
  BY DEF activateRejects, At, Holding
<1>2. Leads(c, tails[call[c].task])
  BY <1>1, CallFacts
<1>. QED BY <1>1, <1>2, SettlesFromHead DEF activateRejects

(* The pointer is set once: a plan that leads planTail is alone in its plan. *)
LEMMA PlanActivates ==
  ASSUME Inv, NEW c \in Calls, planActivates(c)
  PROVE  Inv' /\ LegalStep
<1>. DEFINE r == call[c]
<1>1. r.pc = "activate" /\ r.pc \in Holding /\ r.pc \in Queueing /\ Planning(r)
  BY DEF planActivates, At, Holding, Queueing, Planning, InPlan
<1>2. /\ Leads(c, tails[r.task]) /\ Leads(c, planTail) /\ r.task \in Tasks
      /\ active \in {None, r.task} /\ tasks[r.task].revision > 0
  BY <1>1, CallFacts DEF CallOK, HeldOK
<1>3. Settle(c) /\ active' = r.task /\ tasks' = tasks /\ work' = work /\ Publishes(tasks, {})
  BY DEF planActivates
<1>0. /\ stored' \in [Tasks -> Rows]
      /\ \A u \in Tasks : RowOK(stored'[u]) /\ Trails(stored'[u], tasks'[u])
      /\ \A u \in Tasks : Final(stored[u].evidence, stored'[u].evidence)
      /\ \A u \in Tasks : stored'[u] \in {stored[u], tasks'[u]}
  <2>1. tasks \in [Tasks -> Rows] /\ \A u \in Tasks : RowOK(tasks[u])
    BY DEF Inv, Tables
  <2>2. PICK rows : rows = tasks
    OBVIOUS
  <2>3. tasks' = rows /\ Publishes(rows, {})
    BY <1>3, <2>2
  <2>. QED BY <1>3, <2>1, <2>3, Published, FinalFacts DEF Inv
<1>4. QueueInv' /\ DrainInv'
  BY <1>2, <1>3, IdleFacts, SettleMoves DEF Inv
<1>5. CallsInv'
  <2>1. ASSUME NEW d \in Calls, d # c PROVE CallOK(call[d], tasks'[call[d].task], stored'[call[d].task], active')
    <3>1. PICK s : s = call[d]
      OBVIOUS
    <3>2. CallOK(s, tasks[s.task], stored[s.task], active)
      BY <3>1, CallFacts
    <3>3. ~Planning(s)
      <4>1. Planning(s) => Leads(d, planTail)
        BY <3>1, CallFacts
      <4>. QED BY <1>2, <2>1, <4>1 DEF Leads
    <3>4. CallOK(s, tasks[s.task], stored[s.task], active')
      BY <3>2, <3>3 DEF CallOK
    <3>5. CASE s.pc \in Holding
      <4>1. s.task \in Tasks
        BY <3>1, <3>5, CallFacts
      <4>. QED BY <1>0, <1>3, <3>1, <3>4, <4>1, OthersRely
    <3>6. CASE s.pc \notin Holding
      BY <3>1, <3>4, <3>6, NotHolding
    <3>. QED BY <3>5, <3>6
  <2>2. Goes(c, Idle) /\ CallOK(Idle, tasks'[Idle.task], stored'[Idle.task], active')
    BY <1>3, IdleFacts DEF Settle
  <2>. QED BY <2>1, <2>2, IdleFacts, CallsRely DEF Inv
<1>6. Tables'
  BY <1>0, <1>2, <1>3 DEF Inv, Tables, Exists
<1>7. LegalStep
  <2>1. \A e : Final(e, e)
    BY FinalFacts
  <2>2. \A q : KeepsPromises(q, q)
    BY DEF KeepsPromises
  <2>. QED BY <1>0, <1>2, <1>3, <2>1, <2>2 DEF LegalStep
<1>. QED BY <1>4, <1>5, <1>6, <1>7 DEF Inv

-----------------------------------------------------------------------------
(* run(): each save adds the receipt or replaces its running form. *)

LEMMA SaveStep ==
  ASSUME Inv, NEW c \in Calls, NEW r \in Receipt, Save(c, r, "source"), r.outcome = "running",
         UNCHANGED <<tableVars, work, queueVars, stopVars>>,
         call[c].pc \in Queueing, Leads(c, tails[call[c].task]), ~InPlan(call[c]),
         call[c].check \in Checks, Len(tasks[call[c].task].evidence) < MaxAttempts,
         \A i \in DOMAIN tasks[call[c].task].evidence : tasks[call[c].task].evidence[i].id # r.id
  PROVE  Inv' /\ LegalStep
<1>. DEFINE t == call[c].task
<1>1. t \in Tasks /\ RowOK(tasks[t]) /\ call[c] \in CallRecords
  BY CallFacts
<1>2. PICK row : row = Saved(t, r)
  OBVIOUS
<1>3. /\ RowOK(row) /\ row.revision = tasks[t].revision
      /\ row.requirements = tasks[t].requirements /\ Final(tasks[t].evidence, row.evidence)
      /\ Len(row.evidence) > 0 /\ row.evidence[Len(row.evidence)] = r /\ row.review = NoReview
  BY <1>1, <1>2, SavedFacts
<1>4. PICK m : m = [call[c] EXCEPT !.receipt = r]
  OBVIOUS
<1>5. m \in CallRecords /\ m.receipt = r /\ m.task = t /\ m.check = call[c].check
  BY <1>1, <1>4 DEF CallRecords
<1>6. Put(c, m, row, "source")
  BY <1>2, <1>4 DEF Save
<1>7. m.check \in Checks /\ OnRecord(row, m.receipt)
  BY <1>3, <1>5, Constants DEF OnRecord
<1>8. tasks[t].revision <= row.revision
  <2>1. tasks[t].revision \in 0..MaxRevisions
    BY <1>1, RowFacts
  <2>. QED BY <1>3, <2>1, Constants
<1>9. KeepsPromises(tasks[t].requirements, row.requirements)
  BY <1>3 DEF KeepsPromises
<1>10. "source" \in {"activate", "return", "source"} /\ "source" # "activate"
  OBVIOUS
<1>. HIDE DEF t
<1>. QED BY <1>3, <1>5, <1>6, <1>7, <1>8, <1>9, <1>10, PutStep DEF t

LEMMA RunSaves ==
  ASSUME Inv, NEW c \in Calls, run(c)
  PROVE  Inv' /\ LegalStep
<1>. DEFINE t == call[c].task
            k == call[c].check
            spec == tasks[t].requirements[k]
<1>1. call[c].pc = "run" /\ call[c].pc \in Queueing /\ ~InPlan(call[c])
  BY DEF run, At, Queueing, InPlan
<1>2. t \in Tasks /\ RowOK(tasks[t]) /\ k \in Checks
  BY <1>1, CallFacts DEF CallOK
<1>3. PICK id : id = FreshId
  OBVIOUS
<1>4. /\ id \in Nat \ {0}
      /\ \A i \in DOMAIN tasks[t].evidence : tasks[t].evidence[i].id # id
  BY <1>2, <1>3, FreshIdFacts DEF Inv
<1>5. Leads(c, tails[t]) /\ spec # Undeclared /\ Len(tasks[t].evidence) < MaxAttempts
  BY DEF run, Turn, Leads
<1>6. spec \in Requirement
  <2>1. tasks[t].requirements \in Requirements
    BY <1>2, RowFacts
  <2>. QED BY <1>2, <1>5, <2>1 DEF Requirements
<1>7. PICK r : r = [id |-> id, check |-> k, spec |-> spec, source |-> Unknown, outcome |-> "running"]
  OBVIOUS
<1>8. r \in Receipt /\ r.id = id /\ r.outcome = "running"
  BY <1>2, <1>4, <1>6, <1>7 DEF Receipt
<1>9. Save(c, r, "source") /\ UNCHANGED <<tableVars, work, queueVars, stopVars>>
  BY <1>3, <1>7 DEF run
<1>11. Len(tasks[t].evidence) < MaxAttempts /\ \A i \in DOMAIN tasks[t].evidence : tasks[t].evidence[i].id # r.id
  BY <1>4, <1>5, <1>8
<1>. HIDE DEF k, spec
<1>. QED BY <1>1, <1>2, <1>5, <1>8, <1>9, <1>11, SaveStep DEF k

LEMMA RunRefused ==
  ASSUME Inv, NEW c \in Calls, runRefused(c)
  PROVE  Inv' /\ LegalStep
<1>1. call[c].pc # "planning" /\ Leads(c, tails[call[c].task])
  BY DEF runRefused, At, Turn, Leads
<1>. QED BY <1>1, SettlesFromHead DEF runRefused

(* run() writes its receipt in place and saves it: the call leads its task's *)
(* queue, so the others see it at most in what they observe.                 *)
LEMMA WriteStep ==
  ASSUME Inv, NEW c \in Calls, NEW r \in Receipt, NEW next \in {"return", "command"},
         Writes(c, r, next), call[c].pc \in Holding, ~InPlan(call[c]),
         NEW old, OnRecord(tasks[call[c].task], old), r.id = old.id,
         next = "command" => call[c].check \in Checks /\ r.outcome = "running" /\ r.source # Unknown
  PROVE  Inv' /\ LegalStep
<1>. DEFINE t == call[c].task
<1>1. /\ t \in Tasks /\ RowOK(tasks[t]) /\ call[c] \in CallRecords
      /\ call[c].pc \in Queueing /\ Leads(c, tails[t])
  BY CallFacts
<1>2. Under(tasks[t].evidence, r) /\ tasks[t].review.verdict # "approved"
  BY DEF OnRecord, Under
<1>3. PICK row : row = Saved(t, r)
  OBVIOUS
<1>4. /\ RowOK(row) /\ row.revision = tasks[t].revision
      /\ row.requirements = tasks[t].requirements /\ Final(tasks[t].evidence, row.evidence)
      /\ Len(row.evidence) > 0 /\ row.evidence[Len(row.evidence)] = r /\ row.review = NoReview
      /\ Len(row.evidence) = Len(tasks[t].evidence)
  BY <1>1, <1>2, <1>3, SavedFacts
<1>5. PICK now : now = [tasks[t] EXCEPT !.evidence = Written(@, r)]
  OBVIOUS
<1>6. /\ RowOK(now) /\ now.revision = tasks[t].revision /\ now.requirements = tasks[t].requirements
      /\ now.review = tasks[t].review /\ Final(tasks[t].evidence, now.evidence)
      /\ Len(now.evidence) = Len(tasks[t].evidence) /\ now.evidence[Len(tasks[t].evidence)] = r
      /\ \A i \in DOMAIN tasks[t].evidence :
           i # Len(tasks[t].evidence) => now.evidence[i] = tasks[t].evidence[i]
  <2>1. PICK before : before = tasks[t]
    OBVIOUS
  <2>2. now = WrittenRow(before, r)
    BY <1>5, <2>1 DEF WrittenRow
  <2>3. RowOK(before) /\ before.review.verdict # "approved" /\ Under(before.evidence, r)
    BY <1>1, <1>2, <2>1
  <2>. HIDE DEF t
  <2>4. /\ RowOK(now) /\ now.revision = before.revision /\ now.requirements = before.requirements
        /\ now.review = before.review /\ Final(before.evidence, now.evidence)
        /\ Len(now.evidence) = Len(before.evidence) /\ now.evidence[Len(before.evidence)] = r
        /\ \A i \in DOMAIN before.evidence :
             i # Len(before.evidence) => now.evidence[i] = before.evidence[i]
    BY <2>2, <2>3, WrittenFacts
  <2>. QED BY <2>1, <2>4
<1>7. Final(now.evidence, row.evidence)
  <2>1. /\ DOMAIN now.evidence = 1..Len(now.evidence) /\ DOMAIN tasks[t].evidence = 1..Len(tasks[t].evidence)
        /\ DOMAIN row.evidence = 1..Len(row.evidence)
    BY <1>1, <1>4, <1>6, RowFacts
  <2>2. ASSUME NEW i \in DOMAIN now.evidence, now.evidence[i].outcome # "running"
        PROVE  i \in DOMAIN row.evidence /\ row.evidence[i] = now.evidence[i]
    <3>1. CASE i = Len(now.evidence)
      BY <1>4, <1>6, <2>1, <3>1
    <3>2. CASE i # Len(now.evidence)
      BY <1>4, <1>6, <2>1, <2>2, <3>2 DEF Final
    <3>. QED BY <3>1, <3>2
  <2>. QED BY <2>2 DEF Final
<1>8. PICK n : n = [call[c] EXCEPT !.pc = "put", !.receipt = r, !.row = row, !.next = next]
  OBVIOUS
<1>9. /\ n \in CallRecords /\ n.pc = "put" /\ n.row = row /\ n.next = next
      /\ n.task = t /\ n.check = call[c].check /\ n.receipt = r
  <2>1. row \in Rows
    BY <1>4, RowFacts
  <2>2. "put" \in {"idle", "planning", "observe", "shown"} \union Queueing
    BY DEF Queueing, Holding
  <2>. QED BY <1>1, <1>8, <2>1, <2>2 DEF CallRecords
<1>10. /\ stored' = stored /\ active' = active /\ work' = work /\ planTail' = planTail
       /\ tails' = tails /\ phase' = phase /\ awaited' = awaited /\ owed' = owed
  BY DEF Writes, queueVars, stopVars
<1>11. /\ tasks \in [Tasks -> Rows] /\ (\A u \in Tasks : RowOK(tasks[u]))
       /\ stored \in [Tasks -> Rows]
       /\ \A u \in Tasks : RowOK(stored[u]) /\ Trails(stored[u], tasks[u])
       /\ active \in Tasks \union {None} /\ (active # None => tasks[active].revision > 0)
       /\ work \in [Checks -> Contents]
  BY DEF Inv, Tables, Exists
<1>12. /\ tasks' = [tasks EXCEPT ![t] = now] /\ tasks'[t] = now
       /\ \A u \in Tasks : u # t => tasks'[u] = tasks[u]
  <2>1. tasks' = [tasks EXCEPT ![t].evidence = Written(@, r)]
    BY DEF Writes
  <2>2. tasks' = [tasks EXCEPT ![t] = now]
    BY <1>1, <1>5, <1>11, <2>1
  <2>. QED BY <1>1, <1>11, <2>2
<1>. HIDE DEF t
<1>13. ASSUME NEW u \in Tasks
       PROVE  /\ RowOK(tasks'[u]) /\ tasks'[u].revision = tasks[u].revision
              /\ Trails(stored[u], tasks'[u]) /\ Final(tasks[u].evidence, tasks'[u].evidence)
              /\ KeepsPromises(tasks[u].requirements, tasks'[u].requirements)
  <2>1. CASE u = t
    <3>1. Trails(stored[u], now)
      BY <1>6, <1>11, <2>1, FinalFacts DEF Trails
    <3>. QED BY <1>6, <1>12, <2>1, <3>1 DEF KeepsPromises
  <2>2. CASE u # t
    BY <1>11, <1>12, <2>2, FinalFacts DEF KeepsPromises
  <2>. QED BY <2>1, <2>2
<1>14. Tables'
  <2>1. tasks' \in [Tasks -> Rows]
    BY <1>6, <1>11, <1>12, RowFacts
  <2>. QED BY <1>10, <1>11, <1>13, <2>1 DEF Tables, Exists
<1>15. LegalStep
  BY <1>10, <1>13, FinalFacts DEF LegalStep
<1>16. /\ DOMAIN call' = Calls /\ call' = [d \in Calls |-> call'[d]] /\ call'[c] = n
       /\ \A d \in Calls : d # c =>
            call'[d] = IF call[d].task = t THEN [call[d] EXCEPT !.seen.evidence = Written(@, r)]
                       ELSE call[d]
  BY <1>3, <1>8 DEF Writes, t
<1>17. ASSUME NEW d \in Calls, d # c
       PROVE  /\ call'[d] \in CallRecords
              /\ call'[d].pc = call[d].pc /\ call'[d].task = call[d].task
              /\ call'[d].check = call[d].check /\ call'[d].next = call[d].next
              /\ call[d].task # t => call'[d] = call[d]
  <2>1. call[d] \in CallRecords
    BY CallFacts
  <2>2. CASE call[d].task # t
    BY <1>16, <1>17, <2>1, <2>2
  <2>3. CASE call[d].task = t
    <3>1. PICK s \in CallRecords : s = call[d]
      BY <2>1
    <3>2. PICK e \in Seq(Receipt) : e = s.seen.evidence /\ s.seen \in Rows
      BY <3>1 DEF CallRecords, Rows
    <3>3. PICK w : w = Written(e, r)
      OBVIOUS
    <3>4. w \in Seq(Receipt)
      <4>1. Len(e) \in Nat /\ DOMAIN e = 1..Len(e) /\ \A i \in 1..Len(e) : e[i] \in Receipt
        OBVIOUS
      <4>2. w \in [1..Len(e) -> Receipt]
        BY <3>3, <4>1 DEF Written
      <4>. QED BY <4>1, <4>2
    <3>5. PICK seen : seen = [s.seen EXCEPT !.evidence = w]
      OBVIOUS
    <3>6. seen \in Rows
      BY <3>2, <3>4, <3>5 DEF Rows
    <3>7. PICK m : m = [s EXCEPT !.seen = seen]
      OBVIOUS
    <3>8. /\ m \in CallRecords /\ m.pc = s.pc /\ m.task = s.task /\ m.check = s.check
          /\ m.next = s.next
      BY <3>1, <3>6, <3>7 DEF CallRecords
    <3>9. call'[d] = m
      <4>1. call'[d] = [s EXCEPT !.seen.evidence = Written(@, r)]
        BY <1>16, <1>17, <2>3, <3>1
      <4>2. [s EXCEPT !.seen.evidence = Written(@, r)] = [s EXCEPT !.seen = [s.seen EXCEPT !.evidence = Written(e, r)]]
        BY <3>2
      <4>. QED BY <3>3, <3>5, <3>7, <4>1, <4>2
    <3>. QED BY <2>3, <3>1, <3>8, <3>9
  <2>. QED BY <2>2, <2>3
<1>18. CallsInv'
  <2>1. CallOK(n, tasks'[n.task], stored'[n.task], active')
    <3>1. next = "command" => OnRecord(now, r) /\ OnRecord(row, r)
      BY <1>2, <1>4, <1>6, Constants DEF OnRecord
    <3>2. now.revision <= row.revision
      <4>1. tasks[t].revision \in 0..MaxRevisions
        BY <1>1, RowFacts DEF t
      <4>. QED BY <1>4, <1>6, <4>1, Constants
    <3>3. KeepsPromises(now.requirements, row.requirements)
      BY <1>4, <1>6 DEF KeepsPromises
    <3>4. n.next # "idle" /\ n.next # "activate" /\ n.next # "source"
      BY <1>9
    <3>5. PutOK(n, now)
      BY <1>4, <1>7, <1>9, <3>1, <3>2, <3>3, <3>4 DEF PutOK
    <3>6. HeldOK(n, now, stored'[t])
      BY <1>9, <3>5 DEF HeldOK
    <3>7. ~Planning(n)
      BY <1>9, <3>4 DEF Planning, InPlan
    <3>. QED BY <1>9, <1>12, <3>6, <3>7 DEF CallOK
  <2>2. ASSUME NEW d \in Calls, d # c
        PROVE  CallOK(call'[d], tasks'[call'[d].task], stored'[call'[d].task], active')
    <3>1. CallOK(call[d], tasks[call[d].task], stored[call[d].task], active)
      BY CallFacts
    <3>2. CASE call[d].pc \in Holding
      <4>1. call[d].task \in Tasks /\ call[d].task # t
        BY <1>1, <2>2, <3>2, CallFacts DEF Leads, t
      <4>. QED BY <1>10, <1>12, <1>17, <2>2, <3>1, <4>1
    <3>3. CASE call[d].pc \notin Holding
      <4>1. PICK s, m : s = call[d] /\ m = call'[d]
        OBVIOUS
      <4>2. m.pc = s.pc /\ m.task = s.task /\ m.check = s.check /\ m.next = s.next
        BY <1>17, <2>2, <4>1
      <4>3. s.pc \notin {"put", "activate", "source", "command", "reobserve"}
        BY <3>3, <4>1 DEF Holding
      <4>4. CallOK(s, tasks[s.task], stored[s.task], active)
        BY <3>1, <4>1
      <4>5. HeldOK(m, tasks'[m.task], stored'[m.task])
        BY <4>2, <4>3 DEF HeldOK
      <4>6. CallOK(m, tasks'[m.task], stored'[m.task], active)
        BY <4>2, <4>4, <4>5 DEF CallOK, InPlan, Planning
      <4>. QED BY <1>10, <4>1, <4>6
    <3>. QED BY <3>2, <3>3
  <2>3. \A d \in Calls : /\ call'[d] \in CallRecords
                         /\ CallOK(call'[d], tasks'[call'[d].task], stored'[call'[d].task], active')
    BY <1>9, <1>16, <1>17, <2>1, <2>2
  <2>. QED BY <1>16, <2>3 DEF CallsInv
<1>19. ASSUME NEW d \in Calls
       PROVE  /\ call'[d].task = call[d].task
              /\ (call'[d].pc \in Queueing) <=> (call[d].pc \in Queueing)
              /\ (call'[d].pc \in Holding) <=> (call[d].pc \in Holding)
              /\ InPlan(call'[d]) <=> InPlan(call[d])
              /\ Planning(call'[d]) <=> Planning(call[d])
  <2>1. CASE d = c
    <3>1. n.pc \in Queueing /\ n.pc \in Holding /\ ~InPlan(n) /\ ~Planning(n)
      BY <1>9 DEF Queueing, Holding, InPlan, Planning
    <3>2. ~Planning(call[c])
      BY DEF Planning
    <3>. QED BY <1>1, <1>9, <1>16, <2>1, <3>1, <3>2 DEF t
  <2>2. CASE d # c
    BY <1>17, <2>2 DEF InPlan, Planning
  <2>. QED BY <2>1, <2>2
<1>20. QueueInv'
  BY <1>10, <1>19 DEF Inv, QueueInv
<1>21. DrainInv'
  BY <1>10 DEF Inv, DrainInv
<1>. QED BY <1>14, <1>15, <1>18, <1>20, <1>21 DEF Inv

LEMMA SourceReturns ==
  ASSUME Inv, NEW c \in Calls, sourceReturns(c)
  PROVE  Inv' /\ LegalStep
<1>. DEFINE t == call[c].task
            old == call[c].receipt
<1>1. call[c].pc = "source" /\ call[c].pc \in Holding /\ ~InPlan(call[c])
  BY DEF sourceReturns, At, Holding, InPlan
<1>2. call[c].check \in Checks /\ OnRecord(tasks[t], old)
  BY <1>1, CallFacts DEF CallOK, HeldOK
<1>3. old \in Receipt /\ old.outcome = "running"
  BY <1>2 DEF OnRecord
<1>4. PICK source : source = work[call[c].check]
  OBVIOUS
<1>5. source \in Contents /\ source # Unknown
  BY <1>2, <1>4, Constants DEF Inv, Tables
<1>6. PICK r : r = [old EXCEPT !.source = source]
  OBVIOUS
<1>7. r \in Receipt /\ r.id = old.id /\ r.outcome = "running" /\ r.source = source
  BY <1>3, <1>5, <1>6 DEF Receipt
<1>8. Writes(c, r, "command")
  BY <1>4, <1>6 DEF sourceReturns
<1>9. "command" \in {"return", "command"}
  OBVIOUS
<1>. QED BY <1>1, <1>2, <1>5, <1>7, <1>8, <1>9, WriteStep

LEMMA CommandReturns ==
  ASSUME Inv, NEW c \in Calls, commandReturns(c)
  PROVE  Inv' /\ LegalStep
<1>. DEFINE t == call[c].task
            old == call[c].receipt
<1>1. call[c].pc = "command" /\ call[c].pc \in Holding /\ ~InPlan(call[c])
  BY DEF commandReturns, At, Holding, InPlan
<1>2. OnRecord(tasks[t], old)
  BY <1>1, CallFacts DEF CallOK, HeldOK
<1>3. old \in Receipt
  BY <1>2 DEF OnRecord
<1>4. PICK ok \in BOOLEAN :
        Writes(c, [old EXCEPT !.outcome = Outcome(ok, old.source, work[old.check])], "return")
  BY DEF commandReturns
<1>5. PICK outcome : outcome = Outcome(ok, old.source, work[old.check])
  OBVIOUS
<1>6. outcome \in {"running", "passed", "rejected"}
  BY <1>5 DEF Outcome
<1>7. PICK r : r = [old EXCEPT !.outcome = outcome]
  OBVIOUS
<1>8. r \in Receipt /\ r.id = old.id
  BY <1>3, <1>6, <1>7 DEF Receipt
<1>9. Writes(c, r, "return")
  BY <1>4, <1>5, <1>7
<1>10. "return" \in {"return", "command"} /\ "return" # "command"
  OBVIOUS
<1>. QED BY <1>1, <1>2, <1>8, <1>9, <1>10, WriteStep

LEMMA RunThrows ==
  ASSUME Inv, NEW c \in Calls, runThrows(c)
  PROVE  Inv' /\ LegalStep
<1>. DEFINE t == call[c].task
            old == call[c].receipt
<1>1. call[c].pc \in {"source", "command"} \/ (call[c].pc = "put" /\ call[c].next = "command")
  BY DEF runThrows, At
<1>2. call[c].pc \in Holding /\ ~InPlan(call[c])
  BY <1>1 DEF Holding, InPlan
<1>3. HeldOK(call[c], tasks[t], stored[t])
  BY <1>2, CallFacts DEF CallOK
<1>4. OnRecord(tasks[t], old)
  <2>1. CASE call[c].pc \in {"source", "command"}
    BY <1>3, <2>1 DEF HeldOK
  <2>2. CASE call[c].pc = "put" /\ call[c].next = "command"
    BY <1>3, <2>2 DEF HeldOK, PutOK
  <2>. QED BY <1>1, <2>1, <2>2
<1>5. old \in Receipt
  BY <1>4 DEF OnRecord
<1>6. PICK source \in {old.source} \cup
                      IF At(c, "source") /\ phase = "up" THEN {work[old.check]} ELSE {} :
        Writes(c, [old EXCEPT !.source = source, !.outcome = "rejected"], "return")
  BY DEF runThrows
<1>7. source \in Contents \cup {Unknown}
  <2>1. old.source \in Contents \cup {Unknown} /\ old.check \in Checks
    BY <1>5 DEF Receipt
  <2>2. work[old.check] \in Contents
    BY <2>1 DEF Inv, Tables
  <2>. QED BY <1>6, <2>1, <2>2
<1>8. PICK r : r = [old EXCEPT !.source = source, !.outcome = "rejected"]
  OBVIOUS
<1>9. r \in Receipt /\ r.id = old.id
  BY <1>5, <1>7, <1>8 DEF Receipt
<1>10. Writes(c, r, "return")
  BY <1>6, <1>8
<1>11. "return" \in {"return", "command"} /\ "return" # "command"
  OBVIOUS
<1>. QED BY <1>2, <1>4, <1>9, <1>10, <1>11, WriteStep

LEMMA RunCalled ==
  ASSUME Inv, NEW c \in Calls, runCalled(c)
  PROVE  Inv' /\ LegalStep
<1>1. PICK t \in Tasks, k \in Checks :
        Queued(t, c) /\ Goes(c, [Idle EXCEPT !.pc = "run", !.task = t, !.check = k])
  BY DEF runCalled
<1>2. PICK n : n = [Idle EXCEPT !.pc = "run", !.task = t, !.check = k]
  OBVIOUS
<1>3. "run" \in {"idle", "planning", "observe", "shown"} \union Queueing
  BY DEF Queueing
<1>4. n \in CallRecords /\ n.pc = "run" /\ n.task = t /\ n.check = k
  BY <1>2, <1>3, IdleFacts DEF CallRecords
<1>5. call[c].pc = "idle" /\ UNCHANGED <<tableVars, work, planTail, stopVars>>
  BY DEF runCalled, At
<1>6. call[c].pc \notin Queueing /\ ~InPlan(call[c]) /\ ~InPlan(n) /\ ~Planning(n)
  BY <1>4, <1>5 DEF InPlan, Planning, Queueing, Holding
<1>7. Goes(c, n) /\ n.pc \in {"plan", "run", "review"}
  BY <1>1, <1>2, <1>4
<1>. QED BY <1>1, <1>4, <1>5, <1>6, <1>7, JoinStep

-----------------------------------------------------------------------------
(* inspect() and review() *)

LEMMA UnreviewedFacts ==
  ASSUME NEW row \in Rows, NEW s, s = [row EXCEPT !.review = NoReview]
  PROVE  /\ s \in Rows /\ s.revision = row.revision /\ s.requirements = row.requirements
         /\ s.evidence = row.evidence
BY Constants DEF Rows

LEMMA InspectingFacts ==
  ASSUME Inv, NEW r \in CallRecords, NEW t \in Tasks, NEW pc \in {"observe", "reobserve"}
  PROVE  /\ Inspecting(r, t, pc) \in CallRecords /\ Inspecting(r, t, pc).pc = pc
         /\ Inspecting(r, t, pc).task = t
         /\ Inspecting(r, t, pc).seen = [tasks[t] EXCEPT !.review = NoReview]
<1>0. PICK n : n = Inspecting(r, t, pc)
  OBVIOUS
<1>1. PICK s : s = [tasks[t] EXCEPT !.review = NoReview]
  OBVIOUS
<1>2. s \in Rows
  <2>1. tasks[t] \in Rows
    BY DEF Inv, Tables
  <2>. QED BY <1>1, <2>1, UnreviewedFacts
<1>3. PICK todo : todo = Declared(tasks[t])
  OBVIOUS
<1>4. todo \in SUBSET Checks
  BY <1>3 DEF Declared
<1>5. pc \in {"idle", "planning", "observe", "shown"} \union Queueing
  BY DEF Queueing, Holding
<1>6. n = [r EXCEPT !.pc = pc, !.task = t, !.seen = s, !.left = todo]
  BY <1>0, <1>1, <1>3 DEF Inspecting
<1>7. n \in CallRecords /\ n.pc = pc /\ n.task = t /\ n.seen = s
  BY <1>2, <1>4, <1>5, <1>6 DEF CallRecords
<1>. QED BY <1>0, <1>1, <1>7

LEMMA InspectCalled ==
  ASSUME Inv, NEW c \in Calls, inspectCalled(c)
  PROVE  Inv' /\ LegalStep
<1>1. PICK t \in Tasks : Goes(c, Inspecting(Idle, t, "observe"))
  BY DEF inspectCalled
<1>2. PICK n : n = Inspecting(Idle, t, "observe")
  OBVIOUS
<1>3. n \in CallRecords /\ n.pc = "observe" /\ n.task = t
  <2>1. "observe" \in {"observe", "reobserve"}
    OBVIOUS
  <2>. QED BY <1>2, <2>1, IdleFacts, InspectingFacts
<1>4. call[c].pc = "idle" /\ UNCHANGED <<tableVars, work, queueVars, stopVars>> /\ Goes(c, n)
  BY <1>1, <1>2 DEF inspectCalled, At
<1>5. /\ n.pc \notin Queueing /\ n.pc \notin Holding /\ ~InPlan(n) /\ ~Planning(n)
      /\ call[c].pc \notin Queueing /\ ~InPlan(call[c])
  BY <1>3, <1>4 DEF InPlan, Planning, Queueing, Holding
<1>6. CallOK(n, tasks[n.task], stored[n.task], active)
  BY <1>3, <1>5 DEF CallOK, HeldOK
<1>. QED BY <1>3, <1>4, <1>5, <1>6, MoveStep

LEMMA Observes ==
  ASSUME Inv, NEW c \in Calls, observe(c)
  PROVE  Inv' /\ LegalStep
<1>. DEFINE r == call[c]
<1>1. /\ r.pc \in {"observe", "reobserve"}
      /\ UNCHANGED <<tableVars, work, queueVars, stopVars>>
  BY DEF observe, At
<1>2. r \in CallRecords /\ CallOK(r, tasks[r.task], stored[r.task], active)
  BY CallFacts
<1>3. PICK k \in r.left :
        \/ Goes(c, [r EXCEPT !.left = @ \ {k}, !.current[k] = work[k]])
        \/ Goes(c, [r EXCEPT !.left = @ \ {k}, !.problem = @ \/ k \in Required(r.seen)])
  BY DEF observe
<1>4. PICK n : /\ Goes(c, n) /\ n \in CallRecords
               /\ n.pc = r.pc /\ n.task = r.task /\ n.seen = r.seen
  <2>. HIDE DEF r
  <2>1. r.left \in SUBSET Checks /\ r.current \in Currents /\ r.problem \in BOOLEAN
    BY <1>2 DEF CallRecords
  <2>2. k \in Checks /\ r.left \ {k} \in SUBSET Checks
    BY <1>3, <2>1
  <2>3. CASE Goes(c, [r EXCEPT !.left = @ \ {k}, !.current[k] = work[k]])
    <3>1. PICK current : current = [r.current EXCEPT ![k] = work[k]]
      OBVIOUS
    <3>2. current \in Currents
      <4>1. work[k] \in Contents
        BY <2>2 DEF Inv, Tables
      <4>. QED BY <2>1, <2>2, <3>1, <4>1 DEF Currents
    <3>3. PICK n : n = [r EXCEPT !.left = r.left \ {k}, !.current = current]
      OBVIOUS
    <3>4. n \in CallRecords /\ n.pc = r.pc /\ n.task = r.task /\ n.seen = r.seen
      BY <1>2, <2>2, <3>2, <3>3 DEF CallRecords
    <3>5. n = [r EXCEPT !.left = @ \ {k}, !.current[k] = work[k]]
      BY <3>1, <3>3
    <3>. QED BY <2>3, <3>4, <3>5
  <2>4. CASE Goes(c, [r EXCEPT !.left = @ \ {k}, !.problem = @ \/ k \in Required(r.seen)])
    <3>1. PICK problem \in BOOLEAN : problem = (r.problem \/ k \in Required(r.seen))
      OBVIOUS
    <3>2. PICK n : n = [r EXCEPT !.left = r.left \ {k}, !.problem = problem]
      OBVIOUS
    <3>3. n \in CallRecords /\ n.pc = r.pc /\ n.task = r.task /\ n.seen = r.seen
      BY <1>2, <2>2, <3>1, <3>2 DEF CallRecords
    <3>4. n = [r EXCEPT !.left = @ \ {k}, !.problem = @ \/ k \in Required(r.seen)]
      BY <3>1, <3>2
    <3>. QED BY <2>4, <3>3, <3>4
  <2>. QED BY <1>3, <2>3, <2>4
<1>5. /\ n.pc \in Queueing <=> r.pc \in Queueing
      /\ n.pc \in Queueing => n.task = r.task
      /\ n.pc \in Holding => Leads(c, tails[n.task])
  BY <1>4, CallFacts
<1>6. ~InPlan(n) /\ ~InPlan(r) /\ ~Planning(n)
  BY <1>1, <1>4 DEF InPlan, Planning
<1>7. CallOK(n, tasks[n.task], stored[n.task], active)
  <2>1. HeldOK(r, tasks[r.task], stored[r.task]) /\ (r.pc = "observe" => r.task \in Tasks)
    BY <1>2 DEF CallOK
  <2>2. n.pc = "reobserve" => n.seen = [tasks[n.task] EXCEPT !.review = NoReview]
    BY <1>4, <2>1 DEF HeldOK
  <2>3. HeldOK(n, tasks[n.task], stored[n.task])
    BY <1>1, <1>4, <2>2 DEF HeldOK
  <2>. QED BY <1>1, <1>4, <1>6, <2>1, <2>3 DEF CallOK
<1>8. (InPlan(n) <=> InPlan(r)) /\ (Planning(n) => Leads(c, planTail))
  BY <1>6
<1>. QED BY <1>1, <1>4, <1>5, <1>7, <1>8, MoveStep

(* The key of an observation without a problem names what was observed. *)
LEMMA ObservedFacts ==
  ASSUME Inv, NEW c \in Calls, NEW r \in CallRecords, NEW diff \in Diff(c)
  PROVE  /\ Observed(r, diff) \in Keys
         /\ Observed(r, diff) # Unknown => /\ Observed(r, diff) = candidateKey(r.seen, r.current, diff)
                                           /\ diff \in [Checks -> Contents]
<1>. DEFINE key == candidateKey(r.seen, r.current, diff)
<1>1. CASE r.problem \/ diff = Unknown
  <2>1. Observed(r, diff) = Unknown
    BY <1>1 DEF Observed
  <2>. QED BY <2>1 DEF Keys
<1>2. CASE ~(r.problem \/ diff = Unknown)
  <2>1. Observed(r, diff) = key
    BY <1>2 DEF Observed
  <2>2. diff \in [Checks -> Contents]
    BY <1>2 DEF Diff, Inv, Tables
  <2>3. r.seen \in Rows /\ r.current \in Currents
    BY DEF CallRecords
  <2>4. PICK e : e = r.seen.evidence
    OBVIOUS
  <2>5. e \in Seq(Receipt) /\ r.seen.revision \in 0..MaxRevisions
    BY <2>3, <2>4 DEF Rows
  <2>6. PICK ids : ids = [i \in DOMAIN e |-> e[i].id]
    OBVIOUS
  <2>7. ids \in Seq(Nat)
    <3>1. Len(e) \in Nat /\ DOMAIN e = 1..Len(e) /\ \A i \in 1..Len(e) : e[i] \in Receipt
      BY <2>5
    <3>2. \A i \in 1..Len(e) : e[i].id \in Nat
      BY <3>1 DEF Receipt
    <3>3. ids \in [1..Len(e) -> Nat]
      BY <2>6, <3>1, <3>2
    <3>. QED BY <3>1, <3>3
  <2>8. key = [revision |-> r.seen.revision, current |-> r.current, diff |-> diff, evidence |-> ids]
    BY <2>4, <2>6 DEF candidateKey
  <2>. HIDE DEF key
  <2>9. key \in Keys
    BY <2>2, <2>3, <2>5, <2>7, <2>8 DEF Keys
  <2>. QED BY <2>1, <2>2, <2>9 DEF key
<1>. QED BY <1>1, <1>2

LEMMA InspectReturns ==
  ASSUME Inv, NEW c \in Calls, inspectReturns(c)
  PROVE  Inv' /\ LegalStep
<1>. DEFINE r == call[c]
<1>1. r.pc = "observe" /\ UNCHANGED <<tableVars, work, queueVars, stopVars>>
  BY DEF inspectReturns, At
<1>2. r \in CallRecords /\ r.task \in Tasks
  BY <1>1, CallFacts DEF CallOK
<1>3. PICK diff \in Diff(c) :
        Goes(c, [Idle EXCEPT !.pc = "shown", !.task = r.task, !.key = Observed(r, diff),
                             !.shown = r.seen.evidence])
  BY DEF inspectReturns
<1>4. PICK key \in Keys : key = Observed(r, diff)
  BY <1>2, ObservedFacts
<1>5. PICK evidence \in Seq(Receipt) : evidence = r.seen.evidence
  BY <1>2 DEF CallRecords, Rows
<1>6. PICK n : n = [Idle EXCEPT !.pc = "shown", !.task = r.task, !.key = key, !.shown = evidence]
  OBVIOUS
<1>. HIDE DEF r
<1>7. n \in CallRecords /\ n.pc = "shown" /\ n.task = r.task
  BY <1>2, <1>6, IdleFacts DEF CallRecords
<1>8. Goes(c, n)
  BY <1>3, <1>4, <1>5, <1>6
<1>9. /\ n.pc \notin Queueing /\ n.pc \notin Holding /\ ~InPlan(n) /\ ~Planning(n)
      /\ r.pc \notin Queueing /\ ~InPlan(r)
  BY <1>1, <1>7 DEF InPlan, Planning, Queueing, Holding
<1>10. CallOK(n, tasks[n.task], stored[n.task], active)
  BY <1>2, <1>7, <1>9 DEF CallOK, HeldOK
<1>. QED BY <1>1, <1>7, <1>8, <1>9, <1>10, MoveStep DEF r

LEMMA InspectThrows ==
  ASSUME Inv, NEW c \in Calls, inspectThrows(c)
  PROVE  Inv' /\ LegalStep
<1>1. call[c].pc \in {"observe", "reobserve"}
  BY DEF inspectThrows, At
<1>2. call[c].pc # "planning" /\ (call[c].pc \in Queueing => call[c].pc \in Holding)
  BY <1>1 DEF Queueing, Holding
<1>3. call[c].pc \in Queueing => Leads(c, tails[call[c].task])
  BY <1>2, CallFacts
<1>. QED BY <1>2, <1>3, SettlesFromHead DEF inspectThrows

LEMMA Dismisses ==
  ASSUME Inv, NEW c \in Calls, dismiss(c)
  PROVE  Inv' /\ LegalStep
<1>1. /\ call[c].pc = "shown" /\ Goes(c, Idle)
      /\ UNCHANGED <<tableVars, work, queueVars, stopVars>>
  BY DEF dismiss, At
<1>2. /\ Idle.pc \notin Queueing /\ Idle.pc \notin Holding /\ ~InPlan(Idle) /\ ~Planning(Idle)
      /\ call[c].pc \notin Queueing /\ ~InPlan(call[c])
  BY <1>1, IdleFacts DEF InPlan, Planning, Queueing, Holding
<1>. QED BY <1>1, <1>2, IdleFacts, MoveStep

LEMMA ReviewCalled ==
  ASSUME Inv, NEW c \in Calls, reviewCalled(c)
  PROVE  Inv' /\ LegalStep
<1>. DEFINE r == call[c]
<1>1. /\ r.pc = "shown" /\ Queued(r.task, c)
      /\ UNCHANGED <<tableVars, work, planTail, stopVars>>
  BY DEF reviewCalled, At
<1>2. r \in CallRecords /\ r.task \in Tasks
  BY <1>1, CallFacts DEF CallOK
<1>3. PICK v \in {"approved", "changes-requested"} :
        Goes(c, [r EXCEPT !.pc = "review", !.verdict = v])
  BY DEF reviewCalled
<1>4. PICK n : n = [r EXCEPT !.pc = "review", !.verdict = v]
  OBVIOUS
<1>. HIDE DEF r
<1>5. "review" \in {"idle", "planning", "observe", "shown"} \union Queueing /\ v \in Verdicts
  BY DEF Queueing, Verdicts
<1>6. n \in CallRecords /\ n.pc = "review" /\ n.task = r.task
  BY <1>2, <1>4, <1>5 DEF CallRecords
<1>7. /\ ~InPlan(n) /\ ~Planning(n) /\ r.pc \notin Queueing /\ ~InPlan(r)
      /\ n.pc \in {"plan", "run", "review"} /\ n.pc # "run"
  BY <1>1, <1>6 DEF InPlan, Planning, Queueing, Holding
<1>8. Goes(c, n)
  BY <1>3, <1>4
<1>. QED BY <1>1, <1>2, <1>6, <1>7, <1>8, JoinStep DEF r

LEMMA ReviewInspects ==
  ASSUME Inv, NEW c \in Calls, reviewInspects(c)
  PROVE  Inv' /\ LegalStep
<1>. DEFINE r == call[c]
<1>1. /\ r.pc = "review" /\ r.pc \in Queueing /\ Leads(c, tails[r.task])
      /\ UNCHANGED <<tableVars, work, queueVars, stopVars>>
  BY DEF reviewInspects, At, Turn, Leads, Queueing
<1>2. r \in CallRecords /\ r.task \in Tasks
  BY <1>1, CallFacts
<1>3. PICK n : n = Inspecting(r, r.task, "reobserve")
  OBVIOUS
<1>4. /\ n \in CallRecords /\ n.pc = "reobserve" /\ n.task = r.task
      /\ n.seen = [tasks[n.task] EXCEPT !.review = NoReview]
  <2>1. "reobserve" \in {"observe", "reobserve"}
    OBVIOUS
  <2>2. /\ n \in CallRecords /\ n.pc = "reobserve" /\ n.task = r.task
        /\ n.seen = [tasks[r.task] EXCEPT !.review = NoReview]
    BY <1>2, <1>3, <2>1, InspectingFacts
  <2>. QED BY <2>2
<1>5. Goes(c, n)
  BY <1>3 DEF reviewInspects
<1>6. n.pc \in Queueing /\ ~InPlan(n) /\ ~Planning(n) /\ ~InPlan(r)
  BY <1>1, <1>4 DEF InPlan, Planning, Queueing, Holding
<1>7. CallOK(n, tasks[n.task], stored[n.task], active)
  BY <1>4, <1>6 DEF CallOK, HeldOK
<1>. QED BY <1>1, <1>4, <1>5, <1>6, <1>7, MoveStep

(* The candidate did not change between what the reviewer was shown and now, *)
(* nor between now and the put: the row under review is still the stored one. *)
LEMMA Reviews ==
  ASSUME Inv, NEW c \in Calls, review(c)
  PROVE  Inv' /\ LegalStep
<1>. DEFINE r == call[c]
            t == r.task
            old == tasks[t]
<1>1. /\ r.pc = "reobserve" /\ r.pc \in Holding /\ r.pc \in Queueing /\ ~InPlan(r)
      /\ UNCHANGED <<tableVars, work, queueVars, stopVars>>
  BY DEF review, At, Holding, Queueing, InPlan
<1>2. /\ r \in CallRecords /\ t \in Tasks /\ Leads(c, tails[t]) /\ RowOK(old)
      /\ r.seen = [old EXCEPT !.review = NoReview]
  BY <1>1, CallFacts DEF CallOK, HeldOK
<1>3. PICK diff \in Diff(c) :
        Put(c, [Idle EXCEPT !.task = t, !.shown = r.shown],
            [old EXCEPT !.review = Recorded(StillAcceptable(r, Observed(r, diff)), r.verdict, r.key)],
            "return")
  BY DEF review
<1>4. PICK verified : verified = Recorded(StillAcceptable(r, Observed(r, diff)), r.verdict, r.key)
  OBVIOUS
<1>5. PICK m : m = [Idle EXCEPT !.task = t, !.shown = r.shown]
  OBVIOUS
<1>6. PICK row : row = [old EXCEPT !.review = verified]
  OBVIOUS
<1>7. Put(c, m, row, "return")
  BY <1>3, <1>4, <1>5, <1>6
<1>. HIDE DEF r, old
<1>8. m \in CallRecords /\ m.task = t
  <2>1. r.shown \in Seq(Receipt)
    BY <1>2 DEF CallRecords
  <2>. QED BY <1>2, <1>5, <2>1, IdleFacts DEF CallRecords
<1>9. /\ old \in Rows /\ r.seen.revision = old.revision /\ r.seen.requirements = old.requirements
      /\ r.seen.evidence = old.evidence
  <2>1. old \in Rows
    BY <1>2, RowFacts
  <2>. QED BY <1>2, <2>1, UnreviewedFacts
<1>10. \/ verified = [verdict |-> "changes-requested", key |-> NoKey]
       \/ /\ StillAcceptable(r, Observed(r, diff)) /\ r.verdict = "approved"
          /\ verified = [verdict |-> r.verdict, key |-> r.key]
  BY <1>4 DEF Recorded
<1>11. verified \in [verdict : Verdicts, key : Keys]
  <2>1. r.verdict \in Verdicts /\ r.key \in Keys
    BY <1>2 DEF CallRecords
  <2>2. NoKey \in Keys /\ "changes-requested" \in Verdicts
    BY DEF Keys, Verdicts
  <2>. QED BY <1>10, <2>1, <2>2
<1>12. /\ row \in Rows /\ row.revision = old.revision /\ row.requirements = old.requirements
       /\ row.evidence = old.evidence /\ row.review = verified
  BY <1>6, <1>9, <1>11 DEF Rows
<1>13. Vouched(row)
  <2>1. CASE verified = [verdict |-> "changes-requested", key |-> NoKey]
    BY <1>12, <2>1 DEF Vouched
  <2>2. CASE /\ StillAcceptable(r, Observed(r, diff)) /\ r.verdict = "approved"
             /\ verified = [verdict |-> r.verdict, key |-> r.key]
    <3>. DEFINE key == candidateKey(r.seen, r.current, diff)
    <3>1. /\ evaluateAcceptance(r.seen, r.current) /\ Observed(r, diff) # Unknown
          /\ Observed(r, diff) = r.key
      BY <2>2 DEF StillAcceptable
    <3>2. Observed(r, diff) = key
      BY <1>2, <3>1, ObservedFacts
    <3>3. key.current = r.current /\ key.diff = diff
      BY DEF candidateKey
    <3>4. row.review.key = key /\ key # Unknown
      BY <1>12, <2>2, <3>1, <3>2
    <3>5. candidateKey(row, r.current, diff) = key
      BY <1>9, <1>12 DEF candidateKey
    <3>6. evaluateAcceptance(row, r.current)
      BY <1>9, <1>12, <3>1 DEF evaluateAcceptance, Required, Declared, Passed
    <3>. HIDE DEF key
    <3>. QED BY <3>3, <3>4, <3>5, <3>6 DEF Vouched
  <2>. QED BY <1>10, <2>1, <2>2
<1>14. RowOK(row)
  BY <1>2, <1>12, <1>13 DEF RowOK
<1>15. old.revision <= row.revision
  BY <1>9, <1>12, Constants DEF Rows
<1>16. KeepsPromises(old.requirements, row.requirements) /\ Final(old.evidence, row.evidence)
  BY <1>12, FinalFacts DEF KeepsPromises
<1>17. /\ "return" \in {"activate", "return", "source"} /\ "return" # "activate"
       /\ "return" # "source"
  OBVIOUS
<1>. QED BY <1>1, <1>2, <1>7, <1>8, <1>14, <1>15, <1>16, <1>17, PutStep DEF r, old

-----------------------------------------------------------------------------
(* The workspace, the teardown and a crash. *)

LEMMA Edits ==
  ASSUME Inv, edit
  PROVE  Inv' /\ LegalStep
<1>1. PICK k \in Checks, v \in Contents : work' = [work EXCEPT ![k] = v]
  BY DEF edit
<1>2. /\ tasks' = tasks /\ stored' = stored /\ active' = active /\ call' = call /\ planTail' = planTail
      /\ tails' = tails /\ phase' = phase /\ awaited' = awaited /\ owed' = owed
  BY DEF edit, tableVars, queueVars, stopVars
<1>3. work' \in [Checks -> Contents]
  BY <1>1 DEF Inv, Tables
<1>4. Tables'
  BY <1>2, <1>3 DEF Inv, Tables, Exists
<1>5. CallsInv' /\ QueueInv' /\ DrainInv'
  BY <1>2 DEF Inv, CallsInv, QueueInv, DrainInv
<1>6. LegalStep
  <2>1. \A e : Final(e, e)
    BY FinalFacts
  <2>2. \A q : KeepsPromises(q, q)
    BY DEF KeepsPromises
  <2>. QED BY <1>2, <2>1, <2>2 DEF LegalStep
<1>. QED BY <1>4, <1>5, <1>6 DEF Inv

(* The tables, the calls and the queues stay as they are. *)
LEMMA TeardownStep ==
  ASSUME Inv, UNCHANGED <<tableVars, work, call, queueVars>>, DrainInv'
  PROVE  Inv' /\ LegalStep
<1>1. /\ tasks' = tasks /\ stored' = stored /\ active' = active /\ call' = call
      /\ planTail' = planTail /\ tails' = tails
  BY DEF tableVars, queueVars
<1>2. Tables' /\ LegalStep
  BY Reflexive DEF Inv
<1>3. CallsInv' /\ QueueInv'
  BY <1>1 DEF Inv, CallsInv, QueueInv
<1>. QED BY <1>2, <1>3 DEF Inv

LEMMA Aborts ==
  ASSUME Inv, abort
  PROVE  Inv' /\ LegalStep
<1>1. /\ phase' = "stopping" /\ awaited' = awaited /\ owed' = owed
      /\ UNCHANGED <<tableVars, work, call, queueVars>>
  BY DEF abort
<1>2. DrainInv'
  BY <1>1 DEF Inv, DrainInv
<1>. QED BY <1>1, <1>2, TeardownStep

LEMMA Closes ==
  ASSUME Inv, close
  PROVE  Inv' /\ LegalStep
<1>1. /\ phase = "draining" /\ awaited = {}
      /\ phase' = "closed" /\ awaited' = awaited /\ owed' = owed
      /\ UNCHANGED <<tableVars, work, call, queueVars>>
  BY DEF close
<1>2. owed = {}
  <2>1. ASSUME NEW d \in owed PROVE FALSE
    <3>1. Covered(d, planTail, awaited) \/ \E t \in Tasks : Covered(d, tails[t], awaited)
      BY <1>1 DEF Inv, DrainInv
    <3>. QED BY <1>1, <3>1 DEF Covered
  <2>. QED BY <2>1
<1>3. DrainInv'
  BY <1>1, <1>2 DEF Inv, DrainInv
<1>. QED BY <1>1, <1>3, TeardownStep

(* Who stands in a queue stands before its tail. *)
LEMMA LastCovers ==
  ASSUME NEW q, IsQueue(q), NEW i \in DOMAIN q
  PROVE  Covered(q[i], q, Last(q)) /\ Last(q) \subseteq Calls
<1>1. q \in Seq(Calls) /\ DOMAIN q = 1..Len(q) /\ Len(q) \in Nat
  BY DEF IsQueue
<1>2. q # <<>> /\ Len(q) \in DOMAIN q /\ i <= Len(q)
  BY <1>1
<1>3. Last(q) = {q[Len(q)]}
  BY <1>2 DEF Last
<1>4. q[Len(q)] \in Calls
  BY <1>1, <1>2
<1>. QED BY <1>2, <1>3, <1>4 DEF Covered

LEMMA Drains ==
  ASSUME Inv, drain
  PROVE  Inv' /\ LegalStep
<1>1. /\ phase' = "draining" /\ awaited' = Last(planTail) \cup TaskTails /\ owed' = Pending
      /\ UNCHANGED <<tableVars, work, call, queueVars>>
  BY DEF drain
<1>2. planTail' = planTail /\ tails' = tails
  BY <1>1 DEF queueVars
<1>3. IsQueue(planTail) /\ \A t \in Tasks : IsQueue(tails[t])
  BY DEF Inv, QueueInv
<1>4. ASSUME NEW q, IsQueue(q) PROVE Last(q) \subseteq Calls
  <2>1. CASE q = <<>>
    BY <2>1 DEF Last
  <2>2. CASE q # <<>>
    <3>1. 1 \in DOMAIN q
      BY <1>4, <2>2 DEF IsQueue
    <3>. QED BY <1>4, <3>1, LastCovers
  <2>. QED BY <2>1, <2>2
<1>5. awaited' \subseteq Calls
  <2>1. TaskTails \subseteq Calls
    BY <1>3, <1>4 DEF TaskTails
  <2>. QED BY <1>1, <1>3, <1>4, <2>1
<1>6. ASSUME NEW q, NEW w1, NEW w2, NEW d, Covered(d, q, w1), w1 \subseteq w2 PROVE Covered(d, q, w2)
  BY <1>6 DEF Covered
<1>7. ASSUME NEW d \in owed'
      PROVE  /\ d \in Calls
             /\ \/ Covered(d, planTail, awaited')
                \/ \E t \in Tasks : Covered(d, tails[t], awaited')
  <2>1. \/ \E i \in DOMAIN planTail : d = planTail[i]
        \/ \E t \in Tasks : \E i \in DOMAIN tails[t] : d = tails[t][i]
    BY <1>1 DEF Pending
  <2>2. CASE \E i \in DOMAIN planTail : d = planTail[i]
    <3>1. PICK i \in DOMAIN planTail : d = planTail[i]
      BY <2>2
    <3>2. Covered(d, planTail, Last(planTail)) /\ d \in Calls
      BY <1>3, <3>1, LastCovers DEF IsQueue
    <3>3. Last(planTail) \subseteq awaited'
      BY <1>1
    <3>. QED BY <1>6, <3>2, <3>3
  <2>3. CASE \E t \in Tasks : \E i \in DOMAIN tails[t] : d = tails[t][i]
    <3>1. PICK t \in Tasks : \E i \in DOMAIN tails[t] : d = tails[t][i]
      BY <2>3
    <3>2. PICK q : q = tails[t]
      OBVIOUS
    <3>3. PICK i \in DOMAIN q : d = q[i]
      BY <3>1, <3>2
    <3>4. IsQueue(q)
      BY <1>3, <3>2
    <3>5. Covered(d, q, Last(q)) /\ d \in Calls
      BY <3>3, <3>4, LastCovers DEF IsQueue
    <3>6. Last(q) \subseteq awaited'
      BY <1>1, <3>2 DEF TaskTails
    <3>7. Covered(d, q, awaited')
      BY <1>6, <3>5, <3>6
    <3>. QED BY <3>2, <3>5, <3>7
  <2>. QED BY <2>1, <2>2, <2>3
<1>8. DrainInv'
  BY <1>1, <1>2, <1>5, <1>7 DEF DrainInv
<1>. QED BY <1>1, <1>8, TeardownStep

(* Nobody queues, nobody is awaited. *)
LEMMA EmptyQueues ==
  /\ IsQueue(<<>>) /\ \A c : ~In(c, <<>>)
  /\ Idle.pc \notin Queueing /\ Idle.pc \notin Holding /\ ~InPlan(Idle) /\ ~Planning(Idle)
<1>1. <<>> \in Seq(Calls) /\ DOMAIN <<>> = {}
  OBVIOUS
<1>2. IsQueue(<<>>) /\ \A c : ~In(c, <<>>)
  BY <1>1 DEF IsQueue, In
<1>3. Idle.pc \notin Queueing /\ Idle.pc \notin Holding /\ ~InPlan(Idle) /\ ~Planning(Idle)
  BY IdleFacts DEF InPlan, Planning, Queueing, Holding
<1>. QED BY <1>2, <1>3

LEMMA Restarts ==
  ASSUME Inv, restart
  PROVE  Inv' /\ LegalStep
<1>1. /\ call' = [c \in Calls |-> Idle] /\ planTail' = <<>> /\ tails' = [t \in Tasks |-> <<>>]
      /\ phase' = "up" /\ awaited' = {} /\ owed' = {} /\ tasks' = stored /\ stored' = stored /\ active' = active /\ work' = work
  BY DEF restart
<1>2. Tables' /\ LegalStep
  <2>1. /\ stored \in [Tasks -> Rows]
        /\ \A t \in Tasks : RowOK(stored[t]) /\ Trails(stored[t], stored[t]) /\ Trails(stored[t], tasks[t])
    BY FinalFacts DEF Inv, Tables
  <2>2. /\ active \in Tasks \union {None} /\ (active # None => stored[active].revision > 0)
        /\ work \in [Checks -> Contents]
    BY <2>1 DEF Inv, Tables, Exists, Trails
  <2>3. Tables'
    BY <1>1, <2>1, <2>2 DEF Tables, Exists
  <2>4. \A t \in Tasks : /\ KeepsPromises(tasks[t].requirements, stored[t].requirements)
                         /\ Final(stored[t].evidence, stored[t].evidence)
    BY <2>1, FinalFacts DEF KeepsPromises, Trails
  <2>. QED BY <1>1, <2>3, <2>4 DEF LegalStep
<1>3. CallsInv'
  BY <1>1, IdleFacts DEF CallsInv
<1>4. QueueInv'
  BY <1>1, EmptyQueues DEF QueueInv
<1>5. DrainInv'
  BY <1>1 DEF DrainInv
<1>. QED BY <1>2, <1>3, <1>4, <1>5 DEF Inv

-----------------------------------------------------------------------------
LEMMA InitOK == Init => Inv
<1>. SUFFICES ASSUME Init PROVE Inv
  OBVIOUS
<1>1. /\ tasks = [t \in Tasks |-> NoTask] /\ stored = tasks /\ active = None /\ work \in [Checks -> Contents]
      /\ call = [c \in Calls |-> Idle] /\ planTail = <<>> /\ tails = [t \in Tasks |-> <<>>]
      /\ phase = "up" /\ awaited = {} /\ owed = {}
  BY DEF Init
<1>2. Tables
  BY <1>1, Constants, FinalFacts DEF Tables
<1>3. CallsInv
  BY <1>1, IdleFacts DEF CallsInv
<1>4. QueueInv
  BY <1>1, EmptyQueues DEF QueueInv
<1>5. DrainInv
  BY <1>1 DEF DrainInv
<1>. QED BY <1>2, <1>3, <1>4, <1>5 DEF Inv

LEMMA Stutters ==
  ASSUME Inv, UNCHANGED vars
  PROVE  Inv' /\ LegalStep
<1>1. /\ UNCHANGED <<tableVars, work, call, queueVars>>
      /\ phase' = phase /\ awaited' = awaited /\ owed' = owed
  BY DEF vars, stopVars
<1>2. planTail' = planTail /\ tails' = tails
  BY <1>1 DEF queueVars
<1>3. DrainInv'
  BY <1>1, <1>2 DEF Inv, DrainInv
<1>. QED BY <1>1, <1>3, TeardownStep

LEMMA StepOK ==
  ASSUME Inv, [Next]_vars
  PROVE  Inv' /\ LegalStep
<1>1. ASSUME NEW c \in Calls, Step(c) PROVE Inv' /\ LegalStep
  <2>1. CASE putReturns(c) \/ putRejects(c)
    BY <2>1, PutReturns, PutRejects
  <2>2. CASE \/ planBegins(c) \/ plan(c) \/ planRefused(c) \/ planActivates(c)
             \/ activateRejects(c)
    BY <2>2, PlanBegins, PlanPuts, PlanRefused, PlanActivates, ActivateRejects
  <2>3. CASE \/ run(c) \/ runRefused(c) \/ sourceReturns(c) \/ commandReturns(c)
             \/ runThrows(c)
    BY <2>3, RunSaves, RunRefused, SourceReturns, CommandReturns, RunThrows
  <2>4. CASE observe(c) \/ inspectReturns(c) \/ inspectThrows(c) \/ reviewInspects(c) \/ review(c)
    BY <2>4, Observes, InspectReturns, InspectThrows, ReviewInspects, Reviews
  <2>. QED BY <1>1, <2>1, <2>2, <2>3, <2>4 DEF Step
<1>2. ASSUME NEW c \in Tools, planCalled(c) \/ runCalled(c) PROVE Inv' /\ LegalStep
  <2>1. c \in Calls
    BY DEF Calls
  <2>. QED BY <1>2, <2>1, PlanCalled, RunCalled
<1>3. ASSUME NEW c \in Drivers, inspectCalled(c) \/ reviewCalled(c) \/ dismiss(c)
      PROVE  Inv' /\ LegalStep
  <2>1. c \in Calls
    BY DEF Calls
  <2>. QED BY <1>3, <2>1, InspectCalled, ReviewCalled, Dismisses
<1>4. CASE edit \/ abort \/ drain \/ close \/ restart
  BY <1>4, Edits, Aborts, Drains, Closes, Restarts
<1>5. CASE UNCHANGED vars
  BY <1>5, Stutters
<1>. QED BY <1>1, <1>2, <1>3, <1>4, <1>5 DEF Next

(* The whole invariant holds of every reachable state. *)
LEMMA InvHolds == Spec => []Inv
<1>1. Inv /\ [Next]_vars => Inv'
  BY StepOK
<1>. QED BY InitOK, <1>1, PTL DEF Spec

(* Rows, in memory and on the medium, stay within the declared limits, every *)
(* receipt has an id of its own and the pointer names a stored task, however *)
(* many calls test the limits at once and wherever a put is rejected or the  *)
(* process dies (acceptance-store.ts:83, :103-104, :124).                    *)
THEOREM RowsWithinLimits == Spec => []TypeOK
<1>1. Inv => TypeOK
  <2>. SUFFICES ASSUME Inv PROVE TypeOK
    OBVIOUS
  <2>1. ASSUME NEW t \in Tasks, NEW task \in {tasks[t], stored[t]}
        PROVE  /\ task.revision \in 0..MaxRevisions
               /\ task.requirements \in Requirements
               /\ task.evidence \in Seq(Receipt) /\ Len(task.evidence) <= MaxAttempts
               /\ \A i, j \in DOMAIN task.evidence :
                    task.evidence[i].id = task.evidence[j].id => i = j
               /\ task.review.verdict \in {"none", "approved", "changes-requested"}
    <3>1. RowOK(task)
      BY DEF Inv, Tables
    <3>. QED BY <3>1, RowFacts DEF Distinct, Verdicts
  <2>2. active \in {t \in Tasks : Exists(t) /\ stored[t].revision > 0} \cup {None}
    BY DEF Inv, Tables, Exists, Trails
  <2>. QED BY <2>1, <2>2 DEF Inv, DrainInv, TypeOK
<1>. QED BY InvHolds, <1>1, PTL

(* An approval, read or stored, always rests on the plan and the receipts of *)
(* its row, and a check's command runs only while its receipt is on the      *)
(* medium (acceptance-store.ts:112, :139-201, :283-292).                     *)
THEOREM ApprovalsRestOnEvidence == Spec => []ApprovalRestsOnEvidence
<1>1. Inv => ApprovalRestsOnEvidence
  <2>. SUFFICES ASSUME Inv PROVE ApprovalRestsOnEvidence
    OBVIOUS
  <2>1. ASSUME NEW t \in Tasks, NEW task \in {tasks[t], stored[t]} PROVE Vouched(task)
    BY DEF Inv, Tables, RowOK
  <2>2. ASSUME NEW c \in Calls, At(c, "command")
        PROVE  /\ call[c].receipt.source # Unknown
               /\ call[c].receipt \in Receipts(stored[call[c].task].evidence)
    <3>1. call[c].pc = "command" /\ call[c].pc \in Queueing
      BY <2>2 DEF At, Queueing, Holding
    <3>2. /\ HeldOK(call[c], tasks[call[c].task], stored[call[c].task])
          /\ RowOK(stored[call[c].task])
      BY <3>1, CallFacts DEF CallOK, Inv, Tables
    <3>3. PICK disk : disk = stored[call[c].task]
      OBVIOUS
    <3>4. OnRecord(disk, call[c].receipt) /\ call[c].receipt.source # Unknown
      BY <3>1, <3>2, <3>3 DEF HeldOK
    <3>5. Len(disk.evidence) \in Nat /\ DOMAIN disk.evidence = 1..Len(disk.evidence)
      BY <3>2, <3>3, RowFacts
    <3>6. Len(disk.evidence) \in DOMAIN disk.evidence
      BY <3>4, <3>5 DEF OnRecord
    <3>. QED BY <3>3, <3>4, <3>6 DEF OnRecord, Receipts
  <2>. QED BY <2>1, <2>2 DEF ApprovalRestsOnEvidence, Vouched
<1>. QED BY InvHolds, <1>1, PTL

(* A settled receipt is never changed, dropped or overtaken by an older one: *)
(* on the medium for ever, in memory until the process restarts from the     *)
(* medium (acceptance-schema.ts:52, acceptance-store.ts:133-136).  A run     *)
(* changes its receipt in the row itself, so what a restart loses is exactly *)
(* what was settled in memory and whose put did not land.                    *)
THEOREM SettledReceiptsStay == Spec => ReceiptsAreFinal
<1>. DEFINE Stay == \A t \in Tasks :
                      /\ Final(stored[t].evidence, stored'[t].evidence)
                      /\ Final(tasks[t].evidence, tasks'[t].evidence) \/ tasks' = stored
<1>1. Inv /\ [Next]_vars => [Stay]_vars
  BY StepOK DEF LegalStep
<1>. HIDE DEF Stay
<1>2. Spec => [][Stay]_vars
  BY InvHolds, <1>1, PTL DEF Spec
<1>. QED BY <1>2 DEF Stay, ReceiptsAreFinal

(* A session keeps its active task, and every later plan keeps what the task *)
(* promised the user (acceptance-store.ts:48, :77-88).                       *)
THEOREM UserPromisesStay == Spec => UserPromisesKept
<1>. DEFINE Kept == active # None =>
                      /\ active' = active
                      /\ KeepsPromises(tasks[active].requirements, tasks'[active].requirements)
<1>1. Inv /\ [Next]_vars => [Kept]_vars
  <2>. SUFFICES ASSUME Inv, [Next]_vars, active # None
                PROVE  /\ active' = active
                       /\ KeepsPromises(tasks[active].requirements, tasks'[active].requirements)
    OBVIOUS
  <2>1. active \in Tasks
    BY DEF Inv, Tables
  <2>. QED BY <2>1, StepOK DEF LegalStep
<1>. HIDE DEF Kept
<1>2. Spec => [][Kept]_vars
  BY InvHolds, <1>1, PTL DEF Spec
<1>. QED BY <1>2 DEF Kept, UserPromisesKept

(* When the domain closes, every call queued before drain() has settled, the *)
(* plans that had not reached a task's queue included                        *)
(* (acceptance-store.ts:308-309).                                            *)
THEOREM DrainForgetsNobody == Spec => []DrainCovers
<1>1. Inv => DrainCovers
  BY DEF Inv, DrainInv, DrainCovers
<1>. QED BY InvHolds, <1>1, PTL

=============================================================================
