------------------------- MODULE StorageDomainProofs -------------------------
(***************************************************************************)
(* Proofs about StorageDomain: its types, that reads and the medium never  *)
(* diverge, that a crash loses nothing the unit resolved, and that the     *)
(* chain, the units and the crashes implement atomic durable writes.       *)
(***************************************************************************)
EXTENDS StorageDomain, Integers, TLAPS

Serving == lifecycle \in {"open", "closing"}

(* The chain holds each unsettled write once, and only its head runs. *)
Chained ==
  /\ ~Serving => chain = << >>
  /\ \A i, j \in 1..Len(chain) : chain[i] = chain[j] => i = j
  /\ \A i \in 1..Len(chain) : call[chain[i]].state # "idle"
  /\ \A i \in 2..Len(chain) : call[chain[i]].state = "queued"
  /\ \A c \in Callers : call[c].state # "idle" => \E i \in 1..Len(chain) : chain[i] = c

InFlight(c) == call[c].state \in {"writing", "renamed", "durable"}

(* What the running job will make of its record is decided. *)
Decided(c) ==
  /\ ~Vacuous(call[c], mem[call[c].key])
  /\ next = Applied(call[c], mem[call[c].key])

After(c) == [mem EXCEPT ![call[c].key] = next]

(* Memory, the medium and the unit's copy differ by the running job alone. *)
Stored ==
  /\ Serving /\ (\A c \in Callers : ~InFlight(c)) =>
       mem = Table(files) /\ (~PerRecord => unit = mem)
  /\ \A c \in Callers : InFlight(c) => Decided(c) /\ (~PerRecord => unit = After(c))
  /\ \A c \in Callers : call[c].state = "writing" => Table(files) = mem
  /\ \A c \in Callers : call[c].state \in {"renamed", "durable"} => Table(files) = After(c)

(* What a power loss leaves of the single file. *)
Synced ==
  /\ (\A c \in Callers : call[c].state # "renamed") => synced = files
  /\ \A c \in Callers : call[c].state = "renamed" => Table(synced) = mem

Inv == TypeOK /\ Chained

PowerInv == PowerLoss => ~PerRecord /\ Synced

-----------------------------------------------------------------------------
(* Records, tables and the chain. *)

Writes == [state : {"idle", "queued", "writing", "renamed", "durable"},
           op : Ops, key : Keys, value : Values, reply : Replies]

LEMMA ValueFacts ==
  /\ Values \subseteq Record /\ Absent \in Record /\ 0 \in Values /\ Record \subseteq Document
  /\ NoWrite \in Writes /\ NoWrite.state = "idle"
  /\ Empty \in [Keys -> Record]
BY WriteAssumption DEF Values, Record, Document, NoWrite, Writes, Ops, Replies, Empty

(* A write that is not vacuous makes a record of its record. *)
LEMMA AppliedIsRecord ==
  ASSUME NEW w \in Writes, NEW r \in Record, ~Vacuous(w, r)
  PROVE  Applied(w, r) \in Record
<1>1. CASE w.op = "put"
  BY <1>1, ValueFacts DEF Applied, Writes
<1>2. CASE w.op = "delete"
  BY <1>2, ValueFacts DEF Applied
<1>3. CASE w.op = "update"
  <2>1. r \in Nat
    BY <1>3 DEF Vacuous, Record, Values
  <2>2. (r + 1) % (MaxValue + 1) \in 0..MaxValue
    BY <2>1, WriteAssumption
  <2>. QED BY <1>3, <2>2 DEF Applied, Record, Values
<1>. QED BY <1>1, <1>2, <1>3 DEF Writes, Ops

LEMMA TableType == ASSUME NEW f PROVE Table(f) \in [Keys -> Record]
BY DEF Table, Record

(* A document file that holds records only is the table it serves. *)
LEMMA TableOfRecords == ASSUME NEW f \in [Keys -> Record] PROVE Table(f) = f
BY DEF Table

LEMMA TablePut ==
  ASSUME NEW f \in [Keys -> Document], NEW k \in Keys, NEW r \in Record
  PROVE  /\ [f EXCEPT ![k] = r] \in [Keys -> Document]
         /\ Table([f EXCEPT ![k] = r]) = [Table(f) EXCEPT ![k] = r]
BY ValueFacts DEF Table

LEMMA TailFacts ==
  ASSUME NEW q \in Seq(Callers), q # << >>
  PROVE  /\ Tail(q) \in Seq(Callers) /\ Len(Tail(q)) = Len(q) - 1
         /\ \A i \in 1..Len(Tail(q)) : Tail(q)[i] = q[i + 1]
         /\ Len(q) \in Nat \ {0} /\ Head(q) = q[1] /\ q[1] \in Callers
OBVIOUS

(* Only the head of the chain is past the queue, and only while the domain  *)
(* serves.                                                                  *)
LEMMA RunsAlone ==
  ASSUME Inv, NEW c \in Callers, InFlight(c)
  PROVE  Serving /\ chain # << >> /\ Head(chain) = c /\ \A b \in Callers \ {c} : ~InFlight(b)
<1>1. \A b \in Callers : InFlight(b) => chain # << >> /\ chain[1] = b
  <2>. SUFFICES ASSUME NEW b \in Callers, InFlight(b) PROVE chain # << >> /\ chain[1] = b
    OBVIOUS
  <2>1. PICK i \in 1..Len(chain) : chain[i] = b
    BY DEF Inv, Chained, InFlight
  <2>2. Len(chain) \in Nat
    BY DEF Inv, TypeOK
  <2>3. i \notin 2..Len(chain)
    BY <2>1 DEF Inv, Chained, InFlight
  <2>4. i = 1
    BY <2>2, <2>3
  <2>. QED BY <2>1, <2>2, <2>4 DEF Inv, TypeOK
<1>2. chain \in Seq(Callers)
  BY DEF Inv, TypeOK
<1>3. Head(chain) = chain[1]
  BY <1>1, <1>2
<1>. QED BY <1>1, <1>3 DEF Inv, Chained

-----------------------------------------------------------------------------
(* Types, and the order of writes. *)

LEMMA InvInit == Init => Inv /\ Stored
<1>. SUFFICES ASSUME Init PROVE Inv /\ Stored
  OBVIOUS
<1>1. files \in [Keys -> Document]
  BY ValueFacts DEF Init
<1>2. \A c \in Callers : call[c] = NoWrite /\ call[c].state = "idle"
  BY ValueFacts DEF Init
<1>3. TypeOK
  BY <1>1, <1>2, ValueFacts DEF Init, TypeOK, Writes
<1>4. Chained
  BY <1>2 DEF Init, Chained
<1>5. Stored
  BY <1>1, <1>2 DEF Init, Stored, InFlight, Serving
<1>. QED BY <1>3, <1>4, <1>5 DEF Inv

(* Opening, closing and importing: no write is touched.  *)
LEMMA QuietSteps ==
  ASSUME Inv, UNCHANGED <<chain, call, next>>, files' \in [Keys -> Document], synced' \in [Keys -> Document],
         unit' \in [Keys -> Record], mem' \in [Keys -> Record], origin' \in {"fresh", "used", "opened"},
         lifecycle' \in {"closed", "loading", "bootstrap", "validating", "open", "closing"},
         lifecycle' \notin {"open", "closing"} => chain = << >>
  PROVE  Inv'
<1>1. Chained'
  BY DEF Inv, Chained, Serving
<1>2. lifecycle' = "closed" => chain = << >> /\ \A c \in Callers : call[c].state = "idle"
  <2>. SUFFICES ASSUME lifecycle' = "closed", NEW c \in Callers
                PROVE  chain = << >> /\ call[c].state = "idle"
    OBVIOUS
  <2>1. chain = << >>
    OBVIOUS
  <2>2. 1..Len(chain) = {}
    BY <2>1
  <2>. QED BY <2>1, <2>2 DEF Inv, Chained
<1>3. TypeOK'
  BY <1>2 DEF Inv, TypeOK
<1>. QED BY <1>1, <1>3 DEF Inv

(* The running job goes on. *)
LEMMA JobGoesOn ==
  ASSUME Inv, NEW c \in Callers, NEW s \in {"writing", "renamed", "durable"},
         chain # << >>, Head(chain) = c, call' = [call EXCEPT ![c].state = s],
         UNCHANGED <<lifecycle, mem, chain, origin>>, next' \in Record,
         files' \in [Keys -> Document], synced' \in [Keys -> Document], unit' \in [Keys -> Record]
  PROVE  Inv'
<1>1. chain \in Seq(Callers) /\ chain[1] = c /\ Len(chain) \in Nat
  BY DEF Inv, TypeOK
<1>0. call \in [Callers -> Writes]
  BY DEF Inv, TypeOK, Writes
<1>2. /\ call' \in [Callers -> Writes] /\ call'[c].state = s
      /\ \A b \in Callers \ {c} : call'[b] = call[b]
  <2>1. [call[c] EXCEPT !.state = s] \in Writes /\ [call[c] EXCEPT !.state = s].state = s
    BY <1>0 DEF Writes
  <2>2. call' = [call EXCEPT ![c] = [call[c] EXCEPT !.state = s]]
    BY <1>0
  <2>. QED BY <1>0, <2>1, <2>2
<1>3. \A i \in 2..Len(chain) : chain[i] \in Callers \ {c}
  <2>. TAKE i \in 2..Len(chain)
  <2>1. 1 \in 1..Len(chain) /\ i \in 1..Len(chain) /\ i # 1
    BY <1>1
  <2>. QED BY <1>1, <2>1 DEF Inv, Chained
<1>4. \A i \in 1..Len(chain) : chain[i] \in Callers
  BY <1>1
<1>5. Chained'
  <2>. USE DEF Inv, Chained, Serving
  <2>1. ~Serving' => chain' = << >>
    OBVIOUS
  <2>2. \A i \in 1..Len(chain) : call'[chain[i]].state # "idle"
    BY <1>2, <1>4
  <2>3. \A i \in 2..Len(chain) : call'[chain[i]].state = "queued"
    BY <1>2, <1>3
  <2>4. \A b \in Callers : call'[b].state # "idle" => \E i \in 1..Len(chain) : chain[i] = b
    <3>1. 1 \in 1..Len(chain)
      BY <1>1
    <3>. QED BY <1>1, <1>2, <3>1
  <2>. QED BY <2>1, <2>2, <2>3, <2>4
<1>6. TypeOK'
  <2>1. lifecycle # "closed"
    BY DEF Inv, TypeOK
  <2>. QED BY <1>2, <2>1 DEF Inv, TypeOK, Writes
<1>. QED BY <1>5, <1>6 DEF Inv

(* The running job settles. *)
LEMMA JobSettles ==
  ASSUME Inv, NEW c \in Callers, NEW reply \in Replies, chain # << >>, Head(chain) = c,
         Settle(c, reply), UNCHANGED <<lifecycle, mediumVars, origin>>,
         unit' \in [Keys -> Record], mem' \in [Keys -> Record]
  PROVE  Inv'
<1>1. chain \in Seq(Callers) /\ chain[1] = c /\ Len(chain) \in Nat
  BY DEF Inv, TypeOK
<1>0. call \in [Callers -> Writes]
  BY DEF Inv, TypeOK, Writes
<1>2. /\ call' \in [Callers -> Writes] /\ call'[c].state = "idle"
      /\ \A b \in Callers \ {c} : call'[b] = call[b]
  <2>. DEFINE w == [call[c] EXCEPT !.state = "idle", !.reply = reply]
  <2>1. w \in Writes /\ w.state = "idle"
    BY <1>0 DEF Writes
  <2>2. call' = [call EXCEPT ![c] = w]
    BY <1>0 DEF Settle
  <2>. HIDE DEF w
  <2>. QED BY <1>0, <2>1, <2>2
<1>3. /\ chain' \in Seq(Callers) /\ Len(chain') = Len(chain) - 1
      /\ \A i \in 1..Len(chain') : /\ chain'[i] = chain[i + 1] /\ i + 1 \in 2..Len(chain)
                                   /\ i + 1 \in 1..Len(chain)
  BY <1>1, TailFacts DEF Settle
<1>4. \A i \in 2..Len(chain) : chain[i] \in Callers \ {c}
  <2>. TAKE i \in 2..Len(chain)
  <2>1. 1 \in 1..Len(chain) /\ i \in 1..Len(chain) /\ i # 1
    BY <1>1
  <2>. QED BY <1>1, <2>1 DEF Inv, Chained
<1>5. Chained'
  <2>. USE DEF Inv, Chained, Serving
  <2>1. Serving'
    OBVIOUS
  <2>2. \A i, j \in 1..Len(chain') : chain'[i] = chain'[j] => i = j
    <3>. TAKE i, j \in 1..Len(chain')
    <3>1. chain[i + 1] = chain[j + 1] => i + 1 = j + 1
      BY <1>3
    <3>2. i \in Int /\ j \in Int
      BY <1>1, <1>3
    <3>. QED BY <1>3, <3>1, <3>2
  <2>3. \A i \in 1..Len(chain') : call'[chain'[i]].state = "queued"
    BY <1>2, <1>3, <1>4
  <2>4. \A b \in Callers : call'[b].state # "idle" => \E i \in 1..Len(chain') : chain'[i] = b
    <3>. SUFFICES ASSUME NEW b \in Callers, call'[b].state # "idle"
                  PROVE  \E i \in 1..Len(chain') : chain'[i] = b
      OBVIOUS
    <3>1. b # c /\ call[b].state # "idle"
      BY <1>2
    <3>2. PICK i \in 1..Len(chain) : chain[i] = b
      BY <3>1
    <3>3. i # 1 /\ i \in Int
      BY <1>1, <3>1, <3>2
    <3>4. i - 1 \in 1..Len(chain') /\ (i - 1) + 1 = i
      BY <1>1, <1>3, <3>3
    <3>. QED BY <1>3, <3>2, <3>4
  <2>5. \A i \in 2..Len(chain') : i \in 1..Len(chain')
    BY <1>1, <1>3
  <2>. QED BY <2>1, <2>2, <2>3, <2>4, <2>5
<1>6. TypeOK'
  <2>1. lifecycle # "closed"
    BY DEF Inv, TypeOK
  <2>2. next' \in Record
    BY ValueFacts DEF Settle
  <2>. QED BY <1>2, <1>3, <2>1, <2>2 DEF Inv, TypeOK, Writes, mediumVars
<1>. QED BY <1>5, <1>6 DEF Inv

LEMMA EnqueueKeepsInv ==
  ASSUME Inv, NEW c \in Callers, enqueue(c)
  PROVE  Inv'
<1>1. chain \in Seq(Callers) /\ Len(chain) \in Nat /\ call[c].state = "idle"
      /\ UNCHANGED <<lifecycle, mediumVars, unit, mem, next, origin>> /\ Serving
  BY DEF Inv, TypeOK, enqueue, Serving
<1>2. lifecycle # "closed"
  BY <1>1 DEF Serving
<1>3. CASE lifecycle = "open"
  <2>1. PICK op \in Ops, k \in Keys, v \in Values :
          call' = [call EXCEPT ![c] = [state |-> "queued", op |-> op, key |-> k, value |-> v, reply |-> "none"]]
    BY <1>3 DEF enqueue
  <2>2. chain' = Append(chain, c)
    BY <1>3 DEF enqueue
  <2>3. /\ call' \in [Callers -> Writes] /\ call'[c].state = "queued"
        /\ \A b \in Callers \ {c} : call'[b] = call[b]
    BY <2>1 DEF Inv, TypeOK, Writes, Replies
  <2>4. /\ chain' \in Seq(Callers) /\ Len(chain') = Len(chain) + 1 /\ chain'[Len(chain) + 1] = c
        /\ \A i \in 1..Len(chain) : chain'[i] = chain[i] /\ chain[i] \in Callers
    BY <1>1, <2>2
  <2>5. \A i \in 1..Len(chain) : chain[i] # c
    BY <1>1 DEF Inv, Chained
  <2>6. \A i \in 1..Len(chain') : i \in 1..Len(chain) \/ i = Len(chain) + 1
    BY <1>1, <2>4
  <2>7. Chained'
    <3>. USE DEF Inv, Chained
    <3>1. Serving'
      BY <1>1 DEF Serving
    <3>2. \A i, j \in 1..Len(chain') : chain'[i] = chain'[j] => i = j
      BY <2>4, <2>5, <2>6
    <3>3. \A i \in 1..Len(chain') : call'[chain'[i]].state # "idle"
      BY <2>3, <2>4, <2>5, <2>6
    <3>4. \A i \in 2..Len(chain') : i \in 2..Len(chain) \/ i = Len(chain) + 1
      BY <1>1, <2>4
    <3>5. \A i \in 2..Len(chain) : i \in 1..Len(chain)
      BY <1>1
    <3>6. \A i \in 2..Len(chain') : call'[chain'[i]].state = "queued"
      BY <2>3, <2>4, <2>5, <3>4, <3>5
    <3>7. \A b \in Callers : call'[b].state # "idle" => \E i \in 1..Len(chain') : chain'[i] = b
      <4>1. Len(chain) + 1 \in 1..Len(chain') /\ \A i \in 1..Len(chain) : i \in 1..Len(chain')
        BY <1>1, <2>4
      <4>. QED BY <2>3, <2>4, <4>1
    <3>. QED BY <3>1, <3>2, <3>3, <3>6, <3>7
  <2>8. TypeOK'
    BY <1>1, <1>2, <2>3, <2>4 DEF Inv, TypeOK, Writes, mediumVars
  <2>. QED BY <2>7, <2>8 DEF Inv
<1>4. CASE lifecycle # "open"
  <2>1. call' = [call EXCEPT ![c].reply = "rejected"] /\ chain' = chain
    BY <1>4 DEF enqueue
  <2>2. /\ call' \in [Callers -> Writes]
        /\ \A b \in Callers : call'[b].state = call[b].state
    BY <2>1 DEF Inv, TypeOK, Writes, Replies
  <2>3. Chained'
    <3>1. \A i \in 1..Len(chain) : chain[i] \in Callers
      BY <1>1
    <3>2. \A i \in 2..Len(chain) : chain[i] \in Callers
      BY <1>1
    <3>. QED BY <1>1, <2>1, <2>2, <3>1, <3>2 DEF Inv, Chained, Serving
  <2>4. TypeOK'
    BY <1>1, <1>2, <2>1, <2>2 DEF Inv, TypeOK, Writes, mediumVars
  <2>. QED BY <2>3, <2>4 DEF Inv
<1>. QED BY <1>3, <1>4

LEMMA JobKeepsInv ==
  ASSUME Inv, NEW c \in Callers, Job(c)
  PROVE  Inv'
<1>0. /\ chain # << >> /\ Head(chain) = c /\ call[c] \in Writes /\ mem[call[c].key] \in Record
      /\ call[c].key \in Keys
  BY DEF Inv, TypeOK, Writes, Job, jobStarts, renameOver, fsyncDirectory, deleteRecord, unitRejects,
         publish, Running
<1>t. /\ files \in [Keys -> Document] /\ synced \in [Keys -> Document] /\ unit \in [Keys -> Record]
      /\ mem \in [Keys -> Record] /\ next \in Record /\ Record \subseteq Document
      /\ unit \in [Keys -> Document] /\ Absent \in Record
  BY ValueFacts DEF Inv, TypeOK
<1>1. CASE jobStarts(c)
  <2>1. CASE Vacuous(call[c], mem[call[c].key])
    <3>1. VacuousReply(call[c]) \in Replies
      BY DEF VacuousReply, Replies
    <3>2. Settle(c, VacuousReply(call[c])) /\ unit' = unit /\ UNCHANGED <<lifecycle, mediumVars, mem, origin>>
      BY <1>1, <2>1 DEF jobStarts
    <3>. QED BY <1>0, <1>t, <3>1, <3>2, JobSettles
  <2>2. CASE ~Vacuous(call[c], mem[call[c].key])
    <3>1. /\ next' = Applied(call[c], mem[call[c].key])
          /\ call' = [call EXCEPT ![c].state = "writing"]
          /\ unit' = IF PerRecord THEN unit ELSE [unit EXCEPT ![call[c].key] = next']
          /\ UNCHANGED <<lifecycle, mediumVars, mem, chain, origin>>
      BY <1>1, <2>2 DEF jobStarts
    <3>2. next' \in Record
      BY <1>0, <2>2, <3>1, AppliedIsRecord
    <3>3. unit' \in [Keys -> Record] /\ files' = files /\ synced' = synced
      BY <1>t, <3>1, <3>2 DEF mediumVars
    <3>. QED BY <1>0, <1>t, <3>1, <3>2, <3>3, JobGoesOn
  <2>. QED BY <2>1, <2>2
<1>2. CASE renameOver(c)
  <2>1. files' \in [Keys -> Document]
    BY <1>0, <1>2, <1>t DEF renameOver
  <2>2. call' = [call EXCEPT ![c].state = "renamed"] /\ UNCHANGED <<lifecycle, synced, unit, mem, chain, next, origin>>
    BY <1>2 DEF renameOver
  <2>. QED BY <1>0, <1>t, <2>1, <2>2, JobGoesOn
<1>3. CASE fsyncDirectory(c)
  BY <1>0, <1>t, <1>3, JobGoesOn DEF fsyncDirectory
<1>4. CASE deleteRecord(c)
  <2>1. files' \in [Keys -> Document]
    BY <1>0, <1>4, <1>t DEF deleteRecord
  <2>2. call' = [call EXCEPT ![c].state = "durable"] /\ UNCHANGED <<lifecycle, synced, unit, mem, chain, next, origin>>
    BY <1>4 DEF deleteRecord
  <2>. QED BY <1>0, <1>t, <2>1, <2>2, JobGoesOn
<1>5. CASE unitRejects(c)
  <2>1. Settle(c, "rejected") /\ UNCHANGED <<lifecycle, mediumVars, mem, origin>> /\ "rejected" \in Replies
    BY <1>5 DEF unitRejects, Replies
  <2>2. unit' \in [Keys -> Record]
    BY <1>0, <1>5, <1>t DEF unitRejects
  <2>. QED BY <1>0, <1>t, <2>1, <2>2, JobSettles
<1>6. CASE publish(c)
  <2>1. Settle(c, Reply(call[c])) /\ UNCHANGED <<lifecycle, mediumVars, unit, origin>> /\ Reply(call[c]) \in Replies
    BY <1>6 DEF publish, Replies, Reply
  <2>2. mem' \in [Keys -> Record]
    BY <1>0, <1>6, <1>t DEF publish
  <2>. QED BY <1>0, <1>t, <2>1, <2>2, JobSettles
<1>. QED BY <1>1, <1>2, <1>3, <1>4, <1>5, <1>6 DEF Job

LEMMA CrashKeepsInv == ASSUME Inv, crash PROVE Inv'
<1>1. \A c \in Callers : call'[c] = NoWrite /\ call'[c].state = "idle"
  BY ValueFacts DEF crash
<1>2. files' \in [Keys -> Document] /\ synced' \in [Keys -> Document]
  BY DEF crash, Inv, TypeOK
<1>3. call' \in [Callers -> Writes]
  BY ValueFacts DEF crash
<1>4. Chained'
  BY <1>1 DEF Chained, crash
<1>5. TypeOK'
  BY <1>1, <1>2, <1>3, ValueFacts DEF crash, Inv, TypeOK, Writes
<1>. QED BY <1>4, <1>5 DEF Inv

LEMMA InvNext == Inv /\ [Next]_vars => Inv'
<1>. SUFFICES ASSUME Inv, [Next]_vars PROVE Inv'
  OBVIOUS
<1>t. /\ files \in [Keys -> Document] /\ synced \in [Keys -> Document] /\ unit \in [Keys -> Record]
      /\ mem \in [Keys -> Record] /\ origin \in {"fresh", "used", "opened"}
      /\ lifecycle \in {"closed", "loading", "bootstrap", "validating", "open", "closing"}
      /\ lifecycle \notin {"open", "closing"} => chain = << >>
  BY DEF Inv, TypeOK, Chained, Serving
<1>1. CASE open \/ bootstrapBegins \/ loadAll \/ openRejects \/ close \/ UNCHANGED vars
  BY <1>1, <1>t, QuietSteps DEF open, bootstrapBegins, loadAll, openRejects, close, vars, mediumVars
<1>2. CASE openReturns \/ closeEnds
  <2>1. Table(files) \in [Keys -> Record] /\ Empty \in [Keys -> Record]
    BY TableType, ValueFacts
  <2>. QED BY <1>2, <1>t, <2>1, QuietSteps DEF openReturns, closeEnds, mediumVars
<1>3. ASSUME NEW k \in Keys, bootstrapRecord(k) \/ backupRecord(k) PROVE Inv'
  <2>1. files' \in [Keys -> Document] /\ synced' \in [Keys -> Document]
    BY <1>3, <1>t, ValueFacts, LegacyAssumption DEF bootstrapRecord, backupRecord
  <2>. QED BY <1>3, <1>t, <2>1, QuietSteps DEF bootstrapRecord, backupRecord
<1>4. ASSUME NEW c \in Callers, enqueue(c) \/ Job(c) PROVE Inv'
  BY <1>4, EnqueueKeepsInv, JobKeepsInv
<1>5. CASE crash
  BY <1>5, CrashKeepsInv
<1>. QED BY <1>1, <1>2, <1>3, <1>4, <1>5 DEF Next

(* Types hold, and a closed domain has answered every write it accepted,     *)
(* also when directory syncs fail and power is lost.                         *)
THEOREM TypeCorrect == Spec => []TypeOK
<1>1. Init => Inv
  BY InvInit
<1>2. Inv => TypeOK
  BY DEF Inv
<1>. QED BY <1>1, <1>2, InvNext, PTL DEF Spec

-----------------------------------------------------------------------------
(* Memory and the medium, when no directory sync fails. *)

(* Nothing in flight, before and after: the maps move together, or stay.    *)
LEMMA StoredQuiet ==
  ASSUME Inv, \A c \in Callers : ~InFlight(c)',
         Serving' => mem' = Table(files') /\ (~PerRecord => unit' = mem')
  PROVE  Stored'
BY DEF Stored, InFlight

(* A domain that does not serve has nothing in flight. *)
LEMMA QuietOutside ==
  ASSUME Inv, chain = << >>, NEW c \in Callers
  PROVE  call[c].state = "idle" /\ ~InFlight(c)
<1>1. 1..Len(chain) = {}
  OBVIOUS
<1>. QED BY <1>1 DEF Inv, Chained, InFlight

(* The calls change without a job starting, going on or ending. *)
LEMMA StoredKeeps ==
  ASSUME Inv, Stored, UNCHANGED <<mediumVars, unit, mem, next>>, Serving' => Serving,
         \A c \in Callers : InFlight(c)' => call'[c] = call[c],
         \A c \in Callers : InFlight(c) => call'[c] = call[c]
  PROVE  Stored'
<1>. USE DEF Stored, mediumVars
<1>1. \A c \in Callers : InFlight(c)' <=> InFlight(c)
  BY DEF InFlight
<1>2. \A c \in Callers : InFlight(c)' => Decided(c)' /\ (~PerRecord => unit' = After(c)')
  BY <1>1 DEF Decided, After
<1>3. \A c \in Callers : call'[c].state = "writing" => Table(files') = mem'
  BY DEF InFlight
<1>4. \A c \in Callers : call'[c].state \in {"renamed", "durable"} => Table(files') = After(c)'
  BY DEF InFlight, After
<1>. QED BY <1>1, <1>2, <1>3, <1>4

LEMMA OpeningKeepsStored ==
  ASSUME Inv, Stored,
         \/ open \/ bootstrapBegins \/ loadAll \/ openRejects \/ openReturns
         \/ \E k \in Keys : bootstrapRecord(k) \/ backupRecord(k)
  PROVE  Stored'
<1>1. chain = << >> /\ call' = call
  BY DEF Inv, Chained, Serving, open, bootstrapBegins, loadAll, openRejects, openReturns, bootstrapRecord,
         backupRecord
<1>2. \A c \in Callers : ~InFlight(c)'
  BY <1>1, QuietOutside DEF InFlight
<1>3. Serving' => mem' = Table(files') /\ (~PerRecord => unit' = mem')
  BY DEF Serving, open, bootstrapBegins, loadAll, openRejects, openReturns, bootstrapRecord, backupRecord,
         mediumVars
<1>. QED BY <1>2, <1>3, StoredQuiet

LEMMA EnqueueKeepsStored ==
  ASSUME Inv, Stored, NEW c \in Callers, enqueue(c)
  PROVE  Stored'
<1>1. UNCHANGED <<mediumVars, unit, mem, next>> /\ lifecycle' = lifecycle /\ ~InFlight(c) /\ ~InFlight(c)'
  <2>1. UNCHANGED <<mediumVars, unit, mem, next>> /\ lifecycle' = lifecycle /\ call[c].state = "idle"
    BY DEF enqueue
  <2>2. call'[c].state \in {"idle", "queued"}
    BY DEF enqueue, Inv, TypeOK
  <2>. QED BY <2>1, <2>2 DEF InFlight
<1>2. \A b \in Callers \ {c} : call'[b] = call[b]
  BY DEF enqueue, Inv, TypeOK
<1>. QED BY <1>1, <1>2, StoredKeeps DEF Serving

(* What the steps of the running job know. *)
LEMMA JobFacts ==
  ASSUME Inv, Stored, NEW c \in Callers, chain # << >>, Head(chain) = c
  PROVE  /\ Serving /\ call[c] \in Writes /\ call[c].key \in Keys /\ mem \in [Keys -> Record]
         /\ files \in [Keys -> Document] /\ next \in Record /\ unit \in [Keys -> Record]
         /\ \A b \in Callers \ {c} : ~InFlight(b)
         /\ ~InFlight(c) => mem = Table(files) /\ (~PerRecord => unit = mem)
<1>1. Serving /\ call[c] \in Writes /\ call[c].key \in Keys /\ mem \in [Keys -> Record]
      /\ files \in [Keys -> Document] /\ next \in Record /\ unit \in [Keys -> Record]
  BY DEF Inv, TypeOK, Chained, Writes
<1>2. \A b \in Callers \ {c} : ~InFlight(b)
  BY RunsAlone
<1>. QED BY <1>1, <1>2 DEF Stored

LEMMA StartKeepsStored ==
  ASSUME Inv, Stored, NEW c \in Callers, jobStarts(c)
  PROVE  Stored'
<1>1. /\ chain # << >> /\ Head(chain) = c /\ call[c].state = "queued" /\ ~InFlight(c)
      /\ UNCHANGED <<mediumVars, mem, lifecycle>>
  BY DEF jobStarts, Running, InFlight
<1>2. /\ Serving /\ call[c] \in Writes /\ call[c].key \in Keys /\ mem \in [Keys -> Record]
      /\ \A b \in Callers \ {c} : ~InFlight(b)
      /\ mem = Table(files) /\ (~PerRecord => unit = mem)
  BY <1>1, JobFacts
<1>4. CASE Vacuous(call[c], mem[call[c].key])
  <2>1. Settle(c, VacuousReply(call[c])) /\ unit' = unit
    BY <1>4 DEF jobStarts
  <2>2. \A b \in Callers : ~InFlight(b)'
    BY <1>2, <2>1 DEF Settle, InFlight, Inv, TypeOK
  <2>. QED BY <1>1, <1>2, <2>1, <2>2, StoredQuiet DEF mediumVars
<1>5. CASE ~Vacuous(call[c], mem[call[c].key])
  <2>1. /\ next' = Applied(call[c], mem[call[c].key])
        /\ call' = [call EXCEPT ![c].state = "writing"]
        /\ unit' = IF PerRecord THEN unit ELSE [unit EXCEPT ![call[c].key] = next']
    BY <1>5 DEF jobStarts
  <2>2. /\ \A b \in Callers \ {c} : call'[b] = call[b]
        /\ call'[c].state = "writing" /\ call'[c].key = call[c].key /\ call'[c].op = call[c].op
        /\ call'[c].value = call[c].value
    BY <2>1 DEF Inv, TypeOK
  <2>3. Decided(c)'
    BY <1>1, <1>5, <2>1, <2>2 DEF Decided, Vacuous, Applied
  <2>4. ~PerRecord => unit' = After(c)'
    BY <1>1, <1>2, <2>1, <2>2 DEF After
  <2>5. \A b \in Callers : InFlight(b)' => b = c
    BY <1>2, <2>2 DEF InFlight
  <2>6. InFlight(c)' /\ \A b \in Callers : call'[b].state \in {"renamed", "durable"} => FALSE
    BY <1>2, <2>2 DEF InFlight
  <2>7. Table(files') = mem'
    BY <1>1, <1>2 DEF mediumVars
  <2>. QED BY <2>3, <2>4, <2>5, <2>6, <2>7 DEF Stored
<1>. QED BY <1>4, <1>5

(* The running job replaced its document, or synced it. *)
LEMMA AdvanceKeepsStored ==
  ASSUME Inv, Stored, NEW c \in Callers, chain # << >>, Head(chain) = c, InFlight(c),
         NEW s \in {"renamed", "durable"}, call' = [call EXCEPT ![c].state = s],
         UNCHANGED <<unit, mem, next, lifecycle>>, Table(files') = After(c)
  PROVE  Stored'
<1>1. \A b \in Callers \ {c} : ~InFlight(b)
  BY JobFacts
<1>2. /\ \A b \in Callers \ {c} : call'[b] = call[b]
      /\ call'[c].state = s /\ call'[c].key = call[c].key /\ call'[c].op = call[c].op
      /\ call'[c].value = call[c].value
  BY DEF Inv, TypeOK
<1>3. Decided(c)'
  BY <1>2 DEF Stored, Decided, Vacuous, Applied
<1>4. After(c)' = After(c) /\ (~PerRecord => unit = After(c))
  BY <1>2 DEF Stored, After
<1>5. \A b \in Callers : InFlight(b)' => b = c
  BY <1>1, <1>2 DEF InFlight
<1>6. InFlight(c)' /\ \A b \in Callers : call'[b].state \in {"writing", "renamed", "durable"} => b = c
  BY <1>2, <1>5 DEF InFlight
<1>7. call'[c].state # "writing"
  BY <1>2
<1>. QED BY <1>3, <1>4, <1>5, <1>6, <1>7 DEF Stored

(* The running job is done, and its record is in memory and on the medium or *)
(* in neither.                                                               *)
LEMMA SettleKeepsStored ==
  ASSUME Inv, Stored, NEW c \in Callers, NEW reply, chain # << >>, Head(chain) = c, Settle(c, reply),
         UNCHANGED mediumVars, mem' = Table(files), ~PerRecord => unit' = mem'
  PROVE  Stored'
<1>1. \A b \in Callers \ {c} : ~InFlight(b)
  BY JobFacts
<1>2. \A b \in Callers : ~InFlight(b)'
  BY <1>1 DEF Settle, InFlight, Inv, TypeOK
<1>. QED BY <1>2, StoredQuiet DEF mediumVars

LEMMA JobKeepsStored ==
  ASSUME ~DirSyncFails, Inv, Stored, NEW c \in Callers, Job(c)
  PROVE  Stored'
<1>0. chain # << >> /\ Head(chain) = c
  BY DEF Job, jobStarts, renameOver, fsyncDirectory, deleteRecord, unitRejects, publish, Running
<1>1. /\ call[c] \in Writes /\ call[c].key \in Keys /\ mem \in [Keys -> Record]
      /\ files \in [Keys -> Document] /\ next \in Record /\ unit \in [Keys -> Record]
  BY <1>0, JobFacts
<1>2. CASE jobStarts(c)
  BY <1>2, StartKeepsStored
<1>3. CASE renameOver(c)
  <2>1. /\ call[c].state = "writing" /\ call' = [call EXCEPT ![c].state = "renamed"]
        /\ files' = IF PerRecord THEN [files EXCEPT ![call[c].key] = next] ELSE unit
        /\ UNCHANGED <<unit, mem, next, lifecycle>>
    BY <1>3 DEF renameOver, Running
  <2>2. InFlight(c) /\ Table(files) = mem /\ (~PerRecord => unit = After(c))
    BY <2>1 DEF InFlight, Stored
  <2>3. Table(files') = After(c)
    <3>1. CASE PerRecord
      <4>1. files' = [files EXCEPT ![call[c].key] = next]
        BY <2>1, <3>1
      <4>2. Table([files EXCEPT ![call[c].key] = next]) = [Table(files) EXCEPT ![call[c].key] = next]
        BY <1>1, TablePut
      <4>. QED BY <2>2, <4>1, <4>2 DEF After
    <3>2. CASE ~PerRecord
      <4>1. files' = unit /\ unit = After(c)
        BY <2>1, <2>2, <3>2
      <4>2. Table(unit) = unit
        BY <1>1, TableOfRecords
      <4>. QED BY <4>1, <4>2
    <3>. QED BY <3>1, <3>2
  <2>. QED BY <1>0, <2>1, <2>2, <2>3, AdvanceKeepsStored
<1>4. CASE fsyncDirectory(c)
  <2>1. /\ call[c].state = "renamed" /\ call' = [call EXCEPT ![c].state = "durable"]
        /\ UNCHANGED <<files, unit, mem, next, lifecycle>>
    BY <1>4 DEF fsyncDirectory, Running
  <2>2. InFlight(c) /\ Table(files') = After(c)
    BY <2>1 DEF InFlight, Stored
  <2>. QED BY <1>0, <2>1, <2>2, AdvanceKeepsStored
<1>5. CASE deleteRecord(c)
  <2>1. /\ call[c].state = "writing" /\ call' = [call EXCEPT ![c].state = "durable"] /\ PerRecord
        /\ files' = [files EXCEPT ![call[c].key] = Absent] /\ call[c].op = "delete"
        /\ UNCHANGED <<unit, mem, next, lifecycle>>
    BY <1>5 DEF deleteRecord, Running
  <2>2. InFlight(c) /\ Table(files) = mem /\ next = Absent
    <3>1. InFlight(c)
      BY <2>1 DEF InFlight
    <3>2. Table(files) = mem /\ Decided(c)
      BY <2>1, <3>1 DEF Stored
    <3>3. next = Absent
      BY <2>1, <3>2 DEF Decided, Applied
    <3>. QED BY <3>1, <3>2, <3>3
  <2>3. Table(files') = After(c)
    <3>1. Absent \in Record
      BY ValueFacts
    <3>2. Table([files EXCEPT ![call[c].key] = Absent]) = [Table(files) EXCEPT ![call[c].key] = Absent]
      BY <1>1, <3>1, TablePut
    <3>. QED BY <2>1, <2>2, <3>2 DEF After
  <2>. QED BY <1>0, <2>1, <2>2, <2>3, AdvanceKeepsStored
<1>6. CASE unitRejects(c)
  <2>1. /\ call[c].state = "writing" /\ Settle(c, "rejected") /\ mem' = mem /\ UNCHANGED mediumVars
        /\ unit' = IF PerRecord THEN unit ELSE [unit EXCEPT ![call[c].key] = mem[call[c].key]]
    BY <1>6 DEF unitRejects, Running
  <2>2. Table(files) = mem /\ (~PerRecord => unit = After(c))
    BY <2>1 DEF InFlight, Stored
  <2>3. ~PerRecord => unit' = mem'
    BY <1>1, <2>1, <2>2 DEF After
  <2>. QED BY <1>0, <2>1, <2>2, <2>3, SettleKeepsStored
<1>7. CASE publish(c)
  <2>1. /\ call[c].state = "durable" /\ Settle(c, Reply(call[c])) /\ mem' = After(c)
        /\ UNCHANGED <<mediumVars, unit>>
    BY <1>7 DEF publish, Running, After
  <2>2. Table(files) = After(c) /\ (~PerRecord => unit = After(c))
    BY <2>1 DEF InFlight, Stored
  <2>. QED BY <1>0, <2>1, <2>2, SettleKeepsStored
<1>. QED BY <1>2, <1>3, <1>4, <1>5, <1>6, <1>7 DEF Job

LEMMA StoredNext == ASSUME ~DirSyncFails, Inv, Stored, [Next]_vars PROVE Stored'
<1>1. CASE \/ open \/ bootstrapBegins \/ loadAll \/ openRejects \/ openReturns
           \/ \E k \in Keys : bootstrapRecord(k) \/ backupRecord(k)
  BY <1>1, OpeningKeepsStored
<1>2. ASSUME NEW c \in Callers, enqueue(c) \/ Job(c) PROVE Stored'
  BY <1>2, EnqueueKeepsStored, JobKeepsStored
<1>3. CASE close \/ UNCHANGED vars
  <2>1. UNCHANGED <<mediumVars, unit, mem, next, call>> /\ (Serving' => Serving)
    BY <1>3 DEF close, vars, Serving
  <2>. QED BY <2>1, StoredKeeps
<1>4. CASE closeEnds
  <2>1. chain = << >> /\ call' = call /\ ~Serving' /\ files' = files
    BY <1>4 DEF closeEnds, Serving, mediumVars
  <2>2. \A c \in Callers : ~InFlight(c)'
    BY <2>1, QuietOutside DEF InFlight
  <2>. QED BY <2>1, <2>2, StoredQuiet DEF Stored
<1>5. CASE crash
  <2>1. \A c \in Callers : ~InFlight(c)'
    BY <1>5, ValueFacts DEF crash, InFlight
  <2>2. ~Serving'
    BY <1>5 DEF crash, Serving
  <2>. QED BY <2>1, <2>2, StoredQuiet
<1>. QED BY <1>1, <1>2, <1>3, <1>4, <1>5 DEF Next

(* When no directory sync fails, reads and the medium never diverge while    *)
(* no job is between its unit call and its publication, whatever the layout  *)
(* and whatever a crash leaves.                                              *)
THEOREM ReadsMatchMedium == ASSUME ~DirSyncFails PROVE Spec => []MemoryMatchesMedium
<1>1. Inv /\ Stored /\ [Next]_vars => (Inv /\ Stored)'
  BY InvNext, StoredNext
<1>2. Inv /\ Stored => MemoryMatchesMedium
  BY DEF Stored, MemoryMatchesMedium, Serving, InFlight
<1>. QED BY <1>1, <1>2, InvInit, PTL DEF Spec

-----------------------------------------------------------------------------
(* Where power may fail, the single file: what is synced is what was         *)
(* replaced, or what memory still holds.                                     *)

(* Of the calls only the running one changed, if any. *)
LEMMA SyncedSettled ==
  ASSUME \A c \in Callers : call'[c].state # "renamed", synced' = files'
  PROVE  Synced'
BY DEF Synced

LEMMA SyncedNext ==
  ASSUME ~DirSyncFails, PowerLoss, ~PerRecord, Inv, Stored, Synced, [Next]_vars
  PROVE  Synced'
<1>q. chain = << >> => \A c \in Callers : call[c].state # "renamed"
  BY QuietOutside
<1>1. CASE \/ open \/ bootstrapBegins \/ loadAll \/ openRejects \/ openReturns
           \/ \E k \in Keys : bootstrapRecord(k) \/ backupRecord(k)
  <2>1. chain = << >> /\ call' = call
    BY <1>1 DEF Inv, Chained, Serving, open, bootstrapBegins, loadAll, openRejects, openReturns, bootstrapRecord,
                backupRecord
  <2>2. synced = files
    BY <1>q, <2>1 DEF Synced
  <2>3. synced' = files'
    BY <1>1, <2>2 DEF open, bootstrapBegins, loadAll, openRejects, openReturns, bootstrapRecord, backupRecord,
                      mediumVars
  <2>. QED BY <1>q, <2>1, <2>3, SyncedSettled
<1>2. ASSUME NEW c \in Callers, enqueue(c) PROVE Synced'
  <2>1. \A b \in Callers : call'[b].state = "renamed" <=> call[b].state = "renamed"
    <3>1. CASE lifecycle = "open"
      BY <1>2, <3>1 DEF enqueue, Inv, TypeOK
    <3>2. CASE lifecycle # "open"
      BY <1>2, <3>2 DEF enqueue, Inv, TypeOK
    <3>. QED BY <3>1, <3>2
  <2>2. UNCHANGED <<mediumVars, mem>>
    BY <1>2 DEF enqueue
  <2>. QED BY <2>1, <2>2 DEF Synced, mediumVars
<1>3. ASSUME NEW c \in Callers, Job(c) PROVE Synced'
  <2>0. chain # << >> /\ Head(chain) = c
    BY <1>3 DEF Job, jobStarts, renameOver, fsyncDirectory, deleteRecord, unitRejects, publish, Running
  <2>1. /\ \A b \in Callers \ {c} : call[b].state # "renamed" /\ call'[b] = call[b]
        /\ call \in [Callers -> Writes]
    <3>1. \A b \in Callers \ {c} : ~InFlight(b)
      BY <2>0, JobFacts
    <3>2. call \in [Callers -> Writes]
      BY DEF Inv, TypeOK, Writes
    <3>3. PICK w : call' = [call EXCEPT ![c] = w]
      BY <1>3, <3>2 DEF Job, jobStarts, renameOver, fsyncDirectory, deleteRecord, unitRejects, publish, Settle
    <3>4. \A b \in Callers \ {c} : call'[b] = call[b]
      BY <3>2, <3>3
    <3>. QED BY <3>1, <3>2, <3>4 DEF InFlight
  <2>2. CASE renameOver(c)
    <3>1. call[c].state = "writing" /\ call'[c].state = "renamed" /\ UNCHANGED <<synced, mem>>
      BY <2>1, <2>2 DEF renameOver, Running
    <3>2. Table(files) = mem
      BY <3>1 DEF Stored
    <3>3. synced = files
      BY <2>1, <3>1 DEF Synced
    <3>. QED BY <2>1, <3>1, <3>2, <3>3 DEF Synced
  <2>3. CASE fsyncDirectory(c)
    <3>1. call'[c].state = "durable" /\ synced' = files'
      BY <2>1, <2>3 DEF fsyncDirectory
    <3>. QED BY <2>1, <3>1, SyncedSettled
  <2>4. CASE jobStarts(c) \/ unitRejects(c) \/ publish(c)
    <3>1. call[c].state # "renamed" /\ UNCHANGED mediumVars
      BY <2>4 DEF jobStarts, unitRejects, publish, Running
    <3>2. call'[c].state # "renamed"
      <4>1. CASE \E reply : Settle(c, reply)
        BY <2>1, <4>1 DEF Settle
      <4>2. CASE call' = [call EXCEPT ![c].state = "writing"]
        BY <2>1, <4>2
      <4>. QED BY <2>4, <4>1, <4>2 DEF jobStarts, unitRejects, publish
    <3>3. synced = files
      BY <2>1, <3>1 DEF Synced
    <3>. QED BY <2>1, <3>1, <3>2, <3>3, SyncedSettled DEF mediumVars
  <2>. QED BY <1>3, <2>2, <2>3, <2>4 DEF Job, deleteRecord
<1>4. CASE close \/ UNCHANGED vars
  <2>1. UNCHANGED <<mediumVars, mem, call>>
    BY <1>4 DEF close, vars
  <2>. QED BY <2>1 DEF Synced, mediumVars
<1>5. CASE closeEnds
  <2>1. chain = << >> /\ UNCHANGED <<mediumVars, call>>
    BY <1>5 DEF closeEnds
  <2>2. synced = files
    BY <1>q, <2>1 DEF Synced
  <2>. QED BY <1>q, <2>1, <2>2, SyncedSettled DEF mediumVars
<1>6. CASE crash
  <2>1. \A c \in Callers : call'[c].state # "renamed"
    BY <1>6, ValueFacts DEF crash
  <2>2. synced' = files'
    BY <1>6 DEF crash
  <2>. QED BY <2>1, <2>2, SyncedSettled
<1>. QED BY <1>1, <1>2, <1>3, <1>4, <1>5, <1>6 DEF Next

Durable == Inv /\ Stored /\ PowerInv

LEMMA DurableInit == ASSUME PowerLoss => ~PerRecord PROVE Init => Durable
BY InvInit DEF Init, Durable, PowerInv, Synced, NoWrite

LEMMA DurableNext == ASSUME ~DirSyncFails PROVE Durable /\ [Next]_vars => Durable'
BY InvNext, StoredNext, SyncedNext DEF Durable, PowerInv

LEMMA CrashStep ==
  ASSUME PowerInv, [Next]_vars, Serving, lifecycle' = "closed",
         \A c \in Callers : call[c].state \notin {"writing", "renamed"}
  PROVE  Table(files') = Table(files)
<1>1. CASE crash
  <2>1. CASE PowerLoss
    <3>1. synced = files /\ ~PerRecord
      BY <2>1 DEF PowerInv, Synced
    <3>2. files' = files
      BY <1>1, <2>1, <3>1 DEF crash
    <3>. QED BY <3>2
  <2>2. CASE ~PowerLoss
    <3>1. files' = files
      BY <1>1, <2>2 DEF crash
    <3>. QED BY <3>1
  <2>. QED BY <2>1, <2>2
<1>2. CASE \E c \in Callers : enqueue(c) \/ Job(c)
  <2>1. lifecycle' = lifecycle
    BY <1>2 DEF enqueue, Job, jobStarts, renameOver, fsyncDirectory, deleteRecord, unitRejects, publish
  <2>. QED BY <2>1 DEF Serving
<1>3. CASE \E k \in Keys : bootstrapRecord(k) \/ backupRecord(k)
  BY <1>3 DEF bootstrapRecord, backupRecord, Serving
<1>4. CASE ~crash /\ ~(\E c \in Callers : enqueue(c) \/ Job(c))
           /\ ~(\E k \in Keys : bootstrapRecord(k) \/ backupRecord(k))
  <2>1. files' = files
    BY <1>4 DEF Next, open, bootstrapBegins, loadAll, openRejects, openReturns, close, closeEnds, vars, mediumVars
  <2>. QED BY <2>1
<1>. QED BY <1>1, <1>2, <1>3, <1>4

(* A crash with no unit call in flight leaves the records as they were: with *)
(* power kept whatever the layout and even where directory syncs fail; after *)
(* a power loss with the single file, whose directory each write syncs, when *)
(* no sync fails.                                                            *)
THEOREM ResolvedWritesSurvive ==
  ASSUME PowerLoss => ~PerRecord /\ ~DirSyncFails
  PROVE  Spec => CrashKeepsResolved
<1>1. PowerInv /\ [Next]_vars =>
        [ (/\ lifecycle \in {"open", "closing"} /\ lifecycle' = "closed"
           /\ \A c \in Callers : call[c].state \notin {"writing", "renamed"})
          => Table(files') = Table(files) ]_vars
  BY CrashStep DEF Serving
<1>2. Spec => []PowerInv
  <2>1. CASE ~PowerLoss
    <3>1. PowerInv
      BY <2>1 DEF PowerInv
    <3>. QED BY <3>1, PTL
  <2>2. CASE PowerLoss
    <3>1. ~PerRecord /\ ~DirSyncFails
      BY <2>2
    <3>2. Init => Durable
      BY <3>1, DurableInit
    <3>3. Durable /\ [Next]_vars => Durable'
      BY <3>1, DurableNext
    <3>4. Durable => PowerInv
      BY DEF Durable
    <3>. QED BY <3>2, <3>3, <3>4, PTL DEF Spec
  <2>. QED BY <2>1, <2>2
<1>. QED BY <1>1, <1>2, PTL DEF Spec, CrashKeepsResolved

-----------------------------------------------------------------------------
(* The refinement of DurableTable. *)

AbsTable == Table(IF PowerLoss THEN synced ELSE files)

Seen(w) == [w EXCEPT !.state = IF @ = "idle" THEN "idle"
                               ELSE IF @ \in Committed THEN "committed"
                               ELSE "called"]

AbsWrite == [c \in Callers |-> Seen(call[c])]

LEMMA SameWrites ==
  /\ Abstract!NoWrite = NoWrite /\ Abstract!Ops = Ops /\ Abstract!Values = Values
  /\ Abstract!Record = Record
  /\ \A w : Abstract!Reply(w) = Reply(w) /\ Abstract!VacuousReply(w) = VacuousReply(w)
  /\ \A w, r : /\ Abstract!Vacuous(w, r) <=> Vacuous(w, r)
               /\ Abstract!Applied(w, r) = Applied(w, r)
BY DEF NoWrite, Ops, Values, Record, Reply, VacuousReply, Vacuous, Applied, Abstract!NoWrite, Abstract!Ops,
       Abstract!Values, Abstract!Record, Abstract!Reply, Abstract!VacuousReply, Abstract!Vacuous, Abstract!Applied

LEMMA SeenFields ==
  ASSUME NEW w \in Writes
  PROVE  /\ Seen(w).op = w.op /\ Seen(w).key = w.key /\ Seen(w).value = w.value
         /\ w.state = "idle" => Seen(w).state = "idle"
         /\ w.state # "idle" /\ w.state \in Committed => Seen(w).state = "committed"
         /\ w.state # "idle" /\ w.state \notin Committed => Seen(w).state = "called"
         /\ \A r : /\ Vacuous(Seen(w), r) <=> Vacuous(w, r)
                   /\ Applied(Seen(w), r) = Applied(w, r)
         /\ Reply(Seen(w)) = Reply(w) /\ VacuousReply(Seen(w)) = VacuousReply(w)
<1>1. /\ Seen(w).op = w.op /\ Seen(w).key = w.key /\ Seen(w).value = w.value
      /\ Seen(w).state = IF w.state = "idle" THEN "idle" ELSE IF w.state \in Committed THEN "committed" ELSE "called"
  BY DEF Seen, Writes
<1>. HIDE DEF Seen
<1>. QED BY <1>1 DEF Vacuous, Applied, Reply, VacuousReply

(* A job that goes on shows as it does, or not at all. *)
LEMMA SeenAdvance ==
  ASSUME NEW w \in Writes, NEW s \in {"writing", "renamed", "durable"}, w.state # "idle"
  PROVE  Seen([w EXCEPT !.state = s]) =
           IF (s \in Committed) = (w.state \in Committed) THEN Seen(w)
           ELSE [Seen(w) EXCEPT !.state = IF s \in Committed THEN "committed" ELSE "called"]
BY DEF Seen, Writes, Committed

LEMMA SeenAnswer ==
  ASSUME NEW w \in Writes, NEW reply
  PROVE  Seen([w EXCEPT !.state = "idle", !.reply = reply]) = [Seen(w) EXCEPT !.state = "idle", !.reply = reply]
BY DEF Seen, Writes, Committed

LEMMA AbsWriteAt ==
  ASSUME Inv, NEW c \in Callers, NEW w, call' = [call EXCEPT ![c] = w]
  PROVE  AbsWrite' = [AbsWrite EXCEPT ![c] = Seen(w)]
<1>1. \A b \in Callers : call'[b] = IF b = c THEN w ELSE call[b]
  BY DEF Inv, TypeOK
<1>2. \A b \in Callers : Seen(call'[b]) = IF b = c THEN Seen(w) ELSE Seen(call[b])
  BY <1>1
<1>3. AbsWrite' = [b \in Callers |-> Seen(call'[b])]
  BY DEF AbsWrite, Seen, Committed
<1>. QED BY <1>2, <1>3 DEF AbsWrite

LEMMA Answers ==
  ASSUME Inv, NEW c \in Callers, NEW reply, AbsTable' = AbsTable,
         call' = [call EXCEPT ![c].state = "idle", ![c].reply = reply]
  PROVE  AbsTable' = AbsTable /\ AbsWrite' = [AbsWrite EXCEPT ![c].state = "idle", ![c].reply = reply]
<1>1. call[c] \in Writes
  BY DEF Inv, TypeOK, Writes
<1>2. call' = [call EXCEPT ![c] = [call[c] EXCEPT !.state = "idle", !.reply = reply]]
  BY DEF Inv, TypeOK
<1>3. AbsWrite' = [AbsWrite EXCEPT ![c] = Seen([call[c] EXCEPT !.state = "idle", !.reply = reply])]
  BY <1>2, AbsWriteAt
<1>4. AbsWrite[c] = Seen(call[c])
  BY DEF AbsWrite
<1>5. AbsWrite' = [AbsWrite EXCEPT ![c].state = "idle", ![c].reply = reply]
  BY <1>1, <1>3, <1>4, SeenAnswer DEF AbsWrite
<1>. QED BY <1>5

(* A write whose document is in place, or synced, is in the table. *)
LEMMA Commits ==
  ASSUME Inv, NEW c \in Callers, InFlight(c), Decided(c), call[c].state \notin Committed,
         NEW s \in Committed, call' = [call EXCEPT ![c].state = s], AbsTable = mem, AbsTable' = After(c)
  PROVE  Abstract!Commit(c)
<1>1. call[c] \in Writes /\ call[c].key \in Keys /\ call[c].state # "idle" /\ s \in {"renamed", "durable"}
  BY DEF Inv, TypeOK, Writes, InFlight, Committed
<1>2. call' = [call EXCEPT ![c] = [call[c] EXCEPT !.state = s]]
  BY DEF Inv, TypeOK
<1>3. AbsWrite' = [AbsWrite EXCEPT ![c] = Seen([call[c] EXCEPT !.state = s])]
  BY <1>2, AbsWriteAt
<1>4. AbsWrite[c] = Seen(call[c])
  BY DEF AbsWrite
<1>5. Seen([call[c] EXCEPT !.state = s]) = [Seen(call[c]) EXCEPT !.state = "committed"]
  BY <1>1, SeenAdvance
<1>6. AbsWrite' = [AbsWrite EXCEPT ![c].state = "committed"]
  BY <1>3, <1>4, <1>5 DEF AbsWrite
<1>7. /\ AbsWrite[c].state = "called" /\ AbsWrite[c].key = call[c].key
      /\ ~Vacuous(AbsWrite[c], AbsTable[AbsWrite[c].key])
      /\ Applied(AbsWrite[c], AbsTable[AbsWrite[c].key]) = next
  BY <1>1, <1>4, SeenFields DEF Decided
<1>8. AbsTable' = [AbsTable EXCEPT ![AbsWrite[c].key] = Applied(AbsWrite[c], @)]
  BY <1>7 DEF After
<1>. QED BY <1>6, <1>7, <1>8, SameWrites DEF Abstract!Commit, AbsTable, AbsWrite, Seen

(* What the abstract table is while a job runs. *)
LEMMA AbsTableFacts ==
  ASSUME Durable, NEW c \in Callers
  PROVE  /\ (\A b \in Callers : call[b].state # "renamed") => AbsTable = Table(files)
         /\ ~PowerLoss => AbsTable = Table(files)
         /\ PowerLoss /\ call[c].state = "renamed" => AbsTable = mem
BY DEF Durable, PowerInv, Synced, AbsTable

AbsStutter == AbsTable' = AbsTable /\ AbsWrite' = AbsWrite

(* A running job goes on without the table or its caller seeing it. *)
LEMMA Unseen ==
  ASSUME Inv, NEW c \in Callers, call[c].state # "idle", NEW s \in {"writing", "renamed", "durable"},
         call' = [call EXCEPT ![c].state = s], (s \in Committed) = (call[c].state \in Committed)
  PROVE  AbsWrite' = AbsWrite
<1>1. call[c] \in Writes
  BY DEF Inv, TypeOK, Writes
<1>2. call' = [call EXCEPT ![c] = [call[c] EXCEPT !.state = s]]
  BY DEF Inv, TypeOK
<1>3. AbsWrite' = [AbsWrite EXCEPT ![c] = Seen([call[c] EXCEPT !.state = s])]
  BY <1>2, AbsWriteAt
<1>4. Seen([call[c] EXCEPT !.state = s]) = Seen(call[c])
  BY <1>1, SeenAdvance
<1>. QED BY <1>3, <1>4 DEF AbsWrite

LEMMA JobRefines ==
  ASSUME ~DirSyncFails, Durable, NEW c \in Callers, Job(c)
  PROVE  \/ Abstract!Commit(c) \/ Abstract!Resolve(c) \/ Abstract!Skip(c) \/ Abstract!Reject(c)
         \/ AbsStutter
<1>0. Inv /\ Stored /\ chain # << >> /\ Head(chain) = c
  BY DEF Durable, Job, jobStarts, renameOver, fsyncDirectory, deleteRecord, unitRejects, publish, Running
<1>1. /\ call[c] \in Writes /\ call[c].key \in Keys
      /\ \A b \in Callers \ {c} : ~InFlight(b)
      /\ ~InFlight(c) => mem = Table(files)
      /\ call[c].state # "renamed" => AbsTable = Table(files)
      /\ AbsWrite[c] = Seen(call[c])
  <2>1. \A b \in Callers \ {c} : ~InFlight(b)
    BY <1>0, JobFacts
  <2>2. call[c].state # "renamed" => AbsTable = Table(files)
    BY <2>1, AbsTableFacts DEF InFlight
  <2>. QED BY <1>0, <2>1, <2>2, JobFacts DEF AbsWrite
<1>2. CASE jobStarts(c)
  <2>1. call[c].state = "queued" /\ UNCHANGED mediumVars /\ ~InFlight(c) /\ AbsTable' = AbsTable
    BY <1>2 DEF jobStarts, Running, InFlight, mediumVars, AbsTable, Table
  <2>2. CASE Vacuous(call[c], mem[call[c].key])
    <3>1. Settle(c, VacuousReply(call[c]))
      BY <1>2, <2>2 DEF jobStarts
    <3>2. AbsWrite' = [AbsWrite EXCEPT ![c].state = "idle", ![c].reply = VacuousReply(call[c])]
      BY <1>0, <2>1, <3>1, Answers DEF Settle
    <3>3. /\ AbsWrite[c].state = "called" /\ Vacuous(AbsWrite[c], AbsTable[AbsWrite[c].key])
          /\ VacuousReply(AbsWrite[c]) = VacuousReply(call[c])
      <4>1. call[c].state # "idle" /\ call[c].state \notin Committed
        BY <2>1 DEF Committed
      <4>. QED BY <1>1, <2>1, <2>2, <4>1, SeenFields
    <3>4. Abstract!Skip(c)
      BY <2>1, <3>2, <3>3, SameWrites DEF Abstract!Skip, Abstract!Answer, AbsTable, AbsWrite, Seen
    <3>. QED BY <3>4
  <2>3. CASE ~Vacuous(call[c], mem[call[c].key])
    <3>1. call' = [call EXCEPT ![c].state = "writing"]
      BY <1>2, <2>3 DEF jobStarts
    <3>2. ("writing" \in Committed) = (call[c].state \in Committed)
      BY <2>1 DEF Committed
    <3>3. AbsWrite' = AbsWrite
      BY <1>0, <2>1, <3>1, <3>2, Unseen
    <3>. QED BY <2>1, <3>3 DEF AbsStutter
  <2>. QED BY <2>2, <2>3
<1>3. CASE renameOver(c)
  <2>1. /\ call[c].state = "writing" /\ call' = [call EXCEPT ![c].state = "renamed"] /\ synced' = synced
    BY <1>3 DEF renameOver, Running
  <2>2. InFlight(c) /\ Decided(c) /\ Table(files) = mem /\ call[c].state \notin Committed
    BY <1>0, <2>1 DEF InFlight, Stored, Committed
  <2>3. CASE PowerLoss
    <3>1. ("renamed" \in Committed) = (call[c].state \in Committed)
      BY <2>1, <2>3 DEF Committed
    <3>2. AbsWrite' = AbsWrite
      BY <1>0, <2>1, <3>1, Unseen
    <3>. QED BY <2>1, <2>3, <3>2 DEF AbsStutter, AbsTable, Table
  <2>4. CASE ~PowerLoss
    <3>1. "renamed" \in Committed
      BY <2>4 DEF Committed
    <3>2. AbsTable' = Table(files') /\ AbsTable = mem
      BY <2>2, <2>4 DEF AbsTable, Table
    <3>3. Stored' /\ After(c)' = After(c) /\ call'[c].state = "renamed"
      <4>1. call'[c].state = "renamed" /\ call'[c].key = call[c].key /\ UNCHANGED <<mem, next>>
        BY <1>0, <1>3, <2>1 DEF Inv, TypeOK, renameOver
      <4>. QED BY <1>0, <4>1, JobKeepsStored DEF After
    <3>4. AbsTable' = After(c)
      BY <3>2, <3>3 DEF Stored
    <3>5. Abstract!Commit(c)
      BY <1>0, <2>1, <2>2, <3>1, <3>2, <3>4, Commits
    <3>. QED BY <3>5
  <2>. QED BY <2>3, <2>4
<1>4. CASE fsyncDirectory(c)
  <2>1. /\ call[c].state = "renamed" /\ call' = [call EXCEPT ![c].state = "durable"]
        /\ files' = files /\ synced' = files
    BY <1>4 DEF fsyncDirectory, Running
  <2>2. InFlight(c) /\ Decided(c) /\ Table(files) = After(c)
    BY <1>0, <2>1 DEF InFlight, Stored
  <2>3. CASE PowerLoss
    <3>1. "durable" \in Committed /\ call[c].state \notin Committed
      BY <2>1, <2>3 DEF Committed
    <3>2. AbsTable = mem
      BY <2>1, <2>3, AbsTableFacts
    <3>3. AbsTable' = After(c)
      BY <2>1, <2>2, <2>3 DEF AbsTable, Table
    <3>4. Abstract!Commit(c)
      BY <1>0, <2>1, <2>2, <3>1, <3>2, <3>3, Commits
    <3>. QED BY <3>4
  <2>4. CASE ~PowerLoss
    <3>1. ("durable" \in Committed) = (call[c].state \in Committed)
      BY <2>1, <2>4 DEF Committed
    <3>2. AbsWrite' = AbsWrite
      BY <1>0, <2>1, <3>1, Unseen
    <3>. QED BY <2>1, <2>4, <3>2 DEF AbsStutter, AbsTable, Table
  <2>. QED BY <2>3, <2>4
<1>5. CASE deleteRecord(c)
  <2>1. /\ call[c].state = "writing" /\ call' = [call EXCEPT ![c].state = "durable"] /\ PerRecord
        /\ UNCHANGED <<mem, next>>
    BY <1>5 DEF deleteRecord, Running
  <2>2. InFlight(c) /\ Decided(c) /\ Table(files) = mem /\ ~PowerLoss
    BY <1>0, <2>1 DEF InFlight, Stored, Durable, PowerInv
  <2>3. call[c].state \notin Committed /\ "durable" \in Committed
    BY <2>1 DEF Committed
  <2>4. AbsTable' = Table(files') /\ AbsTable = mem
    BY <2>2 DEF AbsTable, Table
  <2>5. Stored' /\ After(c)' = After(c) /\ call'[c].state = "durable"
    <3>1. call'[c].state = "durable" /\ call'[c].key = call[c].key
      BY <1>0, <2>1 DEF Inv, TypeOK
    <3>. QED BY <1>0, <2>1, <3>1, JobKeepsStored DEF After
  <2>6. AbsTable' = After(c)
    BY <2>4, <2>5 DEF Stored
  <2>7. Abstract!Commit(c)
    BY <1>0, <2>1, <2>2, <2>3, <2>4, <2>6, Commits
  <2>. QED BY <2>7
<1>6. CASE unitRejects(c)
  <2>1. call[c].state = "writing" /\ Settle(c, "rejected") /\ AbsTable' = AbsTable
    BY <1>6 DEF unitRejects, Running, AbsTable, Table, mediumVars
  <2>2. AbsWrite' = [AbsWrite EXCEPT ![c].state = "idle", ![c].reply = "rejected"]
    BY <1>0, <2>1, Answers DEF Settle
  <2>3. AbsWrite[c].state = "called"
    <3>1. call[c].state # "idle" /\ call[c].state \notin Committed
      BY <2>1 DEF Committed
    <3>. QED BY <1>1, <3>1, SeenFields
  <2>4. Abstract!Reject(c)
    BY <2>1, <2>2, <2>3 DEF Abstract!Reject, Abstract!Answer, AbsTable, AbsWrite, Seen
  <2>. QED BY <2>4
<1>7. CASE publish(c)
  <2>1. call[c].state = "durable" /\ Settle(c, Reply(call[c])) /\ AbsTable' = AbsTable
    BY <1>7 DEF publish, Running, AbsTable, Table, mediumVars
  <2>2. AbsWrite' = [AbsWrite EXCEPT ![c].state = "idle", ![c].reply = Reply(call[c])]
    BY <1>0, <2>1, Answers DEF Settle
  <2>3. AbsWrite[c].state = "committed" /\ Reply(AbsWrite[c]) = Reply(call[c])
    <3>1. call[c].state # "idle" /\ call[c].state \in Committed
      BY <2>1 DEF Committed
    <3>. QED BY <1>1, <3>1, SeenFields
  <2>4. Abstract!Resolve(c)
    BY <2>1, <2>2, <2>3, SameWrites DEF Abstract!Resolve, Abstract!Answer, AbsTable, AbsWrite, Seen
  <2>. QED BY <2>4
<1>. QED BY <1>2, <1>3, <1>4, <1>5, <1>6, <1>7 DEF Job

LEMMA EnqueueRefines ==
  ASSUME Durable, NEW c \in Callers, enqueue(c)
  PROVE  Abstract!Call(c) \/ Abstract!Reject(c)
<1>0. Inv /\ call[c].state = "idle" /\ call[c] \in Writes /\ AbsTable' = AbsTable /\ AbsWrite[c] = Seen(call[c])
  BY DEF Durable, enqueue, Inv, TypeOK, Writes, AbsTable, Table, mediumVars, AbsWrite
<1>1. AbsWrite[c].state = "idle"
  BY <1>0, SeenFields
<1>2. CASE lifecycle = "open"
  <2>1. PICK op \in Ops, k \in Keys, v \in Values :
          call' = [call EXCEPT ![c] = [state |-> "queued", op |-> op, key |-> k, value |-> v, reply |-> "none"]]
    BY <1>2 DEF enqueue
  <2>2. AbsWrite' = [AbsWrite EXCEPT ![c] =
                      Seen([state |-> "queued", op |-> op, key |-> k, value |-> v, reply |-> "none"])]
    BY <1>0, <2>1, AbsWriteAt
  <2>3. Seen([state |-> "queued", op |-> op, key |-> k, value |-> v, reply |-> "none"])
          = [state |-> "called", op |-> op, key |-> k, value |-> v, reply |-> "none"]
    BY DEF Seen, Committed
  <2>4. AbsWrite' = [AbsWrite EXCEPT ![c] =
                      [state |-> "called", op |-> op, key |-> k, value |-> v, reply |-> "none"]]
    BY <2>2, <2>3
  <2>5. \E o \in Ops, j \in Keys, n \in Values :
          AbsWrite' = [AbsWrite EXCEPT ![c] =
                        [state |-> "called", op |-> o, key |-> j, value |-> n, reply |-> "none"]]
    BY <2>4
  <2>6. Abstract!Call(c)
    BY <1>0, <1>1, <2>5, SameWrites DEF Abstract!Call, AbsTable, AbsWrite, Seen
  <2>. QED BY <2>6
<1>3. CASE lifecycle # "open"
  <2>1. call' = [call EXCEPT ![c].reply = "rejected"]
    BY <1>3 DEF enqueue
  <2>2. call' = [call EXCEPT ![c].state = "idle", ![c].reply = "rejected"]
    BY <1>0, <2>1 DEF Inv, TypeOK, Writes
  <2>3. AbsWrite' = [AbsWrite EXCEPT ![c].state = "idle", ![c].reply = "rejected"]
    BY <1>0, <2>2, Answers
  <2>4. Abstract!Reject(c)
    BY <1>0, <1>1, <2>3 DEF Abstract!Reject, Abstract!Answer, AbsTable, AbsWrite, Seen
  <2>. QED BY <2>4
<1>. QED BY <1>2, <1>3

(* A crash keeps what was committed, and may let the job that was past its   *)
(* rename land.                                                              *)
LEMMA CrashRefines ==
  ASSUME Durable, crash
  PROVE  Abstract!Crash
<1>0. Inv /\ Stored
  BY DEF Durable
<1>1. AbsWrite' = [c \in Callers |-> NoWrite]
  <2>1. Seen(NoWrite) = NoWrite
    BY DEF Seen, NoWrite
  <2>2. call' = [c \in Callers |-> NoWrite]
    BY DEF crash
  <2>3. AbsWrite' = [c \in Callers |-> Seen(call'[c])]
    BY DEF AbsWrite, Seen, Committed
  <2>. QED BY <2>1, <2>2, <2>3
<1>2. CASE AbsTable' = AbsTable
  BY <1>1, <1>2, SameWrites DEF Abstract!Crash, AbsTable, AbsWrite, Seen
<1>3. CASE AbsTable' # AbsTable
  <2>1. PowerLoss /\ ~PerRecord /\ files' = files /\ synced' = files
    <3>1. PowerLoss
      <4>1. CASE ~PowerLoss
        <5>1. files' = files
          BY <4>1 DEF crash
        <5>. QED BY <1>3, <4>1, <5>1 DEF AbsTable, Table
      <4>. QED BY <4>1
    <3>2. ~PerRecord
      BY <3>1 DEF Durable, PowerInv
    <3>3. files' \in {files, synced} /\ synced' = files'
      BY <3>1, <3>2 DEF crash
    <3>4. synced' # synced
      BY <1>3, <3>1 DEF AbsTable, Table
    <3>. QED BY <3>1, <3>2, <3>3, <3>4
  <2>2. PICK c \in Callers : call[c].state = "renamed"
    BY <1>3, <2>1 DEF Durable, PowerInv, Synced, AbsTable, Table
  <2>3. AbsTable = mem /\ AbsTable' = After(c)
    BY <1>0, <2>1, <2>2, AbsTableFacts DEF Stored, AbsTable, Table
  <2>4. Decided(c) /\ call[c] \in Writes /\ AbsWrite[c] = Seen(call[c])
    BY <1>0, <2>2 DEF Stored, InFlight, Inv, TypeOK, Writes, AbsWrite
  <2>5. call[c].state \notin Committed
    BY <2>1, <2>2 DEF Committed
  <2>6. /\ AbsWrite[c].state = "called" /\ AbsWrite[c].key = call[c].key
        /\ ~Vacuous(AbsWrite[c], AbsTable[AbsWrite[c].key])
        /\ Applied(AbsWrite[c], AbsTable[AbsWrite[c].key]) = next
    BY <2>2, <2>3, <2>4, <2>5, SeenFields DEF Decided
  <2>7. AbsTable' = [AbsTable EXCEPT ![AbsWrite[c].key] = Applied(AbsWrite[c], @)]
    BY <2>3, <2>6 DEF After
  <2>. QED BY <1>1, <2>6, <2>7, SameWrites DEF Abstract!Crash, AbsTable, AbsWrite, Seen
<1>. QED BY <1>2, <1>3

LEMMA StepRefines ==
  ASSUME ~DirSyncFails, Durable, [Next]_vars
  PROVE  Abstract!Next \/ AbsStutter
<1>0. Inv
  BY DEF Durable
<1>1. ASSUME NEW c \in Callers, enqueue(c) \/ Job(c) PROVE Abstract!Next \/ AbsStutter
  <2>1. CASE enqueue(c)
    BY <2>1, EnqueueRefines DEF Abstract!Next
  <2>2. CASE Job(c)
    BY <2>2, JobRefines DEF Abstract!Next
  <2>. QED BY <1>1, <2>1, <2>2
<1>2. CASE crash
  BY <1>2, CrashRefines DEF Abstract!Next
<1>3. ASSUME NEW k \in Keys, bootstrapRecord(k) PROVE Abstract!Next \/ AbsStutter
  <2>1. /\ files' = [files EXCEPT ![k] = Legacy[k]] /\ synced' = files' /\ files[k] = Absent
        /\ Legacy[k] \in Values /\ files \in [Keys -> Document] /\ call' = call /\ chain = << >>
    <3>1. /\ files' = [files EXCEPT ![k] = Legacy[k]] /\ synced' = files' /\ files[k] = Absent
          /\ Legacy[k] # Absent /\ call' = call /\ lifecycle = "bootstrap"
      BY <1>3 DEF bootstrapRecord
    <3>2. Legacy[k] \in Record
      BY LegacyAssumption
    <3>3. Legacy[k] \in Values
      BY <3>1, <3>2 DEF Record
    <3>. QED BY <1>0, <3>1, <3>3 DEF Inv, TypeOK, Chained, Serving
  <2>2. \A c \in Callers : call[c].state = "idle"
    BY <1>0, <2>1, QuietOutside
  <2>3. AbsTable = Table(files)
    BY <2>2 DEF Durable, PowerInv, Synced, AbsTable
  <2>4. AbsTable' = Table([files EXCEPT ![k] = Legacy[k]])
    BY <2>1 DEF AbsTable, Table
  <2>5. AbsTable' = [AbsTable EXCEPT ![k] = Legacy[k]]
    <3>1. Legacy[k] \in Record
      BY LegacyAssumption
    <3>2. Table([files EXCEPT ![k] = Legacy[k]]) = [Table(files) EXCEPT ![k] = Legacy[k]]
      BY <2>1, <3>1, TablePut
    <3>. QED BY <2>3, <2>4, <3>2
  <2>6. AbsTable[k] = Absent /\ AbsWrite' = AbsWrite
    BY <2>1, <2>3, ValueFacts DEF Table, AbsWrite, Seen, Committed
  <2>7. \A c \in Callers : AbsWrite[c].state = "idle"
    <3>1. \A c \in Callers : call[c] \in Writes /\ AbsWrite[c] = Seen(call[c])
      BY <1>0 DEF Inv, TypeOK, Writes, AbsWrite
    <3>. QED BY <2>2, <3>1, SeenFields
  <2>8. Abstract!Import(k)
    BY <2>1, <2>5, <2>6, <2>7, SameWrites DEF Abstract!Import, AbsTable, AbsWrite, Seen
  <2>. QED BY <2>8 DEF Abstract!Next
<1>4. ASSUME NEW k \in Keys, backupRecord(k) PROVE AbsStutter
  <2>1. /\ files' = [files EXCEPT ![k] = Absent] /\ files[k] = Invalid /\ files \in [Keys -> Document]
        /\ call' = call /\ ~PowerLoss
    BY <1>0, <1>4 DEF backupRecord, Inv, TypeOK, Durable, PowerInv
  <2>2. Table(files') = Table(files)
    BY <2>1, ForeignAssumption, ValueFacts DEF Table
  <2>. QED BY <2>1, <2>2 DEF AbsStutter, AbsTable, AbsWrite, Seen, Committed, Table
<1>5. CASE open \/ bootstrapBegins \/ loadAll \/ openReturns \/ openRejects \/ close \/ closeEnds \/ UNCHANGED vars
  <2>1. UNCHANGED <<files, synced, call>>
    BY <1>5 DEF open, bootstrapBegins, loadAll, openReturns, openRejects, close, closeEnds, vars, mediumVars
  <2>. QED BY <2>1 DEF AbsStutter, AbsTable, AbsWrite, Seen, Committed, Table
<1>. QED BY <1>1, <1>2, <1>3, <1>4, <1>5 DEF Next

(* When no directory sync fails and, where power may be lost, the domain is  *)
(* a single file: the write chain, the publish protocol, the bootstrap, the  *)
(* close and the crashes implement a table of atomic durable writes.  Each   *)
(* write commits at one instant on the value current at that instant.        *)
THEOREM DomainImplementsTable ==
  ASSUME ~DirSyncFails, PowerLoss => ~PerRecord
  PROVE  Spec => ImplementsDurableTable
<1>1. Init => Abstract!Init
  <2>. SUFFICES ASSUME Init PROVE Abstract!Init
    OBVIOUS
  <2>1. AbsTable \in [Keys -> Record]
    BY TableType DEF AbsTable
  <2>2. AbsWrite = [c \in Callers |-> NoWrite]
    BY DEF Init, AbsWrite, Seen, NoWrite
  <2>. QED BY <2>1, <2>2, SameWrites DEF Abstract!Init, AbsTable, AbsWrite, Seen
<1>2. Durable /\ [Next]_vars => [Abstract!Next]_<<AbsTable, AbsWrite>>
  BY StepRefines DEF AbsStutter
<1>. QED
  BY <1>1, <1>2, DurableInit, DurableNext, PTL
     DEF Spec, ImplementsDurableTable, Abstract!Spec, Abstract!vars, AbsTable, AbsWrite, Seen
=============================================================================
