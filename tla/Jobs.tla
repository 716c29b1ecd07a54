-------------------------------- MODULE Jobs --------------------------------
(***************************************************************************)
(* The process-local background-job registry (jobs-local/src/index.ts) with *)
(* its pull pump (pump.ts): jobs started by producers, killed, waited for,  *)
(* read and removed by controllers, and torn down with their owner agent or *)
(* with the registry.                                                      *)
(*                                                                         *)
(* Every method runs to its first await without interruption and is one     *)
(* action.  The awaits are the pump's sleep, the `done` promise of the      *)
(* producer and the teardown's wait for settlements.  A call that throws    *)
(* changes nothing and has no action.  Names, labels, progress lines,       *)
(* details and results are data no property tells apart; event listeners    *)
(* are external.  A job has at most one pull source and one waiter.         *)
(***************************************************************************)
EXTENDS OutputRing

CONSTANTS
  JobIds,                     \* the ids a run may use
  Owners,                     \* agents
  Unowned,                    \* the owner of a job without one
  Streaming,                  \* ids of the jobs with a pull source, output and a waiter
  Outcomes,                   \* the outcomes of producers
  MaxConcurrentJobsPerOwner,  \* maxConcurrentJobsPerOwner
  RetainBytes,                \* retainBytes
  SettledRetainBytes,         \* settledRetainBytes
  ChunkBytes,                 \* sizes of the chunks a producer writes
  MaxBytes,                   \* bound on the bytes one job produces
  MayStartFor                 \* job id -> the owners it may be started for

ASSUME JobsAssumption ==
  /\ Unowned \notin Owners /\ Streaming \subseteq JobIds
  /\ Outcomes \subseteq {"completed", "killed", "failed"} /\ Outcomes # {}
  /\ {MaxConcurrentJobsPerOwner, RetainBytes, SettledRetainBytes} \subseteq Nat \ {0}
  /\ MaxBytes \in Nat /\ ChunkBytes \subseteq Nat \ {0}
  /\ MayStartFor \in [JobIds -> SUBSET (Owners \union {Unowned})]

VARIABLES
  store,     \* ids in the registry's store
  job,       \* id -> its TrackedJob
  out,       \* id -> [ring, cursor, source]: source counts bytes not yet pumped
  owner,     \* agent -> "live", "unwinding" (its scope is disposing), "gone"
  cleanups,  \* ownerCleanups: agents with an attached scope cleanup
  sweeps,    \* teardowns awaiting settlements: [by, owner, jobs]
  service    \* "open", "sweeping" (disposeAll), "detaching" (owner cleanups), "closed"

vars == <<store, job, out, owner, cleanups, sweeps, service>>

Terminal == {"completed", "killed", "failed"}
Active == {"running", "stopping"}

NoJob == [status |-> "none", owner |-> Unowned, settleCause |-> "none", done |-> FALSE,
          pump |-> "off", waiting |-> FALSE]

Sweep(by, o, jobs) == [by |-> by, owner |-> o, jobs |-> jobs]

Live(j) == job[j].status \in Active
OwnedBy(o) == {j \in store : job[j].owner = o}

TypeOK ==
  /\ store \subseteq JobIds
  /\ job \in [JobIds -> [status : Terminal \union Active \union {"none"},
                         owner : Owners \union {Unowned},
                         settleCause : {"none", "kill", "teardown"},
                         done : BOOLEAN,
                         pump : {"off", "on", "failed", "drained", "joined"},
                         waiting : BOOLEAN]]
  /\ \A j \in JobIds : /\ out[j].ring \in Ring /\ out[j].source \in 0..MaxBytes
                       /\ out[j].cursor \in 0..out[j].ring.total
                       /\ Retained(out[j].ring) <= RetainBytes
                       /\ job[j].waiting => Live(j)
  /\ owner \in [Owners -> {"live", "unwinding", "gone"}]
  /\ cleanups \subseteq Owners
  /\ sweeps \subseteq [by : {"owner", "service"}, owner : Owners \union {Unowned}, jobs : SUBSET JobIds]
  /\ service \in {"open", "sweeping", "detaching", "closed"}

NoOutput == [ring |-> EmptyRing, cursor |-> 0, source |-> 0]

Init ==
  /\ store = {} /\ job = [j \in JobIds |-> NoJob]
  /\ out = [j \in JobIds |-> NoOutput]
  /\ owner = [o \in Owners |-> "live"]
  /\ cleanups = {} /\ sweeps = {} /\ service = "open"

-----------------------------------------------------------------------------
(* Wrong: settlement trims to the settled cap at once. *)
SettledRingsCapped(o) == Trimmed(o.ring, SettledRetainBytes)

(* The ring after settlement: trimmed, but never below the unread bytes. *)
SettledRings(o) ==
  LET unread == o.ring.total - o.cursor
  IN  Trimmed(o.ring, IF unread > SettledRetainBytes THEN unread ELSE SettledRetainBytes)

(* settle() of the record alone: the terminal status, and waiters released. *)
SettledRecord(r, status) == [r EXCEPT !.status = status, !.waiting = FALSE]

(* The cause a settlement announces. *)
SettledCause(r) == IF r.settleCause = "none" THEN "producer" ELSE r.settleCause

(* resolveOwner() and ensureOwnerCleanup(): a disposing scope rejects a new *)
(* effect, so the start throws unless the cleanup is attached already.      *)
MayOwn(o) == owner[o] = "live" \/ (owner[o] = "unwinding" /\ o \in cleanups)

(* start().  The starter may have staged b bytes; the pump's first drain    *)
(* finds the source still empty.                                            *)
Start(j, o, b) ==
  /\ job[j].status = "none" /\ (b > 0 => j \in Streaming)
  /\ o \in Owners => MayOwn(o)
  /\ Cardinality({k \in OwnedBy(o) : Live(k)}) < MaxConcurrentJobsPerOwner
  /\ cleanups' = cleanups \union ({o} \ {Unowned})
  /\ store' = store \union {j}
  /\ job' = [job EXCEPT ![j] = [NoJob EXCEPT !.status = "running", !.owner = o,
                                             !.pump = IF j \in Streaming THEN "on" ELSE "off"]]
  /\ \E ring \in Appended(EmptyRing, b, RetainBytes) : out' = [out EXCEPT ![j].ring = ring]
  /\ UNCHANGED <<owner, sweeps, service>>

(* A start() refused for the limit leaves the owner's cleanup attached. *)
StartRefused(o) ==
  /\ MayOwn(o) /\ o \notin cleanups
  /\ cleanups' = cleanups \union {o}
  /\ UNCHANGED <<store, job, out, owner, sweeps, service>>

-----------------------------------------------------------------------------
(* Producers, external: each writes until it reports an outcome. *)

Produced(j) == out[j].ring.total + out[j].source

(* The job's process writes b bytes to its pull source. *)
Produce(j, b) ==
  /\ job[j].pump = "on" /\ ~job[j].done /\ Produced(j) + b <= MaxBytes
  /\ out' = [out EXCEPT ![j].source = @ + b]
  /\ UNCHANGED <<store, job, owner, cleanups, sweeps, service>>

(* JobHandle.append(): dropped once the job is settled. *)
AppendRing(j, b) ==
  /\ j \in Streaming /\ Live(j) /\ ~job[j].done /\ Produced(j) + b <= MaxBytes
  /\ \E ring \in Appended(out[j].ring, b, RetainBytes) : out' = [out EXCEPT ![j].ring = ring]
  /\ UNCHANGED <<store, job, owner, cleanups, sweeps, service>>

(* The `done` promise settles; its outcome is chosen where it is read. *)
ProducerDone(j) ==
  /\ job[j].status # "none" /\ ~job[j].done
  /\ job' = [job EXCEPT ![j].done = TRUE]
  /\ UNCHANGED <<store, out, owner, cleanups, sweeps, service>>

-----------------------------------------------------------------------------
(* The pump *)

(* drain(): the source's bytes are read, and appended unless settled. *)
Drained(j) ==
  {[out[j] EXCEPT !.ring = ring, !.source = 0] :
     ring \in Appended(out[j].ring, IF Live(j) THEN out[j].source ELSE 0, RetainBytes)}

(* guardSource(): a source that throws reads as exhausted from then on; its *)
(* bytes are out of the registry's reach.                                   *)
SourceFails(j) ==
  /\ job[j].pump = "on"
  /\ job' = [job EXCEPT ![j].pump = "failed"]
  /\ out' = [out EXCEPT ![j].source = 0]
  /\ UNCHANGED <<store, owner, cleanups, sweeps, service>>

(* One poll of the sleep-drain loop. *)
PumpPoll(j) ==
  /\ job[j].pump = "on" /\ out[j].source > 0
  /\ \E o \in Drained(j) : out' = [out EXCEPT ![j] = o]
  /\ UNCHANGED <<store, job, owner, cleanups, sweeps, service>>

(* Wrong: the pump stops where its last poll left it. *)
FinalDrainSkipped(j) ==
  /\ job[j].pump \in {"on", "failed"}
  /\ job[j].done \/ job[j].status \in Terminal
  /\ job' = [job EXCEPT ![j].pump = "drained"]
  /\ UNCHANGED <<store, out, owner, cleanups, sweeps, service>>

(* The producer is done or the record settled: finish() wakes the loop, and *)
(* the sources are drained once more.                                       *)
FinalDrain(j) ==
  /\ job[j].pump \in {"on", "failed"}
  /\ job[j].done \/ job[j].status \in Terminal
  /\ job' = [job EXCEPT ![j].pump = "drained"]
  /\ \E o \in Drained(j) : out' = [out EXCEPT ![j] = o]
  /\ UNCHANGED <<store, owner, cleanups, sweeps, service>>

(* Wrong: a late producer outcome replaces a forced one. *)
ProducerSettlesLast(j, status) ==
  /\ job[j].done /\ job[j].pump \in {"off", "drained"}
  /\ job' = [job EXCEPT ![j] = [SettledRecord(@, status) EXCEPT !.pump = "joined"]]
  /\ \E ring \in SettledRings(out[j]) : out' = [out EXCEPT ![j].ring = ring]
  /\ UNCHANGED <<store, owner, cleanups, sweeps, service>>

(* The continuation of start(): the pump is done, settle() the job unless   *)
(* a teardown settled it first.  A rejected `done` counts as "failed".      *)
ProducerSettles(j, status) ==
  /\ job[j].done /\ job[j].pump \in {"off", "drained"}
  /\ IF Live(j)
     THEN /\ job' = [job EXCEPT ![j] = [SettledRecord(@, status) EXCEPT !.pump = "joined"]]
          /\ \E ring \in SettledRings(out[j]) : out' = [out EXCEPT ![j].ring = ring]
     ELSE job' = [job EXCEPT ![j].pump = "joined"] /\ UNCHANGED out
  /\ UNCHANGED <<store, owner, cleanups, sweeps, service>>

-----------------------------------------------------------------------------
(* Controllers *)

(* kill(): a cancel that throws leaves the record as it was. *)
Kill(j) ==
  /\ j \in store /\ Live(j)
  /\ job' = [job EXCEPT ![j].status = "stopping", ![j].settleCause = "kill"]
  /\ UNCHANGED <<store, out, owner, cleanups, sweeps, service>>

(* read(): consume up to the end; a terminal read trims to the settled cap. *)
Read(j) ==
  /\ j \in store
  /\ \E ring \in IF Live(j) THEN {out[j].ring} ELSE Trimmed(out[j].ring, SettledRetainBytes) :
       out' = [out EXCEPT ![j].ring = ring, ![j].cursor = ring.total]
  /\ UNCHANGED <<store, job, owner, cleanups, sweeps, service>>

(* wait() on a live job registers a resolver. *)
Wait(j) ==
  /\ j \in store \intersect Streaming /\ Live(j) /\ ~job[j].waiting
  /\ job' = [job EXCEPT ![j].waiting = TRUE]
  /\ UNCHANGED <<store, out, owner, cleanups, sweeps, service>>

(* The wait's deadline passes or its caller aborts. *)
WaitEnds(j) ==
  /\ job[j].waiting
  /\ job' = [job EXCEPT ![j].waiting = FALSE]
  /\ UNCHANGED <<store, out, owner, cleanups, sweeps, service>>

(* remove() of a settled job. *)
RemoveJob(j) ==
  /\ j \in store /\ ~Live(j)
  /\ store' = store \ {j}
  /\ UNCHANGED <<job, out, owner, cleanups, sweeps, service>>

-----------------------------------------------------------------------------
(* Teardown *)

(* Wrong: a throwing cancel leaves the record live. *)
CancelForTeardownUnforced(jobs, throws) ==
  /\ job' = [j \in JobIds |->
               IF j \notin jobs \/ ~Live(j) THEN job[j]
               ELSE IF j \in throws THEN [job[j] EXCEPT !.settleCause = "teardown"]
               ELSE [job[j] EXCEPT !.settleCause = "teardown", !.status = "stopping"]]
  /\ UNCHANGED out

(* cancelForTeardown(): every live job is asked to stop; where the cancel   *)
(* throws the record is force-failed at once.                               *)
CancelForTeardown(jobs, throws) ==
  LET live == {j \in jobs : Live(j)}
      forced == live \intersect throws
      cause(j) == [job[j] EXCEPT !.settleCause = "teardown"]
  IN  /\ job' = [j \in JobIds |-> IF j \notin live THEN job[j]
                                  ELSE IF j \in forced THEN SettledRecord(cause(j), "failed")
                                  ELSE [cause(j) EXCEPT !.status = "stopping"]]
      /\ \E rings \in [forced -> UNION {SettledRings(out[j]) : j \in forced}] :
           /\ \A j \in forced : rings[j] \in SettledRings(out[j])
           /\ out' = [j \in JobIds |-> IF j \in forced THEN [out[j] EXCEPT !.ring = rings[j]] ELSE out[j]]

(* The owner's scope starts to dispose: the agent is still registered. *)
OwnerUnwinds(o) ==
  /\ owner[o] = "live"
  /\ owner' = [owner EXCEPT ![o] = "unwinding"]
  /\ UNCHANGED <<store, job, out, cleanups, sweeps, service>>

(* The attached cleanup runs with the scope: disposeOwned() to its await. *)
Cleanup(o, throws) ==
  /\ owner[o] = "unwinding" /\ o \in cleanups
  /\ cleanups' = cleanups \ {o}
  /\ CancelForTeardown(OwnedBy(o), throws)
  /\ sweeps' = sweeps \union {Sweep("owner", o, OwnedBy(o))}
  /\ UNCHANGED <<store, owner, service>>

(* Wrong: the records are dropped before their jobs have settled. *)
SweepEndsAtOnce(s) ==
  /\ s \in sweeps /\ s.owner # Unowned
  /\ store' = store \ s.jobs
  /\ sweeps' = sweeps \ {s}
  /\ UNCHANGED <<job, out, owner, cleanups, service>>

(* disposeOwned() drops its jobs once all of them have settled. *)
SweepEnds(s) ==
  /\ s \in sweeps /\ s.owner # Unowned /\ \A j \in s.jobs : ~Live(j)
  /\ store' = store \ s.jobs
  /\ sweeps' = sweeps \ {s}
  /\ UNCHANGED <<job, out, owner, cleanups, service>>

(* The scope is disposed once every effect of it, cleanups included, is. *)
OwnerGone(o) ==
  /\ owner[o] = "unwinding" /\ o \notin cleanups
  /\ \A s \in sweeps : s.owner # o
  /\ owner' = [owner EXCEPT ![o] = "gone"]
  /\ UNCHANGED <<store, job, out, cleanups, sweeps, service>>

(* disposeAll() up to its first await. *)
DisposeAll(throws) ==
  /\ service = "open"
  /\ service' = "sweeping"
  /\ CancelForTeardown(store, throws)
  /\ sweeps' = sweeps \union {Sweep("service", Unowned, store)}
  /\ UNCHANGED <<store, owner, cleanups>>

(* disposeAll() once its jobs have settled: drop them, then run every       *)
(* owner's cleanup, jobs started meanwhile included.                        *)
DetachOwners(s, throws) ==
  /\ s \in sweeps /\ s.owner = Unowned /\ \A j \in s.jobs : ~Live(j)
  /\ store' = store \ s.jobs
  /\ cleanups' = {}
  /\ CancelForTeardown(UNION {OwnedBy(o) : o \in cleanups} \ s.jobs, throws)
  /\ sweeps' = (sweeps \ {s}) \union {Sweep("service", o, OwnedBy(o) \ s.jobs) : o \in cleanups}
  /\ service' = "detaching"
  /\ UNCHANGED owner

ServiceClosed ==
  /\ service = "detaching" /\ \A s \in sweeps : s.by # "service"
  /\ service' = "closed"
  /\ UNCHANGED <<store, job, out, owner, cleanups, sweeps>>

-----------------------------------------------------------------------------
Next ==
  \/ \E j \in JobIds :
       \/ \E o \in MayStartFor[j], b \in 0..1 : Start(j, o, b)
       \/ \E b \in ChunkBytes : Produce(j, b) \/ AppendRing(j, b)
       \/ ProducerDone(j) \/ SourceFails(j) \/ PumpPoll(j) \/ FinalDrain(j)
       \/ \E status \in Outcomes : ProducerSettles(j, status)
       \/ Kill(j) \/ Read(j) \/ Wait(j) \/ WaitEnds(j) \/ RemoveJob(j)
  \/ \E o \in Owners : StartRefused(o) \/ OwnerUnwinds(o) \/ OwnerGone(o)
  \/ \E o \in Owners, throws \in SUBSET JobIds : throws \subseteq OwnedBy(o) /\ Cleanup(o, throws)
  \/ \E s \in sweeps : SweepEnds(s)
  \/ \E throws \in SUBSET JobIds : throws \subseteq store /\ DisposeAll(throws)
  \/ \E s \in sweeps, throws \in SUBSET JobIds : throws \subseteq store /\ DetachOwners(s, throws)
  \/ ServiceClosed

Spec == Init /\ [][Next]_vars

(* Promise continuations run, a disposing scope runs its effects, and a     *)
(* producer whose cancel returned reports an outcome in the end (the code   *)
(* says of one that never does that teardown may stall on it).              *)
Fairness ==
  /\ \A j \in JobIds :
       WF_vars(\/ FinalDrain(j)
               \/ \E status \in Outcomes : ProducerSettles(j, status)
               \/ job[j].status = "stopping" /\ ProducerDone(j))
  /\ WF_vars(\/ \E o \in Owners : OwnerGone(o) \/ \E throws \in SUBSET OwnedBy(o) : Cleanup(o, throws)
             \/ \E s \in sweeps : SweepEnds(s) \/ \E throws \in SUBSET store : DetachOwners(s, throws)
             \/ ServiceClosed)

LiveSpec == Spec /\ Fairness

-----------------------------------------------------------------------------
(* A live job is in the store, and an owned record always has a keeper that *)
(* will tear it down: its owner's cleanup is attached, or a teardown of     *)
(* that owner that counted the job is under way.  start() racing a          *)
(* disposing scope, two teardowns at once and start() during disposeAll()   *)
(* leave no owned job that nobody cancels.                                  *)
OwnedJobHasKeeper ==
  /\ TypeOK
  /\ \A j \in JobIds :
       /\ Live(j) => j \in store
       /\ j \in store /\ job[j].owner # Unowned =>
            \/ job[j].owner \in cleanups
            \/ \E s \in sweeps : s.owner = job[j].owner /\ j \in s.jobs

(* A job that settles on its producer's outcome holds every byte its source *)
(* had: the pump's final drain comes before the settlement closes the ring. *)
OutputComplete ==
  [][\A j \in JobIds : Live(j) /\ ~Live(j)' /\ job'[j].pump = "joined" =>
       out[j].source = 0]_vars

(* The first terminal record stands: a producer that reports after its job  *)
(* was force-failed by a teardown, or a kill that comes too late, changes   *)
(* neither the status nor the cause.                                        *)
SettlesOnce ==
  [][\A j \in JobIds : job[j].status \in Terminal =>
       job'[j].status = job[j].status /\ SettledCause(job'[j]) = SettledCause(job[j])]_vars

(* Settlement evicts no byte the model has not read: the oldest byte kept   *)
(* moves at most up to the cursor.                                          *)
UnreadSurvives ==
  [][\A j \in JobIds : Live(j) /\ ~Live(j)' =>
       \/ Earliest(out'[j].ring) <= Earliest(out[j].ring)
       \/ Earliest(out'[j].ring) <= out[j].cursor]_vars

(* Teardown ends, with producers that obey or whose cancel throws: a        *)
(* disposing owner's scope is gone, and the registry closes.                *)
AgentTeardownEnds ==
  /\ \A o \in Owners : owner[o] = "unwinding" ~> owner[o] = "gone"
  /\ service = "sweeping" ~> service = "closed"

(* The registry's contract: a settlement of a job that is being torn down   *)
(* announces "teardown", as its reader is going away.                       *)
TeardownIsAnnounced ==
  [][\A s \in sweeps : \A j \in s.jobs :
       Live(j) /\ ~Live(j)' => SettledCause(job'[j]) = "teardown"]_vars
=============================================================================
