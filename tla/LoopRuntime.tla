---------------------------- MODULE LoopRuntime ----------------------------
(***************************************************************************)
(* Ownership of loops inside one process (index.ts): which driver is live  *)
(* for which loop, who waits on it, and how the last waiter, a handoff and *)
(* the teardown release it.  One root session owns all loops; its callers  *)
(* are the tool calls and API requests that overlap at awaits.             *)
(*                                                                         *)
(* A driver is abstracted to what its handle shows (LoopDriver has the     *)
(* stage machine): it drives, may be asked to cancel, publishes a terminal *)
(* record and then settles, or its put is rejected, which settles it too   *)
(* and leaves the record open.                                             *)
(*                                                                         *)
(* A caller's call is suspended at:                                        *)
(*   "idle"       no call and no handle                                    *)
(*   "putting"    start() awaits the put of the new record                 *)
(*   "stored"     start() is about to go on after that put                 *)
(*   "releasing"  handoff() awaits releaseDriver of a settled predecessor  *)
(*   "released"   handoff() is about to go on after that release           *)
(*   "holding"    no call; the caller holds an open handle                 *)
(*   "disposing"  dispose() awaits releaseDriver                           *)
(***************************************************************************)
EXTENDS Integers, FiniteSets

CONSTANTS
  Callers, Objectives,
  NoCount,          \* waiters.get(...) is undefined
  MaxLoops,         \* bound: loop ids available to start()
  MaxDrivers,       \* bound: driver instances available to own()
  DirectStart       \* the host also calls start() itself, not only handoff()

ASSUME CallersAssumption == IsFiniteSet(Callers)
ASSUME ObjectivesAssumption == Objectives # {}
ASSUME NoCountAssumption == NoCount \notin Int
ASSUME BoundsAssumption == MaxLoops \in Nat /\ MaxDrivers \in Nat
ASSUME SwitchAssumption == DirectStart \in BOOLEAN

Loops == 1..MaxLoops          \* numbered in createdAt order
Drivers == 1..MaxDrivers      \* numbered in creation order
None == 0                     \* no loop, no driver, an absent map entry

VARIABLES
  stage,          \* stage[l]: "none", "open" (unsettled) or "terminal", in memory
  objective,      \* objective[l] of a stored record
  driver,         \* driver[d] = [loop, state]
  live,           \* loop -> its registered driver
  liveByOwner,    \* the owner's latest driver
  owners,         \* loops with an entry in the owners map
  waiters,        \* loop -> open handles, or NoCount
  call,           \* call[c] = [pc, objective, loop, driver]
  phase,          \* "up", "stopping", "draining", "closing", "closed"
  awaited         \* the drivers the teardown cancelled and waits for

tableVars == <<stage, objective>>
mapVars == <<live, liveByOwner, owners, waiters>>
stopVars == <<phase, awaited>>
vars == <<tableVars, driver, mapVars, call, stopVars>>

NoDriver == [loop |-> None, state |-> "unused"]
Idle == [pc |-> "idle", objective |-> CHOOSE o \in Objectives : TRUE,
         loop |-> None, driver |-> None]

TypeOK ==
  /\ stage \in [Loops -> {"none", "open", "terminal"}]
  /\ objective \in [Loops -> Objectives]
  /\ driver \in [Drivers -> [loop : Loops \cup {None},
                             state : {"unused", "driving", "cancelling", "finishing",
                                      "settled", "rejected"}]]
  /\ live \in [Loops -> Drivers \cup {None}]
  /\ liveByOwner \in Drivers \cup {None}
  /\ owners \subseteq Loops
  /\ waiters \in [Loops -> Int \cup {NoCount}]
  /\ call \in [Callers -> [pc : {"idle", "putting", "stored", "releasing", "released",
                                 "holding", "disposing"},
                           objective : Objectives, loop : Loops \cup {None},
                           driver : Drivers \cup {None}]]
  /\ phase \in {"up", "stopping", "draining", "closing", "closed"}
  /\ awaited \subseteq Drivers

Rejected(d) == driver[d].state = "rejected"
Settled(d) == driver[d].state = "settled" \/ Rejected(d)
Unsettled(d) == driver[d].state \in {"driving", "cancelling", "finishing"}

(* The process starts on whatever records earlier processes left. *)
Init ==
  /\ stage \in [Loops -> {"none", "open", "terminal"}]
  /\ \A l \in Loops : stage[l] = "none" => \A m \in Loops : m > l => stage[m] = "none"
  /\ DirectStart \/ Cardinality({l \in Loops : stage[l] = "open"}) <= 1
  /\ objective \in [Loops -> Objectives]
  /\ driver = [d \in Drivers |-> NoDriver]
  /\ live = [l \in Loops |-> None]
  /\ liveByOwner = None
  /\ owners = {}
  /\ waiters = [l \in Loops |-> NoCount]
  /\ call = [c \in Callers |-> Idle]
  /\ phase = "up"
  /\ awaited = {}

-----------------------------------------------------------------------------
(* Handles. *)

Count(l, absent) == IF waiters[l] = NoCount THEN absent ELSE waiters[l]

Hold(c, o, d, l) ==
  call' = [call EXCEPT ![c] = [pc |-> "holding", objective |-> o, loop |-> l, driver |-> d]]

Return(c) == call' = [call EXCEPT ![c] = Idle]

(* Wrong: an attached handle is not counted. *)
openHandleUncounted(c, o, d) ==
  /\ Hold(c, o, d, driver[d].loop)
  /\ UNCHANGED <<driver, mapVars>>

(* openHandle on a driver that is already registered. *)
openHandle(c, o, d) ==
  LET l == driver[d].loop IN
  /\ waiters' = [waiters EXCEPT ![l] = Count(l, 0) + 1]
  /\ Hold(c, o, d, l)
  /\ UNCHANGED <<driver, live, liveByOwner, owners>>

(* Wrong: a loop with a live driver is not refused. *)
ownUnguarded(c, o, l) ==
  \E d \in Drivers :
    /\ driver[d] = NoDriver /\ \A e \in 1..(d - 1) : driver[e] # NoDriver
    /\ driver' = [driver EXCEPT ![d] = [loop |-> l, state |-> "driving"]]
    /\ live' = [live EXCEPT ![l] = d]
    /\ owners' = owners \cup {l}
    /\ liveByOwner' = d
    /\ waiters' = [waiters EXCEPT ![l] = Count(l, 0) + 1]
    /\ Hold(c, o, d, l)

(* own: refuse a loop that has a live driver, else register a fresh one. *)
own(c, o, l) ==
  /\ live[l] = None
  /\ \E d \in Drivers :
       /\ driver[d] = NoDriver /\ \A e \in 1..(d - 1) : driver[e] # NoDriver
       /\ driver' = [driver EXCEPT ![d] = [loop |-> l, state |-> "driving"]]
       /\ live' = [live EXCEPT ![l] = d]
       /\ owners' = owners \cup {l}
       /\ liveByOwner' = d
       /\ waiters' = [waiters EXCEPT ![l] = Count(l, 0) + 1]
       /\ Hold(c, o, d, l)

(* The segment of releaseDriver after driver.dispose() resolved.  The slot  *)
(* of the loop is freed whichever driver holds it.                          *)
FreeSlot(d) ==
  LET l == driver[d].loop IN
  /\ live' = [live EXCEPT ![l] = None]
  /\ owners' = owners \ {l}
  /\ waiters' = [waiters EXCEPT ![l] = NoCount]
  /\ liveByOwner' = IF l \in owners /\ liveByOwner = d THEN None ELSE liveByOwner

(* driver.cancel(): no effect on a driver past its terminal record. *)
Cancelled(s) == IF s.state = "driving" THEN [s EXCEPT !.state = "cancelling"] ELSE s

-----------------------------------------------------------------------------
(* Calls. *)

unsettledOwned == {l \in Loops : stage[l] = "open"}
Newest(ls) == CHOOSE l \in ls : \A m \in ls : m <= l

(* start() up to its put, which takes until putReturns. *)
PutNewRecord(c, o) ==
  /\ phase \notin {"closing", "closed"}
  /\ \E l \in Loops :
       /\ stage[l] = "none" /\ \A c2 \in Callers : call[c2].loop # l
       /\ \A m \in 1..(l - 1) : stage[m] # "none" \/ \E c2 \in Callers : call[c2].loop = m
       /\ objective' = [objective EXCEPT ![l] = o]
       /\ call' = [call EXCEPT ![c] = [pc |-> "putting", objective |-> o,
                                       loop |-> l, driver |-> None]]
  /\ UNCHANGED <<stage, driver, mapVars>>

start(c, o) ==
  /\ DirectStart
  /\ call[c].pc = "idle"
  /\ PutNewRecord(c, o)
  /\ UNCHANGED stopVars

(* handoff() past the live driver: resume the newest unsettled record, or   *)
(* start a new loop.                                                        *)
Continue(c, o) ==
  \/ /\ unsettledOwned # {}
     /\ objective[Newest(unsettledOwned)] = o
     /\ own(c, o, Newest(unsettledOwned))
     /\ UNCHANGED tableVars
  \/ unsettledOwned = {} /\ PutNewRecord(c, o)

Refused(o) ==
  /\ unsettledOwned # {}
  /\ LET l == Newest(unsettledOwned) IN objective[l] # o \/ live[l] # None

(* handoff() with a live driver of this owner.  The same objective attaches *)
(* to it; a different one is refused while that loop is unsettled, and      *)
(* waits for the release of a settled one.  A refused call changes nothing. *)
handoff(c, o) ==
  /\ phase # "closed" /\ call[c].pc = "idle"
  /\ \/ liveByOwner = None /\ Continue(c, o)
     \/ /\ liveByOwner # None
        /\ LET d == liveByOwner
               l == driver[d].loop
           IN  \/ /\ objective[l] = o
                  /\ openHandle(c, o, d)
                  /\ UNCHANGED tableVars
               \/ /\ objective[l] # o /\ stage[l] = "terminal"
                  /\ call' = [call EXCEPT ![c] =
                       [pc |-> IF live[l] # None THEN "releasing" ELSE "released",
                        objective |-> o, loop |-> None, driver |-> d]]
                  /\ driver' = IF live[l] # None
                                 THEN [driver EXCEPT ![d] = Cancelled(@)] ELSE driver
                  /\ UNCHANGED <<tableVars, mapVars>>
  /\ UNCHANGED stopVars

proceed(c) ==
  /\ call[c].pc = "released"
  /\ \/ Continue(c, call[c].objective)
     \/ /\ Refused(call[c].objective) \/ phase \in {"closing", "closed"}
        /\ Return(c)
        /\ UNCHANGED <<tableVars, driver, mapVars>>
  /\ UNCHANGED stopVars

(* resume() called directly by the host. *)
resume(c, l) ==
  /\ phase # "closed" /\ call[c].pc = "idle"
  /\ stage[l] = "open"
  /\ own(c, objective[l], l)
  /\ UNCHANGED <<tableVars, stopVars>>

(* start()'s put is durable and in memory, where another call can see the   *)
(* record before start() goes on.                                           *)
putLands(c) ==
  /\ call[c].pc = "putting"
  /\ stage' = [stage EXCEPT ![call[c].loop] = "open"]
  /\ call' = [call EXCEPT ![c].pc = "stored"]
  /\ UNCHANGED <<objective, driver, mapVars, stopVars>>

(* The rest of start(): own() needs no open domain, and throws when a call   *)
(* that saw the record was faster.                                           *)
putReturns(c) ==
  /\ call[c].pc = "stored"
  /\ \/ own(c, call[c].objective, call[c].loop)
     \/ live[call[c].loop] # None /\ Return(c) /\ UNCHANGED <<driver, mapVars>>
  /\ UNCHANGED <<tableVars, stopVars>>

putRejects(c) ==
  /\ call[c].pc = "putting"
  /\ Return(c)
  /\ UNCHANGED <<tableVars, driver, mapVars, stopVars>>

-----------------------------------------------------------------------------
(* Handle methods. *)

cancel(c) ==
  /\ call[c].pc = "holding"
  /\ driver[call[c].driver].state = "driving"
  /\ driver' = [driver EXCEPT ![call[c].driver] = Cancelled(@)]
  /\ UNCHANGED <<tableVars, mapVars, call, stopVars>>

(* The last dispose releases the driver; releaseDriver returns at once when *)
(* the loop has no live entry.                                              *)
dispose(c) ==
  LET d == call[c].driver
      l == call[c].loop
      left == Count(l, 1) - 1
  IN  /\ call[c].pc = "holding"
      /\ waiters' = [waiters EXCEPT ![l] = left]
      /\ IF left <= 0 /\ live[l] # None
           THEN /\ driver' = [driver EXCEPT ![d] = Cancelled(@)]
                /\ call' = [call EXCEPT ![c].pc = "disposing"]
           ELSE Return(c) /\ UNCHANGED driver
      /\ UNCHANGED <<tableVars, live, liveByOwner, owners, stopVars>>

park(c) ==
  LET left == Count(call[c].loop, 1) - 1 IN
  /\ call[c].pc = "holding"
  /\ waiters' = [waiters EXCEPT ![call[c].loop] = IF left < 0 THEN 0 ELSE left]
  /\ Return(c)
  /\ UNCHANGED <<tableVars, driver, live, liveByOwner, owners, stopVars>>

releaseReturns(c) ==
  LET d == call[c].driver IN
  /\ call[c].pc = "disposing" /\ Settled(d)
  /\ FreeSlot(d)
  /\ Return(c)
  /\ UNCHANGED <<tableVars, driver, stopVars>>

handoffReleased(c) ==
  LET d == call[c].driver IN
  /\ call[c].pc = "releasing" /\ Settled(d)
  /\ FreeSlot(d)
  /\ call' = [call EXCEPT ![c].pc = "released"]
  /\ UNCHANGED <<tableVars, driver, stopVars>>

-----------------------------------------------------------------------------
(* Drivers and teardown. *)

(* The terminal record is durable and in memory.  That write takes longer   *)
(* than the turn of the event loop in which a start() goes on.              *)
driverWrites(d) ==
  /\ driver[d].state \in {"driving", "cancelling"}
  /\ phase # "closed"
  /\ \A c \in Callers : call[c].pc = "stored" => call[c].loop # driver[d].loop
  /\ driver' = [driver EXCEPT ![d].state = "finishing"]
  /\ stage' = [stage EXCEPT ![driver[d].loop] = "terminal"]
  /\ UNCHANGED <<objective, mapVars, call, stopVars>>

(* The result settles: resolved after the terminal record, or rejected with *)
(* its put, by the backend or because the domain is closing.                *)
driverSettles(d) ==
  /\ \/ driver[d].state = "finishing" /\ driver' = [driver EXCEPT ![d].state = "settled"]
     \/ /\ driver[d].state \in {"driving", "cancelling"}
        /\ driver' = [driver EXCEPT ![d].state = "rejected"]
  /\ UNCHANGED <<tableVars, mapVars, call, stopVars>>

(* Wrong: teardown waits for the drivers without cancelling them. *)
stopBeginsPatiently ==
  /\ phase = "up"
  /\ phase' = "stopping"
  /\ awaited' = {live[l] : l \in Loops} \ {None}
  /\ UNCHANGED <<tableVars, mapVars, call, driver>>

(* stopLiveLoops: cancel every registered driver and await them all. *)
stopBegins ==
  /\ phase = "up"
  /\ phase' = "stopping"
  /\ awaited' = {live[l] : l \in Loops} \ {None}
  /\ driver' = [d \in Drivers |-> IF d \in awaited' THEN Cancelled(driver[d]) ELSE driver[d]]
  /\ UNCHANGED <<tableVars, mapVars, call>>

stopEnds ==
  /\ phase = "stopping" /\ \A d \in awaited : Settled(d)
  /\ phase' = "draining"
  /\ live' = [l \in Loops |-> None]
  /\ liveByOwner' = None
  /\ owners' = {}
  /\ waiters' = [l \in Loops |-> NoCount]
  /\ UNCHANGED <<tableVars, driver, call, awaited>>

(* domain.close(): refuse new puts, drain the queued ones, then close. *)
closeBegins ==
  /\ phase = "draining"
  /\ phase' = "closing"
  /\ UNCHANGED <<tableVars, driver, mapVars, call, awaited>>

closeEnds ==
  /\ phase = "closing" /\ \A c \in Callers : call[c].pc # "putting"
  /\ phase' = "closed"
  /\ UNCHANGED <<tableVars, driver, mapVars, call, awaited>>

Teardown == stopBegins \/ stopEnds \/ closeBegins \/ closeEnds

Returns(c) ==
  putLands(c) \/ putReturns(c) \/ putRejects(c) \/ releaseReturns(c) \/ handoffReleased(c) \/ proceed(c)

Next ==
  \/ \E c \in Callers :
       \/ \E o \in Objectives : start(c, o) \/ handoff(c, o)
       \/ \E l \in Loops : resume(c, l)
       \/ cancel(c) \/ dispose(c) \/ park(c) \/ Returns(c)
  \/ \E d \in Drivers : driverWrites(d) \/ driverSettles(d)
  \/ Teardown

Spec == Init /\ [][Next]_vars

(* Pending calls go on, a cancelled driver settles (LoopDriver!CancelSettles) *)
(* and a teardown that began runs to its end.  Nobody has to dispose.         *)
Fairness ==
  /\ \A c \in Callers : WF_vars(Returns(c))
  /\ \A d \in Drivers :
       WF_vars((driverWrites(d) \/ driverSettles(d)) /\ driver[d].state # "driving")
  /\ WF_vars(stopEnds \/ closeBegins \/ closeEnds)

LiveSpec == Spec /\ Fairness

-----------------------------------------------------------------------------
(* One live driver owns one loop, and the runtime knows it: until teardown   *)
(* starts, a driver that has not settled is the registered driver of its     *)
(* loop, so no second resume can own the loop and a release reaches it.  It  *)
(* loses the slot before it settles only to the release of an earlier driver *)
(* of the same loop whose put was rejected, which left the record open for   *)
(* this one.  So while no put is rejected nothing takes the slot, and the    *)
(* first driver a process gives a loop always keeps it.                      *)
FirstDriverKeepsSlot ==
  phase = "up" => \A d \in Drivers : Unsettled(d) =>
    \/ live[driver[d].loop] = d
    \/ \E e \in Drivers : e < d /\ Rejected(e) /\ driver[e].loop = driver[d].loop

(* What the module comment promises (index.ts:8-9), with rejected puts too:  *)
(* no two live drivers own one loop.                                         *)
NeverTwoDrivers ==
  phase = "up" => \A d, e \in Drivers :
    Unsettled(d) /\ Unsettled(e) /\ driver[d].loop = driver[e].loop => d = e

(* The callers with an open handle on a loop. *)
Holders(l) == {c \in Callers : call[c].pc = "holding" /\ call[c].loop = l}

(* The waiter count of a registered loop is the number of open handles on    *)
(* it, so the driver is released by the last waiter and by no other.  A      *)
(* rejected driver may be succeeded while handles on it are open: they count *)
(* down the waiters of its successor, so from then on this is not claimed.   *)
WaitersAreHandles ==
  /\ TypeOK
  /\ phase = "up" /\ (\A d \in Drivers : ~Rejected(d)) =>
       \A l \in Loops : live[l] # None => waiters[l] = Cardinality(Holders(l))

(* handoff continues the owner's live or unsettled loop instead of starting  *)
(* another: an owner never has two unsettled loops.                          *)
OneUnsettledLoop == Cardinality(unsettledOwned) <= 1

(* What the package's README promises of the teardown: it awaits every live  *)
(* driver's quiescence before the domain closes, so that no terminal write   *)
(* lands on a closed medium.                                                 *)
QuietBeforeClose == phase = "closed" => \A d \in Drivers : ~Unsettled(d)

(* Disposing a handle ends, as the driver it waits for was cancelled, and a  *)
(* teardown that began closes the domain.                                    *)
TeardownEnds ==
  /\ \A c \in Callers : call[c].pc = "disposing" ~> call[c].pc # "disposing"
  /\ phase = "stopping" ~> phase = "closed"
=============================================================================
