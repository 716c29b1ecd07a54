------------------------- MODULE LoopRuntimeProofs -------------------------
(***************************************************************************)
(* Proofs about LoopRuntime: while the process is up, a driver loses the    *)
(* slot of its loop before it settles only to the release of an earlier     *)
(* driver whose put was rejected; and as long as no put was rejected, the   *)
(* waiter count of a registered loop is the number of open handles on it.   *)
(***************************************************************************)
EXTENDS LoopRuntime, FiniteSetTheorems, WellFoundedInduction, TLAPS

Used(d) == driver[d].state # "unused"
Places == {"idle", "putting", "stored", "releasing", "released", "holding", "disposing"}

(* What calls, drivers and maps name exists, in every phase.  A loop whose   *)
(* record is being put has one starter and nothing else yet, and one whose   *)
(* starter has yet to go on is still open.                                   *)
Names ==
  /\ \A d \in Drivers : driver[d].state = "unused" <=> driver[d] = NoDriver
  /\ \A d \in Drivers : Used(d) => driver[d].loop \in Loops /\ stage[driver[d].loop] # "none"
  /\ \A c \in Callers : call[c].pc \in {"holding", "disposing"} =>
       call[c].driver \in Drivers /\ Used(call[c].driver) /\ driver[call[c].driver].loop = call[c].loop
  /\ \A c \in Callers : call[c].pc \in {"releasing", "released"} =>
       call[c].driver \in Drivers /\ Used(call[c].driver)
  /\ \A c \in Callers : call[c].pc = "putting" => call[c].loop \in Loops /\ stage[call[c].loop] = "none"
  /\ \A c \in Callers : call[c].pc = "stored" => call[c].loop \in Loops /\ stage[call[c].loop] = "open"
  /\ \A b, c \in Callers : call[b].pc = "putting" /\ call[c].pc = "putting" /\ call[b].loop = call[c].loop => b = c
  /\ \A l \in Loops : live[l] # None => Used(live[l]) /\ driver[live[l]].loop = l
  /\ liveByOwner # None => Used(liveByOwner)

(* While no put was rejected and until teardown starts, each loop has one    *)
(* driver at most, its state shows in the loop's record, and the maps agree  *)
(* on it.                                                                    *)
Owned ==
  /\ \A d, e \in Drivers : Used(d) /\ Used(e) /\ driver[d].loop = driver[e].loop => d = e
  /\ \A d \in Drivers : Used(d) =>
       (driver[d].state \in {"driving", "cancelling"} <=> stage[driver[d].loop] = "open")
  /\ \A d \in Drivers : Unsettled(d) => live[driver[d].loop] = d
  /\ \A l \in Loops : l \in owners <=> live[l] # None
  /\ liveByOwner # None => live[driver[liveByOwner].loop] = liveByOwner
  /\ \A l \in Loops : live[l] # None => waiters[l] = Cardinality(Holders(l))
  /\ \A l \in Loops : (\A d \in Drivers : Used(d) => driver[d].loop # l) => waiters[l] = NoCount

Calm == phase = "up" /\ \A d \in Drivers : ~Rejected(d)

Inv == TypeOK /\ Names /\ (Calm => Owned)

-----------------------------------------------------------------------------
LEMMA NoneIsNothing == None \notin Loops /\ None \notin Drivers
BY BoundsAssumption DEF None, Loops, Drivers

LEMMA IdleType ==
  Idle \in [pc : {"idle"}, objective : Objectives, loop : {None}, driver : {None}]
BY ObjectivesAssumption DEF Idle

LEMMA InvInit == Init => Inv
<1>. SUFFICES ASSUME Init PROVE Inv
  OBVIOUS
<1>1. \A d \in Drivers : driver[d] = NoDriver /\ ~Used(d) /\ ~Unsettled(d)
  BY DEF Init, NoDriver, Used, Unsettled
<1>2. \A c \in Callers : call[c] = Idle /\ call[c].pc = "idle"
  BY DEF Init, Idle
<1>3. TypeOK
  <2>1. call \in [Callers -> [pc : Places,
                           objective : Objectives, loop : Loops \cup {None}, driver : Drivers \cup {None}]]
    BY IdleType DEF Init, Places
  <2>. QED BY <2>1 DEF Init, TypeOK, NoDriver, Places
<1>4. Names
  BY <1>1, <1>2 DEF Init, Names, Used, NoDriver
<1>5. Owned
  BY <1>1, <1>2 DEF Init, Owned
<1>. QED BY <1>3, <1>4, <1>5 DEF Inv

-----------------------------------------------------------------------------
(* Open handles, counted. *)

LEMMA CallersCount ==
  ASSUME NEW S, S \subseteq Callers
  PROVE  IsFiniteSet(S) /\ Cardinality(S) \in Nat
BY CallersAssumption, FS_Subset, FS_CardinalityType

(* One caller more holds a loop, or one less. *)
LEMMA HoldersMove ==
  ASSUME NEW S, S \subseteq Callers, NEW c \in Callers
  PROVE  /\ c \notin S => Cardinality(S \cup {c}) = Cardinality(S) + 1
         /\ c \in S => Cardinality(S \ {c}) = Cardinality(S) - 1 /\ Cardinality(S) >= 1
<1>1. IsFiniteSet(S) /\ Cardinality(S) \in Nat /\ IsFiniteSet(S \ {c}) /\ Cardinality(S \ {c}) \in Nat
  BY CallersCount
<1>2. c \notin S => Cardinality(S \cup {c}) = Cardinality(S) + 1
  BY <1>1, FS_AddElement
<1>3. c \in S => Cardinality(S \ {c}) = Cardinality(S) - 1
  BY <1>1, FS_RemoveElement
<1>4. c \in S => Cardinality(S) >= 1
  BY <1>1, <1>3
<1>. QED BY <1>2, <1>3, <1>4

-----------------------------------------------------------------------------
(* Drivers that are asked to cancel, or not touched at all. *)

DriverType ==
  driver \in [Drivers -> [loop : Loops \cup {None},
                         state : {"unused", "driving", "cancelling", "finishing", "settled", "rejected"}]]

DriversKeep ==
  /\ DriverType'
  /\ \A d \in Drivers :
       /\ driver'[d].loop = driver[d].loop
       /\ Used(d)' <=> Used(d)
       /\ (driver'[d] = NoDriver <=> driver[d] = NoDriver)
       /\ driver'[d].state \in {"driving", "cancelling"} <=> driver[d].state \in {"driving", "cancelling"}
       /\ Unsettled(d)' => Unsettled(d)
       /\ Rejected(d)' <=> Rejected(d)

LEMMA CancelledState ==
  ASSUME TypeOK, NEW d \in Drivers
  PROVE  /\ Cancelled(driver[d]) \in [loop : Loops \cup {None},
                                     state : {"unused", "driving", "cancelling", "finishing", "settled", "rejected"}]
         /\ Cancelled(driver[d]).loop = driver[d].loop
         /\ Cancelled(driver[d]).state # "unused" <=> Used(d)
         /\ Cancelled(driver[d]) = NoDriver <=> driver[d] = NoDriver
         /\ Cancelled(driver[d]).state \in {"driving", "cancelling"}
              <=> driver[d].state \in {"driving", "cancelling"}
         /\ Cancelled(driver[d]).state \in {"driving", "cancelling", "finishing"} => Unsettled(d)
         /\ Cancelled(driver[d]).state = "rejected" <=> Rejected(d)
BY DEF Cancelled, TypeOK, Used, Unsettled, Rejected, NoDriver

LEMMA CancelKeeps ==
  ASSUME TypeOK, NEW D,
         driver' = [d \in Drivers |-> IF d \in D THEN Cancelled(driver[d]) ELSE driver[d]]
  PROVE  DriversKeep
<1>1. DriverType'
  BY CancelledState DEF TypeOK, DriverType
<1>2. ASSUME NEW d \in Drivers
      PROVE  /\ driver'[d].loop = driver[d].loop
             /\ driver'[d].state # "unused" <=> Used(d)
             /\ (driver'[d] = NoDriver <=> driver[d] = NoDriver)
             /\ driver'[d].state \in {"driving", "cancelling"} <=> driver[d].state \in {"driving", "cancelling"}
             /\ driver'[d].state \in {"driving", "cancelling", "finishing"} => Unsettled(d)
             /\ driver'[d].state = "rejected" <=> Rejected(d)
  <2>1. CASE d \in D
    <3>1. driver'[d] = Cancelled(driver[d])
      BY <2>1
    <3>. QED BY <3>1, CancelledState
  <2>2. CASE d \notin D
    BY <2>2 DEF Used, Unsettled, Rejected
  <2>. QED BY <2>1, <2>2
<1>. QED BY <1>1, <1>2 DEF DriversKeep, Used, Unsettled, Rejected

LEMMA SameKeeps == ASSUME TypeOK, driver' = driver PROVE DriversKeep
BY DEF TypeOK, DriversKeep, DriverType, Used, Unsettled, Rejected

LEMMA CancelOneKeeps ==
  ASSUME TypeOK, NEW d \in Drivers, driver' = [driver EXCEPT ![d] = Cancelled(@)]
  PROVE  DriversKeep
<1>1. driver' = [e \in Drivers |-> IF e \in {d} THEN Cancelled(driver[e]) ELSE driver[e]]
  BY DEF TypeOK
<1>. QED BY <1>1, CancelKeeps

(* Steps of a call that change no map. *)

(* The maps still agree on drivers that only kept what they had. *)
LEMMA OwnedKeeps ==
  ASSUME TypeOK, Owned, DriversKeep, UNCHANGED <<stage, live, liveByOwner, owners>>,
         \A l \in Loops : live[l] # None => waiters'[l] = Cardinality(Holders(l)'),
         \A l \in Loops : (\A d \in Drivers : Used(d) => driver[d].loop # l) => waiters'[l] = NoCount
  PROVE  Owned'
<1>. USE DEF Owned, DriversKeep
<1>1. \A d, e \in Drivers : Used(d)' /\ Used(e)' /\ driver'[d].loop = driver'[e].loop => d = e
  OBVIOUS
<1>2. \A d \in Drivers : Used(d)' =>
        (driver'[d].state \in {"driving", "cancelling"} <=> stage'[driver'[d].loop] = "open")
  OBVIOUS
<1>3. \A d \in Drivers : Unsettled(d)' => live'[driver'[d].loop] = d
  OBVIOUS
<1>4. liveByOwner' # None => live'[driver'[liveByOwner'].loop] = liveByOwner'
  BY DEF TypeOK
<1>5. \A l \in Loops : (\A d \in Drivers : Used(d)' => driver'[d].loop # l) => waiters'[l] = NoCount
  OBVIOUS
<1>. QED BY <1>1, <1>2, <1>3, <1>4, <1>5

(* The call takes a place where it holds nothing, before and after. *)
LEMMA CallMoves ==
  ASSUME Inv, DriversKeep, UNCHANGED <<stage, mapVars, phase, awaited>>, objective' \in [Loops -> Objectives],
         NEW c \in Callers, NEW r \in [pc : {"idle", "putting", "releasing", "released"},
                           objective : Objectives, loop : Loops \cup {None}, driver : Drivers \cup {None}],
         call[c].pc # "holding", call' = [call EXCEPT ![c] = r],
         r.pc \in {"releasing", "released"} => r.driver \in Drivers /\ Used(r.driver),
         r.pc = "putting" => /\ r.loop \in Loops /\ stage[r.loop] = "none"
                             /\ \A b \in Callers : call[b].loop # r.loop
  PROVE  Inv'
<1>1. TypeOK'
  <2>1. r \in [pc : Places,
              objective : Objectives, loop : Loops \cup {None}, driver : Drivers \cup {None}]
    BY DEF Places
  <2>. QED BY <2>1 DEF Inv, TypeOK, mapVars, DriversKeep, DriverType, Places
<1>2. \A b \in Callers : call'[b] = IF b = c THEN r ELSE call[b]
  BY DEF Inv, TypeOK
<1>3. Names'
  <2>. USE DEF Names, Inv, mapVars
  <2>d. \A d \in Drivers : /\ driver'[d].loop = driver[d].loop /\ (driver'[d].state # "unused" <=> Used(d))
                           /\ (driver'[d] = NoDriver <=> driver[d] = NoDriver)
    BY DEF DriversKeep, Used
  <2>1. \A b \in Callers : call'[b].pc \in {"holding", "disposing"} =>
          call'[b].driver \in Drivers /\ driver'[call'[b].driver].state # "unused" /\ driver'[call'[b].driver].loop = call'[b].loop
    BY <1>2, <2>d
  <2>2. \A b \in Callers : call'[b].pc \in {"releasing", "released"} =>
          call'[b].driver \in Drivers /\ driver'[call'[b].driver].state # "unused"
    BY <1>2, <2>d
  <2>3. \A b \in Callers : call'[b].pc = "putting" => call'[b].loop \in Loops /\ stage[call'[b].loop] = "none"
    BY <1>2
  <2>4. \A a, b \in Callers : call'[a].pc = "putting" /\ call'[b].pc = "putting"
                           /\ call'[a].loop = call'[b].loop => a = b
    BY <1>2
  <2>5. \A d \in Drivers : /\ driver'[d].state = "unused" <=> driver'[d] = NoDriver
                           /\ driver'[d].state # "unused" => driver'[d].loop \in Loops /\ stage[driver'[d].loop] # "none"
    BY <2>d DEF Used
  <2>6. \A l \in Loops : live[l] # None => driver'[live[l]].state # "unused" /\ driver'[live[l]].loop = l
    BY <2>d DEF TypeOK
  <2>7. liveByOwner # None => driver'[liveByOwner].state # "unused"
    BY <2>d DEF TypeOK
  <2>8. \A b \in Callers : call'[b].pc = "stored" => call'[b].loop \in Loops /\ stage[call'[b].loop] = "open"
    BY <1>2
  <2>. QED BY <2>1, <2>2, <2>3, <2>4, <2>5, <2>6, <2>7, <2>8 DEF Used
<1>4. \A l \in Loops : Holders(l)' = Holders(l)
  BY <1>2 DEF Holders
<1>5. ASSUME Calm' PROVE Owned'
  <2>1. TypeOK /\ Owned /\ UNCHANGED <<stage, live, liveByOwner, owners>> /\ waiters' = waiters
    BY <1>5 DEF Inv, Calm, DriversKeep, mapVars
  <2>2. \A l \in Loops : live[l] # None => waiters'[l] = Cardinality(Holders(l)')
    BY <1>4, <2>1 DEF Owned
  <2>3. \A l \in Loops : (\A d \in Drivers : Used(d) => driver[d].loop # l) => waiters'[l] = NoCount
    BY <2>1 DEF Owned
  <2>. QED BY <2>1, <2>2, <2>3, OwnedKeeps
<1>. QED BY <1>1, <1>3, <1>5 DEF Inv

-----------------------------------------------------------------------------
(* A new driver is registered for a loop without one. *)
LEMMA OwnMoves ==
  ASSUME Inv, NEW c \in Callers, NEW o \in Objectives, NEW l \in Loops, own(c, o, l),
         UNCHANGED <<stage, objective, phase, awaited>>,
         stage[l] = "open", call[c].pc \in {"idle", "stored", "released"}
  PROVE  Inv'
<1>1. PICK d \in Drivers :
       /\ driver[d] = NoDriver
       /\ driver' = [driver EXCEPT ![d] = [loop |-> l, state |-> "driving"]]
       /\ live' = [live EXCEPT ![l] = d]
       /\ owners' = owners \cup {l}
       /\ liveByOwner' = d
       /\ waiters' = [waiters EXCEPT ![l] = Count(l, 0) + 1]
       /\ call' = [call EXCEPT ![c] = [pc |-> "holding", objective |-> o, loop |-> l, driver |-> d]]
  BY DEF own, Hold
<1>2. /\ live[l] = None /\ ~Used(d) /\ d # None
      /\ \A m \in Loops : stage'[m] = IF m = l THEN "open" ELSE stage[m]
      /\ stage' \in [Loops -> {"none", "open", "terminal"}]
  BY <1>1, NoneIsNothing DEF own, Inv, TypeOK, NoDriver, Used
<1>3. /\ \A e \in Drivers : driver'[e] = IF e = d THEN [loop |-> l, state |-> "driving"] ELSE driver[e]
      /\ \A b \in Callers : call'[b] = IF b = c THEN [pc |-> "holding", objective |-> o, loop |-> l, driver |-> d]
                                      ELSE call[b]
      /\ \A m \in Loops : live'[m] = IF m = l THEN d ELSE live[m]
  BY <1>1 DEF Inv, TypeOK
<1>4. TypeOK'
  <2>1. Count(l, 0) + 1 \in Int
    BY DEF Count, Inv, TypeOK
  <2>2. driver' \in [Drivers -> [loop : Loops \cup {None},
                                state : {"unused", "driving", "cancelling", "finishing", "settled", "rejected"}]]
    BY <1>1 DEF Inv, TypeOK
  <2>3. call' \in [Callers -> [pc : Places,
                           objective : Objectives, loop : Loops \cup {None}, driver : Drivers \cup {None}]]
    BY <1>1 DEF Inv, TypeOK, Places
  <2>. QED BY <1>1, <1>2, <2>1, <2>2, <2>3 DEF Inv, TypeOK, Places
<1>5. \A e \in Drivers : Used(e)' <=> Used(e) \/ e = d
  BY <1>2, <1>3 DEF Used
<1>6. ASSUME NEW e \in Drivers, Used(e) PROVE e # d /\ driver'[e] = driver[e] /\ Used(e)'
  BY <1>2, <1>3, <1>5, <1>6
<1>7. Names'
  <2>. USE DEF Names, Inv
  <2>1. \A e \in Drivers : driver'[e].state = "unused" <=> driver'[e] = NoDriver
    BY <1>3 DEF NoDriver
  <2>2. \A e \in Drivers : Used(e)' => driver'[e].loop \in Loops /\ stage'[driver'[e].loop] # "none"
    BY <1>2, <1>3, <1>5, <1>6
  <2>3. \A b \in Callers : call'[b].pc \in {"holding", "disposing"} =>
          call'[b].driver \in Drivers /\ driver'[call'[b].driver].state # "unused" /\ driver'[call'[b].driver].loop = call'[b].loop
    BY <1>3, <1>6 DEF Used
  <2>4. \A b \in Callers : call'[b].pc \in {"releasing", "released"} =>
          call'[b].driver \in Drivers /\ driver'[call'[b].driver].state # "unused"
    BY <1>3, <1>6 DEF Used
  <2>5. \A b \in Callers : call'[b].pc = "putting" =>
          b # c /\ call'[b] = call[b] /\ call[b].loop \in Loops /\ stage[call[b].loop] = "none"
    BY <1>3
  <2>6. ASSUME NEW b \in Callers, call'[b].pc = "putting" PROVE call'[b].loop \in Loops /\ stage'[call'[b].loop] = "none"
    BY <1>2, <2>5, <2>6
  <2>7. \A a, b \in Callers : call'[a].pc = "putting" /\ call'[b].pc = "putting"
                           /\ call'[a].loop = call'[b].loop => a = b
    BY <2>5
  <2>10. \A b \in Callers : call'[b].pc = "stored" => call'[b].loop \in Loops /\ stage'[call'[b].loop] = "open"
    BY <1>3
  <2>8. \A m \in Loops : live'[m] # None => driver'[live'[m]].state # "unused" /\ driver'[live'[m]].loop = m
    <3>1. \A m \in Loops : live[m] \in Drivers \cup {None}
      BY DEF TypeOK
    <3>. QED BY <1>3, <1>6, <3>1 DEF Used
  <2>9. driver'[liveByOwner'].state # "unused"
    BY <1>1, <1>3
  <2>. QED BY <2>1, <2>2, <2>3, <2>4, <2>6, <2>7, <2>8, <2>9, <2>10 DEF Used
<1>8. ASSUME Calm' PROVE Owned'
  <2>0. Owned /\ Names /\ TypeOK
    BY <1>3, <1>6, <1>8 DEF Inv, Calm, Rejected, Used
  <2>1. \A e \in Drivers : Used(e) => driver[e].loop # l
    <3>. SUFFICES ASSUME NEW e \in Drivers, Used(e), driver[e].loop = l PROVE FALSE
      OBVIOUS
    <3>. QED BY <1>2, <2>0, NoneIsNothing DEF Owned, Unsettled
  <2>2. \A e, f \in Drivers : Used(e)' /\ Used(f)' /\ driver'[e].loop = driver'[f].loop => e = f
    BY <1>3, <1>5, <2>0, <2>1 DEF Owned
  <2>3. \A e \in Drivers : Used(e)' =>
          (driver'[e].state \in {"driving", "cancelling"} <=> stage'[driver'[e].loop] = "open")
    BY <1>2, <1>3, <1>5, <2>0, <2>1 DEF Owned, Names
  <2>4. \A e \in Drivers : Unsettled(e)' => live'[driver'[e].loop] = e
    <3>. SUFFICES ASSUME NEW e \in Drivers, Unsettled(e)' PROVE live'[driver'[e].loop] = e
      OBVIOUS
    <3>1. CASE e = d
      BY <1>3, <3>1
    <3>2. CASE e # d
      <4>1. driver'[e] = driver[e] /\ Unsettled(e) /\ Used(e)
        BY <1>3, <3>2 DEF Unsettled, Used
      <4>. QED BY <1>3, <2>0, <2>1, <4>1 DEF Owned, Names
    <3>. QED BY <3>1, <3>2
  <2>5. \A m \in Loops : m \in owners' <=> live'[m] # None
    BY <1>1, <1>2, <1>3, <2>0 DEF Owned
  <2>6. live'[driver'[liveByOwner'].loop] = liveByOwner'
    BY <1>1, <1>3
  <2>7. Holders(l) = {} /\ Holders(l)' = {c} /\ \A m \in Loops \ {l} : Holders(m)' = Holders(m)
    <3>1. \A b \in Callers : call[b].pc = "holding" => call[b].loop # l
      BY <2>0, <2>1 DEF Names
    <3>2. call[c].pc # "holding"
      OBVIOUS
    <3>. QED BY <1>3, <3>1, <3>2 DEF Holders
  <2>8. waiters'[l] = 1 /\ \A m \in Loops \ {l} : waiters'[m] = waiters[m]
    <3>1. waiters[l] = NoCount
      BY <2>0, <2>1 DEF Owned
    <3>. QED BY <1>1, <2>0, <3>1 DEF Count, TypeOK
  <2>9. \A m \in Loops : live'[m] # None => waiters'[m] = Cardinality(Holders(m)')
    <3>1. Cardinality({c}) = 1
      BY FS_Singleton
    <3>2. Cardinality(Holders(l)') = 1
      BY <2>7, <3>1
    <3>3. \A m \in Loops \ {l} : live'[m] # None => waiters'[m] = Cardinality(Holders(m)')
      BY <1>3, <2>0, <2>7, <2>8 DEF Owned
    <3>. QED BY <2>8, <3>2, <3>3
  <2>10. \A m \in Loops : (\A e \in Drivers : Used(e)' => driver'[e].loop # m) => waiters'[m] = NoCount
    <3>. SUFFICES ASSUME NEW m \in Loops, \A e \in Drivers : Used(e)' => driver'[e].loop # m
                  PROVE  waiters'[m] = NoCount
      OBVIOUS
    <3>1. m # l
      BY <1>3, <1>5
    <3>2. \A e \in Drivers : Used(e) => driver[e].loop # m
      BY <1>6
    <3>. QED BY <2>0, <2>8, <3>1, <3>2 DEF Owned
  <2>. QED BY <2>2, <2>3, <2>4, <2>5, <2>6, <2>9, <2>10 DEF Owned
<1>. QED BY <1>4, <1>7, <1>8 DEF Inv

-----------------------------------------------------------------------------
(* Drivers move on, and calls with them that hold nothing new. *)

Phases == {"up", "stopping", "draining", "closing", "closed"}

LEMMA DriversMove ==
  ASSUME Inv, UNCHANGED <<objective, mapVars, call>>, phase' \in Phases, awaited' \subseteq Drivers,
         driver' \in [Drivers -> [loop : Loops \cup {None},
                                 state : {"unused", "driving", "cancelling", "finishing", "settled", "rejected"}]],
         \A d \in Drivers : driver'[d] = driver[d] \/
           (Used(d) /\ driver'[d].loop = driver[d].loop /\ driver'[d].state # "unused"),
         stage' \in [Loops -> {"none", "open", "terminal"}],
         \A l \in Loops : stage'[l] = "none" <=> stage[l] = "none",
         \A b \in Callers : call[b].pc = "stored" => stage'[call[b].loop] = "open",
         Calm' => /\ Calm
                  /\ \A d \in Drivers : Used(d) =>
                       (driver'[d].state \in {"driving", "cancelling"} <=> stage'[driver[d].loop] = "open")
                  /\ \A d \in Drivers : Unsettled(d)' => Unsettled(d)
  PROVE  Inv'
<1>1. TypeOK'
  BY DEF Inv, TypeOK, mapVars, Phases
<1>2. \A d \in Drivers : /\ Used(d)' <=> Used(d)
                         /\ driver'[d].loop = driver[d].loop
                         /\ (driver'[d].state # "unused" <=> Used(d))
  BY DEF Used
<1>3. Names'
  <2>. USE DEF Names, Inv
  <2>1. \A d \in Drivers : driver'[d].state = "unused" <=> driver'[d] = NoDriver
    BY DEF NoDriver
  <2>2. \A d \in Drivers : Used(d)' => driver'[d].loop \in Loops /\ stage'[driver'[d].loop] # "none"
    BY <1>2
  <2>3. \A b \in Callers : call'[b].pc \in {"holding", "disposing"} =>
          call'[b].driver \in Drivers /\ driver'[call'[b].driver].state # "unused"
                                  /\ driver'[call'[b].driver].loop = call'[b].loop
    BY <1>2
  <2>4. \A b \in Callers : call'[b].pc \in {"releasing", "released"} =>
          call'[b].driver \in Drivers /\ driver'[call'[b].driver].state # "unused"
    BY <1>2
  <2>5. \A b \in Callers : call'[b].pc = "putting" => call'[b].loop \in Loops /\ stage'[call'[b].loop] = "none"
    OBVIOUS
  <2>8. \A b \in Callers : call'[b].pc = "stored" => call'[b].loop \in Loops /\ stage'[call'[b].loop] = "open"
    OBVIOUS
  <2>6. \A l \in Loops : live'[l] # None => driver'[live'[l]].state # "unused" /\ driver'[live'[l]].loop = l
    BY <1>2 DEF mapVars, TypeOK
  <2>7. liveByOwner' # None => driver'[liveByOwner'].state # "unused"
    BY <1>2 DEF mapVars, TypeOK
  <2>. QED BY <2>1, <2>2, <2>3, <2>4, <2>5, <2>6, <2>7, <2>8 DEF Used
<1>4. ASSUME Calm' PROVE Owned'
  <2>. USE <1>4 DEF Inv, Owned, mapVars
  <2>1. \A d, e \in Drivers : Used(d)' /\ Used(e)' /\ driver'[d].loop = driver'[e].loop => d = e
    BY <1>2
  <2>2. \A d \in Drivers : Used(d)' =>
          (driver'[d].state \in {"driving", "cancelling"} <=> stage'[driver'[d].loop] = "open")
    BY <1>2
  <2>3. \A d \in Drivers : Unsettled(d)' => live'[driver'[d].loop] = d
    BY <1>2
  <2>4. liveByOwner' # None => live'[driver'[liveByOwner'].loop] = liveByOwner'
    BY <1>2 DEF TypeOK
  <2>5. \A l \in Loops : live'[l] # None => waiters'[l] = Cardinality(Holders(l)')
    BY DEF Holders
  <2>6. \A l \in Loops : (\A d \in Drivers : Used(d)' => driver'[d].loop # l) => waiters'[l] = NoCount
    BY <1>2
  <2>. QED BY <2>1, <2>2, <2>3, <2>4, <2>5, <2>6
<1>. QED BY <1>1, <1>3, <1>4 DEF Inv

(* Drivers are asked to cancel, and nothing else. *)
LEMMA CancelMoves ==
  ASSUME Inv, DriversKeep, UNCHANGED <<tableVars, mapVars, call>>, phase' \in Phases, awaited' \subseteq Drivers,
         phase' = "up" => phase = "up"
  PROVE  Inv'
<1>1. TypeOK
  BY DEF Inv
<1>2. /\ DriverType'
      /\ \A d \in Drivers : driver'[d] = driver[d] \/
           (Used(d) /\ driver'[d].loop = driver[d].loop /\ driver'[d].state # "unused")
  BY DEF DriversKeep, Used, Inv, Names
<1>3. Calm' => /\ Calm
               /\ \A d \in Drivers : Used(d) =>
                    (driver'[d].state \in {"driving", "cancelling"} <=> stage'[driver[d].loop] = "open")
               /\ \A d \in Drivers : Unsettled(d)' => Unsettled(d)
  BY DEF Inv, Owned, tableVars, DriversKeep, Calm
<1>4. stage' = stage /\ stage \in [Loops -> {"none", "open", "terminal"}] /\ objective' = objective
  BY <1>1 DEF tableVars, TypeOK
<1>5. \A b \in Callers : call[b].pc = "stored" => stage'[call[b].loop] = "open"
  BY <1>4 DEF Inv, Names
<1>. QED BY <1>2, <1>3, <1>4, <1>5, DriversMove DEF DriverType

LEMMA DriverSteps ==
  ASSUME Inv, NEW d \in Drivers, driverWrites(d) \/ driverSettles(d)
  PROVE  Inv'
<1>0. TypeOK /\ Names /\ (Calm => Owned) /\ d # None
  BY NoneIsNothing DEF Inv
<1>1. /\ UNCHANGED <<objective, mapVars, call, phase, awaited>> /\ phase \in Phases /\ awaited \subseteq Drivers
      /\ Unsettled(d) /\ Used(d) /\ driver[d].loop \in Loops
  BY <1>0 DEF driverWrites, driverSettles, stopVars, tableVars, Unsettled, Used, TypeOK, Phases, Names
<1>2. CASE driverWrites(d)
  <2>1. /\ driver' = [driver EXCEPT ![d].state = "finishing"]
        /\ stage' = [stage EXCEPT ![driver[d].loop] = "terminal"]
    BY <1>2 DEF driverWrites
  <2>2. driver' \in [Drivers -> [loop : Loops \cup {None},
                                state : {"unused", "driving", "cancelling", "finishing", "settled", "rejected"}]]
    BY <1>0, <2>1 DEF TypeOK
  <2>3. \A e \in Drivers : IF e = d THEN driver'[e].loop = driver[e].loop /\ driver'[e].state = "finishing"
                         ELSE driver'[e] = driver[e]
    BY <1>0, <2>1 DEF TypeOK
  <2>4. /\ stage' \in [Loops -> {"none", "open", "terminal"}]
        /\ \A l \in Loops : stage'[l] = IF l = driver[d].loop THEN "terminal" ELSE stage[l]
    BY <1>0, <2>1 DEF TypeOK
  <2>5. stage[driver[d].loop] # "none"
    BY <1>0, <1>1 DEF Names
  <2>6. ASSUME Calm, NEW e \in Drivers, Used(e)
        PROVE  driver'[e].state \in {"driving", "cancelling"} <=> stage'[driver[e].loop] = "open"
    BY <1>0, <1>1, <2>3, <2>4, <2>6 DEF Owned, Names
  <2>7. \A e \in Drivers : Unsettled(e)' => Unsettled(e)
    BY <1>1, <2>3 DEF Unsettled
  <2>8. \A e \in Drivers : driver'[e] = driver[e] \/
           (Used(e) /\ driver'[e].loop = driver[e].loop /\ driver'[e].state # "unused")
    BY <1>1, <2>3
  <2>9. \A l \in Loops : stage'[l] = "none" <=> stage[l] = "none"
    BY <2>4, <2>5
  <2>10. \A b \in Callers : call[b].pc = "stored" => stage'[call[b].loop] = "open"
    BY <1>0, <1>2, <2>4 DEF driverWrites, Names
  <2>11. Calm' => Calm
    BY <1>1, <2>3 DEF Calm, Rejected, Unsettled
  <2>. QED BY <1>0, <1>1, <2>2, <2>4, <2>6, <2>7, <2>8, <2>9, <2>10, <2>11, DriversMove
<1>3. CASE driverSettles(d)
  <2>1. PICK t \in {"settled", "rejected"} :
          /\ driver' = [driver EXCEPT ![d].state = t] /\ stage' = stage
          /\ t = "settled" => driver[d].state = "finishing"
    BY <1>3 DEF driverSettles, tableVars
  <2>2. driver' \in [Drivers -> [loop : Loops \cup {None},
                                state : {"unused", "driving", "cancelling", "finishing", "settled", "rejected"}]]
    BY <1>0, <2>1 DEF TypeOK
  <2>3. \A e \in Drivers : IF e = d THEN driver'[e].loop = driver[e].loop /\ driver'[e].state = t
                         ELSE driver'[e] = driver[e]
    BY <1>0, <2>1 DEF TypeOK
  <2>4. Calm' => Calm /\ driver[d].state = "finishing"
    BY <1>1, <2>1, <2>3 DEF Calm, Rejected, Unsettled
  <2>5. ASSUME Calm', NEW e \in Drivers, Used(e)
        PROVE  driver'[e].state \in {"driving", "cancelling"} <=> stage'[driver[e].loop] = "open"
    BY <1>0, <2>1, <2>3, <2>4, <2>5 DEF Owned
  <2>6. \A e \in Drivers : Unsettled(e)' => Unsettled(e)
    BY <2>3 DEF Unsettled
  <2>7. \A e \in Drivers : driver'[e] = driver[e] \/
           (Used(e) /\ driver'[e].loop = driver[e].loop /\ driver'[e].state # "unused")
    BY <1>1, <2>3
  <2>8. stage' \in [Loops -> {"none", "open", "terminal"}]
    BY <1>0, <2>1 DEF TypeOK
  <2>9. \A b \in Callers : call[b].pc = "stored" => stage'[call[b].loop] = "open"
    BY <1>0, <2>1 DEF Names
  <2>. QED BY <1>0, <1>1, <2>1, <2>2, <2>4, <2>5, <2>6, <2>7, <2>8, <2>9, DriversMove
<1>. QED BY <1>2, <1>3

LEMMA TeardownSteps ==
  ASSUME Inv, Teardown
  PROVE  Inv'
<1>0. TypeOK /\ Names
  BY DEF Inv
<1>1. CASE stopBegins
  <2>1. awaited' \subseteq Drivers
    BY <1>0, <1>1 DEF stopBegins, TypeOK
  <2>2. DriversKeep
    BY <1>0, <1>1, CancelKeeps DEF stopBegins
  <2>. QED BY <1>1, <2>1, <2>2, CancelMoves DEF stopBegins, Phases
<1>2. CASE stopEnds
  <2>1. TypeOK'
    BY <1>0, <1>2 DEF stopEnds, TypeOK, tableVars
  <2>2. Names'
    BY <1>0, <1>2 DEF stopEnds, Names, tableVars, Used
  <2>. QED BY <1>2, <2>1, <2>2 DEF Inv, stopEnds, Calm
<1>3. CASE closeBegins \/ closeEnds
  <2>1. TypeOK'
    BY <1>0, <1>3 DEF closeBegins, closeEnds, TypeOK, tableVars, mapVars
  <2>2. Names' /\ phase' # "up"
    BY <1>0, <1>3 DEF closeBegins, closeEnds, Names, tableVars, mapVars, Used
  <2>. QED BY <2>1, <2>2 DEF Inv, Calm
<1>. QED BY <1>1, <1>2, <1>3 DEF Teardown

-----------------------------------------------------------------------------
(* Handles. *)

(* A handle is attached to the registered driver. *)
LEMMA AttachMoves ==
  ASSUME Inv, NEW c \in Callers, NEW o \in Objectives, call[c].pc = "idle", liveByOwner # None,
         openHandle(c, o, liveByOwner), UNCHANGED <<tableVars, stopVars>>
  PROVE  Inv'
<1>0. TypeOK /\ Names /\ (Calm => Owned)
  BY DEF Inv
<1>d. PICK d \in Drivers : d = liveByOwner /\ Used(d)
  BY <1>0 DEF TypeOK, Names
<1>1. PICK l \in Loops : l = driver[d].loop
  BY <1>0, <1>d DEF Names
<1>2. /\ waiters' = [waiters EXCEPT ![l] = Count(l, 0) + 1]
      /\ call' = [call EXCEPT ![c] = [pc |-> "holding", objective |-> o, loop |-> l, driver |-> d]]
      /\ UNCHANGED <<driver, live, liveByOwner, owners>>
  BY <1>d, <1>1 DEF openHandle, Hold
<1>3. \A b \in Callers : call'[b] = IF b = c THEN [pc |-> "holding", objective |-> o, loop |-> l, driver |-> d]
                                  ELSE call[b]
  BY <1>0, <1>2 DEF TypeOK
<1>4. TypeOK'
  <2>1. Count(l, 0) + 1 \in Int
    BY <1>0, <1>1 DEF Count, TypeOK
  <2>2. call' \in [Callers -> [pc : Places,
                           objective : Objectives, loop : Loops \cup {None}, driver : Drivers \cup {None}]]
    BY <1>0, <1>1, <1>2 DEF TypeOK, Places
  <2>3. waiters' \in [Loops -> Int \cup {NoCount}]
    BY <1>0, <1>2, <2>1 DEF TypeOK
  <2>. QED BY <1>0, <1>2, <2>2, <2>3 DEF TypeOK, tableVars, stopVars, Places
<1>5. Names'
  <2>. USE <1>0, <1>2 DEF Names, Used, tableVars
  <2>1. \A b \in Callers : call'[b].pc \in {"holding", "disposing"} =>
          call'[b].driver \in Drivers /\ Used(call'[b].driver) /\ driver[call'[b].driver].loop = call'[b].loop
    BY <1>d, <1>1, <1>3
  <2>2. \A b \in Callers : call'[b].pc \in {"releasing", "released"} => call'[b].driver \in Drivers /\ Used(call'[b].driver)
    BY <1>3
  <2>3. \A b \in Callers : call'[b].pc \in {"putting", "stored"} => b # c /\ call'[b] = call[b]
    BY <1>3
  <2>. QED BY <2>1, <2>2, <2>3
<1>6. ASSUME Calm' PROVE Owned'
  <2>0. Owned
    BY <1>0, <1>2, <1>6 DEF stopVars, Calm, Rejected
  <2>1. live[l] = d /\ d # None
    BY <1>d, <1>1, <2>0 DEF Owned
  <2>2. Holders(l)' = Holders(l) \cup {c} /\ c \notin Holders(l) /\ \A m \in Loops \ {l} : Holders(m)' = Holders(m)
    BY <1>1, <1>3 DEF Holders
  <2>3. Cardinality(Holders(l)') = Cardinality(Holders(l)) + 1 /\ Cardinality(Holders(l)) \in Int
    <3>1. Holders(l) \subseteq Callers
      BY DEF Holders
    <3>. QED BY <2>2, <3>1, HoldersMove, CallersCount
  <2>4. waiters[l] = Cardinality(Holders(l)) /\ waiters[l] # NoCount
    BY <1>1, <2>0, <2>1, <2>3, NoCountAssumption DEF Owned
  <2>5. waiters'[l] = Cardinality(Holders(l)') /\ \A m \in Loops \ {l} : waiters'[m] = waiters[m]
    <3>1. Count(l, 0) = Cardinality(Holders(l))
      BY <2>4 DEF Count
    <3>2. waiters'[l] = Count(l, 0) + 1 /\ \A m \in Loops \ {l} : waiters'[m] = waiters[m]
      BY <1>0, <1>1, <1>2 DEF TypeOK
    <3>. QED BY <2>3, <3>1, <3>2
  <2>6. \A m \in Loops : live[m] # None => waiters'[m] = Cardinality(Holders(m)')
    <3>1. ASSUME NEW m \in Loops \ {l}, live[m] # None PROVE waiters'[m] = Cardinality(Holders(m)')
      BY <2>0, <2>2, <2>5, <3>1 DEF Owned
    <3>. QED BY <2>5, <3>1
  <2>7. \A m \in Loops : (\A e \in Drivers : Used(e) => driver[e].loop # m) => waiters'[m] = NoCount
    BY <1>d, <1>1, <2>0, <2>5 DEF Owned
  <2>. QED BY <1>2, <2>0, <2>6, <2>7 DEF Owned, tableVars, Used, Unsettled
<1>. QED BY <1>4, <1>5, <1>6 DEF Inv

(* A handle is closed: one holder less, one waiter less. *)
LEMMA CloseMoves ==
  ASSUME Inv, NEW c \in Callers, call[c].pc = "holding", NEW n \in Int,
         n = Count(call[c].loop, 1) - 1 \/ (n = 0 /\ Count(call[c].loop, 1) - 1 < 0),
         waiters' = [waiters EXCEPT ![call[c].loop] = n],
         DriversKeep, UNCHANGED <<tableVars, live, liveByOwner, owners, stopVars>>,
         call' = [call EXCEPT ![c] = Idle] \/ call' = [call EXCEPT ![c].pc = "disposing"]
  PROVE  Inv'
<1>0. TypeOK /\ Names /\ (Calm => Owned)
  BY DEF Inv
<1>1. PICK l \in Loops : /\ l = call[c].loop /\ driver[call[c].driver].loop = l
                         /\ call[c].driver \in Drivers /\ Used(call[c].driver)
  BY <1>0 DEF Names
<1>2. \A b \in Callers \ {c} : call'[b] = call[b]
  BY <1>0 DEF TypeOK
<1>3. call'[c] = Idle \/ (call'[c].pc = "disposing" /\ call'[c].driver = call[c].driver /\ call'[c].loop = l)
  BY <1>0, <1>1 DEF TypeOK
<1>4. TypeOK'
  <2>1. call' \in [Callers -> [pc : Places,
                           objective : Objectives, loop : Loops \cup {None}, driver : Drivers \cup {None}]]
    BY <1>0, IdleType DEF TypeOK, Places
  <2>. QED BY <1>0, <2>1 DEF TypeOK, tableVars, stopVars, DriversKeep, DriverType, Places
<1>5. Idle.pc = "idle"
  BY DEF Idle
<1>6. Names'
  <2>. USE <1>0 DEF Names, tableVars
  <2>d. \A d \in Drivers : /\ driver'[d].loop = driver[d].loop /\ (driver'[d].state # "unused" <=> Used(d))
                           /\ (driver'[d] = NoDriver <=> driver[d] = NoDriver)
    BY DEF DriversKeep, Used
  <2>1. \A b \in Callers : call'[b].pc \in {"holding", "disposing"} =>
          call'[b].driver \in Drivers /\ driver'[call'[b].driver].state # "unused" /\ driver'[call'[b].driver].loop = call'[b].loop
    BY <2>d, <1>1, <1>2, <1>3, <1>5
  <2>2. \A b \in Callers : call'[b].pc \in {"releasing", "released", "putting", "stored"} => call'[b] = call[b]
    BY <1>2, <1>3, <1>5
  <2>3. \A b \in Callers : call'[b].pc \in {"releasing", "released"} =>
          call'[b].driver \in Drivers /\ driver'[call'[b].driver].state # "unused"
    BY <2>d, <2>2
  <2>4. \A b \in Callers : call'[b].pc = "putting" => call'[b].loop \in Loops /\ stage[call'[b].loop] = "none"
    BY <2>2
  <2>5. \A d \in Drivers : /\ driver'[d].state = "unused" <=> driver'[d] = NoDriver
                           /\ driver'[d].state # "unused" => driver'[d].loop \in Loops /\ stage[driver'[d].loop] # "none"
    BY <2>d DEF Used
  <2>6. \A m \in Loops : live[m] # None => driver'[live[m]].state # "unused" /\ driver'[live[m]].loop = m
    BY <2>d DEF TypeOK
  <2>7. liveByOwner # None => driver'[liveByOwner].state # "unused"
    BY <2>d DEF TypeOK
  <2>8. \A a, b \in Callers : call'[a].pc = "putting" /\ call'[b].pc = "putting"
                           /\ call'[a].loop = call'[b].loop => a = b
    BY <2>2
  <2>9. \A b \in Callers : call'[b].pc = "stored" => call'[b].loop \in Loops /\ stage[call'[b].loop] = "open"
    BY <2>2
  <2>. QED BY <2>1, <2>3, <2>4, <2>5, <2>6, <2>7, <2>8, <2>9 DEF Used
<1>7. ASSUME Calm' PROVE Owned'
  <2>0. Owned
    BY <1>0, <1>7 DEF stopVars, Calm, DriversKeep
  <2>1. Holders(l)' = Holders(l) \ {c} /\ c \in Holders(l) /\ \A m \in Loops \ {l} : Holders(m)' = Holders(m)
    BY <1>1, <1>2, <1>3, <1>5 DEF Holders
  <2>2. /\ Cardinality(Holders(l)') = Cardinality(Holders(l)) - 1 /\ Cardinality(Holders(l)) \in Int
        /\ Cardinality(Holders(l)) >= 1
    <3>1. Holders(l) \subseteq Callers
      BY DEF Holders
    <3>. QED BY <2>1, <3>1, HoldersMove, CallersCount
  <2>3. waiters'[l] = n /\ \A m \in Loops \ {l} : waiters'[m] = waiters[m]
    BY <1>0, <1>1 DEF TypeOK
  <2>4. live[l] # None => waiters'[l] = Cardinality(Holders(l)')
    <3>. SUFFICES ASSUME live[l] # None PROVE waiters'[l] = Cardinality(Holders(l)')
      OBVIOUS
    <3>1. waiters[l] = Cardinality(Holders(l)) /\ waiters[l] # NoCount
      BY <1>1, <2>0, <2>2, NoCountAssumption DEF Owned
    <3>2. Count(l, 1) = Cardinality(Holders(l))
      BY <3>1 DEF Count
    <3>3. n = Count(l, 1) - 1 \/ Count(l, 1) - 1 < 0
      BY <1>1
    <3>4. n = Cardinality(Holders(l)) - 1
      <4>1. ~(Count(l, 1) - 1 < 0)
        BY <2>2, <3>2
      <4>. QED BY <3>2, <3>3, <4>1
    <3>. QED BY <2>2, <2>3, <3>4
  <2>5. \A m \in Loops : live[m] # None => waiters'[m] = Cardinality(Holders(m)')
    <3>1. ASSUME NEW m \in Loops \ {l}, live[m] # None PROVE waiters'[m] = Cardinality(Holders(m)')
      BY <2>0, <2>1, <2>3, <3>1 DEF Owned
    <3>. QED BY <2>4, <3>1
  <2>6. \A m \in Loops : (\A e \in Drivers : Used(e) => driver[e].loop # m) => waiters'[m] = NoCount
    BY <1>1, <2>0, <2>3 DEF Owned
  <2>. QED BY <1>0, <2>0, <2>5, <2>6, OwnedKeeps DEF tableVars
<1>. QED BY <1>4, <1>6, <1>7 DEF Inv

(* A settled driver gives up the slot of its loop. *)
LEMMA FreeMoves ==
  ASSUME Inv, NEW c \in Callers, call[c].pc \in {"disposing", "releasing"}, Settled(call[c].driver),
         FreeSlot(call[c].driver), UNCHANGED <<tableVars, driver, stopVars>>,
         call' = [call EXCEPT ![c] = Idle]
           \/ (call[c].pc = "releasing" /\ call' = [call EXCEPT ![c].pc = "released"])
  PROVE  Inv'
<1>. DEFINE d == call[c].driver
            l == driver[d].loop
<1>0. TypeOK /\ Names /\ (Calm => Owned)
  BY DEF Inv
<1>1. d \in Drivers /\ Used(d) /\ l \in Loops
  BY <1>0 DEF Names
<1>2. /\ live' = [live EXCEPT ![l] = None] /\ owners' = owners \ {l}
      /\ waiters' = [waiters EXCEPT ![l] = NoCount]
      /\ liveByOwner' = IF l \in owners /\ liveByOwner = d THEN None ELSE liveByOwner
  BY DEF FreeSlot
<1>3. \A b \in Callers \ {c} : call'[b] = call[b]
  BY <1>0 DEF TypeOK
<1>4. call'[c] = Idle \/ (call'[c].pc = "released" /\ call'[c].driver = d)
  BY <1>0 DEF TypeOK
<1>5. Idle.pc = "idle"
  BY DEF Idle
<1>6. TypeOK'
  <2>1. call' \in [Callers -> [pc : Places,
                           objective : Objectives, loop : Loops \cup {None}, driver : Drivers \cup {None}]]
    BY <1>0, IdleType DEF TypeOK, Places
  <2>2. live' \in [Loops -> Drivers \cup {None}] /\ waiters' \in [Loops -> Int \cup {NoCount}]
        /\ liveByOwner' \in Drivers \cup {None} /\ owners' \subseteq Loops
    BY <1>0, <1>2 DEF TypeOK
  <2>. QED BY <1>0, <2>1, <2>2 DEF TypeOK, tableVars, stopVars, Places
<1>7. \A m \in Loops : /\ live'[m] = IF m = l THEN None ELSE live[m]
                       /\ waiters'[m] = IF m = l THEN NoCount ELSE waiters[m]
  BY <1>0, <1>2 DEF TypeOK
<1>8. Settled(d)
  OBVIOUS
<1>. HIDE DEF d, l
<1>9. Names'
  <2>. USE <1>0 DEF Names, Used, tableVars
  <2>1. \A b \in Callers : call'[b].pc \in {"holding", "disposing", "putting", "stored"} => call'[b] = call[b]
    BY <1>3, <1>4, <1>5
  <2>2. \A b \in Callers : call'[b].pc \in {"releasing", "released"} => call'[b].driver \in Drivers /\ Used(call'[b].driver)
    BY <1>1, <1>3, <1>4, <1>5
  <2>3. \A m \in Loops : live'[m] # None => Used(live'[m]) /\ driver[live'[m]].loop = m
    BY <1>7
  <2>4. liveByOwner' # None => Used(liveByOwner')
    BY <1>2
  <2>. QED BY <2>1, <2>2, <2>3, <2>4
<1>10. ASSUME Calm' PROVE Owned'
  <2>0. Owned
    BY <1>0, <1>10 DEF stopVars, Calm, Rejected
  <2>1. \A e \in Drivers : Unsettled(e) => driver[e].loop # l
    <3>. SUFFICES ASSUME NEW e \in Drivers, Unsettled(e), driver[e].loop = l PROVE FALSE
      OBVIOUS
    <3>1. e = d
      BY <1>1, <2>0 DEF Owned, Unsettled, Used, l
    <3>. QED BY <1>8, <3>1 DEF Settled, Rejected, Unsettled
  <2>2. \A e \in Drivers : Unsettled(e) => live'[driver[e].loop] = e
    BY <1>0, <1>7, <2>0, <2>1 DEF Owned, Names, Unsettled, Used
  <2>3. \A m \in Loops : m \in owners' <=> live'[m] # None
    BY <1>2, <1>7, <2>0 DEF Owned
  <2>4. liveByOwner' # None => live'[driver[liveByOwner'].loop] = liveByOwner'
    <3>. SUFFICES ASSUME liveByOwner' # None PROVE live'[driver[liveByOwner'].loop] = liveByOwner'
      OBVIOUS
    <3>1. liveByOwner' = liveByOwner /\ ~(l \in owners /\ liveByOwner = d) /\ liveByOwner \in Drivers
      BY <1>0, <1>2 DEF TypeOK
    <3>2. live[driver[liveByOwner].loop] = liveByOwner /\ Used(liveByOwner) /\ driver[liveByOwner].loop \in Loops
      BY <1>0, <2>0, <3>1 DEF Owned, Names
    <3>3. driver[liveByOwner].loop # l
      <4>. SUFFICES ASSUME driver[liveByOwner].loop = l PROVE FALSE
        OBVIOUS
      <4>1. liveByOwner = d
        BY <1>1, <2>0, <3>1, <3>2 DEF Owned, l
      <4>2. l \in owners
        BY <1>1, <2>0, <3>1, <3>2, NoneIsNothing DEF Owned
      <4>. QED BY <3>1, <4>1, <4>2
    <3>. QED BY <1>7, <3>1, <3>2, <3>3
  <2>5. \A m \in Loops : Holders(m)' = Holders(m)
    BY <1>3, <1>4, <1>5 DEF Holders
  <2>6. \A m \in Loops : live'[m] # None => waiters'[m] = Cardinality(Holders(m)')
    BY <1>7, <2>0, <2>5 DEF Owned
  <2>7. \A m \in Loops : (\A e \in Drivers : Used(e) => driver[e].loop # m) => waiters'[m] = NoCount
    BY <1>7, <2>0 DEF Owned
  <2>. QED BY <2>0, <2>2, <2>3, <2>4, <2>6, <2>7 DEF Owned, tableVars, Used, Unsettled
<1>. QED BY <1>6, <1>9, <1>10 DEF Inv

-----------------------------------------------------------------------------
(* The steps of the runtime. *)

(* The newest of some loops is one of them. *)
LEMMA NewestExists ==
  ASSUME NEW S, S \subseteq Loops, S # {}
  PROVE  Newest(S) \in S
<1>. DEFINE ages == {MaxLoops - l : l \in S}
            R == {ss \in Nat \X Nat : ss[1] < ss[2]}
<1>1. R = OpToRel(<, Nat)
  BY Zenon DEF OpToRel
<1>2. IsWellFoundedOn(R, Nat)
  BY <1>1, NatLessThanWellFounded, Zenon
<1>3. ages \subseteq Nat /\ ages # {}
  BY BoundsAssumption DEF Loops
<1>4. PICK x \in ages : \A y \in ages : ~ (<<y, x>> \in R)
  <2>. HIDE DEF R, ages
  <2>. QED BY <1>2, <1>3, WFMin
<1>5. PICK l \in S : x = MaxLoops - l
  OBVIOUS
<1>6. \A m \in S : m <= l
  <2>. TAKE m \in S
  <2>1. MaxLoops - m \in ages /\ MaxLoops - m \in Nat /\ x \in Nat
    BY <1>3
  <2>2. ~(MaxLoops - m < x)
    BY <1>4, <2>1
  <2>3. m \in Int /\ l \in Int /\ MaxLoops \in Int
    BY BoundsAssumption DEF Loops
  <2>. QED BY <1>5, <2>2, <2>3
<1>. QED BY <1>6 DEF Newest

LEMMA PutMoves ==
  ASSUME Inv, NEW c \in Callers, NEW o \in Objectives, call[c].pc \in {"idle", "released"},
         PutNewRecord(c, o), UNCHANGED stopVars
  PROVE  Inv'
<1>1. PICK l \in Loops :
        /\ stage[l] = "none" /\ \A b \in Callers : call[b].loop # l
        /\ objective' = [objective EXCEPT ![l] = o]
        /\ call' = [call EXCEPT ![c] = [pc |-> "putting", objective |-> o, loop |-> l, driver |-> None]]
  BY DEF PutNewRecord
<1>2. DriversKeep /\ UNCHANGED <<stage, mapVars, phase, awaited>>
  BY SameKeeps DEF PutNewRecord, stopVars, Inv
<1>3. objective' \in [Loops -> Objectives]
  BY <1>1 DEF Inv, TypeOK
<1>. DEFINE r == [pc |-> "putting", objective |-> o, loop |-> l, driver |-> None]
<1>4. /\ r \in [pc : {"idle", "putting", "releasing", "released"},
               objective : Objectives, loop : Loops \cup {None}, driver : Drivers \cup {None}]
      /\ r.pc = "putting" /\ r.loop = l
  OBVIOUS
<1>5. call' = [call EXCEPT ![c] = r] /\ call[c].pc # "holding"
  BY <1>1
<1>6. r.loop \in Loops /\ stage[r.loop] = "none" /\ \A b \in Callers : call[b].loop # r.loop
  BY <1>1, <1>4
<1>. HIDE DEF r
<1>. QED BY <1>2, <1>3, <1>4, <1>5, <1>6, CallMoves

(* The record of a loop that nothing else names yet is there. *)
LEMMA LandMoves ==
  ASSUME Inv, NEW c \in Callers, putLands(c)
  PROVE  Inv'
<1>0. TypeOK /\ Names /\ (Calm => Owned) /\ call[c].pc = "putting"
  BY DEF Inv, putLands
<1>1. PICK l \in Loops : call[c].loop = l /\ stage[l] = "none"
  BY <1>0 DEF Names
<1>2. /\ stage' = [stage EXCEPT ![l] = "open"] /\ call' = [call EXCEPT ![c].pc = "stored"]
      /\ UNCHANGED <<objective, driver, live, liveByOwner, owners, waiters, phase, awaited>>
  BY <1>1 DEF putLands, mapVars, stopVars
<1>3. /\ \A m \in Loops : stage'[m] = IF m = l THEN "open" ELSE stage[m]
      /\ \A b \in Callers \ {c} : call'[b] = call[b]
      /\ call'[c].pc = "stored" /\ call'[c].loop = l
  BY <1>0, <1>1, <1>2 DEF TypeOK
<1>4. TypeOK'
  <2>1. call' \in [Callers -> [pc : Places, objective : Objectives, loop : Loops \cup {None},
                              driver : Drivers \cup {None}]]
    BY <1>0, <1>2 DEF TypeOK, Places
  <2>2. stage' \in [Loops -> {"none", "open", "terminal"}]
    BY <1>0, <1>2 DEF TypeOK
  <2>. QED BY <1>0, <1>2, <2>1, <2>2 DEF TypeOK, Places
<1>5. Names'
  <2>. USE <1>0, <1>2 DEF Names, Used
  <2>1. \A d \in Drivers : Used(d) => driver[d].loop \in Loops /\ stage'[driver[d].loop] # "none"
    BY <1>3
  <2>2. \A b \in Callers : call'[b].pc # "stored" => call'[b] = call[b]
    BY <1>3
  <2>3. \A b \in Callers : call'[b].pc = "putting" => call'[b].loop \in Loops /\ stage'[call'[b].loop] = "none"
    BY <1>1, <1>3, <2>2
  <2>4. \A b \in Callers : call'[b].pc = "stored" => call'[b].loop \in Loops /\ stage'[call'[b].loop] = "open"
    BY <1>3
  <2>. QED BY <2>1, <2>2, <2>3, <2>4
<1>6. ASSUME Calm' PROVE Owned'
  <2>0. Owned
    BY <1>0, <1>2, <1>6 DEF Calm, Rejected
  <2>1. \A d \in Drivers : Used(d) => driver[d].loop # l
    BY <1>0, <1>1 DEF Names
  <2>2. \A d \in Drivers : Used(d) =>
          (driver[d].state \in {"driving", "cancelling"} <=> stage'[driver[d].loop] = "open")
    BY <1>0, <1>3, <2>0, <2>1 DEF Owned, Names
  <2>3. \A m \in Loops : Holders(m)' = Holders(m)
    BY <1>0, <1>3 DEF Holders
  <2>. QED BY <1>2, <2>0, <2>2, <2>3 DEF Owned, Used, Unsettled
<1>. QED BY <1>4, <1>5, <1>6 DEF Inv

LEMMA ContinueMoves ==
  ASSUME Inv, NEW c \in Callers, NEW o \in Objectives, call[c].pc \in {"idle", "released"},
         Continue(c, o), UNCHANGED stopVars
  PROVE  Inv'
<1>1. CASE unsettledOwned = {} /\ PutNewRecord(c, o)
  BY <1>1, PutMoves
<1>2. CASE own(c, o, Newest(unsettledOwned)) /\ unsettledOwned # {} /\ UNCHANGED tableVars
  <2>1. Newest(unsettledOwned) \in unsettledOwned
    <3>1. unsettledOwned \subseteq Loops
      BY DEF unsettledOwned
    <3>. QED BY <1>2, <3>1, NewestExists
  <2>2. PICK l \in Loops : l = Newest(unsettledOwned) /\ stage[l] = "open"
    BY <2>1 DEF unsettledOwned
  <2>3. own(c, o, l) /\ UNCHANGED <<stage, objective, phase, awaited>>
    BY <1>2, <2>2 DEF tableVars, stopVars
  <2>. QED BY <2>2, <2>3, OwnMoves
<1>. QED BY <1>1, <1>2 DEF Continue

LEMMA HandoffSteps ==
  ASSUME Inv, NEW c \in Callers, NEW o \in Objectives, handoff(c, o)
  PROVE  Inv'
<1>0. TypeOK /\ Names /\ call[c].pc = "idle" /\ UNCHANGED stopVars
  BY DEF handoff, Inv
<1>1. CASE Continue(c, o)
  BY <1>0, <1>1, ContinueMoves
<1>2. CASE liveByOwner # None /\ openHandle(c, o, liveByOwner) /\ UNCHANGED tableVars
  BY <1>0, <1>2, AttachMoves
<1>3. ASSUME NEW pc \in {"releasing", "released"}, liveByOwner # None,
             call' = [call EXCEPT ![c] = [pc |-> pc, objective |-> o, loop |-> None, driver |-> liveByOwner]],
             driver' = driver \/ driver' = [driver EXCEPT ![liveByOwner] = Cancelled(@)],
             UNCHANGED <<tableVars, mapVars>>
      PROVE  Inv'
  <2>. DEFINE r == [pc |-> pc, objective |-> o, loop |-> None, driver |-> liveByOwner]
  <2>1. /\ r \in [pc : {"idle", "putting", "releasing", "released"},
                  objective : Objectives, loop : Loops \cup {None}, driver : Drivers \cup {None}]
        /\ r.driver \in Drivers /\ Used(r.driver) /\ r.pc # "putting"
    BY <1>0, <1>3 DEF TypeOK, Names
  <2>2. objective' \in [Loops -> Objectives] /\ UNCHANGED <<stage, mapVars, phase, awaited>>
    BY <1>0, <1>3 DEF TypeOK, tableVars, stopVars
  <2>3. call' = [call EXCEPT ![c] = r] /\ call[c].pc # "holding"
    BY <1>0, <1>3
  <2>4. DriversKeep
    BY <1>0, <1>3, <2>1, SameKeeps, CancelOneKeeps
  <2>. HIDE DEF r
  <2>. QED BY <2>1, <2>2, <2>3, <2>4, CallMoves
<1>. QED BY <1>1, <1>2, <1>3 DEF handoff

LEMMA ResumeSteps ==
  ASSUME Inv, NEW c \in Callers, NEW l \in Loops, resume(c, l)
  PROVE  Inv'
<1>0. TypeOK
  BY DEF Inv
<1>1. own(c, objective[l], l) /\ objective[l] \in Objectives /\ stage[l] = "open" /\ call[c].pc = "idle"
      /\ UNCHANGED <<objective, phase, awaited, stage>>
  BY <1>0 DEF resume, TypeOK, tableVars, stopVars
<1>. QED BY <1>1, OwnMoves

LEMMA ReturnSteps ==
  ASSUME Inv, NEW c \in Callers, Returns(c)
  PROVE  Inv'
<1>0. TypeOK /\ Names /\ call[c].objective \in Objectives
  BY DEF Inv, TypeOK
<1>i. /\ Idle \in [pc : {"idle", "putting", "releasing", "released"},
                  objective : Objectives, loop : Loops \cup {None}, driver : Drivers \cup {None}]
      /\ Idle.pc = "idle"
  BY IdleType DEF Idle
<1>1. CASE putReturns(c) /\ own(c, call[c].objective, call[c].loop)
  <2>1. PICK m \in Loops : call[c].loop = m /\ stage[m] = "open"
    BY <1>0, <1>1 DEF putReturns, Names
  <2>2. /\ own(c, call[c].objective, m) /\ call[c].pc = "stored"
        /\ UNCHANGED <<stage, objective, phase, awaited>>
    BY <1>1, <2>1 DEF putReturns, tableVars, stopVars
  <2>. QED BY <1>0, <2>1, <2>2, OwnMoves
<1>2. CASE \/ putRejects(c)
           \/ putReturns(c) /\ Return(c) /\ UNCHANGED <<driver, mapVars>>
           \/ proceed(c) /\ Return(c) /\ UNCHANGED <<tableVars, driver, mapVars>>
  <2>1. /\ call[c].pc \in {"putting", "stored", "released"} /\ call' = [call EXCEPT ![c] = Idle]
        /\ UNCHANGED <<stage, objective, driver, mapVars, phase, awaited>>
    BY <1>2 DEF putRejects, putReturns, proceed, Return, tableVars, stopVars
  <2>2. objective' \in [Loops -> Objectives]
    BY <1>0, <2>1 DEF TypeOK
  <2>3. DriversKeep
    BY <1>0, <2>1, SameKeeps
  <2>. QED BY <1>i, <2>1, <2>2, <2>3, CallMoves
<1>3. CASE proceed(c) /\ Continue(c, call[c].objective)
  <2>1. call[c].pc = "released" /\ UNCHANGED stopVars
    BY <1>3 DEF proceed
  <2>. QED BY <1>0, <1>3, <2>1, ContinueMoves
<1>4. CASE releaseReturns(c)
  BY <1>4, FreeMoves DEF releaseReturns, Return
<1>5. CASE handoffReleased(c)
  BY <1>5, FreeMoves DEF handoffReleased
<1>6. CASE putLands(c)
  BY <1>6, LandMoves
<1>. QED BY <1>1, <1>2, <1>3, <1>4, <1>5, <1>6 DEF Returns, proceed, putReturns

LEMMA HandleSteps ==
  ASSUME Inv, NEW c \in Callers, cancel(c) \/ dispose(c) \/ park(c)
  PROVE  Inv'
<1>0. TypeOK /\ Names /\ call[c].pc = "holding"
  BY DEF Inv, cancel, dispose, park
<1>1. PICK d \in Drivers, l \in Loops : call[c].driver = d /\ call[c].loop = l
  BY <1>0 DEF Names
<1>2. Count(l, 1) - 1 \in Int
  BY <1>0 DEF Count, TypeOK
<1>3. CASE cancel(c)
  <2>1. driver' = [driver EXCEPT ![d] = Cancelled(@)] /\ UNCHANGED <<tableVars, mapVars, call, stopVars>>
    BY <1>1, <1>3 DEF cancel
  <2>2. DriversKeep /\ phase \in Phases /\ awaited \subseteq Drivers
    BY <1>0, <2>1, CancelOneKeeps DEF TypeOK, Phases
  <2>. QED BY <2>1, <2>2, CancelMoves DEF stopVars
<1>4. CASE park(c)
  <2>. DEFINE n == IF Count(l, 1) - 1 < 0 THEN 0 ELSE Count(l, 1) - 1
  <2>1. /\ waiters' = [waiters EXCEPT ![l] = n] /\ call' = [call EXCEPT ![c] = Idle]
        /\ UNCHANGED <<tableVars, driver, live, liveByOwner, owners, stopVars>>
    BY <1>1, <1>4 DEF park, Return
  <2>2. n \in Int /\ (n = Count(l, 1) - 1 \/ (n = 0 /\ Count(l, 1) - 1 < 0))
    BY <1>2
  <2>3. DriversKeep
    BY <1>0, <2>1, SameKeeps
  <2>. HIDE DEF n
  <2>. QED BY <1>0, <1>1, <2>1, <2>2, <2>3, CloseMoves
<1>5. CASE dispose(c)
  <2>. DEFINE n == Count(l, 1) - 1
  <2>1. /\ waiters' = [waiters EXCEPT ![l] = n]
        /\ UNCHANGED <<tableVars, live, liveByOwner, owners, stopVars>>
        /\ \/ call' = [call EXCEPT ![c] = Idle] /\ driver' = driver
           \/ call' = [call EXCEPT ![c].pc = "disposing"] /\ driver' = [driver EXCEPT ![d] = Cancelled(@)]
    BY <1>1, <1>5 DEF dispose, Return
  <2>2. DriversKeep
    BY <1>0, <2>1, SameKeeps, CancelOneKeeps
  <2>3. n = Count(l, 1) - 1 /\ n \in Int
    BY <1>2
  <2>. HIDE DEF n
  <2>. QED BY <1>0, <1>1, <2>1, <2>2, <2>3, CloseMoves
<1>. QED BY <1>3, <1>4, <1>5

LEMMA InvNext == ASSUME Inv, [Next]_vars PROVE Inv'
<1>1. ASSUME NEW c \in Callers, NEW o \in Objectives, start(c, o) PROVE Inv'
  BY <1>1, PutMoves DEF start
<1>2. ASSUME NEW c \in Callers, NEW o \in Objectives, handoff(c, o) PROVE Inv'
  BY <1>2, HandoffSteps
<1>3. ASSUME NEW c \in Callers, NEW l \in Loops, resume(c, l) PROVE Inv'
  BY <1>3, ResumeSteps
<1>4. ASSUME NEW c \in Callers, cancel(c) \/ dispose(c) \/ park(c) PROVE Inv'
  BY <1>4, HandleSteps
<1>5. ASSUME NEW c \in Callers, Returns(c) PROVE Inv'
  BY <1>5, ReturnSteps
<1>6. ASSUME NEW d \in Drivers, driverWrites(d) \/ driverSettles(d) PROVE Inv'
  BY <1>6, DriverSteps
<1>7. CASE Teardown
  BY <1>7, TeardownSteps
<1>8. CASE UNCHANGED vars
  <2>1. DriversKeep /\ phase \in Phases /\ awaited \subseteq Drivers
    BY <1>8, SameKeeps DEF vars, Inv, TypeOK, Phases
  <2>. QED BY <1>8, <2>1, CancelMoves DEF vars, stopVars
<1>. QED BY <1>1, <1>2, <1>3, <1>4, <1>5, <1>6, <1>7, <1>8 DEF Next

-----------------------------------------------------------------------------
LEMMA InvAlways == Spec => []Inv
<1>1. Inv /\ [Next]_vars => Inv'
  BY InvNext
<1>. QED BY <1>1, InvInit, PTL DEF Spec

(* Who may lose the slot of a loop, while puts may be rejected.              *)

(* Drivers are made in order, so the registered driver of a loop is its      *)
(* latest.                                                                   *)
Numbered ==
  /\ \A d, e \in Drivers : Used(d) /\ e < d => Used(e)
  /\ \A l \in Loops : live[l] # None =>
       \A d \in Drivers : Used(d) /\ driver[d].loop = l => d <= live[l]

(* A driver that wrote its terminal record has nothing to hand on. *)
Recorded ==
  \A d \in Drivers : driver[d].state \in {"finishing", "settled"} => stage[driver[d].loop] = "terminal"

(* Of the drivers before this one in its loop, one was rejected. *)
RejectedBefore(d) == \E e \in Drivers : e < d /\ Rejected(e) /\ driver[e].loop = driver[d].loop

(* A loop is only given a second driver after a rejected one. *)
Succession ==
  phase = "up" => \A d, f \in Drivers :
    Used(d) /\ Used(f) /\ d < f /\ driver[d].loop = driver[f].loop => RejectedBefore(f)

Slots == Numbered /\ Recorded /\ Succession /\ FirstDriverKeepsSlot

LEMMA DriverNumbers == Drivers \subseteq Nat
BY BoundsAssumption DEF Drivers

(* No driver is made or revived and no slot changes. *)
LEMMA SlotsKeep ==
  ASSUME Inv, Slots, live' = live, phase' = "up" => phase = "up",
         \A d \in Drivers : /\ Used(d)' <=> Used(d)
                            /\ driver'[d].loop = driver[d].loop
                            /\ Rejected(d) => Rejected(d)'
                            /\ Unsettled(d)' => Unsettled(d)
                            /\ driver'[d].state \in {"finishing", "settled"} =>
                                 stage'[driver[d].loop] = "terminal"
  PROVE  Slots'
<1>1. Numbered' /\ Recorded'
  BY DEF Slots, Numbered, Recorded
<1>2. ASSUME NEW d \in Drivers, RejectedBefore(d) PROVE RejectedBefore(d)'
  BY <1>2 DEF RejectedBefore
<1>3. Succession'
  <2>. SUFFICES ASSUME phase' = "up", NEW d \in Drivers, NEW f \in Drivers, Used(d)', Used(f)',
                       d < f, driver'[d].loop = driver'[f].loop
                PROVE  RejectedBefore(f)'
    BY DEF Succession
  <2>. QED BY <1>2 DEF Slots, Succession
<1>4. FirstDriverKeepsSlot'
  <2>. SUFFICES ASSUME phase' = "up", NEW d \in Drivers, Unsettled(d)'
                PROVE  live'[driver'[d].loop] = d \/ RejectedBefore(d)'
    BY DEF FirstDriverKeepsSlot, RejectedBefore
  <2>1. live[driver[d].loop] = d \/ RejectedBefore(d)
    BY DEF Slots, FirstDriverKeepsSlot, RejectedBefore
  <2>. QED BY <1>2, <2>1
<1>. QED BY <1>1, <1>3, <1>4 DEF Slots

(* A new driver takes a slot that nobody has, of a loop that is open: a      *)
(* driver of it was rejected, or lost the slot because an earlier one was.   *)
LEMMA SlotsOwn ==
  ASSUME Inv, Slots, NEW c \in Callers, NEW o \in Objectives, NEW l \in Loops, own(c, o, l),
         stage[l] = "open", UNCHANGED <<phase, stage>>
  PROVE  Slots'
<1>0. TypeOK /\ Names
  BY DEF Inv
<1>1. PICK d \in Drivers :
        /\ driver[d] = NoDriver /\ \A e \in 1..(d - 1) : driver[e] # NoDriver
        /\ driver' = [driver EXCEPT ![d] = [loop |-> l, state |-> "driving"]]
        /\ live' = [live EXCEPT ![l] = d]
  BY DEF own
<1>2. /\ \A e \in Drivers : driver'[e] = IF e = d THEN [loop |-> l, state |-> "driving"] ELSE driver[e]
      /\ \A m \in Loops : live'[m] = IF m = l THEN d ELSE live[m]
      /\ live[l] = None /\ ~Used(d) /\ d # None
  BY <1>0, <1>1, NoneIsNothing DEF own, TypeOK, NoDriver, Used
<1>3. \A e \in Drivers : e < d => Used(e)
  <2>. TAKE e \in Drivers
  <2>1. e < d => e \in 1..(d - 1)
    BY BoundsAssumption DEF Drivers
  <2>. QED BY <1>0, <1>1, <2>1 DEF Names, Used
<1>4. \A e \in Drivers : Used(e) => e < d
  <2>. TAKE e \in Drivers
  <2>1. d < e => ~Used(e)
    BY <1>2 DEF Slots, Numbered
  <2>2. e < d \/ e = d \/ d < e
    BY DriverNumbers
  <2>. QED BY <1>2, <2>1, <2>2
<1>5. \A e \in Drivers : Used(e)' <=> (Used(e) \/ e = d)
  BY <1>2 DEF Used
<1>6. Numbered'
  <2>1. ASSUME NEW f \in Drivers, NEW e \in Drivers, Used(f)', e < f PROVE Used(e)'
    <3>1. CASE f = d
      BY <1>3, <1>5, <2>1, <3>1
    <3>2. CASE Used(f)
      BY <1>5, <2>1, <3>2 DEF Slots, Numbered
    <3>. QED BY <1>5, <2>1, <3>1, <3>2
  <2>2. ASSUME NEW m \in Loops, live'[m] # None, NEW e \in Drivers, Used(e)', driver'[e].loop = m
        PROVE  e <= live'[m]
    <3>1. CASE m = l
      <4>1. e = d \/ e < d
        BY <1>4, <1>5, <2>2
      <4>2. live'[m] = d
        BY <1>2, <3>1
      <4>3. e \in Nat /\ d \in Nat
        BY DriverNumbers
      <4>. QED BY <4>1, <4>2, <4>3
    <3>2. CASE m # l
      <4>1. e # d
        BY <1>2, <2>2, <3>2
      <4>2. Used(e) /\ driver[e].loop = m
        BY <1>2, <1>5, <2>2, <4>1
      <4>. QED BY <1>2, <2>2, <3>2, <4>2 DEF Slots, Numbered
    <3>. QED BY <3>1, <3>2
  <2>. QED BY <2>1, <2>2 DEF Numbered
<1>7. Recorded'
  BY <1>2 DEF Slots, Recorded
<1>8. \A e \in Drivers : Rejected(e) => Rejected(e)' /\ Used(e) /\ e # d /\ driver'[e] = driver[e]
  BY <1>2 DEF Rejected, Used
<1>9. ASSUME NEW f \in Drivers, f # d, RejectedBefore(f) PROVE RejectedBefore(f)'
  BY <1>2, <1>8, <1>9 DEF RejectedBefore
<1>10. ASSUME phase = "up", NEW e \in Drivers, Used(e), driver[e].loop = l PROVE RejectedBefore(d)'
  <2>1. CASE Rejected(e)
    BY <1>2, <1>4, <1>8, <1>10, <2>1 DEF RejectedBefore
  <2>2. CASE Unsettled(e)
    <3>1. live[driver[e].loop] # e
      BY <1>2, <1>10, NoneIsNothing
    <3>2. PICK g \in Drivers : g < e /\ Rejected(g) /\ driver[g].loop = driver[e].loop
      BY <1>10, <2>2, <3>1 DEF Slots, FirstDriverKeepsSlot
    <3>. QED BY <1>2, <1>4, <1>8, <1>10, <3>2 DEF RejectedBefore
  <2>3. driver[e].state \notin {"finishing", "settled"}
    BY <1>10 DEF Slots, Recorded
  <2>4. driver[e].state \in {"unused", "driving", "cancelling", "finishing", "settled", "rejected"}
    BY <1>0 DEF TypeOK
  <2>. QED BY <1>10, <2>1, <2>2, <2>3, <2>4 DEF Used, Unsettled, Rejected
<1>11. Succession'
  <2>. SUFFICES ASSUME phase = "up", NEW e \in Drivers, NEW f \in Drivers, Used(e)', Used(f)',
                       e < f, driver'[e].loop = driver'[f].loop
                PROVE  RejectedBefore(f)'
    BY DEF Succession
  <2>1. Used(e) /\ e # d
    <3>1. ~(f < f)
      BY DriverNumbers
    <3>2. CASE e = d
      <4>1. f < d \/ f = d
        BY <1>4, <1>5
      <4>. QED BY <3>1, <3>2, <4>1, DriverNumbers
    <3>. QED BY <1>5, <3>2
  <2>2. CASE f = d
    BY <1>2, <1>10, <2>1, <2>2
  <2>3. CASE f # d
    BY <1>2, <1>5, <1>9, <2>1, <2>3 DEF Slots, Succession
  <2>. QED BY <2>2, <2>3
<1>12. FirstDriverKeepsSlot'
  <2>. SUFFICES ASSUME phase = "up", NEW f \in Drivers, Unsettled(f)'
                PROVE  live'[driver'[f].loop] = f \/ RejectedBefore(f)'
    BY DEF FirstDriverKeepsSlot, RejectedBefore
  <2>1. CASE f = d
    BY <1>2, <2>1
  <2>2. CASE f # d
    <3>1. driver'[f] = driver[f] /\ Unsettled(f) /\ Used(f)
      BY <1>2, <2>2 DEF Unsettled, Used
    <3>2. f # None /\ driver[f].loop \in Loops
      BY <1>0, <3>1, NoneIsNothing DEF Names
    <3>3. live[driver[f].loop] = f \/ RejectedBefore(f)
      BY <3>1 DEF Slots, FirstDriverKeepsSlot, RejectedBefore
    <3>. QED BY <1>2, <1>9, <2>2, <3>1, <3>2, <3>3
  <2>. QED BY <2>1, <2>2
<1>. QED BY <1>6, <1>7, <1>11, <1>12 DEF Slots

(* A settled driver frees the slot of its loop.  Whoever holds it is the     *)
(* latest driver of the loop: the settled one itself, or a successor of it.  *)
LEMMA SlotsFree ==
  ASSUME Inv, Slots, NEW d \in Drivers, Settled(d), FreeSlot(d), UNCHANGED <<driver, stage, phase>>
  PROVE  Slots'
<1>0. TypeOK /\ Names /\ Used(d)
  BY DEF Inv, Settled, Rejected, Used
<1>1. PICK l \in Loops : l = driver[d].loop
  BY <1>0 DEF Names
<1>2. \A m \in Loops : live'[m] = IF m = l THEN None ELSE live[m]
  BY <1>0, <1>1 DEF FreeSlot, TypeOK
<1>3. Numbered' /\ Recorded'
  BY <1>2 DEF Slots, Numbered, Recorded, Used
<1>4. \A f \in Drivers : RejectedBefore(f)' <=> RejectedBefore(f)
  BY DEF RejectedBefore, Rejected
<1>5. Succession'
  BY <1>4 DEF Slots, Succession, Used
<1>6. FirstDriverKeepsSlot'
  <2>. SUFFICES ASSUME phase = "up", NEW f \in Drivers, Unsettled(f)
                PROVE  live'[driver[f].loop] = f \/ RejectedBefore(f)
    BY <1>4 DEF FirstDriverKeepsSlot, RejectedBefore, Unsettled
  <2>0. f # d /\ f # None /\ driver[f].loop \in Loops /\ Used(f)
    BY <1>0, NoneIsNothing DEF Names, Settled, Rejected, Unsettled, Used
  <2>1. CASE live[driver[f].loop] = f /\ driver[f].loop = l
    <3>1. d <= f
      BY <1>0, <1>1, <2>0, <2>1 DEF Slots, Numbered
    <3>2. d < f
      BY <2>0, <3>1, DriverNumbers
    <3>. QED BY <1>0, <1>1, <2>0, <2>1, <3>2 DEF Slots, Succession
  <2>2. CASE live[driver[f].loop] = f /\ driver[f].loop # l
    BY <1>2, <2>0, <2>2
  <2>3. live[driver[f].loop] = f \/ RejectedBefore(f)
    BY DEF Slots, FirstDriverKeepsSlot, RejectedBefore
  <2>. QED BY <2>1, <2>2, <2>3
<1>. QED BY <1>3, <1>5, <1>6 DEF Slots

LEMMA SlotsInit == Init => Slots
<1>. SUFFICES ASSUME Init PROVE Slots
  OBVIOUS
<1>1. \A d \in Drivers : ~Used(d) /\ ~Unsettled(d) /\ driver[d].state = "unused"
  BY DEF Init, NoDriver, Used, Unsettled
<1>2. \A l \in Loops : live[l] = None
  BY DEF Init
<1>. QED BY <1>1, <1>2 DEF Slots, Numbered, Recorded, Succession, FirstDriverKeepsSlot

(* Drivers that were only asked to cancel still have what the slots rest on. *)
LEMMA SlotsCancel ==
  ASSUME Inv, Slots, live' = live, stage' = stage, phase' = "up" => phase = "up", NEW D,
         driver' = [d \in Drivers |-> IF d \in D THEN Cancelled(driver[d]) ELSE driver[d]]
  PROVE  Slots'
<1>0. TypeOK
  BY DEF Inv
<1>1. DriversKeep
  BY <1>0, CancelKeeps
<1>2. \A d \in Drivers : driver'[d].state \in {"finishing", "settled"} =>
                           stage'[driver[d].loop] = "terminal"
  BY DEF Cancelled, Slots, Recorded
<1>. QED BY <1>1, <1>2, SlotsKeep DEF DriversKeep

LEMMA SlotsSame ==
  ASSUME Inv, Slots, live' = live, phase' = "up" => phase = "up", driver' = driver,
         \A l \in Loops : stage[l] = "terminal" => stage'[l] = "terminal"
  PROVE  Slots'
<1>1. \A d \in Drivers : driver[d].state \in {"finishing", "settled"} =>
                           stage'[driver[d].loop] = "terminal"
  BY DEF Inv, Names, Used, Slots, Recorded
<1>. QED BY <1>1, SlotsKeep DEF Used, Rejected, Unsettled

LEMMA SlotsCall ==
  ASSUME Inv, Slots, live' = live, UNCHANGED <<stage, phase>>, NEW e \in Drivers,
         driver' = driver \/ driver' = [driver EXCEPT ![e] = Cancelled(@)]
  PROVE  Slots'
<1>1. CASE driver' = driver
  BY <1>1, SlotsSame
<1>2. CASE driver' = [driver EXCEPT ![e] = Cancelled(@)]
  <2>1. driver' = [d \in Drivers |-> IF d \in {e} THEN Cancelled(driver[d]) ELSE driver[d]]
    BY <1>2 DEF Inv, TypeOK
  <2>. QED BY <2>1, SlotsCancel
<1>. QED BY <1>1, <1>2

LEMMA SlotsContinue ==
  ASSUME Inv, Slots, NEW c \in Callers, NEW o \in Objectives, Continue(c, o), UNCHANGED stopVars
  PROVE  Slots'
<1>1. CASE PutNewRecord(c, o)
  BY <1>1, SlotsSame DEF PutNewRecord, mapVars, stopVars
<1>2. CASE unsettledOwned # {} /\ own(c, o, Newest(unsettledOwned)) /\ UNCHANGED tableVars
  <2>1. Newest(unsettledOwned) \in unsettledOwned
    <3>1. unsettledOwned \subseteq Loops
      BY DEF unsettledOwned
    <3>. QED BY <1>2, <3>1, NewestExists
  <2>2. Newest(unsettledOwned) \in Loops /\ stage[Newest(unsettledOwned)] = "open"
    BY <2>1 DEF unsettledOwned
  <2>. QED BY <1>2, <2>2, SlotsOwn DEF stopVars, tableVars
<1>. QED BY <1>1, <1>2 DEF Continue

LEMMA SlotsNext == ASSUME Inv, Slots, [Next]_vars PROVE Slots'
<1>0. TypeOK /\ Names
  BY DEF Inv
<1>1. ASSUME NEW c \in Callers, NEW o \in Objectives, start(c, o) PROVE Slots'
  BY <1>1, SlotsSame DEF start, PutNewRecord, mapVars, stopVars
<1>2. ASSUME NEW c \in Callers, NEW o \in Objectives, handoff(c, o) PROVE Slots'
  <2>1. CASE Continue(c, o)
    BY <1>2, <2>1, SlotsContinue DEF handoff
  <2>2. CASE liveByOwner # None /\ openHandle(c, o, liveByOwner) /\ UNCHANGED tableVars
    BY <1>2, <2>2, SlotsSame DEF handoff, openHandle, stopVars, tableVars
  <2>3. CASE /\ liveByOwner # None /\ UNCHANGED <<tableVars, mapVars>>
             /\ driver' = driver \/ driver' = [driver EXCEPT ![liveByOwner] = Cancelled(@)]
    <3>1. liveByOwner \in Drivers
      BY <1>0, <2>3 DEF TypeOK
    <3>2. live' = live /\ UNCHANGED <<stage, phase>>
      BY <1>2, <2>3 DEF handoff, mapVars, stopVars, tableVars
    <3>. QED BY <2>3, <3>1, <3>2, SlotsCall
  <2>. QED BY <1>2, <2>1, <2>2, <2>3 DEF handoff
<1>3. ASSUME NEW c \in Callers, NEW l \in Loops, resume(c, l) PROVE Slots'
  <2>1. objective[l] \in Objectives
    BY <1>0 DEF TypeOK
  <2>. QED BY <1>3, <2>1, SlotsOwn DEF resume, stopVars, tableVars
<1>4. ASSUME NEW c \in Callers, cancel(c) \/ dispose(c) \/ park(c) PROVE Slots'
  <2>1. call[c].driver \in Drivers
    BY <1>0, <1>4 DEF cancel, dispose, park, Names
  <2>2. /\ live' = live /\ UNCHANGED <<stage, phase>>
        /\ driver' = driver \/ driver' = [driver EXCEPT ![call[c].driver] = Cancelled(@)]
    BY <1>4 DEF cancel, dispose, park, mapVars, stopVars, tableVars
  <2>. QED BY <2>1, <2>2, SlotsCall
<1>5. ASSUME NEW c \in Callers, Returns(c) PROVE Slots'
  <2>0. call[c].objective \in Objectives
    BY <1>0 DEF TypeOK
  <2>1. CASE putLands(c) \/ putRejects(c)
    <3>1. \A l \in Loops : stage[l] = "terminal" => stage'[l] = "terminal"
      BY <1>0, <2>1 DEF putLands, putRejects, tableVars, Names, TypeOK
    <3>. QED BY <2>1, <3>1, SlotsSame DEF putLands, putRejects, mapVars, stopVars
  <2>2. CASE putReturns(c)
    <3>1. call[c].loop \in Loops /\ stage[call[c].loop] = "open" /\ UNCHANGED <<stage, phase>>
      BY <1>0, <2>2 DEF putReturns, Names, tableVars, stopVars
    <3>2. CASE own(c, call[c].objective, call[c].loop)
      BY <2>0, <3>1, <3>2, SlotsOwn
    <3>3. CASE UNCHANGED <<driver, mapVars>>
      BY <3>1, <3>3, SlotsSame DEF mapVars
    <3>. QED BY <2>2, <3>2, <3>3 DEF putReturns
  <2>3. CASE releaseReturns(c) \/ handoffReleased(c)
    <3>1. call[c].driver \in Drivers
      BY <1>0, <2>3 DEF releaseReturns, handoffReleased, Names
    <3>2. Settled(call[c].driver) /\ FreeSlot(call[c].driver) /\ UNCHANGED <<driver, stage, phase>>
      BY <2>3 DEF releaseReturns, handoffReleased, stopVars, tableVars
    <3>. QED BY <3>1, <3>2, SlotsFree
  <2>4. CASE proceed(c) /\ Continue(c, call[c].objective)
    BY <2>0, <2>4, SlotsContinue DEF proceed
  <2>5. CASE proceed(c) /\ UNCHANGED <<tableVars, driver, mapVars>>
    BY <2>5, SlotsSame DEF proceed, mapVars, stopVars, tableVars
  <2>. QED BY <1>5, <2>1, <2>2, <2>3, <2>4, <2>5 DEF Returns, proceed
<1>6. ASSUME NEW d \in Drivers, driverWrites(d) \/ driverSettles(d) PROVE Slots'
  <2>1. /\ Unsettled(d) /\ live' = live /\ phase' = phase /\ driver[d].loop \in Loops
    BY <1>0, <1>6 DEF driverWrites, driverSettles, Unsettled, Names, Used, mapVars, stopVars
  <2>2. PICK s \in {"finishing", "settled", "rejected"} :
          /\ driver' = [driver EXCEPT ![d].state = s]
          /\ stage' = IF s = "finishing" THEN [stage EXCEPT ![driver[d].loop] = "terminal"] ELSE stage
          /\ s = "settled" => driver[d].state = "finishing"
    BY <1>6 DEF driverWrites, driverSettles, tableVars
  <2>3. \A e \in Drivers : IF e = d THEN driver'[e].loop = driver[e].loop /\ driver'[e].state = s
                           ELSE driver'[e] = driver[e]
    BY <1>0, <2>2 DEF TypeOK
  <2>4. \A e \in Drivers : /\ Used(e)' <=> Used(e)
                           /\ driver'[e].loop = driver[e].loop
                           /\ Rejected(e) => Rejected(e)'
                           /\ Unsettled(e)' => Unsettled(e)
    BY <2>1, <2>3 DEF Used, Rejected, Unsettled
  <2>5. \A l \in Loops : stage[l] = "terminal" => stage'[l] = "terminal"
    BY <1>0, <2>2 DEF TypeOK
  <2>6. s \in {"finishing", "settled"} => stage'[driver[d].loop] = "terminal"
    <3>1. CASE s = "finishing"
      BY <1>0, <2>1, <2>2, <3>1 DEF TypeOK
    <3>2. CASE s = "settled"
      BY <2>1, <2>2, <2>5, <3>2 DEF Slots, Recorded
    <3>. QED BY <3>1, <3>2
  <2>7. \A e \in Drivers : driver'[e].state \in {"finishing", "settled"} =>
                             stage'[driver[e].loop] = "terminal"
    <3>1. \A e \in Drivers \ {d} : driver[e].state \in {"finishing", "settled"} =>
                                     stage'[driver[e].loop] = "terminal"
      BY <1>0, <2>5 DEF Slots, Recorded, Names, Used
    <3>. QED BY <2>3, <2>6, <3>1
  <2>. QED BY <2>1, <2>4, <2>7, SlotsKeep
<1>7. CASE stopBegins
  <2>1. live' = live /\ stage' = stage /\ phase' # "up"
    BY <1>7 DEF stopBegins, mapVars, tableVars
  <2>2. driver' = [d \in Drivers |-> IF d \in awaited' THEN Cancelled(driver[d]) ELSE driver[d]]
    BY <1>7 DEF stopBegins
  <2>. QED BY <2>1, <2>2, SlotsCancel
<1>8. CASE stopEnds
  <2>1. phase' # "up" /\ driver' = driver /\ stage' = stage /\ \A l \in Loops : live'[l] = None
    BY <1>8 DEF stopEnds, tableVars
  <2>. QED BY <2>1 DEF Slots, Numbered, Recorded, Succession, FirstDriverKeepsSlot, Used
<1>9. CASE closeBegins \/ closeEnds
  BY <1>9, SlotsSame DEF closeBegins, closeEnds, mapVars, tableVars
<1>10. CASE UNCHANGED vars
  BY <1>10, SlotsSame DEF vars, mapVars, stopVars, tableVars
<1>. QED BY <1>1, <1>2, <1>3, <1>4, <1>5, <1>6, <1>7, <1>8, <1>9, <1>10 DEF Next, Teardown

(* Whatever puts are rejected, and however calls, releases and settlements   *)
(* interleave: a driver that has not settled is, until the teardown starts,  *)
(* the registered driver of its loop, unless the put of an earlier driver of *)
(* that loop was rejected; so two unsettled drivers of one loop need a third *)
(* one before them whose put was rejected.                                   *)
THEOREM OnlyPredecessorsFreeTheSlot == Spec => []FirstDriverKeepsSlot
<1>1. Inv /\ Slots /\ [Next]_vars => Slots'
  BY SlotsNext
<1>2. Slots => FirstDriverKeepsSlot
  BY DEF Slots
<1>. QED BY <1>1, <1>2, InvAlways, SlotsInit, PTL DEF Spec

(* As long as no put of a driver was rejected, the waiter count of a         *)
(* registered loop is the number of open handles on it, however calls,       *)
(* disposals and releases interleave: only the last dispose releases the     *)
(* driver.                                                                   *)
THEOREM WaitersCountHandles == Spec => []WaitersAreHandles
<1>1. Inv => WaitersAreHandles
  BY DEF Inv, Calm, Owned, WaitersAreHandles
<1>. QED BY <1>1, InvAlways, PTL
=============================================================================
