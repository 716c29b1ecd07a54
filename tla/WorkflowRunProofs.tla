-------------------------- MODULE WorkflowRunProofs --------------------------
(***************************************************************************)
(* Proofs about WorkflowRun for any number of agent() calls and slots.      *)
(***************************************************************************)
EXTENDS WorkflowRun, FiniteSetTheorems, SequenceTheorems, TLAPS

-----------------------------------------------------------------------------
(* The inductive invariant.                                                 *)

(* The slots: at most MaxConcurrentAgents calls have one, and the queue     *)
(* holds each waiting call at most once and no other call.                  *)
SlotInv ==
  /\ Cardinality(Active) <= MaxConcurrentAgents
  /\ \A i \in 1..Len(slotWaiters) : call[slotWaiters[i]] = "waiting"
  /\ \A i, j \in 1..Len(slotWaiters) : slotWaiters[i] = slotWaiters[j] => i = j

(* A child the host holds belongs to a call that has a slot.                *)
ChildInv ==
  \A c \in Calls :
    /\ child[c] \in {"starting", "late"} => call[c] = "starting"
    /\ child[c] = "live" => call[c] \in {"awaiting", "ended"}
    /\ child[c] = "disposing" => call[c] \in {"awaiting", "ended", "disposing"}

(* What drive() has reached says of the signal, the result and the children. *)
LifeInv ==
  /\ drive = "cwd" => \A c \in Calls : child[c] = "none"
  /\ drive \in {"cwd", "running"} => result = "none" /\ (aborted <=> cancelled)
  /\ drive \notin {"cwd", "running"} =>
       aborted /\ result # "none" /\ (cancelled <=> result = "cancelled")
  /\ \A c \in Calls : /\ aborted => child[c] # "live"
                      /\ child[c] = "late" => aborted
  /\ drive \in {"sweeping", "done"} => \A c \in Calls : child[c] \in {"none", "disposing", "gone"}
  /\ drive = "done" => \A c \in Calls : child[c] # "disposing" /\ announced[c] # "started"

(* While the run is active an event on its way names a live child.           *)
Named(q) == \A i \in 1..Len(q) : child[q[i].call] = "live"

EventInv == ~aborted => Named(inFlight) /\ Named(queued)

Events == [kind : {"start", "end"}, call : Calls]

(* TypeOK without its bound on the children, which follows from the slots.   *)
Shape ==
  /\ drive \in {"cwd", "running", "settling", "sweeping", "done"}
  /\ aborted \in BOOLEAN /\ cancelled \in BOOLEAN
  /\ result \in {"none", "completed", "error", "cancelled"}
  /\ child \in [Calls -> {"none", "starting", "live", "disposing", "late", "gone"}]
  /\ announced \in [Calls -> {"none", "started", "ended"}]
  /\ script \in {"running", "draining", "sent"} /\ value \in {"completed", "error"}
  /\ call \in [Calls -> {"none", "waiting", "starting", "awaiting", "ended", "disposing", "done"}]
  /\ slotWaiters \in Seq(Calls)
  /\ queued \in Seq(Events) /\ inFlight \in Seq(Events)
  /\ queued # << >> => inFlight # << >>

Inv == Shape /\ SlotInv /\ ChildInv /\ LifeInv /\ EventInv

-----------------------------------------------------------------------------
(* Lemmas about the helpers.                                                 *)

(* Any set of calls is finite. *)
LEMMA CallsFinite ==
  ASSUME NEW S, S \subseteq Calls
  PROVE  IsFiniteSet(S) /\ Cardinality(S) \in Nat
<1>1. IsFiniteSet(Calls)
  BY LimitsAssumption, FS_Interval DEF Calls
<1>. QED BY <1>1, FS_Subset, FS_CardinalityType

(* A slot that is given back goes to one waiter or to nobody. *)
LEMMA ReleaseSlotLemma ==
  ASSUME Shape, SlotInv, NEW c \in Calls, c \in Active, ReleaseSlot(c)
  PROVE  /\ SlotInv'
         /\ slotWaiters' \in Seq(Calls)
         /\ call' \in [Calls -> {"none", "waiting", "starting", "awaiting", "ended", "disposing", "done"}]
         /\ call'[c] = "done"
         /\ \A d \in Calls \ {c} :
              call'[d] = call[d] \/ (call[d] = "waiting" /\ call'[d] = "starting")
<1>. /\ IsFiniteSet(Active \ {c})
     /\ Cardinality(Active \ {c}) = Cardinality(Active) - 1
     /\ Cardinality(Active) \in Nat
  BY CallsFinite, FS_RemoveElement DEF Active
<1>1. CASE slotWaiters = << >>
  <2>1. call' = [call EXCEPT ![c] = "done"] /\ slotWaiters' = slotWaiters
    BY <1>1 DEF ReleaseSlot
  <2>2. Active' = Active \ {c}
    BY <2>1 DEF Active, Shape
  <2>. QED BY <1>1, <2>1, <2>2, LimitsAssumption DEF SlotInv, Shape
<1>2. CASE slotWaiters # << >>
  <2>. DEFINE h == Head(slotWaiters)
  <2>1. /\ h = slotWaiters[1] /\ h \in Calls /\ call[h] = "waiting"
        /\ Len(slotWaiters) \in Nat \ {0}
    BY <1>2 DEF SlotInv, Shape
  <2>2. h # c /\ h \notin Active
    BY <2>1 DEF Active
  <2>3. call' = [call EXCEPT ![c] = "done", ![h] = "starting"] /\ slotWaiters' = Tail(slotWaiters)
    BY <1>2 DEF ReleaseSlot
  <2>4. Active' = (Active \ {c}) \cup {h}
    <3>. HIDE DEF h
    <3>1. \A d \in Calls : call'[d] = IF d = h THEN "starting" ELSE IF d = c THEN "done" ELSE call[d]
      BY <2>1, <2>2, <2>3 DEF Shape
    <3>2. Active' = {d \in Calls : (d # c /\ d \in Active) \/ d = h}
      BY <2>2, <3>1 DEF Active
    <3>3. Active \subseteq Calls /\ h \in Calls
      BY <2>1 DEF Active
    <3>. QED BY <3>2, <3>3
  <2>5. Cardinality(Active') = Cardinality(Active)
    <3>. HIDE DEF h
    <3>1. Cardinality((Active \ {c}) \cup {h}) = Cardinality(Active \ {c}) + 1
      BY <2>2, FS_AddElement
    <3>. QED BY <2>4, <3>1
  <2>6. /\ Tail(slotWaiters) \in Seq(Calls)
        /\ Len(Tail(slotWaiters)) = Len(slotWaiters) - 1
        /\ \A i \in 1..Len(Tail(slotWaiters)) : Tail(slotWaiters)[i] = slotWaiters[i + 1]
    BY <1>2, HeadTailProperties DEF Shape
  <2>7. \A i \in 1..Len(slotWaiters') :
          /\ i + 1 \in 1..Len(slotWaiters) /\ slotWaiters'[i] = slotWaiters[i + 1]
          /\ slotWaiters'[i] # h /\ slotWaiters'[i] # c
    BY <2>1, <2>3, <2>6 DEF SlotInv, Active
  <2>8. \A i \in 1..Len(slotWaiters') : call'[slotWaiters'[i]] = "waiting"
    BY <2>3, <2>7 DEF SlotInv, Shape
  <2>9. \A i, j \in 1..Len(slotWaiters') : slotWaiters'[i] = slotWaiters'[j] => i = j
    <3>. SUFFICES ASSUME NEW i \in 1..Len(slotWaiters'), NEW j \in 1..Len(slotWaiters'),
                         slotWaiters'[i] = slotWaiters'[j]
                  PROVE  i = j
      OBVIOUS
    <3>1. i + 1 = j + 1
      BY <2>7 DEF SlotInv
    <3>. QED BY <3>1, <2>6, <2>3
  <2>10. SlotInv'
    BY <2>5, <2>8, <2>9 DEF SlotInv
  <2>. HIDE DEF h
  <2>. QED BY <2>1, <2>2, <2>3, <2>6, <2>10 DEF Shape
<1>. QED BY <1>1, <1>2

(* Sending keeps the channel a sequence of events, and adds this one only.   *)
LEMMA SendLemma ==
  ASSUME Shape, NEW c \in Calls, NEW kind \in {"start", "end"}, Send(Event(kind, c))
  PROVE  /\ queued' \in Seq(Events) /\ inFlight' \in Seq(Events) /\ inFlight' # << >>
         /\ \A i \in 1..Len(inFlight') :
              inFlight'[i].call = c \/ (i \in 1..Len(inFlight) /\ inFlight'[i] = inFlight[i])
         /\ \A i \in 1..Len(queued') :
              queued'[i].call = c \/ (i \in 1..Len(queued) /\ queued'[i] = queued[i])
<1>. DEFINE e == Event(kind, c)
<1>0. e \in Events /\ e.call = c
  BY DEF Event, Events
<1>. HIDE DEF e
<1>1. CASE inFlight = << >>
  <2>1. inFlight' = <<e>> /\ queued' = queued
    BY <1>1 DEF Send, e
  <2>. QED BY <1>0, <2>1 DEF Shape
<1>2. CASE inFlight # << >>
  <2>1. inFlight' = inFlight /\ queued' = Append(queued, e)
    BY <1>2 DEF Send, e
  <2>2. /\ Append(queued, e) \in Seq(Events)
        /\ Len(Append(queued, e)) = Len(queued) + 1
        /\ \A i \in 1..Len(queued) : Append(queued, e)[i] = queued[i]
        /\ Append(queued, e)[Len(queued) + 1] = e
    BY <1>0, AppendProperties DEF Shape
  <2>3. Len(queued) \in Nat
    BY DEF Shape
  <2>4. \A i \in 1..Len(queued') : i \in 1..Len(queued) \/ i = Len(queued) + 1
    BY <2>1, <2>2, <2>3
  <2>. QED BY <1>0, <1>2, <2>1, <2>2, <2>4 DEF Shape
<1>. QED BY <1>1, <1>2

(* A batch changes only what the observer saw of the calls its events name.  *)
LEMMA OnProgressLemma ==
  ASSUME NEW seen \in [Calls -> {"none", "started", "ended"}], NEW batch \in Seq(Events)
  PROVE  /\ OnProgress(seen, batch) \in [Calls -> {"none", "started", "ended"}]
         /\ \A c \in Calls : OnProgress(seen, batch)[c] # seen[c] =>
              \E i \in 1..Len(batch) : batch[i].call = c
<1>1. DOMAIN batch = 1..Len(batch)
  OBVIOUS
<1>. QED BY <1>1 DEF OnProgress, Event

(* Children are only put on their way out. *)
LEMMA DisposePublishedLemma ==
  ASSUME Shape, DisposePublished
  PROVE  /\ child' \in [Calls -> {"none", "starting", "live", "disposing", "late", "gone"}]
         /\ \A c \in Calls : /\ child[c] = "live" => child'[c] = "disposing"
                             /\ child[c] # "live" => child'[c] = child[c]
  BY DEF Shape, DisposePublished

-----------------------------------------------------------------------------
(* Every step preserves each part of the invariant.                          *)

LEMMA InitInv == Init => Inv
<1>. SUFFICES ASSUME Init PROVE Inv
  OBVIOUS
<1>1. Active = {} /\ Cardinality({}) = 0
  BY FS_EmptySet DEF Init, Active
<1>2. SlotInv
  BY <1>1, LimitsAssumption DEF Init, SlotInv
<1>3. Shape
  <2>1. \A S : << >> \in Seq(S)
    OBVIOUS
  <2>2. slotWaiters \in Seq(Calls) /\ queued \in Seq(Events) /\ inFlight \in Seq(Events)
    BY <2>1 DEF Init
  <2>. QED BY <2>2 DEF Init, Shape
<1>4. ChildInv /\ LifeInv
  BY DEF Init, ChildInv, LifeInv
<1>5. Len(inFlight) = 0 /\ Len(queued) = 0
  BY DEF Init
<1>6. EventInv
  BY <1>5 DEF EventInv, Named
<1>. QED BY <1>2, <1>3, <1>4, <1>6 DEF Inv

LEMMA ShapeNext == Inv /\ [Next]_vars => Shape'
<1>. SUFFICES ASSUME Inv, [Next]_vars PROVE Shape'
  OBVIOUS
<1>0. Shape /\ SlotInv
  BY DEF Inv
<1>. USE DEF vars, hostVars, guestVars
<1>1. CASE Cancel
  BY <1>0, <1>1, DisposePublishedLemma DEF Cancel, Shape
<1>2. CASE Begin
  BY <1>0, <1>2 DEF Begin, Shape
<1>3. CASE PendingSettled
  BY <1>0, <1>3, DisposePublishedLemma DEF PendingSettled, Shape
<1>4. CASE Swept
  BY <1>0, <1>4 DEF Swept, Shape
<1>5. CASE Progress
  BY <1>0, <1>5, OnProgressLemma DEF Progress, Shape
<1>6. ASSUME NEW r \in {"completed", "error"}, Conclude(r) PROVE Shape'
  BY <1>0, <1>6, DisposePublishedLemma DEF Conclude, Outcome, Shape
<1>7. ASSUME NEW c \in Calls, StartChild(c) PROVE Shape'
  BY <1>0, <1>7 DEF StartChild, Shape
<1>8. ASSUME NEW c \in Calls, ChildStarted(c) PROVE Shape'
  <2>1. CASE aborted
    BY <1>0, <1>8, <2>1 DEF ChildStarted, Shape
  <2>2. CASE ~aborted
    <3>1. Send(Event("start", c))
      BY <1>8, <2>2 DEF ChildStarted
    <3>2. queued' \in Seq(Events) /\ inFlight' \in Seq(Events) /\ inFlight' # << >>
      BY <1>0, <3>1, SendLemma
    <3>. QED BY <1>0, <1>8, <2>2, <3>2 DEF ChildStarted, Shape
  <2>. QED BY <2>1, <2>2
<1>9. ASSUME NEW c \in Calls, ChildStartFails(c) PROVE Shape'
  <2>1. CASE aborted
    BY <1>0, <1>9, <2>1 DEF ChildStartFails, Shape
  <2>2. CASE ~aborted
    <3>1. c \in Active
      BY <1>9 DEF ChildStartFails, Inv, ChildInv, Active
    <3>. QED BY <1>0, <1>9, <2>2, <3>1, ReleaseSlotLemma DEF ChildStartFails, Shape
  <2>. QED BY <2>1, <2>2
<1>10. ASSUME NEW c \in Calls, ChildResult(c) PROVE Shape'
  <2>1. queued' \in Seq(Events) /\ inFlight' \in Seq(Events) /\ inFlight' # << >>
    BY <1>0, <1>10, SendLemma DEF ChildResult
  <2>. QED BY <1>0, <1>10, <2>1 DEF ChildResult, Shape
<1>11. ASSUME NEW c \in Calls, ChildDisposed(c) PROVE Shape'
  <2>1. CASE GuestRuns /\ call[c] = "disposing"
    <3>1. c \in Active
      BY <2>1 DEF Active
    <3>. QED BY <1>0, <1>11, <2>1, <3>1, ReleaseSlotLemma DEF ChildDisposed, Shape
  <2>2. CASE ~(GuestRuns /\ call[c] = "disposing")
    BY <1>0, <1>11, <2>2 DEF ChildDisposed, Shape
  <2>. QED BY <2>1, <2>2
<1>12. CASE GuestReturns \/ \E v \in {"completed", "error"} : ScriptReturns(v)
  BY <1>0, <1>12 DEF GuestReturns, ScriptReturns, Shape
<1>13. ASSUME NEW c \in Calls, Agent(c) PROVE Shape'
  <2>1. Append(slotWaiters, c) \in Seq(Calls)
    BY <1>0 DEF Shape
  <2>. QED BY <1>0, <1>13, <2>1 DEF Agent, Shape
<1>14. ASSUME NEW c \in Calls, Dispose(c) PROVE Shape'
  BY <1>0, <1>14 DEF Dispose, Shape
<1>15. CASE UNCHANGED vars
  BY <1>0, <1>15 DEF Shape
<1>. QED
  BY <1>1, <1>2, <1>3, <1>4, <1>5, <1>6, <1>7, <1>8, <1>9, <1>10, <1>11, <1>12, <1>13, <1>14,
     <1>15 DEF Next, HostNext, GuestNext, Settled

(* A step that leaves the calls' slots alone. *)
LEMMA SlotsStay ==
  ASSUME SlotInv, Active' = Active, slotWaiters' = slotWaiters,
         \A i \in 1..Len(slotWaiters) : call'[slotWaiters[i]] = "waiting"
  PROVE  SlotInv'
  BY DEF SlotInv

LEMMA SlotNext == Inv /\ [Next]_vars => SlotInv'
<1>. SUFFICES ASSUME Inv, [Next]_vars PROVE SlotInv'
  OBVIOUS
<1>0. Shape /\ SlotInv /\ ChildInv
  BY DEF Inv
<1>w. \A i \in 1..Len(slotWaiters) : slotWaiters[i] \in Calls
  BY <1>0 DEF Shape
<1>. USE DEF vars, hostVars, guestVars
<1>1. ASSUME UNCHANGED <<call, slotWaiters>> PROVE SlotInv'
  BY <1>0, <1>1 DEF SlotInv, Active
<1>2. ASSUME NEW c \in Calls, ChildStarted(c) PROVE SlotInv'
  <2>1. CASE aborted
    BY <1>1, <1>2, <2>1 DEF ChildStarted
  <2>2. CASE ~aborted
    <3>1. call' = [call EXCEPT ![c] = "awaiting"] /\ slotWaiters' = slotWaiters
      BY <1>2, <2>2 DEF ChildStarted
    <3>2. call[c] = "starting"
      BY <1>0, <1>2 DEF ChildStarted, ChildInv
    <3>3. Active' = Active
      BY <1>0, <3>1, <3>2 DEF Active, Shape
    <3>. QED BY <1>0, <1>w, <3>1, <3>2, <3>3, SlotsStay DEF SlotInv, Shape
  <2>. QED BY <2>1, <2>2
<1>3. ASSUME NEW c \in Calls, ChildStartFails(c) PROVE SlotInv'
  <2>1. CASE aborted
    BY <1>1, <1>3, <2>1 DEF ChildStartFails
  <2>2. CASE ~aborted
    <3>1. c \in Active
      BY <1>0, <1>3 DEF ChildStartFails, ChildInv, Active
    <3>. QED BY <1>0, <1>3, <2>2, <3>1, ReleaseSlotLemma DEF ChildStartFails
  <2>. QED BY <2>1, <2>2
<1>4. ASSUME NEW c \in Calls, ChildResult(c) PROVE SlotInv'
  <2>1. call' = [call EXCEPT ![c] = "ended"] /\ slotWaiters' = slotWaiters /\ call[c] = "awaiting"
    BY <1>4 DEF ChildResult
  <2>2. Active' = Active
    BY <1>0, <2>1 DEF Active, Shape
  <2>. QED BY <1>0, <1>w, <2>1, <2>2, SlotsStay DEF SlotInv, Shape
<1>5. ASSUME NEW c \in Calls, ChildDisposed(c) PROVE SlotInv'
  <2>1. CASE GuestRuns /\ call[c] = "disposing"
    <3>1. c \in Active
      BY <2>1 DEF Active
    <3>. QED BY <1>0, <1>5, <2>1, <3>1, ReleaseSlotLemma DEF ChildDisposed
  <2>2. CASE ~(GuestRuns /\ call[c] = "disposing")
    BY <1>1, <1>5, <2>2 DEF ChildDisposed
  <2>. QED BY <2>1, <2>2
<1>6. ASSUME NEW c \in Calls, Agent(c) PROVE SlotInv'
  <2>0. call[c] = "none" /\ c \notin Active
    BY <1>6 DEF Agent, Active
  <2>1. CASE Cardinality(Active) < MaxConcurrentAgents
    <3>1. call' = [call EXCEPT ![c] = "starting"] /\ slotWaiters' = slotWaiters
      BY <1>6, <2>1 DEF Agent
    <3>2. Active' = Active \cup {c}
      BY <1>0, <3>1 DEF Active, Shape
    <3>3. IsFiniteSet(Active) /\ Cardinality(Active) \in Nat
      BY CallsFinite DEF Active
    <3>4. Cardinality(Active') = Cardinality(Active) + 1
      BY <2>0, <3>2, <3>3, FS_AddElement
    <3>5. Cardinality(Active') <= MaxConcurrentAgents
      BY <2>1, <3>3, <3>4, LimitsAssumption
    <3>. QED BY <1>0, <1>w, <2>0, <3>1, <3>5 DEF SlotInv, Shape
  <2>2. CASE ~(Cardinality(Active) < MaxConcurrentAgents)
    <3>1. call' = [call EXCEPT ![c] = "waiting"] /\ slotWaiters' = Append(slotWaiters, c)
      BY <1>6, <2>2 DEF Agent
    <3>2. Active' = Active
      BY <1>0, <2>0, <3>1 DEF Active, Shape
    <3>3. /\ Len(slotWaiters') = Len(slotWaiters) + 1 /\ Len(slotWaiters) \in Nat
          /\ \A i \in 1..Len(slotWaiters) : slotWaiters'[i] = slotWaiters[i]
          /\ slotWaiters'[Len(slotWaiters) + 1] = c
      BY <1>0, <3>1, AppendProperties DEF Shape
    <3>4. \A i \in 1..Len(slotWaiters') : i \in 1..Len(slotWaiters) \/ i = Len(slotWaiters) + 1
      BY <3>3
    <3>5. \A i \in 1..Len(slotWaiters) : slotWaiters'[i] # c
      BY <1>0, <2>0, <3>3 DEF SlotInv
    <3>6. \A i, j \in 1..Len(slotWaiters') : slotWaiters'[i] = slotWaiters'[j] => i = j
      BY <1>0, <3>3, <3>4, <3>5 DEF SlotInv
    <3>7. \A i \in 1..Len(slotWaiters') : call'[slotWaiters'[i]] = "waiting"
      BY <1>0, <1>w, <3>1, <3>3, <3>4, <3>5 DEF SlotInv, Shape
    <3>. QED BY <1>0, <3>2, <3>6, <3>7 DEF SlotInv
  <2>. QED BY <2>1, <2>2
<1>7. ASSUME NEW c \in Calls, Dispose(c) PROVE SlotInv'
  <2>1. call' = [call EXCEPT ![c] = "disposing"] /\ slotWaiters' = slotWaiters /\ call[c] = "ended"
    BY <1>7 DEF Dispose
  <2>2. Active' = Active
    BY <1>0, <2>1 DEF Active, Shape
  <2>. QED BY <1>0, <1>w, <2>1, <2>2, SlotsStay DEF SlotInv, Shape
<1>. QED
  BY <1>1, <1>2, <1>3, <1>4, <1>5, <1>6, <1>7
     DEF Next, HostNext, GuestNext, Settled, Cancel, Begin, PendingSettled, Swept, Progress,
         Conclude, StartChild, GuestReturns, ScriptReturns

LEMMA ChildNext == Inv /\ [Next]_vars => ChildInv'
<1>. SUFFICES ASSUME Inv, [Next]_vars PROVE ChildInv'
  OBVIOUS
<1>0. Shape /\ SlotInv /\ ChildInv /\ LifeInv
  BY DEF Inv
<1>. USE DEF vars, hostVars, guestVars, ChildInv
<1>1. ASSUME DisposePublished, UNCHANGED call PROVE ChildInv'
  BY <1>0, <1>1, DisposePublishedLemma
<1>2. ASSUME UNCHANGED <<child, call>> PROVE ChildInv'
  BY <1>0, <1>2
<1>3. ASSUME NEW c \in Calls, StartChild(c) PROVE ChildInv'
  BY <1>0, <1>3 DEF StartChild, Shape
<1>4. ASSUME NEW c \in Calls, ChildStarted(c) PROVE ChildInv'
  BY <1>0, <1>4 DEF ChildStarted, Shape
<1>5. ASSUME NEW c \in Calls, ChildStartFails(c) PROVE ChildInv'
  <2>1. CASE aborted
    BY <1>0, <1>5, <2>1 DEF ChildStartFails, Shape
  <2>2. CASE ~aborted
    <3>1. c \in Active
      BY <1>0, <1>5 DEF ChildStartFails, Active
    <3>. QED BY <1>0, <1>5, <2>2, <3>1, ReleaseSlotLemma DEF ChildStartFails, Shape
  <2>. QED BY <2>1, <2>2
<1>6. ASSUME NEW c \in Calls, ChildResult(c) PROVE ChildInv'
  BY <1>0, <1>6 DEF ChildResult, Shape
<1>7. ASSUME NEW c \in Calls, ChildDisposed(c) PROVE ChildInv'
  <2>1. CASE GuestRuns /\ call[c] = "disposing"
    <3>1. c \in Active
      BY <2>1 DEF Active
    <3>. QED BY <1>0, <1>7, <2>1, <3>1, ReleaseSlotLemma DEF ChildDisposed, Shape
  <2>2. CASE ~(GuestRuns /\ call[c] = "disposing")
    BY <1>0, <1>7, <2>2 DEF ChildDisposed, Shape
  <2>. QED BY <2>1, <2>2
<1>8. ASSUME NEW c \in Calls, Agent(c) PROVE ChildInv'
  BY <1>0, <1>8 DEF Agent, Shape
<1>9. ASSUME NEW c \in Calls, Dispose(c) PROVE ChildInv'
  BY <1>0, <1>9 DEF Dispose, Shape
<1>. QED
  BY <1>1, <1>2, <1>3, <1>4, <1>5, <1>6, <1>7, <1>8, <1>9
     DEF Next, HostNext, GuestNext, Settled, Cancel, Begin, PendingSettled, Swept, Progress,
         Conclude, GuestReturns, ScriptReturns

LEMMA LifeNext == Inv /\ [Next]_vars => LifeInv'
<1>. SUFFICES ASSUME Inv, [Next]_vars PROVE LifeInv'
  OBVIOUS
<1>0. Shape /\ ChildInv /\ LifeInv
  BY DEF Inv
<1>. USE DEF vars, hostVars, guestVars, LifeInv
<1>1. CASE Cancel
  <2>1. DisposePublished
    BY <1>1 DEF Cancel
  <2>. QED BY <1>0, <1>1, <2>1, DisposePublishedLemma DEF Cancel, Shape
<1>2. CASE Begin
  BY <1>0, <1>2 DEF Begin
<1>3. CASE PendingSettled
  <2>1. DisposePublished
    BY <1>3 DEF PendingSettled
  <2>. QED BY <1>0, <1>3, <2>1, DisposePublishedLemma DEF PendingSettled, Pending, Shape
<1>4. CASE Swept
  BY <1>0, <1>4 DEF Swept, Shape
<1>5. CASE Progress
  BY <1>0, <1>5 DEF Progress, GuestRuns
<1>6. ASSUME NEW r \in {"completed", "error"}, Conclude(r) PROVE LifeInv'
  <2>1. DisposePublished
    BY <1>6 DEF Conclude
  <2>. QED BY <1>0, <1>6, <2>1, DisposePublishedLemma DEF Conclude, Outcome, Shape
<1>7. ASSUME NEW c \in Calls, StartChild(c) PROVE LifeInv'
  BY <1>0, <1>7 DEF StartChild, GuestRuns, Shape
<1>8. ASSUME NEW c \in Calls, ChildStarted(c) PROVE LifeInv'
  <2>1. drive \notin {"cwd", "sweeping", "done"}
    BY <1>0, <1>8 DEF ChildStarted
  <2>. QED BY <1>0, <1>8, <2>1 DEF ChildStarted, Shape
<1>9. ASSUME NEW c \in Calls, ChildStartFails(c) PROVE LifeInv'
  <2>1. drive \notin {"cwd", "sweeping", "done"}
    BY <1>0, <1>9 DEF ChildStartFails
  <2>. QED BY <1>0, <1>9, <2>1 DEF ChildStartFails, Shape
<1>10. ASSUME NEW c \in Calls, ChildDisposed(c) PROVE LifeInv'
  BY <1>0, <1>10 DEF ChildDisposed, Shape
<1>11. ASSUME NEW c \in Calls, Dispose(c) PROVE LifeInv'
  BY <1>0, <1>11 DEF Dispose, GuestRuns, Shape
<1>12. ASSUME UNCHANGED hostVars PROVE LifeInv'
  BY <1>0, <1>12
<1>. QED
  BY <1>1, <1>2, <1>3, <1>4, <1>5, <1>6, <1>7, <1>8, <1>9, <1>10, <1>11, <1>12
     DEF Next, HostNext, GuestNext, Settled, ChildResult, GuestReturns, ScriptReturns, Agent

LEMMA EventNext == Inv /\ [Next]_vars => EventInv'
<1>. SUFFICES ASSUME Inv, [Next]_vars PROVE EventInv'
  OBVIOUS
<1>0. Shape /\ ChildInv /\ LifeInv /\ EventInv
  BY DEF Inv
<1>. USE DEF vars, hostVars, guestVars, EventInv, Named
<1>e. ASSUME NEW q \in Seq(Events), NEW i \in 1..Len(q) PROVE q[i].call \in Calls
  <2>1. q[i] \in Events
    BY <1>e
  <2>. QED BY <2>1 DEF Events
<1>t. /\ \A i \in 1..Len(inFlight) : inFlight[i].call \in Calls
      /\ \A i \in 1..Len(queued) : queued[i].call \in Calls
  BY <1>0, <1>e DEF Shape
<1>1. ASSUME aborted' PROVE EventInv'
  BY <1>1
<1>2. ASSUME aborted' = aborted, UNCHANGED <<queued, inFlight>>,
             \A c \in Calls : child[c] = "live" => child'[c] = "live"
      PROVE  EventInv'
  BY <1>0, <1>2, <1>t
<1>3. CASE Progress
  <2>1. queued' = << >> /\ inFlight' = queued /\ child' = child /\ aborted' = aborted
    BY <1>3 DEF Progress
  <2>2. Len(queued') = 0
    BY <2>1
  <2>3. \A i \in 1..Len(queued') : FALSE
    BY <2>2
  <2>. QED BY <1>0, <2>1, <2>3
<1>4. ASSUME NEW c \in Calls, StartChild(c) PROVE EventInv'
  BY <1>0, <1>2, <1>4 DEF StartChild, Shape
<1>5. ASSUME NEW c \in Calls, ChildStarted(c) PROVE EventInv'
  <2>1. CASE aborted
    BY <1>1, <1>5, <2>1 DEF ChildStarted
  <2>2. CASE ~aborted
    <3>1. Send(Event("start", c)) /\ child' = [child EXCEPT ![c] = "live"] /\ aborted' = aborted
      BY <1>5, <2>2 DEF ChildStarted
    <3>2. child'[c] = "live" /\ \A d \in Calls : child[d] = "live" => child'[d] = "live"
      BY <1>0, <3>1 DEF Shape
    <3>. QED BY <1>0, <1>t, <2>2, <3>1, <3>2, SendLemma
  <2>. QED BY <2>1, <2>2
<1>6. ASSUME NEW c \in Calls, ChildStartFails(c) PROVE EventInv'
  BY <1>0, <1>2, <1>6 DEF ChildStartFails, Shape
<1>7. ASSUME NEW c \in Calls, ChildResult(c) PROVE EventInv'
  <2>1. Send(Event("end", c)) /\ child' = child /\ child[c] = "live" /\ aborted' = aborted
    BY <1>7 DEF ChildResult
  <2>. QED BY <1>0, <1>t, <2>1, SendLemma
<1>8. ASSUME NEW c \in Calls, ChildDisposed(c) PROVE EventInv'
  BY <1>0, <1>2, <1>8 DEF ChildDisposed, Shape
<1>9. ASSUME NEW c \in Calls, Dispose(c) PROVE EventInv'
  <2>1. inFlight' = << >> /\ queued' = << >>
    BY <1>0, <1>9 DEF Dispose, Shape
  <2>2. Len(inFlight') = 0 /\ Len(queued') = 0
    BY <2>1
  <2>. QED BY <2>2
<1>10. ASSUME UNCHANGED <<aborted, child, queued, inFlight>> PROVE EventInv'
  BY <1>0, <1>10
<1>11. CASE PendingSettled \/ Swept
  <2>1. aborted /\ aborted' = aborted
    BY <1>0, <1>11 DEF PendingSettled, Swept, LifeInv
  <2>. QED BY <1>1, <2>1
<1>. QED
  BY <1>1, <1>3, <1>4, <1>5, <1>6, <1>7, <1>8, <1>9, <1>10, <1>11
     DEF Next, HostNext, GuestNext, Settled, Cancel, Begin, Conclude, GuestReturns,
         ScriptReturns, Agent

(* The host holds at most as many children as there are slots. *)
LEMMA HeldBound ==
  ASSUME Shape, SlotInv, ChildInv
  PROVE  Cardinality({c \in Calls : child[c] \notin {"none", "gone"}}) <= MaxConcurrentAgents
<1>. DEFINE H == {c \in Calls : child[c] \notin {"none", "gone"}}
<1>1. H \subseteq Active
  BY DEF Shape, ChildInv, Active
<1>2. Active \subseteq Calls
  BY DEF Active
<1>3. Cardinality(H) <= Cardinality(Active)
  <2>. HIDE DEF H
  <2>. QED BY <1>1, <1>2, CallsFinite, FS_Subset
<1>4. Cardinality(H) \in Nat /\ Cardinality(Active) \in Nat
  BY <1>2, CallsFinite
<1>. HIDE DEF H
<1>5. Cardinality(H) <= MaxConcurrentAgents
  BY <1>3, <1>4, LimitsAssumption DEF SlotInv
<1>. QED BY <1>5 DEF H

LEMMA InvNext == Inv /\ [Next]_vars => Inv'
<1>. SUFFICES ASSUME Inv, [Next]_vars PROVE Inv'
  OBVIOUS
<1>1. Shape' /\ SlotInv' /\ ChildInv' /\ LifeInv' /\ EventInv'
  BY ShapeNext, SlotNext, ChildNext, LifeNext, EventNext
<1>. QED BY <1>1 DEF Inv

LEMMA Invariance == Spec => []Inv
  BY InitInv, InvNext, PTL DEF Spec

-----------------------------------------------------------------------------
(* The theorems.                                                            *)

(* For any limits the host's state is well formed, progress queues only     *)
(* behind a frame in flight, and the guest's slots bound the children the   *)
(* host holds at once: slots are handed over, never duplicated.             *)
THEOREM TypeCorrect == Spec => []TypeOK
<1>1. Inv => TypeOK
  BY HeldBound DEF Inv, Shape, TypeOK, Events
<1>. QED BY <1>1, Invariance, PTL

(* When drive() returns, every admitted child was released and every agent  *)
(* that was announced has been announced to end.                            *)
THEOREM RunSettlesClean == Spec => []SettledIsClean
<1>1. Inv => SettledIsClean
  BY DEF Inv, LifeInv, SettledIsClean, Shape
<1>. QED BY <1>1, Invariance, PTL

(* The observer hears of an agent only while its child is registered, the   *)
(* closing sweep excepted.                                                  *)
THEOREM AnnouncementsNameLiveChildren == Spec => AnnouncedWhileLive
<1>1. Inv /\ [Next]_vars =>
        [\A c \in Calls : announced'[c] # announced[c] => child[c] = "live" \/ drive' = "done"]_vars
  <2>. SUFFICES ASSUME Inv, Next, NEW c \in Calls, announced'[c] # announced[c]
                PROVE  child[c] = "live" \/ drive' = "done"
    BY DEF vars
  <2>. USE DEF hostVars, guestVars, vars
  <2>1. CASE Progress
    <3>1. PICK i \in 1..Len(inFlight) : inFlight[i].call = c
      BY <2>1, OnProgressLemma DEF Progress, Inv, Shape
    <3>. QED BY <2>1, <3>1 DEF Progress, GuestRuns, Inv, EventInv, Named
  <2>2. CASE Swept
    BY <2>2 DEF Swept
  <2>3. CASE ~Progress /\ ~Swept
    BY <2>3 DEF Next, HostNext, GuestNext, Settled, Cancel, Begin, PendingSettled, Conclude,
               StartChild, ChildStarted, ChildStartFails, ChildResult, ChildDisposed, GuestReturns,
               ScriptReturns, Agent, Dispose
  <2>. QED BY <2>1, <2>2, <2>3
<1>. QED BY <1>1, Invariance, PTL DEF Spec, AnnouncedWhileLive

(* What the holder sees of the run. *)
Held == {c \in Calls : child[c] \notin {"none", "gone"}}
Told == IF drive = "done" THEN result ELSE "none"

(* A step that neither admits, releases, stops nor settles is hidden.        *)
LEMMA HandleHidden ==
  ASSUME Held' = Held, aborted' = aborted, cancelled' = cancelled, Told' = Told
  PROVE  [Handle!Next]_<<Held, aborted, cancelled, Told>>
  OBVIOUS

(* A step of one child admits its call, releases it or is hidden.            *)
LEMMA HandleChild ==
  ASSUME Shape, NEW c \in Calls, NEW v, child' = [child EXCEPT ![c] = v],
         aborted' = aborted, cancelled' = cancelled, drive' = drive, result' = result,
         child[c] = "none" => ~aborted, child[c] # "gone", v # "none"
  PROVE  [Handle!Next]_<<Held, aborted, cancelled, Told>>
<1>1. Told' = Told
  BY DEF Told
<1>2. CASE child[c] = "none" /\ v # "gone"
  <2>1. c \notin Held /\ Held' = Held \cup {c}
    BY <1>2 DEF Held, Shape
  <2>2. Handle!Admit(c)
    BY <1>1, <1>2, <2>1 DEF Handle!Admit, Held, Told
  <2>. QED BY <2>2 DEF Handle!Next
<1>3. CASE child[c] # "none" /\ v = "gone"
  <2>1. c \in Held /\ Held' = Held \ {c}
    BY <1>3 DEF Held, Shape
  <2>2. Handle!Release(c)
    BY <1>1, <2>1 DEF Handle!Release, Held, Told
  <2>. QED BY <2>2 DEF Handle!Next
<1>4. CASE child[c] = "none" <=> v = "gone"
  <2>1. Held' = Held
    BY <1>4 DEF Held, Shape
  <2>. QED BY <1>1, <2>1
<1>. QED BY <1>2, <1>3, <1>4

LEMMA HandleStep ==
  ASSUME Inv, [Next]_vars
  PROVE  [Handle!Next]_<<Held, aborted, cancelled, Told>>
<1>0. Shape /\ LifeInv
  BY DEF Inv
<1>. USE DEF vars, hostVars, guestVars
<1>1. ASSUME DisposePublished PROVE Held' = Held
  BY <1>0, <1>1, DisposePublishedLemma DEF Held, Shape
<1>2. CASE Cancel
  <2>1. Held' = Held /\ ~aborted /\ Told' = Told
    BY <1>0, <1>1, <1>2 DEF Cancel, LifeInv, Told
  <2>2. Handle!Cancel
    BY <1>2, <2>1 DEF Cancel, Handle!Cancel, Held, Told
  <2>. QED BY <2>2 DEF Handle!Next
<1>3. ASSUME NEW r \in {"completed", "error"}, Conclude(r)
      PROVE  [Handle!Next]_<<Held, aborted, cancelled, Told>>
  <2>1. Held' = Held /\ cancelled' = cancelled /\ aborted' /\ Told' = Told
    BY <1>1, <1>3 DEF Conclude, Told
  <2>2. CASE aborted
    BY <1>0, <2>1, <2>2 DEF Shape
  <2>3. CASE ~aborted
    <3>1. Handle!Conclude
      BY <1>0, <1>3, <2>1, <2>3 DEF Conclude, Handle!Conclude, Held, Told, Shape
    <3>. QED BY <3>1 DEF Handle!Next
  <2>. QED BY <2>2, <2>3
<1>4. CASE PendingSettled
  <2>1. Held' = Held /\ Told' = Told
    BY <1>1, <1>4 DEF PendingSettled, Told
  <2>. QED BY <1>4, <2>1 DEF PendingSettled
<1>5. CASE Swept
  <2>1. /\ Held = {} /\ Held' = {} /\ aborted /\ Told = "none" /\ Told' = result
        /\ result \in {"completed", "error", "cancelled"} /\ (cancelled <=> result = "cancelled")
    BY <1>0, <1>5 DEF Swept, Held, Told, LifeInv, Shape
  <2>2. Handle!Settle(result)
    BY <1>5, <2>1 DEF Swept, Handle!Settle, Held, Told
  <2>. QED BY <2>1, <2>2 DEF Handle!Next
<1>6. CASE Begin
  <2>1. Held' = Held /\ Told' = Told
    BY <1>6 DEF Begin, Held, Told
  <2>. QED BY <1>6, <2>1 DEF Begin
<1>7. ASSUME NEW c \in Calls,
             StartChild(c) \/ ChildStarted(c) \/ ChildStartFails(c) \/ ChildDisposed(c) \/ Dispose(c)
      PROVE  [Handle!Next]_<<Held, aborted, cancelled, Told>>
  <2>1. \E v \in {"starting", "late", "live", "gone", "disposing"} :
          child' = [child EXCEPT ![c] = v]
    BY <1>7 DEF StartChild, ChildStarted, ChildStartFails, ChildDisposed, Dispose
  <2>2. /\ aborted' = aborted /\ cancelled' = cancelled /\ drive' = drive /\ result' = result
        /\ (child[c] = "none" => ~aborted) /\ child[c] # "gone"
    BY <1>7 DEF StartChild, ChildStarted, ChildStartFails, ChildDisposed, Dispose, GuestRuns
  <2>. QED BY <1>0, <2>1, <2>2, HandleChild
<1>8. ASSUME UNCHANGED <<drive, aborted, cancelled, result, child>>
      PROVE  [Handle!Next]_<<Held, aborted, cancelled, Told>>
  BY <1>8 DEF Held, Told
<1>. QED
  BY <1>2, <1>3, <1>4, <1>5, <1>6, <1>7, <1>8
     DEF Next, HostNext, GuestNext, Settled, Progress, ChildResult, GuestReturns, ScriptReturns,
         Agent

(* What the holder relies on: nothing is admitted once the run was stopped,  *)
(* the result comes after the last release, and an accepted cancellation is  *)
(* the outcome.  Each step of host and guest is one step of RunHandle.       *)
THEOREM RunImplementsRunHandle == Spec => ImplementsRunHandle
<1>1. Init => Handle!Init
  BY DEF Init, Handle!Init
<1>2. Inv /\ [Next]_vars => [Handle!Next]_<<Held, aborted, cancelled, Told>>
  BY HandleStep
<1>. QED
  BY <1>1, <1>2, Invariance, PTL DEF Spec, ImplementsRunHandle, Handle!Spec, Held, Told
=============================================================================
