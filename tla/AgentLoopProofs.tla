-------------------------- MODULE AgentLoopProofs --------------------------
(***************************************************************************)
(* Proofs about AgentLoop: the log is balanced wherever the driver rests,   *)
(* an aborted driver only unwinds, and no message is lost or duplicated     *)
(* between the inbox, the driver's hand and its fate.                       *)
(***************************************************************************)
EXTENDS AgentLoop, SequenceTheorems, TLAPS

(* Where a turn, a step and claimed messages may be open. *)
InTurn == {"claim", "claimTurn", "preStep", "step", "admit", "request", "stopping"}

Holding == {"claimTurn", "preStep", "step", "admit"}

Control ==
  /\ phase \in {"idle", "maintenance", "running"}
  /\ abort \in Causes \union {"none"} /\ (phase = "idle" => abort = "none")
  /\ wakeRequested \in BOOLEAN /\ stepped \in BOOLEAN /\ ended \in Endings
  /\ at \in {"none", "open", "turnEnd", "retire"} \union InTurn
  /\ (at = "none") <=> (phase # "running")
  /\ disposed \in BOOLEAN

LogShape ==
  /\ turnOpen \in BOOLEAN /\ stepOpen \in BOOLEAN
  /\ turnOpen <=> at \in InTurn
  /\ stepOpen => at \in {"step", "admit", "request"}

Mail ==
  /\ inbox \in [Targets -> Seq(Messages)] /\ hand \in Seq(Messages)
  /\ fate \in [Messages -> {"unsent", "sent", "admitted", "discarded", "dropped"}]
  /\ hand # << >> => at \in Holding

Inv == Control /\ LogShape /\ Mail

LEMMA ControlLogNext == Control /\ LogShape /\ [Next]_vars => Control' /\ LogShape'
<1>. SUFFICES ASSUME Control, LogShape, [Next]_vars PROVE Control' /\ LogShape'
  OBVIOUS
<1>. USE AgentLoopAssumption DEF Control, LogShape, InTurn, Endings, At, Aborted, GoTo, EnterPhase, vars, control, log
<1>1. CASE OpenTurn
  BY <1>1 DEF OpenTurn
<1>2. CASE Claim
  BY <1>2 DEF Claim
<1>18. CASE ClaimTurn
  BY <1>18 DEF ClaimTurn
<1>3. CASE Reject
  BY <1>3 DEF Reject, Unwind
<1>4. CASE EnterEmpty
  <2>0. at = "preStep" /\ phase = "running" /\ turnOpen = TRUE /\ stepOpen = FALSE
    BY <1>4 DEF EnterEmpty
  <2>1. CASE EndTurn /\ UNCHANGED <<stepOpen, disposed>>
    BY <2>0, <2>1 DEF EndTurn
  <2>2. CASE turnOpen' = FALSE /\ GoTo("retire") /\ UNCHANGED <<stepped, ended, stepOpen, disposed>>
    BY <2>0, <2>2
  <2>3. CASE stepOpen' = TRUE /\ GoTo("step") /\ UNCHANGED <<stepped, ended, turnOpen, disposed>>
    BY <2>0, <2>3
  <2>. QED BY <1>4, <2>1, <2>2, <2>3 DEF EnterEmpty
<1>5. CASE Enter
  BY <1>5 DEF Enter
<1>6. CASE Prepare
  BY <1>6 DEF Prepare
<1>7. CASE Admit \/ AdmissionThrows
  BY <1>7 DEF Admit, AdmissionThrows, Unwind
<1>8. ASSUME NEW ending \in Endings, StepEnds(ending) PROVE Control' /\ LogShape'
  BY <1>8 DEF StepEnds
<1>9. CASE Stop
  BY <1>9 DEF Stop, EndTurn
<1>19. CASE NextTurn
  BY <1>19 DEF NextTurn
<1>10. CASE Retire
  BY <1>10 DEF Retire
<1>11. ASSUME NEW place \in InTurn \union {"open"}, Throws(place) PROVE Control' /\ LogShape'
  BY <1>11 DEF Throws, Unwind
<1>12. CASE RunMaintenance
  BY <1>12 DEF RunMaintenance
<1>13. CASE MaintenanceEnds
  BY <1>13 DEF MaintenanceEnds
<1>14. ASSUME NEW m \in Messages, NEW target \in Targets, Send(m, target) PROVE Control' /\ LogShape'
  <2>1. UNCHANGED <<turnOpen, stepOpen, disposed>>
    BY <1>14 DEF Send
  <2>2. \/ UNCHANGED control
        \/ phase = "idle" /\ EnterPhase("running", "open")
        \/ phase # "idle" /\ wakeRequested' \in BOOLEAN /\ UNCHANGED <<phase, abort, at, stepped, ended>>
    BY <1>14 DEF Send, WakeDriver
  <2>3. CASE UNCHANGED control
    BY <2>1, <2>3
  <2>4. CASE phase = "idle" /\ EnterPhase("running", "open")
    BY <2>1, <2>4
  <2>5. CASE phase # "idle" /\ wakeRequested' \in BOOLEAN /\ UNCHANGED <<phase, abort, at, stepped, ended>>
    BY <2>1, <2>5
  <2>. QED BY <2>2, <2>3, <2>4, <2>5
<1>15. ASSUME NEW m \in Messages, RemoveMessage(m) PROVE Control' /\ LogShape'
  BY <1>15 DEF RemoveMessage
<1>16. ASSUME NEW cause \in Causes, NEW keepInbox \in BOOLEAN, Cancel(cause, keepInbox)
       PROVE  Control' /\ LogShape'
  BY <1>16 DEF Cancel
<1>17. CASE UNCHANGED vars
  BY <1>17
<1>. QED
  BY <1>1, <1>2, <1>3, <1>4, <1>5, <1>6, <1>7, <1>8, <1>9, <1>10, <1>11, <1>12, <1>13, <1>14, <1>15,
     <1>16, <1>17, <1>18, <1>19 DEF Next, Driver

-----------------------------------------------------------------------------
(* Lists without repetition. *)

LEMMA AppendToList ==
  ASSUME NEW S, NEW s \in Seq(S), NEW x \in S, IsInjective(s), x \notin ToSet(s)
  PROVE  /\ Append(s, x) \in Seq(S) /\ IsInjective(Append(s, x))
         /\ ToSet(Append(s, x)) = ToSet(s) \union {x}
<1>. DEFINE a == Append(s, x)
<1>1. /\ a \in Seq(S) /\ Len(a) = Len(s) + 1 /\ Len(s) \in Nat
      /\ DOMAIN a = 1..Len(a) /\ DOMAIN s = 1..Len(s)
      /\ \A i \in 1..Len(s) : a[i] = s[i]
      /\ a[Len(s) + 1] = x
  BY AppendProperties, LenProperties
<1>. HIDE DEF a
<1>2. \A i \in 1..Len(a) : i \in 1..Len(s) \/ i = Len(s) + 1
  BY <1>1
<1>3. 1..Len(s) \subseteq 1..Len(a) /\ Len(s) + 1 \in 1..Len(a)
  BY <1>1
<1>4. \A i \in 1..Len(s) : s[i] # x
  BY <1>1 DEF ToSet
<1>5. IsInjective(a)
  BY <1>1, <1>2, <1>4 DEF IsInjective
<1>6. ToSet(a) = ToSet(s) \union {x}
  BY <1>1, <1>2, <1>3 DEF ToSet
<1>. QED BY <1>1, <1>5, <1>6 DEF a

LEMMA ConcatLists ==
  ASSUME NEW S, NEW s \in Seq(S), NEW t \in Seq(S), IsInjective(s), IsInjective(t),
         ToSet(s) \intersect ToSet(t) = {}
  PROVE  /\ s \o t \in Seq(S) /\ IsInjective(s \o t)
         /\ ToSet(s \o t) = ToSet(s) \union ToSet(t)
<1>. DEFINE a == s \o t
<1>1. /\ a \in Seq(S) /\ Len(a) = Len(s) + Len(t) /\ Len(s) \in Nat /\ Len(t) \in Nat
      /\ DOMAIN a = 1..Len(a) /\ DOMAIN s = 1..Len(s) /\ DOMAIN t = 1..Len(t)
      /\ \A i \in 1..Len(a) : a[i] = IF i <= Len(s) THEN s[i] ELSE t[i - Len(s)]
  BY ConcatProperties, LenProperties
<1>. HIDE DEF a
<1>2. ASSUME NEW i \in 1..Len(a)
      PROVE  \/ i \in 1..Len(s) /\ a[i] = s[i]
             \/ i - Len(s) \in 1..Len(t) /\ a[i] = t[i - Len(s)]
  <2>1. a[i] = IF i <= Len(s) THEN s[i] ELSE t[i - Len(s)]
    BY <1>1
  <2>2. i \in Nat /\ 1 <= i /\ i <= Len(s) + Len(t)
    BY <1>1
  <2>3. CASE i <= Len(s)
    BY <1>1, <2>1, <2>2, <2>3
  <2>4. CASE i > Len(s)
    <3>1. i - Len(s) \in 1..Len(t)
      BY <1>1, <2>2, <2>4
    <3>2. a[i] = t[i - Len(s)]
      BY <1>1, <2>1, <2>2, <2>4
    <3>. QED BY <3>1, <3>2
  <2>. QED BY <1>1, <2>2, <2>3, <2>4
<1>3. \A i \in 1..Len(s), j \in 1..Len(t) : s[i] # t[j]
  BY <1>1 DEF ToSet
<1>4. ASSUME NEW i \in 1..Len(a), NEW j \in 1..Len(a), a[i] = a[j] PROVE i = j
  <2>1. CASE i \in 1..Len(s) /\ a[i] = s[i]
    <3>1. j \in 1..Len(s) /\ a[j] = s[j]
      BY <1>2, <1>3, <1>4, <2>1
    <3>. QED BY <1>1, <1>4, <2>1, <3>1 DEF IsInjective
  <2>2. CASE i - Len(s) \in 1..Len(t) /\ a[i] = t[i - Len(s)]
    <3>1. j - Len(s) \in 1..Len(t) /\ a[j] = t[j - Len(s)]
      BY <1>2, <1>3, <1>4, <2>2
    <3>2. i - Len(s) = j - Len(s)
      BY <1>1, <1>4, <2>2, <3>1 DEF IsInjective
    <3>. QED BY <1>1, <3>2
  <2>. QED BY <1>2, <2>1, <2>2
<1>5. IsInjective(a)
  BY <1>1, <1>4 DEF IsInjective
<1>6. \A i \in 1..Len(s) : i \in 1..Len(a) /\ a[i] = s[i]
  BY <1>1
<1>7. \A j \in 1..Len(t) : Len(s) + j \in 1..Len(a) /\ a[Len(s) + j] = t[j]
  <2>. SUFFICES ASSUME NEW j \in 1..Len(t)
                PROVE  Len(s) + j \in 1..Len(a) /\ a[Len(s) + j] = t[j]
    OBVIOUS
  <2>1. Len(s) + j \in 1..Len(a) /\ ~(Len(s) + j <= Len(s)) /\ (Len(s) + j) - Len(s) = j
    BY <1>1
  <2>2. a[Len(s) + j] = IF Len(s) + j <= Len(s) THEN s[Len(s) + j] ELSE t[(Len(s) + j) - Len(s)]
    BY <1>1, <2>1
  <2>. QED BY <2>1, <2>2
<1>8. ToSet(a) = ToSet(s) \union ToSet(t)
  <2>1. ASSUME NEW i \in 1..Len(a) PROVE a[i] \in ToSet(s) \union ToSet(t)
    BY <1>1, <1>2 DEF ToSet
  <2>2. ASSUME NEW i \in 1..Len(s) PROVE s[i] \in ToSet(a)
    BY <1>1, <1>6 DEF ToSet
  <2>3. ASSUME NEW j \in 1..Len(t) PROVE t[j] \in ToSet(a)
    BY <1>1, <1>7 DEF ToSet
  <2>4. ToSet(s) \subseteq ToSet(a)
    BY <1>1, <2>2 DEF ToSet
  <2>5. ToSet(t) \subseteq ToSet(a)
    BY <1>1, <2>3 DEF ToSet
  <2>6. ASSUME NEW x \in ToSet(a) PROVE x \in ToSet(s) \union ToSet(t)
    <3>1. PICK i \in DOMAIN a : x = a[i]
      BY DEF ToSet
    <3>. QED BY <1>1, <2>1, <3>1
  <2>. QED BY <2>4, <2>5, <2>6
<1>. QED BY <1>1, <1>5, <1>8 DEF a

(* What is left of a list behind its first k elements. *)
LEMMA RestOfList ==
  ASSUME NEW S, NEW s \in Seq(S), NEW k \in 0..Len(s)
  PROVE  /\ SubSeq(s, k + 1, Len(s)) \in Seq(S)
         /\ Len(SubSeq(s, k + 1, Len(s))) = Len(s) - k
         /\ DOMAIN SubSeq(s, k + 1, Len(s)) = 1..(Len(s) - k)
         /\ \A i \in 1..(Len(s) - k) : SubSeq(s, k + 1, Len(s))[i] = s[k + i]
<1>. DEFINE b == SubSeq(s, k + 1, Len(s))
            n == Len(s)
<1>0. /\ n \in Nat /\ k \in Nat /\ k <= n /\ k + 1 \in Int /\ n \in Int
      /\ \A i \in 1..n : s[i] \in S
  BY LenProperties
<1>1. \A i \in (k + 1)..n : s[i] \in S
  BY <1>0
<1>2. /\ b \in Seq(S) /\ Len(b) = IF k + 1 <= n THEN n - (k + 1) + 1 ELSE 0
      /\ \A i \in 1..n - (k + 1) + 1 : b[i] = s[(k + 1) + i - 1]
  BY <1>0, <1>1, SubSeqProperties
<1>3. DOMAIN b = 1..Len(b)
  BY <1>2, LenProperties
<1>. HIDE DEF b, n
<1>4. n - (k + 1) + 1 = n - k /\ (~(k + 1 <= n) => n - k = 0)
  BY <1>0
<1>5. Len(b) = n - k
  BY <1>2, <1>4
<1>6. \A i \in 1..(n - k) : (k + 1) + i - 1 = k + i
  BY <1>0
<1>7. \A i \in 1..(n - k) : b[i] = s[k + i]
  BY <1>2, <1>4, <1>6
<1>8. DOMAIN b = 1..(n - k)
  BY <1>3, <1>5
<1>. QED BY <1>2, <1>5, <1>7, <1>8 DEF b, n

(* A list cut in two. *)
LEMMA CutList ==
  ASSUME NEW S, NEW s \in Seq(S), IsInjective(s), NEW k \in 0..Len(s)
  PROVE  /\ SubSeq(s, 1, k) \in Seq(S) /\ SubSeq(s, k + 1, Len(s)) \in Seq(S)
         /\ IsInjective(SubSeq(s, 1, k)) /\ IsInjective(SubSeq(s, k + 1, Len(s)))
         /\ ToSet(SubSeq(s, 1, k)) \intersect ToSet(SubSeq(s, k + 1, Len(s))) = {}
         /\ ToSet(SubSeq(s, 1, k)) \union ToSet(SubSeq(s, k + 1, Len(s))) = ToSet(s)
<1>. DEFINE a == SubSeq(s, 1, k)
            b == SubSeq(s, k + 1, Len(s))
<1>0. /\ Len(s) \in Nat /\ k \in Nat /\ k <= Len(s) /\ DOMAIN s = 1..Len(s)
      /\ 1 \in Int /\ k \in Int /\ k + 1 \in Int /\ Len(s) \in Int
      /\ \A i \in 1..Len(s) : s[i] \in S
  BY LenProperties
<1>1. \A i \in 1..k : s[i] \in S
  BY <1>0
<1>2. a \in Seq(S) /\ Len(a) = k /\ DOMAIN a = 1..k /\ \A i \in 1..k : a[i] = s[i]
  <2>1. /\ a \in Seq(S) /\ Len(a) = IF 1 <= k THEN k - 1 + 1 ELSE 0
        /\ \A i \in 1..k - 1 + 1 : a[i] = s[1 + i - 1]
    BY <1>0, <1>1, SubSeqProperties
  <2>. HIDE DEF a
  <2>2. Len(a) = k /\ DOMAIN a = 1..Len(a)
    BY <1>0, <2>1, LenProperties
  <2>. QED BY <1>0, <2>1, <2>2
<1>4. /\ b \in Seq(S) /\ Len(b) = Len(s) - k /\ DOMAIN b = 1..(Len(s) - k)
      /\ \A i \in 1..(Len(s) - k) : b[i] = s[k + i]
  BY RestOfList
<1>. HIDE DEF a, b
<1>5. \A i \in 1..Len(s) : i \in 1..k \/ (i - k \in 1..(Len(s) - k) /\ k + (i - k) = i)
  BY <1>0
<1>6. /\ \A i \in 1..k : i \in 1..Len(s)
      /\ \A i \in 1..(Len(s) - k) : k + i \in 1..Len(s) /\ k + i \notin 1..k
  BY <1>0
<1>7. IsInjective(a)
  BY <1>0, <1>2, <1>6 DEF IsInjective
<1>8. IsInjective(b)
  <2>1. ASSUME NEW i \in 1..(Len(s) - k), NEW j \in 1..(Len(s) - k), b[i] = b[j] PROVE i = j
    <3>1. k + i = k + j
      BY <1>0, <1>4, <1>6, <2>1 DEF IsInjective
    <3>. QED BY <1>0, <3>1
  <2>. QED BY <1>4, <2>1 DEF IsInjective
<1>9. ToSet(a) \intersect ToSet(b) = {}
  <2>1. \A i \in 1..k, j \in 1..(Len(s) - k) : s[i] # s[k + j]
    BY <1>0, <1>6 DEF IsInjective
  <2>. QED BY <1>2, <1>4, <2>1 DEF ToSet
<1>10. ToSet(a) \union ToSet(b) = ToSet(s)
  <2>1. ASSUME NEW i \in 1..Len(s) PROVE s[i] \in ToSet(a) \union ToSet(b)
    <3>1. CASE i \in 1..k
      BY <1>2, <3>1 DEF ToSet
    <3>2. CASE i - k \in 1..(Len(s) - k) /\ k + (i - k) = i
      BY <1>4, <3>2 DEF ToSet
    <3>. QED BY <1>5, <3>1, <3>2
  <2>2. \A i \in 1..k : a[i] \in ToSet(s)
    BY <1>0, <1>2, <1>6 DEF ToSet
  <2>3. \A i \in 1..(Len(s) - k) : b[i] \in ToSet(s)
    BY <1>0, <1>4, <1>6 DEF ToSet
  <2>4. ToSet(a) \subseteq ToSet(s)
    BY <1>2, <2>2 DEF ToSet
  <2>5. ToSet(b) \subseteq ToSet(s)
    BY <1>4, <2>3 DEF ToSet
  <2>6. ASSUME NEW x \in ToSet(s) PROVE x \in ToSet(a) \union ToSet(b)
    <3>1. PICK i \in DOMAIN s : x = s[i]
      BY DEF ToSet
    <3>. QED BY <1>0, <2>1, <3>1
  <2>. QED BY <2>4, <2>5, <2>6
<1>. QED BY <1>2, <1>4, <1>7, <1>8, <1>9, <1>10 DEF a, b

LEMMA ShiftIndex ==
  ASSUME NEW n \in Nat, NEW i \in Nat, NEW j \in Nat, 1 <= j, j # 1, j <= n - (i - 1)
  PROVE  j - 1 \in 1..(n - i) /\ i + (j - 1) = (i - 1) + j
OBVIOUS

LEMMA WholeList ==
  ASSUME NEW S, NEW s \in Seq(S)
  PROVE  /\ Len(s) \in 0..Len(s) /\ << >> \o SubSeq(s, 1, Len(s)) = s
         /\ SubSeq(s, Len(s) + 1, Len(s)) = << >>
OBVIOUS

(* An element spliced out. *)
LEMMA RemoveFromList ==
  ASSUME NEW S, NEW s \in Seq(S), IsInjective(s), NEW i \in DOMAIN s
  PROVE  /\ RemoveAt(s, i) \in Seq(S) /\ IsInjective(RemoveAt(s, i))
         /\ ToSet(RemoveAt(s, i)) = ToSet(s) \ {s[i]}
<1>. DEFINE a == SubSeq(s, 1, i - 1)
            b == SubSeq(s, i, Len(s))
            c == SubSeq(s, i + 1, Len(s))
<1>0. /\ Len(s) \in Nat /\ i \in 1..Len(s) /\ i \in Nat /\ i - 1 \in 0..Len(s) /\ i \in 0..Len(s)
      /\ (i - 1) + 1 = i /\ DOMAIN s = 1..Len(s) /\ \A j \in 1..Len(s) : s[j] \in S
  BY LenProperties
<1>1. /\ a \in Seq(S) /\ IsInjective(a) /\ ToSet(a) \intersect ToSet(b) = {}
      /\ ToSet(a) \union ToSet(b) = ToSet(s)
  BY <1>0, CutList
<1>2. c \in Seq(S) /\ IsInjective(c) /\ ToSet(SubSeq(s, 1, i)) \intersect ToSet(c) = {}
  BY <1>0, CutList
<1>3. /\ b \in Seq(S) /\ Len(b) = Len(s) - (i - 1) /\ DOMAIN b = 1..(Len(s) - (i - 1))
      /\ \A j \in 1..(Len(s) - (i - 1)) : b[j] = s[(i - 1) + j]
  BY <1>0, RestOfList
<1>4. /\ Len(c) = Len(s) - i /\ DOMAIN c = 1..(Len(s) - i)
      /\ \A j \in 1..(Len(s) - i) : c[j] = s[i + j]
  BY <1>0, RestOfList
<1>5. Len(SubSeq(s, 1, i)) = i /\ SubSeq(s, 1, i)[i] = s[i] /\ SubSeq(s, 1, i) \in Seq(S)
  <2>1. \A j \in 1..i : s[j] \in S
    BY <1>0
  <2>. QED BY <1>0, <2>1, SubSeqProperties
<1>6. s[i] \notin ToSet(c) /\ s[i] \in ToSet(b)
  <2>1. s[i] \in ToSet(SubSeq(s, 1, i))
    BY <1>0, <1>5, LenProperties DEF ToSet
  <2>2. 1 \in DOMAIN b /\ (i - 1) + 1 = i
    <3>1. Len(s) - (i - 1) >= 1
      BY <1>0
    <3>. QED BY <1>0, <1>3, <3>1
  <2>3. b[1] = s[i]
    BY <1>3, <2>2
  <2>. QED BY <1>2, <2>1, <2>2, <2>3 DEF ToSet
<1>7. ToSet(b) = ToSet(c) \union {s[i]}
  <2>1. ASSUME NEW j \in DOMAIN b PROVE b[j] \in ToSet(c) \union {s[i]}
    <3>0. b[j] = s[(i - 1) + j] /\ j \in 1..(Len(s) - (i - 1))
      BY <1>3
    <3>1. CASE j = 1
      BY <1>0, <3>0, <3>1
    <3>2. CASE j # 1
      <4>1. j - 1 \in 1..(Len(s) - i) /\ i + (j - 1) = (i - 1) + j
        <5>1. /\ j \in Nat /\ 1 <= j /\ j <= Len(s) - (i - 1)
              /\ i \in Nat /\ Len(s) \in Nat
          BY <1>0, <3>0
        <5>. QED BY <3>2, <5>1, ShiftIndex
      <4>2. c[j - 1] = b[j] /\ j - 1 \in DOMAIN c
        BY <1>4, <3>0, <4>1
      <4>. QED BY <4>2 DEF ToSet
    <3>. QED BY <3>1, <3>2
  <2>2. ASSUME NEW j \in DOMAIN c PROVE c[j] \in ToSet(b)
    <3>1. j \in 1..(Len(s) - i) /\ c[j] = s[i + j]
      BY <1>4
    <3>2. j + 1 \in 1..(Len(s) - (i - 1)) /\ (i - 1) + (j + 1) = i + j
      <4>1. j \in Nat /\ 1 <= j /\ j <= Len(s) - i
        BY <1>0, <3>1
      <4>. QED BY <1>0, <4>1
    <3>3. b[j + 1] = c[j] /\ j + 1 \in DOMAIN b
      BY <1>3, <3>1, <3>2
    <3>. QED BY <3>3 DEF ToSet
  <2>. HIDE DEF b, c
  <2>3. ToSet(c) \subseteq ToSet(b)
    BY <2>2 DEF ToSet
  <2>4. ASSUME NEW x \in ToSet(b) PROVE x \in ToSet(c) \union {s[i]}
    <3>1. PICK j \in DOMAIN b : x = b[j]
      BY DEF ToSet
    <3>. QED BY <2>1, <3>1
  <2>. QED BY <1>6, <2>3, <2>4
<1>8. RemoveAt(s, i) = a \o c
  BY DEF RemoveAt
<1>9. ToSet(a) \intersect ToSet(c) = {} /\ s[i] \notin ToSet(a)
  BY <1>1, <1>6, <1>7
<1>. HIDE DEF a, b, c
<1>10. a \o c \in Seq(S) /\ IsInjective(a \o c) /\ ToSet(a \o c) = ToSet(a) \union ToSet(c)
  BY <1>1, <1>2, <1>9, ConcatLists
<1>. QED BY <1>1, <1>6, <1>7, <1>8, <1>9, <1>10

-----------------------------------------------------------------------------
(* The messages. *)

LEMMA Lists ==
  ASSUME Mail
  PROVE  /\ inbox["next-turn"] \in Seq(Messages) /\ inbox["next-step"] \in Seq(Messages)
         /\ \A target \in Targets : Queued(target) \subseteq Messages
         /\ Pending \subseteq Messages /\ ToSet(hand) \subseteq Messages
<1>1. \A l \in Seq(Messages) : ToSet(l) \subseteq Messages
  BY LenProperties DEF ToSet
<1>. QED BY <1>1 DEF Mail, Targets, Pending, Queued

(* Nothing moves. *)
LEMMA MailStays ==
  ASSUME Mail, MessagesConserved, UNCHANGED mail,
         hand = << >> \/ at' \in Holding
  PROVE  Mail' /\ MessagesConserved'
BY DEF Mail, MessagesConserved, mail, Queued, Pending

(* The messages in the driver's hand meet their fate. *)
LEMMA HandSettles ==
  ASSUME Mail, MessagesConserved, UNCHANGED inbox, hand' = << >>,
         NEW outcome \in {"admitted", "dropped"}, Settle(ToSet(hand), outcome)
  PROVE  Mail' /\ MessagesConserved'
<1>1. Mail'
  BY DEF Mail, Settle
<1>2. DOMAIN hand' = {} /\ ToSet(hand') = {} /\ IsInjective(hand')
  BY DEF ToSet, IsInjective
<1>3. Pending' = Pending /\ \A target \in Targets : Queued(target)' = Queued(target)
  BY DEF Pending, Queued
<1>4. {m \in Messages : fate'[m] = "sent"} = Pending
  BY Lists DEF MessagesConserved, Settle, Mail
<1>. QED BY <1>1, <1>2, <1>3, <1>4 DEF MessagesConserved, Queued

(* Messages pass from one pending list to the driver's hand: the first k. *)
LEMMA ClaimMoves ==
  ASSUME Mail, MessagesConserved, NEW target \in Targets, NEW k \in 0..Len(inbox[target]),
         hand' = hand \o SubSeq(inbox[target], 1, k),
         inbox' = [inbox EXCEPT ![target] = SubSeq(inbox[target], k + 1, Len(inbox[target]))],
         fate' = fate, at' \in Holding
  PROVE  Mail' /\ MessagesConserved'
<1>. DEFINE l == inbox[target]
            first == SubSeq(l, 1, k)
            rest == SubSeq(l, k + 1, Len(l))
<1>0. l \in Seq(Messages) /\ IsInjective(l) /\ hand \in Seq(Messages) /\ IsInjective(hand)
  BY DEF MessagesConserved, Mail
<1>1. /\ first \in Seq(Messages) /\ rest \in Seq(Messages) /\ IsInjective(first) /\ IsInjective(rest)
      /\ ToSet(first) \intersect ToSet(rest) = {} /\ ToSet(first) \union ToSet(rest) = ToSet(l)
  <2>. HIDE DEF l
  <2>. QED BY <1>0, CutList DEF l
<1>2. hand' = hand \o first /\ inbox' = [inbox EXCEPT ![target] = rest]
  OBVIOUS
<1>3. ToSet(l) = Queued(target) /\ ToSet(l) \intersect ToSet(hand) = {}
  BY DEF MessagesConserved, Queued, Pending, Targets
<1>. HIDE DEF l, first, rest
<1>4. hand' \in Seq(Messages) /\ IsInjective(hand') /\ ToSet(hand') = ToSet(hand) \union ToSet(first)
  <2>1. ToSet(hand) \intersect ToSet(first) = {}
    BY <1>1, <1>3
  <2>2. /\ hand \o first \in Seq(Messages) /\ IsInjective(hand \o first)
        /\ ToSet(hand \o first) = ToSet(hand) \union ToSet(first)
    BY <1>0, <1>1, <2>1, ConcatLists
  <2>. QED BY <1>2, <2>2
<1>5. Mail'
  BY <1>1, <1>2, <1>4 DEF Mail
<1>6. /\ Queued(target)' = ToSet(rest) /\ inbox'[target] = rest
      /\ \A other \in Targets \ {target} : Queued(other)' = Queued(other) /\ inbox'[other] = inbox[other]
  BY <1>2 DEF Mail, Queued
<1>7. \A t \in Targets : IsInjective(inbox'[t])
  BY <1>1, <1>6 DEF MessagesConserved
<1>8. Queued("next-turn")' \intersect Queued("next-step")' = {}
  BY <1>1, <1>3, <1>6 DEF MessagesConserved, Targets
<1>9. Pending' \union ToSet(first) = Pending /\ Pending' \intersect ToSet(first) = {}
  BY <1>1, <1>3, <1>6 DEF MessagesConserved, Pending, Targets
<1>10. Pending' \intersect ToSet(hand') = {}
  BY <1>4, <1>9 DEF MessagesConserved
<1>11. {m \in Messages : fate'[m] = "sent"} = Pending' \union ToSet(hand')
  BY <1>4, <1>9 DEF MessagesConserved
<1>. QED BY <1>4, <1>5, <1>7, <1>8, <1>10, <1>11 DEF MessagesConserved

(* One list changes, by a message that came or went. *)
LEMMA ListChanges ==
  ASSUME Mail, MessagesConserved, NEW target \in Targets, NEW l \in Seq(Messages), IsInjective(l),
         inbox' = [inbox EXCEPT ![target] = l], hand' = hand,
         hand = << >> \/ at' \in Holding,
         NEW m \in Messages, NEW outcome \in {"sent", "discarded"}, fate' = [fate EXCEPT ![m] = outcome],
         \/ outcome = "sent" /\ m \notin Pending \union ToSet(hand) /\ ToSet(l) = Queued(target) \union {m}
         \/ outcome = "discarded" /\ m \in Queued(target) /\ ToSet(l) = Queued(target) \ {m}
  PROVE  Mail' /\ MessagesConserved'
<1>1. Mail'
  BY DEF Mail
<1>2. /\ Queued(target)' = ToSet(l)
      /\ \A other \in Targets \ {target} : Queued(other)' = Queued(other) /\ inbox'[other] = inbox[other]
      /\ inbox'[target] = l
  BY DEF Mail, Queued
<1>3. Pending' = IF outcome = "sent" THEN Pending \union {m} ELSE Pending \ {m}
  BY <1>2 DEF Pending, MessagesConserved, Targets
<1>4. {n \in Messages : fate'[n] = "sent"} =
        IF outcome = "sent" THEN {n \in Messages : fate[n] = "sent"} \union {m}
        ELSE {n \in Messages : fate[n] = "sent"} \ {m}
  BY DEF Mail
<1>5. Queued("next-turn")' \intersect Queued("next-step")' = {}
  BY <1>2 DEF MessagesConserved, Pending, Targets
<1>6. Pending' \intersect ToSet(hand)' = {}
  BY <1>3 DEF MessagesConserved
<1>7. \A t \in Targets : IsInjective(inbox'[t])
  BY <1>2 DEF MessagesConserved
<1>8. outcome = "discarded" => m \notin ToSet(hand)
  BY DEF MessagesConserved, Pending, Targets
<1>9. {n \in Messages : fate'[n] = "sent"} = Pending' \union ToSet(hand)'
  BY <1>3, <1>4, <1>8 DEF MessagesConserved
<1>. QED BY <1>1, <1>5, <1>6, <1>7, <1>9 DEF MessagesConserved

LEMMA MailNext ==
  ASSUME Inv, MessagesConserved, [Next]_vars
  PROVE  Mail' /\ MessagesConserved'
<1>0. Control /\ LogShape /\ Mail
  BY DEF Inv
<1>1. CASE OpenTurn \/ Enter \/ Prepare \/ (\E ending \in Endings : StepEnds(ending)) \/ Stop \/ NextTurn \/ Retire
           \/ RunMaintenance \/ MaintenanceEnds \/ UNCHANGED vars
  <2>1. UNCHANGED mail
    BY <1>1 DEF OpenTurn, Enter, Prepare, StepEnds, Stop, NextTurn, Retire, RunMaintenance, MaintenanceEnds, vars
  <2>2. hand = << >> \/ at' \in Holding
    BY <1>0, <1>1 DEF OpenTurn, Enter, Prepare, StepEnds, Stop, NextTurn, Retire, RunMaintenance, MaintenanceEnds, vars,
       control, Mail, Control, At, GoTo, Holding
  <2>. QED BY <1>0, <2>1, <2>2, MailStays
<1>2. CASE Claim
  <2>. DEFINE l == inbox["next-step"]
  <2>1. l \in Seq(Messages) /\ hand = << >>
    BY <1>0, <1>2, Lists DEF Claim, At, Mail, Holding
  <2>2. Len(l) \in 0..Len(l) /\ hand \o SubSeq(l, 1, Len(l)) = l /\ SubSeq(l, Len(l) + 1, Len(l)) = << >>
    <3>. HIDE DEF l
    <3>. QED BY <2>1, WholeList
  <2>3. /\ hand' = hand \o SubSeq(l, 1, Len(l))
        /\ inbox' = [inbox EXCEPT !["next-step"] = SubSeq(l, Len(l) + 1, Len(l))]
        /\ fate' = fate /\ at' \in Holding
    BY <1>2, <2>2 DEF Claim, GoTo, Holding
  <2>. QED BY <1>0, <2>2, <2>3, ClaimMoves DEF Targets
<1>8. CASE ClaimTurn
  <2>. DEFINE l == inbox["next-turn"]
              k == IF l = << >> THEN 0 ELSE 1
  <2>1. k \in 0..Len(l)
    BY <1>0, Lists, EmptySeq
  <2>2. /\ hand' = hand \o SubSeq(l, 1, k) /\ inbox' = [inbox EXCEPT !["next-turn"] = SubSeq(l, k + 1, Len(l))]
        /\ fate' = fate /\ at' \in Holding
    BY <1>8 DEF ClaimTurn, GoTo, Holding
  <2>. HIDE DEF k
  <2>. QED BY <1>0, <2>1, <2>2, ClaimMoves DEF Targets
<1>3. CASE EnterEmpty \/ Reject \/ AdmissionThrows \/ \E place \in {"open", "claim", "preStep", "step", "request", "stopping"} : Throws(place)
  <2>1. UNCHANGED inbox /\ hand' = << >> /\ Settle(ToSet(hand), "dropped")
    BY <1>3 DEF EnterEmpty, Reject, AdmissionThrows, Throws, Unwind
  <2>. QED BY <1>0, <2>1, HandSettles
<1>4. CASE Admit
  <2>1. UNCHANGED inbox /\ hand' = << >> /\ Settle(ToSet(hand), "admitted")
    BY <1>4 DEF Admit
  <2>. QED BY <1>0, <2>1, HandSettles
<1>5. ASSUME NEW m \in Messages, NEW target \in Targets, Send(m, target)
      PROVE  Mail' /\ MessagesConserved'
  <2>1. PICK t \in Targets : inbox' = [inbox EXCEPT ![t] = Append(@, m)]
    BY <1>5 DEF Send, Targets
  <2>2. fate[m] = "unsent" /\ fate' = [fate EXCEPT ![m] = "sent"] /\ hand' = hand
    BY <1>5 DEF Send
  <2>3. hand = << >> \/ at' \in Holding
    BY <1>0, <1>5 DEF Send, WakeDriver, Control, Mail, Holding, EnterPhase, control
  <2>4. m \notin Pending \union ToSet(hand)
    BY <2>2 DEF MessagesConserved
  <2>5. inbox[t] \in Seq(Messages) /\ IsInjective(inbox[t]) /\ m \notin ToSet(inbox[t])
    BY <1>0, <2>4 DEF Mail, MessagesConserved, Pending, Queued, Targets
  <2>6. /\ Append(inbox[t], m) \in Seq(Messages) /\ IsInjective(Append(inbox[t], m))
        /\ ToSet(Append(inbox[t], m)) = Queued(t) \union {m}
    BY <2>5, AppendToList DEF Queued
  <2>. DEFINE l == Append(inbox[t], m)
  <2>7. inbox' = [inbox EXCEPT ![t] = l]
    BY <2>1
  <2>. HIDE DEF l
  <2>. QED BY <1>0, <2>2, <2>3, <2>4, <2>6, <2>7, ListChanges DEF l
<1>6. ASSUME NEW m \in Messages, RemoveMessage(m) PROVE Mail' /\ MessagesConserved'
  <2>1. PICK t \in Targets : \E i \in DOMAIN inbox[t] :
          inbox[t][i] = m /\ inbox' = [inbox EXCEPT ![t] = RemoveAt(@, i)]
    BY <1>6 DEF RemoveMessage
  <2>2. PICK i \in DOMAIN inbox[t] : inbox[t][i] = m /\ inbox' = [inbox EXCEPT ![t] = RemoveAt(@, i)]
    BY <2>1
  <2>3. fate' = [fate EXCEPT ![m] = "discarded"] /\ UNCHANGED <<hand, at>>
    BY <1>6 DEF RemoveMessage, control
  <2>4. hand = << >> \/ at' \in Holding
    BY <1>0, <2>3 DEF Mail
  <2>5. inbox[t] \in Seq(Messages) /\ IsInjective(inbox[t])
    BY <1>0 DEF Mail, MessagesConserved
  <2>. DEFINE l == RemoveAt(inbox[t], i)
  <2>6. l \in Seq(Messages) /\ IsInjective(l) /\ ToSet(l) = ToSet(inbox[t]) \ {m}
    BY <2>2, <2>5, RemoveFromList
  <2>7. m \in Queued(t) /\ ToSet(l) = Queued(t) \ {m}
    BY <2>2, <2>6 DEF Queued, ToSet
  <2>8. inbox' = [inbox EXCEPT ![t] = l]
    BY <2>2
  <2>. HIDE DEF l
  <2>. QED BY <1>0, <2>3, <2>4, <2>6, <2>7, <2>8, ListChanges
<1>7. ASSUME NEW cause \in Causes, NEW keepInbox \in BOOLEAN, Cancel(cause, keepInbox)
      PROVE  Mail' /\ MessagesConserved'
  <2>1. UNCHANGED <<hand, at>>
    BY <1>7 DEF Cancel
  <2>2. hand = << >> \/ at' \in Holding
    BY <1>0, <2>1 DEF Mail
  <2>3. CASE UNCHANGED <<inbox, fate>>
    BY <1>0, <2>1, <2>2, <2>3, MailStays DEF mail
  <2>4. CASE inbox' = [t \in Targets |-> << >>] /\ Settle(Pending, "discarded")
    <3>1. << >> \in Seq(Messages) /\ IsInjective(<< >>) /\ ToSet(<< >>) = {}
      BY EmptySeq DEF IsInjective, ToSet
    <3>2. Mail'
      BY <1>0, <2>1, <2>2, <2>4, <3>1 DEF Mail, Settle
    <3>3. Pending' = {} /\ \A t \in Targets : Queued(t)' = {} /\ IsInjective(inbox'[t])
      BY <2>4, <3>1 DEF Pending, Queued, Targets
    <3>4. {m \in Messages : fate'[m] = "sent"} = ToSet(hand)
      BY <1>0, <2>4, Lists DEF Settle, Mail, MessagesConserved
    <3>. QED BY <2>1, <3>2, <3>3, <3>4 DEF MessagesConserved, Targets
  <2>. QED BY <1>7, <2>3, <2>4 DEF Cancel
<1>. QED
  BY <1>1, <1>2, <1>3, <1>4, <1>5, <1>6, <1>7, <1>8 DEF Next, Driver

LEMMA MailInit == Init => Inv /\ MessagesConserved
<1>. SUFFICES ASSUME Init PROVE Inv /\ MessagesConserved
  OBVIOUS
<1>1. << >> \in Seq(Messages) /\ IsInjective(<< >>) /\ ToSet(<< >>) = {}
  BY EmptySeq DEF IsInjective, ToSet
<1>2. Control /\ LogShape
  BY DEF Init, Control, LogShape, InTurn, Endings
<1>3. Mail
  BY <1>1 DEF Init, Mail
<1>4. Pending = {} /\ \A t \in Targets : Queued(t) = {} /\ IsInjective(inbox[t])
  BY <1>1 DEF Init, Pending, Queued, Targets
<1>5. {m \in Messages : fate[m] = "sent"} = {}
  BY DEF Init
<1>. QED BY <1>1, <1>2, <1>3, <1>4, <1>5 DEF Inv, Init, MessagesConserved, Targets

LEMMA Invariant == Spec => [](Inv /\ MessagesConserved)
<1>1. Inv /\ MessagesConserved /\ [Next]_vars => (Inv /\ MessagesConserved)'
  BY ControlLogNext, MailNext DEF Inv
<1>. QED BY <1>1, MailInit, PTL DEF Spec

(* A message sent is in exactly one place, in one of the two lists or in the *)
(* driver's hand, until it meets its one fate: for every set of messages and *)
(* every interleaving of sends, removals, cancels, maintenance and turns     *)
(* that fail anywhere.                                                       *)
THEOREM MessagesAreConserved == Spec => []MessagesConserved
BY Invariant, PTL

(* Wherever the driver rests, no turn or step is left open in the log, a     *)
(* step is open only inside a turn, and so is a claimed message.             *)
THEOREM LogIsBalanced == Spec => []BalancedLog
<1>1. Inv => BalancedLog
  <2>. SUFFICES ASSUME Inv PROVE BalancedLog
    OBVIOUS
  <2>1. TypeOK
    BY DEF Inv, Control, LogShape, Mail, InTurn, TypeOK
  <2>2. /\ stepOpen => turnOpen
        /\ hand # << >> => turnOpen
        /\ at \in {"none", "open", "turnEnd", "retire"} => ~turnOpen
    BY DEF Inv, LogShape, Mail, Holding, InTurn
  <2>. QED BY <2>1, <2>2 DEF BalancedLog
<1>. QED BY <1>1, Invariant, PTL

(* Once its signal is aborted, the driver opens no turn and no step, claims  *)
(* nothing but the rest of a claim under way, and gets a fresh signal only   *)
(* by retiring, when its turn has already run its course with more work      *)
(* pending, or, for maintenance, by ending.                                  *)
THEOREM AbortUnwinds == Spec => AbortedOnlyUnwinds
<1>. DEFINE A == Aborted =>
       /\ (turnOpen' => turnOpen) /\ (stepOpen' => stepOpen)
       /\ Len(hand') <= Len(hand) \/ at = "claimTurn"
       /\ \/ Aborted' \/ at = "retire" \/ phase = "maintenance"
          \/ at = "turnEnd" /\ Pending # {}
<1>1. ASSUME Inv, [Next]_vars PROVE A
  <2>. SUFFICES ASSUME Aborted
                PROVE  /\ (turnOpen' => turnOpen) /\ (stepOpen' => stepOpen)
                       /\ Len(hand') <= Len(hand) \/ at = "claimTurn"
                       /\ \/ Aborted' \/ at = "retire" \/ phase = "maintenance"
                          \/ at = "turnEnd" /\ Pending # {}
    OBVIOUS
  <2>0. phase # "idle" /\ Len(hand) \in Nat /\ Len(<< >>) = 0 /\ turnOpen \in BOOLEAN /\ stepOpen \in BOOLEAN
    BY <1>1, EmptySeq, LenProperties DEF Inv, Control, Mail, LogShape, Aborted
  <2>1. ~(OpenTurn \/ Claim \/ Reject \/ EnterEmpty \/ Enter \/ Prepare \/ Stop \/ RunMaintenance)
        /\ \A ending \in Endings : ~StepEnds(ending)
    BY <2>0 DEF OpenTurn, Claim, Reject, EnterEmpty, Enter, Prepare, Stop, RunMaintenance, StepEnds, Aborted
  <2>2. CASE Admit \/ AdmissionThrows
             \/ \E place \in {"open", "claim", "preStep", "step", "request", "stopping"} : Throws(place)
    <3>1. hand' = << >> /\ abort' = abort
      BY <2>2 DEF Admit, AdmissionThrows, Throws, Unwind, GoTo
    <3>2. (turnOpen' => turnOpen) /\ (stepOpen' => stepOpen)
      BY <2>0, <2>2 DEF Admit, AdmissionThrows, Throws, Unwind, log
    <3>. QED BY <2>0, <3>1, <3>2 DEF Aborted
  <2>3. CASE Retire \/ MaintenanceEnds
    BY <2>0, <2>3 DEF Retire, MaintenanceEnds, At, mail, log
  <2>4. CASE ClaimTurn
    BY <2>4 DEF ClaimTurn, At, GoTo, Aborted, log
  <2>5. CASE NextTurn
    BY <2>0, <2>5 DEF NextTurn, At, GoTo, Aborted, log, mail
  <2>6. ASSUME NEW m \in Messages, NEW target \in Targets, Send(m, target)
        PROVE  UNCHANGED <<turnOpen, stepOpen, hand, abort>>
    BY <2>0, <2>6 DEF Send, WakeDriver, log, control
  <2>7. ASSUME NEW m \in Messages, RemoveMessage(m) PROVE UNCHANGED <<turnOpen, stepOpen, hand, abort>>
    BY <2>7 DEF RemoveMessage, log, control
  <2>8. ASSUME NEW cause \in Causes, NEW keepInbox \in BOOLEAN, Cancel(cause, keepInbox)
        PROVE  UNCHANGED <<turnOpen, stepOpen, hand, abort>>
    BY <2>8 DEF Cancel, log, Aborted
  <2>9. UNCHANGED vars => UNCHANGED <<turnOpen, stepOpen, hand, abort>>
    BY DEF vars, log, mail, control
  <2>10. CASE UNCHANGED <<turnOpen, stepOpen, hand, abort>>
    BY <2>0, <2>10 DEF Aborted
  <2>. QED BY <1>1, <2>1, <2>2, <2>3, <2>4, <2>5, <2>6, <2>7, <2>8, <2>9, <2>10 DEF Next, Driver
<1>2. Inv /\ [Next]_vars => [A]_vars
  BY <1>1
<1>. QED BY <1>2, Invariant, PTL DEF Spec, AbortedOnlyUnwinds

=============================================================================
