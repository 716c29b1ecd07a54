----------------------------- MODULE JobsProofs -----------------------------
(***************************************************************************)
(* Proofs about Jobs, for any number of jobs, agents and bytes: an owned    *)
(* job always has somebody to tear it down, the first terminal record       *)
(* stands, a settlement loses no output and evicts nothing unread.          *)
(***************************************************************************)
EXTENDS Jobs, Integers, SequenceTheorems, TLAPS

JobRecords == [status : Terminal \union Active \union {"none"},
               owner : Owners \union {Unowned},
               settleCause : {"none", "kill", "teardown"},
               done : BOOLEAN,
               pump : {"off", "on", "failed", "drained", "joined"},
               waiting : BOOLEAN]

Outputs == [ring : Ring, cursor : Nat, source : Nat]

(* Where the i-th retained chunk ends. *)
EndOf(ring, i) == IF i = Len(ring.starts) THEN ring.total ELSE ring.starts[i + 1]

(* Chunks lie before the end, and a reader that is past the start of a chunk *)
(* is past its end: reads take whole chunks.                                 *)
WholeChunks(ring, cursor) ==
  /\ \A i \in 1..Len(ring.starts) : ring.starts[i] <= ring.total
  /\ \A i \in 1..Len(ring.starts) : ring.starts[i] < cursor => EndOf(ring, i) <= cursor

OutputOK(o) ==
  /\ o \in Outputs /\ o.source \in 0..MaxBytes /\ o.cursor \in 0..o.ring.total
  /\ Retained(o.ring) <= RetainBytes
  /\ WholeChunks(o.ring, o.cursor)

OutInv == out \in [JobIds -> Outputs] /\ \A j \in JobIds : OutputOK(out[j])

(* TypeOK without the outputs. *)
Shape ==
  /\ store \subseteq JobIds
  /\ job \in [JobIds -> JobRecords]
  /\ \A j \in JobIds : job[j].waiting => Live(j)
  /\ owner \in [Owners -> {"live", "unwinding", "gone"}]
  /\ cleanups \subseteq Owners
  /\ sweeps \subseteq [by : {"owner", "service"}, owner : Owners \union {Unowned}, jobs : SUBSET JobIds]
  /\ service \in {"open", "sweeping", "detaching", "closed"}

(* What a record says of its job's place in the store and of its source. *)
Records ==
  \A j \in JobIds :
    /\ job[j].status = "none" => j \notin store /\ job[j] = NoJob /\ out[j].cursor = 0
    /\ job[j].pump # "on" => out[j].source = 0
    /\ job[j].pump = "joined" => ~Live(j)
    /\ Live(j) => j \in store

Keeper(j) ==
  \/ job[j].owner \in cleanups
  \/ \E s \in sweeps : s.owner = job[j].owner /\ j \in s.jobs

Kept == \A j \in store : job[j].owner # Unowned => Keeper(j)

Inv == Shape /\ OutInv /\ Records /\ Kept

-----------------------------------------------------------------------------
(* The output ring. *)

LEMMA RingFacts ==
  ASSUME NEW ring \in Ring
  PROVE  /\ Len(ring.starts) \in Nat /\ ring.total \in Nat /\ ring.starts \in Seq(Nat)
         /\ \A i \in 1..Len(ring.starts) : ring.starts[i] \in Nat
         /\ ring.starts = << >> <=> Len(ring.starts) = 0
         /\ Earliest(ring) \in Nat /\ Retained(ring) \in Int
BY DEF Ring, Earliest, Retained

LEMMA RingOf ==
  ASSUME NEW s \in Seq(Nat), NEW t \in Nat
  PROVE  [starts |-> s, total |-> t] \in Ring
BY DEF Ring

LEMMA NonEmpty == ASSUME NEW s, Len(s) # 0 PROVE s # << >>
OBVIOUS

(* Dropping head chunks. *)
LEMMA DropFacts ==
  ASSUME NEW ring \in Ring, NEW cursor \in Nat, WholeChunks(ring, cursor), NEW cap \in Nat,
         NEW k \in KeptFrom(ring, cap), FitsFrom(ring, k, cap), NEW r,
         r = [ring EXCEPT !.starts = SubSeq(ring.starts, k, Len(ring.starts))]
  PROVE  /\ r \in Ring /\ r.total = ring.total
         /\ Retained(r) <= cap /\ Retained(r) <= Retained(ring)
         /\ WholeChunks(r, cursor)
         /\ ring.total - cursor <= cap => Earliest(r) <= Earliest(ring) \/ Earliest(r) <= cursor
<1>. DEFINE n == Len(ring.starts)
<1>1. n \in Nat /\ ring.total \in Nat /\ k \in 1..n /\ \A i \in 1..n : ring.starts[i] \in Nat
  BY RingFacts DEF KeptFrom
<1>2. /\ r.starts \in Seq(Nat) /\ Len(r.starts) = n - k + 1 /\ r.total = ring.total
      /\ \A i \in 1..(n - k + 1) : r.starts[i] = ring.starts[k + i - 1] /\ k + i - 1 \in 1..n
  <2>1. ring.starts \in Seq(Nat)
    BY RingFacts
  <2>2. r.starts = SubSeq(ring.starts, k, n) /\ r.total = ring.total
    BY DEF Ring
  <2>3. k \in Int /\ n \in Int /\ k <= n /\ \A i \in k..n : ring.starts[i] \in Nat
    BY <1>1
  <2>. HIDE DEF n
  <2>4. /\ SubSeq(ring.starts, k, n) \in Seq(Nat) /\ Len(SubSeq(ring.starts, k, n)) = n - k + 1
        /\ \A i \in 1..(n - k + 1) : SubSeq(ring.starts, k, n)[i] = ring.starts[k + i - 1]
    BY <2>3, SubSeqProperties
  <2>5. \A i \in 1..(n - k + 1) : k + i - 1 \in 1..n
    BY <1>1
  <2>. QED BY <2>2, <2>4, <2>5
<1>3. r.starts[1] = ring.starts[k] /\ r.starts # << >> /\ ring.starts # << >> /\ Len(r.starts) \in Nat
  <2>1. 1 \in 1..(n - k + 1) /\ k + 1 - 1 = k /\ n - k + 1 \in Nat /\ n # 0
    BY <1>1
  <2>2. r.starts[1] = ring.starts[k + 1 - 1] /\ Len(r.starts) = n - k + 1
    BY <1>2, <2>1
  <2>3. Len(r.starts) # 0 /\ Len(ring.starts) # 0
    BY <1>1, <2>2
  <2>4. r.starts # << >> /\ ring.starts # << >>
    BY <2>3, NonEmpty
  <2>. QED BY <1>1, <2>1, <2>2, <2>4
<1>4. Earliest(r) = ring.starts[k] /\ Earliest(ring) = ring.starts[1] /\ Earliest(ring) \in Nat
  <2>1. 1 \in 1..n /\ ring.starts[1] \in Nat
    BY <1>1
  <2>. QED BY <1>3, <2>1 DEF Earliest
<1>5. ring.total - ring.starts[k] <= cap
  BY DEF FitsFrom
<1>6. Retained(r) = ring.total - ring.starts[k] /\ Retained(ring) = ring.total - ring.starts[1]
  BY <1>2, <1>4 DEF Retained
<1>7. k > 1 => ~(ring.total - ring.starts[1] <= cap) /\ ~(ring.total - ring.starts[k - 1] <= cap)
  <2>. SUFFICES ASSUME k > 1
                PROVE  ~(ring.total - ring.starts[1] <= cap) /\ ~(ring.total - ring.starts[k - 1] <= cap)
    OBVIOUS
  <2>1. 1 \in 1..(k - 1) /\ k - 1 \in 1..(k - 1)
    BY <1>1
  <2>. QED BY <2>1 DEF KeptFrom, FitsFrom
<1>8. Retained(r) <= Retained(ring)
  <2>1. CASE k = 1
    BY <1>1, <1>6, <2>1
  <2>2. CASE k > 1
    <3>1. ring.starts[k] \in Nat /\ ring.starts[1] \in Nat /\ cap \in Nat /\ ring.total \in Nat
      BY <1>1, <1>4
    <3>2. ring.total - ring.starts[k] <= cap /\ ~(ring.total - ring.starts[1] <= cap)
      BY <1>5, <1>7, <2>2
    <3>3. ring.total - ring.starts[k] <= ring.total - ring.starts[1]
      BY <3>1, <3>2
    <3>. QED BY <1>6, <3>3
  <2>. QED BY <1>1, <2>1, <2>2
<1>9. WholeChunks(r, cursor)
  <2>1. ASSUME NEW i \in 1..Len(r.starts)
        PROVE  r.starts[i] <= r.total /\ (r.starts[i] < cursor => EndOf(r, i) <= cursor)
    <3>. DEFINE m == k + i - 1
    <3>1. m \in 1..n /\ r.starts[i] = ring.starts[m] /\ i \in Nat
      BY <1>1, <1>2
    <3>2. EndOf(r, i) = EndOf(ring, m)
      <4>1. i = Len(r.starts) <=> m = n
        BY <1>1, <1>2
      <4>2. i # Len(r.starts) => r.starts[i + 1] = ring.starts[m + 1]
        <5>. SUFFICES ASSUME i # Len(r.starts) PROVE r.starts[i + 1] = ring.starts[m + 1]
          OBVIOUS
        <5>1. i + 1 \in 1..(n - k + 1)
          <6>1. i \in 1..(n - k + 1) /\ i # n - k + 1 /\ n - k + 1 \in Nat
            BY <1>1, <1>2
          <6>. HIDE DEF n
          <6>. QED BY <6>1
        <5>2. r.starts[i + 1] = ring.starts[k + (i + 1) - 1]
          BY <1>2, <5>1
        <5>3. k + (i + 1) - 1 = m + 1
          BY <1>1, <3>1
        <5>. QED BY <5>2, <5>3
      <4>. QED BY <1>2, <4>1, <4>2 DEF EndOf
    <3>. QED BY <1>2, <3>1, <3>2 DEF WholeChunks
  <2>. QED BY <2>1 DEF WholeChunks
<1>10. ASSUME ring.total - cursor <= cap PROVE Earliest(r) <= Earliest(ring) \/ Earliest(r) <= cursor
  <2>1. CASE k = 1
    BY <1>1, <1>4, <2>1
  <2>2. CASE k > 1
    <3>1. k - 1 \in 1..n /\ k - 1 # n /\ (k - 1) + 1 = k
      BY <1>1, <2>2
    <3>2. ring.starts[k - 1] < cursor
      <4>1. ring.starts[k - 1] \in Nat
        BY <1>1, <3>1
      <4>. QED BY <1>1, <1>7, <1>10, <2>2, <4>1
    <3>3. EndOf(ring, k - 1) = ring.starts[k]
      BY <3>1 DEF EndOf
    <3>. QED BY <1>4, <3>1, <3>2, <3>3 DEF WholeChunks
  <2>. QED BY <1>1, <2>1, <2>2
<1>11. r \in Ring
  BY <1>2 DEF Ring
<1>. QED BY <1>2, <1>5, <1>6, <1>8, <1>9, <1>10, <1>11

(* The tail of a single oversized chunk. *)
LEMMA TailFacts ==
  ASSUME NEW ring \in Ring, NEW cursor \in Nat, WholeChunks(ring, cursor), NEW cap \in Nat,
         NEW k \in KeptFrom(ring, cap), ~FitsFrom(ring, k, cap), NEW b \in TailBytes(cap), NEW r,
         r = [ring EXCEPT !.starts = <<ring.total - b>>]
  PROVE  /\ r \in Ring /\ r.total = ring.total
         /\ Retained(r) <= cap /\ Retained(r) <= Retained(ring)
         /\ WholeChunks(r, cursor)
         /\ ring.total - cursor <= cap => Earliest(r) <= Earliest(ring) \/ Earliest(r) <= cursor
<1>. DEFINE n == Len(ring.starts)
            t == ring.total - b
<1>1. n \in Nat /\ ring.total \in Nat /\ k \in 1..n /\ \A i \in 1..n : ring.starts[i] \in Nat
  BY RingFacts DEF KeptFrom
<1>2. b \in Nat /\ b <= cap
  BY DEF TailBytes
<1>3. k = n /\ 1 \in 1..n /\ ring.starts # << >>
  BY <1>1 DEF KeptFrom
<1>4. ring.starts[n] \in Nat /\ ring.starts[1] \in Nat /\ ring.total - ring.starts[n] > cap
  BY <1>1, <1>3 DEF FitsFrom
<1>5. ring.total - ring.starts[1] > cap
  <2>1. CASE n = 1
    BY <1>4, <2>1
  <2>2. CASE n > 1
    <3>1. 1 \in 1..(k - 1)
      BY <1>1, <1>3, <2>2
    <3>2. ~FitsFrom(ring, 1, cap)
      BY <3>1 DEF KeptFrom
    <3>3. ~(ring.total - ring.starts[1] <= cap)
      BY <3>2 DEF FitsFrom
    <3>. QED BY <1>1, <1>4, <3>3
  <2>3. n = 1 \/ n > 1
    <3>1. n \in Nat /\ 1 \in 1..n
      BY <1>1, <1>3
    <3>. HIDE DEF n
    <3>. QED BY <3>1
  <2>. QED BY <2>1, <2>2, <2>3
<1>6. t \in Nat /\ ring.starts[n] < t /\ t <= ring.total
  <2>. DEFINE e == ring.starts[n]
  <2>1. e \in Nat /\ ring.total \in Nat /\ b \in Nat /\ b <= cap /\ cap \in Nat /\ ring.total - e > cap
    BY <1>1, <1>2, <1>4
  <2>. HIDE DEF e
  <2>2. t \in Nat /\ e < t /\ t <= ring.total
    BY <2>1
  <2>. QED BY <2>2 DEF e
<1>7. r.starts = <<t>> /\ r.total = ring.total /\ r \in Ring /\ Len(r.starts) = 1 /\ r.starts[1] = t
  <2>1. r = [starts |-> <<t>>, total |-> ring.total]
    BY DEF Ring
  <2>. HIDE DEF t
  <2>2. <<t>> \in Seq(Nat) /\ Len(<<t>>) = 1 /\ <<t>>[1] = t
    BY <1>6
  <2>3. r.starts = <<t>> /\ r.total = ring.total
    BY <2>1
  <2>4. r \in Ring
    <3>1. <<t>> \in Seq(Nat) /\ ring.total \in Nat
      BY <1>1, <2>2
    <3>. QED BY <2>1, <3>1, RingOf
  <2>. QED BY <2>2, <2>3, <2>4
<1>8. Earliest(r) = t /\ Earliest(ring) = ring.starts[1]
  BY <1>3, <1>7 DEF Earliest
<1>. HIDE DEF t
<1>9. ring.total - t = b
  BY <1>1, <1>2 DEF t
<1>10. Retained(r) = b /\ Retained(ring) = ring.total - ring.starts[1]
  BY <1>7, <1>8, <1>9 DEF Retained
<1>11. t < cursor => ring.total <= cursor
  <2>1. n \in 1..n /\ EndOf(ring, n) = ring.total
    BY <1>1, <1>3 DEF EndOf
  <2>2. ring.starts[n] < cursor => ring.total <= cursor
    BY <2>1 DEF WholeChunks
  <2>. QED BY <1>4, <1>6, <2>2
<1>12. WholeChunks(r, cursor)
  <2>1. \A i \in 1..Len(r.starts) : i = 1
    BY <1>7
  <2>2. EndOf(r, 1) = ring.total
    BY <1>7 DEF EndOf
  <2>. QED BY <1>6, <1>7, <1>11, <2>1, <2>2 DEF WholeChunks
<1>13. ASSUME ring.total - cursor <= cap PROVE Earliest(r) <= cursor
  <2>1. ring.starts[n] < cursor
    BY <1>1, <1>4, <1>13
  <2>2. n \in 1..n /\ EndOf(ring, n) = ring.total
    BY <1>1, <1>3 DEF EndOf
  <2>3. ring.total <= cursor
    BY <2>1, <2>2 DEF WholeChunks
  <2>. QED BY <1>1, <1>6, <1>8, <2>3
<1>. QED BY <1>1, <1>2, <1>4, <1>5, <1>7, <1>10, <1>12, <1>13

(* trim(): the ring fits the cap and only its head goes; where the cap covers *)
(* what is unread, nothing unread goes.                                       *)
LEMMA TrimFacts ==
  ASSUME NEW ring \in Ring, NEW cursor \in Nat, WholeChunks(ring, cursor), NEW cap \in Nat,
         NEW r \in Trimmed(ring, cap)
  PROVE  /\ r \in Ring /\ r.total = ring.total
         /\ Retained(r) <= cap /\ (Retained(ring) >= 0 => Retained(r) <= Retained(ring))
         /\ WholeChunks(r, cursor)
         /\ ring.total - cursor <= cap => Earliest(r) <= Earliest(ring) \/ Earliest(r) <= cursor
<1>1. CASE ring.starts = << >>
  <2>1. r = ring /\ Earliest(ring) = ring.total /\ ring.total \in Nat
    BY <1>1, RingFacts DEF Trimmed, Earliest
  <2>2. Retained(ring) = 0
    BY <2>1 DEF Retained
  <2>. QED BY <2>1, <2>2
<1>2. CASE ring.starts # << >>
  <2>1. PICK k \in KeptFrom(ring, cap) :
          \E s \in IF FitsFrom(ring, k, cap) THEN {SubSeq(ring.starts, k, Len(ring.starts))}
                   ELSE {<<ring.total - b>> : b \in TailBytes(cap)} :
            r = [ring EXCEPT !.starts = s]
    BY <1>2 DEF Trimmed
  <2>2. CASE FitsFrom(ring, k, cap)
    <3>1. r = [ring EXCEPT !.starts = SubSeq(ring.starts, k, Len(ring.starts))]
      BY <2>1, <2>2
    <3>. QED BY <2>2, <3>1, DropFacts
  <2>3. CASE ~FitsFrom(ring, k, cap)
    <3>1. PICK b \in TailBytes(cap) : r = [ring EXCEPT !.starts = <<ring.total - b>>]
      BY <2>1, <2>3
    <3>. QED BY <2>3, <3>1, TailFacts
  <2>. QED BY <2>2, <2>3
<1>. QED BY <1>1, <1>2

(* append(): the total grows by the chunk, and the ring fits the cap. *)
LEMMA AppendFacts ==
  ASSUME NEW ring \in Ring, NEW cursor \in 0..ring.total, WholeChunks(ring, cursor), NEW cap \in Nat,
         Retained(ring) <= cap, NEW b \in Nat, NEW r \in Appended(ring, b, cap)
  PROVE  /\ r \in Ring /\ r.total = ring.total + b /\ cursor \in 0..r.total
         /\ Retained(r) <= cap /\ WholeChunks(r, cursor)
<1>0. ring.total \in Nat /\ cursor \in Nat /\ Len(ring.starts) \in Nat /\ ring.starts \in Seq(Nat)
  BY RingFacts
<1>1. CASE b = 0
  BY <1>0, <1>1 DEF Appended
<1>2. CASE b # 0
  <2>. DEFINE whole == [starts |-> Append(ring.starts, ring.total), total |-> ring.total + b]
              n == Len(ring.starts)
  <2>1. /\ whole \in Ring /\ whole.total = ring.total + b /\ Len(whole.starts) = n + 1
        /\ \A i \in 1..n : whole.starts[i] = ring.starts[i]
        /\ whole.starts[n + 1] = ring.total
    BY <1>0 DEF Ring
  <2>2. r \in Trimmed(whole, cap)
    BY <1>2 DEF Appended
  <2>. HIDE DEF whole
  <2>3. ASSUME NEW i \in 1..(n + 1)
        PROVE  whole.starts[i] <= whole.total /\ (whole.starts[i] < cursor => EndOf(whole, i) <= cursor)
    <3>1. CASE i = n + 1
      BY <1>0, <2>1, <3>1
    <3>2. CASE i = n
      <4>1. i \in 1..n /\ EndOf(ring, i) = ring.total /\ EndOf(whole, i) = ring.total
        BY <1>0, <2>1, <3>2 DEF EndOf
      <4>2. ring.starts[i] \in Nat /\ ring.starts[i] <= ring.total
        BY <1>0, <4>1 DEF WholeChunks
      <4>3. whole.starts[i] = ring.starts[i] /\ whole.total = ring.total + b
        BY <2>1, <4>1
      <4>4. ring.starts[i] < cursor => ring.total <= cursor
        BY <4>1 DEF WholeChunks
      <4>5. ring.starts[i] <= ring.total + b
        BY <1>0, <4>2
      <4>. QED BY <4>1, <4>3, <4>4, <4>5
    <3>3. CASE i # n + 1 /\ i # n
      <4>1. i \in 1..n /\ i + 1 \in 1..n
        BY <1>0, <3>3
      <4>2. EndOf(ring, i) = ring.starts[i + 1] /\ EndOf(whole, i) = ring.starts[i + 1]
        BY <1>0, <2>1, <3>3, <4>1 DEF EndOf
      <4>3. ring.starts[i] \in Nat /\ ring.starts[i] <= ring.total
        BY <1>0, <4>1 DEF WholeChunks
      <4>4. whole.starts[i] = ring.starts[i] /\ whole.total = ring.total + b
        BY <2>1, <4>1
      <4>5. ring.starts[i] < cursor => EndOf(ring, i) <= cursor
        BY <4>1 DEF WholeChunks
      <4>6. ring.starts[i] <= ring.total + b
        BY <1>0, <4>3
      <4>. QED BY <4>2, <4>4, <4>5, <4>6
    <3>. QED BY <3>1, <3>2, <3>3
  <2>4. WholeChunks(whole, cursor)
    BY <2>1, <2>3 DEF WholeChunks
  <2>5. r \in Ring /\ r.total = whole.total /\ Retained(r) <= cap /\ WholeChunks(r, cursor)
    BY <1>0, <2>1, <2>2, <2>4, TrimFacts
  <2>. QED BY <1>0, <2>1, <2>5
<1>. QED BY <1>1, <1>2

-----------------------------------------------------------------------------
(* The output of one job. *)

LEMMA Caps == RetainBytes \in Nat /\ SettledRetainBytes \in Nat /\ MaxBytes \in Nat
BY JobsAssumption

LEMMA OutputParts ==
  ASSUME NEW o, OutputOK(o)
  PROVE  /\ o.ring \in Ring /\ o.cursor \in Nat /\ o.source \in Nat /\ o.ring.total \in Nat
         /\ o.cursor <= o.ring.total /\ o.source \in 0..MaxBytes
         /\ Retained(o.ring) \in Int /\ 0 <= Retained(o.ring) /\ Retained(o.ring) <= RetainBytes
         /\ WholeChunks(o.ring, o.cursor)
<1>1. o.ring \in Ring /\ o.cursor \in Nat /\ o.source \in Nat
  BY DEF OutputOK, Outputs
<1>2. o.ring.total \in Nat /\ Retained(o.ring) \in Int /\ Earliest(o.ring) \in Nat
  BY <1>1, RingFacts
<1>3. WholeChunks(o.ring, o.cursor) /\ o.cursor <= o.ring.total /\ o.source \in 0..MaxBytes
      /\ Retained(o.ring) <= RetainBytes
  BY <1>2 DEF OutputOK
<1>4. Earliest(o.ring) <= o.ring.total
  <2>1. CASE o.ring.starts = << >>
    BY <1>2, <2>1 DEF Earliest
  <2>2. CASE o.ring.starts # << >>
    <3>1. Len(o.ring.starts) \in Nat /\ Len(o.ring.starts) # 0
      BY <1>1, <2>2, RingFacts
    <3>2. 1 \in 1..Len(o.ring.starts)
      BY <3>1
    <3>. QED BY <1>3, <2>2, <3>2 DEF Earliest, WholeChunks
  <2>. QED BY <2>1, <2>2
<1>5. 0 <= Retained(o.ring)
  BY <1>2, <1>4 DEF Retained
<1>. QED BY <1>1, <1>2, <1>3, <1>5

LEMMA OutputOf ==
  ASSUME NEW r \in Ring, NEW c \in 0..r.total, NEW s \in 0..MaxBytes,
         Retained(r) <= RetainBytes, WholeChunks(r, c)
  PROVE  OutputOK([ring |-> r, cursor |-> c, source |-> s])
<1>1. c \in Nat /\ s \in Nat
  BY RingFacts, Caps
<1>. QED BY <1>1 DEF OutputOK, Outputs

(* A chunk is appended, and the source left as it is or drained. *)
LEMMA AppendedOutput ==
  ASSUME NEW o, OutputOK(o), NEW b \in Nat, NEW r \in Appended(o.ring, b, RetainBytes),
         NEW s \in 0..MaxBytes, NEW n, n = [o EXCEPT !.ring = r, !.source = s]
  PROVE  OutputOK(n)
<1>1. /\ o.ring \in Ring /\ o.cursor \in 0..o.ring.total /\ Retained(o.ring) <= RetainBytes
      /\ WholeChunks(o.ring, o.cursor) /\ o \in Outputs
  BY OutputParts DEF OutputOK
<1>2. /\ r \in Ring /\ o.cursor \in 0..r.total /\ Retained(r) <= RetainBytes
      /\ WholeChunks(r, o.cursor)
  BY <1>1, AppendFacts, Caps
<1>3. n = [ring |-> r, cursor |-> o.cursor, source |-> s]
  BY <1>1 DEF Outputs
<1>. QED BY <1>2, <1>3, OutputOf

(* A settlement keeps what is unread. *)
LEMMA SettledOutput ==
  ASSUME NEW o, OutputOK(o), NEW r \in SettledRings(o)
  PROVE  /\ OutputOK([o EXCEPT !.ring = r])
         /\ Earliest(r) <= Earliest(o.ring) \/ Earliest(r) <= o.cursor
<1>. DEFINE unread == o.ring.total - o.cursor
            cap == IF unread > SettledRetainBytes THEN unread ELSE SettledRetainBytes
<1>1. /\ o.ring \in Ring /\ o.cursor \in Nat /\ o.ring.total \in Nat /\ o.cursor <= o.ring.total
      /\ o.source \in 0..MaxBytes /\ WholeChunks(o.ring, o.cursor) /\ o \in Outputs
      /\ Retained(o.ring) \in Int /\ 0 <= Retained(o.ring) /\ Retained(o.ring) <= RetainBytes
  BY OutputParts DEF OutputOK
<1>2. unread \in Nat /\ cap \in Nat /\ unread <= cap
  BY <1>1, Caps
<1>3. r \in Trimmed(o.ring, cap)
  BY DEF SettledRings
<1>. HIDE DEF cap
<1>4. /\ r \in Ring /\ r.total = o.ring.total /\ WholeChunks(r, o.cursor)
      /\ Retained(r) <= Retained(o.ring)
      /\ Earliest(r) <= Earliest(o.ring) \/ Earliest(r) <= o.cursor
  BY <1>1, <1>2, <1>3, TrimFacts
<1>5. Retained(r) <= RetainBytes
  BY <1>1, <1>4, RingFacts, Caps
<1>6. [o EXCEPT !.ring = r] = [ring |-> r, cursor |-> o.cursor, source |-> o.source]
  BY <1>1 DEF Outputs
<1>7. o.cursor \in 0..r.total
  BY <1>1, <1>4
<1>. QED BY <1>1, <1>4, <1>5, <1>6, <1>7, OutputOf

(* A read consumes the output up to its end. *)
LEMMA ReadOutput ==
  ASSUME NEW o, OutputOK(o), NEW r \in {o.ring} \union Trimmed(o.ring, SettledRetainBytes),
         NEW n, n = [o EXCEPT !.ring = r, !.cursor = r.total]
  PROVE  OutputOK(n)
<1>1. /\ o.ring \in Ring /\ o.cursor \in Nat /\ o.ring.total \in Nat
      /\ o.source \in 0..MaxBytes /\ WholeChunks(o.ring, o.cursor) /\ o \in Outputs
      /\ Retained(o.ring) \in Int /\ 0 <= Retained(o.ring) /\ Retained(o.ring) <= RetainBytes
  BY OutputParts DEF OutputOK
<1>2. r \in Ring /\ WholeChunks(r, o.cursor) /\ Retained(r) <= RetainBytes
  <2>1. CASE r = o.ring
    BY <1>1, <2>1
  <2>2. CASE r \in Trimmed(o.ring, SettledRetainBytes)
    <3>1. r \in Ring /\ WholeChunks(r, o.cursor) /\ Retained(r) <= Retained(o.ring)
      BY <1>1, <2>2, TrimFacts, Caps
    <3>. QED BY <1>1, <3>1, RingFacts, Caps
  <2>. QED BY <2>1, <2>2
<1>3. r.total \in Nat /\ Len(r.starts) \in Nat /\ \A i \in 1..Len(r.starts) : r.starts[i] <= r.total
  BY <1>2, RingFacts DEF WholeChunks
<1>4. ASSUME NEW i \in 1..Len(r.starts) PROVE EndOf(r, i) <= r.total
  <2>1. CASE i = Len(r.starts)
    BY <1>3, <2>1 DEF EndOf
  <2>2. CASE i # Len(r.starts)
    <3>1. i + 1 \in 1..Len(r.starts)
      BY <1>3, <2>2
    <3>. QED BY <1>3, <2>2, <3>1 DEF EndOf
  <2>. QED BY <2>1, <2>2
<1>5. WholeChunks(r, r.total)
  BY <1>3, <1>4 DEF WholeChunks
<1>6. r.total \in 0..r.total
  BY <1>3
<1>7. n = [ring |-> r, cursor |-> r.total, source |-> o.source]
  <2>1. PICK t : t = r.total
    OBVIOUS
  <2>2. n = [o EXCEPT !.ring = r, !.cursor = t]
    BY <2>1
  <2>3. n = [ring |-> r, cursor |-> t, source |-> o.source]
    BY <1>1, <2>2 DEF Outputs
  <2>. QED BY <2>1, <2>3
<1>8. OutputOK([ring |-> r, cursor |-> r.total, source |-> o.source])
  BY <1>1, <1>2, <1>5, <1>6, OutputOf
<1>. QED BY <1>7, <1>8

-----------------------------------------------------------------------------
(* Steps of the registry. *)

(* What a step may do to the jobs: a terminal record stands, and a job that *)
(* settles keeps its unread output and, on its producer's outcome, all of   *)
(* its source's.                                                            *)
SettleStep ==
  \A j \in JobIds :
    /\ job[j].status \in Terminal =>
         job'[j].status = job[j].status /\ job'[j].settleCause = job[j].settleCause
    /\ Live(j) /\ ~Live(j)' =>
         /\ out'[j].ring \in SettledRings(out[j])
         /\ job'[j].pump = "joined" => out[j].source = 0

LEMMA InvInit == ASSUME Init PROVE Inv
<1>1. NoOutput \in Outputs /\ OutputOK(NoOutput)
  <2>1. EmptyRing \in Ring /\ EmptyRing.total = 0 /\ Len(EmptyRing.starts) = 0
        /\ Retained(EmptyRing) = 0
    BY DEF EmptyRing, Ring, Retained, Earliest
  <2>2. WholeChunks(EmptyRing, 0) /\ 0 \in 0..EmptyRing.total /\ 0 \in 0..MaxBytes
        /\ Retained(EmptyRing) <= RetainBytes
    BY <2>1, Caps DEF WholeChunks
  <2>3. OutputOK(NoOutput)
    BY <2>1, <2>2, OutputOf DEF NoOutput
  <2>. QED BY <2>3 DEF OutputOK
<1>2. NoJob \in JobRecords /\ NoJob.status = "none" /\ ~NoJob.waiting /\ NoJob.pump = "off"
  BY DEF NoJob, JobRecords
<1>3. Shape
  BY <1>2 DEF Init, Shape
<1>4. OutInv
  BY <1>1 DEF Init, OutInv
<1>5. Records
  BY <1>2 DEF Init, Records, Live, Active, NoOutput
<1>6. Kept
  BY DEF Init, Kept
<1>. QED BY <1>3, <1>4, <1>5, <1>6 DEF Inv

LEMMA Facts ==
  ASSUME Inv, NEW j \in JobIds
  PROVE  /\ job[j] \in JobRecords /\ OutputOK(out[j]) /\ out[j] \in Outputs
         /\ job[j].status = "none" => j \notin store /\ job[j].pump = "off" /\ ~job[j].done
                                      /\ ~job[j].waiting
         /\ job[j].pump # "on" => out[j].source = 0
         /\ job[j].pump = "joined" => ~Live(j)
         /\ Live(j) => j \in store
<1>1. job[j] \in JobRecords
  BY DEF Inv, Shape
<1>2. OutputOK(out[j]) /\ out[j] \in Outputs
  BY DEF Inv, OutInv
<1>3. job[j].status = "none" => j \notin store /\ job[j] = NoJob
  BY DEF Inv, Records
<1>4. NoJob.pump = "off" /\ ~NoJob.done /\ ~NoJob.waiting
  BY DEF NoJob
<1>5. /\ job[j].pump # "on" => out[j].source = 0
      /\ job[j].pump = "joined" => ~Live(j)
      /\ Live(j) => j \in store
  BY DEF Inv, Records
<1>. QED BY <1>1, <1>2, <1>3, <1>4, <1>5

(* A step that changes the record and the output of one job. *)
LEMMA RecordMoves ==
  ASSUME Inv, NEW j \in JobIds, NEW r \in JobRecords, NEW n, OutputOK(n),
         job' = [job EXCEPT ![j] = r], out' = [out EXCEPT ![j] = n],
         UNCHANGED <<store, owner, cleanups, sweeps, service>>,
         r.owner = job[j].owner, job[j].status # "none", r.status # "none",
         r.status \in Active => Live(j),
         r.waiting => r.status \in Active,
         r.pump # "on" => n.source = 0,
         r.pump = "joined" => r.status \notin Active,
         job[j].status \in Terminal =>
           r.status = job[j].status /\ r.settleCause = job[j].settleCause,
         Live(j) /\ r.status \notin Active =>
           n.ring \in SettledRings(out[j]) /\ job[j].pump # "on"
  PROVE  Inv' /\ SettleStep
<1>1. /\ job \in [JobIds -> JobRecords] /\ out \in [JobIds -> Outputs]
      /\ n \in Outputs
  BY DEF Inv, Shape, OutInv, OutputOK
<1>2. job'[j] = r /\ out'[j] = n
  BY <1>1
<1>3. \A i \in JobIds : i # j => job'[i] = job[i] /\ out'[i] = out[i]
  BY <1>1
<1>4. job' \in [JobIds -> JobRecords] /\ out' \in [JobIds -> Outputs]
  BY <1>1
<1>5. Shape'
  <2>1. \A i \in JobIds : job'[i].waiting => job'[i].status \in Active
    BY <1>2, <1>3 DEF Inv, Shape, Live
  <2>. QED BY <1>4, <2>1 DEF Inv, Shape, Live
<1>6. OutInv'
  <2>1. \A i \in JobIds : OutputOK(out'[i])
    BY <1>2, <1>3 DEF Inv, OutInv
  <2>. QED BY <1>4, <2>1 DEF OutInv
<1>7. ASSUME NEW i \in JobIds
      PROVE  /\ job'[i].status = "none" => i \notin store /\ job'[i] = NoJob /\ out'[i].cursor = 0
             /\ job'[i].pump # "on" => out'[i].source = 0
             /\ job'[i].pump = "joined" => job'[i].status \notin Active
             /\ job'[i].status \in Active => i \in store
  <2>1. CASE i = j
    <3>1. Live(j) => j \in store
      BY DEF Inv, Records
    <3>. QED BY <1>2, <2>1, <3>1
  <2>2. CASE i # j
    BY <1>3, <2>2 DEF Inv, Records, Live
  <2>. QED BY <2>1, <2>2
<1>8. Records'
  BY <1>7 DEF Records, Live
<1>9. Kept'
  <2>1. ASSUME NEW i \in store, job'[i].owner # Unowned
        PROVE  \/ job'[i].owner \in cleanups
               \/ \E s \in sweeps : s.owner = job'[i].owner /\ i \in s.jobs
    <3>1. job'[i].owner = job[i].owner
      BY <1>2, <1>3 DEF Inv, Shape
    <3>2. Keeper(i)
      BY <2>1, <3>1 DEF Inv, Kept
    <3>. QED BY <3>1, <3>2 DEF Keeper
  <2>. QED BY <2>1 DEF Kept, Keeper
<1>10. SettleStep
  <2>1. ASSUME NEW i \in JobIds
        PROVE  /\ job[i].status \in Terminal =>
                    job'[i].status = job[i].status /\ job'[i].settleCause = job[i].settleCause
               /\ Live(i) /\ job'[i].status \notin Active =>
                    /\ out'[i].ring \in SettledRings(out[i])
                    /\ job'[i].pump = "joined" => out[i].source = 0
    <3>1. CASE i = j
      BY <1>2, <3>1, Facts
    <3>2. CASE i # j
      BY <1>3, <3>2 DEF Live
    <3>. QED BY <3>1, <3>2
  <2>. QED BY <2>1 DEF SettleStep, Live
<1>. QED BY <1>5, <1>6, <1>8, <1>9, <1>10 DEF Inv

(* What a step outside the producers and controllers does to the jobs: it   *)
(* may ask live ones to stop, or settle them.                               *)
Torn ==
  /\ job' \in [JobIds -> JobRecords] /\ out' \in [JobIds -> Outputs]
  /\ \A j \in JobIds :
       /\ OutputOK(out'[j])
       /\ out'[j].cursor = out[j].cursor /\ out'[j].source = out[j].source
       /\ job'[j].owner = job[j].owner /\ job'[j].pump = job[j].pump
       /\ job'[j].status \in Active => Live(j)
       /\ job'[j].waiting => job'[j].status \in Active
       /\ ~Live(j) => job'[j] = job[j]
       /\ Live(j) => job'[j].status # "none"
       /\ Live(j) /\ job'[j].status \notin Active => out'[j].ring \in SettledRings(out[j])

LEMMA RegistryMoves ==
  ASSUME Inv, Torn, store' \subseteq store, \A j \in JobIds : Live(j) => j \in store',
         owner' \in [Owners -> {"live", "unwinding", "gone"}], cleanups' \subseteq Owners,
         sweeps' \subseteq [by : {"owner", "service"}, owner : Owners \union {Unowned},
                            jobs : SUBSET JobIds],
         service' \in {"open", "sweeping", "detaching", "closed"},
         \A j \in store' : job[j].owner # Unowned =>
            \/ job[j].owner \in cleanups'
            \/ \E s \in sweeps' : s.owner = job[j].owner /\ j \in s.jobs
  PROVE  Inv' /\ SettleStep
<1>1. store \subseteq JobIds
  BY DEF Inv, Shape
<1>2. Shape'
  BY <1>1 DEF Shape, Torn, Live
<1>3. OutInv'
  BY DEF OutInv, Torn
<1>4. ASSUME NEW j \in JobIds
      PROVE  /\ job'[j].status = "none" => j \notin store' /\ job'[j] = NoJob /\ out'[j].cursor = 0
             /\ job'[j].pump # "on" => out'[j].source = 0
             /\ job'[j].pump = "joined" => job'[j].status \notin Active
             /\ job'[j].status \in Active => j \in store'
  <2>1. job'[j].status = "none" => ~Live(j) /\ job'[j] = job[j]
    BY DEF Torn
  <2>. QED BY <2>1 DEF Torn, Inv, Records
<1>5. Records'
  BY <1>4 DEF Records, Live
<1>6. Kept'
  <2>1. \A j \in store' : job'[j].owner = job[j].owner
    BY <1>1 DEF Torn
  <2>. QED BY <2>1 DEF Kept, Keeper
<1>7. SettleStep
  <2>1. ASSUME NEW j \in JobIds
        PROVE  /\ job[j].status \in Terminal =>
                    job'[j].status = job[j].status /\ job'[j].settleCause = job[j].settleCause
               /\ Live(j) /\ job'[j].status \notin Active =>
                    /\ out'[j].ring \in SettledRings(out[j])
                    /\ job'[j].pump = "joined" => out[j].source = 0
    <3>1. job[j].status \in Terminal => job'[j] = job[j]
      BY DEF Torn, Live, Terminal, Active
    <3>2. Live(j) => job'[j].pump # "joined"
      BY Facts DEF Torn
    <3>. QED BY <3>1, <3>2 DEF Torn
  <2>. QED BY <2>1 DEF SettleStep, Live
<1>. QED BY <1>2, <1>3, <1>5, <1>6, <1>7 DEF Inv

LEMMA UntouchedJobs == ASSUME Inv, UNCHANGED <<job, out>> PROVE Torn
<1>1. job \in [JobIds -> JobRecords] /\ out \in [JobIds -> Outputs]
  BY DEF Inv, Shape, OutInv
<1>2. ASSUME NEW j \in JobIds
      PROVE  OutputOK(out[j]) /\ (job[j].waiting => job[j].status \in Active)
             /\ (Live(j) => job[j].status # "none")
  BY DEF Inv, Shape, OutInv, Live, Active
<1>. QED BY <1>1, <1>2 DEF Torn, Live

LEMMA CancelledJobs ==
  ASSUME Inv, NEW jobs \in SUBSET JobIds, NEW throws, CancelForTeardown(jobs, throws)
  PROVE  Torn
<1>. DEFINE live == {j \in jobs : Live(j)}
            forced == live \intersect throws
            cause(j) == [job[j] EXCEPT !.settleCause = "teardown"]
<1>0. job \in [JobIds -> JobRecords] /\ out \in [JobIds -> Outputs]
  BY DEF Inv, Shape, OutInv
<1>1. job' = [j \in JobIds |-> IF j \notin live THEN job[j]
                               ELSE IF j \in forced THEN SettledRecord(cause(j), "failed")
                               ELSE [cause(j) EXCEPT !.status = "stopping"]]
  BY DEF CancelForTeardown
<1>2. PICK rings \in [forced -> UNION {SettledRings(out[j]) : j \in forced}] :
        /\ \A j \in forced : rings[j] \in SettledRings(out[j])
        /\ out' = [j \in JobIds |-> IF j \in forced THEN [out[j] EXCEPT !.ring = rings[j]] ELSE out[j]]
  BY DEF CancelForTeardown
<1>3. ASSUME NEW j \in JobIds
      PROVE  /\ out'[j] \in Outputs /\ OutputOK(out'[j])
             /\ out'[j].cursor = out[j].cursor /\ out'[j].source = out[j].source
             /\ j \in forced => out'[j].ring \in SettledRings(out[j])
             /\ j \notin forced => out'[j] = out[j]
  <2>1. OutputOK(out[j]) /\ out[j] \in Outputs
    BY Facts
  <2>2. CASE j \in forced
    <3>1. out'[j] = [out[j] EXCEPT !.ring = rings[j]] /\ rings[j] \in SettledRings(out[j])
      BY <1>2, <2>2
    <3>2. OutputOK(out'[j])
      BY <2>1, <3>1, SettledOutput
    <3>3. /\ out'[j].ring = rings[j] /\ out'[j].cursor = out[j].cursor
          /\ out'[j].source = out[j].source
      BY <2>1, <3>1 DEF Outputs
    <3>4. out'[j] \in Outputs
      BY <3>2 DEF OutputOK
    <3>. QED BY <2>2, <3>1, <3>2, <3>3, <3>4
  <2>3. CASE j \notin forced
    <3>1. out'[j] = out[j]
      BY <1>2, <2>3
    <3>. QED BY <2>1, <2>3, <3>1
  <2>. QED BY <2>2, <2>3
<1>4. ASSUME NEW j \in JobIds
      PROVE  /\ job'[j] \in JobRecords
             /\ job'[j].owner = job[j].owner /\ job'[j].pump = job[j].pump
             /\ job'[j].status \in Active => Live(j)
             /\ job'[j].waiting => job'[j].status \in Active
             /\ ~Live(j) => job'[j] = job[j]
             /\ Live(j) => job'[j].status # "none"
             /\ Live(j) /\ job'[j].status \notin Active => j \in forced
  <2>1. job[j] \in JobRecords
    BY Facts
  <2>2. job[j].waiting => Live(j)
    BY DEF Inv, Shape
  <2>3. CASE j \notin live
    <3>1. job'[j] = job[j]
      BY <1>1, <2>3
    <3>. QED BY <2>1, <2>2, <2>3, <3>1 DEF Live, Active
  <2>4. CASE j \in live /\ j \notin forced
    <3>1. job'[j] = [cause(j) EXCEPT !.status = "stopping"]
      BY <1>1, <2>4
    <3>2. /\ job'[j] \in JobRecords /\ job'[j].status = "stopping"
          /\ job'[j].owner = job[j].owner /\ job'[j].pump = job[j].pump
      BY <2>1, <3>1 DEF JobRecords, Active
    <3>. QED BY <2>4, <3>2 DEF Live, Active
  <2>5. CASE j \in forced
    <3>1. job'[j] = SettledRecord(cause(j), "failed")
      BY <1>1, <2>5
    <3>2. /\ job'[j] \in JobRecords /\ job'[j].status = "failed" /\ ~job'[j].waiting
          /\ job'[j].owner = job[j].owner /\ job'[j].pump = job[j].pump
      BY <2>1, <3>1 DEF JobRecords, SettledRecord, Terminal
    <3>. QED BY <2>5, <3>2 DEF Live, Active
  <2>. QED BY <2>3, <2>4, <2>5
<1>. HIDE DEF live, forced
<1>5. job' \in [JobIds -> JobRecords]
  BY <1>1, <1>4
<1>6. out' \in [JobIds -> Outputs]
  BY <1>2, <1>3
<1>. QED BY <1>3, <1>4, <1>5, <1>6 DEF Torn

-----------------------------------------------------------------------------
(* The operations: each keeps the invariant and is a legal settlement step. *)

LEMMA StartStep ==
  ASSUME Inv, NEW j \in JobIds, NEW o \in MayStartFor[j], NEW b \in 0..1, Start(j, o, b)
  PROVE  Inv' /\ SettleStep
<1>. DEFINE r == [NoJob EXCEPT !.status = "running", !.owner = o,
                               !.pump = IF j \in Streaming THEN "on" ELSE "off"]
<1>1. o \in Owners \union {Unowned}
  BY JobsAssumption
<1>2. PICK ring \in Appended(EmptyRing, b, RetainBytes) : out' = [out EXCEPT ![j].ring = ring]
  BY DEF Start
<1>3. /\ job[j] = NoJob /\ job[j].status = "none" /\ j \notin store
      /\ out[j].cursor = 0 /\ out[j].source = 0 /\ ~Live(j)
  <2>1. job[j].status = "none"
    BY DEF Start
  <2>2. job[j] = NoJob /\ j \notin store /\ out[j].cursor = 0
    BY <2>1 DEF Inv, Records
  <2>. QED BY <2>1, <2>2, Facts DEF Live, Active
<1>4. /\ r \in JobRecords /\ r.status = "running" /\ r.owner = o /\ r.waiting = FALSE
      /\ r.pump \in {"on", "off"}
  BY <1>1 DEF NoJob, JobRecords, Active
<1>5. job' = [job EXCEPT ![j] = r] /\ store' = store \union {j}
      /\ cleanups' = cleanups \union ({o} \ {Unowned})
      /\ owner' = owner /\ sweeps' = sweeps /\ service' = service
  BY DEF Start
<1>. HIDE DEF r
<1>6. /\ EmptyRing \in Ring /\ EmptyRing.total = 0 /\ WholeChunks(EmptyRing, 0)
      /\ Retained(EmptyRing) <= RetainBytes
  BY Caps DEF EmptyRing, Ring, WholeChunks, Retained, Earliest
<1>7. /\ ring \in Ring /\ 0 \in 0..ring.total /\ WholeChunks(ring, 0)
      /\ Retained(ring) <= RetainBytes
  <2>1. 0 \in 0..EmptyRing.total /\ b \in Nat
    BY <1>6
  <2>. QED BY <1>6, <2>1, AppendFacts, Caps
<1>8. OutputOK(out'[j]) /\ out'[j].source = 0
  <2>1. out[j] \in Outputs /\ out \in [JobIds -> Outputs]
    BY DEF Inv, OutInv
  <2>2. out'[j] = [out[j] EXCEPT !.ring = ring]
    BY <1>2, <2>1
  <2>3. out'[j] = [ring |-> ring, cursor |-> 0, source |-> 0]
    BY <1>3, <2>1, <2>2 DEF Outputs
  <2>4. 0 \in 0..MaxBytes
    BY Caps
  <2>. QED BY <1>7, <2>3, <2>4, OutputOf
<1>9. /\ job \in [JobIds -> JobRecords] /\ out \in [JobIds -> Outputs] /\ store \subseteq JobIds
      /\ cleanups \subseteq Owners
  BY DEF Inv, Shape, OutInv
<1>10. job'[j] = r /\ \A i \in JobIds : i # j => job'[i] = job[i] /\ out'[i] = out[i]
  BY <1>2, <1>5, <1>9
<1>11. job' \in [JobIds -> JobRecords] /\ out' \in [JobIds -> Outputs]
  <2>1. out'[j] \in Outputs
    BY <1>8 DEF OutputOK
  <2>2. DOMAIN out' = JobIds /\ out' = [i \in JobIds |-> out'[i]]
    BY <1>2, <1>9
  <2>. QED BY <1>4, <1>5, <1>9, <1>10, <2>1, <2>2
<1>12. Shape'
  <2>1. \A i \in JobIds : job'[i].waiting => job'[i].status \in Active
    BY <1>4, <1>10 DEF Inv, Shape, Live
  <2>2. cleanups' \subseteq Owners /\ store' \subseteq JobIds
    BY <1>1, <1>5, <1>9
  <2>. QED BY <1>5, <1>11, <2>1, <2>2 DEF Inv, Shape, Live
<1>13. OutInv'
  <2>1. \A i \in JobIds : OutputOK(out'[i])
    BY <1>8, <1>10 DEF Inv, OutInv
  <2>. QED BY <1>11, <2>1 DEF OutInv
<1>14. Records'
  <2>1. ASSUME NEW i \in JobIds
        PROVE  /\ job'[i].status = "none" => i \notin store' /\ job'[i] = NoJob /\ out'[i].cursor = 0
               /\ job'[i].pump # "on" => out'[i].source = 0
               /\ job'[i].pump = "joined" => job'[i].status \notin Active
               /\ job'[i].status \in Active => i \in store'
    <3>1. CASE i = j
      BY <1>4, <1>5, <1>8, <1>10, <3>1 DEF Active
    <3>2. CASE i # j
      BY <1>5, <1>10, <3>2 DEF Inv, Records, Live
    <3>. QED BY <3>1, <3>2
  <2>. QED BY <2>1 DEF Records, Live
<1>15. Kept'
  <2>1. ASSUME NEW i \in store', job'[i].owner # Unowned
        PROVE  \/ job'[i].owner \in cleanups'
               \/ \E s \in sweeps' : s.owner = job'[i].owner /\ i \in s.jobs
    <3>1. CASE i = j
      BY <1>4, <1>5, <1>10, <2>1, <3>1
    <3>2. CASE i # j
      <4>1. i \in store /\ job'[i].owner = job[i].owner
        BY <1>5, <1>9, <1>10, <3>2
      <4>2. Keeper(i)
        BY <2>1, <4>1 DEF Inv, Kept
      <4>. QED BY <1>5, <4>1, <4>2 DEF Keeper
    <3>. QED BY <3>1, <3>2
  <2>. QED BY <2>1 DEF Kept, Keeper
<1>16. SettleStep
  <2>1. ASSUME NEW i \in JobIds
        PROVE  /\ job[i].status \in Terminal =>
                    job'[i].status = job[i].status /\ job'[i].settleCause = job[i].settleCause
               /\ Live(i) /\ job'[i].status \notin Active =>
                    /\ out'[i].ring \in SettledRings(out[i])
                    /\ job'[i].pump = "joined" => out[i].source = 0
    <3>1. CASE i = j
      BY <1>3, <3>1 DEF Terminal
    <3>2. CASE i # j
      BY <1>10, <3>2 DEF Live
    <3>. QED BY <3>1, <3>2
  <2>. QED BY <2>1 DEF SettleStep, Live
<1>. QED BY <1>12, <1>13, <1>14, <1>15, <1>16 DEF Inv

LEMMA ProduceStep ==
  ASSUME Inv, NEW j \in JobIds, NEW b \in ChunkBytes, Produce(j, b)
  PROVE  Inv' /\ SettleStep
<1>. DEFINE n == [out[j] EXCEPT !.source = @ + b]
<1>1. /\ job[j] \in JobRecords /\ OutputOK(out[j]) /\ out[j] \in Outputs
      /\ job[j].status # "none" /\ job[j].pump = "on"
  BY Facts DEF Produce
<1>2. OutputOK(n)
  <2>1. b \in Nat
    BY JobsAssumption
  <2>2. /\ out[j].ring \in Ring /\ out[j].cursor \in Nat /\ out[j].source \in Nat
        /\ out[j].ring.total \in Nat
        /\ out[j].cursor <= out[j].ring.total /\ Retained(out[j].ring) <= RetainBytes
        /\ WholeChunks(out[j].ring, out[j].cursor)
    BY <1>1, OutputParts
  <2>3. out[j].ring.total + out[j].source + b <= MaxBytes
    BY DEF Produce, Produced
  <2>4. out[j].source + b \in 0..MaxBytes
    BY <2>1, <2>2, <2>3, Caps
  <2>5. n = [ring |-> out[j].ring, cursor |-> out[j].cursor, source |-> out[j].source + b]
    BY <1>1 DEF Outputs
  <2>6. out[j].cursor \in 0..out[j].ring.total
    BY <2>2
  <2>. QED BY <2>2, <2>4, <2>5, <2>6, OutputOf
<1>3. out' = [out EXCEPT ![j] = n]
  BY DEF Produce
<1>4. job' = [job EXCEPT ![j] = job[j]]
  BY DEF Produce, Inv, Shape
<1>5. UNCHANGED <<store, owner, cleanups, sweeps, service>>
  BY DEF Produce
<1>6. job[j].waiting => job[j].status \in Active
  BY DEF Inv, Shape, Live
<1>. HIDE DEF n
<1>. QED BY <1>1, <1>2, <1>3, <1>4, <1>5, <1>6, RecordMoves DEF Live

LEMMA AppendStep ==
  ASSUME Inv, NEW j \in JobIds, NEW b \in ChunkBytes, AppendRing(j, b)
  PROVE  Inv' /\ SettleStep
<1>1. /\ job[j] \in JobRecords /\ OutputOK(out[j]) /\ out[j] \in Outputs /\ Live(j)
      /\ job[j].status # "none" /\ (job[j].pump # "on" => out[j].source = 0)
      /\ job[j].pump # "joined"
  BY Facts DEF AppendRing, Live, Active
<1>2. PICK ring \in Appended(out[j].ring, b, RetainBytes) : out' = [out EXCEPT ![j].ring = ring]
  BY DEF AppendRing
<1>3. PICK n : n = [out[j] EXCEPT !.ring = ring, !.source = out[j].source]
  OBVIOUS
<1>4. OutputOK(n)
  <2>1. b \in Nat /\ out[j].source \in 0..MaxBytes
    BY <1>1, OutputParts, JobsAssumption
  <2>. QED BY <1>1, <1>3, <2>1, AppendedOutput
<1>5. n = [out[j] EXCEPT !.ring = ring] /\ n.source = out[j].source
  BY <1>1, <1>3 DEF Outputs
<1>6. out' = [out EXCEPT ![j] = n]
  BY <1>2, <1>5
<1>7. job' = [job EXCEPT ![j] = job[j]]
  BY DEF AppendRing, Inv, Shape
<1>8. UNCHANGED <<store, owner, cleanups, sweeps, service>>
  BY DEF AppendRing
<1>. QED BY <1>1, <1>4, <1>5, <1>6, <1>7, <1>8, RecordMoves DEF Live, Terminal, Active

LEMMA DoneStep ==
  ASSUME Inv, NEW j \in JobIds, ProducerDone(j)
  PROVE  Inv' /\ SettleStep
<1>. DEFINE r == [job[j] EXCEPT !.done = TRUE]
<1>1. /\ job[j] \in JobRecords /\ OutputOK(out[j]) /\ job[j].status # "none"
      /\ (job[j].pump # "on" => out[j].source = 0) /\ (job[j].pump = "joined" => ~Live(j))
      /\ (job[j].waiting => Live(j))
  BY Facts DEF ProducerDone, Inv, Shape
<1>2. /\ r \in JobRecords /\ r.status = job[j].status /\ r.owner = job[j].owner
      /\ r.settleCause = job[j].settleCause /\ r.pump = job[j].pump /\ r.waiting = job[j].waiting
  BY <1>1 DEF JobRecords
<1>3. job' = [job EXCEPT ![j] = r] /\ UNCHANGED <<store, owner, cleanups, sweeps, service>>
  BY DEF ProducerDone
<1>4. out' = [out EXCEPT ![j] = out[j]]
  BY DEF ProducerDone, Inv, OutInv
<1>. HIDE DEF r
<1>. QED BY <1>1, <1>2, <1>3, <1>4, RecordMoves DEF Live

LEMMA SourceFailsStep ==
  ASSUME Inv, NEW j \in JobIds, SourceFails(j)
  PROVE  Inv' /\ SettleStep
<1>. DEFINE r == [job[j] EXCEPT !.pump = "failed"]
            n == [out[j] EXCEPT !.source = 0]
<1>1. /\ job[j] \in JobRecords /\ OutputOK(out[j]) /\ out[j] \in Outputs /\ job[j].status # "none"
      /\ job[j].pump = "on" /\ (job[j].waiting => Live(j))
  BY Facts DEF SourceFails, Inv, Shape
<1>2. /\ r \in JobRecords /\ r.status = job[j].status /\ r.owner = job[j].owner
      /\ r.settleCause = job[j].settleCause /\ r.pump = "failed" /\ r.waiting = job[j].waiting
  BY <1>1 DEF JobRecords
<1>3. n = [ring |-> out[j].ring, cursor |-> out[j].cursor, source |-> 0]
  BY <1>1 DEF Outputs
<1>4. OutputOK(n) /\ n.source = 0
  <2>1. /\ out[j].ring \in Ring /\ out[j].cursor \in 0..out[j].ring.total
        /\ Retained(out[j].ring) <= RetainBytes /\ WholeChunks(out[j].ring, out[j].cursor)
    BY <1>1, OutputParts DEF OutputOK
  <2>2. 0 \in 0..MaxBytes
    BY Caps
  <2>. QED BY <1>3, <2>1, <2>2, OutputOf
<1>5. /\ job' = [job EXCEPT ![j] = r] /\ out' = [out EXCEPT ![j] = n]
      /\ UNCHANGED <<store, owner, cleanups, sweeps, service>>
  BY DEF SourceFails
<1>. HIDE DEF r, n
<1>. QED BY <1>1, <1>2, <1>4, <1>5, RecordMoves DEF Live

LEMMA DrainedOutput ==
  ASSUME Inv, NEW j \in JobIds, NEW n \in Drained(j)
  PROVE  OutputOK(n) /\ n.source = 0
<1>. DEFINE b == IF Live(j) THEN out[j].source ELSE 0
<1>1. OutputOK(out[j]) /\ out[j] \in Outputs
  BY Facts
<1>2. PICK ring \in Appended(out[j].ring, b, RetainBytes) : n = [out[j] EXCEPT !.ring = ring, !.source = 0]
  BY DEF Drained
<1>3. b \in Nat /\ 0 \in 0..MaxBytes
  BY <1>1, OutputParts, Caps
<1>. HIDE DEF b
<1>4. OutputOK(n)
  BY <1>1, <1>2, <1>3, AppendedOutput
<1>5. n.source = 0
  BY <1>1, <1>2 DEF Outputs
<1>. QED BY <1>4, <1>5

LEMMA PumpPollStep ==
  ASSUME Inv, NEW j \in JobIds, PumpPoll(j)
  PROVE  Inv' /\ SettleStep
<1>1. /\ job[j] \in JobRecords /\ job[j].status # "none" /\ job[j].pump = "on"
      /\ (job[j].waiting => Live(j))
  BY Facts DEF PumpPoll, Inv, Shape
<1>2. PICK n \in Drained(j) : out' = [out EXCEPT ![j] = n]
  BY DEF PumpPoll
<1>3. OutputOK(n) /\ n.source = 0
  BY DrainedOutput
<1>4. job' = [job EXCEPT ![j] = job[j]] /\ UNCHANGED <<store, owner, cleanups, sweeps, service>>
  BY DEF PumpPoll, Inv, Shape
<1>. QED BY <1>1, <1>2, <1>3, <1>4, RecordMoves DEF Live

LEMMA FinalDrainStep ==
  ASSUME Inv, NEW j \in JobIds, FinalDrain(j)
  PROVE  Inv' /\ SettleStep
<1>. DEFINE r == [job[j] EXCEPT !.pump = "drained"]
<1>1. job[j] \in JobRecords /\ job[j].status # "none" /\ (job[j].waiting => Live(j))
  BY Facts DEF FinalDrain, Inv, Shape
<1>2. /\ r \in JobRecords /\ r.status = job[j].status /\ r.owner = job[j].owner
      /\ r.settleCause = job[j].settleCause /\ r.pump = "drained" /\ r.waiting = job[j].waiting
  BY <1>1 DEF JobRecords
<1>3. PICK n \in Drained(j) : out' = [out EXCEPT ![j] = n]
  BY DEF FinalDrain
<1>4. OutputOK(n) /\ n.source = 0
  BY DrainedOutput
<1>5. job' = [job EXCEPT ![j] = r] /\ UNCHANGED <<store, owner, cleanups, sweeps, service>>
  BY DEF FinalDrain
<1>. HIDE DEF r
<1>. QED BY <1>1, <1>2, <1>3, <1>4, <1>5, RecordMoves DEF Live

LEMMA ProducerSettlesStep ==
  ASSUME Inv, NEW j \in JobIds, NEW status \in Outcomes, ProducerSettles(j, status)
  PROVE  Inv' /\ SettleStep
<1>1. /\ job[j] \in JobRecords /\ OutputOK(out[j]) /\ out[j] \in Outputs /\ job[j].status # "none"
      /\ job[j].pump \in {"off", "drained"} /\ out[j].source = 0 /\ (job[j].waiting => Live(j))
  BY Facts DEF ProducerSettles, Inv, Shape
<1>2. status \in Terminal /\ status # "none" /\ status \notin Active
  BY JobsAssumption DEF Terminal, Active
<1>3. UNCHANGED <<store, owner, cleanups, sweeps, service>>
  BY DEF ProducerSettles
<1>4. CASE Live(j)
  <2>. DEFINE r == [SettledRecord(job[j], status) EXCEPT !.pump = "joined"]
  <2>1. job' = [job EXCEPT ![j] = r]
    BY <1>4 DEF ProducerSettles
  <2>2. PICK ring \in SettledRings(out[j]) : out' = [out EXCEPT ![j].ring = ring]
    BY <1>4 DEF ProducerSettles
  <2>3. PICK n : n = [out[j] EXCEPT !.ring = ring]
    OBVIOUS
  <2>4. OutputOK(n)
    BY <1>1, <2>3, SettledOutput
  <2>5. n.ring = ring /\ n.source = 0 /\ out' = [out EXCEPT ![j] = n]
    BY <1>1, <2>2, <2>3 DEF Outputs
  <2>6. /\ r \in JobRecords /\ r.status = status /\ r.owner = job[j].owner /\ r.pump = "joined"
        /\ r.waiting = FALSE
    BY <1>1, <1>2 DEF JobRecords, SettledRecord
  <2>7. job[j].status \notin Terminal
    BY <1>4 DEF Live, Active, Terminal
  <2>. HIDE DEF r
  <2>. QED BY <1>1, <1>2, <1>3, <1>4, <2>1, <2>4, <2>5, <2>6, <2>7, RecordMoves
<1>5. CASE ~Live(j)
  <2>. DEFINE r == [job[j] EXCEPT !.pump = "joined"]
  <2>1. job' = [job EXCEPT ![j] = r]
    BY <1>5 DEF ProducerSettles
  <2>2. out' = [out EXCEPT ![j] = out[j]]
    BY <1>5 DEF ProducerSettles, Inv, OutInv
  <2>3. /\ r \in JobRecords /\ r.status = job[j].status /\ r.owner = job[j].owner
        /\ r.settleCause = job[j].settleCause /\ r.pump = "joined" /\ r.waiting = job[j].waiting
    BY <1>1 DEF JobRecords
  <2>. HIDE DEF r
  <2>. QED BY <1>1, <1>3, <1>5, <2>1, <2>2, <2>3, RecordMoves DEF Live
<1>. QED BY <1>4, <1>5

LEMMA KillStep ==
  ASSUME Inv, NEW j \in JobIds, Kill(j)
  PROVE  Inv' /\ SettleStep
<1>1. /\ job[j] \in JobRecords /\ OutputOK(out[j]) /\ Live(j) /\ job[j].pump # "joined"
      /\ (job[j].pump # "on" => out[j].source = 0)
  BY Facts DEF Kill
<1>2. PICK r : r = [job[j] EXCEPT !.status = "stopping", !.settleCause = "kill"]
  OBVIOUS
<1>3. /\ r \in JobRecords /\ r.status = "stopping" /\ r.owner = job[j].owner
      /\ r.pump = job[j].pump
  BY <1>1, <1>2 DEF JobRecords, Active
<1>4. job' = [job EXCEPT ![j] = r]
  BY <1>2 DEF Kill
<1>5. out' = [out EXCEPT ![j] = out[j]] /\ UNCHANGED <<store, owner, cleanups, sweeps, service>>
  BY DEF Kill, Inv, OutInv
<1>6. job[j].status # "none" /\ job[j].status \notin Terminal /\ "stopping" \in Active
  BY <1>1 DEF Live, Active, Terminal
<1>. QED BY <1>1, <1>3, <1>4, <1>5, <1>6, RecordMoves

LEMMA ReadStep ==
  ASSUME Inv, NEW j \in JobIds, Read(j)
  PROVE  Inv' /\ SettleStep
<1>1. /\ job[j] \in JobRecords /\ OutputOK(out[j]) /\ out[j] \in Outputs /\ job[j].status # "none"
      /\ (job[j].pump # "on" => out[j].source = 0) /\ (job[j].pump = "joined" => ~Live(j))
      /\ (job[j].waiting => Live(j))
  BY Facts DEF Read, Inv, Shape
<1>2. PICK ring \in {out[j].ring} \union Trimmed(out[j].ring, SettledRetainBytes) :
        out' = [out EXCEPT ![j].ring = ring, ![j].cursor = ring.total]
  BY DEF Read
<1>3. PICK n : n = [out[j] EXCEPT !.ring = ring, !.cursor = ring.total]
  OBVIOUS
<1>4. OutputOK(n)
  BY <1>1, <1>3, ReadOutput
<1>5. n.source = out[j].source
  BY <1>1, <1>3 DEF Outputs
<1>6. out' = [out EXCEPT ![j] = n]
  BY <1>2, <1>3
<1>7. job' = [job EXCEPT ![j] = job[j]] /\ UNCHANGED <<store, owner, cleanups, sweeps, service>>
  BY DEF Read, Inv, Shape
<1>. QED BY <1>1, <1>4, <1>5, <1>6, <1>7, RecordMoves DEF Live

LEMMA WaitStep ==
  ASSUME Inv, NEW j \in JobIds, Wait(j) \/ WaitEnds(j)
  PROVE  Inv' /\ SettleStep
<1>1. /\ job[j] \in JobRecords /\ OutputOK(out[j]) /\ Live(j) /\ job[j].pump # "joined"
      /\ (job[j].pump # "on" => out[j].source = 0)
  BY Facts DEF Wait, WaitEnds, Inv, Shape
<1>2. PICK w \in BOOLEAN : job' = [job EXCEPT ![j].waiting = w]
  BY DEF Wait, WaitEnds
<1>3. PICK r : r = [job[j] EXCEPT !.waiting = w]
  OBVIOUS
<1>4. /\ r \in JobRecords /\ r.status = job[j].status /\ r.owner = job[j].owner
      /\ r.pump = job[j].pump /\ r.settleCause = job[j].settleCause
  BY <1>1, <1>3 DEF JobRecords
<1>5. job' = [job EXCEPT ![j] = r]
  BY <1>2, <1>3
<1>6. out' = [out EXCEPT ![j] = out[j]] /\ UNCHANGED <<store, owner, cleanups, sweeps, service>>
  BY DEF Wait, WaitEnds, Inv, OutInv
<1>7. job[j].status # "none"
  BY <1>1 DEF Live, Active
<1>. QED BY <1>1, <1>4, <1>5, <1>6, <1>7, RecordMoves DEF Live

(* What every step outside the producers and controllers starts from. *)
LEMMA RegistryFacts ==
  ASSUME Inv
  PROVE  /\ store \subseteq JobIds /\ cleanups \subseteq Owners
         /\ owner \in [Owners -> {"live", "unwinding", "gone"}]
         /\ sweeps \subseteq [by : {"owner", "service"}, owner : Owners \union {Unowned},
                              jobs : SUBSET JobIds]
         /\ service \in {"open", "sweeping", "detaching", "closed"}
         /\ \A j \in JobIds : Live(j) => j \in store
         /\ \A j \in store : job[j].owner # Unowned =>
              \/ job[j].owner \in cleanups
              \/ \E s \in sweeps : s.owner = job[j].owner /\ j \in s.jobs
BY DEF Inv, Shape, Records, Kept, Keeper

LEMMA RemoveStep ==
  ASSUME Inv, NEW j \in JobIds, RemoveJob(j)
  PROVE  Inv' /\ SettleStep
<1>1. /\ ~Live(j) /\ store' = store \ {j}
      /\ UNCHANGED <<job, out, owner, cleanups, sweeps, service>>
  BY DEF RemoveJob
<1>2. Torn
  BY <1>1, UntouchedJobs
<1>3. \A i \in JobIds : Live(i) => i \in store'
  BY <1>1, RegistryFacts
<1>. QED BY <1>1, <1>2, <1>3, RegistryFacts, RegistryMoves

LEMMA OwnerStep ==
  ASSUME Inv, NEW o \in Owners, StartRefused(o) \/ OwnerUnwinds(o) \/ OwnerGone(o)
  PROVE  Inv' /\ SettleStep
<1>1. UNCHANGED <<store, job, out, sweeps, service>> /\ cleanups \subseteq cleanups'
      /\ cleanups' \subseteq cleanups \union {o}
  BY DEF StartRefused, OwnerUnwinds, OwnerGone
<1>2. owner' \in [Owners -> {"live", "unwinding", "gone"}]
  <2>1. CASE StartRefused(o)
    BY <2>1, RegistryFacts DEF StartRefused
  <2>2. CASE OwnerUnwinds(o)
    BY <2>2, RegistryFacts DEF OwnerUnwinds
  <2>3. CASE OwnerGone(o)
    BY <2>3, RegistryFacts DEF OwnerGone
  <2>. QED BY <2>1, <2>2, <2>3
<1>3. Torn
  BY <1>1, UntouchedJobs
<1>4. cleanups' \subseteq Owners
  BY <1>1, RegistryFacts
<1>. QED BY <1>1, <1>2, <1>3, <1>4, RegistryFacts, RegistryMoves

LEMMA ServiceClosedStep ==
  ASSUME Inv, ServiceClosed
  PROVE  Inv' /\ SettleStep
<1>1. UNCHANGED <<store, job, out, owner, cleanups, sweeps>> /\ service' = "closed"
  BY DEF ServiceClosed
<1>2. Torn
  BY <1>1, UntouchedJobs
<1>. QED BY <1>1, <1>2, RegistryFacts, RegistryMoves

LEMMA SweepEndsStep ==
  ASSUME Inv, NEW s \in sweeps, SweepEnds(s)
  PROVE  Inv' /\ SettleStep
<1>1. /\ \A j \in s.jobs : ~Live(j)
      /\ store' = store \ s.jobs /\ sweeps' = sweeps \ {s}
      /\ UNCHANGED <<job, out, owner, cleanups, service>>
  BY DEF SweepEnds
<1>2. Torn
  BY <1>1, UntouchedJobs
<1>3. \A i \in JobIds : Live(i) => i \in store'
  BY <1>1, RegistryFacts
<1>4. \A j \in store' : job[j].owner # Unowned =>
        \/ job[j].owner \in cleanups'
        \/ \E t \in sweeps' : t.owner = job[j].owner /\ j \in t.jobs
  BY <1>1, RegistryFacts
<1>. QED BY <1>1, <1>2, <1>3, <1>4, RegistryFacts, RegistryMoves

LEMMA CleanupStep ==
  ASSUME Inv, NEW o \in Owners, NEW throws, Cleanup(o, throws)
  PROVE  Inv' /\ SettleStep
<1>. DEFINE new == Sweep("owner", o, OwnedBy(o))
<1>1. /\ cleanups' = cleanups \ {o} /\ sweeps' = sweeps \union {new}
      /\ CancelForTeardown(OwnedBy(o), throws) /\ UNCHANGED <<store, owner, service>>
  BY DEF Cleanup
<1>2. OwnedBy(o) \in SUBSET JobIds
  BY RegistryFacts DEF OwnedBy
<1>3. Torn
  BY <1>1, <1>2, CancelledJobs
<1>4. /\ new \in [by : {"owner", "service"}, owner : Owners \union {Unowned}, jobs : SUBSET JobIds]
      /\ new.owner = o /\ new.jobs = OwnedBy(o)
  BY <1>2 DEF Sweep
<1>. HIDE DEF new
<1>5. ASSUME NEW j \in store, job[j].owner # Unowned
      PROVE  \/ job[j].owner \in cleanups'
             \/ \E t \in sweeps' : t.owner = job[j].owner /\ j \in t.jobs
  <2>1. CASE job[j].owner = o
    <3>1. j \in new.jobs /\ new.owner = job[j].owner
      BY <1>4, <2>1 DEF OwnedBy
    <3>. QED BY <1>1, <3>1
  <2>2. CASE job[j].owner # o
    BY <1>1, <1>5, <2>2, RegistryFacts
  <2>. QED BY <2>1, <2>2
<1>6. /\ cleanups' \subseteq Owners /\ store' = store
      /\ sweeps' \subseteq [by : {"owner", "service"}, owner : Owners \union {Unowned},
                            jobs : SUBSET JobIds]
  BY <1>1, <1>4, RegistryFacts
<1>. QED BY <1>1, <1>3, <1>5, <1>6, RegistryFacts, RegistryMoves

LEMMA DisposeAllStep ==
  ASSUME Inv, NEW throws, DisposeAll(throws)
  PROVE  Inv' /\ SettleStep
<1>. DEFINE new == Sweep("service", Unowned, store)
<1>1. /\ service' = "sweeping" /\ sweeps' = sweeps \union {new}
      /\ CancelForTeardown(store, throws) /\ UNCHANGED <<store, owner, cleanups>>
  BY DEF DisposeAll
<1>2. Torn
  BY <1>1, RegistryFacts, CancelledJobs
<1>3. new \in [by : {"owner", "service"}, owner : Owners \union {Unowned}, jobs : SUBSET JobIds]
  BY RegistryFacts DEF Sweep
<1>. HIDE DEF new
<1>4. sweeps' \subseteq [by : {"owner", "service"}, owner : Owners \union {Unowned},
                         jobs : SUBSET JobIds]
  BY <1>1, <1>3, RegistryFacts
<1>5. \A j \in store' : job[j].owner # Unowned =>
        \/ job[j].owner \in cleanups'
        \/ \E t \in sweeps' : t.owner = job[j].owner /\ j \in t.jobs
  BY <1>1, RegistryFacts
<1>. QED BY <1>1, <1>2, <1>4, <1>5, RegistryFacts, RegistryMoves

LEMMA DetachStep ==
  ASSUME Inv, NEW s \in sweeps, NEW throws, DetachOwners(s, throws)
  PROVE  Inv' /\ SettleStep
<1>. DEFINE jobs == UNION {OwnedBy(o) : o \in cleanups} \ s.jobs
            added == {Sweep("service", o, OwnedBy(o) \ s.jobs) : o \in cleanups}
<1>1. /\ s.owner = Unowned /\ \A j \in s.jobs : ~Live(j)
      /\ store' = store \ s.jobs /\ cleanups' = {} /\ service' = "detaching"
      /\ CancelForTeardown(jobs, throws) /\ sweeps' = (sweeps \ {s}) \union added
      /\ owner' = owner
  BY DEF DetachOwners
<1>2. jobs \in SUBSET JobIds
  BY RegistryFacts DEF OwnedBy
<1>. HIDE DEF jobs
<1>3. Torn
  BY <1>1, <1>2, CancelledJobs
<1>4. added \subseteq [by : {"owner", "service"}, owner : Owners \union {Unowned},
                       jobs : SUBSET JobIds]
  <2>1. ASSUME NEW o \in cleanups
        PROVE  Sweep("service", o, OwnedBy(o) \ s.jobs)
                 \in [by : {"owner", "service"}, owner : Owners \union {Unowned}, jobs : SUBSET JobIds]
    BY RegistryFacts DEF Sweep, OwnedBy
  <2>. QED BY <2>1
<1>5. ASSUME NEW j \in store', job[j].owner # Unowned
      PROVE  \E t \in sweeps' : t.owner = job[j].owner /\ j \in t.jobs
  <2>1. j \in store /\ j \notin s.jobs
    BY <1>1
  <2>2. CASE job[j].owner \in cleanups
    <3>. DEFINE t == Sweep("service", job[j].owner, OwnedBy(job[j].owner) \ s.jobs)
    <3>1. t \in added
      BY <2>2
    <3>2. t.owner = job[j].owner /\ j \in t.jobs
      BY <2>1 DEF Sweep, OwnedBy
    <3>. HIDE DEF t, added
    <3>. QED BY <1>1, <3>1, <3>2
  <2>3. CASE \E t \in sweeps : t.owner = job[j].owner /\ j \in t.jobs
    <3>1. PICK t \in sweeps : t.owner = job[j].owner /\ j \in t.jobs
      BY <2>3
    <3>2. t # s
      BY <2>1, <3>1
    <3>. HIDE DEF added
    <3>. QED BY <1>1, <3>1, <3>2
  <2>. QED BY <1>5, <2>1, <2>2, <2>3, RegistryFacts
<1>. HIDE DEF added
<1>6. /\ sweeps' \subseteq [by : {"owner", "service"}, owner : Owners \union {Unowned},
                            jobs : SUBSET JobIds]
      /\ \A i \in JobIds : Live(i) => i \in store'
  BY <1>1, <1>4, RegistryFacts
<1>. QED BY <1>1, <1>3, <1>5, <1>6, RegistryFacts, RegistryMoves

-----------------------------------------------------------------------------
LEMMA StepFacts == ASSUME Inv, Next PROVE Inv' /\ SettleStep
<1>1. CASE \E j \in JobIds : \E o \in MayStartFor[j], b \in 0..1 : Start(j, o, b)
  BY <1>1, StartStep
<1>2. CASE \E j \in JobIds : \E b \in ChunkBytes : Produce(j, b) \/ AppendRing(j, b)
  BY <1>2, ProduceStep, AppendStep
<1>3. CASE \E j \in JobIds : ProducerDone(j) \/ SourceFails(j) \/ PumpPoll(j) \/ FinalDrain(j)
  BY <1>3, DoneStep, SourceFailsStep, PumpPollStep, FinalDrainStep
<1>4. CASE \E j \in JobIds : \E status \in Outcomes : ProducerSettles(j, status)
  BY <1>4, ProducerSettlesStep
<1>5. CASE \E j \in JobIds : Kill(j) \/ Read(j) \/ Wait(j) \/ WaitEnds(j) \/ RemoveJob(j)
  BY <1>5, KillStep, ReadStep, WaitStep, RemoveStep
<1>6. CASE \E o \in Owners : StartRefused(o) \/ OwnerUnwinds(o) \/ OwnerGone(o)
  BY <1>6, OwnerStep
<1>7. CASE \E o \in Owners, throws \in SUBSET JobIds : throws \subseteq OwnedBy(o) /\ Cleanup(o, throws)
  BY <1>7, CleanupStep
<1>8. CASE \E s \in sweeps : SweepEnds(s)
  BY <1>8, SweepEndsStep
<1>9. CASE \E throws \in SUBSET JobIds : throws \subseteq store /\ DisposeAll(throws)
  BY <1>9, DisposeAllStep
<1>10. CASE \E s \in sweeps, throws \in SUBSET JobIds : throws \subseteq store /\ DetachOwners(s, throws)
  BY <1>10, DetachStep
<1>11. CASE ServiceClosed
  BY <1>11, ServiceClosedStep
<1>. QED
  BY <1>1, <1>2, <1>3, <1>4, <1>5, <1>6, <1>7, <1>8, <1>9, <1>10, <1>11 DEF Next

LEMMA InvStutters == ASSUME Inv, UNCHANGED vars PROVE Inv'
<1>1. UNCHANGED <<job, out>> /\ store' = store /\ owner' = owner /\ cleanups' = cleanups
      /\ sweeps' = sweeps /\ service' = service
  BY DEF vars
<1>2. Torn
  BY <1>1, UntouchedJobs
<1>. QED BY <1>1, <1>2, RegistryFacts, RegistryMoves

LEMMA SpecInv == Spec => []Inv
<1>1. Init => Inv
  BY InvInit
<1>2. Inv /\ [Next]_vars => Inv'
  BY StepFacts, InvStutters
<1>. QED BY <1>1, <1>2, PTL DEF Spec

(* start(), the cleanup of a disposing scope, disposeAll() and the sweeps    *)
(* they leave behind may interleave in any order: a live job is in the store *)
(* and an owned one has an attached cleanup or a teardown that counts it.    *)
THEOREM OwnedJobsAreKept == Spec => []OwnedJobHasKeeper
<1>1. ASSUME Inv PROVE OwnedJobHasKeeper
  <2>1. ASSUME NEW j \in JobIds
        PROVE  /\ out[j].ring \in Ring /\ out[j].source \in 0..MaxBytes
               /\ out[j].cursor \in 0..out[j].ring.total
               /\ Retained(out[j].ring) <= RetainBytes
               /\ job[j].waiting => Live(j)
    <3>1. OutputOK(out[j]) /\ (job[j].waiting => Live(j))
      BY <1>1, Facts DEF Inv, Shape
    <3>. QED BY <3>1 DEF OutputOK, Outputs
  <2>2. TypeOK
    BY <1>1, <2>1 DEF TypeOK, Inv, Shape, JobRecords
  <2>3. \A j \in JobIds :
          /\ Live(j) => j \in store
          /\ j \in store /\ job[j].owner # Unowned =>
               \/ job[j].owner \in cleanups
               \/ \E s \in sweeps : s.owner = job[j].owner /\ j \in s.jobs
    BY <1>1, RegistryFacts
  <2>. QED BY <2>2, <2>3 DEF OwnedJobHasKeeper
<1>. QED BY <1>1, SpecInv, PTL

(* The final drain of the pump comes before the settlement that closes the  *)
(* ring: a job that ends on its producer's outcome has every source byte.   *)
THEOREM SettlementLosesNoOutput == Spec => OutputComplete
<1>1. ASSUME Inv, [Next]_vars
      PROVE  \A j \in JobIds : Live(j) /\ ~Live(j)' /\ job'[j].pump = "joined" => out[j].source = 0
  <2>1. CASE Next
    BY <1>1, <2>1, StepFacts DEF SettleStep
  <2>2. CASE UNCHANGED vars
    BY <2>2 DEF vars, Live
  <2>. QED BY <1>1, <2>1, <2>2
<1>. QED BY <1>1, SpecInv, PTL DEF Spec, OutputComplete

(* No kill, producer outcome or second teardown changes the status or the   *)
(* cause of a job that has settled.                                         *)
THEOREM JobsSettleOnce == Spec => SettlesOnce
<1>1. ASSUME Inv, [Next]_vars
      PROVE  \A j \in JobIds : job[j].status \in Terminal =>
               job'[j].status = job[j].status /\ SettledCause(job'[j]) = SettledCause(job[j])
  <2>1. CASE Next
    BY <1>1, <2>1, StepFacts DEF SettleStep, SettledCause
  <2>2. CASE UNCHANGED vars
    BY <2>2 DEF vars
  <2>. QED BY <1>1, <2>1, <2>2
<1>. QED BY <1>1, SpecInv, PTL DEF Spec, SettlesOnce

(* The trim at settlement moves the oldest byte kept at most up to the      *)
(* cursor: no cut falls into a chunk the model has not read.                *)
THEOREM SettlementKeepsUnread == Spec => UnreadSurvives
<1>1. ASSUME Inv, [Next]_vars, NEW j \in JobIds, Live(j), ~Live(j)'
      PROVE  \/ Earliest(out'[j].ring) <= Earliest(out[j].ring)
             \/ Earliest(out'[j].ring) <= out[j].cursor
  <2>1. Next
    BY <1>1 DEF vars, Live
  <2>2. out'[j].ring \in SettledRings(out[j])
    BY <1>1, <2>1, StepFacts DEF SettleStep
  <2>3. OutputOK(out[j])
    BY <1>1, Facts
  <2>. QED BY <2>2, <2>3, SettledOutput
<1>2. ASSUME Inv, [Next]_vars
      PROVE  \A j \in JobIds : Live(j) /\ ~Live(j)' =>
               \/ Earliest(out'[j].ring) <= Earliest(out[j].ring)
               \/ Earliest(out'[j].ring) <= out[j].cursor
  BY <1>1, <1>2
<1>. QED BY <1>2, SpecInv, PTL DEF Spec, UnreadSurvives
=============================================================================
