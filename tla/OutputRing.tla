----------------------------- MODULE OutputRing -----------------------------
(***************************************************************************)
(* The bounded output ring of one job (jobs-local/src/ring.ts).  A retained *)
(* chunk is the absolute offset it starts at (its `at`, in UTF-8 bytes):    *)
(* chunks are contiguous, so each ends where the next starts and the last   *)
(* one at `total`.                                                          *)
(***************************************************************************)
EXTENDS Naturals, Sequences, FiniteSets

Ring == [starts : Seq(Nat), total : Nat]
EmptyRing == [starts |-> << >>, total |-> 0]

(* Offset of the oldest retained byte, and the bytes retained from it on. *)
Earliest(ring) == IF ring.starts = << >> THEN ring.total ELSE ring.starts[1]
Retained(ring) == ring.total - Earliest(ring)

(* The bytes retained when the chunks before the k-th are dropped fit. *)
FitsFrom(ring, k, cap) == ring.total - ring.starts[k] <= cap

(* utf8Tail(): the cut advances past at most three continuation bytes. *)
TailBytes(cap) == {b \in 0..cap : b + 3 >= cap}

(* The first chunk trim() keeps: head chunks go until the rest fits the cap *)
(* or one is left.                                                          *)
KeptFrom(ring, cap) ==
  {k \in 1..Len(ring.starts) :
     /\ \A i \in 1..(k - 1) : ~FitsFrom(ring, i, cap)
     /\ FitsFrom(ring, k, cap) \/ k = Len(ring.starts)}

(* The rings trim() may leave: a single oversized chunk keeps a tail. *)
Trimmed(ring, cap) ==
  IF ring.starts = << >> THEN {ring}
  ELSE {[ring EXCEPT !.starts = s] :
          s \in UNION {IF FitsFrom(ring, k, cap) THEN {SubSeq(ring.starts, k, Len(ring.starts))}
                       ELSE {<<ring.total - b>> : b \in TailBytes(cap)} :
                       k \in KeptFrom(ring, cap)}}

(* The rings append() of b bytes may leave; an empty chunk changes nothing. *)
Appended(ring, b, cap) ==
  IF b = 0 THEN {ring}
  ELSE Trimmed([starts |-> Append(ring.starts, ring.total), total |-> ring.total + b], cap)
=============================================================================
