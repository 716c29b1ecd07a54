-------------------------- MODULE MCStorageDomain --------------------------
(* Model-checking instance of StorageDomain: two writers on two records, and *)
(* a legacy file with one or both of them.                                   *)
EXTENDS StorageDomain
CONSTANTS c1, c2, k1, k2
MCCallers == {c1, c2}
MCKeys == {k1, k2}
NoLegacy == [k \in MCKeys |-> Absent]
FullLegacy == [k \in MCKeys |-> 1]
=============================================================================
