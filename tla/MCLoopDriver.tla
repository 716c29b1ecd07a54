---------------------------- MODULE MCLoopDriver ----------------------------
(* Model-checking instance of LoopDriver: two candidate identities suffice  *)
(* for every comparison the gate makes (same, different, and changed back). *)
EXTENDS LoopDriver
CONSTANTS k1, k2
MCKeys == {k1, k2}
=============================================================================
