---------------------------- MODULE MCAcceptance ----------------------------
(* Model-checking instances of Acceptance: at most two tool calls and a loop *)
(* driver overlap, on one check that a plan declares as a user requirement   *)
(* or as an optional one.                                                    *)
EXTENDS Acceptance, TLC
CONSTANTS a, b, e, k1, w1, w2
OneTool == {a}
TwoTools == {a, b}
NoDriver == {}
OneDriver == {e}
MCChecks == {k1}
OneContent == {w1}
TwoContents == {w1, w2}
MCCommands == {1}
UserCheck == [origin |-> "user", required |-> TRUE, command |-> 1]
OptionalCheck == [origin |-> "plan", required |-> FALSE, command |-> 1]
MCPlans == {[k \in MCChecks |-> s] : s \in {UserCheck, OptionalCheck}}
ToolsAndContents == Permutations(Tools) \cup Permutations(Contents)
=============================================================================
