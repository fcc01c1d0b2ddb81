---------------------------- MODULE MCLlmClient ----------------------------
(* Instances of LlmClient for TLC. *)
EXTENDS LlmClient

CONSTANTS c1, c2, c3, w1, w2, w3, m1, m2

(* Three workflows whose threads may all be in the client at once: one      *)
(* holds, one waits, one is refused, or two take the lock together.         *)
EachItsOwn == [c \in {c1, c2, c3} |-> CASE c = c1 -> w1 [] c = c2 -> w2 [] c = c3 -> w3]
TwoModels == [c \in {c1, c2, c3} |-> IF c = c2 THEN m2 ELSE m1]
=============================================================================
