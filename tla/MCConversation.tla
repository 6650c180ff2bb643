---------------------------- MODULE MCConversation ----------------------------
(* Conversation on small instances. *)
EXTENDS Conversation, TLC

CONSTANTS o1, o2, a1, a2, a3

TwoOperators == {o1, o2}
ThreeAttempts == {a1, a2, a3}
Symmetry == Permutations(TwoOperators) \cup Permutations(ThreeAttempts)
===============================================================================
