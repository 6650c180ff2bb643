------------------------------ MODULE MCNumbers -------------------------------
(* Numbers on small instances. *)
EXTENDS Numbers
CONSTANTS q1, q2
TwoRequests == {q1, q2}
===============================================================================
