----------------------------- MODULE MCStreamGroup -----------------------------
(* StreamGroup on small instances. *)
EXTENDS StreamGroup

CONSTANTS c1, c2

TwoConsumers == {c1, c2}
===============================================================================
