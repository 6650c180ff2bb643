------------------------------- MODULE MCLeader -------------------------------
(* Leader on small instances. *)
EXTENDS Leader, TLC

CONSTANTS s1, s2, s3

ThreeSchedulers == {s1, s2, s3}
Symmetry == Permutations(ThreeSchedulers)
===============================================================================
