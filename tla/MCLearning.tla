------------------------------ MODULE MCLearning ------------------------------
(* Learning on small instances: runs r1 and r2 are the scheduler's, r3 that  *)
(* of POST /v1/learnings/analyze.                                          *)
EXTENDS Learning, TLC

CONSTANTS r1, r2, r3, sched, sub, c1, c2, q1, q2

ThreeRuns == {r1, r2, r3}
TwoProcesses == {sched, sub}
OwnProcess == r1 :> sched @@ r2 :> sched @@ r3 :> sub
TwoConvs == {c1, c2}
TwoRequests == {q1, q2}
AllPlaybook == [c \in TwoConvs |-> "playbook"]
Symmetry == Permutations(TwoRequests) \cup Permutations(TwoConvs)
===============================================================================
