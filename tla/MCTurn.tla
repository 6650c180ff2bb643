-------------------------------- MODULE MCTurn --------------------------------
(* One run for Turn and AgentLoop in three scenes: attempts beside an edit    *)
(* of the contact, attempts beside a message of an operator, and one call  *)
(* of the loop.  Each scene's steps are steps of Spec or of LoopSpec.      *)
EXTENDS Turn, AgentLoop, TLC

CONSTANTS r1, q1, a1, a2, a3

VARIABLE scene

MCInit ==
  /\ Init /\ LoopInit
  /\ \/ scene = "edit" /\ history = <<>>
     \/ scene = "operator" /\ history = <<>> /\ phone = NoLang
     \/ scene = "call" /\ phone = NoLang

MCNext ==
  \/ scene = "edit" /\ Next /\ UNCHANGED <<human, loopVars, scene>>
  \/ scene = "operator" /\ Next /\ UNCHANGED <<edit, loopVars, scene>>
  \/ scene = "call" /\ LoopNext /\ UNCHANGED <<vars, scene>>

MCSpec == MCInit /\ [][MCNext]_<<vars, loopVars, scene>>

English == [br |-> FALSE, eu |-> FALSE, pt |-> 0, en |-> 2, es |-> 1, scope |-> FALSE]
Unclear == [br |-> FALSE, eu |-> FALSE, pt |-> 1, en |-> 1, es |-> 1, scope |-> TRUE]
TwoTexts == {English, Unclear}
SomePhones == {NoLang, "pt-PT"}
OneReply == {r1}
SomeHuman == {r1, ""}
OneEdit == {q1}
SomeValues == {"es"}
ThreeAttempts == {a1, a2, a3}
Symmetry == Permutations(ThreeAttempts)
===============================================================================
