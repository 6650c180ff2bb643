------------------------------- MODULE MCWorker -------------------------------
(* Worker on small instances.  Entries 1 and 2 are of one contact.  In      *)
(* Worker_crash they are for two numbers, the second without a route; in   *)
(* Worker_pool a third entry is another contact's, without a route.        *)
EXTENDS Worker, TLC

CONSTANTS w1, w2, alice, bob, chatA, chatB

TwoWorkers == {w1, w2}
OneWorker == {w1}
Symmetry == Permutations(TwoWorkers)

AllInbound == [e \in Entries |-> "inbound"]
LastIsTrigger == [e \in Entries |-> IF e = MaxEntries THEN "triggers" ELSE "inbound"]

OneContact == [e \in Entries |-> alice]
TwoContacts == [e \in Entries |-> IF e <= 2 THEN alice ELSE bob]

OneChat == [e \in Entries |-> chatA]
TwoNumbers == [e \in Entries |-> IF e = 1 THEN chatA ELSE chatB]
TwoChats == [e \in Entries |-> IF e <= 2 THEN chatA ELSE chatB]

AllRoutable == [e \in Entries |-> "ok"]
FirstRoutable == [e \in Entries |-> IF e = 1 THEN "ok" ELSE "none"]
EachRoute == [e \in Entries |-> CASE e = 1 -> "ok" [] e = 2 -> "blocked" [] OTHER -> "none"]

NoKinds == {}
BothKinds == {"before", "after"}
===============================================================================
