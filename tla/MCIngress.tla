------------------------------ MODULE MCIngress ------------------------------
(* Ingress on small instances.  Message m1 comes alone, m2 and m3 in one     *)
(* webhook; m2 is filtered out and, with EchoIds, has the id of m1.         *)
EXTENDS Ingress, TLC

CONSTANTS h1, h2, p1, p2, m1, m2, m3

TwoHandlers == {h1, h2}
TwoWebhooks == {p1, p2}
AllMessages == {m1, m2, m3}
OneAndTwo == p1 :> <<m1>> @@ p2 :> <<m2, m3>>
EchoIds == [m \in AllMessages |-> IF m = m2 THEN m1 ELSE m]
NotSecond == {m1, m3}
===============================================================================
