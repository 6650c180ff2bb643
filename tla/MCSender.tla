------------------------------- MODULE MCSender -------------------------------
(* Sender on small instances; the number of reply 2 has no configuration    *)
(* where Deliverable is OddReplies.                                        *)
EXTENDS Sender

CONSTANTS s1, s2

TwoSenders == {s1, s2}
OddReplies == {e \in Replies : e % 2 = 1}
===============================================================================
