--------------------------- MODULE AtLeastOnceQueue ---------------------------
(***************************************************************************)
(* What cante expects of its event bus, without streams, groups or lists:  *)
(* a published entry waits, is handed out, stays unsettled (and may be     *)
(* handed out again) until a consumer settles it by acknowledging it, and  *)
(* is never forgotten in between.                                          *)
(***************************************************************************)
EXTENDS Naturals

CONSTANT Entries    \* the identities an entry can have

VARIABLES
  waiting,          \* published, never handed to a consumer
  unsettled,        \* handed out at least once, not acknowledged
  settled           \* acknowledged

vars == <<waiting, unsettled, settled>>

Init == waiting = {} /\ unsettled = {} /\ settled = {}

Put(e) ==
  /\ e \notin waiting \cup unsettled \cup settled
  /\ waiting' = waiting \cup {e}
  /\ UNCHANGED <<unsettled, settled>>

HandOut(S) ==
  /\ S # {}
  /\ waiting' = waiting \ S
  /\ unsettled' = unsettled \cup S
  /\ UNCHANGED settled

Settle(e) ==
  /\ e \in unsettled
  /\ unsettled' = unsettled \ {e}
  /\ settled' = settled \cup {e}
  /\ UNCHANGED waiting

Next ==
  \/ \E e \in Entries : Put(e) \/ Settle(e)
  \/ \E S \in SUBSET waiting : HandOut(S)

Spec == Init /\ [][Next]_vars
===============================================================================
