-------------------------------- MODULE Sender --------------------------------
(***************************************************************************)
(* services/sender/main.py: the senders that drain stream:outbound into    *)
(* Evolution.  Each runs consume, then send_one and ack entry by entry,    *)
(* then trim_delivered.  The stream is StreamGroup, command for command,   *)
(* with the senders as consumers; no sender ever calls claim_pending.      *)
(***************************************************************************)
EXTENDS Naturals, FiniteSets

CONSTANTS
  Senders,
  MaxEntries,    \* bound: replies published
  MaxLen,        \* XADD MAXLEN (10_000)
  Count,         \* entries per XREADGROUP (5)
  Deliverable,   \* replies whose number has a config, with a recipient and a text
  MaxAbandons    \* bound: batches a sender gave up

Replies == 1..MaxEntries

ASSUME SenderAssumption ==
  /\ MaxEntries \in Nat /\ MaxAbandons \in Nat
  /\ MaxLen \in Nat \ {0} /\ Count \in Nat \ {0}
  /\ Deliverable \subseteq Replies

VARIABLES
  top, stream, group, delivered, pel, idle, held, snap, acked, crashes, flushes,
  pc,            \* pc[s]: the await sender s is at
  sends,         \* sends[e]: times Evolution accepted e
  logged         \* replies given up with a log line

bus == <<top, stream, group, delivered, pel, idle, held, snap, acked, crashes, flushes>>
vars == <<bus, pc, sends, logged>>

Bus == INSTANCE StreamGroup WITH
  Consumers <- Senders, Claimers <- {}, Trimmers <- Senders, ClaimCount <- 1,
  MaxCrashes <- MaxAbandons, MaxFlushes <- 0

Goto(s, label) == pc' = [pc EXCEPT ![s] = label]

(* The entry the for loop of s is at. *)
Current(s, e) == e \in held[s] /\ \A f \in held[s] : e <= f

Init ==
  /\ Bus!Init
  /\ pc = [s \in Senders |-> "consume"]
  /\ sends = [e \in Replies |-> 0]
  /\ logged = {}

-------------------------------------------------------------------------------
(* A worker, or the API for a human agent, publishes a reply. *)
Publish == Bus!Publish /\ UNCHANGED <<pc, sends, logged>>

(* At boot, or on NOGROUP. *)
CreateGroup == Bus!CreateGroup /\ UNCHANGED <<pc, sends, logged>>

Consume(s) ==
  /\ pc[s] = "consume"
  /\ Bus!Consume(s)
  /\ Goto(s, "resolve")
  /\ UNCHANGED <<sends, logged>>

(* Wrong: waits for a configuration. *)
ResolveWaits(s) ==
  /\ pc[s] = "resolve"
  /\ \E e \in held[s] : Current(s, e) /\ e \in Deliverable
  /\ Goto(s, "send")
  /\ UNCHANGED <<bus, sends, logged>>

(* send_one up to the channel: the pacing sleep and _resolve_channel_config; *)
(* without a config, a recipient or a text there is nothing to send.       *)
Resolve(s) ==
  /\ pc[s] = "resolve"
  /\ \E e \in held[s] :
       /\ Current(s, e)
       /\ IF e \in Deliverable
          THEN Goto(s, "send") /\ UNCHANGED logged
          ELSE Goto(s, "ack") /\ logged' = logged \cup {e}
  /\ UNCHANGED <<bus, sends>>

(* channel.send_text: Evolution takes the message or not, and answers or     *)
(* not; an exception is logged and swallowed.                              *)
Send(s) ==
  /\ pc[s] = "send"
  /\ \E e \in held[s], accepted \in BOOLEAN, answered \in BOOLEAN :
       /\ Current(s, e)
       /\ sends' = IF accepted THEN [sends EXCEPT ![e] = @ + 1] ELSE sends
       /\ logged' = IF accepted /\ answered THEN logged ELSE logged \cup {e}
  /\ Goto(s, "ack")
  /\ UNCHANGED bus

Ack(s) ==
  /\ pc[s] = "ack"
  /\ \E e \in held[s] :
       /\ Current(s, e)
       /\ Bus!Ack(s, e)
       /\ Goto(s, IF held[s] = {e} THEN "trim" ELSE "resolve")
  /\ UNCHANGED <<sends, logged>>

(* Wrong: trims whatever is pending. *)
TrimAnyway(s) ==
  /\ pc[s] = "trim"
  /\ snap' = [snap EXCEPT ![s] = delivered]
  /\ Goto(s, "trimApply")
  /\ UNCHANGED <<top, stream, group, delivered, pel, idle, held, acked, crashes, flushes,
                 sends, logged>>

(* trim_delivered: XINFO, then XTRIM; it gives up when entries are pending, *)
(* and on any error.                                                       *)
Trim(s) ==
  /\ pc[s] = "trim"
  /\ \/ Bus!TrimInfo(s) /\ Goto(s, "trimApply")
     \/ UNCHANGED bus /\ Goto(s, "consume")
  /\ UNCHANGED <<sends, logged>>

TrimApply(s) ==
  /\ pc[s] = "trimApply"
  /\ Bus!TrimApply(s)
  /\ Goto(s, "consume")
  /\ UNCHANGED <<sends, logged>>

(* Wrong: after an exception the loop starts the entry over. *)
AbandonRetries(s) ==
  /\ crashes < MaxAbandons /\ held[s] # {}
  /\ crashes' = crashes + 1
  /\ Goto(s, "resolve")
  /\ UNCHANGED <<top, stream, group, delivered, pel, idle, held, snap, acked, flushes,
                 sends, logged>>

(* The sender dies, or an exception (the database in _resolve_channel_config, *)
(* Redis in ack) takes its loop back to consume: the batch stays pending.  *)
Abandon(s) ==
  /\ Bus!Crash(s)
  /\ Goto(s, "consume")
  /\ UNCHANGED <<sends, logged>>

Step(s) ==
  Consume(s) \/ Resolve(s) \/ Send(s) \/ Ack(s) \/ Trim(s) \/ TrimApply(s)

Next ==
  \/ Publish
  \/ CreateGroup
  \/ \E s \in Senders : Step(s) \/ Abandon(s)

Spec == Init /\ [][Next]_vars

(* The loop of a running sender never stops. *)
FairSpec == Spec /\ WF_vars(CreateGroup) /\ \A s \in Senders : WF_vars(Step(s))

-------------------------------------------------------------------------------
TypeOK ==
  /\ Bus!TypeOK
  /\ pc \in [Senders -> {"consume", "resolve", "send", "ack", "trim", "trimApply"}]
  /\ sends \in [Replies -> Nat]
  /\ logged \subseteq 1..top

(* A contact never gets a reply twice: whatever sender dies or fails between
   Evolution's answer and the acknowledgement, nobody sends the entry again
   (main never reclaims, and XREADGROUP hands an entry out once). *)
NeverSentTwice == \A e \in Replies : sends[e] <= 1

Tried(e) == sends[e] > 0 \/ e \in logged

(* No reply disappears without a trace, as the module's docstring promises
   ("visible in logs rather than silently dropping messages"): one that was
   acknowledged, and one that left the stream before MAXLEN was exceeded, was
   accepted by Evolution or logged, although a sender trims while others, or
   a sender that died, have replies they never came to. *)
NoSilentDrop ==
  /\ \A e \in acked : Tried(e)
  /\ Bus!LossFree => \A e \in (1..top) \ stream : Tried(e)

(* Unless a sender gave up a batch or MAXLEN was exceeded, every reply
   published is accepted by Evolution or logged: reading, sending and trimming
   strand nothing. *)
TriedUnlessAbandoned ==
  \A e \in Replies : e \in stream ~> Tried(e) \/ crashes > 0 \/ ~Bus!LossFree
===============================================================================
