------------------------------ MODULE StreamGroup ------------------------------
(***************************************************************************)
(* core/cante/bus.py: one Redis stream with one consumer group, as the     *)
(* worker and the sender use it through RedisStreamsBus.  One action per   *)
(* Redis command; trim_delivered is two commands, hence two actions.       *)
(*                                                                         *)
(* Entry ids are the naturals in the order XADD assigned them.  Redis time *)
(* is the action Age: an entry that has been pending longer than           *)
(* min_idle_ms.  A consumer that crashes, or whose loop abandons its batch *)
(* on an exception, forgets what it held; the group does not.              *)
(***************************************************************************)
EXTENDS Naturals, FiniteSets

CONSTANTS
  Consumers,     \* processes reading the group
  Claimers,      \* the consumers that run claim_pending (the workers)
  Trimmers,      \* the consumers that run trim_delivered (the senders)
  Count,         \* XREADGROUP COUNT (5 in the code)
  ClaimCount,    \* XAUTOCLAIM COUNT (10)
  MaxLen,        \* XADD MAXLEN (10_000)
  MaxEntries,    \* bound: entries published
  MaxCrashes,    \* bound: batches abandoned by a crash or an exception
  MaxFlushes     \* bound: times Redis comes back without its data

ASSUME ConstantsAssumption ==
  /\ Claimers \subseteq Consumers
  /\ Trimmers \subseteq Consumers
  /\ Count \in Nat \ {0} /\ ClaimCount \in Nat \ {0} /\ MaxLen \in Nat \ {0}
  /\ MaxEntries \in Nat /\ MaxCrashes \in Nat /\ MaxFlushes \in Nat

VARIABLES
  top,           \* the id of the newest entry, 0 before the first
  stream,        \* ids of the entries the stream still contains
  group,         \* "absent" until somebody creates the consumer group, then "exists"
  delivered,     \* the group's last-delivered-id
  pel,           \* the group's pending entries list
  idle,          \* pending entries idle for more than min_idle_ms
  held,          \* held[c]: entries a call returned to c and c has not finished
  snap,          \* snap[c]: last-delivered-id c read in trim_delivered, else 0
  acked,         \* history: entries some consumer finished and acknowledged
  crashes, flushes

redis == <<stream, group, delivered, pel, idle>>
vars == <<top, redis, held, snap, acked, crashes, flushes>>

Ids == 1..MaxEntries

(* The n smallest ids of S: what a COUNT n read in id order returns. *)
Oldest(S, n) == {i \in S : Cardinality({j \in S : j < i}) < n}

Undelivered == {i \in stream : i > delivered}

Init ==
  /\ top = 0 /\ stream = {}
  /\ group = "absent" /\ delivered = 0 /\ pel = {} /\ idle = {}
  /\ held = [c \in Consumers |-> {}] /\ snap = [c \in Consumers |-> 0]
  /\ acked = {} /\ crashes = 0 /\ flushes = 0

(* XADD MAXLEN ~ n: appends, and may evict oldest entries as long as at     *)
(* least n stay.  It looks neither at the group nor at its pending list.   *)
Publish ==
  /\ top < MaxEntries
  /\ top' = top + 1
  /\ \E low \in 1..(top + 1) :
       LET kept == {i \in stream \cup {top + 1} : i >= low} IN
         /\ stream \subseteq kept \/ Cardinality(kept) >= MaxLen
         /\ stream' = kept
  /\ UNCHANGED <<group, delivered, pel, idle, held, snap, acked, crashes, flushes>>

(* Wrong: a boot rewinds the group that exists. *)
CreateGroupRewinds ==
  /\ group' = "exists" /\ delivered' = 0
  /\ UNCHANGED <<top, stream, pel, idle, held, snap, acked, crashes, flushes>>

(* XGROUP CREATE id=0 MKSTREAM, at boot and on NOGROUP; on an existing     *)
(* group the call answers BUSYGROUP and changes nothing.                   *)
CreateGroup ==
  /\ group = "absent"
  /\ group' = "exists" /\ delivered' = 0
  /\ UNCHANGED <<top, stream, pel, idle, held, snap, acked, crashes, flushes>>

(* Wrong: XREADGROUP with NOACK, nothing becomes pending. *)
ConsumeNoAck(c) ==
  /\ group = "exists" /\ held[c] = {} /\ snap[c] = 0
  /\ LET batch == Oldest(Undelivered, Count) IN
       \E newest \in batch :
         /\ \A i \in batch : i <= newest
         /\ delivered' = newest
         /\ held' = [held EXCEPT ![c] = batch]
  /\ UNCHANGED <<top, stream, group, pel, idle, snap, acked, crashes, flushes>>

(* XREADGROUP ">" by a consumer whose previous batch is finished. *)
Consume(c) ==
  /\ group = "exists" /\ held[c] = {} /\ snap[c] = 0
  /\ LET batch == Oldest(Undelivered, Count) IN
       \E newest \in batch :
         /\ \A i \in batch : i <= newest
         /\ delivered' = newest
         /\ pel' = pel \cup batch
         /\ held' = [held EXCEPT ![c] = batch]
  /\ UNCHANGED <<top, stream, group, idle, snap, acked, crashes, flushes>>

(* Time passes: a pending entry becomes older than min_idle_ms, whether or *)
(* not the consumer that holds it is still at work.                        *)
Age(i) ==
  /\ i \in pel \ idle
  /\ idle' = idle \cup {i}
  /\ UNCHANGED <<top, stream, group, delivered, pel, held, snap, acked, crashes, flushes>>

(* Wrong: XAUTOCLAIM starts at last-delivered-id. *)
ClaimFromEnd(c) ==
  /\ c \in Claimers
  /\ group = "exists" /\ held[c] = {} /\ snap[c] = 0
  /\ LET scanned == {i \in idle : i >= delivered} IN
       /\ scanned # {}
       /\ pel' = pel \ (scanned \ stream)
       /\ idle' = idle \ scanned
       /\ held' = [held EXCEPT ![c] = scanned \cap stream]
  /\ UNCHANGED <<top, stream, group, delivered, snap, acked, crashes, flushes>>

(* XAUTOCLAIM from 0-0: the oldest idle entries change hands; the ones no  *)
(* longer in the stream are dropped from the pending list instead.         *)
ClaimPending(c) ==
  /\ c \in Claimers
  /\ group = "exists" /\ held[c] = {} /\ snap[c] = 0
  /\ idle # {}
  /\ LET scanned == Oldest(idle, ClaimCount) IN
       /\ pel' = pel \ (scanned \ stream)
       /\ idle' = idle \ scanned
       /\ held' = [held EXCEPT ![c] = scanned \cap stream]
  /\ UNCHANGED <<top, stream, group, delivered, snap, acked, crashes, flushes>>

(* XACK: removes the entry from the pending list whoever owns it there. *)
Ack(c, i) ==
  /\ i \in held[c]
  /\ held' = [held EXCEPT ![c] = @ \ {i}]
  /\ pel' = pel \ {i}
  /\ idle' = idle \ {i}
  /\ acked' = acked \cup {i}
  /\ UNCHANGED <<top, stream, group, delivered, snap, crashes, flushes>>

(* trim_delivered, first command: XINFO GROUPS.  Gives up when anything is *)
(* pending or nothing was ever delivered.                                  *)
TrimInfo(c) ==
  /\ c \in Trimmers
  /\ group = "exists" /\ held[c] = {} /\ snap[c] = 0
  /\ pel = {} /\ delivered # 0
  /\ snap' = [snap EXCEPT ![c] = delivered]
  /\ UNCHANGED <<top, redis, held, acked, crashes, flushes>>

(* Wrong: trims up to what the stream holds now. *)
TrimToTop(c) ==
  /\ snap[c] # 0
  /\ \E low \in 1..top : stream' = {i \in stream : i >= low}
  /\ snap' = [snap EXCEPT ![c] = 0]
  /\ UNCHANGED <<top, group, delivered, pel, idle, held, acked, crashes, flushes>>

(* trim_delivered, second command: XTRIM MINID ~ with the id read before;  *)
(* an approximate trim may stop early, it never goes past MINID.           *)
TrimApply(c) ==
  /\ snap[c] # 0
  /\ \E low \in 1..snap[c] : stream' = {i \in stream : i >= low}
  /\ snap' = [snap EXCEPT ![c] = 0]
  /\ UNCHANGED <<top, group, delivered, pel, idle, held, acked, crashes, flushes>>

(* c dies and is restarted, or an exception takes its loop back to the top. *)
Crash(c) ==
  /\ crashes < MaxCrashes
  /\ held[c] # {} \/ snap[c] # 0
  /\ held' = [held EXCEPT ![c] = {}]
  /\ snap' = [snap EXCEPT ![c] = 0]
  /\ crashes' = crashes + 1
  /\ UNCHANGED <<top, redis, acked, flushes>>

(* Redis restarts empty.  Ids are timestamps: later ones stay larger. *)
Flush ==
  /\ flushes < MaxFlushes
  /\ flushes' = flushes + 1
  /\ stream' = {} /\ group' = "absent" /\ delivered' = 0 /\ pel' = {} /\ idle' = {}
  /\ UNCHANGED <<top, held, snap, acked, crashes>>

Next ==
  \/ Publish
  \/ CreateGroup
  \/ \E i \in Ids : Age(i)
  \/ \E c \in Consumers :
       \/ Consume(c)
       \/ ClaimPending(c)
       \/ \E i \in Ids : Ack(c, i)
       \/ TrimInfo(c)
       \/ TrimApply(c)
       \/ Crash(c)
  \/ Flush

Spec == Init /\ [][Next]_vars

-------------------------------------------------------------------------------
(* Fairness: the consumers' loops come back to reading and reclaiming, each  *)
(* call returns, time passes.  Crashes and flushes need not happen.        *)
Fairness ==
  /\ WF_vars(CreateGroup)
  /\ \A i \in Ids : WF_vars(Age(i))
  /\ \A c \in Consumers :
       /\ SF_vars(Consume(c))
       /\ SF_vars(ClaimPending(c))
       /\ WF_vars(\E i \in Ids : Ack(c, i))
       /\ WF_vars(TrimApply(c))

FairSpec == Spec /\ Fairness

TypeOK ==
  /\ top \in 0..MaxEntries
  /\ stream \subseteq 1..top
  /\ group \in {"absent", "exists"}
  /\ delivered \in 0..top
  /\ pel \subseteq 1..top
  /\ idle \subseteq pel
  /\ held \in [Consumers -> SUBSET (1..top)]
  /\ snap \in [Consumers -> 0..top]
  /\ acked \subseteq 1..top
  /\ crashes \in 0..MaxCrashes
  /\ flushes \in 0..MaxFlushes

(* The group never skips an entry: whatever is behind its last-delivered-id
   and still in the stream is pending or was acknowledged (XREADGROUP ">"
   with XAUTOCLAIM; create_group must start at id 0 and never rewind). *)
DeliveredAccounted ==
  \A i \in stream : i <= delivered => i \in pel \cup acked

(* Nothing in flight or finished is ahead of the group: entries pending,
   held by a consumer or acknowledged lie behind last-delivered-id as long as
   they are in the stream, an acknowledged entry is not pending, and a group
   that does not exist yet has nothing behind it. *)
BehindDelivered ==
  /\ group = "absent" => delivered = 0
  /\ pel \subseteq 1..delivered
  /\ \A c \in Consumers : held[c] \cap stream \subseteq 1..delivered
  /\ acked \cap stream \subseteq 1..delivered
  /\ acked \cap pel = {}

(* What trim_delivered's docstring calls safe by construction, although its
   two commands are not atomic: between them other consumers read, fail and
   reclaim, yet everything below the remembered id stays acknowledged. *)
SnapshotSettled ==
  \A c \in Consumers : \A i \in stream : i <= snap[c] => i \in acked

(* trim_delivered removes acknowledged entries only: apart from XADD's own
   eviction and the loss of Redis, no step takes an unacknowledged entry
   out of the stream. *)
TrimOnlyAcked ==
  [][(top' = top /\ flushes' = flushes) => (stream \ stream') \subseteq acked]_vars

(* An acknowledged entry is never handed to a consumer again: neither a
   reclaim, nor a trim, nor a boot or a reset that calls create_group on the
   existing group brings it back. *)
NoRedeliveryAfterAck ==
  [][\A c \in Consumers : (held'[c] \ held[c]) \cap acked = {}]_vars

(* The stream never grew past MAXLEN and Redis kept its data. *)
LossFree == top <= MaxLen /\ flushes = 0

(* At-least-once, as the class docstring and the README promise it: every
   entry published is waiting in the stream, pending in the stream, or
   acknowledged, until MAXLEN is exceeded or Redis loses its data. *)
NothingLost ==
  LossFree =>
    \A i \in 1..top : i \in acked \/ (i \in stream /\ (i > delivered \/ i \in pel))

Queue == INSTANCE AtLeastOnceQueue WITH
  Entries <- Ids,
  waiting <- Undelivered,
  unsettled <- pel,
  settled <- acked

(* Until something is lost, the stream and its group implement the abstract
   queue: every command is one of its steps or invisible to it. *)
ImplementsQueue == Queue!Init /\ [][LossFree' => Queue!Next]_Queue!vars

(* Every published entry is acknowledged in the end, whatever consumer
   crashed while holding it, as long as some consumer reclaims. *)
EventuallyAcked == \A i \in Ids : i \in stream ~> i \in acked \/ ~LossFree
===============================================================================
