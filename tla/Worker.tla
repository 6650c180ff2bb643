-------------------------------- MODULE Worker --------------------------------
(***************************************************************************)
(* services/worker/main.py: the pool of workers that drain stream:inbound  *)
(* and stream:triggers.  Every worker runs main -> _drain -> process ->    *)
(* _on_failure sequentially; one action is the code between two awaits     *)
(* that touch shared state.  The bus is its contract (AtLeastOnceQueue):   *)
(* fresh and pending entries of one consumer group.                        *)
(*                                                                         *)
(* Entries are the naturals in publication order.  What an entry is about  *)
(* is a constant function of it: its stream, its lock key (cid), the       *)
(* conversation its number and contact belong to, and how it routes.       *)
(*                                                                         *)
(* Any Redis or database call may fail (an exception), before it took      *)
(* effect or after it did (a timeout waiting for the answer).  A worker    *)
(* may die anywhere; it is restarted at the top of its loop.               *)
(***************************************************************************)
EXTENDS Naturals, FiniteSets

CONSTANTS
  Workers,
  MaxEntries,      \* bound: entries published
  StreamOf,        \* StreamOf[e] \in Streams
  KeyOf,           \* KeyOf[e]: the cid in lock:conv:{cid}
  ChatOf,          \* ChatOf[e]: the (number, contact) pair of the entry
  RouteOf,         \* RouteOf[e] \in {"ok", "blocked", "none"}
  LlmEnabled,      \* worker_llm_enabled
  Count,           \* entries per XREADGROUP (5)
  ClaimCount,      \* entries per XAUTOCLAIM (10)
  MaxRetries,      \* worker_max_retries (5)
  FaultKinds,      \* subset of {"before", "after"}
  MaxFaults,       \* bound: failing calls
  MaxCrashes       \* bound: worker deaths

Entries == 1..MaxEntries
Streams == {"inbound", "triggers"}
Keys == {KeyOf[e] : e \in Entries}
Chats == {ChatOf[e] : e \in Entries}

ASSUME WorkerAssumption ==
  /\ IsFiniteSet(Workers)
  /\ MaxEntries \in Nat /\ MaxFaults \in Nat /\ MaxCrashes \in Nat
  /\ Count \in Nat \ {0} /\ ClaimCount \in Nat \ {0} /\ MaxRetries \in Nat \ {0}
  /\ StreamOf \in [Entries -> Streams]
  /\ RouteOf \in [Entries -> {"ok", "blocked", "none"}]
  /\ DOMAIN KeyOf = Entries /\ DOMAIN ChatOf = Entries
  /\ LlmEnabled \in BOOLEAN
  /\ FaultKinds \subseteq {"before", "after"}

VARIABLES
  arrived,     \* entries published so far: 1..arrived
  fresh,       \* published, not yet delivered to the group
  pel,         \* delivered, not acknowledged
  idle,        \* pending for longer than worker_claim_min_idle_ms
  acked,       \* acknowledged
  pc,          \* pc[w]: the await w is at
  turn,        \* turn[w]: the stream _drain is called with
  sweep,       \* sweep[w]: "new" in _drain's first loop, "claimed" in its second
  batch,       \* batch[w]: entries of the current loop still to process
  cur,         \* cur[w]: the entry in process(), 0 when none
  beat,        \* beat[w]: w's heartbeat task, "none", "alive" or "failed"
  locks,       \* locks[k]: the lock key exists in Redis (its value is always "1")
  retries,     \* retries[e]: the Redis counter
  deadLetters, \* deadLetters[e]: copies of e in {stream}:dead
  convs,       \* convs[c]: active Conversation rows of c
  inRows,      \* inRows[e]: inbound Message rows written for e
  outRows,     \* outRows[e]: outbound Message rows written for e
  replies,     \* replies[e]: entries published on stream:outbound for e
  coalesced,   \* history: entries dropped while a worker was on another entry of the key
  ignored,     \* history: entries of blocked contacts
  faults, crashes

bus == <<arrived, fresh, pel, idle, acked>>
loop == <<turn, sweep, batch, cur>>
rows == <<convs, inRows, outRows, replies>>
history == <<coalesced, ignored>>
vars == <<bus, pc, loop, beat, locks, retries, deadLetters, rows, history, faults, crashes>>

Oldest(S, n) == {i \in S : Cardinality({j \in S : j < i}) < n}

(* The steps of process() between taking the lock and the end of finally. *)
Section == {"route", "insert", "persistIn", "agent", "persistOut", "publish",
            "cleanup", "unwind"}
Failing == {"incr", "bury", "buryAck", "buryClear"}
Labels == {"consume", "pick", "ack", "clear"} \cup Section \cup Failing

InSection(w) == pc[w] \in Section
Beats(w) == InSection(w) /\ beat[w] = "alive"
OnKey(w, k) == cur[w] \in Entries /\ KeyOf[cur[w]] = k
(* A worker is on another entry with e's lock key. *)
Elsewhere(e) == \E v \in Workers : InSection(v) /\ OnKey(v, KeyOf[e]) /\ cur[v] # e

Init ==
  /\ arrived = 0 /\ fresh = {} /\ pel = {} /\ idle = {} /\ acked = {}
  /\ pc = [w \in Workers |-> "consume"]
  /\ turn = [w \in Workers |-> "inbound"]
  /\ sweep = [w \in Workers |-> "new"]
  /\ batch = [w \in Workers |-> {}]
  /\ cur = [w \in Workers |-> 0]
  /\ beat = [w \in Workers |-> "none"]
  /\ locks = [k \in Keys |-> "free"]
  /\ retries = [e \in Entries |-> 0]
  /\ deadLetters = [e \in Entries |-> 0]
  /\ convs = [c \in Chats |-> 0]
  /\ inRows = [e \in Entries |-> 0]
  /\ outRows = [e \in Entries |-> 0]
  /\ replies = [e \in Entries |-> 0]
  /\ coalesced = {} /\ ignored = {}
  /\ faults = 0 /\ crashes = 0

-------------------------------------------------------------------------------
(* How a call ends: "ok", or an exception raised "before" or "after" the    *)
(* call took effect.                                                       *)
Results == {"ok"} \cup FaultKinds
Ends(r) ==
  \/ r = "ok" /\ UNCHANGED faults
  \/ r # "ok" /\ faults < MaxFaults /\ faults' = faults + 1
TookEffect(r) == r # "before"

Goto(w, label) == pc' = [pc EXCEPT ![w] = label]
GotoOr(w, r, label, handler) == Goto(w, IF r = "ok" THEN label ELSE handler)

(* An exception that leaves _drain: main's loop logs it, sleeps and starts  *)
(* again with stream:inbound.  The rest of the batch stays pending.        *)
Abandon(w) ==
  /\ Goto(w, "consume")
  /\ turn' = [turn EXCEPT ![w] = "inbound"]
  /\ sweep' = [sweep EXCEPT ![w] = "new"]
  /\ batch' = [batch EXCEPT ![w] = {}]
  /\ cur' = [cur EXCEPT ![w] = 0]

(* End of one iteration of _drain's loops. *)
NextEntry(w) ==
  /\ Goto(w, "pick")
  /\ cur' = [cur EXCEPT ![w] = 0]
  /\ UNCHANGED <<turn, sweep, batch>>

-------------------------------------------------------------------------------
(* ingress or the API publishes the next entry. *)
Publish ==
  /\ arrived < MaxEntries
  /\ arrived' = arrived + 1
  /\ fresh' = fresh \cup {arrived + 1}
  /\ UNCHANGED <<pel, idle, acked, pc, loop, beat, locks, retries, deadLetters, rows,
                 history, faults, crashes>>

(* A pending entry becomes older than worker_claim_min_idle_ms. *)
Age(e) ==
  /\ e \in pel \ idle
  /\ idle' = idle \cup {e}
  /\ UNCHANGED <<arrived, fresh, pel, acked, pc, loop, beat, locks, retries, deadLetters,
                 rows, history, faults, crashes>>

(* _drain: bus.consume(stream, GROUP, CONSUMER, count=5). *)
Consume(w) ==
  /\ pc[w] = "consume"
  /\ \E r \in Results :
       LET new == Oldest({e \in fresh : StreamOf[e] = turn[w]}, Count) IN
         /\ Ends(r)
         /\ fresh' = IF TookEffect(r) THEN fresh \ new ELSE fresh
         /\ pel' = IF TookEffect(r) THEN pel \cup new ELSE pel
         /\ IF r = "ok"
            THEN /\ Goto(w, "pick")
                 /\ batch' = [batch EXCEPT ![w] = new]
                 /\ sweep' = [sweep EXCEPT ![w] = "new"]
                 /\ UNCHANGED <<turn, cur>>
            ELSE Abandon(w)
  /\ UNCHANGED <<arrived, idle, acked, beat, locks, retries, deadLetters, rows, history, crashes>>

(* Wrong: reclaimed entries leave the pending list. *)
ClaimTakesOver(w) ==
  /\ pc[w] = "pick" /\ batch[w] = {} /\ sweep[w] = "new"
  /\ LET stale == Oldest({e \in idle : StreamOf[e] = turn[w]}, ClaimCount) IN
       /\ idle' = idle \ stale
       /\ pel' = pel \ stale
       /\ batch' = [batch EXCEPT ![w] = stale]
       /\ sweep' = [sweep EXCEPT ![w] = "claimed"]
  /\ UNCHANGED <<arrived, fresh, acked, pc, turn, cur, beat, locks, retries, deadLetters, rows,
                 history, faults, crashes>>

(* Wrong: XAUTOCLAIM's reply is misread, the entries it names are not handled. *)
ClaimDiscards(w) ==
  /\ pc[w] = "pick" /\ batch[w] = {} /\ sweep[w] = "new"
  /\ idle' = idle \ Oldest({e \in idle : StreamOf[e] = turn[w]}, ClaimCount)
  /\ sweep' = [sweep EXCEPT ![w] = "claimed"]
  /\ UNCHANGED <<arrived, fresh, pel, acked, pc, turn, batch, cur, beat, locks, retries,
                 deadLetters, rows, history, faults, crashes>>

(* _drain's redelivery sweep: bus.claim_pending, whoever was handling the   *)
(* entries; all workers read as the same consumer "worker-1".              *)
Claim(w) ==
  /\ pc[w] = "pick" /\ batch[w] = {} /\ sweep[w] = "new"
  /\ \E r \in Results :
       LET stale == Oldest({e \in idle : StreamOf[e] = turn[w]}, ClaimCount) IN
         /\ Ends(r)
         /\ idle' = IF TookEffect(r) THEN idle \ stale ELSE idle
         /\ IF r = "ok"
            THEN /\ batch' = [batch EXCEPT ![w] = stale]
                 /\ sweep' = [sweep EXCEPT ![w] = "claimed"]
                 /\ UNCHANGED <<pc, turn, cur>>
            ELSE Abandon(w)
  /\ UNCHANGED <<arrived, fresh, pel, acked, beat, locks, retries, deadLetters, rows, history,
                 crashes>>

(* main: after _drain(S_IN) comes _drain(S_TRIG), then the loop repeats. *)
NextStream(w) ==
  /\ pc[w] = "pick" /\ batch[w] = {} /\ sweep[w] = "claimed"
  /\ Goto(w, "consume")
  /\ turn' = [turn EXCEPT ![w] = IF @ = "inbound" THEN "triggers" ELSE "inbound"]
  /\ UNCHANGED <<bus, sweep, batch, cur, beat, locks, retries, deadLetters, rows, history,
                 faults, crashes>>

(* process: SET lock NX EX.  Held means drop, and the caller acknowledges. *)
(* Otherwise the worker sleeps through the debounce and starts its         *)
(* heartbeat, before anything else is shared.                              *)
Lock(w) ==
  /\ pc[w] = "pick" /\ batch[w] # {}
  /\ \E e \in batch[w] :
       /\ \A f \in batch[w] : e <= f
       /\ cur' = [cur EXCEPT ![w] = e]
       /\ batch' = [batch EXCEPT ![w] = @ \ {e}]
       /\ \E r \in Results :
            /\ Ends(r)
            /\ IF locks[KeyOf[e]] = "held"
               THEN /\ GotoOr(w, r, "ack", "incr")
                    /\ coalesced' = IF r = "ok" /\ Elsewhere(e) THEN coalesced \cup {e}
                                    ELSE coalesced
                    /\ UNCHANGED <<locks, beat>>
               ELSE /\ GotoOr(w, r, "route", "incr")
                    /\ locks' = IF TookEffect(r) THEN [locks EXCEPT ![KeyOf[e]] = "held"]
                                ELSE locks
                    /\ beat' = IF r = "ok" THEN [beat EXCEPT ![w] = "alive"] ELSE beat
                    /\ UNCHANGED coalesced
  /\ UNCHANGED <<bus, turn, sweep, retries, deadLetters, rows, ignored, crashes>>

(* Wrong: SET without EX. *)
LockStays(k) == locks[k] = "held" /\ FALSE /\ UNCHANGED vars

(* The lock's TTL runs out: nobody renews it, as its taker died, its        *)
(* heartbeat task ended with an exception, or its deletion was skipped.    *)
LockExpires(k) ==
  /\ locks[k] = "held"
  /\ \A w \in Workers : ~(Beats(w) /\ OnKey(w, k))
  /\ locks' = [locks EXCEPT ![k] = "free"]
  /\ UNCHANGED <<bus, pc, loop, beat, retries, deadLetters, rows, history, faults, crashes>>

(* _heartbeat: redis.expire raised, which ends the task for good. *)
HeartbeatFails(w) ==
  /\ Beats(w)
  /\ faults < MaxFaults /\ faults' = faults + 1
  /\ beat' = [beat EXCEPT ![w] = "failed"]
  /\ UNCHANGED <<bus, pc, loop, locks, retries, deadLetters, rows, history, crashes>>

(* Wrong: the contact is looked up and not locked. *)
ContactUnlocked(w) == TRUE

(* The upsert of the contact, first statement of the transaction that SELECTs *)
(* and INSERTs the conversation, locks the contact's row up to the commit.  *)
ContactFree(w) ==
  \A v \in Workers \ {w} : pc[v] = "insert" => ChatOf[cur[v]] # ChatOf[cur[w]]

(* _resolve_route up to the SELECT of the active conversation; for echo     *)
(* mode and an unroutable number, everything up to the first use of        *)
(* last_outbound, which neither branch assigned (UnboundLocalError).       *)
ResolveRoute(w) ==
  /\ pc[w] = "route"
  /\ \E r \in Results :
       /\ Ends(r)
       /\ IF r # "ok" \/ ~LlmEnabled \/ RouteOf[cur[w]] = "none"
          THEN Goto(w, "unwind") /\ UNCHANGED ignored
          ELSE IF RouteOf[cur[w]] = "blocked"
          THEN Goto(w, "cleanup") /\ ignored' = ignored \cup {cur[w]}
          ELSE /\ ContactFree(w)
               /\ Goto(w, IF convs[ChatOf[cur[w]]] = 0 THEN "insert" ELSE "persistIn")
               /\ UNCHANGED ignored
  /\ UNCHANGED <<bus, loop, beat, locks, retries, deadLetters, rows, coalesced, crashes>>

(* _resolve_route: INSERT of the conversation the SELECT did not find. *)
InsertConversation(w) ==
  /\ pc[w] = "insert"
  /\ \E r \in Results :
       /\ Ends(r)
       /\ GotoOr(w, r, "persistIn", "unwind")
       /\ convs' = IF TookEffect(r) THEN [convs EXCEPT ![ChatOf[cur[w]]] = @ + 1] ELSE convs
  /\ UNCHANGED <<bus, loop, beat, locks, retries, deadLetters, inRows, outRows, replies, history,
                 crashes>>

(* _persist_message(conv, "in"): again at every redelivery. *)
PersistInbound(w) ==
  /\ pc[w] = "persistIn"
  /\ \E r \in Results :
       /\ Ends(r)
       /\ GotoOr(w, r, "agent", "unwind")
       /\ inRows' = IF TookEffect(r) THEN [inRows EXCEPT ![cur[w]] = @ + 1] ELSE inRows
  /\ UNCHANGED <<bus, loop, beat, locks, retries, deadLetters, convs, outRows, replies, history,
                 crashes>>

(* Language, history, tools, agent loop and guards: a reply or an exception. *)
RunAgent(w) ==
  /\ pc[w] = "agent"
  /\ \E r \in Results : Ends(r) /\ GotoOr(w, r, "persistOut", "unwind")
  /\ UNCHANGED <<bus, loop, beat, locks, retries, deadLetters, rows, history, crashes>>

(* _persist_message(conv, "out"). *)
PersistOutbound(w) ==
  /\ pc[w] = "persistOut"
  /\ \E r \in Results :
       /\ Ends(r)
       /\ GotoOr(w, r, "publish", "unwind")
       /\ outRows' = IF TookEffect(r) THEN [outRows EXCEPT ![cur[w]] = @ + 1] ELSE outRows
  /\ UNCHANGED <<bus, loop, beat, locks, retries, deadLetters, convs, inRows, replies, history,
                 crashes>>

(* bus.publish(S_OUT, reply). *)
PublishReply(w) ==
  /\ pc[w] = "publish"
  /\ \E r \in Results :
       /\ Ends(r)
       /\ GotoOr(w, r, "cleanup", "unwind")
       /\ replies' = IF TookEffect(r) THEN [replies EXCEPT ![cur[w]] = @ + 1] ELSE replies
  /\ UNCHANGED <<bus, loop, beat, locks, retries, deadLetters, convs, inRows, outRows, history,
                 crashes>>

(* Wrong: the lock is not deleted. *)
FinallyKeepsLock(w) ==
  /\ pc[w] \in {"cleanup", "unwind"}
  /\ beat' = [beat EXCEPT ![w] = "none"]
  /\ Goto(w, IF pc[w] = "cleanup" THEN "ack" ELSE "incr")
  /\ UNCHANGED <<bus, loop, locks, retries, deadLetters, rows, history, faults, crashes>>

(* Wrong: the lock is deleted although the heartbeat ended long ago. *)
FinallyFreesOthers(w) ==
  /\ pc[w] \in {"cleanup", "unwind"}
  /\ beat' = [beat EXCEPT ![w] = "none"]
  /\ Goto(w, IF pc[w] = "cleanup" THEN "ack" ELSE "incr")
  /\ locks' = [locks EXCEPT ![KeyOf[cur[w]]] = "free"]
  /\ UNCHANGED <<bus, loop, retries, deadLetters, rows, history, faults, crashes>>

(* process's finally.  Awaiting a heartbeat task that ended with an         *)
(* exception raises it again, before the lock is deleted; otherwise the    *)
(* key is deleted, whoever set it.                                         *)
Finally(w) ==
  /\ pc[w] \in {"cleanup", "unwind"}
  /\ beat' = [beat EXCEPT ![w] = "none"]
  /\ IF beat[w] = "failed"
     THEN Goto(w, "incr") /\ UNCHANGED <<locks, faults>>
     ELSE \E r \in Results :
            /\ Ends(r)
            /\ Goto(w, IF r = "ok" /\ pc[w] = "cleanup" THEN "ack" ELSE "incr")
            /\ locks' = IF TookEffect(r) THEN [locks EXCEPT ![KeyOf[cur[w]]] = "free"] ELSE locks
  /\ UNCHANGED <<bus, loop, retries, deadLetters, rows, history, crashes>>

Acknowledge(w, r) ==
  IF TookEffect(r)
  THEN /\ pel' = pel \ {cur[w]}
       /\ idle' = idle \ {cur[w]}
       /\ acked' = acked \cup {cur[w]}
  ELSE UNCHANGED <<pel, idle, acked>>

(* Wrong: the first success acknowledges the batch. *)
AckBatch(w) ==
  /\ pc[w] = "ack"
  /\ LET done == {cur[w]} \cup batch[w] IN
       pel' = pel \ done /\ idle' = idle \ done /\ acked' = acked \cup done
  /\ Goto(w, "clear")
  /\ UNCHANGED <<arrived, fresh, loop, beat, locks, retries, deadLetters, rows, history, faults,
                 crashes>>

(* Wrong: the entry is acknowledged on the other stream. *)
AckElsewhere(w) ==
  /\ pc[w] = "ack"
  /\ Goto(w, "clear")
  /\ UNCHANGED <<bus, loop, beat, locks, retries, deadLetters, rows, history, faults, crashes>>

(* _drain: bus.ack after process returned; its failure counts as a failure  *)
(* of the entry.                                                           *)
Ack(w) ==
  /\ pc[w] = "ack"
  /\ \E r \in Results : Ends(r) /\ Acknowledge(w, r) /\ GotoOr(w, r, "clear", "incr")
  /\ UNCHANGED <<arrived, fresh, loop, beat, locks, retries, deadLetters, rows, history, crashes>>

(* _drain: redis.delete(retries:{stream}:{id}). *)
ClearRetries(w) ==
  /\ pc[w] = "clear"
  /\ \E r \in Results :
       /\ Ends(r)
       /\ retries' = IF TookEffect(r) THEN [retries EXCEPT ![cur[w]] = 0] ELSE retries
       /\ IF r = "ok" THEN NextEntry(w) ELSE Goto(w, "incr") /\ UNCHANGED loop
  /\ UNCHANGED <<bus, beat, locks, deadLetters, rows, history, crashes>>

(* Wrong: off by one at the limit. *)
CountFailureEarly(w) ==
  /\ pc[w] = "incr"
  /\ retries' = [retries EXCEPT ![cur[w]] = @ + 1]
  /\ IF retries[cur[w]] + 2 >= MaxRetries THEN Goto(w, "bury") /\ UNCHANGED loop
     ELSE NextEntry(w)
  /\ UNCHANGED <<bus, beat, locks, deadLetters, rows, history, faults, crashes>>

(* _on_failure: INCR and EXPIRE; the entry stays pending below the limit. *)
CountFailure(w) ==
  /\ pc[w] = "incr"
  /\ \E r \in Results :
       /\ Ends(r)
       /\ retries' = IF TookEffect(r) THEN [retries EXCEPT ![cur[w]] = @ + 1] ELSE retries
       /\ IF r # "ok" THEN Abandon(w)
          ELSE IF retries[cur[w]] + 1 >= MaxRetries THEN Goto(w, "bury") /\ UNCHANGED loop
          ELSE NextEntry(w)
  /\ UNCHANGED <<bus, beat, locks, deadLetters, rows, history, crashes>>

(* _on_failure: XADD {stream}:dead, then ack, then delete the counter. *)
Bury(w) ==
  /\ pc[w] = "bury"
  /\ \E r \in Results :
       /\ Ends(r)
       /\ deadLetters' = IF TookEffect(r) THEN [deadLetters EXCEPT ![cur[w]] = @ + 1]
                         ELSE deadLetters
       /\ IF r = "ok" THEN Goto(w, "buryAck") /\ UNCHANGED loop ELSE Abandon(w)
  /\ UNCHANGED <<bus, beat, locks, retries, rows, history, crashes>>

BuryAck(w) ==
  /\ pc[w] = "buryAck"
  /\ \E r \in Results :
       /\ Ends(r)
       /\ Acknowledge(w, r)
       /\ IF r = "ok" THEN Goto(w, "buryClear") /\ UNCHANGED loop ELSE Abandon(w)
  /\ UNCHANGED <<arrived, fresh, beat, locks, retries, deadLetters, rows, history, crashes>>

BuryClear(w) ==
  /\ pc[w] = "buryClear"
  /\ \E r \in Results :
       /\ Ends(r)
       /\ retries' = IF TookEffect(r) THEN [retries EXCEPT ![cur[w]] = 0] ELSE retries
       /\ IF r = "ok" THEN NextEntry(w) ELSE Abandon(w)
  /\ UNCHANGED <<bus, beat, locks, deadLetters, rows, history, crashes>>

(* The process is killed and restarted; Redis and the database keep what    *)
(* they have, the lock included.                                           *)
Crash(w) ==
  /\ crashes < MaxCrashes
  /\ cur[w] # 0 \/ batch[w] # {}
  /\ crashes' = crashes + 1
  /\ Abandon(w)
  /\ beat' = [beat EXCEPT ![w] = "none"]
  /\ UNCHANGED <<bus, locks, retries, deadLetters, rows, history, faults>>

(* Everything w does of its own accord. *)
Step(w) ==
  \/ Consume(w) \/ Claim(w) \/ NextStream(w)
  \/ Lock(w) \/ ResolveRoute(w) \/ InsertConversation(w)
  \/ PersistInbound(w) \/ RunAgent(w) \/ PersistOutbound(w) \/ PublishReply(w)
  \/ Finally(w) \/ Ack(w) \/ ClearRetries(w)
  \/ CountFailure(w) \/ Bury(w) \/ BuryAck(w) \/ BuryClear(w)

Next ==
  \/ Publish
  \/ \E e \in Entries : Age(e)
  \/ \E k \in Keys : LockExpires(k)
  \/ \E w \in Workers : Step(w) \/ HeartbeatFails(w) \/ Crash(w)

Spec == Init /\ [][Next]_vars

(* The loop of a running worker never stops, time passes for pending        *)
(* entries and for the TTL of a lock; failures and deaths need not happen. *)
Fairness ==
  /\ \A w \in Workers : WF_vars(Step(w))
  /\ \A e \in Entries : WF_vars(Age(e))
  /\ \A k \in Keys : WF_vars(LockExpires(k))

FairSpec == Spec /\ Fairness

-------------------------------------------------------------------------------
BusType ==
  /\ arrived \in 0..MaxEntries
  /\ fresh \subseteq 1..arrived /\ pel \subseteq 1..arrived /\ idle \subseteq pel
  /\ acked \subseteq 1..arrived

LoopType ==
  /\ pc \in [Workers -> Labels]
  /\ turn \in [Workers -> Streams]
  /\ sweep \in [Workers -> {"new", "claimed"}]
  /\ batch \in [Workers -> SUBSET (1..arrived)]
  /\ cur \in [Workers -> 0..arrived]
  /\ beat \in [Workers -> {"none", "alive", "failed"}]

StoreType ==
  /\ locks \in [Keys -> {"free", "held"}]
  /\ retries \in [Entries -> Nat] /\ deadLetters \in [Entries -> Nat]
  /\ convs \in [Chats -> Nat]
  /\ inRows \in [Entries -> Nat] /\ outRows \in [Entries -> Nat]
  /\ replies \in [Entries -> Nat]

HistoryType ==
  /\ coalesced \subseteq 1..arrived /\ ignored \subseteq 1..arrived
  /\ faults \in 0..MaxFaults /\ crashes \in 0..MaxCrashes

TypeOK == BusType /\ LoopType /\ StoreType /\ HistoryType

(* What the control flow of a worker says about its registers: it is on an
   entry exactly while it handles one, and its heartbeat task lives exactly
   through the section. *)
LoopInv ==
  \A w \in Workers :
    /\ cur[w] = 0 <=> pc[w] \in {"consume", "pick"}
    /\ beat[w] = "none" <=> ~InSection(w)

(* Two workers are in process() for one key only if the heartbeat of one of
   them failed (C14).  The lock has no owner: its value is always "1", and
   EXPIRE and DEL ask for none, so this rests on who may reach them when. *)
MutualExclusion ==
  \A v, w \in Workers :
    v # w /\ Beats(v) /\ Beats(w) => KeyOf[cur[v]] # KeyOf[cur[w]]

(* An entry has an outcome a user or an operator can see or meant. *)
Settled(e) ==
  replies[e] > 0 \/ deadLetters[e] > 0 \/ e \in ignored \/ e \in coalesced

(* The entry has a route, or a contact to ignore: process can come to its end. *)
Answerable(e) == LlmEnabled /\ RouteOf[e] # "none"

(* "Ack only on success (C4)": an acknowledged entry was answered, dead-
   lettered, ignored or coalesced into another, or a worker is on it.  Of one
   that fails at every attempt, a reclaim may drop the attempt that counts. *)
AckedIsHandled ==
  \A e \in acked : Answerable(e) => Settled(e) \/ \E w \in Workers : InSection(w) /\ cur[w] = e

(* A contact writes to one number of the installation only. *)
KeyNamesChat == \A e, f \in Entries : KeyOf[e] = KeyOf[f] => ChatOf[e] = ChatOf[f]

(* Until the first failure or death, an entry is dropped at the lock only
   while another worker really is handling its conversation, as the comment at
   the drop says; for contacts with one number, since the key does not name
   the number. *)
DroppedWhileHandled ==
  [][\A w \in Workers :
       /\ KeyNamesChat /\ faults = 0 /\ crashes = 0
       /\ pc[w] = "pick" /\ pc'[w] = "ack"
       => \E v \in Workers : v # w /\ InSection(v) /\ ChatOf[cur[v]] = ChatOf[cur'[w]]]_vars

(* Every reply on stream:outbound has its own outbound row, and every
   outbound row its own inbound row, however often the entry was redelivered
   and wherever an attempt broke off: the history is never behind the chat. *)
RecordsInOrder ==
  \A e \in Entries : replies[e] <= outRows[e] /\ outRows[e] <= inRows[e]

(* worker_max_retries: an entry that process can answer or ignore reaches
   {stream}:dead only after that many calls failed.  An unroutable number, and
   echo mode, fail at every attempt: nothing assigned last_outbound. *)
DeadLetterNeedsFailures ==
  \A e \in Entries :
    Answerable(e) /\ deadLetters[e] > 0 => faults >= MaxRetries

(* An entry that ages in one worker's batch is reclaimed by another and both
   answer it; so a contact may be answered once by each worker, but once more
   only for a failure or a death, however often entries are reclaimed. *)
RepliesBounded ==
  \A e \in Entries : replies[e] <= Cardinality(Workers) + faults + crashes

(* A contact has one active conversation per number, whatever lock keys the
   entries use and wherever attempts break off: the row lock of the contact
   keeps two workers from inserting after both found none. *)
OneActiveConversation == \A c \in Chats : convs[c] <= 1

Queue == INSTANCE AtLeastOnceQueue WITH
  Entries <- Entries, waiting <- fresh, unsettled <- pel, settled <- acked

(* The pool uses the bus as the at-least-once queue allows: whatever crashes
   or fails, an entry leaves the pending list by an acknowledgement only. *)
ImplementsQueue == Queue!Spec

(* Every published entry is acknowledged in the end: no failure, death or
   stale lock leaves it pending forever or retried forever. *)
EventuallyAcked == \A e \in Entries : e \in fresh ~> e \in acked

(* Every published entry that has a route is answered, ignored or coalesced
   in the end. *)
EventuallySettled ==
  \A e \in Entries : Answerable(e) => (e \in fresh ~> Settled(e))

(* No conversation stays locked: a lock is released or expires. *)
LocksFreed == \A k \in Keys : locks[k] = "held" ~> locks[k] = "free"
===============================================================================
