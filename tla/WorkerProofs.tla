----------------------------- MODULE WorkerProofs -----------------------------
(***************************************************************************)
(* Proofs about Worker, for every pool, batch size, routing, retry limit   *)
(* and number of failures and deaths.                                      *)
(***************************************************************************)
EXTENDS Worker, FiniteSetTheorems, TLAPS

LEMMA OldestIsSubset ==
  ASSUME NEW S, NEW n
  PROVE  Oldest(S, n) \subseteq S
BY DEF Oldest

(* The Redis counters and the row counts stay naturals. *)
LEMMA CountersType ==
  ASSUME NEW S, NEW f \in [S -> Nat], NEW x
  PROVE  [f EXCEPT ![x] = @ + 1] \in [S -> Nat] /\ [f EXCEPT ![x] = 0] \in [S -> Nat]
<1>1. CASE x \in S
  BY <1>1
<1>2. CASE x \notin S
  BY <1>2
<1> QED
  BY <1>1, <1>2

-------------------------------------------------------------------------------
(* Each step of a worker keeps every variable in its type. *)
LEMMA ConsumeType ==
  ASSUME TypeOK, LoopInv, NEW w \in Workers, Consume(w) PROVE TypeOK'
<1>1. BusType'
  BY OldestIsSubset, WorkerAssumption DEF TypeOK, Consume, BusType, bus, rows, history, loop, TookEffect, Acknowledge, LoopType, NextEntry, Abandon, Goto, GotoOr
<1>2. LoopType'
  <2> DEFINE new == Oldest({e \in fresh : StreamOf[e] = turn[w]}, Count)
  <2>1. new \subseteq 1..arrived /\ arrived' = arrived
    BY OldestIsSubset DEF Consume, TypeOK, BusType
  <2>2. \/ /\ Goto(w, "pick")
           /\ batch' = [batch EXCEPT ![w] = new]
           /\ sweep' = [sweep EXCEPT ![w] = "new"]
           /\ UNCHANGED <<turn, cur>>
        \/ Abandon(w)
    BY DEF Consume
  <2>3. beat' = beat
    BY DEF Consume
  <2> HIDE DEF new
  <2>4. pc' \in [Workers -> Labels] /\ turn' \in [Workers -> Streams]
    BY <2>2 DEF TypeOK, LoopType, Labels, Streams, Goto, Abandon
  <2>5. sweep' \in [Workers -> {"new", "claimed"}]
    BY <2>2 DEF TypeOK, LoopType, Abandon
  <2>6. batch' \in [Workers -> SUBSET (1..arrived)]
    BY <2>1, <2>2 DEF TypeOK, LoopType, Abandon
  <2>7. cur' \in [Workers -> 0..arrived]
    BY <2>2, WorkerAssumption DEF TypeOK, LoopType, BusType, Abandon
  <2> QED
    BY <2>1, <2>3, <2>4, <2>5, <2>6, <2>7 DEF TypeOK, LoopType
<1>3. StoreType'
  BY WorkerAssumption DEF TypeOK, Consume, StoreType, bus, rows, history, loop, TookEffect, Abandon, NextEntry
<1>4. HistoryType'
  BY WorkerAssumption DEF TypeOK, Consume, HistoryType, BusType, LoopType, bus, history, loop, Ends, Abandon, NextEntry
<1> QED
  BY <1>1, <1>2, <1>3, <1>4 DEF TypeOK

LEMMA ClaimType ==
  ASSUME TypeOK, LoopInv, NEW w \in Workers, Claim(w) PROVE TypeOK'
<1>1. BusType'
  BY OldestIsSubset, WorkerAssumption DEF TypeOK, Claim, BusType, bus, rows, history, loop, TookEffect, Acknowledge, LoopType, NextEntry, Abandon, Goto, GotoOr
<1>2. LoopType'
  <2> DEFINE stale == Oldest({e \in idle : StreamOf[e] = turn[w]}, ClaimCount)
  <2>1. stale \subseteq 1..arrived /\ arrived' = arrived
    BY OldestIsSubset DEF Claim, TypeOK, BusType
  <2>2. \/ /\ batch' = [batch EXCEPT ![w] = stale]
           /\ sweep' = [sweep EXCEPT ![w] = "claimed"]
           /\ UNCHANGED <<pc, turn, cur>>
        \/ Abandon(w)
    BY DEF Claim
  <2>3. beat' = beat
    BY DEF Claim
  <2> HIDE DEF stale
  <2>4. pc' \in [Workers -> Labels] /\ turn' \in [Workers -> Streams]
    BY <2>2 DEF TypeOK, LoopType, Labels, Streams, Goto, Abandon
  <2>5. sweep' \in [Workers -> {"new", "claimed"}]
    BY <2>2 DEF TypeOK, LoopType, Abandon
  <2>6. batch' \in [Workers -> SUBSET (1..arrived)]
    BY <2>1, <2>2 DEF TypeOK, LoopType, Abandon
  <2>7. cur' \in [Workers -> 0..arrived]
    BY <2>2, WorkerAssumption DEF TypeOK, LoopType, BusType, Abandon
  <2> QED
    BY <2>1, <2>3, <2>4, <2>5, <2>6, <2>7 DEF TypeOK, LoopType
<1>3. StoreType'
  BY WorkerAssumption DEF TypeOK, Claim, StoreType, bus, rows, history, loop, TookEffect, Abandon, NextEntry
<1>4. HistoryType'
  BY WorkerAssumption DEF TypeOK, Claim, HistoryType, BusType, LoopType, bus, history, loop, Ends, Abandon, NextEntry
<1> QED
  BY <1>1, <1>2, <1>3, <1>4 DEF TypeOK

LEMMA NextStreamType ==
  ASSUME TypeOK, LoopInv, NEW w \in Workers, NextStream(w) PROVE TypeOK'
<1>1. BusType'
  BY WorkerAssumption DEF TypeOK, NextStream, BusType, bus, rows, history, loop, TookEffect, Acknowledge, LoopType, NextEntry, Abandon, Goto, GotoOr
<1>2. LoopType'
  BY WorkerAssumption DEF TypeOK, NextStream, LoopType, BusType, bus, rows, loop, Labels, Section, Failing, Streams, Goto, GotoOr, Abandon, NextEntry
<1>3. StoreType'
  BY WorkerAssumption DEF TypeOK, NextStream, StoreType, bus, rows, history, loop, TookEffect, Abandon, NextEntry
<1>4. HistoryType'
  BY WorkerAssumption DEF TypeOK, NextStream, HistoryType, BusType, LoopType, bus, history, loop, Ends, Abandon, NextEntry
<1> QED
  BY <1>1, <1>2, <1>3, <1>4 DEF TypeOK

LEMMA LockType ==
  ASSUME TypeOK, LoopInv, NEW w \in Workers, Lock(w) PROVE TypeOK'
<1>1. BusType'
  BY WorkerAssumption DEF TypeOK, Lock, BusType, bus, rows, history, loop, TookEffect, Acknowledge, LoopType, NextEntry, Abandon, Goto, GotoOr
<1>2. LoopType'
  BY WorkerAssumption DEF TypeOK, Lock, LoopType, BusType, bus, rows, loop, Labels, Section, Failing, Streams, Goto, GotoOr, Abandon, NextEntry
<1>3. StoreType'
  BY WorkerAssumption DEF TypeOK, Lock, StoreType, bus, rows, history, loop, TookEffect, Abandon, NextEntry
<1>4. HistoryType'
  <2>1. PICK e \in batch[w] : coalesced' \in {coalesced, coalesced \cup {e}}
    BY DEF Lock
  <2>2. e \in 1..arrived
    BY DEF TypeOK, LoopType
  <2>3. faults' \in 0..MaxFaults
    BY WorkerAssumption DEF Lock, Ends, TypeOK, HistoryType
  <2> QED
    BY <2>1, <2>2, <2>3 DEF Lock, bus, TypeOK, HistoryType
<1> QED
  BY <1>1, <1>2, <1>3, <1>4 DEF TypeOK

LEMMA ResolveRouteType ==
  ASSUME TypeOK, LoopInv, NEW w \in Workers, ResolveRoute(w) PROVE TypeOK'
<1>1. BusType'
  BY WorkerAssumption DEF TypeOK, ResolveRoute, BusType, bus, rows, history, loop, TookEffect, Acknowledge, LoopType, NextEntry, Abandon, Goto, GotoOr
<1>2. LoopType'
  BY WorkerAssumption DEF TypeOK, ResolveRoute, LoopType, BusType, bus, rows, loop, Labels, Section, Failing, Streams, Goto, GotoOr, Abandon, NextEntry
<1>3. StoreType'
  BY WorkerAssumption DEF TypeOK, ResolveRoute, StoreType, bus, rows, history, loop, TookEffect, Abandon, NextEntry
<1>4. HistoryType'
  <2>1. ignored' \in {ignored, ignored \cup {cur[w]}}
    BY DEF ResolveRoute
  <2>2. cur[w] \in 1..arrived
    BY WorkerAssumption DEF ResolveRoute, LoopInv, TypeOK, LoopType, BusType
  <2>3. faults' \in 0..MaxFaults
    BY WorkerAssumption DEF ResolveRoute, Ends, TypeOK, HistoryType
  <2> QED
    BY <2>1, <2>2, <2>3 DEF ResolveRoute, bus, TypeOK, HistoryType
<1> QED
  BY <1>1, <1>2, <1>3, <1>4 DEF TypeOK

LEMMA InsertConversationType ==
  ASSUME TypeOK, LoopInv, NEW w \in Workers, InsertConversation(w) PROVE TypeOK'
<1>1. BusType'
  BY WorkerAssumption DEF TypeOK, InsertConversation, BusType, bus, rows, history, loop, TookEffect, Acknowledge, LoopType, NextEntry, Abandon, Goto, GotoOr
<1>2. LoopType'
  BY WorkerAssumption DEF TypeOK, InsertConversation, LoopType, BusType, bus, rows, loop, Labels, Section, Failing, Streams, Goto, GotoOr, Abandon, NextEntry
<1>3. StoreType'
  <2>1. convs' \in {convs, [convs EXCEPT ![ChatOf[cur[w]]] = @ + 1]}
    BY DEF InsertConversation, TookEffect, Abandon
  <2>2. UNCHANGED <<locks, retries, deadLetters, inRows, outRows, replies>>
    BY DEF InsertConversation, rows, history, loop
  <2> QED
    BY <2>1, <2>2, CountersType DEF TypeOK, StoreType
<1>4. HistoryType'
  BY WorkerAssumption DEF TypeOK, InsertConversation, HistoryType, BusType, LoopType, bus, history, loop, Ends, Abandon, NextEntry
<1> QED
  BY <1>1, <1>2, <1>3, <1>4 DEF TypeOK

LEMMA PersistInboundType ==
  ASSUME TypeOK, LoopInv, NEW w \in Workers, PersistInbound(w) PROVE TypeOK'
<1>1. BusType'
  BY WorkerAssumption DEF TypeOK, PersistInbound, BusType, bus, rows, history, loop, TookEffect, Acknowledge, LoopType, NextEntry, Abandon, Goto, GotoOr
<1>2. LoopType'
  BY WorkerAssumption DEF TypeOK, PersistInbound, LoopType, BusType, bus, rows, loop, Labels, Section, Failing, Streams, Goto, GotoOr, Abandon, NextEntry
<1>3. StoreType'
  <2>1. inRows' \in {inRows, [inRows EXCEPT ![cur[w]] = @ + 1]}
    BY DEF PersistInbound, TookEffect, Abandon
  <2>2. UNCHANGED <<locks, retries, deadLetters, convs, outRows, replies>>
    BY DEF PersistInbound, rows, history, loop
  <2> QED
    BY <2>1, <2>2, CountersType DEF TypeOK, StoreType
<1>4. HistoryType'
  BY WorkerAssumption DEF TypeOK, PersistInbound, HistoryType, BusType, LoopType, bus, history, loop, Ends, Abandon, NextEntry
<1> QED
  BY <1>1, <1>2, <1>3, <1>4 DEF TypeOK

LEMMA RunAgentType ==
  ASSUME TypeOK, LoopInv, NEW w \in Workers, RunAgent(w) PROVE TypeOK'
<1>1. BusType'
  BY WorkerAssumption DEF TypeOK, RunAgent, BusType, bus, rows, history, loop, TookEffect, Acknowledge, LoopType, NextEntry, Abandon, Goto, GotoOr
<1>2. LoopType'
  BY WorkerAssumption DEF TypeOK, RunAgent, LoopType, BusType, bus, rows, loop, Labels, Section, Failing, Streams, Goto, GotoOr, Abandon, NextEntry
<1>3. StoreType'
  BY WorkerAssumption DEF TypeOK, RunAgent, StoreType, bus, rows, history, loop, TookEffect, Abandon, NextEntry
<1>4. HistoryType'
  BY WorkerAssumption DEF TypeOK, RunAgent, HistoryType, BusType, LoopType, bus, history, loop, Ends, Abandon, NextEntry
<1> QED
  BY <1>1, <1>2, <1>3, <1>4 DEF TypeOK

LEMMA PersistOutboundType ==
  ASSUME TypeOK, LoopInv, NEW w \in Workers, PersistOutbound(w) PROVE TypeOK'
<1>1. BusType'
  BY WorkerAssumption DEF TypeOK, PersistOutbound, BusType, bus, rows, history, loop, TookEffect, Acknowledge, LoopType, NextEntry, Abandon, Goto, GotoOr
<1>2. LoopType'
  BY WorkerAssumption DEF TypeOK, PersistOutbound, LoopType, BusType, bus, rows, loop, Labels, Section, Failing, Streams, Goto, GotoOr, Abandon, NextEntry
<1>3. StoreType'
  <2>1. outRows' \in {outRows, [outRows EXCEPT ![cur[w]] = @ + 1]}
    BY DEF PersistOutbound, TookEffect, Abandon
  <2>2. UNCHANGED <<locks, retries, deadLetters, convs, inRows, replies>>
    BY DEF PersistOutbound, rows, history, loop
  <2> QED
    BY <2>1, <2>2, CountersType DEF TypeOK, StoreType
<1>4. HistoryType'
  BY WorkerAssumption DEF TypeOK, PersistOutbound, HistoryType, BusType, LoopType, bus, history, loop, Ends, Abandon, NextEntry
<1> QED
  BY <1>1, <1>2, <1>3, <1>4 DEF TypeOK

LEMMA PublishReplyType ==
  ASSUME TypeOK, LoopInv, NEW w \in Workers, PublishReply(w) PROVE TypeOK'
<1>1. BusType'
  BY WorkerAssumption DEF TypeOK, PublishReply, BusType, bus, rows, history, loop, TookEffect, Acknowledge, LoopType, NextEntry, Abandon, Goto, GotoOr
<1>2. LoopType'
  BY WorkerAssumption DEF TypeOK, PublishReply, LoopType, BusType, bus, rows, loop, Labels, Section, Failing, Streams, Goto, GotoOr, Abandon, NextEntry
<1>3. StoreType'
  <2>1. replies' \in {replies, [replies EXCEPT ![cur[w]] = @ + 1]}
    BY DEF PublishReply, TookEffect, Abandon
  <2>2. UNCHANGED <<locks, retries, deadLetters, convs, inRows, outRows>>
    BY DEF PublishReply, rows, history, loop
  <2> QED
    BY <2>1, <2>2, CountersType DEF TypeOK, StoreType
<1>4. HistoryType'
  BY WorkerAssumption DEF TypeOK, PublishReply, HistoryType, BusType, LoopType, bus, history, loop, Ends, Abandon, NextEntry
<1> QED
  BY <1>1, <1>2, <1>3, <1>4 DEF TypeOK

LEMMA FinallyType ==
  ASSUME TypeOK, LoopInv, NEW w \in Workers, Finally(w) PROVE TypeOK'
<1>1. BusType'
  BY WorkerAssumption DEF TypeOK, Finally, BusType, bus, rows, history, loop, TookEffect, Acknowledge, LoopType, NextEntry, Abandon, Goto, GotoOr
<1>2. LoopType'
  BY WorkerAssumption DEF TypeOK, Finally, LoopType, BusType, bus, rows, loop, Labels, Section, Failing, Streams, Goto, GotoOr, Abandon, NextEntry
<1>3. StoreType'
  BY WorkerAssumption DEF TypeOK, Finally, StoreType, bus, rows, history, loop, TookEffect, Abandon, NextEntry
<1>4. HistoryType'
  BY WorkerAssumption DEF TypeOK, Finally, HistoryType, BusType, LoopType, bus, history, loop, Ends, Abandon, NextEntry
<1> QED
  BY <1>1, <1>2, <1>3, <1>4 DEF TypeOK

LEMMA AckType ==
  ASSUME TypeOK, LoopInv, NEW w \in Workers, Ack(w) PROVE TypeOK'
<1>1. BusType'
  <2>1. /\ pel' \in {pel, pel \ {cur[w]}} /\ acked' \in {acked, acked \cup {cur[w]}}
        /\ UNCHANGED <<arrived, fresh>>
    BY DEF Ack, Acknowledge
  <2>2. idle' \subseteq pel'
    BY DEF Ack, Acknowledge, TypeOK, BusType
  <2>3. cur[w] \in 1..arrived
    BY WorkerAssumption DEF Ack, LoopInv, TypeOK, LoopType, BusType
  <2> QED
    BY <2>1, <2>2, <2>3 DEF TypeOK, BusType
<1>2. LoopType'
  BY WorkerAssumption DEF TypeOK, Ack, LoopType, BusType, bus, rows, loop, Labels, Section, Failing, Streams, Goto, GotoOr, Abandon, NextEntry
<1>3. StoreType'
  BY WorkerAssumption DEF TypeOK, Ack, StoreType, bus, rows, history, loop, TookEffect, Abandon, NextEntry
<1>4. HistoryType'
  BY WorkerAssumption DEF TypeOK, Ack, HistoryType, BusType, LoopType, bus, history, loop, Ends, Abandon, NextEntry
<1> QED
  BY <1>1, <1>2, <1>3, <1>4 DEF TypeOK

LEMMA ClearRetriesType ==
  ASSUME TypeOK, LoopInv, NEW w \in Workers, ClearRetries(w) PROVE TypeOK'
<1>1. BusType'
  BY WorkerAssumption DEF TypeOK, ClearRetries, BusType, bus, rows, history, loop, TookEffect, Acknowledge, LoopType, NextEntry, Abandon, Goto, GotoOr
<1>2. LoopType'
  BY WorkerAssumption DEF TypeOK, ClearRetries, LoopType, BusType, bus, rows, loop, Labels, Section, Failing, Streams, Goto, GotoOr, Abandon, NextEntry
<1>3. StoreType'
  <2>1. retries' \in {retries, [retries EXCEPT ![cur[w]] = 0]}
    BY DEF ClearRetries, TookEffect, Abandon
  <2>2. UNCHANGED <<locks, deadLetters, convs, inRows, outRows, replies>>
    BY DEF ClearRetries, rows, history, loop
  <2> QED
    BY <2>1, <2>2, CountersType DEF TypeOK, StoreType
<1>4. HistoryType'
  BY WorkerAssumption DEF TypeOK, ClearRetries, HistoryType, BusType, LoopType, bus, history, loop, Ends, Abandon, NextEntry
<1> QED
  BY <1>1, <1>2, <1>3, <1>4 DEF TypeOK

LEMMA CountFailureType ==
  ASSUME TypeOK, LoopInv, NEW w \in Workers, CountFailure(w) PROVE TypeOK'
<1>1. BusType'
  BY WorkerAssumption DEF TypeOK, CountFailure, BusType, bus, rows, history, loop, TookEffect, Acknowledge, LoopType, NextEntry, Abandon, Goto, GotoOr
<1>2. LoopType'
  BY SMTT(30), WorkerAssumption DEF TypeOK, CountFailure, LoopType, BusType, bus, rows, loop, Labels, Section, Failing, Streams, Goto, GotoOr, Abandon, NextEntry
<1>3. StoreType'
  <2>1. retries' \in {retries, [retries EXCEPT ![cur[w]] = @ + 1]}
    BY DEF CountFailure, TookEffect, Abandon
  <2>2. UNCHANGED <<locks, deadLetters, convs, inRows, outRows, replies>>
    BY DEF CountFailure, rows, history, loop
  <2> QED
    BY <2>1, <2>2, CountersType DEF TypeOK, StoreType
<1>4. HistoryType'
  BY WorkerAssumption DEF TypeOK, CountFailure, HistoryType, BusType, LoopType, bus, history, loop, Ends, Abandon, NextEntry
<1> QED
  BY <1>1, <1>2, <1>3, <1>4 DEF TypeOK

LEMMA BuryType ==
  ASSUME TypeOK, LoopInv, NEW w \in Workers, Bury(w) PROVE TypeOK'
<1>1. BusType'
  BY WorkerAssumption DEF TypeOK, Bury, BusType, bus, rows, history, loop, TookEffect, Acknowledge, LoopType, NextEntry, Abandon, Goto, GotoOr
<1>2. LoopType'
  BY WorkerAssumption DEF TypeOK, Bury, LoopType, BusType, bus, rows, loop, Labels, Section, Failing, Streams, Goto, GotoOr, Abandon, NextEntry
<1>3. StoreType'
  <2>1. deadLetters' \in {deadLetters, [deadLetters EXCEPT ![cur[w]] = @ + 1]}
    BY DEF Bury, TookEffect, Abandon
  <2>2. UNCHANGED <<locks, retries, convs, inRows, outRows, replies>>
    BY DEF Bury, rows, history, loop
  <2> QED
    BY <2>1, <2>2, CountersType DEF TypeOK, StoreType
<1>4. HistoryType'
  BY WorkerAssumption DEF TypeOK, Bury, HistoryType, BusType, LoopType, bus, history, loop, Ends, Abandon, NextEntry
<1> QED
  BY <1>1, <1>2, <1>3, <1>4 DEF TypeOK

LEMMA BuryAckType ==
  ASSUME TypeOK, LoopInv, NEW w \in Workers, BuryAck(w) PROVE TypeOK'
<1>1. BusType'
  <2>1. /\ pel' \in {pel, pel \ {cur[w]}} /\ acked' \in {acked, acked \cup {cur[w]}}
        /\ UNCHANGED <<arrived, fresh>>
    BY DEF BuryAck, Acknowledge
  <2>2. idle' \subseteq pel'
    BY DEF BuryAck, Acknowledge, TypeOK, BusType
  <2>3. cur[w] \in 1..arrived
    BY WorkerAssumption DEF BuryAck, LoopInv, TypeOK, LoopType, BusType
  <2> QED
    BY <2>1, <2>2, <2>3 DEF TypeOK, BusType
<1>2. LoopType'
  BY WorkerAssumption DEF TypeOK, BuryAck, LoopType, BusType, bus, rows, loop, Labels, Section, Failing, Streams, Goto, GotoOr, Abandon, NextEntry
<1>3. StoreType'
  BY WorkerAssumption DEF TypeOK, BuryAck, StoreType, bus, rows, history, loop, TookEffect, Abandon, NextEntry
<1>4. HistoryType'
  BY WorkerAssumption DEF TypeOK, BuryAck, HistoryType, BusType, LoopType, bus, history, loop, Ends, Abandon, NextEntry
<1> QED
  BY <1>1, <1>2, <1>3, <1>4 DEF TypeOK

LEMMA BuryClearType ==
  ASSUME TypeOK, LoopInv, NEW w \in Workers, BuryClear(w) PROVE TypeOK'
<1>1. BusType'
  BY WorkerAssumption DEF TypeOK, BuryClear, BusType, bus, rows, history, loop, TookEffect, Acknowledge, LoopType, NextEntry, Abandon, Goto, GotoOr
<1>2. LoopType'
  BY WorkerAssumption DEF TypeOK, BuryClear, LoopType, BusType, bus, rows, loop, Labels, Section, Failing, Streams, Goto, GotoOr, Abandon, NextEntry
<1>3. StoreType'
  <2>1. retries' \in {retries, [retries EXCEPT ![cur[w]] = 0]}
    BY DEF BuryClear, TookEffect, Abandon
  <2>2. UNCHANGED <<locks, deadLetters, convs, inRows, outRows, replies>>
    BY DEF BuryClear, rows, history, loop
  <2> QED
    BY <2>1, <2>2, CountersType DEF TypeOK, StoreType
<1>4. HistoryType'
  BY WorkerAssumption DEF TypeOK, BuryClear, HistoryType, BusType, LoopType, bus, history, loop, Ends, Abandon, NextEntry
<1> QED
  BY <1>1, <1>2, <1>3, <1>4 DEF TypeOK

-------------------------------------------------------------------------------
(* The registers of a worker follow its control flow. *)
LEMMA StepLoopInv ==
  ASSUME TypeOK, LoopInv, NEW w \in Workers, Step(w) PROVE LoopInv'
<1> USE DEF LoopInv, InSection, Section
<1>1. CASE Consume(w)
  BY <1>1 DEF TypeOK, LoopType, Consume, Goto, Abandon
<1>2. CASE Claim(w)
  BY <1>2 DEF TypeOK, LoopType, Claim, Abandon, Goto
<1>3. CASE NextStream(w)
  BY <1>3 DEF TypeOK, LoopType, NextStream, Goto
<1>4. CASE Lock(w)
  <2>1. PICK e \in batch[w] :
          /\ cur' = [cur EXCEPT ![w] = e]
          /\ \E r \in Results :
               IF locks[KeyOf[e]] = "held"
               THEN GotoOr(w, r, "ack", "incr") /\ beat' = beat
               ELSE /\ GotoOr(w, r, "route", "incr")
                    /\ beat' = IF r = "ok" THEN [beat EXCEPT ![w] = "alive"] ELSE beat
    BY <1>4 DEF Lock
  <2>2. e # 0
    BY WorkerAssumption DEF TypeOK, LoopType, BusType
  <2>3. pc[w] = "pick"
    BY <1>4 DEF Lock
  <2> QED
    BY <2>1, <2>2, <2>3 DEF TypeOK, LoopType, GotoOr, Goto
<1>5. CASE ResolveRoute(w)
  BY <1>5 DEF TypeOK, LoopType, ResolveRoute, Goto, loop
<1>6. CASE InsertConversation(w)
  BY <1>6 DEF TypeOK, LoopType, InsertConversation, GotoOr, Goto, loop
<1>7. CASE PersistInbound(w)
  BY <1>7 DEF TypeOK, LoopType, PersistInbound, GotoOr, Goto, loop
<1>8. CASE RunAgent(w)
  BY <1>8 DEF TypeOK, LoopType, RunAgent, GotoOr, Goto, loop
<1>9. CASE PersistOutbound(w)
  BY <1>9 DEF TypeOK, LoopType, PersistOutbound, GotoOr, Goto, loop
<1>10. CASE PublishReply(w)
  BY <1>10 DEF TypeOK, LoopType, PublishReply, GotoOr, Goto, loop
<1>11. CASE Finally(w)
  BY <1>11 DEF TypeOK, LoopType, Finally, Goto, loop
<1>12. CASE Ack(w)
  BY <1>12 DEF TypeOK, LoopType, Ack, GotoOr, Goto, loop
<1>13. CASE ClearRetries(w)
  BY <1>13 DEF TypeOK, LoopType, ClearRetries, Goto, NextEntry, loop
<1>14. CASE CountFailure(w)
  BY <1>14 DEF TypeOK, LoopType, CountFailure, Goto, NextEntry, Abandon, loop
<1>15. CASE Bury(w)
  BY <1>15 DEF TypeOK, LoopType, Bury, Goto, Abandon, loop
<1>16. CASE BuryAck(w)
  BY <1>16 DEF TypeOK, LoopType, BuryAck, Goto, Abandon, loop
<1>17. CASE BuryClear(w)
  BY <1>17 DEF TypeOK, LoopType, BuryClear, Abandon, NextEntry, Goto
<1> QED
  BY <1>1, <1>2, <1>3, <1>4, <1>5, <1>6, <1>7, <1>8, <1>9, <1>10, <1>11, <1>12, <1>13, <1>14, <1>15, <1>16, <1>17 DEF Step

LEMMA NextLoopInv == TypeOK /\ LoopInv /\ [Next]_vars => LoopInv'
<1> SUFFICES ASSUME TypeOK, LoopInv, [Next]_vars PROVE LoopInv'
  OBVIOUS
<1>1. ASSUME NEW w \in Workers, HeartbeatFails(w) PROVE LoopInv'
  BY <1>1 DEF HeartbeatFails, Beats, LoopInv, InSection, loop, TypeOK, LoopType
<1>2. ASSUME NEW w \in Workers, Crash(w) PROVE LoopInv'
  BY <1>2 DEF Crash, Abandon, Goto, LoopInv, InSection, Section, TypeOK, LoopType
<1>3. CASE UNCHANGED <<pc, cur, beat>>
  BY <1>3 DEF LoopInv, InSection
<1> QED
  BY <1>1, <1>2, <1>3, StepLoopInv DEF Next, Publish, Age, LockExpires, loop, vars

LEMMA NextType == TypeOK /\ LoopInv /\ [Next]_vars => TypeOK'
<1> SUFFICES ASSUME TypeOK, LoopInv, [Next]_vars PROVE TypeOK'
  OBVIOUS
<1>1. CASE Publish
  <2>1. arrived' \in 0..MaxEntries /\ 1..arrived \subseteq 1..arrived'
        /\ arrived + 1 \in 1..arrived' /\ 0..arrived \subseteq 0..arrived'
    BY <1>1, WorkerAssumption DEF Publish, TypeOK, BusType
  <2>2. BusType' /\ HistoryType'
    BY <1>1, <2>1 DEF Publish, history, TypeOK, BusType, HistoryType
  <2>3. LoopType'
    BY <1>1, <2>1 DEF Publish, loop, TypeOK, LoopType
  <2>4. StoreType'
    BY <1>1 DEF Publish, rows, TypeOK, StoreType
  <2> QED
    BY <2>2, <2>3, <2>4 DEF TypeOK
<1>2. ASSUME NEW e \in Entries, Age(e) PROVE TypeOK'
  BY <1>2 DEF Age, loop, rows, history, TypeOK, BusType, LoopType, StoreType, HistoryType
<1>3. ASSUME NEW k \in Keys, LockExpires(k) PROVE TypeOK'
  BY <1>3 DEF LockExpires, bus, loop, rows, history, TypeOK, BusType, LoopType, StoreType,
              HistoryType
<1>4. ASSUME NEW w \in Workers, HeartbeatFails(w) PROVE TypeOK'
  <2>1. BusType' /\ HistoryType'
    BY <1>4, WorkerAssumption DEF HeartbeatFails, bus, history, TypeOK, BusType, HistoryType
  <2>2. LoopType' /\ StoreType'
    BY <1>4 DEF HeartbeatFails, bus, loop, rows, TypeOK, LoopType, StoreType
  <2> QED
    BY <2>1, <2>2 DEF TypeOK
<1>5. ASSUME NEW w \in Workers, Crash(w) PROVE TypeOK'
  <2>1. BusType' /\ HistoryType'
    BY <1>5, WorkerAssumption DEF Crash, bus, history, TypeOK, BusType, HistoryType
  <2>2. LoopType'
    BY <1>5, WorkerAssumption
    DEF Crash, Abandon, Goto, bus, Labels, Streams, TypeOK, BusType, LoopType
  <2>3. StoreType'
    BY <1>5 DEF Crash, rows, TypeOK, StoreType
  <2> QED
    BY <2>1, <2>2, <2>3 DEF TypeOK
<1>6. CASE UNCHANGED vars
  BY <1>6 DEF vars, bus, loop, rows, history, TypeOK, BusType, LoopType, StoreType, HistoryType
<1> QED
  BY <1>1, <1>2, <1>3, <1>4, <1>5, <1>6, ConsumeType, ClaimType, NextStreamType, LockType,
     ResolveRouteType, InsertConversationType, PersistInboundType, RunAgentType,
     PersistOutboundType, PublishReplyType, FinallyType, AckType, ClearRetriesType,
     CountFailureType, BuryType, BuryAckType, BuryClearType
  DEF Next, Step

LEMMA InitType == Init => TypeOK /\ LoopInv
<1> SUFFICES ASSUME Init PROVE TypeOK /\ LoopInv
  OBVIOUS
<1>1. BusType /\ HistoryType
  BY WorkerAssumption DEF Init, BusType, HistoryType
<1>2. LoopType
  BY WorkerAssumption DEF Init, LoopType, Labels, Streams
<1>3. StoreType
  BY DEF Init, StoreType
<1>4. LoopInv
  BY DEF Init, LoopInv, InSection, Section
<1> QED
  BY <1>1, <1>2, <1>3, <1>4 DEF TypeOK

(* Every variable keeps its type and the registers follow the control flow,
   for every pool and every pattern of failures and deaths. *)
THEOREM TypeCorrect == Spec => [](TypeOK /\ LoopInv)
<1>1. (TypeOK /\ LoopInv) /\ [Next]_vars => (TypeOK /\ LoopInv)'
  BY NextType, NextLoopInv
<1> QED
  BY InitType, <1>1, PTL DEF Spec

-------------------------------------------------------------------------------
(* A worker that is handling an entry has one. *)
LEMMA BusyOnEntry ==
  ASSUME TypeOK, LoopInv, NEW w \in Workers, pc[w] \notin {"consume", "pick"}
  PROVE  cur[w] \in 1..arrived /\ cur[w] \in Entries
<1>1. cur[w] # 0
  BY DEF LoopInv
<1>2. arrived \in Nat /\ arrived <= MaxEntries /\ MaxEntries \in Nat /\ cur[w] \in 0..arrived
  BY WorkerAssumption DEF TypeOK, BusType, LoopType
<1> QED
  BY <1>1, <1>2 DEF Entries

(* A beating heartbeat is on a lock key that exists. *)
LockInv == \A w \in Workers : Beats(w) => locks[KeyOf[cur[w]]] = "held"

(* Steps that start no heartbeat, move no beating worker to another entry
   and delete no lock keep both halves of the exclusion. *)
LEMMA QuietExclusion ==
  ASSUME MutualExclusion, LockInv, locks' = locks,
         \A w \in Workers : Beats(w)' => Beats(w) /\ cur'[w] = cur[w]
  PROVE  MutualExclusion' /\ LockInv'
BY DEF MutualExclusion, LockInv

LEMMA NextExclusion ==
  ASSUME TypeOK, LoopInv, MutualExclusion, LockInv, [Next]_vars
  PROVE  MutualExclusion' /\ LockInv'
<1>1. ASSUME NEW w \in Workers, Lock(w) PROVE MutualExclusion' /\ LockInv'
  <2>0. w \in DOMAIN pc /\ w \in DOMAIN cur /\ w \in DOMAIN beat /\ ~InSection(w)
    BY <1>1 DEF Lock, TypeOK, LoopType, InSection, Section
  <2>1. PICK e \in batch[w] :
          /\ cur' = [cur EXCEPT ![w] = e]
          /\ \E r \in Results :
               IF locks[KeyOf[e]] = "held"
               THEN GotoOr(w, r, "ack", "incr") /\ UNCHANGED <<locks, beat>>
               ELSE /\ GotoOr(w, r, "route", "incr")
                    /\ locks' = IF TookEffect(r) THEN [locks EXCEPT ![KeyOf[e]] = "held"]
                                ELSE locks
                    /\ beat' = IF r = "ok" THEN [beat EXCEPT ![w] = "alive"] ELSE beat
    BY <1>1 DEF Lock
  <2>2. e \in Entries /\ KeyOf[e] \in Keys
    BY WorkerAssumption DEF TypeOK, LoopType, BusType, Entries, Keys
  <2>3. \A v \in Workers \ {w} : Beats(v)' = Beats(v) /\ cur'[v] = cur[v]
    BY <2>0, <2>1 DEF Beats, InSection, GotoOr, Goto, TypeOK, LoopType
  <2>4. Beats(w)' => locks[KeyOf[e]] = "free" /\ locks'[KeyOf[e]] = "held"
    BY <2>0, <2>1, <2>2 DEF Beats, InSection, Section, GotoOr, Goto, TookEffect, TypeOK,
                            LoopType, StoreType
  <2>5. \A k \in Keys : locks[k] = "held" => locks'[k] = "held"
    BY <2>1, <2>2 DEF TypeOK, StoreType
  <2>6. \A v \in Workers : Beats(v) => KeyOf[cur[v]] \in Keys
    BY WorkerAssumption DEF Beats, InSection, Section, LoopInv, TypeOK, LoopType, BusType, Entries, Keys
  <2>7. cur'[w] = e
    BY <2>0, <2>1
  <2>8. LockInv'
    BY <2>3, <2>4, <2>5, <2>6, <2>7 DEF LockInv
  <2>9. MutualExclusion'
    BY <2>3, <2>4, <2>7 DEF MutualExclusion, LockInv
  <2> QED
    BY <2>8, <2>9
<1>2. ASSUME NEW w \in Workers, Finally(w) PROVE MutualExclusion' /\ LockInv'
  <2>1. /\ \A v \in Workers \ {w} : Beats(v)' = Beats(v) /\ cur'[v] = cur[v]
        /\ ~Beats(w)'
    BY <1>2 DEF Finally, Beats, InSection, Goto, loop, TypeOK, LoopType
  <2>2. \A v \in Workers : Beats(v) => KeyOf[cur[v]] \in Keys
    BY WorkerAssumption DEF Beats, InSection, Section, LoopInv, TypeOK, LoopType, BusType, Entries, Keys
  <2>3. CASE locks' = locks
    BY <2>1, <2>3 DEF MutualExclusion, LockInv
  <2>4. CASE beat[w] # "failed" /\ locks' = [locks EXCEPT ![KeyOf[cur[w]]] = "free"]
    <3>1. Beats(w)
      BY <1>2, <2>4 DEF Finally, Beats, LoopInv, InSection, Section, TypeOK, LoopType
    <3>2. \A v \in Workers \ {w} : Beats(v) => locks'[KeyOf[cur[v]]] = "held"
      BY <2>2, <2>4, <3>1 DEF MutualExclusion, LockInv, TypeOK, StoreType
    <3> QED
      BY <2>1, <3>2 DEF MutualExclusion, LockInv
  <2> QED
    BY <1>2, <2>3, <2>4 DEF Finally
<1>3. ASSUME NEW k \in Keys, LockExpires(k) PROVE MutualExclusion' /\ LockInv'
  <2>1. /\ \A v \in Workers : Beats(v)' = Beats(v) /\ cur'[v] = cur[v]
        /\ locks' = [locks EXCEPT ![k] = "free"]
    BY <1>3 DEF LockExpires, Beats, InSection, loop
  <2>2. \A v \in Workers : Beats(v) => cur[v] \in Entries /\ KeyOf[cur[v]] \in Keys
    BY BusyOnEntry DEF Beats, InSection, Section, Keys
  <2>3. \A v \in Workers : Beats(v) => KeyOf[cur[v]] # k
    BY <1>3, <2>2 DEF LockExpires, OnKey
  <2> QED
    BY <2>1, <2>2, <2>3 DEF MutualExclusion, LockInv, TypeOK, StoreType
<1>4. ASSUME NEW w \in Workers, HeartbeatFails(w) \/ Crash(w) PROVE MutualExclusion' /\ LockInv'
  <2>1. /\ locks' = locks
        /\ \A v \in Workers : Beats(v)' => Beats(v) /\ cur'[v] = cur[v]
    BY <1>4 DEF HeartbeatFails, Crash, Abandon, Goto, Beats, InSection, Section, loop, TypeOK, LoopType
  <2> QED
    BY <2>1, QuietExclusion
<1>5. CASE Publish \/ (\E e \in Entries : Age(e)) \/ UNCHANGED vars
  <2>1. UNCHANGED <<locks, pc, beat, cur>>
    BY <1>5 DEF Publish, Age, loop, vars
  <2> QED
    BY <2>1, QuietExclusion DEF Beats, InSection
<1>6. ASSUME NEW w \in Workers, Step(w), ~Lock(w), ~Finally(w)
      PROVE MutualExclusion' /\ LockInv'
  <2>1. UNCHANGED <<locks, beat>>
    BY <1>6 DEF Step, Consume, Claim, NextStream, ResolveRoute, InsertConversation,
       PersistInbound, RunAgent, PersistOutbound, PublishReply, Ack, ClearRetries, CountFailure,
       Bury, BuryAck, BuryClear
  <2>2. CASE UNCHANGED loop /\ InSection(w) /\ \E l \in Labels : Goto(w, l)
    <3>1. \A v \in Workers : Beats(v)' => Beats(v) /\ cur'[v] = cur[v]
      BY <2>1, <2>2 DEF Beats, InSection, Goto, loop, TypeOK, LoopType
    <3> QED
      BY <2>1, <3>1, QuietExclusion
  <2>3. CASE /\ ~InSection(w)
             /\ \A v \in Workers \ {w} : pc'[v] = pc[v] /\ cur'[v] = cur[v]
    <3>1. beat[w] = "none"
      BY <2>3 DEF LoopInv
    <3>2. \A v \in Workers : Beats(v)' => Beats(v) /\ cur'[v] = cur[v]
      BY <2>1, <2>3, <3>1 DEF Beats, InSection
    <3> QED
      BY <2>1, <3>2, QuietExclusion
  <2>4. CASE ResolveRoute(w) \/ InsertConversation(w) \/ PersistInbound(w) \/ RunAgent(w)
             \/ PersistOutbound(w) \/ PublishReply(w)
    <3>1. UNCHANGED loop /\ InSection(w)
      BY <2>4 DEF ResolveRoute, InsertConversation, PersistInbound, RunAgent, PersistOutbound,
                  PublishReply, InSection, Section
    <3>2. \E l \in Labels : Goto(w, l)
      BY <2>4 DEF ResolveRoute, InsertConversation, PersistInbound, RunAgent, PersistOutbound,
                  PublishReply, GotoOr, Labels, Section
    <3> QED
      BY <2>2, <3>1, <3>2
  <2>5. CASE Consume(w) \/ Claim(w) \/ NextStream(w) \/ Ack(w) \/ ClearRetries(w)
             \/ CountFailure(w) \/ Bury(w) \/ BuryAck(w) \/ BuryClear(w)
    <3>1. ~InSection(w)
      BY <2>5 DEF Consume, Claim, NextStream, Ack, ClearRetries, CountFailure, Bury, BuryAck,
                  BuryClear, InSection, Section
    <3>2. \A v \in Workers \ {w} : pc'[v] = pc[v] /\ cur'[v] = cur[v]
      BY <2>5 DEF Consume, Claim, NextStream, Ack, ClearRetries, CountFailure, Bury, BuryAck,
                  BuryClear, Goto, GotoOr, Abandon, NextEntry, loop, TypeOK, LoopType
    <3> QED
      BY <2>3, <3>1, <3>2
  <2> QED
    BY <1>6, <2>4, <2>5 DEF Step
<1> QED
  BY <1>1, <1>2, <1>3, <1>4, <1>5, <1>6 DEF Next

(* At most one worker with a beating heartbeat is in process() for a key,
   whatever fails and whoever dies, although the lock records no owner. *)
THEOREM Exclusion == Spec => []MutualExclusion
<1>1. Init => MutualExclusion /\ LockInv
  BY DEF Init, MutualExclusion, LockInv, Beats, InSection, Section
<1>2. TypeOK /\ LoopInv /\ (MutualExclusion /\ LockInv) /\ [Next]_vars
      => (MutualExclusion /\ LockInv)'
  BY NextExclusion
<1>3. Spec => [](MutualExclusion /\ LockInv)
  BY <1>1, <1>2, TypeCorrect, PTL DEF Spec
<1> QED
  BY <1>3, PTL

-------------------------------------------------------------------------------
(* Workers that are on e at one of the given awaits. *)
Owing(e, labels) == {w \in Workers : cur[w] = e /\ pc[w] \in labels}

(* Between writing the inbound row and writing the outbound row a worker owes
   an outbound row; between the outbound row and the publication, a reply. *)
OwesRow(e) == Owing(e, {"agent", "persistOut"})
OwesReply(e) == Owing(e, {"publish"})

RecordsInv ==
  \A e \in Entries :
    /\ outRows[e] + Cardinality(OwesRow(e)) <= inRows[e]
    /\ replies[e] + Cardinality(OwesReply(e)) <= outRows[e]

LEMMA SmallerSet ==
  ASSUME NEW S, NEW T, IsFiniteSet(S), T \subseteq S
  PROVE  /\ IsFiniteSet(T)
         /\ Cardinality(T) \in Nat /\ Cardinality(S) \in Nat
         /\ Cardinality(T) <= Cardinality(S)
<1>1. IsFiniteSet(T) /\ Cardinality(T) <= Cardinality(S)
  BY FS_Subset
<1>2. Cardinality(T) \in Nat /\ Cardinality(S) \in Nat
  BY <1>1, FS_CardinalityType
<1> QED
  BY <1>1, <1>2

LEMMA JoinSet ==
  ASSUME NEW S, NEW T, NEW x, IsFiniteSet(S), T \subseteq S \cup {x}
  PROVE  Cardinality(T) <= Cardinality(S) + 1
<1>1. IsFiniteSet(S \cup {x}) /\ Cardinality(S \cup {x}) \in {Cardinality(S), Cardinality(S) + 1}
  BY FS_AddElement
<1>2. Cardinality(T) \in Nat /\ Cardinality(T) <= Cardinality(S \cup {x})
  BY <1>1, SmallerSet
<1>3. Cardinality(S) \in Nat
  BY FS_CardinalityType
<1> QED
  BY <1>1, <1>2, <1>3

LEMMA LeaveSet ==
  ASSUME NEW S, NEW T, NEW x, IsFiniteSet(S), x \in S, T \subseteq S \ {x}
  PROVE  Cardinality(T) + 1 <= Cardinality(S)
<1>1. IsFiniteSet(S \ {x}) /\ Cardinality(S \ {x}) = Cardinality(S) - 1
  BY FS_RemoveElement
<1>2. Cardinality(T) \in Nat /\ Cardinality(T) <= Cardinality(S \ {x})
  BY <1>1, SmallerSet
<1>3. Cardinality(S) \in Nat
  BY FS_CardinalityType
<1> QED
  BY <1>1, <1>2, <1>3

LEMMA OwingFinite ==
  ASSUME NEW e
  PROVE  /\ IsFiniteSet(OwesRow(e)) /\ Cardinality(OwesRow(e)) \in Nat
         /\ IsFiniteSet(OwesReply(e)) /\ Cardinality(OwesReply(e)) \in Nat
<1>1. OwesRow(e) \subseteq Workers /\ OwesReply(e) \subseteq Workers
  BY DEF OwesRow, OwesReply, Owing
<1> QED
  BY <1>1, SmallerSet, WorkerAssumption

(* A step that writes no row and after which nobody owes more than before. *)
LEMMA QuietRecords ==
  ASSUME TypeOK, RecordsInv, UNCHANGED <<inRows, outRows, replies>>,
         \A e \in Entries : OwesRow(e)' \subseteq OwesRow(e) /\ OwesReply(e)' \subseteq OwesReply(e)
  PROVE  RecordsInv'
<1> SUFFICES ASSUME NEW e \in Entries
             PROVE  /\ outRows[e] + Cardinality(OwesRow(e)') <= inRows[e]
                    /\ replies[e] + Cardinality(OwesReply(e)') <= outRows[e]
  BY DEF RecordsInv
<1>1. /\ Cardinality(OwesRow(e)') \in Nat
      /\ Cardinality(OwesRow(e)') <= Cardinality(OwesRow(e))
  BY OwingFinite, SmallerSet
<1>2. /\ Cardinality(OwesReply(e)') \in Nat
      /\ Cardinality(OwesReply(e)') <= Cardinality(OwesReply(e))
  BY OwingFinite, SmallerSet
<1>3. Cardinality(OwesRow(e)) \in Nat /\ Cardinality(OwesReply(e)) \in Nat
  BY OwingFinite
<1>4. outRows[e] \in Nat /\ inRows[e] \in Nat /\ replies[e] \in Nat
  BY DEF TypeOK, StoreType
<1>5. outRows[e] + Cardinality(OwesRow(e)) <= inRows[e]
      /\ replies[e] + Cardinality(OwesReply(e)) <= outRows[e]
  BY DEF RecordsInv
<1> QED
  BY <1>1, <1>2, <1>3, <1>4, <1>5

LEMMA PersistInboundRecords ==
  ASSUME TypeOK, LoopInv, RecordsInv, NEW w \in Workers, PersistInbound(w)
  PROVE  RecordsInv'
<1> SUFFICES ASSUME NEW e \in Entries
             PROVE  /\ outRows'[e] + Cardinality(OwesRow(e)') <= inRows'[e]
                    /\ replies'[e] + Cardinality(OwesReply(e)') <= outRows'[e]
  BY DEF RecordsInv
<1>1. PICK r \in Results :
        /\ GotoOr(w, r, "agent", "unwind")
        /\ inRows' = IF TookEffect(r) THEN [inRows EXCEPT ![cur[w]] = @ + 1] ELSE inRows
  BY DEF PersistInbound
<1>2. UNCHANGED <<cur, outRows, replies>> /\ pc[w] = "persistIn"
  BY DEF PersistInbound, loop
<1>3. \A v \in Workers \ {w} : pc'[v] = pc[v]
  BY <1>1 DEF GotoOr, Goto, TypeOK, LoopType
<1>4. pc'[w] \in {"agent", "unwind"} /\ (r # "ok" => pc'[w] = "unwind")
  BY <1>1 DEF GotoOr, Goto, TypeOK, LoopType
<1>5. /\ outRows[e] \in Nat /\ inRows[e] \in Nat /\ replies[e] \in Nat
      /\ inRows \in [Entries -> Nat] /\ inRows'[e] \in {inRows[e], inRows[e] + 1}
      /\ outRows[e] + Cardinality(OwesRow(e)) <= inRows[e]
      /\ replies[e] + Cardinality(OwesReply(e)) <= outRows[e]
  BY <1>1 DEF TypeOK, StoreType, RecordsInv
<1>6. OwesReply(e)' \subseteq OwesReply(e)
  BY <1>2, <1>3, <1>4 DEF OwesReply, Owing
<1>7. Cardinality(OwesReply(e)') \in Nat /\ Cardinality(OwesReply(e)') <= Cardinality(OwesReply(e))
      /\ Cardinality(OwesReply(e)) \in Nat
  BY <1>6, OwingFinite, SmallerSet
<1>8. replies'[e] + Cardinality(OwesReply(e)') <= outRows'[e]
  BY <1>2, <1>5, <1>7
<1>9. CASE r = "ok" /\ e = cur[w]
  <2>1. OwesRow(e)' \subseteq OwesRow(e) \cup {w}
    BY <1>2, <1>3 DEF OwesRow, Owing
  <2>2. Cardinality(OwesRow(e)') <= Cardinality(OwesRow(e)) + 1
    BY <2>1, OwingFinite, JoinSet
  <2>3. inRows'[e] = inRows[e] + 1
    BY <1>1, <1>5, <1>9 DEF TookEffect
  <2>4. Cardinality(OwesRow(e)) \in Nat /\ Cardinality(OwesRow(e)') \in Nat
    <3>1. IsFiniteSet(OwesRow(e)')
      BY <2>1, OwingFinite, FS_AddElement, FS_Subset
    <3> QED
      BY <3>1, OwingFinite, FS_CardinalityType
  <2> QED
    BY <1>2, <1>5, <1>8, <2>2, <2>3, <2>4
<1>10. CASE ~(r = "ok" /\ e = cur[w])
  <2>1. OwesRow(e)' \subseteq OwesRow(e)
    BY <1>2, <1>3, <1>4, <1>10 DEF OwesRow, Owing
  <2>2. Cardinality(OwesRow(e)') \in Nat /\ Cardinality(OwesRow(e)') <= Cardinality(OwesRow(e))
        /\ Cardinality(OwesRow(e)) \in Nat
    BY <2>1, OwingFinite, SmallerSet
  <2> QED
    BY <1>2, <1>5, <1>8, <2>2
<1> QED
  BY <1>9, <1>10

LEMMA PersistOutboundRecords ==
  ASSUME TypeOK, LoopInv, RecordsInv, NEW w \in Workers, PersistOutbound(w)
  PROVE  RecordsInv'
<1> SUFFICES ASSUME NEW e \in Entries
             PROVE  /\ outRows'[e] + Cardinality(OwesRow(e)') <= inRows'[e]
                    /\ replies'[e] + Cardinality(OwesReply(e)') <= outRows'[e]
  BY DEF RecordsInv
<1>1. PICK r \in Results :
        /\ GotoOr(w, r, "publish", "unwind")
        /\ outRows' = IF TookEffect(r) THEN [outRows EXCEPT ![cur[w]] = @ + 1] ELSE outRows
  BY DEF PersistOutbound
<1>2. UNCHANGED <<cur, inRows, replies>> /\ pc[w] = "persistOut"
  BY DEF PersistOutbound, loop
<1>3. \A v \in Workers \ {w} : pc'[v] = pc[v]
  BY <1>1 DEF GotoOr, Goto, TypeOK, LoopType
<1>4. pc'[w] \in {"publish", "unwind"} /\ (r # "ok" => pc'[w] = "unwind")
  BY <1>1 DEF GotoOr, Goto, TypeOK, LoopType
<1>5. /\ outRows[e] \in Nat /\ inRows[e] \in Nat /\ replies[e] \in Nat
      /\ outRows \in [Entries -> Nat] /\ outRows'[e] \in {outRows[e], outRows[e] + 1}
      /\ outRows[e] + Cardinality(OwesRow(e)) <= inRows[e]
      /\ replies[e] + Cardinality(OwesReply(e)) <= outRows[e]
      /\ (e # cur[w] => outRows'[e] = outRows[e])
  BY <1>1 DEF TypeOK, StoreType, RecordsInv
<1>6. /\ Cardinality(OwesRow(e)) \in Nat /\ IsFiniteSet(OwesRow(e))
      /\ Cardinality(OwesReply(e)) \in Nat /\ IsFiniteSet(OwesReply(e))
  BY OwingFinite
<1>7. OwesRow(e)' \subseteq OwesRow(e)
  BY <1>2, <1>3, <1>4 DEF OwesRow, Owing
<1>8. Cardinality(OwesRow(e)') \in Nat /\ Cardinality(OwesRow(e)') <= Cardinality(OwesRow(e))
  BY <1>6, <1>7, SmallerSet
<1>9. OwesReply(e)' \subseteq OwesReply(e) \cup {w}
  BY <1>2, <1>3 DEF OwesReply, Owing
<1>10. Cardinality(OwesReply(e)') \in Nat
  <2>1. IsFiniteSet(OwesReply(e)')
    BY <1>6, <1>9, FS_AddElement, FS_Subset
  <2> QED
    BY <2>1, FS_CardinalityType
<1>11. CASE e # cur[w]
  <2>1. OwesReply(e)' \subseteq OwesReply(e)
    BY <1>2, <1>3, <1>11 DEF OwesReply, Owing
  <2>2. Cardinality(OwesReply(e)') <= Cardinality(OwesReply(e))
    BY <1>6, <2>1, SmallerSet
  <2> QED
    BY <1>2, <1>5, <1>6, <1>8, <1>10, <1>11, <2>2
<1>12. CASE e = cur[w]
  <2>1. w \in OwesRow(e) /\ OwesRow(e)' \subseteq OwesRow(e) \ {w}
    BY <1>2, <1>4, <1>7, <1>12 DEF OwesRow, Owing
  <2>2. Cardinality(OwesRow(e)') + 1 <= Cardinality(OwesRow(e))
    BY <1>6, <2>1, LeaveSet
  <2>3. CASE r = "ok"
    <3>1. outRows'[e] = outRows[e] + 1
      BY <1>1, <1>5, <1>12, <2>3 DEF TookEffect
    <3>2. Cardinality(OwesReply(e)') <= Cardinality(OwesReply(e)) + 1
      BY <1>6, <1>9, JoinSet
    <3> QED
      BY <1>2, <1>5, <1>6, <1>8, <1>10, <2>2, <3>1, <3>2
  <2>4. CASE r # "ok"
    <3>1. OwesReply(e)' \subseteq OwesReply(e)
      BY <1>2, <1>3, <1>4, <2>4 DEF OwesReply, Owing
    <3>2. Cardinality(OwesReply(e)') <= Cardinality(OwesReply(e))
      BY <1>6, <3>1, SmallerSet
    <3> QED
      BY <1>2, <1>5, <1>6, <1>8, <1>10, <2>2, <3>2
  <2> QED
    BY <2>3, <2>4
<1> QED
  BY <1>11, <1>12

LEMMA PublishReplyRecords ==
  ASSUME TypeOK, LoopInv, RecordsInv, NEW w \in Workers, PublishReply(w)
  PROVE  RecordsInv'
<1> SUFFICES ASSUME NEW e \in Entries
             PROVE  /\ outRows'[e] + Cardinality(OwesRow(e)') <= inRows'[e]
                    /\ replies'[e] + Cardinality(OwesReply(e)') <= outRows'[e]
  BY DEF RecordsInv
<1>1. PICK r \in Results :
        /\ GotoOr(w, r, "cleanup", "unwind")
        /\ replies' = IF TookEffect(r) THEN [replies EXCEPT ![cur[w]] = @ + 1] ELSE replies
  BY DEF PublishReply
<1>2. UNCHANGED <<cur, inRows, outRows>> /\ pc[w] = "publish"
  BY DEF PublishReply, loop
<1>3. \A v \in Workers \ {w} : pc'[v] = pc[v]
  BY <1>1 DEF GotoOr, Goto, TypeOK, LoopType
<1>4. pc'[w] \in {"cleanup", "unwind"}
  BY <1>1 DEF GotoOr, Goto, TypeOK, LoopType
<1>5. /\ outRows[e] \in Nat /\ inRows[e] \in Nat /\ replies[e] \in Nat
      /\ replies'[e] \in {replies[e], replies[e] + 1}
      /\ outRows[e] + Cardinality(OwesRow(e)) <= inRows[e]
      /\ replies[e] + Cardinality(OwesReply(e)) <= outRows[e]
      /\ (e # cur[w] => replies'[e] = replies[e])
  BY <1>1 DEF TypeOK, StoreType, RecordsInv
<1>6. /\ Cardinality(OwesRow(e)) \in Nat /\ IsFiniteSet(OwesRow(e))
      /\ Cardinality(OwesReply(e)) \in Nat /\ IsFiniteSet(OwesReply(e))
  BY OwingFinite
<1>7. OwesRow(e)' \subseteq OwesRow(e) /\ OwesReply(e)' \subseteq OwesReply(e)
  BY <1>2, <1>3, <1>4 DEF OwesRow, OwesReply, Owing
<1>8. /\ Cardinality(OwesRow(e)') \in Nat /\ Cardinality(OwesRow(e)') <= Cardinality(OwesRow(e))
      /\ Cardinality(OwesReply(e)') \in Nat
      /\ Cardinality(OwesReply(e)') <= Cardinality(OwesReply(e))
  BY <1>6, <1>7, SmallerSet
<1>9. CASE e # cur[w]
  BY <1>2, <1>5, <1>6, <1>8, <1>9
<1>10. CASE e = cur[w]
  <2>1. w \in OwesReply(e) /\ OwesReply(e)' \subseteq OwesReply(e) \ {w}
    BY <1>2, <1>4, <1>7, <1>10 DEF OwesReply, Owing
  <2>2. Cardinality(OwesReply(e)') + 1 <= Cardinality(OwesReply(e))
    BY <1>6, <2>1, LeaveSet
  <2> QED
    BY <1>2, <1>5, <1>6, <1>8, <2>2
<1> QED
  BY <1>9, <1>10

LEMMA NextRecords ==
  ASSUME TypeOK, LoopInv, RecordsInv, [Next]_vars PROVE RecordsInv'
<1> DEFINE owes == {"agent", "persistOut", "publish"}
<1>1. ASSUME NEW w \in Workers, RunAgent(w) PROVE RecordsInv'
  <2>1. UNCHANGED <<inRows, outRows, replies, cur>>
    BY <1>1 DEF RunAgent, rows, loop
  <2>2. pc[w] = "agent" /\ pc'[w] \in {"persistOut", "unwind"}
        /\ \A v \in Workers \ {w} : pc'[v] = pc[v]
    BY <1>1 DEF RunAgent, GotoOr, Goto, TypeOK, LoopType
  <2>3. \A e \in Entries : OwesRow(e)' \subseteq OwesRow(e) /\ OwesReply(e)' \subseteq OwesReply(e)
    BY <2>1, <2>2 DEF OwesRow, OwesReply, Owing
  <2> QED
    BY <2>1, <2>3, QuietRecords
<1>2. ASSUME NEW w \in Workers, pc'[w] \notin owes,
             \A v \in Workers \ {w} : pc'[v] = pc[v] /\ cur'[v] = cur[v],
             UNCHANGED <<inRows, outRows, replies>>
      PROVE  RecordsInv'
  <2>1. \A e \in Entries : OwesRow(e)' \subseteq OwesRow(e) /\ OwesReply(e)' \subseteq OwesReply(e)
    BY <1>2 DEF OwesRow, OwesReply, Owing
  <2> QED
    BY <1>2, <2>1, QuietRecords
<1>3. ASSUME NEW w \in Workers,
             \/ Consume(w) \/ Claim(w) \/ NextStream(w) \/ Lock(w) \/ ResolveRoute(w)
             \/ InsertConversation(w) \/ Finally(w) \/ Ack(w)
      PROVE  RecordsInv'
  <2>1. UNCHANGED <<inRows, outRows, replies>>
    BY <1>3 DEF Consume, Claim, NextStream, Lock, ResolveRoute, InsertConversation, Finally, Ack, rows
  <2>2. pc'[w] \notin owes
    <3>1. CASE Consume(w)
      <4>1. Goto(w, "pick") \/ Abandon(w)
        BY <3>1 DEF Consume
      <4> QED
        BY <4>1 DEF Goto, Abandon, TypeOK, LoopType
    <3>2. CASE Claim(w)
      <4>1. pc[w] = "pick" /\ (pc' = pc \/ Abandon(w))
        BY <3>2 DEF Claim
      <4> QED
        BY <4>1 DEF Goto, Abandon, TypeOK, LoopType
    <3>3. CASE NextStream(w) \/ InsertConversation(w) \/ Ack(w)
      BY <3>3 DEF NextStream, InsertConversation, Ack, Goto, GotoOr, TypeOK, LoopType
    <3>4. CASE Lock(w)
      <4>1. \E r : GotoOr(w, r, "ack", "incr") \/ GotoOr(w, r, "route", "incr")
        BY <3>4 DEF Lock
      <4> QED
        BY <4>1 DEF Goto, GotoOr, TypeOK, LoopType
    <3>5. CASE ResolveRoute(w) \/ Finally(w)
      <4>1. \E label \in {"unwind", "cleanup", "insert", "persistIn", "incr", "ack"} : Goto(w, label)
        BY <3>5 DEF ResolveRoute, Finally
      <4> QED
        BY <4>1 DEF Goto, TypeOK, LoopType
    <3> QED
      BY <1>3, <3>1, <3>2, <3>3, <3>4, <3>5
  <2>3. \A v \in Workers \ {w} : pc'[v] = pc[v] /\ cur'[v] = cur[v]
    BY ZenonT(30), <1>3 DEF Consume, Claim, NextStream, Lock, ResolveRoute, InsertConversation, Finally, Ack,
                Goto, GotoOr, Abandon, loop, TypeOK, LoopType
  <2> QED
    BY <1>2, <2>1, <2>2, <2>3
<1>4. ASSUME NEW w \in Workers,
             \/ ClearRetries(w) \/ CountFailure(w) \/ Bury(w) \/ BuryAck(w) \/ BuryClear(w)
             \/ Crash(w)
      PROVE  RecordsInv'
  <2>1. UNCHANGED <<inRows, outRows, replies>>
    BY <1>4 DEF ClearRetries, CountFailure, Bury, BuryAck, BuryClear, Crash, rows
  <2>2. pc'[w] \notin owes
    BY <1>4 DEF ClearRetries, CountFailure, Bury, BuryAck, BuryClear, Crash, Goto, Abandon,
                NextEntry, TypeOK, LoopType
  <2>3. \A v \in Workers \ {w} : pc'[v] = pc[v] /\ cur'[v] = cur[v]
    BY <1>4 DEF ClearRetries, CountFailure, Bury, BuryAck, BuryClear, Crash, Goto, Abandon,
                NextEntry, loop, TypeOK, LoopType
  <2> QED
    BY <1>2, <2>1, <2>2, <2>3
<1>5. CASE UNCHANGED <<inRows, outRows, replies, pc, cur>>
  BY <1>5, QuietRecords DEF OwesRow, OwesReply, Owing
<1> QED
  BY <1>1, <1>3, <1>4, <1>5, PersistInboundRecords, PersistOutboundRecords, PublishReplyRecords
  DEF Next, Step, Publish, Age, LockExpires, HeartbeatFails, loop, rows, vars

(* However often an entry is redelivered and wherever an attempt breaks off,
   the conversation history holds an outbound row for every reply published
   and an inbound row for every outbound one. *)
THEOREM Records == Spec => []RecordsInOrder
<1>1. Init => RecordsInv
  <2> SUFFICES ASSUME Init, NEW e \in Entries
               PROVE  /\ outRows[e] + Cardinality(OwesRow(e)) <= inRows[e]
                      /\ replies[e] + Cardinality(OwesReply(e)) <= outRows[e]
    BY DEF RecordsInv
  <2>1. OwesRow(e) = {} /\ OwesReply(e) = {}
    BY DEF Init, OwesRow, OwesReply, Owing
  <2> QED
    BY <2>1, FS_EmptySet DEF Init
<1>2. TypeOK /\ LoopInv /\ RecordsInv /\ [Next]_vars => RecordsInv'
  BY NextRecords
<1>3. TypeOK /\ RecordsInv => RecordsInOrder
  <2> SUFFICES ASSUME TypeOK, RecordsInv, NEW e \in Entries
               PROVE  replies[e] <= outRows[e] /\ outRows[e] <= inRows[e]
    BY DEF RecordsInOrder
  <2>1. Cardinality(OwesRow(e)) \in Nat /\ Cardinality(OwesReply(e)) \in Nat
    BY OwingFinite
  <2> QED
    BY <2>1 DEF RecordsInv, TypeOK, StoreType
<1> QED
  BY <1>1, <1>2, <1>3, TypeCorrect, PTL DEF Spec

-------------------------------------------------------------------------------
(* Whoever is about to insert a conversation found none and is alone: it      *)
(* holds the row lock of the contact.                                      *)
InsertingAlone ==
  \A w \in Workers :
    pc[w] = "insert" =>
      /\ convs[ChatOf[cur[w]]] = 0
      /\ \A v \in Workers \ {w} : pc[v] = "insert" => ChatOf[cur[v]] # ChatOf[cur[w]]

ActiveInv == OneActiveConversation /\ InsertingAlone

(* A step that inserts nothing and sends nobody to an insert keeps it. *)
LEMMA QuietActive ==
  ASSUME ActiveInv, convs' = convs,
         \A w \in Workers : pc'[w] = "insert" => pc[w] = "insert" /\ cur'[w] = cur[w]
  PROVE  ActiveInv'
BY DEF ActiveInv, OneActiveConversation, InsertingAlone

LEMMA NextActive ==
  ASSUME TypeOK, LoopInv, ActiveInv, [Next]_vars PROVE ActiveInv'
<1>1. ASSUME NEW w \in Workers, ResolveRoute(w) PROVE ActiveInv'
  <2>1. /\ cur' = cur /\ convs' = convs
        /\ \A v \in Workers \ {w} : pc'[v] = pc[v]
    BY <1>1 DEF ResolveRoute, Goto, loop, rows, TypeOK, LoopType
  <2>2. CASE pc'[w] # "insert"
    BY <2>1, <2>2, QuietActive
  <2>3. CASE pc'[w] = "insert"
    <3>1. ContactFree(w) /\ convs[ChatOf[cur[w]]] = 0
      BY <1>1, <2>3 DEF ResolveRoute, Goto, TypeOK, LoopType
    <3> QED
      BY <2>1, <2>3, <3>1 DEF ContactFree, ActiveInv, OneActiveConversation, InsertingAlone
  <2> QED
    BY <2>2, <2>3
<1>2. ASSUME NEW w \in Workers, InsertConversation(w) PROVE ActiveInv'
  <2>1. /\ cur' = cur /\ pc[w] = "insert" /\ pc'[w] # "insert"
        /\ \A v \in Workers \ {w} : pc'[v] = pc[v]
    BY <1>2 DEF InsertConversation, Goto, GotoOr, loop, TypeOK, LoopType
  <2>2. cur[w] \in Entries /\ ChatOf[cur[w]] \in Chats
    BY <2>1, BusyOnEntry DEF LoopInv, Chats
  <2>3. convs' \in {convs, [convs EXCEPT ![ChatOf[cur[w]]] = @ + 1]}
    BY <1>2 DEF InsertConversation
  <2>4. convs[ChatOf[cur[w]]] = 0 /\ \A v \in Workers \ {w} : pc[v] = "insert" => ChatOf[cur[v]] # ChatOf[cur[w]]
    BY <2>1 DEF ActiveInv, InsertingAlone
  <2>5. OneActiveConversation'
    BY <2>2, <2>3, <2>4 DEF ActiveInv, OneActiveConversation, TypeOK, StoreType
  <2>6. InsertingAlone'
    <3> SUFFICES ASSUME NEW v \in Workers, pc'[v] = "insert"
                 PROVE  /\ convs'[ChatOf[cur[v]]] = 0
                        /\ \A u \in Workers \ {v} : pc'[u] = "insert" => ChatOf[cur[u]] # ChatOf[cur[v]]
      BY <2>1 DEF InsertingAlone
    <3>1. v # w /\ pc[v] = "insert"
      BY <2>1
    <3>2. ChatOf[cur[v]] # ChatOf[cur[w]] /\ convs[ChatOf[cur[v]]] = 0
      BY <2>4, <3>1 DEF ActiveInv, InsertingAlone
    <3>3. convs'[ChatOf[cur[v]]] = convs[ChatOf[cur[v]]]
      <4>1. cur[v] \in Entries
        BY <3>1, BusyOnEntry
      <4>2. ChatOf[cur[v]] \in Chats /\ DOMAIN convs = Chats
        BY <4>1 DEF Chats, TypeOK, StoreType
      <4> QED
        BY <2>3, <3>2, <4>2
    <3>4. \A u \in Workers \ {v} : pc'[u] = "insert" => ChatOf[cur[u]] # ChatOf[cur[v]]
      BY <2>1, <3>1 DEF ActiveInv, InsertingAlone
    <3> QED
      BY <3>2, <3>3, <3>4
  <2> QED
    BY <2>5, <2>6 DEF ActiveInv
<1>3. ASSUME NEW w \in Workers,
             \/ Consume(w) \/ Claim(w) \/ NextStream(w) \/ Lock(w) \/ PersistInbound(w)
             \/ RunAgent(w) \/ PersistOutbound(w) \/ PublishReply(w) \/ Finally(w) \/ Ack(w)
             \/ ClearRetries(w) \/ CountFailure(w) \/ Bury(w) \/ BuryAck(w) \/ BuryClear(w)
             \/ Crash(w)
      PROVE ActiveInv'
  <2>1. convs' = convs
    BY <1>3 DEF Consume, Claim, NextStream, Lock, PersistInbound, RunAgent, PersistOutbound,
      PublishReply, Finally, Ack, ClearRetries, CountFailure, Bury, BuryAck, BuryClear, Crash, rows
  <2>2. /\ pc'[w] = "insert" => (pc[w] = "insert" /\ cur'[w] = cur[w])
        /\ \A v \in Workers \ {w} : pc'[v] = pc[v] /\ cur'[v] = cur[v]
    BY ZenonT(30), <1>3 DEF Consume, Claim, NextStream, Lock, PersistInbound, RunAgent, PersistOutbound,
      PublishReply, Finally, Ack, ClearRetries, CountFailure, Bury, BuryAck, BuryClear, Crash,
      Abandon, NextEntry, Goto, GotoOr, loop, TypeOK, LoopType
  <2> QED
    BY <2>1, <2>2, QuietActive
<1>4. CASE UNCHANGED <<pc, cur, convs>>
  BY <1>4, QuietActive
<1> QED
  BY <1>1, <1>2, <1>3, <1>4
  DEF Next, Step, Publish, Age, LockExpires, HeartbeatFails, loop, rows, vars

(* A contact has at most one active conversation per number, for any lock   *)
(* keys, failures and deaths.                                              *)
THEOREM OneConversation == Spec => []OneActiveConversation
<1>1. Init => ActiveInv
  BY DEF Init, ActiveInv, OneActiveConversation, InsertingAlone
<1>2. TypeOK /\ LoopInv /\ ActiveInv /\ [Next]_vars => ActiveInv'
  BY NextActive
<1> QED
  BY <1>1, <1>2, TypeCorrect, PTL DEF Spec, ActiveInv

-------------------------------------------------------------------------------
(* What a worker is to process, or is processing, is pending or was
   acknowledged by somebody already. *)
HeldEntries ==
  \A w \in Workers :
    /\ batch[w] \subseteq pel \cup acked
    /\ cur[w] # 0 => cur[w] \in pel \cup acked

LEMMA NextHeld ==
  ASSUME TypeOK, LoopInv, HeldEntries, [Next]_vars PROVE HeldEntries'
<1>1. (pel \cup acked) \subseteq (pel \cup acked)'
  BY ZenonT(30) DEF Next, Step, Publish, Age, LockExpires, Consume, Claim, NextStream, Lock, ResolveRoute,
     InsertConversation, PersistInbound, RunAgent, PersistOutbound, PublishReply, Finally, Ack,
     Acknowledge, ClearRetries, CountFailure, Bury, BuryAck, BuryClear, HeartbeatFails, Crash,
     bus, vars
<1>2. ASSUME NEW w \in Workers,
             batch'[w] \subseteq (pel \cup acked)',
             cur'[w] = 0 \/ cur'[w] \in batch[w] \/ cur'[w] = cur[w],
             \A v \in Workers \ {w} : batch'[v] = batch[v] /\ cur'[v] = cur[v]
      PROVE  HeldEntries'
  BY <1>1, <1>2 DEF HeldEntries
<1>3. ASSUME NEW w \in Workers, Consume(w) PROVE HeldEntries'
  <2> DEFINE new == Oldest({e \in fresh : StreamOf[e] = turn[w]}, Count)
  <2>1. \/ batch' = [batch EXCEPT ![w] = new] /\ cur' = cur /\ new \subseteq pel'
        \/ Abandon(w)
    BY <1>3 DEF Consume, TookEffect
  <2> HIDE DEF new
  <2>2. batch'[w] \subseteq (pel \cup acked)' /\ (cur'[w] = 0 \/ cur'[w] = cur[w])
    BY <2>1 DEF Abandon, TypeOK, LoopType
  <2>3. \A v \in Workers \ {w} : batch'[v] = batch[v] /\ cur'[v] = cur[v]
    BY <2>1 DEF Abandon, TypeOK, LoopType
  <2> QED
    BY <1>2, <2>2, <2>3
<1>4. ASSUME NEW w \in Workers, Claim(w) PROVE HeldEntries'
  <2> DEFINE stale == Oldest({e \in idle : StreamOf[e] = turn[w]}, ClaimCount)
  <2>1. \/ batch' = [batch EXCEPT ![w] = stale] /\ cur' = cur
        \/ Abandon(w)
    BY <1>4 DEF Claim
  <2>2. stale \subseteq pel' /\ pel' = pel
    BY <1>4, OldestIsSubset DEF Claim, TypeOK, BusType
  <2> HIDE DEF stale
  <2>3. batch'[w] \subseteq (pel \cup acked)' /\ (cur'[w] = 0 \/ cur'[w] = cur[w])
    BY <2>1, <2>2 DEF Abandon, TypeOK, LoopType
  <2>4. \A v \in Workers \ {w} : batch'[v] = batch[v] /\ cur'[v] = cur[v]
    BY <2>1 DEF Abandon, TypeOK, LoopType
  <2> QED
    BY <1>2, <2>3, <2>4
<1>5. ASSUME NEW w \in Workers, Lock(w) PROVE HeldEntries'
  <2>1. PICK e \in batch[w] : cur' = [cur EXCEPT ![w] = e] /\ batch' = [batch EXCEPT ![w] = @ \ {e}]
    BY <1>5 DEF Lock
  <2>2. batch'[w] \subseteq batch[w] /\ cur'[w] \in batch[w]
        /\ \A v \in Workers \ {w} : batch'[v] = batch[v] /\ cur'[v] = cur[v]
    BY <2>1 DEF TypeOK, LoopType
  <2>3. batch'[w] \subseteq (pel \cup acked)'
    BY <1>1, <2>2 DEF HeldEntries
  <2> QED
    BY <1>2, <2>2, <2>3
<1>6. ASSUME NEW w \in Workers,
             \/ NextStream(w) \/ ClearRetries(w) \/ CountFailure(w) \/ Bury(w) \/ BuryAck(w)
             \/ BuryClear(w) \/ Crash(w)
      PROVE HeldEntries'
  <2>1. \/ UNCHANGED <<batch, cur>>
        \/ batch' = batch /\ cur' = [cur EXCEPT ![w] = 0]
        \/ batch' = [batch EXCEPT ![w] = {}] /\ cur' = [cur EXCEPT ![w] = 0]
    BY <1>6 DEF NextStream, ClearRetries, CountFailure, Bury, BuryAck, BuryClear, Crash, Abandon,
                NextEntry, loop
  <2>2. /\ batch'[w] \subseteq batch[w] /\ (cur'[w] = 0 \/ cur'[w] = cur[w])
        /\ \A v \in Workers \ {w} : batch'[v] = batch[v] /\ cur'[v] = cur[v]
    BY <2>1 DEF TypeOK, LoopType
  <2>3. batch'[w] \subseteq (pel \cup acked)'
    BY <1>1, <2>2 DEF HeldEntries
  <2> QED
    BY <1>2, <2>2, <2>3
<1>7. CASE UNCHANGED <<batch, cur>>
  BY <1>1, <1>7 DEF HeldEntries
<1> QED
  BY <1>3, <1>4, <1>5, <1>6, <1>7
  DEF Next, Step, Publish, Age, LockExpires, ResolveRoute, InsertConversation, PersistInbound,
      RunAgent, PersistOutbound, PublishReply, Finally, Ack, HeartbeatFails, loop, vars

(* Every step of the pool is an operation of the queue or invisible to it. *)
LEMMA StepRefines ==
  ASSUME TypeOK, LoopInv, HeldEntries, [Next]_vars
  PROVE  [Queue!Next]_Queue!vars
<1> SUFFICES ASSUME ~UNCHANGED <<fresh, pel, acked>> PROVE Queue!Next
  BY DEF Queue!vars
<1>1. CASE Publish
  <2>1. arrived \in Nat /\ arrived + 1 \in Entries /\ arrived + 1 \notin 1..arrived
    BY <1>1, WorkerAssumption DEF Publish, TypeOK, BusType, Entries
  <2>2. arrived + 1 \notin fresh \cup pel \cup acked
    BY <2>1 DEF TypeOK, BusType
  <2> QED
    BY <1>1, <2>1, <2>2 DEF Publish, Queue!Next, Queue!Put
<1>2. ASSUME NEW w \in Workers, Consume(w) PROVE Queue!Next
  <2> DEFINE new == Oldest({e \in fresh : StreamOf[e] = turn[w]}, Count)
  <2>1. new \subseteq fresh
    BY OldestIsSubset
  <2>2. acked' = acked
    BY <1>2 DEF Consume
  <2>3. fresh' = fresh \ new /\ pel' = pel \cup new
    BY <1>2, <2>2 DEF Consume, TookEffect
  <2> HIDE DEF new
  <2>4. new # {}
    BY <2>2, <2>3
  <2> QED
    BY <2>1, <2>2, <2>3, <2>4 DEF Queue!Next, Queue!HandOut
<1>3. ASSUME NEW w \in Workers, Ack(w) \/ BuryAck(w) PROVE Queue!Next
  <2>1. cur[w] \in Entries /\ cur[w] \in pel \cup acked
    BY <1>3, BusyOnEntry DEF Ack, BuryAck, HeldEntries, LoopInv
  <2>2. /\ pel' = pel \ {cur[w]} /\ acked' = acked \cup {cur[w]}
        /\ fresh' = fresh
    BY <1>3 DEF Ack, BuryAck, Acknowledge
  <2>3. cur[w] \in pel
    BY <2>1, <2>2
  <2> QED
    BY <2>1, <2>2, <2>3 DEF Queue!Next, Queue!Settle
<1> QED
  BY <1>1, <1>2, <1>3
  DEF Next, Step, Age, LockExpires, Claim, NextStream, Lock, ResolveRoute,
     InsertConversation, PersistInbound, RunAgent, PersistOutbound, PublishReply, Finally,
     ClearRetries, CountFailure, Bury, BuryClear, HeartbeatFails, Crash, bus, vars

(* The pool, with every failure and death, implements the abstract queue:
   an entry is forgotten by no step but its acknowledgement. *)
THEOREM Refinement == Spec => ImplementsQueue
<1>1. Init => Queue!Init /\ HeldEntries
  BY DEF Init, Queue!Init, HeldEntries
<1>2. TypeOK /\ LoopInv /\ HeldEntries /\ [Next]_vars => HeldEntries'
  BY NextHeld
<1>3. TypeOK /\ LoopInv /\ HeldEntries /\ [Next]_vars => [Queue!Next]_Queue!vars
  BY StepRefines
<1> QED
  BY <1>1, <1>2, <1>3, TypeCorrect, PTL DEF Spec, ImplementsQueue, Queue!Spec

-------------------------------------------------------------------------------
(* A step of w leaves the other workers where they are. *)
LEMMA OthersStay ==
  ASSUME TypeOK, NEW w \in Workers, Step(w) \/ HeartbeatFails(w) \/ Crash(w),
         NEW v \in Workers \ {w}
  PROVE  pc'[v] = pc[v] /\ cur'[v] = cur[v] /\ beat'[v] = beat[v]
<1>1. CASE Consume(w) \/ Claim(w) \/ NextStream(w) \/ Lock(w)
  BY ZenonT(30), <1>1 DEF Consume, Claim, NextStream, Lock, Goto, GotoOr, Abandon, loop, TypeOK, LoopType
<1>2. CASE ResolveRoute(w) \/ InsertConversation(w) \/ PersistInbound(w) \/ RunAgent(w)
           \/ PersistOutbound(w) \/ PublishReply(w) \/ Finally(w)
  BY <1>2 DEF ResolveRoute, InsertConversation, PersistInbound, RunAgent, PersistOutbound,
              PublishReply, Finally, Goto, GotoOr, loop, TypeOK, LoopType
<1>3. CASE Ack(w) \/ ClearRetries(w) \/ CountFailure(w) \/ Bury(w) \/ BuryAck(w) \/ BuryClear(w)
  BY <1>3 DEF Ack, ClearRetries, CountFailure, Bury, BuryAck, BuryClear, NextEntry, Abandon, Goto,
              GotoOr, loop, TypeOK, LoopType
<1>4. CASE HeartbeatFails(w) \/ Crash(w)
  BY <1>4 DEF HeartbeatFails, Crash, Abandon, Goto, loop, TypeOK, LoopType
<1> QED
  BY <1>1, <1>2, <1>3, <1>4 DEF Step

(* Workers that have a failed attempt at e to count, or will have: the
   heartbeat of one of them failed. *)
FailedOn(e) ==
  {w \in Workers : cur[w] = e /\ (pc[w] \in {"unwind", "incr"} \/ beat[w] = "failed")}

(* Every failure counted against an entry, and every one still to be counted,
   was a failing call of its own. *)
FailInv ==
  \A e \in Entries : Answerable(e) =>
    /\ retries[e] + Cardinality(FailedOn(e)) <= faults
    /\ \A w \in Workers : cur[w] = e /\ pc[w] = "bury" => faults >= MaxRetries
    /\ deadLetters[e] > 0 => faults >= MaxRetries

LEMMA FailedFinite ==
  ASSUME NEW e
  PROVE  IsFiniteSet(FailedOn(e)) /\ Cardinality(FailedOn(e)) \in Nat
<1>1. FailedOn(e) \subseteq Workers
  BY DEF FailedOn
<1> QED
  BY <1>1, WorkerAssumption, FS_Subset, FS_CardinalityType

(* A step of w moves w only into or out of the workers that failed on e. *)
LEMMA FailedStep ==
  ASSUME TypeOK, NEW w \in Workers, Step(w) \/ HeartbeatFails(w) \/ Crash(w), NEW e
  PROVE  /\ FailedOn(e)' \in {FailedOn(e), FailedOn(e) \cup {w}, FailedOn(e) \ {w}}
         /\ Cardinality(FailedOn(e)') \in Nat
         /\ Cardinality(FailedOn(e)') <= Cardinality(FailedOn(e)) + 1
         /\ (w \in FailedOn(e)' => w \in FailedOn(e)) =>
              Cardinality(FailedOn(e)') <= Cardinality(FailedOn(e))
         /\ w \in FailedOn(e) /\ w \notin FailedOn(e)' =>
              Cardinality(FailedOn(e)') + 1 = Cardinality(FailedOn(e))
<1> DEFINE F == FailedOn(e)
<1>1. \A v \in Workers \ {w} : v \in F' <=> v \in F
  BY OthersStay DEF FailedOn
<1>2. F \subseteq Workers /\ F' \subseteq Workers
  BY DEF FailedOn
<1>3. F' = IF w \in F' THEN F \cup {w} ELSE F \ {w}
  BY <1>1, <1>2
<1>4. IsFiniteSet(F) /\ Cardinality(F) \in Nat
  BY FailedFinite
<1>5. Cardinality(F \cup {w}) = IF w \in F THEN Cardinality(F) ELSE Cardinality(F) + 1
  BY <1>4, FS_AddElement
<1>6. /\ Cardinality(F \ {w}) = IF w \in F THEN Cardinality(F) - 1 ELSE Cardinality(F)
      /\ IsFiniteSet(F \ {w})
  BY <1>4, FS_RemoveElement
<1>7. Cardinality(F \ {w}) \in Nat
  BY <1>6, FS_CardinalityType
<1>8. CASE w \in F'
  <2>1. F' = F \cup {w}
    BY <1>3, <1>8
  <2> HIDE DEF F
  <2>2. /\ Cardinality(F') \in Nat /\ Cardinality(F') <= Cardinality(F) + 1
        /\ w \in F => Cardinality(F') <= Cardinality(F)
    BY <1>4, <1>5, <2>1
  <2> QED
    BY <1>8, <2>1, <2>2 DEF F
<1>9. CASE w \notin F'
  <2>1. F' = F \ {w}
    BY <1>3, <1>9
  <2> HIDE DEF F
  <2>2. /\ Cardinality(F') \in Nat /\ Cardinality(F') <= Cardinality(F)
        /\ w \in F => Cardinality(F') + 1 = Cardinality(F)
    BY <1>4, <1>6, <1>7, <2>1
  <2>3. Cardinality(F') <= Cardinality(F) + 1
    BY <1>4, <2>2
  <2> QED
    BY <1>9, <2>1, <2>2, <2>3 DEF F
<1> QED
  BY <1>8, <1>9

(* Only counting a failure adds to a counter or sends to the burial; anything
   else that makes w fail on an answerable entry is a failing call. *)
LEMMA FailureIsFault ==
  ASSUME TypeOK, LoopInv, NEW w \in Workers, Step(w) \/ HeartbeatFails(w) \/ Crash(w),
         ~CountFailure(w), NEW e \in Entries, Answerable(e)
  PROVE  /\ retries'[e] <= retries[e] /\ retries'[e] \in Nat
         /\ faults' = faults \/ faults' = faults + 1
         /\ faults' = faults /\ w \in FailedOn(e)' => w \in FailedOn(e)
         /\ pc'[w] # "bury"
<1>0. /\ pc[w] \in Labels /\ cur[w] \in 0..arrived /\ w \in DOMAIN pc /\ w \in DOMAIN cur
      /\ w \in DOMAIN beat /\ retries \in [Entries -> Nat] /\ faults \in Nat
  BY WorkerAssumption DEF TypeOK, LoopType, StoreType, HistoryType
<1>1. faults' = faults \/ faults' = faults + 1
  BY DEF Step, Consume, Claim, NextStream, Lock, ResolveRoute, InsertConversation, PersistInbound,
     RunAgent, PersistOutbound, PublishReply, Finally, Ack, ClearRetries, CountFailure, Bury,
     BuryAck, BuryClear, HeartbeatFails, Crash, Ends
<1>2. retries'[e] <= retries[e] /\ retries'[e] \in Nat
  <2>1. retries' = retries \/ retries' = [retries EXCEPT ![cur[w]] = 0]
    BY DEF Step, Consume, Claim, NextStream, Lock, ResolveRoute, InsertConversation, PersistInbound,
       RunAgent, PersistOutbound, PublishReply, Finally, Ack, ClearRetries, Bury,
       BuryAck, BuryClear, HeartbeatFails, Crash
  <2> QED
    BY <1>0, <2>1
<1>3. beat[w] = "none" <=> pc[w] \notin Section
  BY DEF LoopInv, InSection
<1>4. CASE Consume(w) \/ Claim(w) \/ NextStream(w) \/ Lock(w)
  <2>1. pc[w] \in {"consume", "pick"}
    BY <1>4 DEF Consume, Claim, NextStream, Lock
  <2>2. beat'[w] # "failed"
    BY <1>0, <1>3, <1>4, <2>1 DEF Consume, Claim, NextStream, Lock, Section
  <2>3. pc'[w] \in {"consume", "pick", "ack", "route", "incr"}
    BY <1>0, <1>4, <2>1 DEF Consume, Claim, NextStream, Lock, Goto, GotoOr, Abandon
  <2>4. faults' = faults => pc'[w] # "incr"
    <3>1. CASE Lock(w)
      <4>1. PICK r \in Results : Ends(r) /\ (GotoOr(w, r, "ack", "incr") \/ GotoOr(w, r, "route", "incr"))
        BY <3>1 DEF Lock
      <4>2. faults' = faults => r = "ok"
        BY <1>0, <4>1 DEF Ends
      <4> QED
        BY <1>0, <4>1, <4>2 DEF GotoOr, Goto
    <3>2. CASE ~Lock(w)
      BY <1>0, <1>4, <2>1, <3>2 DEF Consume, Claim, NextStream, Goto, Abandon
    <3> QED
      BY <3>1, <3>2
  <2> QED
    BY <1>1, <1>2, <2>2, <2>3, <2>4 DEF FailedOn
<1>5. CASE ResolveRoute(w)
  <2>1. cur' = cur /\ beat' = beat
    BY <1>5 DEF ResolveRoute, loop
  <2>2. pc'[w] \in {"unwind", "cleanup", "insert", "persistIn"}
    BY <1>0, <1>5 DEF ResolveRoute, Goto
  <2>3. faults' = faults /\ cur[w] = e => pc'[w] # "unwind"
    BY <1>0, <1>5 DEF ResolveRoute, Goto, Ends, Answerable
  <2> QED
    BY <1>1, <1>2, <2>1, <2>2, <2>3 DEF FailedOn
<1>6. CASE InsertConversation(w) \/ PersistInbound(w) \/ RunAgent(w) \/ PersistOutbound(w)
           \/ PublishReply(w)
  <2>1. cur' = cur /\ beat' = beat
    BY <1>6 DEF InsertConversation, PersistInbound, RunAgent, PersistOutbound, PublishReply, loop
  <2>2. /\ pc'[w] \in {"unwind", "persistIn", "agent", "persistOut", "publish", "cleanup"}
        /\ faults' = faults => pc'[w] # "unwind"
    BY <1>0, <1>6 DEF InsertConversation, PersistInbound, RunAgent, PersistOutbound, PublishReply,
       Goto, GotoOr, Ends
  <2> QED
    BY <1>1, <1>2, <2>1, <2>2 DEF FailedOn
<1>7. CASE Finally(w)
  <2>1. cur' = cur /\ beat'[w] = "none" /\ pc'[w] \in {"ack", "incr"}
    BY <1>0, <1>7 DEF Finally, Goto, loop
  <2>2. faults' = faults /\ pc'[w] = "incr" => pc[w] = "unwind" \/ beat[w] = "failed"
    BY <1>0, <1>7 DEF Finally, Goto, Ends
  <2> QED
    BY <1>1, <1>2, <2>1, <2>2 DEF FailedOn
<1>8. CASE Ack(w) \/ ClearRetries(w) \/ Bury(w) \/ BuryAck(w) \/ BuryClear(w)
  <2>1. pc[w] \in {"ack", "clear", "bury", "buryAck", "buryClear"} /\ beat' = beat
    BY <1>8 DEF Ack, ClearRetries, Bury, BuryAck, BuryClear
  <2>2. beat'[w] # "failed"
    BY <1>3, <2>1 DEF Section
  <2>3. /\ pc'[w] \in {"clear", "incr", "pick", "consume", "buryAck", "buryClear"}
        /\ faults' = faults => pc'[w] # "incr"
    BY <1>0, <1>8 DEF Ack, ClearRetries, Bury, BuryAck, BuryClear, Goto, GotoOr, NextEntry, Abandon, Ends
  <2> QED
    BY <1>1, <1>2, <2>2, <2>3 DEF FailedOn
<1>9. CASE HeartbeatFails(w)
  <2>1. pc' = pc /\ pc[w] \in Section /\ faults' = faults + 1
    BY <1>9 DEF HeartbeatFails, Beats, InSection
  <2> QED
    BY <1>0, <1>1, <1>2, <2>1 DEF Section
<1>10. CASE Crash(w)
  <2>1. pc'[w] = "consume" /\ beat'[w] = "none"
    BY <1>0, <1>10 DEF Crash, Abandon, Goto
  <2> QED
    BY <1>1, <1>2, <2>1 DEF FailedOn
<1> QED
  BY <1>4, <1>5, <1>6, <1>7, <1>8, <1>9, <1>10 DEF Step

LEMMA FailInductive ==
  ASSUME TypeOK, LoopInv, FailInv, [Next]_vars PROVE FailInv'
<1> SUFFICES ASSUME NEW e \in Entries, Answerable(e)
             PROVE  /\ retries'[e] + Cardinality(FailedOn(e)') <= faults'
                    /\ \A v \in Workers : cur'[v] = e /\ pc'[v] = "bury" => faults' >= MaxRetries
                    /\ deadLetters'[e] > 0 => faults' >= MaxRetries
  BY DEF FailInv, Answerable
<1> DEFINE F == FailedOn(e)
<1>1. /\ retries \in [Entries -> Nat] /\ deadLetters \in [Entries -> Nat]
      /\ retries[e] \in Nat /\ deadLetters[e] \in Nat
      /\ faults \in Nat /\ MaxRetries \in Nat /\ Cardinality(F) \in Nat
      /\ retries[e] + Cardinality(F) <= faults
  BY FailedFinite, WorkerAssumption DEF TypeOK, StoreType, HistoryType, FailInv
<1>2. ASSUME NEW w \in Workers, CountFailure(w)
      PROVE  /\ retries'[e] + Cardinality(FailedOn(e)') <= faults'
             /\ \A v \in Workers : cur'[v] = e /\ pc'[v] = "bury" => faults' >= MaxRetries
             /\ deadLetters'[e] > 0 => faults' >= MaxRetries
  <2>1. Step(w)
    BY <1>2 DEF Step
  <2>2. \A v \in Workers \ {w} : pc'[v] = pc[v] /\ cur'[v] = cur[v]
    BY <2>1, OthersStay
  <2>3. pc[w] = "incr" /\ deadLetters' = deadLetters /\ beat' = beat /\ beat[w] = "none"
    BY <1>2 DEF CountFailure, LoopInv, InSection, Section
  <2>4. w \in DOMAIN pc /\ w \in DOMAIN cur
    BY DEF TypeOK, LoopType
  <2>5. PICK r \in Results :
          /\ Ends(r)
          /\ retries' = IF TookEffect(r) THEN [retries EXCEPT ![cur[w]] = @ + 1] ELSE retries
          /\ IF r # "ok" THEN Abandon(w)
             ELSE IF retries[cur[w]] + 1 >= MaxRetries THEN Goto(w, "bury") /\ UNCHANGED loop
             ELSE NextEntry(w)
    BY <1>2 DEF CountFailure
  <2>6. /\ faults' = IF r = "ok" THEN faults ELSE faults + 1
        /\ pc'[w] \in {"consume", "bury", "pick"}
        /\ pc'[w] = "bury" => r = "ok" /\ cur' = cur /\ retries[cur[w]] + 1 >= MaxRetries
    BY <2>4, <2>5 DEF Ends, Abandon, Goto, NextEntry, loop
  <2>7. w \notin FailedOn(e)' /\ (cur[w] = e => w \in F)
    BY <2>3, <2>6 DEF FailedOn
  <2>8. /\ Cardinality(FailedOn(e)') \in Nat
        /\ Cardinality(FailedOn(e)') <= Cardinality(F)
        /\ cur[w] = e => Cardinality(FailedOn(e)') + 1 = Cardinality(F)
    BY <2>1, <2>7, FailedStep
  <2>9. retries'[e] \in Nat /\ retries'[e] <= (IF cur[w] = e THEN retries[e] + 1 ELSE retries[e])
    BY <1>1, <2>5
  <2>10. retries'[e] + Cardinality(FailedOn(e)') <= faults'
    BY <1>1, <2>6, <2>8, <2>9
  <2>11. cur'[w] = e /\ pc'[w] = "bury" => faults' >= MaxRetries
    BY <1>1, <2>6, <2>8
  <2> QED
    BY <1>1, <2>2, <2>3, <2>6, <2>10, <2>11 DEF FailInv
<1>3. ASSUME NEW w \in Workers, Step(w) \/ HeartbeatFails(w) \/ Crash(w), ~CountFailure(w)
      PROVE  /\ retries'[e] + Cardinality(FailedOn(e)') <= faults'
             /\ \A v \in Workers : cur'[v] = e /\ pc'[v] = "bury" => faults' >= MaxRetries
             /\ deadLetters'[e] > 0 => faults' >= MaxRetries
  <2>1. /\ retries'[e] <= retries[e] /\ retries'[e] \in Nat
        /\ faults' = faults \/ faults' = faults + 1
        /\ faults' = faults /\ w \in FailedOn(e)' => w \in F
        /\ pc'[w] # "bury"
    BY <1>3, FailureIsFault
  <2>2. /\ Cardinality(FailedOn(e)') \in Nat
        /\ Cardinality(FailedOn(e)') <= Cardinality(F) + 1
        /\ faults' = faults => Cardinality(FailedOn(e)') <= Cardinality(F)
    BY <1>3, <2>1, FailedStep
  <2>3. retries'[e] + Cardinality(FailedOn(e)') <= faults'
    BY <1>1, <2>1, <2>2
  <2>4. \A v \in Workers : cur'[v] = e /\ pc'[v] = "bury" => faults' >= MaxRetries
    BY <1>1, <1>3, <2>1, OthersStay DEF FailInv
  <2>5. deadLetters'[e] > 0 => deadLetters[e] > 0 \/ (pc[w] = "bury" /\ cur[w] = e)
    <3>1. \/ deadLetters' = deadLetters
          \/ pc[w] = "bury" /\ deadLetters' = [deadLetters EXCEPT ![cur[w]] = @ + 1]
      BY <1>3 DEF Step, Consume, Claim, NextStream, Lock, ResolveRoute, InsertConversation,
         PersistInbound, RunAgent, PersistOutbound, PublishReply, Finally, Ack, ClearRetries, Bury,
         BuryAck, BuryClear, HeartbeatFails, Crash
    <3> QED
      BY <1>1, <3>1
  <2> QED
    BY <1>1, <2>1, <2>3, <2>4, <2>5 DEF FailInv
<1>4. CASE Publish \/ (\E f \in Entries : Age(f)) \/ (\E k \in Keys : LockExpires(k)) \/ UNCHANGED vars
  <2>1. UNCHANGED <<pc, cur, beat, retries, deadLetters, faults>>
    BY <1>4 DEF Publish, Age, LockExpires, loop, vars
  <2>2. F' = F
    BY <2>1 DEF FailedOn
  <2> QED
    BY <1>1, <2>1, <2>2 DEF FailInv
<1> QED
  BY <1>2, <1>3, <1>4 DEF Next

(* An entry that process() can answer or ignore is dead-lettered only after
   worker_max_retries calls failed, whoever drops, reclaims or loses it in
   between and however many workers count against it. *)
THEOREM DeadLettersEarned == Spec => []DeadLetterNeedsFailures
<1>1. Init => FailInv
  <2> SUFFICES ASSUME Init, NEW e \in Entries
               PROVE  /\ retries[e] + Cardinality(FailedOn(e)) <= faults
                      /\ \A w \in Workers : ~(pc[w] = "bury")
                      /\ ~(deadLetters[e] > 0)
    BY DEF FailInv
  <2>1. FailedOn(e) = {}
    BY DEF Init, FailedOn
  <2> QED
    BY <2>1, FS_EmptySet DEF Init
<1>2. FailInv => DeadLetterNeedsFailures
  BY DEF FailInv, DeadLetterNeedsFailures
<1>3. (TypeOK /\ LoopInv) /\ FailInv /\ [Next]_vars => FailInv'
  BY FailInductive
<1> QED
  BY <1>1, <1>2, <1>3, TypeCorrect, PTL DEF Spec
-------------------------------------------------------------------------------
(* What AckedIsHandled asks of an acknowledged entry. *)
Handled(e) == Answerable(e) => Settled(e) \/ \E w \in Workers : InSection(w) /\ cur[w] = e

(* Before the first failure or death: a lock that is held has a live worker
   behind it, a worker comes to its acknowledgement only with an entry that has
   its outcome, and fails only on entries that cannot be answered. *)
HealthyInv ==
  faults = 0 /\ crashes = 0 =>
    /\ \A k \in Keys : locks[k] = "held" => \E w \in Workers : Beats(w) /\ OnKey(w, k)
    /\ \A w \in Workers :
         /\ beat[w] # "failed"
         /\ pc[w] = "cleanup" => Settled(cur[w])
         /\ pc[w] \in {"unwind"} \cup Failing => ~Answerable(cur[w])
         /\ pc[w] = "ack" => Handled(cur[w])
    /\ \A e \in acked : Handled(e)

(* No step takes an outcome away. *)
LEMMA SettledStays ==
  ASSUME TypeOK, LoopInv, [Next]_vars, NEW e \in Entries, Settled(e)
  PROVE  Settled(e)'
<1>1. /\ replies \in [Entries -> Nat] /\ deadLetters \in [Entries -> Nat]
      /\ replies[e] \in Nat /\ deadLetters[e] \in Nat
  BY DEF TypeOK, StoreType
<1>2. replies' = replies \/ \E w \in Workers : replies' = [replies EXCEPT ![cur[w]] = @ + 1]
  BY DEF Next, Publish, Age, LockExpires, Step, Consume, Claim, NextStream, Lock, ResolveRoute,
     InsertConversation, PersistInbound, RunAgent, PersistOutbound, PublishReply, Finally, Ack,
     ClearRetries, CountFailure, Bury, BuryAck, BuryClear, HeartbeatFails, Crash, rows, vars
<1>3. deadLetters' = deadLetters
      \/ \E w \in Workers : deadLetters' = [deadLetters EXCEPT ![cur[w]] = @ + 1]
  BY SMTT(30) DEF Next, Publish, Age, LockExpires, Step, Consume, Claim, NextStream, Lock, ResolveRoute,
     InsertConversation, PersistInbound, RunAgent, PersistOutbound, PublishReply, Finally, Ack,
     ClearRetries, CountFailure, Bury, BuryAck, BuryClear, HeartbeatFails, Crash, vars
<1>4. coalesced \subseteq coalesced' /\ ignored \subseteq ignored'
  BY SMTT(30) DEF Next, Publish, Age, LockExpires, Step, Consume, Claim, NextStream, Lock, ResolveRoute,
     InsertConversation, PersistInbound, RunAgent, PersistOutbound, PublishReply, Finally, Ack,
     ClearRetries, CountFailure, Bury, BuryAck, BuryClear, HeartbeatFails, Crash, history, vars
<1>5. replies[e] > 0 => replies'[e] > 0
  BY <1>1, <1>2
<1>6. deadLetters[e] > 0 => deadLetters'[e] > 0
  BY <1>1, <1>3
<1> QED
  BY <1>4, <1>5, <1>6 DEF Settled

(* A step of w while nothing fails: the next await of w, and what it has found
   out or done on the way there. *)
LEMMA HealthyStep ==
  ASSUME TypeOK, LoopInv, NEW w \in Workers, Step(w), faults' = faults, beat[w] # "failed"
  PROVE  /\ pc[w] \in Section => cur'[w] = cur[w]
         /\ pc[w] \in Section =>
              \/ pc[w] \notin {"cleanup", "unwind"} /\ pc'[w] \in Section /\ beat'[w] = beat[w]
                 /\ locks' = locks
              \/ pc[w] \in {"cleanup", "unwind"}
                 /\ pc'[w] = (IF pc[w] = "cleanup" THEN "ack" ELSE "incr")
                 /\ beat'[w] = "none" /\ locks' = [locks EXCEPT ![KeyOf[cur[w]]] = "free"]
         /\ pc'[w] = "cleanup" => cur'[w] = cur[w] /\ Settled(cur[w])'
         /\ pc'[w] = "unwind" => cur'[w] = cur[w] /\ ~Answerable(cur[w])
         /\ pc'[w] \in Failing =>
              cur'[w] = cur[w] /\ pc[w] \in {"unwind"} \cup Failing
         /\ pc'[w] = "ack" => pc[w] \in {"cleanup", "pick"}
         /\ beat'[w] # "failed"
<1>0. /\ pc[w] \in Labels /\ cur[w] \in 0..arrived /\ w \in DOMAIN pc /\ w \in DOMAIN cur
      /\ w \in DOMAIN beat /\ faults \in Nat
  BY WorkerAssumption DEF TypeOK, LoopType, HistoryType
<1>1. \A r \in Results : Ends(r) => r = "ok"
  BY <1>0 DEF Ends
<1>2. CASE Consume(w) \/ Claim(w) \/ NextStream(w)
  <2>1. pc[w] \in {"consume", "pick"} /\ beat' = beat /\ pc'[w] \in {"consume", "pick"}
    BY <1>0, <1>2 DEF Consume, Claim, NextStream, Goto, Abandon
  <2> QED
    BY <2>1 DEF Section, Failing
<1>3. CASE Lock(w)
  <2>1. PICK r \in Results :
          /\ Ends(r)
          /\ \/ GotoOr(w, r, "ack", "incr") /\ UNCHANGED beat
             \/ GotoOr(w, r, "route", "incr")
                /\ beat' = IF r = "ok" THEN [beat EXCEPT ![w] = "alive"] ELSE beat
    BY <1>3 DEF Lock
  <2>2. pc[w] = "pick" /\ pc'[w] \in {"ack", "route"} /\ beat'[w] # "failed"
    BY <1>0, <1>1, <1>3, <2>1 DEF Lock, GotoOr, Goto
  <2> QED
    BY <2>2 DEF Section, Failing
<1>4. CASE ResolveRoute(w)
  <2>1. PICK r \in Results :
          /\ Ends(r)
          /\ IF r # "ok" \/ ~LlmEnabled \/ RouteOf[cur[w]] = "none"
             THEN Goto(w, "unwind") /\ UNCHANGED ignored
             ELSE IF RouteOf[cur[w]] = "blocked"
             THEN Goto(w, "cleanup") /\ ignored' = ignored \cup {cur[w]}
             ELSE /\ Goto(w, IF convs[ChatOf[cur[w]]] = 0 THEN "insert" ELSE "persistIn")
                  /\ UNCHANGED ignored
    BY <1>4 DEF ResolveRoute
  <2>2. pc[w] = "route" /\ cur' = cur /\ beat' = beat /\ locks' = locks
    BY <1>4 DEF ResolveRoute, loop
  <2>3. pc'[w] \in {"unwind", "cleanup", "insert", "persistIn"}
    BY <1>0, <2>1 DEF Goto
  <2>4. pc'[w] = "unwind" => ~Answerable(cur[w])
    BY <1>0, <1>1, <2>1 DEF Goto, Answerable
  <2>5. pc'[w] = "cleanup" => Settled(cur[w])'
    BY <1>0, <2>1, <2>2 DEF Goto, Settled
  <2> QED
    BY <2>2, <2>3, <2>4, <2>5 DEF Section, Failing
<1>5. CASE InsertConversation(w) \/ PersistInbound(w) \/ RunAgent(w) \/ PersistOutbound(w)
  <2>1. cur' = cur /\ beat' = beat /\ locks' = locks
    BY <1>5 DEF InsertConversation, PersistInbound, RunAgent, PersistOutbound, loop
  <2>2. /\ pc[w] \in {"insert", "persistIn", "agent", "persistOut"}
        /\ pc'[w] \in {"persistIn", "agent", "persistOut", "publish"}
    BY <1>0, <1>1, <1>5 DEF InsertConversation, PersistInbound, RunAgent, PersistOutbound, GotoOr, Goto
  <2> QED
    BY <2>1, <2>2 DEF Section, Failing
<1>6. CASE PublishReply(w)
  <2>1. cur' = cur /\ beat' = beat /\ locks' = locks /\ pc[w] = "publish" /\ cur[w] \in Entries
    BY <1>6, BusyOnEntry DEF PublishReply, loop
  <2>2. pc'[w] = "cleanup" /\ replies' = [replies EXCEPT ![cur[w]] = @ + 1]
    BY <1>0, <1>1, <1>6 DEF PublishReply, GotoOr, Goto, TookEffect
  <2>3. replies'[cur[w]] > 0
    BY <2>1, <2>2 DEF TypeOK, StoreType
  <2>4. Settled(cur[w])'
    BY <2>1, <2>3 DEF Settled
  <2> QED
    BY <2>1, <2>2, <2>4 DEF Section, Failing
<1>7. CASE Finally(w)
  <2>1. PICK r \in Results :
          /\ Ends(r)
          /\ Goto(w, IF r = "ok" /\ pc[w] = "cleanup" THEN "ack" ELSE "incr")
          /\ locks' = IF TookEffect(r) THEN [locks EXCEPT ![KeyOf[cur[w]]] = "free"] ELSE locks
    BY <1>7 DEF Finally
  <2>2. pc[w] \in {"cleanup", "unwind"} /\ cur' = cur /\ beat'[w] = "none"
    BY <1>0, <1>7 DEF Finally, loop
  <2>3. /\ pc'[w] = (IF pc[w] = "cleanup" THEN "ack" ELSE "incr")
        /\ locks' = [locks EXCEPT ![KeyOf[cur[w]]] = "free"]
    BY <1>0, <1>1, <2>1 DEF Goto, TookEffect
  <2> QED
    BY <2>2, <2>3 DEF Section, Failing
<1>8. CASE Ack(w) \/ ClearRetries(w)
  <2>1. pc[w] \in {"ack", "clear"} /\ beat' = beat /\ pc'[w] \in {"clear", "pick"}
    BY <1>0, <1>1, <1>8 DEF Ack, ClearRetries, GotoOr, Goto, NextEntry
  <2> QED
    BY <2>1 DEF Section, Failing
<1>9. CASE CountFailure(w) \/ Bury(w) \/ BuryAck(w) \/ BuryClear(w)
  <2>1. pc[w] \in Failing /\ beat' = beat
    BY <1>9 DEF CountFailure, Bury, BuryAck, BuryClear, Failing
  <2>2. \/ pc'[w] = "pick"
        \/ pc'[w] \in Failing /\ cur' = cur
    BY <1>0, <1>1, <1>9 DEF CountFailure, Bury, BuryAck, BuryClear, Goto, NextEntry, loop, Failing
  <2> QED
    BY <2>1, <2>2 DEF Section, Failing
<1> QED
  BY <1>2, <1>3, <1>4, <1>5, <1>6, <1>7, <1>8, <1>9 DEF Step

(* While nothing fails, an entry that is handled stays so: its worker leaves
   the section with the outcome, or because there is none to have. *)
LEMMA HandledStays ==
  ASSUME TypeOK, LoopInv, HealthyInv, [Next]_vars, faults = 0, crashes = 0, faults' = 0, crashes' = 0,
         NEW e \in Entries, Handled(e)
  PROVE  Handled(e)'
<1> SUFFICES ASSUME Answerable(e) PROVE Settled(e)' \/ \E w \in Workers : InSection(w)' /\ cur'[w] = e
  BY DEF Handled, Answerable
<1>1. CASE Settled(e)
  BY <1>1, SettledStays
<1>2. ASSUME NEW w \in Workers, InSection(w), cur[w] = e
      PROVE  Settled(e)' \/ \E v \in Workers : InSection(v)' /\ cur'[v] = e
  <2>1. ASSUME Step(w) PROVE Settled(e)' \/ (InSection(w)' /\ cur'[w] = e)
    <3>1. beat[w] # "failed" /\ (pc[w] = "cleanup" => Settled(e)) /\ (pc[w] = "unwind" => ~Answerable(e))
      BY <1>2 DEF HealthyInv
    <3>2. pc[w] # "unwind" /\ (pc[w] = "cleanup" => Settled(e)')
      BY <3>1, SettledStays
    <3>3. pc[w] # "cleanup" => pc'[w] \in Section /\ cur'[w] = cur[w]
      BY <1>2, <2>1, <3>1, <3>2, HealthyStep DEF InSection
    <3> QED
      BY <1>2, <3>2, <3>3 DEF InSection
  <2>2. CASE \E v \in Workers : v # w /\ Step(v)
    <3>1. pc'[w] = pc[w] /\ cur'[w] = cur[w]
      BY <2>2, OthersStay
    <3> QED
      BY <1>2, <3>1 DEF InSection
  <2>3. CASE UNCHANGED <<pc, cur>>
    BY <1>2, <2>3 DEF InSection
  <2>4. ASSUME NEW v \in Workers, HeartbeatFails(v) \/ Crash(v) PROVE FALSE
    BY <2>4 DEF HeartbeatFails, Crash
  <2> QED
    BY <2>1, <2>2, <2>3, <2>4 DEF Next, Publish, Age, LockExpires, loop, vars
<1> QED
  BY <1>1, <1>2 DEF Handled

LEMMA HealthyInductive ==
  ASSUME TypeOK, LoopInv, HealthyInv, [Next]_vars PROVE HealthyInv'
<1> SUFFICES ASSUME faults' = 0, crashes' = 0
             PROVE  /\ \A k \in Keys : locks'[k] = "held" => \E v \in Workers : Beats(v)' /\ OnKey(v, k)'
                    /\ \A v \in Workers :
                         /\ beat'[v] # "failed"
                         /\ pc'[v] = "cleanup" => Settled(cur[v])'
                         /\ pc'[v] \in {"unwind"} \cup Failing => ~Answerable(cur'[v])
                         /\ pc'[v] = "ack" => Handled(cur[v])'
                    /\ \A e \in acked' : Handled(e)'
  BY DEF HealthyInv, Keys, Answerable
<1>1. faults = 0 /\ crashes = 0
  <2>1. faults' = faults \/ faults' = faults + 1
    <3>1. ASSUME NEW w \in Workers, Step(w) PROVE faults' = faults \/ faults' = faults + 1
      BY <3>1 DEF Step, Consume, Claim, NextStream, Lock, ResolveRoute, InsertConversation,
         PersistInbound, RunAgent, PersistOutbound, PublishReply, Finally, Ack, ClearRetries,
         CountFailure, Bury, BuryAck, BuryClear, Ends
    <3>2. ASSUME NEW w \in Workers, HeartbeatFails(w) \/ Crash(w)
          PROVE  faults' = faults \/ faults' = faults + 1
      BY <3>2 DEF HeartbeatFails, Crash
    <3>3. CASE Publish \/ (\E e \in Entries : Age(e)) \/ (\E k \in Keys : LockExpires(k)) \/ UNCHANGED vars
      BY <3>3 DEF Publish, Age, LockExpires, vars
    <3> QED
      BY <3>1, <3>2, <3>3 DEF Next
  <2>2. crashes' \in {crashes, crashes + 1}
    BY DEF Next, Publish, Age, LockExpires, Step, Consume, Claim, NextStream, Lock, ResolveRoute,
       InsertConversation, PersistInbound, RunAgent, PersistOutbound, PublishReply, Finally, Ack,
       ClearRetries, CountFailure, Bury, BuryAck, BuryClear, HeartbeatFails, Crash, vars
  <2> QED
    BY <2>1, <2>2, WorkerAssumption DEF TypeOK, HistoryType
<1>2. \A e \in Entries : (Handled(e) => Handled(e)') /\ (Settled(e) => Settled(e)')
  BY <1>1, HandledStays, SettledStays
<1>3. /\ \A k \in Keys : locks[k] = "held" => \E v \in Workers : Beats(v) /\ OnKey(v, k)
      /\ \A v \in Workers :
           /\ beat[v] # "failed"
           /\ pc[v] = "cleanup" => Settled(cur[v])
           /\ pc[v] \in {"unwind"} \cup Failing => ~Answerable(cur[v])
           /\ pc[v] = "ack" => Handled(cur[v])
      /\ \A e \in acked : Handled(e)
  BY <1>1 DEF HealthyInv
<1>4. acked \subseteq Entries /\ acked' \subseteq Entries
  <2>1. TypeOK'
    BY NextType
  <2> QED
    BY <2>1, WorkerAssumption DEF TypeOK, BusType, Entries
<1>5. ASSUME NEW v \in Workers, pc'[v] = pc[v], cur'[v] = cur[v], beat'[v] = beat[v]
      PROVE  /\ beat'[v] # "failed"
             /\ pc'[v] = "cleanup" => Settled(cur[v])'
             /\ pc'[v] \in {"unwind"} \cup Failing => ~Answerable(cur'[v])
             /\ pc'[v] = "ack" => Handled(cur[v])'
  <2>1. pc[v] \notin {"consume", "pick"} => cur[v] \in Entries
    BY BusyOnEntry
  <2>2. PICK e : e = cur[v]
    OBVIOUS
  <2>3. /\ pc[v] = "cleanup" => Settled(e)'
        /\ pc[v] = "ack" => Handled(e)'
    BY <1>2, <1>3, <2>1, <2>2
  <2>4. cur'[v] = e
    BY <1>5, <2>2
  <2>5. Settled(cur[v])' = Settled(e)' /\ Handled(cur[v])' = Handled(e)'
    BY <2>4 DEF Settled, Handled, Answerable
  <2> QED
    BY <1>3, <1>5, <2>2, <2>3, <2>4, <2>5
<1>6. ASSUME NEW w \in Workers, Step(w)
      PROVE  /\ \A k \in Keys : locks'[k] = "held" => \E v \in Workers : Beats(v)' /\ OnKey(v, k)'
             /\ \A v \in Workers :
                  /\ beat'[v] # "failed"
                  /\ pc'[v] = "cleanup" => Settled(cur[v])'
                  /\ pc'[v] \in {"unwind"} \cup Failing => ~Answerable(cur'[v])
                  /\ pc'[v] = "ack" => Handled(cur[v])'
             /\ \A e \in acked' : Handled(e)'
  <2>1. \A v \in Workers \ {w} : pc'[v] = pc[v] /\ cur'[v] = cur[v] /\ beat'[v] = beat[v]
    BY <1>6, OthersStay
  <2>2. PICK e : e = cur'[w]
    OBVIOUS
  <2>3. Settled(cur[w])' = Settled(e)' /\ Handled(cur[w])' = Handled(e)'
    BY <2>2 DEF Settled, Handled, Answerable
  <2>4. CASE Lock(w)
    <3>1. /\ pc[w] = "pick" /\ e \in batch[w] /\ e \in Entries /\ cur' = [cur EXCEPT ![w] = e]
          /\ acked' = acked
          /\ IF locks[KeyOf[e]] = "held"
             THEN /\ pc' = [pc EXCEPT ![w] = "ack"] /\ UNCHANGED <<locks, beat>>
                  /\ coalesced' = IF Elsewhere(e) THEN coalesced \cup {e} ELSE coalesced
             ELSE /\ pc' = [pc EXCEPT ![w] = "route"]
                  /\ locks' = [locks EXCEPT ![KeyOf[e]] = "held"]
                  /\ beat' = [beat EXCEPT ![w] = "alive"]
      <4>1. PICK f \in batch[w] :
              /\ cur' = [cur EXCEPT ![w] = f]
              /\ \E r \in Results :
                   /\ Ends(r)
                   /\ IF locks[KeyOf[f]] = "held"
                      THEN /\ GotoOr(w, r, "ack", "incr")
                           /\ coalesced' = IF r = "ok" /\ Elsewhere(f) THEN coalesced \cup {f}
                                           ELSE coalesced
                           /\ UNCHANGED <<locks, beat>>
                      ELSE /\ GotoOr(w, r, "route", "incr")
                           /\ locks' = IF TookEffect(r) THEN [locks EXCEPT ![KeyOf[f]] = "held"]
                                       ELSE locks
                           /\ beat' = IF r = "ok" THEN [beat EXCEPT ![w] = "alive"] ELSE beat
        BY <2>4 DEF Lock
      <4>2. f = e /\ e \in Entries
        BY <2>2, <4>1, WorkerAssumption DEF TypeOK, LoopType, BusType, Entries
      <4>3. \A r \in Results : Ends(r) => r = "ok"
        BY <1>1 DEF Ends
      <4>4. acked' = acked /\ pc[w] = "pick"
        BY <2>4 DEF Lock, bus
      <4> QED
        BY <4>1, <4>2, <4>3, <4>4 DEF GotoOr, Goto, TookEffect
    <3>2. /\ w \in DOMAIN pc /\ w \in DOMAIN beat /\ locks \in [Keys -> {"free", "held"}]
          /\ KeyOf[e] \in Keys /\ beat[w] # "failed" /\ ~InSection(w) /\ ~Beats(w)
      BY <1>3, <3>1 DEF TypeOK, LoopType, StoreType, Keys, Beats, InSection, Section
    <3>3. \A k \in Keys : \A v \in Workers : Beats(v) /\ OnKey(v, k) => Beats(v)' /\ OnKey(v, k)'
      BY <2>1, <3>2 DEF Beats, InSection, OnKey
    <3>4. \A k \in Keys : locks'[k] = "held" => \E v \in Workers : Beats(v)' /\ OnKey(v, k)'
      <4>1. CASE locks' = locks
        BY <1>3, <3>3, <4>1
      <4>2. CASE locks[KeyOf[e]] # "held"
        <5>1. Beats(w)' /\ OnKey(w, KeyOf[e])'
          BY <2>2, <3>1, <3>2, <4>2 DEF Beats, InSection, Section, OnKey
        <5>2. \A k \in Keys : locks'[k] = "held" => locks[k] = "held" \/ k = KeyOf[e]
          BY <3>1, <3>2, <4>2
        <5> QED
          BY <1>3, <3>3, <5>1, <5>2
      <4> QED
        BY <3>1, <4>1, <4>2
    <3>5. pc'[w] = "ack" => Handled(e)'
      <4> SUFFICES ASSUME pc'[w] = "ack" PROVE Handled(e)'
        OBVIOUS
      <4>1. locks[KeyOf[e]] = "held"
        BY <3>1, <3>2
      <4>2. PICK v \in Workers : Beats(v) /\ OnKey(v, KeyOf[e])
        BY <1>3, <3>2, <4>1
      <4>3. v # w /\ pc'[v] = pc[v] /\ cur'[v] = cur[v]
        BY <2>1, <3>2, <4>2
      <4>4. CASE cur[v] = e
        BY <4>2, <4>3, <4>4 DEF Handled, InSection, Beats
      <4>5. CASE cur[v] # e
        <5>1. Elsewhere(e)
          BY <4>2, <4>5 DEF Elsewhere, Beats
        <5> QED
          BY <3>1, <4>1, <5>1 DEF Handled, Settled
      <4> QED
        BY <4>4, <4>5
    <3>6. pc'[w] \in {"ack", "route"} /\ beat'[w] # "failed"
      BY <3>1, <3>2
    <3>7. \A f \in acked' : Handled(f)'
      BY <1>2, <1>3, <1>4, <3>1
    <3> QED
      BY <1>5, <2>1, <2>3, <3>4, <3>5, <3>6, <3>7 DEF Failing
  <2>5. CASE ~Lock(w)
    <3>1. /\ pc[w] \in Section => cur'[w] = cur[w]
          /\ pc[w] \in Section =>
               \/ pc[w] \notin {"cleanup", "unwind"} /\ pc'[w] \in Section /\ beat'[w] = beat[w]
                  /\ locks' = locks
               \/ pc[w] \in {"cleanup", "unwind"}
                  /\ pc'[w] = (IF pc[w] = "cleanup" THEN "ack" ELSE "incr")
                  /\ beat'[w] = "none" /\ locks' = [locks EXCEPT ![KeyOf[cur[w]]] = "free"]
          /\ pc'[w] = "cleanup" => cur'[w] = cur[w] /\ Settled(cur[w])'
          /\ pc'[w] = "unwind" => cur'[w] = cur[w] /\ ~Answerable(cur[w])
          /\ pc'[w] \in Failing => cur'[w] = cur[w] /\ pc[w] \in {"unwind"} \cup Failing
          /\ pc'[w] = "ack" => pc[w] \in {"cleanup", "pick"}
          /\ beat'[w] # "failed"
      BY <1>1, <1>3, <1>6, HealthyStep
    <3>2. pc[w] \notin {"consume", "pick"} => cur[w] \in Entries
      BY BusyOnEntry
    <3>3. pc'[w] = "ack" => pc[w] = "cleanup"
      <4>1. pc[w] = "pick" => pc'[w] \in {"consume", "pick"}
        BY <1>6, <2>5 DEF Step, Consume, Claim, NextStream, ResolveRoute, InsertConversation,
           PersistInbound, RunAgent, PersistOutbound, PublishReply, Finally, Ack, ClearRetries,
           CountFailure, Bury, BuryAck, BuryClear, Abandon, Goto, TypeOK, LoopType
      <4> QED
        BY <3>1, <4>1
    <3>4. pc'[w] = "ack" => Handled(cur[w])'
      <4> SUFFICES ASSUME pc[w] = "cleanup" PROVE Handled(e)'
        BY <2>3, <3>3
      <4>1. cur'[w] = cur[w] /\ Settled(e) /\ e \in Entries
        BY <1>3, <2>2, <3>1, <3>2 DEF Section
      <4>2. Settled(e)'
        BY <1>2, <4>1
      <4> QED
        BY <4>2 DEF Handled
    <3>5. /\ beat'[w] # "failed"
          /\ pc'[w] = "cleanup" => Settled(cur[w])'
          /\ pc'[w] \in {"unwind"} \cup Failing => ~Answerable(cur'[w])
      BY <1>3, <3>1
    <3>6. \A k \in Keys : locks'[k] = "held" => \E v \in Workers : Beats(v)' /\ OnKey(v, k)'
      <4> SUFFICES ASSUME NEW k \in Keys, locks'[k] = "held"
                   PROVE  \E v \in Workers : Beats(v)' /\ OnKey(v, k)'
        OBVIOUS
      <4>1. locks \in [Keys -> {"free", "held"}]
        BY DEF TypeOK, StoreType
      <4>2. pc[w] \notin Section => locks' = locks
        BY <1>6, <2>5 DEF Step, Consume, Claim, NextStream, ResolveRoute, InsertConversation,
           PersistInbound, RunAgent, PersistOutbound, PublishReply, Finally, Ack, ClearRetries,
           CountFailure, Bury, BuryAck, BuryClear, Section
      <4>3. locks[k] = "held"
        BY <3>1, <4>1, <4>2
      <4>4. PICK v \in Workers : Beats(v) /\ OnKey(v, k)
        BY <1>3, <4>3
      <4>5. CASE v # w
        <5>1. pc'[v] = pc[v] /\ cur'[v] = cur[v] /\ beat'[v] = beat[v]
          BY <2>1, <4>5
        <5> QED
          BY <4>4, <5>1 DEF Beats, InSection, OnKey
      <4>6. CASE v = w
        <5>1. pc[w] \in Section /\ beat[w] = "alive" /\ KeyOf[cur[w]] = k
          BY <4>4, <4>6 DEF Beats, InSection, OnKey
        <5>2. pc[w] \notin {"cleanup", "unwind"}
          BY <3>1, <4>1, <5>1
        <5>3. pc'[w] \in Section /\ beat'[w] = "alive" /\ cur'[w] = cur[w]
          BY <3>1, <5>1, <5>2
        <5> QED
          BY <4>4, <4>6, <5>3 DEF Beats, InSection, OnKey
      <4> QED
        BY <4>5, <4>6
    <3>7. \A f \in acked' : Handled(f)'
      <4>1. acked' = acked \/ (pc[w] \in {"ack", "buryAck"} /\ acked' = acked \cup {cur[w]})
        BY <1>6, <2>5 DEF Step, Consume, Claim, NextStream, ResolveRoute, InsertConversation,
           PersistInbound, RunAgent, PersistOutbound, PublishReply, Finally, Ack, Acknowledge,
           ClearRetries, CountFailure, Bury, BuryAck, BuryClear, bus
      <4>2. pc[w] \in {"ack", "buryAck"} => Handled(cur[w])
        BY <1>3 DEF Handled, Failing
      <4> QED
        BY <1>2, <1>3, <1>4, <3>2, <4>1, <4>2
    <3> QED
      BY <1>5, <2>1, <3>4, <3>5, <3>6, <3>7
  <2> QED
    BY <2>4, <2>5
<1>7. ASSUME NEW w \in Workers, HeartbeatFails(w) \/ Crash(w) PROVE FALSE
  BY <1>1, <1>7 DEF HeartbeatFails, Crash
<1>8. ASSUME NEW k \in Keys, LockExpires(k) PROVE FALSE
  BY <1>3, <1>8 DEF LockExpires
<1>9. CASE Publish \/ (\E e \in Entries : Age(e)) \/ UNCHANGED vars
  <2>1. UNCHANGED <<pc, cur, beat, locks, acked>>
    BY <1>9 DEF Publish, Age, loop, bus, vars
  <2>2. \A k \in Keys : locks'[k] = "held" => \E v \in Workers : Beats(v)' /\ OnKey(v, k)'
    BY <1>3, <2>1 DEF Beats, InSection, OnKey
  <2>3. \A e \in acked' : Handled(e)'
    BY <1>2, <1>3, <1>4, <2>1
  <2> QED
    BY <1>5, <2>1, <2>2, <2>3
<1> QED
  BY <1>6, <1>7, <1>8, <1>9 DEF Next

LEMMA AlwaysHealthy == Spec => []HealthyInv
<1>1. Init => HealthyInv
  BY DEF Init, HealthyInv, Failing
<1>2. (TypeOK /\ LoopInv) /\ HealthyInv /\ [Next]_vars => HealthyInv'
  BY HealthyInductive
<1> QED
  BY <1>1, <1>2, TypeCorrect, PTL DEF Spec

(* Until the first failure or death, however the workers interleave and reclaim
   from one another, an acknowledged entry that can be answered was answered,
   ignored, dead-lettered or coalesced, or a worker is on it (C4). *)
THEOREM AcksAreHandled == Spec => [](faults = 0 /\ crashes = 0 => AckedIsHandled)
<1>1. HealthyInv => (faults = 0 /\ crashes = 0 => AckedIsHandled)
  BY DEF HealthyInv, AckedIsHandled, Handled
<1> QED
  BY <1>1, AlwaysHealthy, PTL

(* Until the first failure or death, a worker drops an entry at the lock only
   while another one is handling the conversation of that entry. *)
THEOREM DropsAreCovered == Spec => DroppedWhileHandled
<1>1. TypeOK /\ LoopInv /\ HealthyInv /\ [Next]_vars =>
        [\A w \in Workers :
           /\ KeyNamesChat /\ faults = 0 /\ crashes = 0
           /\ pc[w] = "pick" /\ pc'[w] = "ack"
           => \E v \in Workers : v # w /\ InSection(v) /\ ChatOf[cur[v]] = ChatOf[cur'[w]]]_vars
  <2> SUFFICES ASSUME TypeOK, LoopInv, HealthyInv, Next, NEW w \in Workers,
                      KeyNamesChat, faults = 0, crashes = 0, pc[w] = "pick", pc'[w] = "ack"
               PROVE  \E v \in Workers : v # w /\ InSection(v) /\ ChatOf[cur[v]] = ChatOf[cur'[w]]
    OBVIOUS
  <2>1. Lock(w)
    <3>1. ASSUME NEW v \in Workers, v # w, Step(v) \/ HeartbeatFails(v) \/ Crash(v) PROVE FALSE
      <4>1. pc'[w] = pc[w]
        BY <3>1, OthersStay
      <4> QED
        BY <4>1
    <3>2. ~(HeartbeatFails(w) \/ Crash(w))
      BY DEF HeartbeatFails, Crash, Abandon, Goto, TypeOK, LoopType
    <3>3. pc' # pc
      OBVIOUS
    <3>4. Step(w)
      BY <3>1, <3>2, <3>3 DEF Next, Publish, Age, LockExpires
    <3> QED
      BY <3>4 DEF Step, Consume, Claim, NextStream, ResolveRoute, InsertConversation,
         PersistInbound, RunAgent, PersistOutbound, PublishReply, Finally, Ack, ClearRetries,
         CountFailure, Bury, BuryAck, BuryClear, Abandon, Goto, TypeOK, LoopType
  <2>2. PICK e \in batch[w] : cur' = [cur EXCEPT ![w] = e] /\ locks[KeyOf[e]] = "held"
    <3>1. PICK e \in batch[w] :
            /\ cur' = [cur EXCEPT ![w] = e]
            /\ locks[KeyOf[e]] # "held" => \E r \in Results : GotoOr(w, r, "route", "incr")
      BY <2>1 DEF Lock
    <3> QED
      BY <3>1 DEF GotoOr, Goto, TypeOK, LoopType
  <2>3. e \in Entries /\ KeyOf[e] \in Keys /\ cur'[w] = e
    BY <2>2, WorkerAssumption DEF TypeOK, LoopType, BusType, Entries, Keys
  <2>4. PICK v \in Workers : Beats(v) /\ OnKey(v, KeyOf[e])
    BY <2>2, <2>3 DEF HealthyInv
  <2>5. v # w
    BY <2>4 DEF Beats, InSection, Section
  <2> QED
    BY <2>3, <2>4, <2>5 DEF KeyNamesChat, OnKey, Beats
<1> QED
  BY <1>1, TypeCorrect, AlwaysHealthy, PTL DEF Spec, DroppedWhileHandled

-------------------------------------------------------------------------------
(* The queue of the pool: an entry waits, is pending or is acknowledged.  It is
   so of the abstract queue, which the pool implements. *)
Apart == fresh \cap pel = {} /\ fresh \cap acked = {} /\ pel \cap acked = {}

LEMMA ApartInductive ==
  ASSUME TypeOK, LoopInv, HeldEntries, Apart, [Next]_vars PROVE Apart'
<1>1. [Queue!Next]_Queue!vars
  BY StepRefines
<1> QED
  BY <1>1 DEF Apart, Queue!Next, Queue!Put, Queue!HandOut, Queue!Settle, Queue!vars

(* No worker holds an entry twice. *)
HeldOnce == \A w \in Workers : cur[w] \notin batch[w]

(* What a step of w does to the batch and the entry of a worker, and what a
   step of w may take from the queue. *)
LEMMA HoldStep ==
  ASSUME TypeOK, LoopInv, NEW w \in Workers, Step(w) \/ HeartbeatFails(w) \/ Crash(w)
  PROVE  /\ \A v \in Workers \ {w} : batch'[v] = batch[v] /\ cur'[v] = cur[v]
         /\ \/ cur'[w] = 0 /\ batch'[w] \subseteq fresh \cup pel \cup batch[w]
            \/ cur'[w] = cur[w] /\ batch'[w] = batch[w]
            \/ /\ cur'[w] \in batch[w] /\ batch'[w] = batch[w] \ {cur'[w]}
               /\ pc'[w] \in {"ack", "route", "incr"} /\ beat'[w] # "failed"
<1>0. /\ w \in DOMAIN pc /\ w \in DOMAIN cur /\ w \in DOMAIN batch /\ w \in DOMAIN beat
      /\ idle \subseteq pel
  BY DEF TypeOK, LoopType, BusType
<1>1. \A v \in Workers \ {w} : batch'[v] = batch[v] /\ cur'[v] = cur[v]
  <2>1. CASE Consume(w) \/ Claim(w) \/ NextStream(w) \/ Lock(w)
    BY ZenonT(30), <2>1 DEF Consume, Claim, NextStream, Lock, Abandon, loop, TypeOK, LoopType
  <2>2. CASE ~(Consume(w) \/ Claim(w) \/ NextStream(w) \/ Lock(w))
    BY <2>2 DEF Step, ResolveRoute, InsertConversation, PersistInbound, RunAgent, PersistOutbound,
       PublishReply, Finally, Ack, ClearRetries, CountFailure, Bury, BuryAck, BuryClear,
       HeartbeatFails, Crash, NextEntry, Abandon, loop, TypeOK, LoopType
  <2> QED
    BY <2>1, <2>2
<1>2. CASE Consume(w)
  <2> DEFINE new == Oldest({e \in fresh : StreamOf[e] = turn[w]}, Count)
  <2>1. new \subseteq fresh
    BY OldestIsSubset
  <2>2. pc[w] = "consume" /\ (Abandon(w) \/ (cur' = cur /\ batch' = [batch EXCEPT ![w] = new]))
    BY <1>2 DEF Consume
  <2> HIDE DEF new
  <2>3. cur[w] = 0
    BY <2>2 DEF LoopInv
  <2> QED
    BY <1>0, <1>1, <2>1, <2>2, <2>3 DEF Abandon
<1>3. CASE Claim(w)
  <2> DEFINE stale == Oldest({e \in idle : StreamOf[e] = turn[w]}, ClaimCount)
  <2>1. stale \subseteq pel
    BY <1>0, OldestIsSubset
  <2>2. pc[w] = "pick" /\ (Abandon(w) \/ (cur' = cur /\ batch' = [batch EXCEPT ![w] = stale]))
    BY <1>3 DEF Claim
  <2> HIDE DEF stale
  <2>3. cur[w] = 0
    BY <2>2 DEF LoopInv
  <2> QED
    BY <1>0, <1>1, <2>1, <2>2, <2>3 DEF Abandon
<1>4. CASE Lock(w)
  <2>1. PICK e \in batch[w] :
          /\ cur' = [cur EXCEPT ![w] = e] /\ batch' = [batch EXCEPT ![w] = @ \ {e}]
          /\ \E r \in Results : GotoOr(w, r, "ack", "incr") \/ GotoOr(w, r, "route", "incr")
          /\ UNCHANGED beat \/ \E r \in Results :
               beat' = IF r = "ok" THEN [beat EXCEPT ![w] = "alive"] ELSE beat
    BY <1>4 DEF Lock
  <2>2. beat[w] = "none"
    BY <1>4 DEF LoopInv, Lock, InSection, Section
  <2>3. pc'[w] \in {"ack", "route", "incr"}
    BY <1>0, <2>1 DEF GotoOr, Goto
  <2>4. beat'[w] # "failed"
    BY <1>0, <2>1, <2>2
  <2>5. cur'[w] = e /\ batch'[w] = batch[w] \ {e}
    BY <1>0, <2>1
  <2> QED
    BY <1>1, <2>3, <2>4, <2>5
<1>5. CASE ~(Consume(w) \/ Claim(w) \/ Lock(w))
  <2>1. \/ UNCHANGED <<batch, cur>>
        \/ batch' = batch /\ cur' = [cur EXCEPT ![w] = 0]
        \/ batch' = [batch EXCEPT ![w] = {}] /\ cur' = [cur EXCEPT ![w] = 0]
    BY <1>5 DEF Step, NextStream, ResolveRoute, InsertConversation, PersistInbound, RunAgent,
       PersistOutbound, PublishReply, Finally, Ack, ClearRetries, CountFailure, Bury, BuryAck,
       BuryClear, HeartbeatFails, Crash, NextEntry, Abandon, loop
  <2> QED
    BY <1>0, <1>1, <2>1
<1> QED
  BY <1>2, <1>3, <1>4, <1>5

LEMMA HeldOnceInductive ==
  ASSUME TypeOK, LoopInv, HeldOnce, [Next]_vars PROVE HeldOnce'
<1>1. ASSUME NEW w \in Workers, Step(w) \/ HeartbeatFails(w) \/ Crash(w) PROVE HeldOnce'
  <2>1. cur'[w] \notin batch'[w]
    <3>1. 0 \notin fresh \cup pel \cup batch[w]
      BY WorkerAssumption DEF TypeOK, BusType, LoopType
    <3> QED
      BY <1>1, <3>1, HoldStep DEF HeldOnce
  <2> QED
    BY <1>1, <2>1, HoldStep DEF HeldOnce
<1>2. CASE UNCHANGED <<batch, cur>>
  BY <1>2 DEF HeldOnce
<1> QED
  BY <1>1, <1>2 DEF Next, Publish, Age, LockExpires, loop, vars

-------------------------------------------------------------------------------
One(b) == IF b THEN 1 ELSE 0

(* A finite set gains or loses one element. *)
LEMMA SetStep ==
  ASSUME NEW S, NEW T, NEW w, IsFiniteSet(S), \A v : v # w => (v \in T <=> v \in S)
  PROVE  /\ Cardinality(S) \in Nat /\ Cardinality(T) \in Nat
         /\ Cardinality(T) + One(w \in S) = Cardinality(S) + One(w \in T)
<1>1. T = IF w \in T THEN S \cup {w} ELSE S \ {w}
  OBVIOUS
<1>2. /\ Cardinality(S) \in Nat /\ IsFiniteSet(T) /\ Cardinality(T) \in Nat
      /\ w \in S => S # {}
  BY <1>1, FS_AddElement, FS_RemoveElement, FS_CardinalityType
<1>3. CASE w \in T
  <2>1. Cardinality(T) = IF w \in S THEN Cardinality(S) ELSE Cardinality(S) + 1
    BY <1>1, <1>3, FS_AddElement
  <2> QED
    BY <1>2, <1>3, <2>1 DEF One
<1>4. CASE w \notin T
  <2>1. Cardinality(T) = IF w \in S THEN Cardinality(S) - 1 ELSE Cardinality(S)
    BY <1>1, <1>4, FS_RemoveElement
  <2> QED
    BY <1>2, <1>4, <2>1 DEF One
<1> QED
  BY <1>3, <1>4

(* The steps of process() up to the publication of the reply. *)
Coming(w) == pc[w] \in {"route", "insert", "persistIn", "agent", "persistOut", "publish"}

(* Workers that may answer e, that may have answered it and are yet to
   acknowledge it, and whose failure while on e came before their answer. *)
MayAnswer(e) == {w \in Workers : e \in batch[w] \/ (cur[w] = e /\ Coming(w))}
Answered(e) == {w \in Workers : cur[w] = e /\ pc[w] \in {"cleanup", "ack"} /\ beat[w] # "failed"}
Prepaid(e) == {w \in Workers : cur[w] = e /\ Coming(w) /\ beat[w] = "failed"}

(* Until e is acknowledged, a reply is owed to a worker that is about to
   acknowledge it, to a failure or to a death.  From then on nobody new gets
   hold of e, and each worker that did answers once at most. *)
RepliesInv ==
  \A e \in Entries :
    /\ e \notin acked =>
         replies[e] + Cardinality(Prepaid(e)) <= Cardinality(Answered(e)) + faults + crashes
    /\ e \in acked =>
         replies[e] + Cardinality(MayAnswer(e)) <= Cardinality(Workers) + faults + crashes

(* What a step of w, before and after, makes of the sums. *)
UnackedStep(e, w) ==
  replies'[e] + One(w \in Prepaid(e)') + One(w \in Answered(e)) + faults + crashes
    <= replies[e] + One(w \in Prepaid(e)) + One(w \in Answered(e)') + faults' + crashes'

AckedStep(e, w) ==
  replies'[e] + One(w \in MayAnswer(e)') + faults + crashes
    <= replies[e] + One(w \in MayAnswer(e)) + faults' + crashes'

(* Steps that publish no reply cannot raise them but by a failure or a death. *)
LEMMA QuietStep ==
  ASSUME TypeOK, NEW w \in Workers, NEW e \in Entries, replies'[e] = replies[e],
         faults' \in Nat, crashes' \in Nat, faults' >= faults, crashes' >= crashes
  PROVE  /\ (w \in MayAnswer(e)' => w \in MayAnswer(e)) => AckedStep(e, w)
         /\ \/ (w \in Prepaid(e)' => w \in Prepaid(e)) /\ (w \in Answered(e) => w \in Answered(e)')
            \/ ~(w \in Prepaid(e)' /\ w \in Answered(e)) /\ faults' + crashes' > faults + crashes
            => UnackedStep(e, w)
<1>1. replies[e] \in Nat /\ faults \in Nat /\ crashes \in Nat
  BY WorkerAssumption DEF TypeOK, StoreType, HistoryType
<1>2. (w \in MayAnswer(e)' => w \in MayAnswer(e)) => AckedStep(e, w)
  BY <1>1 DEF AckedStep, One
<1>3. (w \in Prepaid(e)' => w \in Prepaid(e)) /\ (w \in Answered(e) => w \in Answered(e)')
        => UnackedStep(e, w)
  BY <1>1 DEF UnackedStep, One
<1>4. ~(w \in Prepaid(e)' /\ w \in Answered(e)) /\ faults' + crashes' > faults + crashes
        => UnackedStep(e, w)
  <2> SUFFICES ASSUME ~(w \in Prepaid(e)' /\ w \in Answered(e)),
                      faults' + crashes' > faults + crashes
               PROVE  UnackedStep(e, w)
    OBVIOUS
  <2>1. PICK a \in 0..1, b \in 0..1, c \in 0..1, d \in 0..1 :
          /\ a = One(w \in Prepaid(e)') /\ b = One(w \in Answered(e)) /\ a + b <= 1
          /\ c = One(w \in Prepaid(e)) /\ d = One(w \in Answered(e)')
    BY DEF One
  <2>2. a + b <= 1
    BY <2>1
  <2>3. replies[e] + a + b + faults + crashes <= replies[e] + c + d + faults' + crashes'
    BY <1>1, <2>2
  <2> QED
    BY <2>1, <2>3 DEF UnackedStep
<1> QED
  BY <1>2, <1>3, <1>4

(* Nobody new gets hold of an acknowledged entry, or comes to answer it. *)
LEMMA OwingStep ==
  ASSUME TypeOK, LoopInv, Apart, NEW w \in Workers, Step(w) \/ HeartbeatFails(w) \/ Crash(w),
         NEW e \in acked, w \in MayAnswer(e)'
  PROVE  w \in MayAnswer(e)
<1>0. w \in DOMAIN pc /\ e # 0 /\ e \notin fresh \cup pel
  BY DEF TypeOK, LoopType, BusType, Apart
<1>1. Coming(w)' => Coming(w) \/ Lock(w)
  <2>1. CASE Consume(w) \/ Claim(w) \/ NextStream(w) \/ Ack(w) \/ ClearRetries(w) \/ CountFailure(w)
             \/ Bury(w) \/ BuryAck(w) \/ BuryClear(w) \/ Finally(w) \/ Crash(w)
    <3>1. pc'[w] \in {"consume", "pick", "ack", "clear", "incr", "bury", "buryAck", "buryClear"}
      BY <1>0, <2>1 DEF Consume, Claim, NextStream, Finally, Ack, ClearRetries, CountFailure, Bury,
         BuryAck, BuryClear, Crash, NextEntry, Abandon, Goto, GotoOr
    <3> QED
      BY <3>1 DEF Coming
  <2>2. CASE ResolveRoute(w) \/ InsertConversation(w) \/ PersistInbound(w) \/ RunAgent(w)
             \/ PersistOutbound(w) \/ PublishReply(w)
    BY <2>2 DEF ResolveRoute, InsertConversation, PersistInbound, RunAgent, PersistOutbound,
       PublishReply, Coming
  <2>3. CASE HeartbeatFails(w)
    BY <2>3 DEF HeartbeatFails, Coming
  <2> QED
    BY <2>1, <2>2, <2>3 DEF Step
<1>2. CASE cur'[w] = 0 /\ batch'[w] \subseteq fresh \cup pel \cup batch[w]
  BY <1>0, <1>2 DEF MayAnswer
<1>3. CASE cur'[w] = cur[w] /\ batch'[w] = batch[w]
  <2>1. CASE Lock(w)
    <3>1. cur[w] = 0
      BY <2>1 DEF Lock, LoopInv
    <3> QED
      BY <1>0, <1>3, <3>1 DEF MayAnswer
  <2>2. CASE ~Lock(w)
    BY <1>1, <1>3, <2>2 DEF MayAnswer
  <2> QED
    BY <2>1, <2>2
<1>4. CASE cur'[w] \in batch[w] /\ batch'[w] = batch[w] \ {cur'[w]}
  BY <1>4 DEF MayAnswer
<1> QED
  BY <1>2, <1>3, <1>4, HoldStep

LEMMA PublishSums ==
  ASSUME TypeOK, LoopInv, HeldOnce, NEW w \in Workers, PublishReply(w), NEW e \in Entries
  PROVE  UnackedStep(e, w) /\ (w \in MayAnswer(e)' => w \in MayAnswer(e)) /\ AckedStep(e, w)
<1>1. /\ replies \in [Entries -> Nat] /\ replies[e] \in Nat /\ faults \in Nat /\ crashes \in Nat
      /\ w \in DOMAIN pc
  BY WorkerAssumption DEF TypeOK, LoopType, StoreType, HistoryType
<1>2. PICK r \in Results :
        /\ Ends(r) /\ GotoOr(w, r, "cleanup", "unwind")
        /\ replies' = IF TookEffect(r) THEN [replies EXCEPT ![cur[w]] = @ + 1] ELSE replies
  BY DEF PublishReply
<1>3. pc[w] = "publish" /\ cur' = cur /\ batch' = batch /\ beat' = beat /\ crashes' = crashes
  BY DEF PublishReply, loop
<1>4. pc'[w] = (IF r = "ok" THEN "cleanup" ELSE "unwind")
      /\ faults' = (IF r = "ok" THEN faults ELSE faults + 1)
  BY <1>1, <1>2 DEF Ends, GotoOr, Goto
<1>5. CASE cur[w] # e
  <2>1. replies'[e] = replies[e]
    BY <1>1, <1>2, <1>5
  <2>2. /\ w \notin Prepaid(e)' /\ w \notin Answered(e) /\ (w \in MayAnswer(e)' => w \in MayAnswer(e))
        /\ faults' >= faults /\ faults' \in Nat
    BY <1>1, <1>3, <1>4, <1>5 DEF Prepaid, Answered, MayAnswer
  <2>3. crashes' \in Nat /\ crashes' >= crashes
    BY <1>1, <1>3
  <2>4. UnackedStep(e, w)
    BY <2>1, <2>2, <2>3, QuietStep
  <2>5. AckedStep(e, w)
    BY <2>1, <2>2, <2>3, QuietStep
  <2> QED
    BY <2>2, <2>4, <2>5
<1>6. CASE cur[w] = e
  <2>1. replies'[e] <= replies[e] + 1 /\ replies'[e] \in Nat
    BY <1>1, <1>2, <1>6
  <2>2. /\ w \in MayAnswer(e) /\ w \notin MayAnswer(e)' /\ w \notin Answered(e) /\ w \notin Prepaid(e)'
    BY <1>3, <1>4, <1>6 DEF HeldOnce, MayAnswer, Coming, Answered, Prepaid
  <2>3. faults' >= faults /\ faults' \in Nat /\ (r # "ok" => faults' = faults + 1)
    BY <1>1, <1>4
  <2>4. AckedStep(e, w)
    <3>1. One(w \in MayAnswer(e)') = 0 /\ One(w \in MayAnswer(e)) = 1
      BY <2>2 DEF One
    <3>2. replies'[e] + 0 + faults + crashes <= replies[e] + 1 + faults' + crashes
      BY <1>1, <2>1, <2>3
    <3> QED
      BY <1>3, <3>1, <3>2 DEF AckedStep
  <2>5. UnackedStep(e, w)
    <3>1. One(w \in Prepaid(e)') = 0 /\ One(w \in Answered(e)) = 0
      BY <2>2 DEF One
    <3>2. PICK c \in 0..1, d \in 0..1 :
            /\ c = One(w \in Prepaid(e)) /\ d = One(w \in Answered(e)')
            /\ r = "ok" => c = 1 \/ d = 1
      BY <1>3, <1>4, <1>6 DEF Prepaid, Coming, Answered, One
    <3>3. r = "ok" => c + d >= 1
      BY <3>2
    <3>4. replies'[e] + 0 + 0 + faults + crashes <= replies[e] + c + d + faults' + crashes
      BY <1>1, <2>1, <2>3, <3>3
    <3> QED
      BY <1>3, <3>1, <3>2, <3>4 DEF UnackedStep
  <2> QED
    BY <2>2, <2>4, <2>5
<1> QED
  BY <1>5, <1>6

LEMMA RepliesStep ==
  ASSUME TypeOK, LoopInv, HeldOnce, Apart, NEW w \in Workers,
         Step(w) \/ HeartbeatFails(w) \/ Crash(w), NEW e \in Entries
  PROVE  /\ e \notin acked' => UnackedStep(e, w)
         /\ e \in acked => AckedStep(e, w)
<1> DEFINE Kept == (w \in Prepaid(e)' => w \in Prepaid(e)) /\ (w \in Answered(e) => w \in Answered(e)')
           Paid == ~(w \in Prepaid(e)' /\ w \in Answered(e)) /\ faults' + crashes' > faults + crashes
<1>0. /\ replies \in [Entries -> Nat] /\ faults \in Nat /\ crashes \in Nat
      /\ w \in DOMAIN pc /\ w \in DOMAIN beat /\ w \in DOMAIN cur
      /\ (beat[w] = "none" <=> pc[w] \notin Section) /\ pc[w] \in Labels /\ e # 0
      /\ (pc[w] \in {"consume", "pick"} => cur[w] = 0)
  BY WorkerAssumption DEF TypeOK, LoopType, StoreType, HistoryType, LoopInv, InSection, Entries
<1>1. /\ faults' \in {faults, faults + 1} /\ crashes' \in {crashes, crashes + 1}
      /\ faults' \in Nat /\ crashes' \in Nat /\ faults' >= faults /\ crashes' >= crashes
  <2>1. faults' \in {faults, faults + 1} /\ crashes' \in {crashes, crashes + 1}
    BY DEF Step, Consume, Claim, NextStream, Lock, ResolveRoute, InsertConversation, PersistInbound,
       RunAgent, PersistOutbound, PublishReply, Finally, Ack, ClearRetries, CountFailure, Bury,
       BuryAck, BuryClear, HeartbeatFails, Crash, Ends
  <2> QED
    BY <1>0, <2>1
<1>2. SUFFICES ASSUME ~PublishReply(w) PROVE e \notin acked' => Kept \/ Paid
  <2>1. CASE PublishReply(w)
    BY <2>1, PublishSums
  <2>2. CASE ~PublishReply(w)
    <3>1. replies' = replies
      BY <2>2 DEF Step, Consume, Claim, NextStream, Lock, ResolveRoute, InsertConversation,
         PersistInbound, RunAgent, PersistOutbound, Finally, Ack, ClearRetries, CountFailure, Bury,
         BuryAck, BuryClear, HeartbeatFails, Crash, rows
    <3>2. e \notin acked' => UnackedStep(e, w)
      BY <1>1, <1>2, <2>2, <3>1, QuietStep
    <3>3. e \in acked => AckedStep(e, w)
      BY <1>1, <3>1, QuietStep, OwingStep
    <3> QED
      BY <3>2, <3>3
  <2> QED
    BY <2>1, <2>2
<1>3. CASE Consume(w) \/ Claim(w) \/ NextStream(w) \/ Lock(w)
  <2>1. cur[w] = 0
    BY <1>0, <1>3 DEF Consume, Claim, NextStream, Lock
  <2>2. cur'[w] = 0 \/ beat'[w] # "failed"
    BY <1>3, <2>1, HoldStep
  <2> QED
    BY <1>0, <2>1, <2>2 DEF Prepaid, Answered
<1>4. CASE ResolveRoute(w) \/ InsertConversation(w) \/ PersistInbound(w) \/ RunAgent(w)
           \/ PersistOutbound(w)
  <2>1. Coming(w) /\ cur' = cur /\ beat' = beat
    BY <1>4 DEF ResolveRoute, InsertConversation, PersistInbound, RunAgent, PersistOutbound, Coming,
       loop
  <2> QED
    BY <2>1 DEF Coming, Prepaid, Answered
<1>5. CASE Finally(w)
  <2>1. /\ cur' = cur /\ beat'[w] = "none" /\ pc[w] \in {"cleanup", "unwind"}
        /\ \/ pc'[w] = "ack" \/ pc[w] = "unwind" \/ beat[w] = "failed"
           \/ faults' = faults + 1
        /\ crashes' = crashes
    BY <1>0, <1>5 DEF Finally, Goto, Ends, loop
  <2> QED
    BY <1>0, <2>1 DEF Coming, Prepaid, Answered
<1>6. CASE Ack(w)
  <2>1. PICK r \in Results : Ends(r) /\ Acknowledge(w, r) /\ GotoOr(w, r, "clear", "incr")
    BY <1>6 DEF Ack
  <2>2. /\ pc[w] = "ack" /\ cur' = cur /\ crashes' = crashes
        /\ pc'[w] \in {"clear", "incr"}
    BY <1>0, <1>6, <2>1 DEF Ack, loop, GotoOr, Goto
  <2>3. w \notin Prepaid(e)'
    BY <2>2 DEF Prepaid, Coming
  <2>4. e \notin acked' /\ cur[w] = e => faults' = faults + 1
    BY <2>1 DEF Acknowledge, TookEffect, Ends
  <2> QED
    BY <1>0, <2>2, <2>3, <2>4 DEF Answered
<1>7. CASE ClearRetries(w) \/ CountFailure(w) \/ Bury(w) \/ BuryAck(w) \/ BuryClear(w)
  <2>1. pc[w] \in Failing \cup {"clear"}
    BY <1>7 DEF ClearRetries, CountFailure, Bury, BuryAck, BuryClear, Failing
  <2>2. pc'[w] \in Failing \cup {"pick", "consume"}
    BY <1>0, <1>7 DEF ClearRetries, CountFailure, Bury, BuryAck, BuryClear, Failing, NextEntry,
       Abandon, Goto
  <2> QED
    BY <2>1, <2>2 DEF Failing, Prepaid, Answered, Coming
<1>8. CASE HeartbeatFails(w)
  <2>1. pc' = pc /\ cur' = cur /\ faults' = faults + 1 /\ crashes' = crashes
    BY <1>8 DEF HeartbeatFails, loop
  <2> QED
    BY <1>0, <2>1 DEF Prepaid, Answered, Coming
<1>9. CASE Crash(w)
  <2>1. pc'[w] = "consume" /\ crashes' = crashes + 1 /\ faults' = faults
    BY <1>0, <1>9 DEF Crash, Abandon, Goto
  <2> QED
    BY <1>0, <2>1 DEF Prepaid, Coming
<1> QED
  BY <1>2, <1>3, <1>4, <1>5, <1>6, <1>7, <1>8, <1>9 DEF Step

LEMMA HoldersFinite ==
  ASSUME NEW e
  PROVE  /\ IsFiniteSet(MayAnswer(e)) /\ IsFiniteSet(Answered(e)) /\ IsFiniteSet(Prepaid(e))
         /\ Cardinality(MayAnswer(e)) \in Nat /\ Cardinality(Answered(e)) \in Nat
         /\ Cardinality(Prepaid(e)) \in Nat /\ Cardinality(Workers) \in Nat
<1>1. MayAnswer(e) \subseteq Workers /\ Answered(e) \subseteq Workers /\ Prepaid(e) \subseteq Workers
  BY DEF MayAnswer, Answered, Prepaid
<1> QED
  BY <1>1, WorkerAssumption, FS_Subset, FS_CardinalityType

(* A step of w changes each sum by what it does to w. *)
LEMMA HoldersStep ==
  ASSUME TypeOK, LoopInv, NEW w \in Workers, Step(w) \/ HeartbeatFails(w) \/ Crash(w),
         NEW e \in Entries
  PROVE  /\ Cardinality(MayAnswer(e)') \in Nat /\ Cardinality(Answered(e)') \in Nat
         /\ Cardinality(Prepaid(e)') \in Nat
         /\ Cardinality(MayAnswer(e)') + One(w \in MayAnswer(e))
              = Cardinality(MayAnswer(e)) + One(w \in MayAnswer(e)')
         /\ Cardinality(Answered(e)') + One(w \in Answered(e))
              = Cardinality(Answered(e)) + One(w \in Answered(e)')
         /\ Cardinality(Prepaid(e)') + One(w \in Prepaid(e))
              = Cardinality(Prepaid(e)) + One(w \in Prepaid(e)')
<1>1. \A v \in Workers \ {w} :
        pc'[v] = pc[v] /\ cur'[v] = cur[v] /\ beat'[v] = beat[v] /\ batch'[v] = batch[v]
  BY OthersStay, HoldStep
<1>2. \A v : v # w => (v \in MayAnswer(e)' <=> v \in MayAnswer(e))
  BY <1>1 DEF MayAnswer, Coming
<1>3. \A v : v # w => (v \in Answered(e)' <=> v \in Answered(e))
  BY <1>1 DEF Answered
<1>4. \A v : v # w => (v \in Prepaid(e)' <=> v \in Prepaid(e))
  BY <1>1 DEF Prepaid, Coming
<1>5. /\ Cardinality(MayAnswer(e)') \in Nat
      /\ Cardinality(MayAnswer(e)') + One(w \in MayAnswer(e))
           = Cardinality(MayAnswer(e)) + One(w \in MayAnswer(e)')
  BY <1>2, HoldersFinite, SetStep
<1>6. /\ Cardinality(Answered(e)') \in Nat
      /\ Cardinality(Answered(e)') + One(w \in Answered(e))
           = Cardinality(Answered(e)) + One(w \in Answered(e)')
  BY <1>3, HoldersFinite, SetStep
<1>7. /\ Cardinality(Prepaid(e)') \in Nat
      /\ Cardinality(Prepaid(e)') + One(w \in Prepaid(e))
           = Cardinality(Prepaid(e)) + One(w \in Prepaid(e)')
  BY <1>4, HoldersFinite, SetStep
<1> QED
  BY <1>5, <1>6, <1>7

(* The step that acknowledges e: workers that may still answer it are others
   than those that have answered it. *)
LEMMA Acknowledging ==
  ASSUME TypeOK, LoopInv, HeldOnce, NEW w \in Workers, Ack(w) \/ BuryAck(w),
         NEW e \in acked', e \notin acked
  PROVE  /\ replies' = replies /\ faults' >= faults /\ crashes' = crashes
         /\ Cardinality(MayAnswer(e)') + Cardinality(Answered(e)) <= Cardinality(Workers)
<1>0. w \in DOMAIN pc /\ faults \in Nat
  BY DEF TypeOK, LoopType, HistoryType
<1>1. replies' = replies /\ crashes' = crashes /\ faults' >= faults /\ cur[w] = e
  BY <1>0 DEF Ack, BuryAck, rows, Ends, Acknowledge
<1>2. pc'[w] \in {"clear", "incr", "buryClear", "consume"}
  BY <1>0 DEF Ack, BuryAck, GotoOr, Goto, Abandon
<1>3. Step(w)
  BY DEF Step
<1>4. w \notin MayAnswer(e)'
  <2>1. e \notin batch[w]
    BY <1>1 DEF HeldOnce
  <2>2. batch'[w] = batch[w] \/ batch'[w] = {}
    BY DEF Ack, BuryAck, Abandon, loop, TypeOK, LoopType
  <2> QED
    BY <1>2, <2>1, <2>2 DEF MayAnswer, Coming
<1>5. MayAnswer(e)' \cap Answered(e) = {}
  <2> SUFFICES ASSUME NEW v \in Answered(e), v \in MayAnswer(e)' PROVE FALSE
    OBVIOUS
  <2>1. v \in Workers \ {w}
    BY <1>4 DEF Answered
  <2>2. v \in MayAnswer(e)
    <3>1. pc'[v] = pc[v] /\ cur'[v] = cur[v] /\ batch'[v] = batch[v]
      BY <1>3, <2>1, OthersStay, HoldStep
    <3> QED
      BY <3>1 DEF MayAnswer, Coming
  <2> QED
    BY <2>2 DEF MayAnswer, Answered, Coming, HeldOnce
<1>6. MayAnswer(e)' \subseteq Workers /\ Answered(e) \subseteq Workers
  BY DEF MayAnswer, Answered
<1> DEFINE O == MayAnswer(e)'
           A == Answered(e)
<1>7. O \cap A = {} /\ O \subseteq Workers /\ A \subseteq Workers
  BY <1>5, <1>6
<1> HIDE DEF O, A
<1>8. Cardinality(O) + Cardinality(A) <= Cardinality(Workers)
  <2>1. IsFiniteSet(O) /\ IsFiniteSet(A) /\ Cardinality(O \cup A) <= Cardinality(Workers)
    BY <1>7, WorkerAssumption, FS_Subset
  <2>2. Cardinality(O \cup A) = Cardinality(O) + Cardinality(A) - 0
    BY <1>7, <2>1, FS_Union, FS_EmptySet
  <2>3. Cardinality(O) \in Nat /\ Cardinality(A) \in Nat
    BY <2>1, FS_CardinalityType
  <2> QED
    BY <2>1, <2>2, <2>3
<1> QED
  BY <1>1, <1>8 DEF O, A

LEMMA RepliesInductive ==
  ASSUME TypeOK, LoopInv, HeldOnce, Apart, RepliesInv, [Next]_vars PROVE RepliesInv'
<1> SUFFICES ASSUME NEW e \in Entries
             PROVE  /\ e \notin acked' =>
                         replies'[e] + Cardinality(Prepaid(e)')
                           <= Cardinality(Answered(e)') + faults' + crashes'
                    /\ e \in acked' =>
                         replies'[e] + Cardinality(MayAnswer(e)')
                           <= Cardinality(Workers) + faults' + crashes'
  BY DEF RepliesInv
<1>1. /\ replies[e] \in Nat /\ faults \in Nat /\ crashes \in Nat
      /\ Cardinality(MayAnswer(e)) \in Nat /\ Cardinality(Answered(e)) \in Nat
      /\ Cardinality(Prepaid(e)) \in Nat /\ Cardinality(Workers) \in Nat
  BY HoldersFinite, WorkerAssumption DEF TypeOK, StoreType, HistoryType
<1>2. /\ replies'[e] \in Nat /\ faults' \in Nat /\ crashes' \in Nat
  <2>1. TypeOK'
    BY NextType
  <2> QED
    BY <2>1, WorkerAssumption DEF TypeOK, StoreType, HistoryType
<1>3. CASE UNCHANGED <<pc, cur, batch, beat, replies, acked, faults, crashes>>
  <2>1. MayAnswer(e)' = MayAnswer(e) /\ Answered(e)' = Answered(e) /\ Prepaid(e)' = Prepaid(e)
    BY <1>3 DEF MayAnswer, Answered, Prepaid, Coming
  <2> QED
    BY <1>3, <2>1 DEF RepliesInv
<1>4. ASSUME NEW w \in Workers, Step(w) \/ HeartbeatFails(w) \/ Crash(w)
      PROVE  /\ e \notin acked' =>
                  replies'[e] + Cardinality(Prepaid(e)')
                    <= Cardinality(Answered(e)') + faults' + crashes'
             /\ e \in acked' =>
                  replies'[e] + Cardinality(MayAnswer(e)')
                    <= Cardinality(Workers) + faults' + crashes'
  <2>1. PICK p \in 0..1, q \in 0..1, a \in 0..1, b \in 0..1, o \in 0..1, m \in 0..1 :
          /\ p = One(w \in Prepaid(e)) /\ q = One(w \in Prepaid(e)')
          /\ a = One(w \in Answered(e)) /\ b = One(w \in Answered(e)')
          /\ o = One(w \in MayAnswer(e)) /\ m = One(w \in MayAnswer(e)')
    BY DEF One
  <2>2. /\ Cardinality(MayAnswer(e)') \in Nat /\ Cardinality(Answered(e)') \in Nat
        /\ Cardinality(Prepaid(e)') \in Nat
    BY <1>4, HoldersStep
  <2>3. /\ Cardinality(MayAnswer(e)') + o = Cardinality(MayAnswer(e)) + m
        /\ Cardinality(Answered(e)') + a = Cardinality(Answered(e)) + b
        /\ Cardinality(Prepaid(e)') + p = Cardinality(Prepaid(e)) + q
    BY <1>4, <2>1, HoldersStep
  <2>4. acked \subseteq acked' /\ (acked' = acked \/ Ack(w) \/ BuryAck(w))
    BY <1>4 DEF Step, Consume, Claim, NextStream, Lock, ResolveRoute, InsertConversation,
       PersistInbound, RunAgent, PersistOutbound, PublishReply, Finally, Ack, Acknowledge,
       ClearRetries, CountFailure, Bury, BuryAck, BuryClear, HeartbeatFails, Crash, bus
  <2>5. CASE e \notin acked'
    <3>1. replies[e] + Cardinality(Prepaid(e)) <= Cardinality(Answered(e)) + faults + crashes
      BY <2>4, <2>5 DEF RepliesInv
    <3>2. replies'[e] + q + a + faults + crashes <= replies[e] + p + b + faults' + crashes'
      BY <1>4, <2>1, <2>5, RepliesStep DEF UnackedStep
    <3>3. replies'[e] + Cardinality(Prepaid(e)') <= Cardinality(Answered(e)') + faults' + crashes'
      BY <1>1, <1>2, <2>2, <2>3, <3>1, <3>2
    <3> QED
      BY <2>5, <3>3
  <2>6. CASE e \in acked
    <3>1. replies[e] + Cardinality(MayAnswer(e)) <= Cardinality(Workers) + faults + crashes
      BY <2>6 DEF RepliesInv
    <3>2. replies'[e] + m + faults + crashes <= replies[e] + o + faults' + crashes'
      BY <1>4, <2>1, <2>6, RepliesStep DEF AckedStep
    <3>3. replies'[e] + Cardinality(MayAnswer(e)') <= Cardinality(Workers) + faults' + crashes'
      BY <1>1, <1>2, <2>2, <2>3, <3>1, <3>2
    <3> QED
      BY <2>4, <2>6, <3>3
  <2>7. CASE e \in acked' /\ e \notin acked
    <3>1. /\ replies' = replies /\ faults' >= faults /\ crashes' = crashes
          /\ Cardinality(MayAnswer(e)') + Cardinality(Answered(e)) <= Cardinality(Workers)
      BY <2>4, <2>7, Acknowledging
    <3>2. replies[e] + Cardinality(Prepaid(e)) <= Cardinality(Answered(e)) + faults + crashes
      BY <2>7 DEF RepliesInv
    <3>3. replies'[e] + Cardinality(MayAnswer(e)') <= Cardinality(Workers) + faults' + crashes'
      BY <1>1, <1>2, <2>2, <3>1, <3>2
    <3> QED
      BY <2>7, <3>3
  <2> QED
    BY <2>5, <2>6, <2>7
<1>5. CASE Publish \/ (\E f \in Entries : Age(f)) \/ (\E k \in Keys : LockExpires(k)) \/ UNCHANGED vars
  BY <1>3, <1>5 DEF Publish, Age, LockExpires, bus, loop, rows, vars
<1> QED
  BY <1>4, <1>5 DEF Next

(* A contact is answered at most once by each worker and once more for each
   failure or death, however often entries age and are reclaimed. *)
THEOREM RepliesPaid == Spec => []RepliesBounded
<1> DEFINE Inv == HeldEntries /\ HeldOnce /\ Apart /\ RepliesInv
<1>1. Init => Inv
  <2>1. Init => HeldEntries /\ HeldOnce /\ Apart
    BY DEF Init, HeldEntries, HeldOnce, Apart
  <2>2. ASSUME Init, NEW e \in Entries
        PROVE  e \notin acked /\ replies[e] + Cardinality(Prepaid(e))
                                   <= Cardinality(Answered(e)) + faults + crashes
    <3>1. Prepaid(e) = {} /\ Answered(e) = {}
      BY <2>2 DEF Init, Prepaid, Answered, Coming
    <3> QED
      BY <2>2, <3>1, FS_EmptySet DEF Init
  <2> QED
    BY <2>1, <2>2 DEF RepliesInv
<1>2. TypeOK /\ LoopInv /\ Inv /\ [Next]_vars => Inv'
  BY NextHeld, HeldOnceInductive, ApartInductive, RepliesInductive
<1>3. TypeOK /\ Inv => RepliesBounded
  <2> SUFFICES ASSUME TypeOK, RepliesInv, NEW e \in Entries
               PROVE  replies[e] <= Cardinality(Workers) + faults + crashes
    BY DEF RepliesBounded
  <2>1. /\ replies[e] \in Nat /\ faults \in Nat /\ crashes \in Nat
        /\ Cardinality(MayAnswer(e)) \in Nat /\ Cardinality(Answered(e)) \in Nat
        /\ Cardinality(Prepaid(e)) \in Nat /\ Cardinality(Workers) \in Nat
    BY HoldersFinite, WorkerAssumption DEF TypeOK, StoreType, HistoryType
  <2>2. Cardinality(Answered(e)) <= Cardinality(Workers)
    <3>1. Answered(e) \subseteq Workers
      BY DEF Answered
    <3> QED
      BY <3>1, WorkerAssumption, FS_Subset
  <2>3. CASE e \in acked
    BY <2>1, <2>3 DEF RepliesInv
  <2>4. CASE e \notin acked
    BY <2>1, <2>2, <2>4 DEF RepliesInv
  <2> QED
    BY <2>3, <2>4
<1> QED
  BY <1>1, <1>2, <1>3, TypeCorrect, PTL DEF Spec
===============================================================================
