----------------------------- MODULE SenderProofs -----------------------------
(***************************************************************************)
(* Proofs about Sender, for every number of senders, batch size, MAXLEN    *)
(* and number of abandoned batches.                                        *)
(***************************************************************************)
EXTENDS Sender, TLAPS

(* The theorems about StreamGroup, for the stream of the senders.  Its
   definitions come in a second time with them, as BusProofs!...; StreamKept
   identifies the two. *)
BusProofs == INSTANCE StreamGroupProofs WITH
  Consumers <- Senders, Claimers <- {}, Trimmers <- Senders, ClaimCount <- 1,
  MaxCrashes <- MaxAbandons, MaxFlushes <- 0

Batch == Bus!Oldest(Bus!Undelivered, Count)

(* What each sender action does, without the bus's operators. *)
LEMMA ConsumeStep ==
  ASSUME NEW s \in Senders, Consume(s)
  PROVE  /\ pc[s] = "consume" /\ pc' = [pc EXCEPT ![s] = "resolve"]
         /\ held[s] = {} /\ held' = [held EXCEPT ![s] = Batch]
         /\ delivered' \in Batch /\ \A i \in Batch : i <= delivered'
         /\ pel' = pel \cup Batch
         /\ group = "exists"
         /\ UNCHANGED <<top, stream, group, idle, snap, acked, crashes, flushes, sends, logged>>
BY DEF Consume, Bus!Consume, Goto, Batch

LEMMA BatchIsNew == Batch \subseteq stream /\ \A i \in Batch : i > delivered
BY DEF Batch, Bus!Oldest, Bus!Undelivered

-------------------------------------------------------------------------------
(* Every variable keeps its type. *)
THEOREM TypeCorrect == Spec => []TypeOK
<1>1. Init => TypeOK
  BY SenderAssumption DEF Init, TypeOK, Bus!Init, Bus!TypeOK
<1>2. TypeOK /\ [Next]_vars => TypeOK'
  <2> SUFFICES ASSUME TypeOK, [Next]_vars PROVE TypeOK'
    OBVIOUS
  <2>1. CASE Publish
    <3>1. top \in Nat /\ top < MaxEntries /\ top' = top + 1 /\ stream' \subseteq stream \cup {top + 1}
      BY <2>1 DEF Publish, Bus!Publish, TypeOK, Bus!TypeOK
    <3>2. UNCHANGED <<group, delivered, pel, idle, held, snap, acked, crashes, flushes, pc, sends, logged>>
      BY <2>1 DEF Publish, Bus!Publish
    <3>3. top' \in 0..MaxEntries /\ 1..top \subseteq 1..top' /\ 0..top \subseteq 0..top' /\ top + 1 \in 1..top'
      BY <3>1, SenderAssumption
    <3>4. stream' \subseteq 1..top'
      BY <3>1, <3>3 DEF TypeOK, Bus!TypeOK
    <3> QED
      BY <3>2, <3>3, <3>4 DEF TypeOK, Bus!TypeOK
  <2>2. CASE CreateGroup
    BY <2>2 DEF CreateGroup, Bus!CreateGroup, TypeOK, Bus!TypeOK
  <2>3. ASSUME NEW s \in Senders, Consume(s) PROVE TypeOK'
    <3>1. Batch \subseteq 1..top /\ delivered' \in 0..top /\ top' = top
      <4>1. Batch \subseteq 1..top
        BY BatchIsNew DEF TypeOK, Bus!TypeOK
      <4>2. delivered' \in Batch /\ top' = top
        BY <2>3, ConsumeStep
      <4>3. 1..top \subseteq 0..top
        OBVIOUS
      <4> QED
        BY <4>1, <4>2, <4>3
    <3>2. pel' \subseteq 1..top /\ idle' = idle /\ idle \subseteq pel'
      BY <2>3, <3>1, ConsumeStep DEF TypeOK, Bus!TypeOK
    <3>3. held' \in [Senders -> SUBSET (1..top)]
      BY <2>3, <3>1, ConsumeStep DEF TypeOK, Bus!TypeOK
    <3>4. pc' \in [Senders -> {"consume", "resolve", "send", "ack", "trim", "trimApply"}]
      BY <2>3, ConsumeStep DEF TypeOK
    <3> QED
      BY <2>3, <3>1, <3>2, <3>3, <3>4, ConsumeStep DEF TypeOK, Bus!TypeOK
  <2>4. ASSUME NEW s \in Senders, Resolve(s) PROVE TypeOK'
    <3>1. logged' \subseteq 1..top
      BY <2>4 DEF Resolve, TypeOK, Bus!TypeOK
    <3>2. pc' \in [Senders -> {"consume", "resolve", "send", "ack", "trim", "trimApply"}]
      BY <2>4 DEF Resolve, Goto, TypeOK
    <3> QED
      BY <2>4, <3>1, <3>2 DEF Resolve, bus, TypeOK, Bus!TypeOK
  <2>5. ASSUME NEW s \in Senders, Send(s) PROVE TypeOK'
    <3>1. logged' \subseteq 1..top
      BY <2>5 DEF Send, TypeOK, Bus!TypeOK
    <3>2. pc' \in [Senders -> {"consume", "resolve", "send", "ack", "trim", "trimApply"}]
      BY <2>5 DEF Send, Goto, TypeOK
    <3>3. \E e \in Replies : sends' = sends \/ sends' = [sends EXCEPT ![e] = @ + 1]
      <4>1. \E e \in held[s] : sends' = sends \/ sends' = [sends EXCEPT ![e] = @ + 1]
        BY <2>5 DEF Send
      <4>2. held[s] \subseteq 1..top /\ top \in 0..MaxEntries
        BY DEF TypeOK, Bus!TypeOK
      <4>3. held[s] \subseteq Replies
        BY <4>2, SenderAssumption DEF Replies
      <4> QED
        BY <4>1, <4>3
    <3>4. sends' \in [Replies -> Nat]
      BY <3>3 DEF TypeOK
    <3> QED
      BY <2>5, <3>1, <3>2, <3>4 DEF Send, bus, TypeOK, Bus!TypeOK
  <2>6. ASSUME NEW s \in Senders, Ack(s) PROVE TypeOK'
    <3>1. \E e \in 1..top : /\ held' = [held EXCEPT ![s] = @ \ {e}]
                            /\ pel' = pel \ {e} /\ idle' = idle \ {e} /\ acked' = acked \cup {e}
      BY <2>6 DEF Ack, Bus!Ack, TypeOK, Bus!TypeOK
    <3>2. pc' \in [Senders -> {"consume", "resolve", "send", "ack", "trim", "trimApply"}]
      BY <2>6 DEF Ack, Goto, TypeOK
    <3>3. UNCHANGED <<top, stream, group, delivered, snap, crashes, flushes, sends, logged>>
      BY <2>6 DEF Ack, Bus!Ack
    <3>4. held' \in [Senders -> SUBSET (1..top)]
      BY <3>1 DEF TypeOK, Bus!TypeOK
    <3>5. pel' \subseteq 1..top /\ idle' \subseteq pel' /\ acked' \subseteq 1..top
      BY <3>1 DEF TypeOK, Bus!TypeOK
    <3> QED
      BY <3>2, <3>3, <3>4, <3>5 DEF TypeOK, Bus!TypeOK
  <2>7. ASSUME NEW s \in Senders, Trim(s) PROVE TypeOK'
    <3>1. snap' \in [Senders -> 0..top]
      BY <2>7 DEF Trim, Bus!TrimInfo, bus, TypeOK, Bus!TypeOK
    <3>2. pc' \in [Senders -> {"consume", "resolve", "send", "ack", "trim", "trimApply"}]
      BY <2>7 DEF Trim, Goto, TypeOK
    <3>3. UNCHANGED <<top, stream, group, delivered, pel, idle, held, acked, crashes, flushes,
                      sends, logged>>
      BY <2>7 DEF Trim, Bus!TrimInfo, Bus!redis, bus
    <3> QED
      BY <3>1, <3>2, <3>3 DEF TypeOK, Bus!TypeOK
  <2>8. ASSUME NEW s \in Senders, TrimApply(s) PROVE TypeOK'
    <3>1. stream' \subseteq stream
      BY <2>8 DEF TrimApply, Bus!TrimApply
    <3>2. snap' \in [Senders -> 0..top]
      BY <2>8 DEF TrimApply, Bus!TrimApply, TypeOK, Bus!TypeOK
    <3>3. pc' \in [Senders -> {"consume", "resolve", "send", "ack", "trim", "trimApply"}]
      BY <2>8 DEF TrimApply, Goto, TypeOK
    <3>4. UNCHANGED <<top, group, delivered, pel, idle, held, acked, crashes, flushes,
                      sends, logged>>
      BY <2>8 DEF TrimApply, Bus!TrimApply
    <3> QED
      BY <3>1, <3>2, <3>3, <3>4 DEF TypeOK, Bus!TypeOK
  <2>9. ASSUME NEW s \in Senders, Abandon(s) PROVE TypeOK'
    BY <2>9, SenderAssumption DEF Abandon, Bus!Crash, Bus!redis, Goto, TypeOK, Bus!TypeOK
  <2>10. CASE UNCHANGED vars
    BY <2>10 DEF vars, bus, TypeOK, Bus!TypeOK
  <2> QED
    BY <2>1, <2>2, <2>3, <2>4, <2>5, <2>6, <2>7, <2>8, <2>9, <2>10 DEF Next, Step
<1> QED
  BY <1>1, <1>2, PTL DEF Spec

-------------------------------------------------------------------------------
(* Why no reply is sent twice: an entry is in one sender's batch at most,
   only entries behind last-delivered-id were ever in one, and an entry that
   was sent and is still in a batch is the one its sender is about to
   acknowledge. *)
HeldOnce ==
  /\ group = "absent" => delivered = 0
  /\ \A s \in Senders :
       /\ held[s] \subseteq 1..delivered
       /\ held[s] = {} <=> pc[s] \in {"consume", "trim", "trimApply"}
       /\ \A t \in Senders : s # t => held[s] \cap held[t] = {}

SentInv ==
  \A e \in Replies :
    /\ sends[e] <= 1
    /\ sends[e] = 1 => /\ e <= delivered
                       /\ \A s \in Senders : e \in held[s] => pc[s] = "ack" /\ Current(s, e)

LEMMA HeldOnceInductive ==
  ASSUME TypeOK, HeldOnce, [Next]_vars PROVE HeldOnce'
<1>1. CASE Publish
  BY <1>1 DEF Publish, Bus!Publish, HeldOnce
<1>2. CASE CreateGroup
  BY <1>2 DEF CreateGroup, Bus!CreateGroup, HeldOnce
<1>3. ASSUME NEW s \in Senders, Consume(s) PROVE HeldOnce'
  <2>0. /\ delivered' \in Batch /\ Batch \subseteq Nat \ {0} /\ delivered \in Nat
        /\ \A i \in Batch : delivered < i /\ i <= delivered'
    BY <1>3, ConsumeStep, BatchIsNew DEF TypeOK, Bus!TypeOK
  <2>1. Batch # {} /\ Batch \subseteq 1..delivered' /\ Batch \cap 1..delivered = {}
        /\ delivered < delivered' /\ delivered \in Nat /\ delivered' \in Nat
    BY <2>0
  <2>2. pc' = [pc EXCEPT ![s] = "resolve"] /\ held' = [held EXCEPT ![s] = Batch]
        /\ group' = group /\ group = "exists"
    BY <1>3, ConsumeStep
  <2>3. \A t \in Senders : t # s => held'[t] = held[t] /\ pc'[t] = pc[t]
    BY <2>2 DEF TypeOK, Bus!TypeOK
  <2>4. held'[s] = Batch /\ pc'[s] = "resolve"
    BY <2>2 DEF TypeOK, Bus!TypeOK
  <2>5. \A t \in Senders : held[t] \subseteq 1..delivered'
    BY <2>1 DEF HeldOnce
  <2>6. \A t \in Senders : held'[t] \subseteq 1..delivered'
    BY <2>1, <2>3, <2>4, <2>5
  <2>7. \A t \in Senders : held'[t] = {} <=> pc'[t] \in {"consume", "trim", "trimApply"}
    BY <2>1, <2>3, <2>4 DEF HeldOnce
  <2>8. \A t \in Senders : t # s => held'[t] \cap Batch = {}
    BY <2>1, <2>3 DEF HeldOnce
  <2>9. \A t, u \in Senders : t # u => held'[t] \cap held'[u] = {}
    BY <2>3, <2>4, <2>8 DEF HeldOnce
  <2> QED
    BY <2>2, <2>6, <2>7, <2>9 DEF HeldOnce
<1>4. ASSUME NEW s \in Senders, Resolve(s) \/ Send(s) PROVE HeldOnce'
  BY <1>4 DEF Resolve, Send, Goto, bus, TypeOK, HeldOnce
<1>5. ASSUME NEW s \in Senders, Ack(s) PROVE HeldOnce'
  <2>1. PICK e \in held[s] : /\ held' = [held EXCEPT ![s] = @ \ {e}]
                             /\ pc' = [pc EXCEPT ![s] = IF held[s] = {e} THEN "trim" ELSE "resolve"]
    BY <1>5 DEF Ack, Bus!Ack, Goto
  <2>2. UNCHANGED <<group, delivered>>
    BY <1>5 DEF Ack, Bus!Ack
  <2>3. \A t \in Senders : held'[t] \subseteq held[t]
    BY <2>1 DEF TypeOK, Bus!TypeOK
  <2>4. \A t \in Senders : held'[t] = {} <=> pc'[t] \in {"consume", "trim", "trimApply"}
    BY <2>1 DEF HeldOnce, TypeOK, Bus!TypeOK
  <2> QED
    BY <2>2, <2>3, <2>4 DEF HeldOnce
<1>6. ASSUME NEW s \in Senders, Trim(s) \/ TrimApply(s) PROVE HeldOnce'
  BY <1>6 DEF Trim, TrimApply, Bus!TrimInfo, Bus!TrimApply, Bus!redis, Goto, bus, TypeOK, HeldOnce
<1>7. ASSUME NEW s \in Senders, Abandon(s) PROVE HeldOnce'
  BY <1>7 DEF Abandon, Bus!Crash, Bus!redis, Goto, TypeOK, Bus!TypeOK, HeldOnce
<1>8. CASE UNCHANGED vars
  BY <1>8 DEF vars, bus, HeldOnce
<1> QED
  BY <1>1, <1>2, <1>3, <1>4, <1>5, <1>6, <1>7, <1>8 DEF Next, Step

LEMMA SentInductive ==
  ASSUME TypeOK, HeldOnce, SentInv, [Next]_vars PROVE SentInv'
<1>1. CASE Publish \/ CreateGroup
  <2>1. UNCHANGED <<sends, pc, held>> /\ (delivered' = delivered \/ group = "absent")
    BY <1>1 DEF Publish, CreateGroup, Bus!Publish, Bus!CreateGroup
  <2>2. delivered' = delivered
    BY <1>1, <2>1 DEF Publish, CreateGroup, Bus!Publish, Bus!CreateGroup, HeldOnce
  <2> QED
    BY <2>1, <2>2 DEF SentInv, Current
<1>2. ASSUME NEW s \in Senders, Consume(s) PROVE SentInv'
  <2>1. sends' = sends /\ pc[s] = "consume" /\ held[s] = {}
        /\ pc' = [pc EXCEPT ![s] = "resolve"] /\ held' = [held EXCEPT ![s] = Batch]
    BY <1>2, ConsumeStep
  <2>2. \A i \in Batch : delivered < i /\ i <= delivered' /\ i \in Nat
    BY <1>2, ConsumeStep, BatchIsNew DEF TypeOK, Bus!TypeOK
  <2>3. delivered \in Nat /\ delivered' \in Nat /\ delivered < delivered'
    BY <1>2, <2>2, ConsumeStep DEF TypeOK, Bus!TypeOK
  <2>4. \A t \in Senders : t # s => held'[t] = held[t] /\ pc'[t] = pc[t]
    BY <2>1 DEF TypeOK, Bus!TypeOK
  <2>5. held'[s] = Batch
    BY <2>1 DEF TypeOK, Bus!TypeOK
  <2> QED
    BY <2>1, <2>2, <2>3, <2>4, <2>5 DEF SentInv, Current, Replies
<1>3. ASSUME NEW s \in Senders, Resolve(s) PROVE SentInv'
  <2>1. UNCHANGED <<sends, held, delivered>> /\ pc[s] = "resolve"
    BY <1>3 DEF Resolve, bus
  <2>2. \A t \in Senders : t # s => pc'[t] = pc[t]
    BY <1>3 DEF Resolve, Goto, TypeOK
  <2> QED
    BY <2>1, <2>2 DEF SentInv, Current
<1>4. ASSUME NEW s \in Senders, Send(s) PROVE SentInv'
  <2>1. PICK e \in held[s] : /\ Current(s, e)
                             /\ sends' = sends \/ sends' = [sends EXCEPT ![e] = @ + 1]
    BY <1>4 DEF Send
  <2>2. UNCHANGED <<held, delivered>> /\ pc[s] = "send" /\ pc' = [pc EXCEPT ![s] = "ack"]
    BY <1>4 DEF Send, bus, Goto
  <2>3. \A t \in Senders : t # s => pc'[t] = pc[t] /\ e \notin held[t]
    BY <2>1, <2>2 DEF TypeOK, HeldOnce
  <2>4. pc'[s] = "ack" /\ e \in Replies /\ e <= delivered
    <3>1. pc'[s] = "ack"
      BY <2>2 DEF TypeOK
    <3>2. e \in 1..delivered /\ delivered \in 0..top /\ top \in 0..MaxEntries
      BY <2>1 DEF HeldOnce, TypeOK, Bus!TypeOK
    <3> QED
      BY <3>1, <3>2, SenderAssumption DEF Replies
  <2>5. sends[e] = 0
    BY <2>1, <2>2, <2>4 DEF SentInv, TypeOK
  <2>6. SUFFICES ASSUME NEW f \in Replies
                 PROVE  /\ sends'[f] <= 1
                        /\ sends'[f] = 1 =>
                             /\ f <= delivered'
                             /\ \A t \in Senders : f \in held'[t] => pc'[t] = "ack" /\ Current(t, f)'
    BY DEF SentInv
  <2>7. CASE f = e
    BY <2>1, <2>2, <2>3, <2>4, <2>5, <2>7 DEF TypeOK, Current
  <2>8. CASE f # e
    <3>1. sends'[f] = sends[f]
      BY <2>1, <2>8 DEF TypeOK
    <3> QED
      BY <2>2, <2>3, <2>4, <3>1 DEF SentInv, Current
  <2> QED
    BY <2>7, <2>8
<1>5. ASSUME NEW s \in Senders, Ack(s) PROVE SentInv'
  <2>1. PICK e \in held[s] : Current(s, e) /\ held' = [held EXCEPT ![s] = @ \ {e}]
    BY <1>5 DEF Ack, Bus!Ack
  <2>2. UNCHANGED <<sends, delivered>>
    BY <1>5 DEF Ack, Bus!Ack
  <2>3. \A t \in Senders : t # s => pc'[t] = pc[t] /\ held'[t] = held[t]
    BY <1>5, <2>1 DEF Ack, Goto, TypeOK, Bus!TypeOK
  <2>4. held'[s] = held[s] \ {e} /\ held[s] \subseteq Nat /\ e \in Nat
    BY <2>1 DEF TypeOK, Bus!TypeOK
  <2>5. \A f \in held'[s] \cap Replies : sends[f] # 1
    BY <2>1, <2>4 DEF SentInv, Current
  <2> QED
    BY <2>2, <2>3, <2>5 DEF SentInv, Current
<1>6. ASSUME NEW s \in Senders, Trim(s) \/ TrimApply(s) PROVE SentInv'
  <2>1. UNCHANGED <<sends, held, delivered>> /\ pc[s] # "ack"
        /\ \A t \in Senders : t # s => pc'[t] = pc[t]
    BY <1>6 DEF Trim, TrimApply, Bus!TrimInfo, Bus!TrimApply, Bus!redis, Goto, bus, TypeOK
  <2> QED
    BY <2>1 DEF SentInv, Current
<1>7. ASSUME NEW s \in Senders, Abandon(s) PROVE SentInv'
  <2>1. UNCHANGED <<sends, delivered>> /\ held' = [held EXCEPT ![s] = {}]
        /\ \A t \in Senders : t # s => pc'[t] = pc[t]
    BY <1>7 DEF Abandon, Bus!Crash, Bus!redis, Goto, TypeOK
  <2>2. held'[s] = {} /\ \A t \in Senders : t # s => held'[t] = held[t]
    BY <2>1 DEF TypeOK, Bus!TypeOK
  <2> QED
    BY <2>1, <2>2 DEF SentInv, Current
<1>8. CASE UNCHANGED vars
  BY <1>8 DEF vars, bus, SentInv, Current
<1> QED
  BY <1>1, <1>2, <1>3, <1>4, <1>5, <1>6, <1>7, <1>8 DEF Next, Step

(* No reply reaches Evolution twice, whatever sender fails between the answer
   and the acknowledgement. *)
THEOREM SentOnce == Spec => []NeverSentTwice
<1>1. Init => HeldOnce /\ SentInv
  BY SenderAssumption DEF Init, Bus!Init, HeldOnce, SentInv, Current
<1>2. SentInv => NeverSentTwice
  BY DEF SentInv, NeverSentTwice
<1> QED
  BY <1>1, <1>2, TypeCorrect, HeldOnceInductive, SentInductive, PTL DEF Spec

-------------------------------------------------------------------------------
(* What was acknowledged, and what a sender is about to acknowledge, was sent
   or logged. *)
TriedInv ==
  /\ \A e \in acked : Tried(e)
  /\ \A s \in Senders, e \in Replies : pc[s] = "ack" /\ Current(s, e) => Tried(e)

LEMMA TriedInductive ==
  ASSUME TypeOK, TriedInv, [Next]_vars PROVE TriedInv'
<1>0. \A e \in Replies : sends[e] \in Nat
  BY DEF TypeOK
<1>00. acked \subseteq Replies /\ \A s \in Senders : held[s] \subseteq Replies
  <2>1. top \in 0..MaxEntries /\ acked \subseteq 1..top
        /\ \A s \in Senders : held[s] \subseteq 1..top
    BY DEF TypeOK, Bus!TypeOK
  <2> QED
    BY <2>1, SenderAssumption DEF Replies
<1>1. CASE Publish \/ CreateGroup
  BY <1>1 DEF Publish, CreateGroup, Bus!Publish, Bus!CreateGroup, TriedInv, Tried, Current
<1>2. ASSUME NEW s \in Senders, Consume(s) PROVE TriedInv'
  <2>1. UNCHANGED <<sends, logged, acked>>
    BY <1>2, ConsumeStep
  <2>2. \A t \in Senders : pc'[t] = "ack" => pc[t] = "ack" /\ held'[t] = held[t]
    BY <1>2, ConsumeStep DEF TypeOK, Bus!TypeOK
  <2> QED
    BY <2>1, <2>2 DEF TriedInv, Tried, Current
<1>3. ASSUME NEW s \in Senders, Resolve(s) PROVE TriedInv'
  <2>1. PICK e \in held[s] : /\ Current(s, e)
                             /\ IF e \in Deliverable
                                THEN Goto(s, "send") /\ UNCHANGED logged
                                ELSE Goto(s, "ack") /\ logged' = logged \cup {e}
    BY <1>3 DEF Resolve
  <2>2. UNCHANGED <<sends, held, acked>> /\ logged \subseteq logged'
    BY <1>3 DEF Resolve, bus
  <2>3. \A t \in Senders : t # s => pc'[t] = pc[t]
    BY <2>1 DEF Goto, TypeOK
  <2>4. pc'[s] = "ack" => e \in logged'
    BY <2>1 DEF Goto, TypeOK
  <2>5. \A f : Current(s, f) => f = e
    BY <2>1, <1>00 DEF Current, Replies
  <2> QED
    BY <2>2, <2>3, <2>4, <2>5 DEF TriedInv, Tried, Current
<1>4. ASSUME NEW s \in Senders, Send(s) PROVE TriedInv'
  <2>1. PICK e \in held[s], accepted \in BOOLEAN, answered \in BOOLEAN :
          /\ Current(s, e)
          /\ sends' = IF accepted THEN [sends EXCEPT ![e] = @ + 1] ELSE sends
          /\ logged' = IF accepted /\ answered THEN logged ELSE logged \cup {e}
    BY <1>4 DEF Send
  <2>2. UNCHANGED <<held, acked>> /\ \A t \in Senders : t # s => pc'[t] = pc[t]
    BY <1>4 DEF Send, bus, Goto, TypeOK
  <2>3. \A f \in Replies : sends[f] > 0 \/ f \in logged => sends'[f] > 0 \/ f \in logged'
    BY <1>0, <2>1 DEF TypeOK
  <2>4. sends'[e] > 0 \/ e \in logged'
    BY <1>0, <1>00, <2>1 DEF TypeOK
  <2>5. \A f : Current(s, f) => f = e
    BY <2>1, <1>00 DEF Current, Replies
  <2> QED
    BY <1>00, <2>2, <2>3, <2>4, <2>5 DEF TriedInv, Tried, Current
<1>5. ASSUME NEW s \in Senders, Ack(s) PROVE TriedInv'
  <2>1. PICK e \in held[s] : Current(s, e) /\ acked' = acked \cup {e}
    BY <1>5 DEF Ack, Bus!Ack
  <2>2. UNCHANGED <<sends, logged>> /\ pc[s] = "ack"
    BY <1>5 DEF Ack
  <2>3. pc'[s] # "ack" /\ \A t \in Senders : t # s => pc'[t] = pc[t] /\ held'[t] = held[t]
    BY <1>5 DEF Ack, Bus!Ack, Goto, TypeOK, Bus!TypeOK
  <2>4. sends[e] > 0 \/ e \in logged
    BY <1>00, <2>1, <2>2 DEF TriedInv, Tried
  <2> QED
    BY <2>1, <2>2, <2>3, <2>4 DEF TriedInv, Tried, Current
<1>6. ASSUME NEW s \in Senders, Trim(s) \/ TrimApply(s) \/ Abandon(s) PROVE TriedInv'
  <2>1. UNCHANGED <<sends, logged, acked>>
    BY <1>6 DEF Trim, TrimApply, Abandon, Bus!TrimInfo, Bus!TrimApply, Bus!Crash, Bus!redis, bus
  <2>2. pc'[s] # "ack" /\ \A t \in Senders : t # s => pc'[t] = pc[t]
    BY <1>6 DEF Trim, TrimApply, Abandon, Goto, TypeOK
  <2>3. \A t \in Senders : t # s => held'[t] = held[t]
    BY <1>6 DEF Trim, TrimApply, Abandon, Bus!TrimInfo, Bus!TrimApply, Bus!Crash, bus, TypeOK, Bus!TypeOK
  <2> QED
    BY <2>1, <2>2, <2>3 DEF TriedInv, Tried, Current
<1>7. CASE UNCHANGED vars
  BY <1>7 DEF vars, bus, TriedInv, Tried, Current
<1> QED
  BY <1>1, <1>2, <1>3, <1>4, <1>5, <1>6, <1>7 DEF Next, Step

(* The senders drive the stream through the operations of StreamGroup only. *)
LEMMA BusStep == TypeOK /\ [Next]_vars => [Bus!Next]_(Bus!vars)
<1> SUFFICES ASSUME TypeOK, [Next]_vars PROVE [Bus!Next]_(Bus!vars)
  OBVIOUS
<1>1. CASE Publish \/ CreateGroup
  BY <1>1 DEF Publish, CreateGroup, Bus!Next
<1>2. ASSUME NEW s \in Senders, Consume(s) \/ TrimApply(s) \/ Abandon(s)
      PROVE  [Bus!Next]_(Bus!vars)
  BY <1>2 DEF Consume, TrimApply, Abandon, Bus!Next
<1>3. ASSUME NEW s \in Senders, Ack(s) PROVE [Bus!Next]_(Bus!vars)
  <2>1. top \in 0..MaxEntries /\ held[s] \subseteq 1..top
    BY DEF TypeOK, Bus!TypeOK
  <2>2. held[s] \subseteq Bus!Ids
    BY <2>1, SenderAssumption DEF Bus!Ids
  <2> QED
    BY <1>3, <2>2 DEF Ack, Bus!Next
<1>4. ASSUME NEW s \in Senders, Resolve(s) \/ Send(s) \/ Trim(s) PROVE [Bus!Next]_(Bus!vars)
  <2>1. Bus!TrimInfo(s) \/ UNCHANGED bus
    BY <1>4 DEF Resolve, Send, Trim
  <2> QED
    BY <2>1 DEF Bus!Next, Bus!vars, Bus!redis, bus
<1>5. CASE UNCHANGED vars
  BY <1>5 DEF vars, bus, Bus!vars, Bus!redis
<1> QED
  BY <1>1, <1>2, <1>3, <1>4, <1>5 DEF Next, Step

(* What StreamGroup promises, of the stream the senders drive. *)
LEMMA StreamKept == Spec => []Bus!NothingLost
<1>1. BusProofs!ConstantsAssumption
  BY SenderAssumption DEF BusProofs!ConstantsAssumption
<1>2. Init => BusProofs!Init
  BY DEF Init, Bus!Init, BusProofs!Init
<1>3. [Bus!Next]_(Bus!vars) => [BusProofs!Next]_(BusProofs!vars)
  <2>1. Bus!Ids = BusProofs!Ids
    BY DEF Bus!Ids, BusProofs!Ids
  <2>2. ASSUME NEW S PROVE Bus!Cardinality(S) = BusProofs!Cardinality(S)
    BY Zenon DEF Bus!Cardinality, BusProofs!Cardinality
  <2>3. \A S, n : Bus!Oldest(S, n) = BusProofs!Oldest(S, n)
    BY <2>2 DEF Bus!Oldest, BusProofs!Oldest
  <2>4. Bus!Undelivered = BusProofs!Undelivered
    BY DEF Bus!Undelivered, BusProofs!Undelivered
  <2>5. Bus!Publish => BusProofs!Publish
    BY <2>2 DEF Bus!Publish, BusProofs!Publish
  <2>6. /\ Bus!CreateGroup => BusProofs!CreateGroup
        /\ Bus!Flush => BusProofs!Flush
        /\ \A i : Bus!Age(i) => BusProofs!Age(i)
    BY DEF Bus!CreateGroup, BusProofs!CreateGroup,
           Bus!Flush, BusProofs!Flush, Bus!Age, BusProofs!Age
  <2>7. ASSUME NEW c \in Senders
        PROVE  /\ Bus!Consume(c) => BusProofs!Consume(c)
               /\ Bus!ClaimPending(c) => BusProofs!ClaimPending(c)
    BY <2>3, <2>4
    DEF Bus!Consume, BusProofs!Consume, Bus!ClaimPending, BusProofs!ClaimPending
  <2>8. ASSUME NEW c \in Senders
        PROVE  /\ \A i : Bus!Ack(c, i) => BusProofs!Ack(c, i)
               /\ Bus!TrimInfo(c) => BusProofs!TrimInfo(c)
               /\ Bus!TrimApply(c) => BusProofs!TrimApply(c)
               /\ Bus!Crash(c) => BusProofs!Crash(c)
    BY DEF Bus!Ack, BusProofs!Ack, Bus!TrimInfo, BusProofs!TrimInfo, Bus!TrimApply,
           BusProofs!TrimApply, Bus!Crash, BusProofs!Crash, Bus!redis, BusProofs!redis
  <2>9. ASSUME Bus!Next PROVE BusProofs!Next
    <3>1. CASE Bus!Publish \/ Bus!CreateGroup \/ Bus!Flush
      BY <2>5, <2>6, <3>1 DEF BusProofs!Next
    <3>2. CASE \E i \in Bus!Ids : Bus!Age(i)
      BY <2>1, <2>6, <3>2 DEF BusProofs!Next
    <3>3. ASSUME NEW c \in Senders, Bus!Consume(c) \/ Bus!ClaimPending(c)
          PROVE  BusProofs!Next
      BY <2>7, <3>3 DEF BusProofs!Next
    <3>4. ASSUME NEW c \in Senders,
                 \/ \E i \in Bus!Ids : Bus!Ack(c, i)
                 \/ Bus!TrimInfo(c) \/ Bus!TrimApply(c) \/ Bus!Crash(c)
          PROVE  BusProofs!Next
      BY <2>1, <2>8, <3>4 DEF BusProofs!Next
    <3> QED
      BY <2>9, <3>1, <3>2, <3>3, <3>4 DEF Bus!Next
  <2> QED
    BY <2>9 DEF Bus!vars, Bus!redis, BusProofs!vars, BusProofs!redis
<1>4. BusProofs!Spec => []BusProofs!NothingLost
  BY <1>1, BusProofs!AtLeastOnce, PTL
<1>5. BusProofs!NothingLost => Bus!NothingLost
  BY DEF Bus!NothingLost, BusProofs!NothingLost, Bus!LossFree, BusProofs!LossFree
<1> QED
  BY <1>2, <1>3, <1>4, <1>5, BusStep, TypeCorrect, PTL DEF Spec, BusProofs!Spec

(* No reply is acknowledged, and none below MAXLEN leaves the stream, that was
   neither accepted by Evolution nor logged. *)
THEOREM Traced == Spec => []NoSilentDrop
<1>1. Init => TriedInv
  BY DEF Init, Bus!Init, TriedInv
<1>2. TriedInv /\ Bus!NothingLost => NoSilentDrop
  BY DEF TriedInv, NoSilentDrop, Bus!NothingLost
<1> QED
  BY <1>1, <1>2, TypeCorrect, TriedInductive, StreamKept, PTL DEF Spec
===============================================================================
