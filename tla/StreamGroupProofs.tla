--------------------------- MODULE StreamGroupProofs ---------------------------
(***************************************************************************)
(* Proofs about StreamGroup, for every number of consumers, batch size,    *)
(* MAXLEN, crash and flush.                                                *)
(***************************************************************************)
EXTENDS StreamGroup, FiniteSetTheorems, TLAPS

(* A COUNT-limited read in id order is a prefix of what there is to read:
   with an entry it returns every older one. *)
LEMMA OldestIsPrefix ==
  ASSUME NEW S, IsFiniteSet(S), S \subseteq Nat, NEW n \in Nat,
         NEW m \in Oldest(S, n), NEW i \in S, i <= m
  PROVE  i \in Oldest(S, n)
<1> DEFINE Below(k) == {j \in S : j < k}
<1>1. Below(m) \subseteq S
  OBVIOUS
<1>2. m \in S /\ m \in Nat /\ i \in Nat
  BY DEF Oldest
<1>3. Below(i) \subseteq Below(m)
  <2> SUFFICES ASSUME NEW x \in S, x < i PROVE x < m
    OBVIOUS
  <2>1. x \in Nat
    OBVIOUS
  <2> QED
    BY <1>2, <2>1
<1>4. IsFiniteSet(Below(m))
  BY <1>1, FS_Subset
<1>5. IsFiniteSet(Below(i)) /\ Cardinality(Below(i)) <= Cardinality(Below(m))
  BY <1>3, <1>4, FS_Subset
<1>6. Cardinality(Below(i)) \in Nat /\ Cardinality(Below(m)) \in Nat
  BY <1>4, <1>5, FS_CardinalityType
<1>7. Cardinality(Below(m)) < n
  BY DEF Oldest
<1>8. Cardinality(Below(i)) < n
  BY <1>5, <1>6, <1>7
<1> QED
  BY <1>8 DEF Oldest

LEMMA OldestIsSubset ==
  ASSUME NEW S, NEW n
  PROVE  Oldest(S, n) \subseteq S
BY DEF Oldest

-------------------------------------------------------------------------------
(* Every variable keeps its type, whatever the constants. *)
THEOREM TypeCorrect == Spec => []TypeOK
<1>1. Init => TypeOK
  <2> SUFFICES ASSUME Init PROVE TypeOK
    OBVIOUS
  <2>1. top \in 0..MaxEntries /\ crashes \in 0..MaxCrashes /\ flushes \in 0..MaxFlushes
    BY ConstantsAssumption DEF Init
  <2>2. stream \subseteq 1..top /\ group \in {"absent", "exists"} /\ delivered \in 0..top
    BY DEF Init
  <2>3. pel \subseteq 1..top /\ idle \subseteq pel /\ acked \subseteq 1..top
    BY DEF Init
  <2>4. held \in [Consumers -> SUBSET (1..top)] /\ snap \in [Consumers -> 0..top]
    BY DEF Init
  <2> QED
    BY <2>1, <2>2, <2>3, <2>4 DEF TypeOK
<1>2. TypeOK /\ [Next]_vars => TypeOK'
  <2> SUFFICES ASSUME TypeOK, [Next]_vars PROVE TypeOK'
    OBVIOUS
  <2> USE ConstantsAssumption
  <2>1. CASE Publish
    <3> DEFINE kept(low) == {i \in stream \cup {top + 1} : i >= low}
    <3>a. PICK low \in 1..(top + 1) : stream' = kept(low)
      BY <2>1 DEF Publish
    <3>b. stream \cup {top + 1} \subseteq 1..(top + 1)
      BY DEF TypeOK
    <3>1. stream' \subseteq 1..top'
      BY <2>1, <3>a, <3>b DEF Publish
    <3> HIDE DEF kept
    <3> QED
      BY <2>1, <3>1 DEF Publish, TypeOK
  <2>2. CASE CreateGroup
    BY <2>2 DEF CreateGroup, TypeOK
  <2>3. ASSUME NEW i \in Ids, Age(i) PROVE TypeOK'
    BY <2>3 DEF Age, TypeOK
  <2>4. ASSUME NEW c \in Consumers, Consume(c) PROVE TypeOK'
    <3>1. Oldest(Undelivered, Count) \subseteq 1..top
      BY OldestIsSubset DEF Undelivered, TypeOK
    <3>2. delivered' \in 1..top' /\ pel' \subseteq 1..top'
      BY <2>4, <3>1 DEF Consume, TypeOK
    <3>3. held' \in [Consumers -> SUBSET (1..top')]
      BY <2>4, <3>1 DEF Consume, TypeOK
    <3> QED
      BY <2>4, <3>2, <3>3 DEF Consume, TypeOK
  <2>5. ASSUME NEW c \in Consumers, ClaimPending(c) PROVE TypeOK'
    <3>1. Oldest(idle, ClaimCount) \subseteq idle
      BY OldestIsSubset
    <3> QED
      BY <2>5, <3>1 DEF ClaimPending, TypeOK
  <2>6. ASSUME NEW c \in Consumers, NEW i \in Ids, Ack(c, i) PROVE TypeOK'
    <3>1. i \in 1..top /\ acked' \subseteq 1..top'
      BY <2>6 DEF Ack, TypeOK
    <3>2. held' \in [Consumers -> SUBSET (1..top')]
      BY <2>6 DEF Ack, TypeOK
    <3> QED
      BY <2>6, <3>1, <3>2 DEF Ack, TypeOK
  <2>7. ASSUME NEW c \in Consumers, TrimInfo(c) PROVE TypeOK'
    <3>1. snap' \in [Consumers -> 0..top']
      BY <2>7 DEF TrimInfo, redis, TypeOK
    <3> QED
      BY <2>7, <3>1 DEF TrimInfo, redis, TypeOK
  <2>8. ASSUME NEW c \in Consumers, TrimApply(c) PROVE TypeOK'
    <3>1. snap' \in [Consumers -> 0..top'] /\ stream' \subseteq stream
      BY <2>8 DEF TrimApply, TypeOK
    <3> QED
      BY <2>8, <3>1 DEF TrimApply, TypeOK
  <2>9. ASSUME NEW c \in Consumers, Crash(c) PROVE TypeOK'
    <3>1. snap' \in [Consumers -> 0..top'] /\ held' \in [Consumers -> SUBSET (1..top')]
      BY <2>9 DEF Crash, redis, TypeOK
    <3> QED
      BY <2>9, <3>1 DEF Crash, redis, TypeOK
  <2>10. CASE Flush
    BY <2>10 DEF Flush, TypeOK
  <2>11. CASE UNCHANGED vars
    BY <2>11 DEF vars, redis, TypeOK
  <2> QED
    BY <2>1, <2>2, <2>3, <2>4, <2>5, <2>6, <2>7, <2>8, <2>9, <2>10, <2>11 DEF Next
<1> QED
  BY <1>1, <1>2, PTL DEF Spec

-------------------------------------------------------------------------------
(* The three facts about ids are inductive together: a trim is safe because
   what is behind the group and not pending is acknowledged, and stays so
   because nothing acknowledged is ahead of the group. *)
IInv == DeliveredAccounted /\ BehindDelivered /\ SnapshotSettled

LEMMA InitIInv == Init => IInv
BY DEF Init, IInv, DeliveredAccounted, BehindDelivered, SnapshotSettled

(* XADD adds an id beyond everything the invariant speaks of. *)
LEMMA PublishIInv ==
  ASSUME TypeOK, IInv, Publish PROVE IInv'
<1>1. stream' \subseteq stream \cup {top + 1}
  BY DEF Publish
<1>2. UNCHANGED <<group, delivered, pel, held, snap, acked>>
  BY DEF Publish
<1>3. /\ top \in Nat /\ delivered \in 0..top
      /\ \A c \in Consumers : held[c] \subseteq 1..top /\ snap[c] \in 0..top
      /\ acked \subseteq 1..top
  BY ConstantsAssumption DEF TypeOK
<1>4. DeliveredAccounted'
  BY <1>1, <1>2, <1>3 DEF IInv, DeliveredAccounted
<1>5. BehindDelivered'
  <2>1. \A c \in Consumers : held[c] \cap stream' \subseteq 1..delivered
    BY <1>1, <1>3 DEF IInv, BehindDelivered
  <2>2. acked \cap stream' \subseteq 1..delivered
    BY <1>1, <1>3 DEF IInv, BehindDelivered
  <2> QED
    BY <1>2, <2>1, <2>2 DEF IInv, BehindDelivered
<1>6. SnapshotSettled'
  BY <1>1, <1>2, <1>3 DEF IInv, SnapshotSettled
<1> QED
  BY <1>4, <1>5, <1>6 DEF IInv

(* XREADGROUP moves a prefix of the undelivered entries behind the group
   and into its pending list. *)
LEMMA ConsumeIInv ==
  ASSUME TypeOK, IInv, NEW c \in Consumers, Consume(c) PROVE IInv'
<1> DEFINE batch == Oldest(Undelivered, Count)
<1>1. PICK newest \in batch :
        /\ \A i \in batch : i <= newest
        /\ delivered' = newest
        /\ pel' = pel \cup batch
        /\ held' = [held EXCEPT ![c] = batch]
  BY DEF Consume
<1>2. group' = "exists" /\ UNCHANGED <<stream, snap, acked>>
  BY DEF Consume
<1>3. /\ stream \subseteq Nat \ {0} /\ IsFiniteSet(stream)
      /\ delivered \in Nat
      /\ held \in [Consumers -> SUBSET Nat]
  <2>1. top \in Nat /\ stream \subseteq 1..top
    BY ConstantsAssumption DEF TypeOK
  <2>2. IsFiniteSet(1..top)
    BY <2>1, FS_Interval
  <2>3. IsFiniteSet(stream)
    BY <2>1, <2>2, FS_Subset
  <2>4. \A k \in Consumers : held[k] \subseteq Nat
    BY <2>1 DEF TypeOK
  <2> QED
    BY <2>1, <2>3, <2>4 DEF TypeOK
<1>4. /\ Undelivered \subseteq Nat /\ IsFiniteSet(Undelivered)
      /\ batch \subseteq Undelivered
      /\ newest \in stream /\ newest > delivered
  <2>1. Undelivered \subseteq stream
    BY DEF Undelivered
  <2>2. IsFiniteSet(Undelivered)
    BY <1>3, <2>1, FS_Subset
  <2>3. batch \subseteq Undelivered
    BY OldestIsSubset
  <2>4. newest \in Undelivered
    BY <2>3
  <2> QED
    BY <1>3, <2>1, <2>2, <2>3, <2>4 DEF Undelivered
<1>5. \A i \in stream : i > delivered /\ i <= newest => i \in batch
  <2> SUFFICES ASSUME NEW i \in stream, i > delivered, i <= newest
               PROVE  i \in batch
    OBVIOUS
  <2>1. i \in Undelivered
    BY DEF Undelivered
  <2>2. Count \in Nat
    BY ConstantsAssumption
  <2> QED
    BY <1>4, <2>1, <2>2, OldestIsPrefix
<1>6. \A i \in batch : i \in stream /\ i > delivered /\ i \in Nat \ {0}
  BY <1>3, <1>4 DEF Undelivered
<1> HIDE DEF batch
<1>7. DeliveredAccounted'
  <2> SUFFICES ASSUME NEW i \in stream, i <= newest PROVE i \in pel' \cup acked
    BY <1>1, <1>2 DEF DeliveredAccounted
  <2>1. CASE i <= delivered
    BY <1>1, <2>1 DEF IInv, DeliveredAccounted
  <2>2. CASE ~(i <= delivered)
    <3>1. i \in Nat /\ i > delivered
      BY <1>3, <2>2
    <3> QED
      BY <1>1, <1>5, <3>1
  <2> QED
    BY <2>1, <2>2
<1>8. BehindDelivered'
  <2>1. 1..delivered \subseteq 1..newest /\ batch \subseteq 1..newest
    BY <1>1, <1>3, <1>4, <1>6
  <2>2. acked \cap batch = {}
    BY <1>3, <1>6 DEF IInv, BehindDelivered
  <2>3. pel' \subseteq 1..newest /\ acked \cap pel' = {} /\ acked \cap stream \subseteq 1..newest
    BY <1>1, <2>1, <2>2 DEF IInv, BehindDelivered
  <2>4. \A k \in Consumers : held'[k] \cap stream \subseteq 1..newest
    BY <1>1, <1>3, <2>1 DEF IInv, BehindDelivered
  <2> QED
    BY <1>1, <1>2, <2>3, <2>4 DEF BehindDelivered
<1>9. SnapshotSettled'
  BY <1>2 DEF IInv, SnapshotSettled
<1> QED
  BY <1>7, <1>8, <1>9 DEF IInv

(* XAUTOCLAIM hands out entries that are pending already, and forgets only
   pending entries the stream no longer contains. *)
LEMMA ClaimIInv ==
  ASSUME TypeOK, IInv, NEW c \in Consumers, ClaimPending(c) PROVE IInv'
<1> DEFINE scanned == Oldest(idle, ClaimCount)
<1>1. /\ pel' = pel \ (scanned \ stream)
      /\ held' = [held EXCEPT ![c] = scanned \cap stream]
      /\ UNCHANGED <<group, stream, delivered, snap, acked>>
  BY DEF ClaimPending
<1>2. scanned \subseteq pel
  BY OldestIsSubset DEF TypeOK
<1> HIDE DEF scanned
<1>3. held \in [Consumers -> SUBSET (1..top)]
  BY DEF TypeOK
<1>4. DeliveredAccounted'
  BY <1>1 DEF IInv, DeliveredAccounted
<1>5. BehindDelivered'
  BY <1>1, <1>2, <1>3 DEF IInv, BehindDelivered
<1>6. SnapshotSettled'
  BY <1>1 DEF IInv, SnapshotSettled
<1> QED
  BY <1>4, <1>5, <1>6 DEF IInv

(* XACK turns a pending entry into an acknowledged one. *)
LEMMA AckIInv ==
  ASSUME TypeOK, IInv, NEW c \in Consumers, NEW i \in Ids, Ack(c, i) PROVE IInv'
<1>1. /\ i \in held[c]
      /\ held' = [held EXCEPT ![c] = @ \ {i}]
      /\ pel' = pel \ {i} /\ acked' = acked \cup {i}
      /\ UNCHANGED <<group, stream, delivered, snap>>
  BY DEF Ack
<1>2. held \in [Consumers -> SUBSET (1..top)]
  BY DEF TypeOK
<1>3. DeliveredAccounted'
  BY <1>1 DEF IInv, DeliveredAccounted
<1>4. BehindDelivered'
  BY <1>1, <1>2 DEF IInv, BehindDelivered
<1>5. SnapshotSettled'
  BY <1>1 DEF IInv, SnapshotSettled
<1> QED
  BY <1>3, <1>4, <1>5 DEF IInv

(* The id remembered by trim_delivered bounds acknowledged entries only. *)
LEMMA TrimInfoIInv ==
  ASSUME TypeOK, IInv, NEW c \in Consumers, TrimInfo(c) PROVE IInv'
<1>1. pel = {} /\ snap' = [snap EXCEPT ![c] = delivered]
  BY DEF TrimInfo
<1>2. UNCHANGED <<group, stream, delivered, pel, held, acked>>
  BY DEF TrimInfo, redis
<1>3. DeliveredAccounted' /\ BehindDelivered'
  BY <1>2 DEF IInv, DeliveredAccounted, BehindDelivered
<1>4. SnapshotSettled'
  <2>1. \A i \in stream : i <= delivered => i \in acked
    BY <1>1 DEF IInv, DeliveredAccounted
  <2>2. snap \in [Consumers -> 0..top]
    BY DEF TypeOK
  <2> QED
    BY <1>1, <1>2, <2>1, <2>2 DEF IInv, SnapshotSettled
<1> QED
  BY <1>3, <1>4 DEF IInv

(* A trim and a flush shrink the stream; a flush also rewinds the group,
   which an empty stream makes harmless. *)
LEMMA TrimApplyIInv ==
  ASSUME TypeOK, IInv, NEW c \in Consumers, TrimApply(c) PROVE IInv'
<1>1. stream' \subseteq stream /\ snap' = [snap EXCEPT ![c] = 0]
  BY DEF TrimApply
<1>2. UNCHANGED <<group, delivered, pel, held, acked>>
  BY DEF TrimApply
<1>3. snap \in [Consumers -> 0..top] /\ stream \subseteq Nat \ {0}
  BY ConstantsAssumption DEF TypeOK
<1>4. DeliveredAccounted' /\ BehindDelivered'
  BY <1>1, <1>2 DEF IInv, DeliveredAccounted, BehindDelivered
<1>5. SnapshotSettled'
  BY <1>1, <1>2, <1>3 DEF IInv, SnapshotSettled
<1> QED
  BY <1>4, <1>5 DEF IInv

LEMMA CrashIInv ==
  ASSUME TypeOK, IInv, NEW c \in Consumers, Crash(c) PROVE IInv'
<1>1. /\ held' = [held EXCEPT ![c] = {}]
      /\ snap' = [snap EXCEPT ![c] = 0]
      /\ UNCHANGED <<group, stream, delivered, pel, acked>>
  BY DEF Crash, redis
<1>2. /\ snap \in [Consumers -> 0..top] /\ held \in [Consumers -> SUBSET (1..top)]
      /\ stream \subseteq Nat \ {0}
  BY ConstantsAssumption DEF TypeOK
<1>3. DeliveredAccounted'
  BY <1>1 DEF IInv, DeliveredAccounted
<1>4. BehindDelivered'
  BY <1>1, <1>2 DEF IInv, BehindDelivered
<1>5. SnapshotSettled'
  BY <1>1, <1>2 DEF IInv, SnapshotSettled
<1> QED
  BY <1>3, <1>4, <1>5 DEF IInv

LEMMA NextIInv == TypeOK /\ IInv /\ [Next]_vars => IInv'
<1> SUFFICES ASSUME TypeOK, IInv, [Next]_vars PROVE IInv'
  OBVIOUS
<1>1. CASE CreateGroup
  <2>1. UNCHANGED <<stream, pel, held, snap, acked>> /\ delivered' = 0
    BY <1>1 DEF CreateGroup
  <2>2. delivered' = delivered
    BY <1>1, <2>1 DEF CreateGroup, IInv, BehindDelivered
  <2> QED
    BY <2>1, <2>2 DEF IInv, DeliveredAccounted, BehindDelivered, SnapshotSettled
<1>2. ASSUME NEW i \in Ids, Age(i) PROVE IInv'
  BY <1>2 DEF Age, IInv, DeliveredAccounted, BehindDelivered, SnapshotSettled
<1>3. CASE Flush
  BY <1>3 DEF Flush, IInv, DeliveredAccounted, BehindDelivered, SnapshotSettled
<1>4. CASE UNCHANGED vars
  BY <1>4 DEF vars, redis, IInv, DeliveredAccounted, BehindDelivered, SnapshotSettled
<1> QED
  BY <1>1, <1>2, <1>3, <1>4, PublishIInv, ConsumeIInv, ClaimIInv, AckIInv,
     TrimInfoIInv, TrimApplyIInv, CrashIInv DEF Next

(* What the group has not delivered is neither pending nor acknowledged. *)
LEMMA AheadIsFresh ==
  ASSUME TypeOK, IInv
  PROVE  Undelivered \cap acked = {} /\ Undelivered \cap pel = {}
<1>1. delivered \in Nat
  BY ConstantsAssumption DEF TypeOK
<1>2. \A i \in 1..delivered : ~(i > delivered)
  BY <1>1
<1> QED
  BY <1>2 DEF Undelivered, IInv, BehindDelivered

(* Every state of every run satisfies the invariant. *)
THEOREM Accounted == Spec => [](DeliveredAccounted /\ BehindDelivered /\ SnapshotSettled)
<1>1. Spec => []IInv
  BY InitIInv, NextIInv, TypeCorrect, PTL DEF Spec
<1> QED
  BY <1>1, PTL DEF IInv

(* XTRIM in trim_delivered never takes an entry somebody still has to
   handle out of the stream, although the id it uses was read earlier. *)
THEOREM TrimIsSafe == Spec => TrimOnlyAcked
<1>1. TypeOK /\ IInv /\ [Next]_vars
      => [(top' = top /\ flushes' = flushes) => (stream \ stream') \subseteq acked]_vars
  <2> SUFFICES ASSUME TypeOK, IInv, [Next]_vars, top' = top, flushes' = flushes
               PROVE  (stream \ stream') \subseteq acked
    OBVIOUS
  <2>1. CASE Publish
    BY <2>1, ConstantsAssumption DEF Publish, TypeOK
  <2>2. CASE Flush
    BY <2>2, ConstantsAssumption DEF Flush, TypeOK
  <2>3. ASSUME NEW c \in Consumers, TrimApply(c) PROVE (stream \ stream') \subseteq acked
    <3>1. PICK low \in 1..snap[c] : stream' = {i \in stream : i >= low}
      BY <2>3 DEF TrimApply
    <3>2. snap[c] \in Nat /\ stream \subseteq Nat
      BY ConstantsAssumption DEF TypeOK
    <3>3. \A i \in stream \ stream' : i <= snap[c]
      BY <3>1, <3>2
    <3> QED
      BY <3>3 DEF IInv, SnapshotSettled
  <2>4. CASE stream' = stream
    BY <2>4
  <2> QED
    BY <2>1, <2>2, <2>3, <2>4
    DEF Next, CreateGroup, Age, Consume, ClaimPending, Ack, TrimInfo, Crash, redis, vars
<1>2. Spec => []IInv
  BY InitIInv, NextIInv, TypeCorrect, PTL DEF Spec
<1> QED
  BY <1>1, <1>2, TypeCorrect, PTL DEF Spec, TrimOnlyAcked

(* What was acknowledged is never handed out again. *)
THEOREM AcknowledgedOnce == Spec => NoRedeliveryAfterAck
<1>1. TypeOK /\ IInv /\ [Next]_vars
      => [\A c \in Consumers : (held'[c] \ held[c]) \cap acked = {}]_vars
  <2> SUFFICES ASSUME TypeOK, IInv, [Next]_vars, NEW k \in Consumers
               PROVE  (held'[k] \ held[k]) \cap acked = {}
    OBVIOUS
  <2>1. held \in [Consumers -> SUBSET (1..top)]
    BY DEF TypeOK
  <2>2. ASSUME NEW c \in Consumers, Consume(c)
        PROVE  (held'[k] \ held[k]) \cap acked = {}
    <3>1. held' = [held EXCEPT ![c] = Oldest(Undelivered, Count)]
      BY <2>2 DEF Consume
    <3>2. Oldest(Undelivered, Count) \subseteq Undelivered
      BY OldestIsSubset
    <3>3. Undelivered \cap acked = {}
      BY AheadIsFresh
    <3> QED
      BY <2>1, <3>1, <3>2, <3>3
  <2>3. ASSUME NEW c \in Consumers, ClaimPending(c)
        PROVE  (held'[k] \ held[k]) \cap acked = {}
    <3>1. held' = [held EXCEPT ![c] = Oldest(idle, ClaimCount) \cap stream]
      BY <2>3 DEF ClaimPending
    <3>2. Oldest(idle, ClaimCount) \subseteq pel
      BY OldestIsSubset DEF TypeOK
    <3> QED
      BY <2>1, <3>1, <3>2 DEF IInv, BehindDelivered
  <2>4. ASSUME NEW c \in Consumers, NEW i \in Ids, Ack(c, i)
        PROVE  (held'[k] \ held[k]) \cap acked = {}
    BY <2>1, <2>4 DEF Ack
  <2>5. ASSUME NEW c \in Consumers, Crash(c)
        PROVE  (held'[k] \ held[k]) \cap acked = {}
    BY <2>1, <2>5 DEF Crash
  <2>6. CASE held' = held
    BY <2>6
  <2> QED
    BY <2>2, <2>3, <2>4, <2>5, <2>6
    DEF Next, Publish, CreateGroup, Age, TrimInfo, TrimApply, Flush, vars
<1>2. Spec => []IInv
  BY InitIInv, NextIInv, TypeCorrect, PTL DEF Spec
<1> QED
  BY <1>1, <1>2, TypeCorrect, PTL DEF Spec, NoRedeliveryAfterAck

-------------------------------------------------------------------------------
(* What was lost stays lost. *)
LEMMA LossFreeBefore ==
  ASSUME TypeOK, [Next]_vars, LossFree' PROVE LossFree
<1>1. top \in Nat /\ flushes \in Nat /\ MaxLen \in Nat
  BY ConstantsAssumption DEF TypeOK
<1>2. top' \in {top, top + 1} /\ flushes' \in {flushes, flushes + 1}
  BY DEF Next, Publish, CreateGroup, Age, Consume, ClaimPending, Ack, TrimInfo, TrimApply,
         Crash, Flush, redis, vars
<1> QED
  BY <1>1, <1>2 DEF LossFree

(* Below MAXLEN, XADD evicts nothing. *)
LEMMA PublishKeeps ==
  ASSUME TypeOK, LossFree', Publish
  PROVE  stream' = stream \cup {top + 1}
<1>1. PICK low \in 1..(top + 1) :
        LET kept == {i \in stream \cup {top + 1} : i >= low} IN
          /\ stream \subseteq kept \/ Cardinality(kept) >= MaxLen
          /\ stream' = kept
  BY DEF Publish
<1> DEFINE kept == {i \in stream \cup {top + 1} : i >= low}
<1>2. stream' = kept /\ (stream \subseteq kept \/ Cardinality(kept) >= MaxLen)
  BY <1>1
<1>3. top \in Nat /\ top + 1 <= MaxLen /\ stream \subseteq 1..top /\ MaxLen \in Nat
  BY ConstantsAssumption DEF TypeOK, Publish, LossFree
<1>4. top + 1 \in kept /\ kept \subseteq stream \cup {top + 1} /\ kept \subseteq 1..(top + 1)
  <2>1. top + 1 \in kept
    BY <1>3
  <2>2. kept \subseteq stream \cup {top + 1}
    OBVIOUS
  <2>3. stream \cup {top + 1} \subseteq 1..(top + 1)
    BY <1>3
  <2> HIDE DEF kept
  <2> QED
    BY <2>1, <2>2, <2>3
<1>5. IsFiniteSet(1..(top + 1)) /\ Cardinality(1..(top + 1)) = top + 1
  BY <1>3, FS_Interval
<1>6. /\ IsFiniteSet(kept) /\ Cardinality(kept) <= top + 1
      /\ top + 1 = Cardinality(kept) => 1..(top + 1) = kept
  <2> HIDE DEF kept
  <2> DEFINE all == 1..(top + 1)
  <2>1. IsFiniteSet(all) /\ Cardinality(all) = top + 1 /\ kept \in SUBSET all
    BY <1>4, <1>5
  <2> HIDE DEF all
  <2>2. /\ IsFiniteSet(kept) /\ Cardinality(kept) <= Cardinality(all)
        /\ Cardinality(all) = Cardinality(kept) => all = kept
    BY <2>1, FS_Subset
  <2>3. /\ Cardinality(kept) <= top + 1
        /\ top + 1 = Cardinality(kept) => all = kept
    BY <2>1, <2>2
  <2> USE DEF all
  <2> QED
    BY <2>2, <2>3
<1>7. Cardinality(kept) \in Nat
  BY <1>6, FS_CardinalityType
<1> HIDE DEF kept
<1>8. CASE stream \subseteq kept
  <2>1. stream \cup {top + 1} \subseteq kept
    BY <1>4, <1>8
  <2> QED
    BY <1>2, <1>4, <2>1
<1>9. CASE Cardinality(kept) >= MaxLen
  <2>1. kept = 1..(top + 1)
    BY <1>3, <1>6, <1>7, <1>9
  <2>2. stream \cup {top + 1} \subseteq 1..(top + 1)
    BY <1>3
  <2> QED
    BY <1>2, <1>4, <2>1, <2>2
<1> QED
  BY <1>2, <1>8, <1>9

LEMMA NextNothingLost ==
  ASSUME TypeOK, IInv, TypeOK', IInv', NothingLost, [Next]_vars
  PROVE  NothingLost'
<1> SUFFICES ASSUME LossFree' PROVE NothingLost'
  BY DEF NothingLost
<1>1. \A i \in 1..top : i \in acked \/ i \in stream
  BY LossFreeBefore DEF NothingLost
<1>2. acked \subseteq acked'
  BY DEF Next, Publish, CreateGroup, Age, Consume, ClaimPending, Ack, TrimInfo, TrimApply,
         Crash, Flush, redis, vars
<1>3. \A i \in 1..top' : i \in acked' \/ i \in stream'
  <2>1. CASE Publish
    <3>1. stream' = stream \cup {top + 1}
      BY <2>1, PublishKeeps
    <3>2. top' = top + 1 /\ acked' = acked /\ top \in Nat
      BY <2>1, ConstantsAssumption DEF Publish, TypeOK
    <3> QED
      BY <1>1, <3>1, <3>2
  <2>2. CASE Flush
    BY <2>2, ConstantsAssumption DEF Flush, LossFree, TypeOK
  <2>3. ASSUME NEW c \in Consumers, TrimApply(c)
        PROVE  \A i \in 1..top' : i \in acked' \/ i \in stream'
    <3>1. PICK low \in 1..snap[c] : stream' = {i \in stream : i >= low}
      BY <2>3 DEF TrimApply
    <3>2. snap[c] \in Nat /\ stream \subseteq Nat
      BY ConstantsAssumption DEF TypeOK
    <3>3. \A i \in stream \ stream' : i <= snap[c]
      BY <3>1, <3>2
    <3>4. (stream \ stream') \subseteq acked
      BY <3>3 DEF IInv, SnapshotSettled
    <3> QED
      BY <1>1, <1>2, <2>3, <3>4 DEF TrimApply
  <2>4. CASE top' = top /\ stream' = stream
    BY <1>1, <1>2, <2>4
  <2> QED
    BY <2>1, <2>2, <2>3, <2>4
    DEF Next, CreateGroup, Age, Consume, ClaimPending, Ack, TrimInfo, Crash, redis, vars
<1>4. \A i \in stream' : i > delivered' \/ i \in pel' \/ i \in acked'
  BY ConstantsAssumption DEF IInv, DeliveredAccounted, TypeOK
<1> QED
  BY <1>3, <1>4 DEF NothingLost

(* At-least-once: as long as MAXLEN is not exceeded and Redis keeps its
   data, every entry published is waiting, pending or acknowledged. *)
THEOREM AtLeastOnce == Spec => []NothingLost
<1>1. Init => NothingLost
  BY DEF Init, NothingLost
<1>2. Spec => []IInv
  BY InitIInv, NextIInv, TypeCorrect, PTL DEF Spec
<1>3. TypeOK /\ TypeOK' /\ IInv /\ IInv' /\ NothingLost /\ [Next]_vars => NothingLost'
  BY NextNothingLost
<1> QED
  BY <1>1, <1>2, <1>3, TypeCorrect, PTL DEF Spec

(* Every command is a step of the abstract queue or leaves it unchanged. *)
LEMMA StepRefines ==
  ASSUME TypeOK, TypeOK', IInv, NothingLost, [Next]_vars
  PROVE  [LossFree' => Queue!Next]_Queue!vars
<1> SUFFICES ASSUME LossFree', ~UNCHANGED <<Undelivered, pel, acked>> PROVE Queue!Next
  BY DEF Queue!vars
<1> USE LossFreeBefore
<1>0. /\ stream \subseteq Nat /\ delivered \in Nat /\ top \in Nat
      /\ held \in [Consumers -> SUBSET (1..top)]
      /\ pel \subseteq 1..top /\ acked \subseteq 1..top /\ delivered <= top
  BY ConstantsAssumption DEF TypeOK
<1>1. CASE Publish
  <2>1. stream' = stream \cup {top + 1}
    BY <1>1, PublishKeeps
  <2>2. top + 1 \in Ids /\ UNCHANGED <<delivered, pel, acked>>
    BY <1>0, <1>1, ConstantsAssumption DEF Publish, Ids
  <2>3. Undelivered' = Undelivered \cup {top + 1}
    BY <1>0, <2>1, <2>2 DEF Undelivered
  <2>4. top + 1 \notin Undelivered \cup pel \cup acked
    BY <1>0 DEF TypeOK, Undelivered
  <2> QED
    BY <2>2, <2>3, <2>4 DEF Queue!Next, Queue!Put
<1>2. ASSUME NEW c \in Consumers, Consume(c) PROVE Queue!Next
  <2> DEFINE batch == Oldest(Undelivered, Count)
  <2>1. PICK newest \in batch :
          /\ \A i \in batch : i <= newest
          /\ delivered' = newest
          /\ pel' = pel \cup batch
    BY <1>2 DEF Consume
  <2>2. UNCHANGED <<stream, acked>> /\ batch \subseteq Undelivered
    BY <1>2, OldestIsSubset DEF Consume
  <2>3. IsFiniteSet(Undelivered) /\ Undelivered \subseteq Nat
    <3>1. IsFiniteSet(1..top)
      BY <1>0, FS_Interval
    <3> QED
      BY <1>0, <3>1, FS_Subset DEF Undelivered, TypeOK
  <2>4. \A i \in Undelivered : i <= newest => i \in batch
    BY <2>1, <2>3, OldestIsPrefix, ConstantsAssumption
  <2> HIDE DEF batch
  <2>5. newest \in Nat /\ newest > delivered
    BY <1>0, <2>1, <2>2 DEF Undelivered
  <2>6. Undelivered' = Undelivered \ batch
    <3>1. Undelivered' = {i \in stream : i > newest}
      BY <2>1, <2>2 DEF Undelivered
    <3>2. \A i \in stream : i > newest => i \in Undelivered /\ i \notin batch
      BY <1>0, <2>1, <2>2, <2>5 DEF Undelivered
    <3>3. \A i \in Undelivered : i \in stream /\ (i \notin batch => i > newest)
      BY <1>0, <2>4, <2>5 DEF Undelivered
    <3> QED
      BY <3>1, <3>2, <3>3
  <2> QED
    BY <2>1, <2>2, <2>6 DEF Queue!Next, Queue!HandOut
<1>3. ASSUME NEW c \in Consumers, ClaimPending(c) PROVE FALSE
  <2>1. Oldest(idle, ClaimCount) \subseteq pel
    BY OldestIsSubset DEF TypeOK
  <2>2. pel \subseteq stream
    BY <1>0 DEF NothingLost, IInv, BehindDelivered
  <2>3. pel' = pel \ (Oldest(idle, ClaimCount) \ stream) /\ UNCHANGED <<stream, delivered, acked>>
    BY <1>3 DEF ClaimPending
  <2> QED
    BY <2>1, <2>2, <2>3 DEF Undelivered
<1>4. ASSUME NEW c \in Consumers, NEW i \in Ids, Ack(c, i) PROVE Queue!Next
  <2>1. /\ i \in held[c] /\ pel' = pel \ {i} /\ acked' = acked \cup {i}
        /\ UNCHANGED <<stream, delivered>>
    BY <1>4 DEF Ack
  <2>2. i \in pel \/ i \in acked
    <3>1. i \in 1..top
      BY <1>0, <2>1
    <3>2. i \in stream => i \in 1..delivered
      BY <2>1 DEF IInv, BehindDelivered
    <3> QED
      BY <1>0, <3>1, <3>2 DEF NothingLost
  <2>3. Undelivered' = Undelivered
    BY <2>1 DEF Undelivered
  <2>4. CASE i \in pel
    BY <2>1, <2>3, <2>4 DEF Queue!Next, Queue!Settle
  <2>5. CASE i \in acked
    BY <2>1, <2>3, <2>5 DEF IInv, BehindDelivered
  <2> QED
    BY <2>2, <2>4, <2>5
<1>5. ASSUME NEW c \in Consumers, TrimApply(c) PROVE FALSE
  <2>1. PICK low \in 1..snap[c] : stream' = {i \in stream : i >= low}
    BY <1>5 DEF TrimApply
  <2>2. snap[c] \in Nat
    BY ConstantsAssumption DEF TypeOK
  <2>3. \A i \in stream \ stream' : i \in acked
    BY <1>0, <2>1, <2>2 DEF IInv, SnapshotSettled
  <2>4. UNCHANGED <<delivered, pel, acked>> /\ stream' \subseteq stream
    BY <1>5 DEF TrimApply
  <2>5. Undelivered \cap acked = {}
    BY AheadIsFresh
  <2> QED
    BY <2>3, <2>4, <2>5 DEF Undelivered
<1>6. CASE CreateGroup
  BY <1>6 DEF CreateGroup, IInv, BehindDelivered, Undelivered
<1>7. CASE Flush
  BY <1>7, ConstantsAssumption DEF Flush, LossFree, TypeOK
<1>8. CASE UNCHANGED <<stream, delivered, pel, acked>>
  BY <1>8 DEF Undelivered
<1> QED
  BY <1>1, <1>2, <1>3, <1>4, <1>5, <1>6, <1>7, <1>8
  DEF Next, Age, TrimInfo, Crash, redis, vars

(* Until something is lost the stream and its group implement the abstract
   queue: what is behind last-delivered-id is handed out, what is pending is
   unsettled, and each command is a queue operation or invisible. *)
THEOREM Refinement == Spec => ImplementsQueue
<1>1. Init => Queue!Init
  BY DEF Init, Queue!Init, Undelivered
<1>2. TypeOK /\ TypeOK' /\ IInv /\ NothingLost /\ [Next]_vars => [LossFree' => Queue!Next]_Queue!vars
  BY StepRefines
<1>3. Spec => []IInv
  BY InitIInv, NextIInv, TypeCorrect, PTL DEF Spec
<1> QED
  BY <1>1, <1>2, <1>3, TypeCorrect, AtLeastOnce, PTL DEF Spec, ImplementsQueue
===============================================================================
