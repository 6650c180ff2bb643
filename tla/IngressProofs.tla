----------------------------- MODULE IngressProofs -----------------------------
(***************************************************************************)
(* Proofs about Ingress, for any number of concurrent requests, webhooks,  *)
(* messages, attempts and failures.                                        *)
(***************************************************************************)
EXTENDS Ingress, FiniteSetTheorems, TLAPS

PcLabels == {"free", "limit", "expire", "secret", "dedup", "publish"}

LEMMA SeqFacts ==
  ASSUME NEW S, NEW q \in Seq(S), q # <<>>
  PROVE  Head(q) \in S /\ Tail(q) \in Seq(S)
OBVIOUS

LEMMA HeadId ==
  ASSUME TypeOK, NEW h \in Handlers, todo[h] # <<>>
  PROVE  Head(todo[h]) \in Messages /\ IdOf[Head(todo[h])] \in Ids /\ Tail(todo[h]) \in Seq(Messages)
<1>1. todo[h] \in Seq(Messages)
  BY DEF TypeOK
<1> QED
  BY <1>1, SeqFacts DEF Ids

(* Every variable keeps its type, and a request that is about to publish has
   a message to publish. *)
THEOREM TypeCorrect == Spec => []TypeOK
<1>1. Init => TypeOK
  <2> SUFFICES ASSUME Init PROVE TypeOK
    OBVIOUS
  <2>1. todo \in [Handlers -> Seq(Messages)] /\ pc \in [Handlers -> PcLabels]
        /\ \A h \in Handlers : pc[h] # "publish"
    BY DEF Init, PcLabels
  <2>2. expired \in [Ids -> 0..MaxExpiries] /\ attempts \in [Webhooks -> 0..MaxAttempts]
        /\ faults \in 0..MaxFaults
    BY IngressAssumption DEF Init
  <2>3. published \in [Ids -> Nat]
    BY DEF Init
  <2> QED
    BY <2>1, <2>2, <2>3 DEF Init, TypeOK, PcLabels
<1>2. TypeOK /\ [Next]_vars => TypeOK'
  <2> SUFFICES ASSUME TypeOK, [Next]_vars PROVE TypeOK'
    OBVIOUS
  <2> USE DEF request, limiter, store, gateway, Goto, GotoOr500
  <2>1. ASSUME NEW h \in Handlers, NEW p \in Webhooks, Post(h, p) PROVE TypeOK'
    <3>1. todo' \in [Handlers -> Seq(Messages)] /\ hook' \in [Handlers -> Webhooks]
      BY <2>1, IngressAssumption DEF Post, TypeOK
    <3>2. attempts' \in [Webhooks -> 0..MaxAttempts]
      BY <2>1, IngressAssumption DEF Post, TypeOK
    <3>3. pc' \in [Handlers -> PcLabels] /\ \A g \in Handlers : pc'[g] = "publish" => todo'[g] # <<>>
      BY <2>1 DEF Post, TypeOK, PcLabels
    <3> QED
      BY <2>1, <3>1, <3>2, <3>3 DEF Post, TypeOK, PcLabels
  <2>2. ASSUME NEW h \in Handlers, Limit(h) PROVE TypeOK'
    <3>1. hits' \in Nat /\ passed' \in Nat /\ faults' \in 0..MaxFaults
      BY <2>2, IngressAssumption DEF Limit, Ends, TypeOK
    <3>2. pc' \in [Handlers -> PcLabels] /\ \A g \in Handlers : pc'[g] = "publish" => pc[g] = "publish"
      BY <2>2 DEF Limit, TypeOK, PcLabels
    <3> QED
      BY <2>2, <3>1, <3>2 DEF Limit, TypeOK, PcLabels
  <2>3. ASSUME NEW h \in Handlers, Expire(h) \/ Authenticate(h) PROVE TypeOK'
    <3>1. ttl' \in BOOLEAN
      BY <2>3 DEF Expire, Authenticate, TypeOK
    <3>2. faults' \in 0..MaxFaults
      BY <2>3, IngressAssumption DEF Expire, Authenticate, Ends, TypeOK
    <3>3. pc' \in [Handlers -> PcLabels] /\ \A g \in Handlers : pc'[g] = "publish" => pc[g] = "publish"
      BY <2>3 DEF Expire, Authenticate, TypeOK, PcLabels
    <3> QED
      BY <2>3, <3>1, <3>2, <3>3 DEF Expire, Authenticate, TypeOK, PcLabels
  <2>4. ASSUME NEW h \in Handlers, Dedup(h) PROVE TypeOK'
    <3>1. todo[h] # <<>> /\ pc[h] = "dedup"
          /\ \/ todo' = [todo EXCEPT ![h] = Tail(@)] /\ \E l \in PcLabels \ {"publish"} : pc' = [pc EXCEPT ![h] = l]
             \/ todo' = todo /\ \E l \in PcLabels : pc' = [pc EXCEPT ![h] = l]
      BY <2>4 DEF Dedup, Skip, PcLabels
    <3>2. todo' \in [Handlers -> Seq(Messages)]
      BY ZenonT(30), <3>1, HeadId DEF TypeOK
    <3>3. pc' \in [Handlers -> PcLabels] /\ \A g \in Handlers : pc'[g] = "publish" => todo'[g] # <<>>
      BY <3>1 DEF TypeOK, PcLabels
    <3>4. dedup' \subseteq Ids
      BY <2>4, <3>1, HeadId DEF Dedup, TypeOK
    <3>5. faults' \in 0..MaxFaults
      BY <2>4, IngressAssumption DEF Dedup, Ends, TypeOK
    <3> QED
      BY <2>4, <3>2, <3>3, <3>4, <3>5 DEF Dedup, TypeOK, PcLabels
  <2>5. ASSUME NEW h \in Handlers, Enqueue(h) PROVE TypeOK'
    <3>1. todo[h] # <<>> /\ todo' = [todo EXCEPT ![h] = Tail(@)]
          /\ \E l \in {"dedup", "free"} : pc' = [pc EXCEPT ![h] = l]
      BY <2>5 DEF Enqueue, Skip, TypeOK
    <3>2. todo' \in [Handlers -> Seq(Messages)]
      BY <3>1, HeadId DEF TypeOK
    <3>3. pc' \in [Handlers -> PcLabels] /\ \A g \in Handlers : pc'[g] = "publish" => todo'[g] # <<>>
      BY <3>1 DEF TypeOK, PcLabels
    <3>4. published' \in [Ids -> Nat]
      BY <2>5, <3>1, HeadId DEF Enqueue, TypeOK
    <3>5. faults' \in 0..MaxFaults
      BY <2>5, IngressAssumption DEF Enqueue, Ends, TypeOK
    <3> QED
      BY <2>5, <3>2, <3>3, <3>4, <3>5 DEF Enqueue, TypeOK, PcLabels
  <2>6. ASSUME NEW h \in Handlers, Accept(h) PROVE TypeOK'
    BY <2>6 DEF Accept, TypeOK
  <2>7. CASE WindowEnds
    BY <2>7 DEF WindowEnds, TypeOK
  <2>8. ASSUME NEW i \in Ids, DedupExpires(i) PROVE TypeOK'
    <3>1. expired' \in [Ids -> 0..MaxExpiries]
      BY <2>8, IngressAssumption DEF DedupExpires, TypeOK
    <3> QED
      BY <2>8, <3>1 DEF DedupExpires, TypeOK
  <2>9. CASE UNCHANGED vars
    BY <2>9 DEF vars, TypeOK
  <2> QED
    BY <2>1, <2>2, <2>3, <2>4, <2>5, <2>6, <2>7, <2>8, <2>9 DEF Next, Serve
<1> QED
  BY <1>1, <1>2, PTL DEF Spec

-------------------------------------------------------------------------------
(* No window lets more requests through than the limit: the requests let
   through were all counted. *)
THEOREM RateLimited == Spec => []WithinLimit
<1> DEFINE Counted == passed <= hits /\ passed <= MaxPerMin
<1>1. Init => Counted
  BY IngressAssumption DEF Init
<1>2. TypeOK /\ Counted /\ [Next]_vars => Counted'
  <2> SUFFICES ASSUME TypeOK, Counted, [Next]_vars PROVE Counted'
    OBVIOUS
  <2>1. ASSUME NEW h \in Handlers, Limit(h) PROVE Counted'
    <3>1. hits \in Nat /\ passed \in Nat /\ MaxPerMin \in Nat
      BY IngressAssumption DEF TypeOK
    <3>2. PICK r \in Results :
            /\ hits' = IF TookEffect(r) THEN hits + 1 ELSE hits
            /\ passed' = IF r = "ok" /\ ~(hits + 1 > MaxPerMin) THEN passed + 1 ELSE passed
      BY <2>1 DEF Limit
    <3>3. CASE r = "ok" /\ ~(hits + 1 > MaxPerMin)
      <4>1. hits' = hits + 1 /\ passed' = passed + 1
        BY <3>2, <3>3 DEF TookEffect
      <4> QED
        BY <3>1, <3>3, <4>1
    <3>4. CASE ~(r = "ok" /\ ~(hits + 1 > MaxPerMin))
      <4>1. passed' = passed /\ hits' \in {hits, hits + 1}
        BY <3>2, <3>4
      <4> QED
        BY <3>1, <4>1
    <3> QED
      BY <3>3, <3>4
  <2>2. CASE WindowEnds
    BY <2>2, IngressAssumption DEF WindowEnds
  <2>3. CASE UNCHANGED <<hits, passed>>
    BY <2>3
  <2> QED
    BY <2>1, <2>2, <2>3 DEF Next, Serve, Post, Expire, Authenticate, Dedup, Enqueue, Accept,
       DedupExpires, limiter, vars
<1>3. Counted => WithinLimit
  BY DEF WithinLimit
<1> QED
  BY <1>1, <1>2, <1>3, TypeCorrect, PTL DEF Spec

-------------------------------------------------------------------------------
(* Requests about to publish a message with id i. *)
Publishing(i) == {h \in Handlers : pc[h] = "publish" /\ IdOf[Head(todo[h])] = i}

(* Every entry of an id, and every request about to publish one, was let
   through by a creation of the id's key: one for each key that expired and
   one for the key there is. *)
DedupInv ==
  \A i \in Ids :
    published[i] + Cardinality(Publishing(i)) <= expired[i] + (IF i \in dedup THEN 1 ELSE 0)

LEMMA PublishingFinite ==
  ASSUME NEW i
  PROVE  IsFiniteSet(Publishing(i)) /\ Cardinality(Publishing(i)) \in Nat
<1>1. Publishing(i) \subseteq Handlers
  BY DEF Publishing
<1> QED
  BY <1>1, IngressAssumption, FS_Subset, FS_CardinalityType

(* A step of h that neither starts nor ends a publication leaves the requests
   about to publish as they are. *)
LEMMA PublishingKept ==
  ASSUME TypeOK, NEW h \in Handlers, NEW i, pc[h] # "publish", pc'[h] # "publish",
         \A g \in Handlers : g # h => pc'[g] = pc[g] /\ todo'[g] = todo[g]
  PROVE  Publishing(i)' = Publishing(i)
BY DEF Publishing

LEMMA DedupInductive == TypeOK /\ DedupInv /\ [Next]_vars => DedupInv'
<1> SUFFICES ASSUME TypeOK, DedupInv, [Next]_vars, NEW i \in Ids
             PROVE  published'[i] + Cardinality(Publishing(i)')
                      <= expired'[i] + (IF i \in dedup' THEN 1 ELSE 0)
  BY DEF DedupInv
<1> DEFINE P == Publishing(i)
<1>1. /\ published[i] \in Nat /\ expired[i] \in Nat
      /\ IsFiniteSet(P) /\ Cardinality(P) \in Nat
      /\ published[i] + Cardinality(P) <= expired[i] + (IF i \in dedup THEN 1 ELSE 0)
  BY PublishingFinite, IngressAssumption DEF TypeOK, DedupInv
<1>2. ASSUME NEW h \in Handlers,
             Limit(h) \/ Expire(h) \/ Authenticate(h) \/ Accept(h) \/ \E p \in Webhooks : Post(h, p)
      PROVE  published'[i] + Cardinality(P') <= expired'[i] + (IF i \in dedup' THEN 1 ELSE 0)
  <2>1. /\ UNCHANGED <<published, expired, dedup>>
        /\ pc[h] # "publish" /\ pc'[h] # "publish"
        /\ \A g \in Handlers : g # h => pc'[g] = pc[g] /\ todo'[g] = todo[g]
    BY <1>2 DEF Limit, Expire, Authenticate, Accept, Post, Goto, GotoOr500, store, TypeOK
  <2>2. P' = P
    BY <2>1, PublishingKept
  <2> QED
    BY <1>1, <2>1, <2>2
<1>3. ASSUME NEW h \in Handlers, Dedup(h)
      PROVE  published'[i] + Cardinality(P') <= expired'[i] + (IF i \in dedup' THEN 1 ELSE 0)
  <2>1. /\ UNCHANGED <<published, expired>> /\ dedup \subseteq dedup'
        /\ pc[h] = "dedup" /\ todo[h] # <<>>
        /\ \A g \in Handlers : g # h => pc'[g] = pc[g] /\ todo'[g] = todo[g]
    BY <1>3 DEF Dedup, Skip, Goto, GotoOr500, TypeOK
  <2>2. CASE pc'[h] # "publish"
    <3>1. P' = P
      BY <2>1, <2>2, PublishingKept
    <3> QED
      BY <1>1, <2>1, <3>1
  <2>3. CASE pc'[h] = "publish"
    <3>1. /\ IdOf[Head(todo[h])] \notin dedup /\ todo' = todo
          /\ dedup' = dedup \cup {IdOf[Head(todo[h])]}
      BY <1>3, <2>3 DEF Dedup, Goto, GotoOr500, TookEffect, TypeOK
    <3>2. CASE i = IdOf[Head(todo[h])]
      <4>1. P' = P \cup {h} /\ h \notin P
        BY <2>1, <2>3, <3>1, <3>2 DEF Publishing
      <4>2. Cardinality(P') = Cardinality(P) + 1
        BY <1>1, <4>1, FS_AddElement
      <4> QED
        BY <1>1, <2>1, <3>1, <3>2, <4>2
    <3>3. CASE i # IdOf[Head(todo[h])]
      <4>1. P' = P
        BY <2>1, <2>3, <3>1, <3>3 DEF Publishing
      <4> QED
        BY <1>1, <2>1, <3>1, <4>1
    <3> QED
      BY <3>2, <3>3
  <2> QED
    BY <2>2, <2>3
<1>4. ASSUME NEW h \in Handlers, Enqueue(h)
      PROVE  published'[i] + Cardinality(P') <= expired'[i] + (IF i \in dedup' THEN 1 ELSE 0)
  <2> DEFINE j == IdOf[Head(todo[h])]
  <2>1. /\ pc[h] = "publish" /\ UNCHANGED <<expired, dedup>>
        /\ published' = published \/ published' = [published EXCEPT ![j] = @ + 1]
        /\ pc'[h] # "publish"
        /\ \A g \in Handlers : g # h => pc'[g] = pc[g] /\ todo'[g] = todo[g]
    BY <1>4 DEF Enqueue, Skip, Goto, GotoOr500, TypeOK
  <2>2. P' = P \ {h}
    BY <2>1 DEF Publishing
  <2>3. Cardinality(P') = IF h \in P THEN Cardinality(P) - 1 ELSE Cardinality(P)
    BY <1>1, <2>2, FS_RemoveElement
  <2>4. h \in P <=> i = j
    BY <2>1 DEF Publishing
  <2>5. published'[i] = published[i] \/ (i = j /\ published'[i] = published[i] + 1)
    BY <2>1 DEF TypeOK
  <2> QED
    BY <1>1, <2>1, <2>3, <2>4, <2>5
<1>5. ASSUME NEW k \in Ids, DedupExpires(k)
      PROVE  published'[i] + Cardinality(P') <= expired'[i] + (IF i \in dedup' THEN 1 ELSE 0)
  <2>1. /\ UNCHANGED <<pc, todo, published>> /\ k \in dedup /\ dedup' = dedup \ {k}
        /\ expired' = [expired EXCEPT ![k] = @ + 1]
    BY <1>5 DEF DedupExpires, request
  <2>2. P' = P
    BY <2>1 DEF Publishing
  <2>3. expired'[i] = IF i = k THEN expired[i] + 1 ELSE expired[i]
    BY <2>1 DEF TypeOK
  <2> QED
    BY <1>1, <2>1, <2>2, <2>3
<1>6. CASE WindowEnds \/ UNCHANGED vars
  <2>1. UNCHANGED <<pc, todo, published, expired, dedup>>
    BY <1>6 DEF WindowEnds, request, store, vars
  <2>2. P' = P
    BY <2>1 DEF Publishing
  <2> QED
    BY <1>1, <2>1, <2>2
<1> QED
  BY <1>2, <1>3, <1>4, <1>5, <1>6 DEF Next, Serve

(* However often and however concurrently the gateway posts a message, and
   whatever fails: it is on stream:inbound once, and once more for every time
   its dedup key got old enough to expire. *)
THEOREM Deduplicated == Spec => []PublishedOnce
<1>1. Init => DedupInv
  <2> SUFFICES ASSUME Init, NEW i \in Ids
               PROVE  published[i] + Cardinality(Publishing(i)) <= expired[i] + (IF i \in dedup THEN 1 ELSE 0)
    BY DEF DedupInv
  <2>1. Publishing(i) = {}
    BY DEF Init, Publishing
  <2> QED
    BY <2>1, FS_EmptySet DEF Init
<1>2. TypeOK /\ DedupInv => PublishedOnce
  <2> SUFFICES ASSUME TypeOK, DedupInv, NEW i \in Ids PROVE published[i] <= 1 + expired[i]
    BY DEF PublishedOnce
  <2>1. /\ published[i] \in Nat /\ expired[i] \in Nat /\ Cardinality(Publishing(i)) \in Nat
        /\ published[i] + Cardinality(Publishing(i)) <= expired[i] + (IF i \in dedup THEN 1 ELSE 0)
    BY PublishingFinite, IngressAssumption DEF TypeOK, DedupInv
  <2> QED
    BY <2>1
<1> QED
  BY <1>1, <1>2, TypeCorrect, DedupInductive, PTL DEF Spec

-------------------------------------------------------------------------------
(* The messages of a sequence. *)
Elements(q) == {q[k] : k \in 1..Len(q)}

LEMMA ElementsTail ==
  ASSUME NEW S, NEW q \in Seq(S), q # <<>>
  PROVE  Elements(q) = {Head(q)} \cup Elements(Tail(q))
<1>1. /\ Len(q) \in Nat \ {0} /\ Head(q) = q[1] /\ Len(Tail(q)) = Len(q) - 1
      /\ \A k \in 1..(Len(q) - 1) : Tail(q)[k] = q[k + 1]
  OBVIOUS
<1>2. ASSUME NEW k \in 1..Len(q) PROVE q[k] \in {Head(q)} \cup Elements(Tail(q))
  <2>1. CASE k = 1
    BY <1>1, <2>1
  <2>2. CASE k # 1
    <3>1. k - 1 \in 1..Len(Tail(q)) /\ Tail(q)[k - 1] = q[k]
      BY <1>1, <2>2
    <3> QED
      BY <3>1 DEF Elements
  <2> QED
    BY <2>1, <2>2
<1>3. ASSUME NEW k \in 1..Len(Tail(q)) PROVE Tail(q)[k] \in Elements(q)
  <2>1. k + 1 \in 1..Len(q) /\ Tail(q)[k] = q[k + 1]
    BY <1>1
  <2> QED
    BY <2>1 DEF Elements
<1>4. Head(q) \in Elements(q)
  BY <1>1 DEF Elements
<1> QED
  BY <1>2, <1>3, <1>4 DEF Elements

(* Nothing was lost of m: it is not to be answered, shares its id with one
   that is not, or is on its way. *)
Reached(m) == m \in Wanted => Shadowed(m) \/ OnItsWay(m)

(* While nothing failed: an id is known only of messages that were reached,
   and a request has reached the messages it is done with. *)
ReachInv ==
  faults = 0 =>
    /\ \A m \in Messages : IdOf[m] \in dedup => Reached(m)
    /\ \A h \in Handlers : pc[h] # "free" =>
         \A m \in MessagesIn(hook[h]) : Reached(m) \/ m \in Elements(todo[h])
    /\ \A p \in accepted : \A m \in MessagesIn(p) : Reached(m)

(* A step without a failure: what was on its way still is. *)
LEMMA ReachedStays ==
  ASSUME TypeOK, [Next]_vars, faults' = 0, NEW m \in Messages, Reached(m)
  PROVE  Reached(m)'
<1> SUFFICES ASSUME OnItsWay(m) PROVE OnItsWay(m)'
  BY DEF Reached, Shadowed
<1>1. IdOf[m] \in Ids
  BY DEF Ids
<1>2. \A i \in Ids : published[i] > 0 => published'[i] > 0
  <2>1. CASE published' = published
    BY <2>1
  <2>2. ASSUME NEW h \in Handlers, Enqueue(h) PROVE \A i \in Ids : published[i] > 0 => published'[i] > 0
    BY <2>2 DEF Enqueue, TypeOK
  <2> QED
    BY <2>1, <2>2 DEF Next, Serve, Limit, Expire, Authenticate, Dedup, Accept, Post, WindowEnds,
       DedupExpires, store, vars
<1>3. CASE published[IdOf[m]] > 0
  BY <1>1, <1>2, <1>3 DEF OnItsWay
<1>4. ASSUME NEW h \in Handlers, pc[h] = "publish", IdOf[Head(todo[h])] = IdOf[m]
      PROVE  OnItsWay(m)'
  <2>1. CASE Enqueue(h)
    <3>1. PICK r \in Results :
            /\ Ends(r)
            /\ published' = IF TookEffect(r) THEN [published EXCEPT ![IdOf[Head(todo[h])]] = @ + 1]
                            ELSE published
      BY <2>1 DEF Enqueue
    <3>2. r = "ok"
      BY <3>1 DEF Ends, TypeOK
    <3>3. published'[IdOf[m]] = published[IdOf[m]] + 1 /\ published[IdOf[m]] \in Nat
      BY <1>1, <1>4, <3>1, <3>2 DEF TookEffect, TypeOK
    <3> QED
      BY <3>3 DEF OnItsWay
  <2>2. CASE ~Enqueue(h)
    <3>1. pc'[h] = pc[h] /\ todo'[h] = todo[h]
      BY ZenonT(30), <1>4, <2>2 DEF Next, Serve, Limit, Expire, Authenticate, Dedup, Enqueue, Accept, Post, WindowEnds,
         DedupExpires, Goto, GotoOr500, Skip, request, vars, TypeOK
    <3> QED
      BY <1>4, <3>1 DEF OnItsWay
  <2> QED
    BY <2>1, <2>2
<1> QED
  BY <1>3, <1>4 DEF OnItsWay

LEMMA ReachInductive == TypeOK /\ ReachInv /\ [Next]_vars => ReachInv'
<1> SUFFICES ASSUME TypeOK, ReachInv, [Next]_vars, faults' = 0
             PROVE  /\ \A m \in Messages : IdOf[m] \in dedup' => Reached(m)'
                    /\ \A h \in Handlers : pc'[h] # "free" =>
                         \A m \in MessagesIn(hook'[h]) : Reached(m)' \/ m \in Elements(todo'[h])
                    /\ \A p \in accepted' : \A m \in MessagesIn(p) : Reached(m)'
  BY DEF ReachInv, MessagesIn
<1>1. faults = 0
  BY DEF Next, Serve, Limit, Expire, Authenticate, Dedup, Enqueue, Accept, Post, WindowEnds,
     DedupExpires, Ends, vars, TypeOK
<1>2. \A p \in Webhooks : MessagesIn(p) = Elements(MessagesOf[p]) /\ MessagesIn(p) \subseteq Messages
  BY IngressAssumption DEF MessagesIn, Elements
<1>3. \A m \in Messages : Reached(m) => Reached(m)'
  BY ReachedStays
<1>4. \A m \in Messages : IdOf[m] \in dedup => Reached(m)'
  BY <1>1, <1>3 DEF ReachInv
<1>5. \A p \in accepted : \A m \in MessagesIn(p) : Reached(m)'
  BY <1>1, <1>2, <1>3 DEF ReachInv, TypeOK
<1>6. ASSUME NEW g \in Handlers, pc[g] # "free", NEW m \in MessagesIn(hook[g])
      PROVE  Reached(m)' \/ m \in Elements(todo[g])
  BY <1>1, <1>2, <1>3, <1>6 DEF ReachInv, TypeOK
<1>7. ASSUME UNCHANGED accepted, dedup' \subseteq dedup, UNCHANGED <<hook, todo>>,
             \A g \in Handlers : pc'[g] # "free" => pc[g] # "free"
      PROVE  /\ \A m \in Messages : IdOf[m] \in dedup' => Reached(m)'
             /\ \A h \in Handlers : pc'[h] # "free" =>
                  \A m \in MessagesIn(hook'[h]) : Reached(m)' \/ m \in Elements(todo'[h])
             /\ \A p \in accepted' : \A m \in MessagesIn(p) : Reached(m)'
  BY <1>4, <1>5, <1>6, <1>7
<1>8. ASSUME NEW h \in Handlers, NEW p \in Webhooks, Post(h, p)
      PROVE  /\ \A m \in Messages : IdOf[m] \in dedup' => Reached(m)'
             /\ \A g \in Handlers : pc'[g] # "free" =>
                  \A m \in MessagesIn(hook'[g]) : Reached(m)' \/ m \in Elements(todo'[g])
             /\ \A q \in accepted' : \A m \in MessagesIn(q) : Reached(m)'
  <2>1. /\ hook' = [hook EXCEPT ![h] = p] /\ todo' = [todo EXCEPT ![h] = MessagesOf[p]]
        /\ pc' = [pc EXCEPT ![h] = "limit"] /\ UNCHANGED <<accepted, dedup>>
    BY <1>8 DEF Post, Goto, store
  <2>2. hook'[h] = p /\ todo'[h] = MessagesOf[p]
        /\ \A g \in Handlers : g # h => hook'[g] = hook[g] /\ todo'[g] = todo[g] /\ pc'[g] = pc[g]
    BY <2>1 DEF TypeOK
  <2> QED
    BY <1>2, <1>4, <1>5, <1>6, <2>1, <2>2
<1>9. ASSUME NEW h \in Handlers, Limit(h) \/ Expire(h) \/ Authenticate(h)
      PROVE  UNCHANGED <<accepted, dedup, hook, todo>>
             /\ \A g \in Handlers : pc'[g] # "free" => pc[g] # "free"
  BY <1>9 DEF Limit, Expire, Authenticate, Goto, GotoOr500, gateway, store, TypeOK
<1>10. ASSUME NEW h \in Handlers, Dedup(h)
       PROVE  /\ \A m \in Messages : IdOf[m] \in dedup' => Reached(m)'
              /\ \A g \in Handlers : pc'[g] # "free" =>
                   \A m \in MessagesIn(hook'[g]) : Reached(m)' \/ m \in Elements(todo'[g])
              /\ \A q \in accepted' : \A m \in MessagesIn(q) : Reached(m)'
  <2> DEFINE n == Head(todo[h])
  <2>1. /\ pc[h] = "dedup" /\ todo[h] # <<>> /\ UNCHANGED <<accepted, hook, published>>
        /\ dedup' = dedup \cup {IdOf[n]}
        /\ IF IdOf[n] \in dedup \/ n \notin Wanted
           THEN pc' = [pc EXCEPT ![h] = "dedup"] /\ todo' = [todo EXCEPT ![h] = Tail(@)]
           ELSE pc' = [pc EXCEPT ![h] = "publish"] /\ todo' = todo
    BY <1>10 DEF Dedup, Ends, Goto, GotoOr500, Skip, TookEffect, gateway, TypeOK
  <2>2. n \in Messages /\ Elements(todo[h]) = {n} \cup Elements(Tail(todo[h]))
    BY <2>1, HeadId, ElementsTail DEF TypeOK
  <2>3. \A m \in Messages : IdOf[m] = IdOf[n] => Reached(m)'
    <3>1. CASE IdOf[n] \in dedup
      BY <1>4, <3>1
    <3>2. CASE n \notin Wanted
      BY <2>2, <3>2 DEF Reached, Shadowed
    <3>3. CASE IdOf[n] \notin dedup /\ n \in Wanted
      <4>1. pc'[h] = "publish" /\ Head(todo'[h]) = n
        BY <2>1, <3>3 DEF TypeOK
      <4> QED
        BY <4>1 DEF Reached, OnItsWay
    <3> QED
      BY <3>1, <3>2, <3>3
  <2>4. ASSUME NEW g \in Handlers, pc'[g] # "free", NEW m \in MessagesIn(hook'[g])
        PROVE  Reached(m)' \/ m \in Elements(todo'[g])
    <3>1. pc[g] # "free" /\ (todo'[g] = todo[g] \/ (g = h /\ todo'[g] = Tail(todo[h])))
      BY <2>1, <2>4 DEF TypeOK
    <3>2. Reached(m)' \/ m \in Elements(todo[g])
      BY <1>6, <2>1, <2>4, <3>1
    <3>3. CASE todo'[g] = todo[g]
      BY <3>2, <3>3
    <3>4. CASE g = h /\ todo'[g] = Tail(todo[h])
      BY <2>2, <2>3, <3>2, <3>4
    <3> QED
      BY <3>1, <3>3, <3>4
  <2> QED
    BY <1>4, <1>5, <2>1, <2>3, <2>4
<1>11. ASSUME NEW h \in Handlers, Enqueue(h)
       PROVE  /\ \A m \in Messages : IdOf[m] \in dedup' => Reached(m)'
              /\ \A g \in Handlers : pc'[g] # "free" =>
                   \A m \in MessagesIn(hook'[g]) : Reached(m)' \/ m \in Elements(todo'[g])
              /\ \A q \in accepted' : \A m \in MessagesIn(q) : Reached(m)'
  <2>1. /\ pc[h] = "publish" /\ todo[h] # <<>> /\ UNCHANGED <<accepted, hook, dedup>>
        /\ todo' = [todo EXCEPT ![h] = Tail(@)]
        /\ \A g \in Handlers : g # h => pc'[g] = pc[g]
    BY <1>11 DEF Enqueue, Goto, GotoOr500, Skip, gateway, TypeOK
  <2>2. PICK n \in Messages : /\ n = Head(todo[h])
                             /\ Elements(todo[h]) = {n} \cup Elements(Tail(todo[h]))
    BY <2>1, HeadId, ElementsTail DEF TypeOK
  <2>3. Reached(n)'
    <3>1. OnItsWay(n)
      BY <2>1, <2>2 DEF OnItsWay
    <3> QED
      BY <1>3, <2>2, <3>1 DEF Reached
  <2>4. ASSUME NEW g \in Handlers, pc'[g] # "free", NEW m \in MessagesIn(hook'[g])
        PROVE  Reached(m)' \/ m \in Elements(todo'[g])
    <3>1. pc[g] # "free"
      BY <2>1, <2>4
    <3>2. Reached(m)' \/ m \in Elements(todo[g])
      BY <1>6, <2>1, <2>4, <3>1
    <3>3. CASE g = h
      <4>1. todo'[g] = Tail(todo[h])
        BY <2>1, <3>3 DEF TypeOK
      <4>2. m = n \/ Reached(m)' \/ m \in Elements(todo'[g])
        BY <2>2, <3>2, <3>3, <4>1
      <4> QED
        BY <2>3, <4>2
    <3>4. CASE g # h
      BY <2>1, <3>2, <3>4 DEF TypeOK
    <3> QED
      BY <3>3, <3>4
  <2> QED
    BY <1>4, <1>5, <2>1, <2>4
<1>12. ASSUME NEW h \in Handlers, Accept(h)
       PROVE  /\ \A m \in Messages : IdOf[m] \in dedup' => Reached(m)'
              /\ \A g \in Handlers : pc'[g] # "free" =>
                   \A m \in MessagesIn(hook'[g]) : Reached(m)' \/ m \in Elements(todo'[g])
              /\ \A q \in accepted' : \A m \in MessagesIn(q) : Reached(m)'
  <2>1. /\ pc[h] = "dedup" /\ todo[h] = <<>> /\ UNCHANGED <<hook, todo, dedup>>
        /\ accepted' = accepted \cup {hook[h]}
        /\ \A g \in Handlers : pc'[g] # "free" => pc[g] # "free"
    BY <1>12 DEF Accept, Goto, store, TypeOK
  <2>2. \A m \in MessagesIn(hook[h]) : Reached(m)'
    BY <1>6, <2>1 DEF Elements
  <2> QED
    BY <1>4, <1>5, <1>6, <2>1, <2>2
<1>13. CASE WindowEnds \/ UNCHANGED vars \/ \E i \in Ids : DedupExpires(i)
  <2>1. UNCHANGED <<accepted, hook, todo, pc>> /\ dedup' \subseteq dedup
    BY <1>13 DEF WindowEnds, DedupExpires, request, store, gateway, vars
  <2> QED
    BY <1>7, <2>1
<1> QED
  BY <1>7, <1>8, <1>9, <1>10, <1>11, <1>12, <1>13 DEF Next, Serve

(* As long as no await failed, a webhook answered 200 left nothing behind:
   each of its messages is on the stream, or a concurrent request for the same
   message is about to put it there, or a filtered message has its id. *)
THEOREM AcceptedIsTaken == Spec => []AcceptedUnlessFailed
<1>1. Init => ReachInv
  BY DEF Init, ReachInv
<1>2. ReachInv => AcceptedUnlessFailed
  BY DEF ReachInv, AcceptedUnlessFailed, Reached
<1> QED
  BY <1>1, <1>2, TypeCorrect, ReachInductive, PTL DEF Spec
===============================================================================
