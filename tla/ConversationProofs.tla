-------------------------- MODULE ConversationProofs --------------------------
(***************************************************************************)
(* Proofs about Conversation, for any number of attempts, operators,       *)
(* conversations, requests and failures.                                   *)
(***************************************************************************)
EXTENDS Conversation, FiniteSetTheorems, TLAPS

LEMMA ConvsAreNumbers ==
  ASSUME NEW n \in 0..MaxConvs
  PROVE  /\ \A c \in Convs : c \in Nat /\ c # Nowhere
         /\ \A k \in 0..n : k # Nowhere => k \in Convs
         /\ Nowhere \in 0..n
BY ConversationAssumption DEF Convs, Nowhere

(* The INSERT of a conversation: a new row was none before; the others stay. *)
Opens ==
  /\ opened < MaxConvs /\ opened' = opened + 1
  /\ state' = [state EXCEPT ![opened + 1] = "active"]

LEMMA FreshRow ==
  ASSUME ConvsOK, Opens
  PROVE  /\ opened' \in Convs /\ opened' \in 0..MaxConvs /\ opened' = opened + 1
         /\ opened' # Nowhere /\ 0..opened \subseteq 0..opened'
         /\ state[opened'] = "none" /\ state' = [state EXCEPT ![opened'] = "active"]
         /\ \A c \in Convs : c > opened' <=> c > opened /\ c # opened'
         /\ ConvsOK'
<1>1. /\ opened' \in Convs /\ opened' \in 0..MaxConvs /\ opened' = opened + 1
      /\ opened' # Nowhere /\ 0..opened \subseteq 0..opened'
  BY ConversationAssumption DEF Opens, ConvsOK, Convs, Nowhere
<1>2. state[opened'] = "none" /\ state' = [state EXCEPT ![opened'] = "active"]
  BY <1>1 DEF Opens, ConvsOK
<1>3. \A c \in Convs : c > opened' <=> c > opened /\ c # opened'
  BY <1>1 DEF Convs, ConvsOK
<1>4. ConvsOK'
  BY <1>1, <1>2, <1>3 DEF ConvsOK, States
<1> QED
  BY <1>1, <1>2, <1>3, <1>4

(* An INSERT that took effect opens a row and resolves the attempt to it. *)
LEMMA Inserts ==
  ASSUME NEW a \in Attempts, InsertConversation(a)
  PROVE  \/ Opens /\ row' = [row EXCEPT ![a] = opened']
         \/ UNCHANGED <<opened, state, row>> /\ bot' = [bot EXCEPT ![a] = "done"]
<1> PICK r \in Results :
      /\ Ends(r) /\ Proceed(a, r, "persistIn")
      /\ IF r = "before" THEN UNCHANGED <<opened, state, row>>
         ELSE /\ opened' = opened + 1
              /\ state' = [state EXCEPT ![opened + 1] = "active"]
              /\ row' = [row EXCEPT ![a] = opened + 1]
  BY DEF InsertConversation
<1> QED
  BY DEF InsertConversation, Opens, Proceed

(* An await that ends leaves the bound on failures. *)
LEMMA EndsOK ==
  ASSUME CountsOK, NEW r, Ends(r)
  PROVE  faults' \in 0..MaxFaults
BY ConversationAssumption DEF CountsOK, Ends

LEMMA IncrementOK ==
  ASSUME NEW f \in [Convs -> Nat], NEW c \in Convs
  PROVE  Increment(f, c) \in [Convs -> Nat]
BY DEF Increment

(* A request that loads, ends or moves on keeps the types of the API. *)
LEMMA RequestOK ==
  ASSUME ApiOK, NEW o \in Operators, UNCHANGED opened,
         NEW k \in {"none", "takeover", "send", "sent", "close"}, NEW c \in 0..opened,
         NEW s \in States \cup {"none"}, k # "none" => c # Nowhere,
         req' = [req EXCEPT ![o] = [kind |-> k, conv |-> c, seen |-> s]],
         audit' \in [Convs -> States \cup {"none"}], raced' \subseteq Convs
  PROVE  ApiOK'
BY DEF ApiOK

LEMMA OnItFinite ==
  ASSUME NEW c
  PROVE  IsFiniteSet(OnIt(c)) /\ Cardinality(OnIt(c)) \in Nat
<1>1. OnIt(c) \subseteq Attempts
  BY DEF OnIt
<1> QED
  BY <1>1, ActorsAssumption, FS_Subset, FS_CardinalityType

(* Every variable keeps its type; an attempt has resolved a row from its route
   on, and rows exist up to the number of INSERTs. *)
THEOREM TypeCorrect == Spec => []TypeOK
<1>1. Init => TypeOK
  <2> SUFFICES ASSUME Init PROVE TypeOK
    OBVIOUS
  <2>1. ConvsOK
    BY ConversationAssumption DEF Init, ConvsOK, Convs
  <2>2. AttemptOK
    BY <2>1 DEF Init, AttemptOK, Nowhere
  <2>3. CountsOK
    BY ConversationAssumption DEF Init, CountsOK
  <2>4. ApiOK
    BY DEF Init, ApiOK, NoRequest, Nowhere
  <2> QED
    BY <2>1, <2>2, <2>3, <2>4 DEF TypeOK
<1>2. TypeOK /\ [Next]_vars => TypeOK'
  <2> SUFFICES ASSUME TypeOK, [Next]_vars PROVE TypeOK'
    OBVIOUS
  <2> USE DEF attempt, rows, sent, api
  <2>0. ConvsOK /\ AttemptOK /\ CountsOK /\ ApiOK /\ opened \in 0..MaxConvs
    BY DEF TypeOK, ConvsOK
  <2>1. ASSUME NEW a \in Attempts, ResolveRoute(a) PROVE TypeOK'
    <3>1. \A c \in Active : c \in 0..opened /\ c # Nowhere
      BY <2>0, ConversationAssumption DEF Active, ConvsOK, Convs, Nowhere
    <3>2. AttemptOK'
      BY <2>0, <2>1, <3>1 DEF ResolveRoute, Proceed, AttemptOK
    <3> QED
      BY <2>0, <2>1, <3>2 DEF ResolveRoute, TypeOK, ConvsOK, CountsOK, ApiOK
  <2>2. ASSUME NEW a \in Attempts, InsertConversation(a) PROVE TypeOK'
    <3>1. CountsOK'
      BY <2>0, <2>2, EndsOK DEF InsertConversation, CountsOK
    <3>2. CASE Opens /\ row' = [row EXCEPT ![a] = opened']
      <4>1. AttemptOK'
        <5>1. PICK l \in {"persistIn", "done"} : bot' = [bot EXCEPT ![a] = l]
          BY <2>2 DEF InsertConversation, Proceed
        <5> QED
          BY <2>0, <3>2, <5>1, FreshRow DEF AttemptOK
      <4>2. ApiOK'
        BY <2>0, <2>2, <3>2, FreshRow DEF InsertConversation, ApiOK
      <4> QED
        BY <2>0, <3>1, <3>2, <4>1, <4>2, FreshRow DEF TypeOK
    <3>3. CASE UNCHANGED <<opened, state, row>> /\ bot' = [bot EXCEPT ![a] = "done"]
      BY <2>0, <2>2, <3>1, <3>3 DEF InsertConversation, TypeOK, ConvsOK, AttemptOK, ApiOK
    <3> QED
      BY <2>2, <3>2, <3>3, Inserts
  <2>3. ASSUME NEW a \in Attempts, PersistInbound(a) \/ Answer(a) \/ PersistOutbound(a) \/ Abort(a)
        PROVE TypeOK'
    <3>0. row[a] # Nowhere => row[a] \in Convs
      BY <2>0, ConvsAreNumbers DEF AttemptOK
    <3>1. CountsOK'
      <4>1. CASE PersistInbound(a) \/ PersistOutbound(a)
        BY <2>0, <4>1, <3>0, EndsOK, IncrementOK
        DEF PersistInbound, PersistOutbound, AttemptOK, CountsOK
      <4>2. CASE Answer(a) \/ Abort(a)
        BY <2>0, <4>2, ConversationAssumption DEF Answer, Abort, CountsOK
      <4> QED
        BY <2>3, <4>1, <4>2
    <3>2. AttemptOK'
      BY <2>0, <2>3 DEF PersistInbound, Answer, PersistOutbound, Abort, Proceed, AttemptOK
    <3>3. ConvsOK' /\ ApiOK'
      BY <2>0, <2>3 DEF PersistInbound, Answer, PersistOutbound, Abort, ConvsOK, ApiOK
    <3> QED
      BY <3>1, <3>2, <3>3 DEF TypeOK
  <2>4. ASSUME NEW a \in Attempts, PublishReply(a) PROVE TypeOK'
    <3>0. row[a] # Nowhere => row[a] \in Convs
      BY <2>0, ConvsAreNumbers DEF AttemptOK
    <3>1. CountsOK'
      BY <2>0, <2>4, <3>0, EndsOK, IncrementOK DEF PublishReply, Late, AttemptOK, CountsOK
    <3>2. AttemptOK'
      BY <2>0, <2>4 DEF PublishReply, Proceed, AttemptOK
    <3>3. ConvsOK' /\ ApiOK'
      BY <2>0, <2>4 DEF PublishReply, ConvsOK, ApiOK
    <3> QED
      BY <3>1, <3>2, <3>3 DEF TypeOK
  <2>5. ASSUME NEW o \in Operators, NEW kind \in {"takeover", "send", "close"}, NEW c \in Convs,
               Load(o, kind, c) PROVE TypeOK'
    <3>1. c \in 0..opened /\ c # Nowhere
      BY <2>0, <2>5, ConversationAssumption DEF Load, ConvsOK, Convs, Nowhere
    <3>2. state[c] \in States \cup {"none"} /\ raced' \subseteq Convs
      BY <2>0, <2>5 DEF Load, ConvsOK, ApiOK
    <3>3. ApiOK'
      BY <2>0, <2>5, <3>1, <3>2, RequestOK DEF Load, ApiOK
    <3>4. CountsOK'
      BY <2>0, <2>5, ConversationAssumption DEF Load, CountsOK
    <3>5. ConvsOK' /\ AttemptOK'
      BY <2>0, <2>5 DEF Load, ConvsOK, AttemptOK
    <3> QED
      BY <3>3, <3>4, <3>5 DEF TypeOK
  <2>6. ASSUME NEW o \in Operators, Commit(o) PROVE TypeOK'
    <3> DEFINE c == req[o].conv
    <3> DEFINE t == Target(req[o].kind)
    <3>1. t \in States \ {"active"} /\ c \in Convs /\ state[c] # "none"
      BY <2>0, <2>6, ConvsAreNumbers DEF Commit, Target, States, ApiOK, ConvsOK
    <3>2. ConvsOK'
      BY <2>0, <2>6, <3>1 DEF Commit, Assign, ConvsOK, States
    <3>3. audit' \in [Convs -> States \cup {"none"}]
      BY <2>0, <2>6, <3>1 DEF Commit, Assign, ApiOK
    <3>4. ApiOK'
      BY <2>0, <2>6, <3>3, RequestOK, ConvsAreNumbers DEF Commit, Done, NoRequest, ApiOK
    <3>5. under' \in [Convs -> Nat]
      BY <2>0, <2>6, OnItFinite DEF Commit, CountsOK
    <3>6. CountsOK' /\ AttemptOK'
      BY <2>0, <2>6, <3>5 DEF Commit, CountsOK, AttemptOK
    <3> QED
      BY <3>2, <3>4, <3>6 DEF TypeOK
  <2>7. ASSUME NEW o \in Operators, SendPublish(o) \/ SendCommit(o) \/ Fail(o) PROVE TypeOK'
    <3>1. ApiOK'
      BY <2>0, <2>7, ConvsAreNumbers DEF SendPublish, SendCommit, Fail, Done, Published, NoRequest, ApiOK
    <3>2. req[o].kind # "none" => req[o].conv \in Convs
      BY <2>0, ConvsAreNumbers DEF ApiOK
    <3>3. CountsOK'
      BY <2>0, <2>7, <3>2, IncrementOK, ConversationAssumption
      DEF SendPublish, SendCommit, Fail, CountsOK
    <3>4. ConvsOK' /\ AttemptOK'
      BY <2>0, <2>7 DEF SendPublish, SendCommit, Fail, ConvsOK, AttemptOK
    <3> QED
      BY <3>1, <3>3, <3>4 DEF TypeOK
  <2>8. CASE UNCHANGED vars
    BY <2>8 DEF vars, TypeOK, ConvsOK, AttemptOK, CountsOK, ApiOK
  <2> QED
    BY <2>1, <2>2, <2>3, <2>4, <2>5, <2>6, <2>7, <2>8 DEF Next, Bot, Request
<1> QED
  BY <1>1, <1>2, PTL DEF Spec

-------------------------------------------------------------------------------
(* How a step changes the states of conversations: it inserts an active one
   where none is active, or a request that had loaded a conversation sets it
   to its target, or nothing changes. *)
LEMMA StateSteps ==
  ASSUME TypeOK, [Next]_vars
  PROVE  \/ UNCHANGED state
         \/ /\ \E a \in Attempts : InsertConversation(a) /\ row' = [row EXCEPT ![a] = opened']
            /\ opened' \in Convs /\ state[opened'] = "none"
            /\ state' = [state EXCEPT ![opened'] = "active"]
         \/ \E o \in Operators :
              /\ Commit(o) /\ req[o].conv \in Convs
              /\ Target(req[o].kind) \in {"human_active", "closed"}
              /\ state[req[o].conv] # "none"
              /\ state' = [state EXCEPT ![req[o].conv] = Target(req[o].kind)]
<1> USE DEF TypeOK
<1>1. ASSUME NEW a \in Attempts, InsertConversation(a) PROVE
        \/ UNCHANGED state
        \/ /\ InsertConversation(a) /\ row' = [row EXCEPT ![a] = opened']
           /\ opened' \in Convs /\ state[opened'] = "none"
           /\ state' = [state EXCEPT ![opened'] = "active"]
  BY <1>1, Inserts, FreshRow
<1>2. ASSUME NEW o \in Operators, Commit(o) PROVE
        \/ UNCHANGED state
        \/ /\ Commit(o) /\ req[o].conv \in Convs
           /\ Target(req[o].kind) \in {"human_active", "closed"}
           /\ state[req[o].conv] # "none"
           /\ state' = [state EXCEPT ![req[o].conv] = Target(req[o].kind)]
  <2>1. req[o].conv \in Convs /\ req[o].conv \in 0..opened
    BY <1>2, ConvsAreNumbers DEF Commit, ApiOK, ConvsOK
  <2>2. state[req[o].conv] # "none"
    BY <2>1 DEF ConvsOK
  <2> QED
    BY <1>2, <2>1, <2>2 DEF Commit, Assign, Target
<1>3. CASE UNCHANGED vars
  BY <1>3 DEF vars
<1> QED
  BY <1>1, <1>2, <1>3
  DEF Next, Bot, Request, ResolveRoute, PersistInbound, Answer, PersistOutbound, PublishReply,
      Abort, Load, SendPublish, SendCommit, Fail

(* A conversation an operator took or closed never returns to the bot. *)
THEOREM StaysWithHumans == Spec => NeverReactivated
<1>1. TypeOK /\ [Next]_vars =>
        [\A c \in Convs : state[c] \in States \ {"active"} => state'[c] # "active"]_vars
  <2> SUFFICES ASSUME TypeOK, [Next]_vars, NEW c \in Convs, state[c] \in States \ {"active"}
               PROVE  state'[c] # "active"
    OBVIOUS
  <2>1. state \in [Convs -> States \cup {"none"}]
    BY DEF TypeOK, ConvsOK
  <2> QED
    BY <2>1, StateSteps DEF States
<1> QED
  BY <1>1, TypeCorrect, PTL DEF Spec, NeverReactivated

-------------------------------------------------------------------------------
(* Attempts on conversation c whose next await is one of L. *)
Placed(c, L) == {a \in Attempts : bot[a] \in L /\ row[a] = c}

Moves(a, l, r) == bot' = [bot EXCEPT ![a] = l] /\ row' = [row EXCEPT ![a] = r]

(* A step of one attempt moves it in or out of such a set, or neither. *)
LEMMA PlacedStep ==
  ASSUME AttemptOK, NEW a \in Attempts, NEW l, NEW r, NEW c, NEW L, Moves(a, l, r)
  PROVE  /\ Cardinality(Placed(c, L)) \in Nat
         /\ (bot[a] \in L /\ row[a] = c) /\ ~(l \in L /\ r = c) =>
              Cardinality(Placed(c, L)') = Cardinality(Placed(c, L)) - 1
         /\ ~(bot[a] \in L /\ row[a] = c) /\ (l \in L /\ r = c) =>
              Cardinality(Placed(c, L)') = Cardinality(Placed(c, L)) + 1
         /\ ((bot[a] \in L /\ row[a] = c) <=> (l \in L /\ r = c)) =>
              Cardinality(Placed(c, L)') = Cardinality(Placed(c, L))
<1> DEFINE P == Placed(c, L)
<1>1. P \subseteq Attempts
  BY DEF Placed
<1>2. IsFiniteSet(P) /\ Cardinality(P) \in Nat
  BY <1>1, ActorsAssumption, FS_Subset, FS_CardinalityType
<1>3. P' = IF l \in L /\ r = c THEN P \cup {a} ELSE P \ {a}
  <2>1. /\ bot'[a] = l /\ row'[a] = r
        /\ \A b \in Attempts : b # a => bot'[b] = bot[b] /\ row'[b] = row[b]
    BY DEF AttemptOK, Moves
  <2> QED
    BY <2>1 DEF Placed
<1>4. Cardinality(P \ {a}) = IF a \in P THEN Cardinality(P) - 1 ELSE Cardinality(P)
  BY <1>2, FS_RemoveElement
<1>5. Cardinality(P \cup {a}) = IF a \in P THEN Cardinality(P) ELSE Cardinality(P) + 1
  BY <1>2, FS_AddElement
<1>6. a \in P => P \cup {a} = P
  OBVIOUS
<1>7. a \notin P => P \ {a} = P
  OBVIOUS
<1> HIDE DEF P
<1>8. /\ a \in P /\ ~(l \in L /\ r = c) => Cardinality(P') = Cardinality(P) - 1
      /\ a \notin P /\ l \in L /\ r = c => Cardinality(P') = Cardinality(P) + 1
      /\ (a \in P <=> (l \in L /\ r = c)) => Cardinality(P') = Cardinality(P)
  BY <1>3, <1>4, <1>5, <1>6, <1>7
<1>9. a \in P <=> bot[a] \in L /\ row[a] = c
  BY DEF P, Placed
<1> QED
  BY <1>2, <1>8, <1>9 DEF P

Live == {"new", "insert", "persistIn", "agent", "persistOut", "publish"}

LEMMA OnItIsPlaced == ASSUME AttemptOK, NEW c PROVE OnIt(c) = Placed(c, Live)
BY DEF AttemptOK, OnIt, Placed, Live

(* What a step of an attempt does to its own state; of Placed sets, only those
   of a conversation it resolves or had resolved change. *)
LEMMA AttemptSteps ==
  ASSUME TypeOK, NEW a \in Attempts, Bot(a)
  PROVE  /\ bot[a] # "done"
         /\ \E l \in Live \cup {"done"}, r \in 0..opened' :
              /\ Moves(a, l, r)
              /\ \/ r = row[a]
                 \/ r \in Convs /\ state'[r] = "active" /\ row[a] = Nowhere /\ l \in {"persistIn", "done"}
<1> USE DEF TypeOK
<1>0. row = [row EXCEPT ![a] = row[a]] /\ row[a] \in 0..opened
  BY DEF AttemptOK
<1>1. CASE ResolveRoute(a)
  <2>1. CASE \E c \in Active : row' = [row EXCEPT ![a] = c] /\ Proceed(a, "ok", "persistIn")
    <3>1. PICK c \in Active : row' = [row EXCEPT ![a] = c] /\ Proceed(a, "ok", "persistIn")
      BY <2>1
    <3>2. c \in Convs /\ state'[c] = "active" /\ c \in 0..opened'
      BY <1>1, ConversationAssumption DEF ResolveRoute, Active, ConvsOK, Convs
    <3>3. bot' = [bot EXCEPT ![a] = "persistIn"] /\ row[a] = Nowhere /\ bot[a] # "done"
      <4>1. bot[a] = "new" /\ AttemptOK /\ bot' = [bot EXCEPT ![a] = "persistIn"]
        BY <1>1, <3>1 DEF ResolveRoute, Proceed
      <4> QED
        BY <4>1 DEF AttemptOK
    <3> QED
      BY <3>1, <3>2, <3>3 DEF Live, Moves
  <2>2. CASE UNCHANGED row /\ Proceed(a, "ok", "insert")
    <3>1. bot' = [bot EXCEPT ![a] = "insert"] /\ opened' = opened /\ bot[a] # "done"
      BY <1>1, <2>2 DEF ResolveRoute, Proceed
    <3> QED
      BY <1>0, <2>2, <3>1 DEF Live, Moves
  <2> QED
    BY <1>1, <2>1, <2>2 DEF ResolveRoute
<1>2. CASE InsertConversation(a)
  <2>1. PICK l \in {"persistIn", "done"} : bot' = [bot EXCEPT ![a] = l]
    BY <1>2 DEF InsertConversation, Proceed
  <2>2. CASE Opens /\ row' = [row EXCEPT ![a] = opened']
    <3>1. opened' \in Convs /\ opened' \in 0..opened' /\ state'[opened'] = "active"
      BY <2>2, FreshRow, ConversationAssumption DEF ConvsOK, Convs
    <3>2. row[a] = Nowhere /\ bot[a] # "done"
      <4>1. bot[a] = "insert" /\ AttemptOK
        BY <1>2 DEF InsertConversation
      <4> QED
        BY <4>1 DEF AttemptOK
    <3> QED
      BY <2>1, <2>2, <3>1, <3>2 DEF Live, Moves
  <2>3. CASE UNCHANGED <<opened, state, row>>
    <3>1. bot[a] # "done"
      BY <1>2 DEF InsertConversation
    <3> QED
      BY <1>0, <2>1, <2>3, <3>1 DEF Live, Moves
  <2> QED
    BY <1>2, <2>2, <2>3, Inserts
<1>3. CASE PersistInbound(a) \/ Answer(a) \/ PersistOutbound(a) \/ PublishReply(a) \/ Abort(a)
  <2>1. UNCHANGED <<opened, row>> /\ bot[a] # "done"
    BY <1>3 DEF PersistInbound, Answer, PersistOutbound, PublishReply, Abort
  <2>2. PICK l \in Live \cup {"done"} : bot' = [bot EXCEPT ![a] = l]
    BY <1>3 DEF PersistInbound, Answer, PersistOutbound, PublishReply, Abort, Proceed, Live
  <2> QED
    BY <1>0, <2>1, <2>2 DEF Moves
<1> QED
  BY <1>1, <1>2, <1>3 DEF Bot

(* Of a conversation out of the bot's hands, the attempts still on it have not
   sent their late replies, and no other attempt gets to it. *)
LateInv ==
  \A c \in Convs :
    /\ state[c] \in {"none", "active"} => late[c] = 0
    /\ state[c] \in {"human_active", "closed"} => late[c] + Cardinality(OnIt(c)) <= under[c]

(* Into a conversation that is not active the bot sends one reply at most for
   each attempt that was on it when it was taken. *)
THEOREM BacksOff == Spec => []BotBacksOff
<1>1. Init => LateInv
  BY DEF Init, LateInv
<1>2. TypeOK /\ LateInv /\ [Next]_vars => LateInv'
  <2> SUFFICES ASSUME TypeOK, LateInv, [Next]_vars, NEW c \in Convs
               PROVE  /\ state'[c] \in {"none", "active"} => late'[c] = 0
                      /\ state'[c] \in {"human_active", "closed"} =>
                           late'[c] + Cardinality(OnIt(c)') <= under'[c]
    BY DEF LateInv
  <2> DEFINE n == Cardinality(OnIt(c))
  <2>1. /\ late \in [Convs -> Nat] /\ under \in [Convs -> Nat] /\ late[c] \in Nat /\ under[c] \in Nat
        /\ state \in [Convs -> States \cup {"none"}] /\ n \in Nat
        /\ AttemptOK /\ (\A k \in 0..opened : k # Nowhere => k \in Convs /\ state[k] # "none")
    <3>1. ConvsOK /\ AttemptOK /\ late \in [Convs -> Nat] /\ under \in [Convs -> Nat]
      BY DEF TypeOK, CountsOK
    <3>2. n \in Nat
      BY <3>1, OnItFinite DEF TypeOK
    <3>3. ASSUME NEW k \in 0..opened, k # Nowhere PROVE k \in Convs /\ state[k] # "none"
      <4>1. opened \in 0..MaxConvs /\ \A d \in Convs : state[d] = "none" <=> d > opened
        BY <3>1 DEF ConvsOK
      <4>2. k \in Convs /\ ~(k > opened)
        BY <3>3, <4>1, ConversationAssumption DEF Convs, Nowhere
      <4> QED
        BY <4>1, <4>2
    <3> QED
      BY <3>1, <3>2, <3>3 DEF ConvsOK
  <2>2. /\ state[c] \in {"none", "active"} => late[c] = 0
        /\ state[c] \in {"human_active", "closed"} => late[c] + n <= under[c]
    BY DEF LateInv
  <2>3. ASSUME NEW a \in Attempts, Bot(a)
        PROVE  /\ state'[c] \in {"none", "active"} => late'[c] = 0
               /\ state'[c] \in {"human_active", "closed"} => late'[c] + Cardinality(OnIt(c)') <= under'[c]
    <3>1. PICK l \in Live \cup {"done"}, r \in 0..opened' :
            /\ Moves(a, l, r)
            /\ \/ r = row[a]
               \/ r \in Convs /\ state'[r] = "active" /\ row[a] = Nowhere /\ l \in {"persistIn", "done"}
      BY <2>3, AttemptSteps
    <3>2. bot[a] \in Live
      BY <2>1, <2>3, AttemptSteps DEF AttemptOK, Live
    <3>3. OnIt(c) = Placed(c, Live) /\ OnIt(c)' = Placed(c, Live)'
      BY <2>1, <3>1 DEF AttemptOK, OnIt, Placed, Live, Moves
    <3>4. /\ row[a] = c /\ l = "done" /\ r = c => Cardinality(OnIt(c)') = n - 1
          /\ row[a] # c /\ r # c => Cardinality(OnIt(c)') = n
          /\ row[a] = c /\ r = c /\ l # "done" => Cardinality(OnIt(c)') = n
      <4>1. /\ ((bot[a] \in Live /\ row[a] = c) /\ ~(l \in Live /\ r = c) => Cardinality(Placed(c, Live)') = Cardinality(Placed(c, Live)) - 1)
            /\ (((bot[a] \in Live /\ row[a] = c) <=> (l \in Live /\ r = c)) => Cardinality(Placed(c, Live)') = Cardinality(Placed(c, Live)))
        BY <2>1, <3>1, PlacedStep
      <4>2. l \in Live <=> l # "done"
        BY <3>1 DEF Live
      <4> QED
        BY <3>2, <3>3, <4>1, <4>2
    <3>5. state' = state \/ \E d \in Convs : state[d] = "none" /\ state' = [state EXCEPT ![d] = "active"]
      BY <2>3, Inserts, FreshRow DEF Bot, ResolveRoute, PersistInbound, Answer, PersistOutbound,
         PublishReply, Abort, TypeOK
    <3>6. state'[c] \in {"human_active", "closed"} => state[c] = state'[c] /\ (r = c => row[a] = c)
      BY <2>1, <3>1, <3>5
    <3>7. under' = under
      BY <2>3 DEF Bot, ResolveRoute, InsertConversation, PersistInbound, Answer, PersistOutbound,
         PublishReply, Abort
    <3>8. CASE PublishReply(a)
      <4>1. l = "done" /\ r = row[a] /\ row[a] \in Convs /\ state' = state
        <5>1. bot'[a] = "done" /\ row' = row /\ state' = state /\ row[a] \in 0..opened /\ row[a] # Nowhere
          BY <2>1, <3>8 DEF PublishReply, Proceed, AttemptOK
        <5> QED
          BY <2>1, <3>1, <5>1 DEF AttemptOK, Moves
      <4>2. late' = late \/ (late' = [late EXCEPT ![row[a]] = late[row[a]] + 1] /\ state[row[a]] # "active")
        BY <3>8 DEF PublishReply, Late, Increment
      <4>3. state[row[a]] # "none"
        BY <2>1, <3>8 DEF PublishReply, AttemptOK
      <4>4. late'[c] = late[c] \/ (row[a] = c /\ late'[c] = late[c] + 1 /\ state[c] \notin {"none", "active"})
        BY <2>1, <4>1, <4>2, <4>3
      <4> QED
        BY <2>1, <2>2, <3>4, <3>6, <3>7, <4>1, <4>4
    <3>9. CASE ~PublishReply(a)
      <4>1. late' = late
        BY <2>3, <3>9 DEF Bot, ResolveRoute, InsertConversation, PersistInbound, Answer, PersistOutbound, Abort
      <4>2. state'[c] \in {"human_active", "closed"} => Cardinality(OnIt(c)') <= n
        <5>1. row[a] = c => r = c
          BY <2>1, <3>1 DEF Convs, Nowhere
        <5> QED
          BY <2>1, <3>1, <3>4, <3>6, <5>1
      <4>3. state'[c] \in {"none", "active"} => state[c] \in {"none", "active"}
        BY <2>1, <3>5
      <4> QED
        <5> HIDE DEF n
        <5>1. Cardinality(OnIt(c)') \in Nat
          <6>1. OnIt(c)' \subseteq Attempts
            BY DEF OnIt
          <6> QED
            BY <6>1, ActorsAssumption, FS_Subset, FS_CardinalityType
        <5> QED
          BY <2>1, <2>2, <3>6, <3>7, <4>1, <4>2, <4>3, <5>1
    <3> QED
      BY <3>8, <3>9
  <2>4. ASSUME NEW o \in Operators, Request(o)
        PROVE  /\ state'[c] \in {"none", "active"} => late'[c] = 0
               /\ state'[c] \in {"human_active", "closed"} => late'[c] + Cardinality(OnIt(c)') <= under'[c]
    <3>1. UNCHANGED <<late, bot, row>>
      BY <2>4 DEF Request, Load, Commit, SendPublish, SendCommit, Fail, attempt
    <3>2. OnIt(c)' = OnIt(c)
      BY <3>1 DEF OnIt
    <3>3. CASE Commit(o)
      <4> DEFINE d == req[o].conv
      <4>1. d \in Convs /\ state[d] # "none"
        BY <2>1, <3>3, ConvsAreNumbers DEF Commit, TypeOK, ApiOK, ConvsOK
      <4>2. state' = state \/ state' = [state EXCEPT ![d] = Target(req[o].kind)]
        BY <3>3 DEF Commit, Assign
      <4>3. Target(req[o].kind) \in {"human_active", "closed"}
        BY DEF Target
      <4>4. under' = IF state[d] = "active" THEN [under EXCEPT ![d] = Cardinality(OnIt(d))] ELSE under
        BY <3>3 DEF Commit
      <4>5. c # d => state'[c] = state[c] /\ under'[c] = under[c]
        BY <2>1, <4>1, <4>2, <4>4
      <4>6. c = d => \/ state[c] = "active" /\ under'[c] = n
                     \/ state[c] \in {"human_active", "closed"} /\ under'[c] = under[c]
        BY <2>1, <4>1, <4>4 DEF States
      <4>7. c = d => state'[c] = state[c] \/ state'[c] \in {"human_active", "closed"}
        BY <2>1, <4>1, <4>2, <4>3
      <4> HIDE DEF n, d
      <4> QED
        BY <2>1, <2>2, <3>1, <3>2, <4>5, <4>6, <4>7 DEF n
    <3>4. CASE ~Commit(o)
      <4>1. UNCHANGED <<state, under>>
        BY <2>4, <3>4 DEF Request, Load, SendPublish, SendCommit, Fail
      <4> QED
        BY <2>2, <3>1, <3>2, <4>1
    <3> QED
      BY <3>3, <3>4
  <2>5. CASE UNCHANGED vars
    BY <2>2, <2>5 DEF vars, attempt, OnIt
  <2> QED
    BY <2>3, <2>4, <2>5 DEF Next
<1>3. LateInv /\ TypeOK => BotBacksOff
  <2> SUFFICES ASSUME LateInv, TypeOK, NEW c \in Convs PROVE late[c] <= under[c]
    BY DEF BotBacksOff
  <2>1. late[c] \in Nat /\ under[c] \in Nat /\ Cardinality(OnIt(c)) \in Nat /\ state[c] \in States \cup {"none"}
    BY OnItFinite DEF TypeOK, CountsOK, ConvsOK
  <2> QED
    BY <2>1 DEF LateInv, States
<1> QED
  BY <1>1, <1>2, <1>3, TypeCorrect, PTL DEF Spec

-------------------------------------------------------------------------------
(* Requests of a conversation that were published and are not yet committed. *)
Uncommitted(c) == {o \in Operators : req[o].kind = "sent" /\ req[o].conv = c}

Sending == {"publish"}
Answering == {"agent", "persistOut"}

(* The bot's rows lead its replies by the attempts between the two, and the
   contact's rows lead the bot's by the attempts still to answer; the operators'
   replies lead their rows by the requests between the two. *)
BotInv ==
  \A c \in Convs :
    /\ botSent[c] + Cardinality(Placed(c, Sending)) <= botRows[c]
    /\ botRows[c] + Cardinality(Placed(c, Answering)) <= inRows[c]

HumanInv ==
  \A c \in Convs : humanRows[c] + Cardinality(Uncommitted(c)) <= humanSent[c]

LEMMA UncommittedFinite ==
  ASSUME NEW c
  PROVE  IsFiniteSet(Uncommitted(c)) /\ Cardinality(Uncommitted(c)) \in Nat
<1>1. Uncommitted(c) \subseteq Operators
  BY DEF Uncommitted
<1> QED
  BY <1>1, ActorsAssumption, FS_Subset, FS_CardinalityType

LEMMA PlacedFinite ==
  ASSUME NEW c, NEW L
  PROVE  Cardinality(Placed(c, L)) \in Nat
<1>1. Placed(c, L) \subseteq Attempts
  BY DEF Placed
<1> QED
  BY <1>1, ActorsAssumption, FS_Subset, FS_CardinalityType

LEMMA BotStep == TypeOK /\ BotInv /\ [Next]_vars => BotInv'
<1> SUFFICES ASSUME TypeOK, BotInv, [Next]_vars, NEW c \in Convs
             PROVE  /\ botSent'[c] + Cardinality(Placed(c, Sending)') <= botRows'[c]
                    /\ botRows'[c] + Cardinality(Placed(c, Answering)') <= inRows'[c]
  BY DEF BotInv
<1> DEFINE p == Cardinality(Placed(c, Sending))
<1> DEFINE q == Cardinality(Placed(c, Answering))
<1>1. /\ botSent \in [Convs -> Nat] /\ botRows \in [Convs -> Nat] /\ inRows \in [Convs -> Nat]
      /\ botSent[c] \in Nat /\ botRows[c] \in Nat /\ inRows[c] \in Nat
      /\ p \in Nat /\ q \in Nat /\ AttemptOK
      /\ botSent[c] + p <= botRows[c] /\ botRows[c] + q <= inRows[c]
  BY PlacedFinite DEF TypeOK, CountsOK, BotInv
<1>2. ASSUME NEW a \in Attempts, Bot(a)
      PROVE  /\ botSent'[c] + Cardinality(Placed(c, Sending)') <= botRows'[c]
             /\ botRows'[c] + Cardinality(Placed(c, Answering)') <= inRows'[c]
  <2>1. PICK l \in Live \cup {"done"}, r \in 0..opened' :
          /\ Moves(a, l, r)
          /\ \/ r = row[a]
             \/ r \in Convs /\ state'[r] = "active" /\ row[a] = Nowhere /\ l \in {"persistIn", "done"}
    BY <1>2, AttemptSteps
  <2>0. AttemptOK /\ Moves(a, l, r)
    BY <1>1, <2>1
  <2>2. bot'[a] = l /\ row'[a] = r
    BY <1>1, <2>1 DEF AttemptOK, Moves
  <2> DEFINE p1 == Cardinality(Placed(c, Sending)')
  <2> DEFINE q1 == Cardinality(Placed(c, Answering)')
  <2>3. /\ row[a] = c /\ bot[a] = "publish" /\ l # "publish" => p1 = p - 1
        /\ row[a] = c /\ r = c /\ bot[a] # "publish" /\ l = "publish" => p1 = p + 1
        /\ ~(row[a] = c /\ bot[a] = "publish") /\ ~(r = c /\ l = "publish") => p1 = p
    <3>1. /\ ((bot[a] \in Sending /\ row[a] = c) /\ ~(l \in Sending /\ r = c) => p1 = p - 1)
          /\ (~(bot[a] \in Sending /\ row[a] = c) /\ (l \in Sending /\ r = c) => p1 = p + 1)
          /\ (((bot[a] \in Sending /\ row[a] = c) <=> (l \in Sending /\ r = c)) => p1 = p)
      BY <2>0, PlacedStep
    <3> QED
      BY <3>1 DEF Sending
  <2>4. /\ row[a] = c /\ bot[a] \in {"agent", "persistOut"} /\ l \notin {"agent", "persistOut"} => q1 = q - 1
        /\ row[a] = c /\ r = c /\ bot[a] \notin {"agent", "persistOut"} /\ l \in {"agent", "persistOut"} => q1 = q + 1
        /\ row[a] = c /\ r = c /\ bot[a] \in {"agent", "persistOut"} /\ l \in {"agent", "persistOut"} => q1 = q
        /\ ~(row[a] = c /\ bot[a] \in {"agent", "persistOut"}) /\ ~(r = c /\ l \in {"agent", "persistOut"}) => q1 = q
    <3>1. /\ ((bot[a] \in Answering /\ row[a] = c) /\ ~(l \in Answering /\ r = c) => q1 = q - 1)
          /\ (~(bot[a] \in Answering /\ row[a] = c) /\ (l \in Answering /\ r = c) => q1 = q + 1)
          /\ (((bot[a] \in Answering /\ row[a] = c) <=> (l \in Answering /\ r = c)) => q1 = q)
      BY <2>0, PlacedStep
    <3> QED
      BY <3>1 DEF Answering
  <2>5. CASE ResolveRoute(a) \/ InsertConversation(a)
    <3>1. /\ UNCHANGED <<botSent, botRows, inRows>> /\ bot[a] \in {"new", "insert"}
          /\ l \in {"insert", "persistIn", "done"}
      BY <2>2, <2>5, <1>1 DEF ResolveRoute, InsertConversation, Proceed, AttemptOK, rows, sent
    <3> HIDE DEF p, q, p1, q1
    <3>2. p1 = p /\ q1 = q
      BY <2>3, <2>4, <3>1
    <3> QED
      BY <1>1, <3>1, <3>2 DEF p1, q1
  <2>6. CASE PersistInbound(a) \/ Answer(a) \/ PersistOutbound(a) \/ PublishReply(a) \/ Abort(a)
    <3>1. r = row[a] /\ (bot[a] \in {"persistIn", "persistOut", "publish"} => row[a] \in Convs)
      <4>1. row' = row
        BY <2>6 DEF PersistInbound, Answer, PersistOutbound, PublishReply, Abort
      <4> QED
        BY <1>1, <2>2, <4>1, ConvsAreNumbers DEF AttemptOK, TypeOK, ConvsOK
    <3> HIDE DEF p, q
    <3>2. CASE PersistInbound(a)
      <4>1. /\ botSent' = botSent /\ botRows' = botRows /\ bot[a] = "persistIn" /\ l \in {"agent", "done"}
            /\ \/ inRows' = inRows /\ l = "done"
               \/ inRows' = [inRows EXCEPT ![row[a]] = inRows[row[a]] + 1]
        BY <1>1, <2>2, <3>2 DEF PersistInbound, Proceed, Increment, AttemptOK, sent
      <4>2. p1 = p /\ (q1 = q \/ (row[a] = c /\ l = "agent" /\ q1 = q + 1))
        BY <2>3, <2>4, <3>1, <4>1
      <4> HIDE DEF p1, q1
      <4>3. inRows'[c] = IF row[a] = c /\ inRows' # inRows THEN inRows[c] + 1 ELSE inRows[c]
        BY <1>1, <3>1, <4>1
      <4>4. q1 = q + 1 => inRows'[c] = inRows[c] + 1
        BY <1>1, <3>1, <4>1, <4>2
      <4> QED
        BY <1>1, <4>1, <4>2, <4>3, <4>4 DEF p1, q1
    <3>3. CASE Answer(a) \/ Abort(a)
      <4>1. /\ UNCHANGED <<botSent, botRows, inRows>> /\ l # "publish" /\ l # "agent"
            /\ (l = "persistOut" => bot[a] = "agent")
        BY <1>1, <2>2, <3>3 DEF Answer, Abort, Proceed, AttemptOK, rows, sent
      <4>2. p1 \in {p, p - 1} /\ q1 \in {q, q - 1}
        BY <2>3, <2>4, <3>1, <4>1
      <4> HIDE DEF p1, q1
      <4> QED
        BY <1>1, <4>1, <4>2 DEF p1, q1
    <3>4. CASE PersistOutbound(a)
      <4>1. /\ botSent' = botSent /\ inRows' = inRows /\ bot[a] = "persistOut" /\ l \in {"publish", "done"}
            /\ \/ botRows' = botRows /\ l = "done"
               \/ botRows' = [botRows EXCEPT ![row[a]] = botRows[row[a]] + 1]
        BY <1>1, <2>2, <3>4 DEF PersistOutbound, Proceed, Increment, AttemptOK, sent
      <4>2. /\ p1 = p \/ (row[a] = c /\ l = "publish" /\ p1 = p + 1)
            /\ q1 = IF row[a] = c THEN q - 1 ELSE q
        BY <2>3, <2>4, <3>1, <4>1
      <4> HIDE DEF p1, q1
      <4>3. botRows'[c] = IF row[a] = c /\ botRows' # botRows THEN botRows[c] + 1 ELSE botRows[c]
        BY <1>1, <3>1, <4>1
      <4>4. p1 = p + 1 => botRows'[c] = botRows[c] + 1
        BY <1>1, <3>1, <4>1, <4>2
      <4> QED
        BY <1>1, <4>1, <4>2, <4>3, <4>4 DEF p1, q1
    <3>5. CASE PublishReply(a)
      <4>1. /\ UNCHANGED <<botRows, inRows>> /\ bot[a] = "publish" /\ l = "done"
            /\ botSent' = botSent \/ botSent' = [botSent EXCEPT ![row[a]] = botSent[row[a]] + 1]
        BY <1>1, <2>2, <3>5 DEF PublishReply, Proceed, Increment, AttemptOK, rows
      <4>2. q1 = q /\ p1 = IF row[a] = c THEN p - 1 ELSE p
        BY <2>3, <2>4, <3>1, <4>1
      <4> HIDE DEF p1, q1
      <4>3. botSent'[c] \in {botSent[c], IF row[a] = c THEN botSent[c] + 1 ELSE botSent[c]}
        BY <1>1, <3>1, <4>1
      <4> QED
        BY <1>1, <4>1, <4>2, <4>3 DEF p1, q1
    <3> QED
      BY <2>6, <3>2, <3>3, <3>4, <3>5
  <2> QED
    BY <1>2, <2>5, <2>6 DEF Bot
<1>3. CASE (\E o \in Operators : Request(o)) \/ UNCHANGED vars
  <2>1. UNCHANGED <<botSent, botRows, inRows, bot, row>>
    BY <1>3 DEF Request, Load, Commit, SendPublish, SendCommit, Fail, vars, attempt, rows, sent
  <2>2. \A L : Placed(c, L)' = Placed(c, L)
    BY <2>1 DEF Placed
  <2> QED
    BY <1>1, <2>1, <2>2
<1> QED
  BY <1>2, <1>3 DEF Next

LEMMA HumanStep == TypeOK /\ HumanInv /\ [Next]_vars => HumanInv'
<1> SUFFICES ASSUME TypeOK, HumanInv, [Next]_vars, NEW c \in Convs
             PROVE  humanRows'[c] + Cardinality(Uncommitted(c))' <= humanSent'[c]
  BY DEF HumanInv
<1> DEFINE U == Uncommitted(c)
<1>1. /\ humanRows \in [Convs -> Nat] /\ humanSent \in [Convs -> Nat]
      /\ humanRows[c] \in Nat /\ humanSent[c] \in Nat
      /\ IsFiniteSet(U) /\ Cardinality(U) \in Nat
      /\ humanRows[c] + Cardinality(U) <= humanSent[c]
  BY UncommittedFinite DEF TypeOK, CountsOK, HumanInv
<1>2. /\ \A o \in Operators : DOMAIN req[o] = {"kind", "conv", "seen"}
      /\ req = [o \in Operators |-> req[o]]
      /\ \A o \in Operators : req[o].kind # "none" => req[o].conv \in Convs
  BY ConvsAreNumbers DEF TypeOK, ApiOK, ConvsOK
<1>3. ASSUME NEW o \in Operators, SendPublish(o)
      PROVE  humanRows'[c] + Cardinality(U)' <= humanSent'[c]
  <2>1. CASE req[o].conv = c
    <3>1. U' = U \cup {o} /\ o \notin U
      BY <1>2, <1>3, <2>1 DEF SendPublish, Published, Uncommitted
    <3>2. Cardinality(U') = Cardinality(U) + 1
      BY <1>1, <3>1, FS_AddElement
    <3> QED
      BY <1>1, <1>2, <1>3, <2>1, <3>2 DEF SendPublish, Increment, rows
  <2>2. CASE req[o].conv # c
    <3>1. U' = U
      BY <1>2, <1>3, <2>2 DEF SendPublish, Published, Uncommitted
    <3> QED
      BY <1>1, <1>2, <1>3, <2>2, <3>1 DEF SendPublish, Increment, rows
  <2> QED
    BY <2>1, <2>2
<1>4. ASSUME NEW o \in Operators, SendCommit(o) \/ Fail(o)
      PROVE  humanRows'[c] + Cardinality(U)' <= humanSent'[c]
  <2>1. U' = U \ {o}
    BY <1>2, <1>4 DEF SendCommit, Fail, Done, NoRequest, Uncommitted
  <2>2. Cardinality(U') = IF o \in U THEN Cardinality(U) - 1 ELSE Cardinality(U)
    BY <1>1, <2>1, FS_RemoveElement
  <2>3. humanRows' = humanRows \/ SendCommit(o)
    BY <1>4 DEF SendCommit, Fail, rows
  <2>4. SendCommit(o) /\ req[o].conv = c => o \in U
    BY DEF SendCommit, Uncommitted
  <2>5. SendCommit(o) => humanRows' = [humanRows EXCEPT ![req[o].conv] = humanRows[req[o].conv] + 1]
    BY DEF SendCommit, Increment
  <2>6. humanSent' = humanSent
    BY <1>4 DEF SendCommit, Fail, sent
  <2> QED
    BY <1>1, <2>2, <2>3, <2>4, <2>5, <2>6
<1>5. ASSUME NEW o \in Operators, \/ Commit(o)
                                \/ \E k \in {"takeover", "send", "close"}, d \in Convs : Load(o, k, d)
      PROVE  humanRows'[c] + Cardinality(U)' <= humanSent'[c]
  <2>1. U' = U
    BY <1>2, <1>5 DEF Commit, Load, Done, NoRequest, Uncommitted
  <2> QED
    BY <1>1, <1>5, <2>1 DEF Commit, Load, rows, sent
<1>6. CASE (\E a \in Attempts : Bot(a)) \/ UNCHANGED vars
  <2>1. UNCHANGED <<req, humanRows, humanSent>>
    BY <1>6 DEF Bot, ResolveRoute, InsertConversation, PersistInbound, Answer, PersistOutbound,
                PublishReply, Abort, vars, rows, sent, api
  <2>2. U' = U
    BY <2>1 DEF Uncommitted
  <2> QED
    BY <1>1, <2>1, <2>2
<1> QED
  BY <1>3, <1>4, <1>5, <1>6 DEF Next, Request

(* The bot sends nothing its history lacks and answers nothing the history lacks,
   and the history holds nothing of an operator that was not sent. *)
THEOREM HistoryFaithful == Spec => []HistoryAgrees
<1>1. Init => BotInv
  <2> SUFFICES ASSUME Init, NEW c \in Convs
               PROVE  /\ botSent[c] + Cardinality(Placed(c, Sending)) <= botRows[c]
                      /\ botRows[c] + Cardinality(Placed(c, Answering)) <= inRows[c]
    BY DEF BotInv
  <2>1. Placed(c, Sending) = {} /\ Placed(c, Answering) = {}
    BY DEF Init, Placed, Sending, Answering
  <2> QED
    BY <2>1, FS_EmptySet DEF Init
<1>2. Init => HumanInv
  <2> SUFFICES ASSUME Init, NEW c \in Convs
               PROVE  humanRows[c] + Cardinality(Uncommitted(c)) <= humanSent[c]
    BY DEF HumanInv
  <2>1. Uncommitted(c) = {}
    BY DEF Init, NoRequest, Uncommitted
  <2> QED
    BY <2>1, FS_EmptySet DEF Init
<1>3. TypeOK /\ BotInv /\ HumanInv => HistoryAgrees
  <2> SUFFICES ASSUME TypeOK, BotInv, HumanInv, NEW c \in Convs
               PROVE  /\ botSent[c] <= botRows[c] /\ botRows[c] <= inRows[c]
                      /\ humanRows[c] <= humanSent[c]
    BY DEF HistoryAgrees
  <2>1. /\ botSent[c] \in Nat /\ botRows[c] \in Nat /\ inRows[c] \in Nat
        /\ humanRows[c] \in Nat /\ humanSent[c] \in Nat
    BY DEF TypeOK, CountsOK
  <2> QED
    BY <2>1, UncommittedFinite, PlacedFinite DEF BotInv, HumanInv
<1> QED
  BY <1>1, <1>2, <1>3, BotStep, HumanStep, TypeCorrect, PTL DEF Spec

-------------------------------------------------------------------------------
(* Of a conversation no two requests had loaded at a time, at most one request
   is in progress, and what it loaded is the state still. *)
AuditInv ==
  /\ \A c \in Convs : state[c] = "none" => audit[c] = "none"
  /\ \A c \in Convs \ raced :
       /\ audit[c] \in {"none", state[c]}
       /\ \A o \in Operators : req[o].conv = c => req[o].seen = state[c]
       /\ \A o, p \in Operators : req[o].conv = c /\ req[p].conv = c => o = p

LEMMA AuditStep == TypeOK /\ AuditInv /\ [Next]_vars => AuditInv'
<1> SUFFICES ASSUME TypeOK, AuditInv, [Next]_vars PROVE AuditInv'
  OBVIOUS
<1>1. /\ state \in [Convs -> States \cup {"none"}] /\ audit \in [Convs -> States \cup {"none"}]
      /\ \A c \in Convs : state[c] = "none" <=> c > opened
      /\ \A o \in Operators : req[o].conv \in Convs => state[req[o].conv] # "none"
      /\ req \in [Operators -> [kind : {"none", "takeover", "send", "sent", "close"},
                                conv : 0..opened, seen : States \cup {"none"}]]
      /\ Nowhere \notin Convs
  <2>1. opened \in Nat /\ Nowhere \notin Convs /\ \A c \in Convs : c \in Nat
    BY ConversationAssumption DEF TypeOK, ConvsOK, Convs, Nowhere
  <2> QED
    BY <2>1 DEF TypeOK, ConvsOK, ApiOK
<1>2. CASE UNCHANGED <<state, audit, req, raced>>
  BY <1>2 DEF AuditInv
<1>3. ASSUME NEW a \in Attempts, InsertConversation(a) PROVE AuditInv'
  <2>1. UNCHANGED <<audit, req, raced>>
    BY <1>3 DEF InsertConversation, api
  <2>2. CASE Opens
    <3>1. opened' \in Convs /\ state[opened'] = "none" /\ state' = [state EXCEPT ![opened'] = "active"]
      BY <2>2, FreshRow DEF TypeOK
    <3>2. audit[opened'] = "none" /\ \A o \in Operators : req[o].conv # opened'
      BY <1>1, <3>1 DEF AuditInv
    <3> QED
      BY <1>1, <2>1, <3>1, <3>2 DEF AuditInv
  <2> QED
    BY <1>2, <1>3, <2>1, <2>2, Inserts
<1>4. ASSUME NEW o \in Operators, Commit(o) PROVE AuditInv'
  <2> DEFINE d == req[o].conv
  <2> DEFINE t == Target(req[o].kind)
  <2>1. d \in Convs /\ t \in {"human_active", "closed"}
    BY <1>4, ConvsAreNumbers DEF Commit, Target, TypeOK, ConvsOK, ApiOK
  <2>2. /\ state' = IF req[o].seen = t THEN state ELSE [state EXCEPT ![d] = t]
        /\ audit' = [audit EXCEPT ![d] = t] /\ raced' = raced
        /\ req' = [req EXCEPT ![o] = NoRequest]
    BY <1>4 DEF Commit, Assign, Done
  <2>3. d \notin raced => /\ req[o].seen = state[d]
                         /\ \A p \in Operators : req[p].conv = d => p = o
    BY <2>1 DEF AuditInv
  <2>4. \A c \in Convs : c # d => state'[c] = state[c] /\ audit'[c] = audit[c]
    BY <1>1, <2>2
  <2>5. audit'[d] = t /\ state'[d] # "none" /\ (d \notin raced => state'[d] = t)
    BY <1>1, <2>1, <2>2, <2>3
  <2>6. \A p \in Operators : req'[p].conv \in Convs => p # o /\ req'[p] = req[p]
    BY <1>1, <2>2 DEF NoRequest
  <2>7. \A c \in Convs : state'[c] = "none" => audit'[c] = "none"
    BY <2>4, <2>5 DEF AuditInv
  <2>8. ASSUME NEW c \in Convs \ raced'
        PROVE /\ audit'[c] \in {"none", state'[c]}
              /\ \A p \in Operators : req'[p].conv = c => req'[p].seen = state'[c]
              /\ \A p, q \in Operators : req'[p].conv = c /\ req'[q].conv = c => p = q
    <3>1. CASE c = d
      BY <2>2, <2>3, <2>5, <2>6, <2>8, <3>1
    <3>2. CASE c # d
      BY <2>2, <2>4, <2>6, <2>8, <3>2 DEF AuditInv
    <3> QED
      BY <3>1, <3>2
  <2> QED
    BY <2>7, <2>8 DEF AuditInv
<1>5. ASSUME NEW o \in Operators, NEW k \in {"takeover", "send", "close"}, NEW d \in Convs,
             Load(o, k, d) PROVE AuditInv'
  <2>1. /\ req' = [req EXCEPT ![o] = [kind |-> k, conv |-> d, seen |-> state[d]]]
        /\ raced \subseteq raced' /\ UNCHANGED <<state, audit>>
        /\ (d \notin raced' => \A p \in Operators : req[p].conv # d)
    BY <1>5 DEF Load
  <2>2. /\ req'[o].conv = d /\ req'[o].seen = state[d]
        /\ \A p \in Operators : p # o => req'[p] = req[p]
    BY <1>1, <2>1
  <2>3. ASSUME NEW c \in Convs \ raced'
        PROVE /\ audit'[c] \in {"none", state'[c]}
              /\ \A p \in Operators : req'[p].conv = c => req'[p].seen = state'[c]
              /\ \A p, q \in Operators : req'[p].conv = c /\ req'[q].conv = c => p = q
    <3>1. CASE c = d
      BY <2>1, <2>2, <2>3, <3>1 DEF AuditInv
    <3>2. CASE c # d
      BY <2>1, <2>2, <2>3, <3>2 DEF AuditInv
    <3> QED
      BY <3>1, <3>2
  <2> QED
    BY <2>1, <2>3 DEF AuditInv
<1>6. ASSUME NEW o \in Operators, SendPublish(o) PROVE AuditInv'
  <2>1. UNCHANGED <<state, audit, raced>>
        /\ \A p \in Operators : req'[p].conv = req[p].conv /\ req'[p].seen = req[p].seen
    BY <1>1, <1>6 DEF SendPublish, Published
  <2> QED
    BY <2>1 DEF AuditInv
<1>7. ASSUME NEW o \in Operators, SendCommit(o) \/ Fail(o) PROVE AuditInv'
  <2>1. UNCHANGED <<state, audit, raced>> /\ req' = [req EXCEPT ![o] = NoRequest]
    BY <1>7 DEF SendCommit, Fail, Done
  <2>2. \A p \in Operators : req'[p].conv \in Convs => req'[p] = req[p]
    BY <1>1, <2>1 DEF NoRequest
  <2> QED
    BY <2>1, <2>2 DEF AuditInv
<1> QED
  BY <1>2, <1>3, <1>4, <1>5, <1>6, <1>7
  DEF Next, Bot, Request, ResolveRoute, PersistInbound, Answer, PersistOutbound, PublishReply,
      Abort, vars, api

(* The newest audit row tells the state, unless two requests had the
   conversation loaded at a time. *)
THEOREM AuditFaithful == Spec => []AuditTellsState
<1>1. Init => AuditInv
  BY ConversationAssumption DEF Init, NoRequest, AuditInv, Convs, Nowhere
<1>2. AuditInv => AuditTellsState
  BY DEF AuditInv, AuditTellsState
<1> QED
  BY <1>1, <1>2, AuditStep, TypeCorrect, PTL DEF Spec
===============================================================================
