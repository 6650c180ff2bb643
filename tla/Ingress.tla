-------------------------------- MODULE Ingress --------------------------------
(***************************************************************************)
(* services/ingress/main.py: concurrent webhook requests of the gateway    *)
(* (Evolution).  A request is rate-limited, authenticated, parsed into     *)
(* messages, and each message is deduplicated, filtered and published on   *)
(* stream:inbound; every await between shared steps is an action.          *)
(*                                                                         *)
(* The gateway may post a webhook any number of times: it does not wait    *)
(* for the answer of an earlier attempt, and it learns from a 200 that the *)
(* webhook was taken.  An await may fail, before or after it took effect   *)
(* (an exception, or the death of the process): the answer is then a 500.  *)
(***************************************************************************)
EXTENDS Naturals, Sequences, FiniteSets

CONSTANTS
  Handlers,       \* requests in progress at a time
  Webhooks,       \* what the gateway posts
  MessagesOf,     \* MessagesOf[p]: what _parse makes of webhook p
  Messages,       \* all of them
  IdOf,           \* IdOf[m]: channel_message_id
  Wanted,         \* messages with a body, not from_me and not of a group
  Authorized,     \* webhooks of an existing channel with the right secret
  MaxPerMin,      \* _WEBHOOK_MAX_PER_MIN (120)
  MaxAttempts,    \* bound: posts per webhook
  MaxFaults,      \* bound: failing awaits
  MaxExpiries     \* bound: dedup keys that reach wa_dedup_ttl_seconds

Ids == {IdOf[m] : m \in Messages}

ASSUME IngressAssumption ==
  /\ IsFiniteSet(Handlers)
  /\ MessagesOf \in [Webhooks -> Seq(Messages)]
  /\ Wanted \subseteq Messages /\ Authorized \subseteq Webhooks
  /\ MaxPerMin \in Nat \ {0}
  /\ MaxAttempts \in Nat /\ MaxFaults \in Nat /\ MaxExpiries \in Nat

VARIABLES
  pc,          \* pc[h]: the await request h is at, "free" when there is none
  hook,        \* hook[h]: its webhook
  todo,        \* todo[h]: the messages its loop has still to handle
  hits,        \* the counter webhook:ip:{ip} of the gateway's address
  ttl,         \* the counter has an expiry
  dedup,       \* ids whose key dedup:wa:{id} exists
  published,   \* published[i]: entries on stream:inbound with id i
  attempts,    \* attempts[p]: times the gateway posted p
  accepted,    \* webhooks the gateway got a 200 for
  passed,      \* history: requests let through in this window
  expired,     \* history: expired[i], times the dedup key of i expired
  faults

request == <<pc, hook, todo>>
limiter == <<hits, ttl, passed>>
store == <<dedup, published, expired>>
gateway == <<attempts, accepted>>
vars == <<request, limiter, store, gateway, faults>>

Init ==
  /\ pc = [h \in Handlers |-> "free"]
  /\ hook \in [Handlers -> Webhooks]
  /\ todo = [h \in Handlers |-> <<>>]
  /\ hits = 0 /\ ttl = FALSE /\ passed = 0
  /\ dedup = {}
  /\ published = [i \in Ids |-> 0]
  /\ attempts = [p \in Webhooks |-> 0]
  /\ accepted = {}
  /\ expired = [i \in Ids |-> 0]
  /\ faults = 0

Results == {"ok", "before", "after"}
Ends(r) ==
  \/ r = "ok" /\ UNCHANGED faults
  \/ r # "ok" /\ faults < MaxFaults /\ faults' = faults + 1
TookEffect(r) == r # "before"

Goto(h, label) == pc' = [pc EXCEPT ![h] = label]
GotoOr500(h, r, label) == Goto(h, IF r = "ok" THEN label ELSE "free")

-------------------------------------------------------------------------------
(* The gateway posts a webhook, for the first time or again. *)
Post(h, p) ==
  /\ pc[h] = "free" /\ attempts[p] < MaxAttempts
  /\ attempts' = [attempts EXCEPT ![p] = @ + 1]
  /\ hook' = [hook EXCEPT ![h] = p]
  /\ todo' = [todo EXCEPT ![h] = MessagesOf[p]]
  /\ Goto(h, "limit")
  /\ UNCHANGED <<limiter, store, accepted, faults>>

(* Wrong: compares the count before this request. *)
LimitLate(h) ==
  /\ pc[h] = "limit"
  /\ LET over == hits > MaxPerMin IN
       /\ hits' = hits + 1
       /\ Goto(h, IF hits = 0 THEN "expire" ELSE IF over THEN "free" ELSE "secret")
       /\ passed' = IF over THEN passed ELSE passed + 1
  /\ UNCHANGED <<hook, todo, ttl, store, gateway, faults>>

(* _rate_limited: INCR; beyond the limit the answer is 429. *)
Limit(h) ==
  /\ pc[h] = "limit"
  /\ \E r \in Results :
       LET over == hits + 1 > MaxPerMin IN
         /\ Ends(r)
         /\ hits' = IF TookEffect(r) THEN hits + 1 ELSE hits
         /\ GotoOr500(h, r, IF hits = 0 THEN "expire" ELSE IF over THEN "free" ELSE "secret")
         /\ passed' = IF r = "ok" /\ ~over THEN passed + 1 ELSE passed
  /\ UNCHANGED <<hook, todo, ttl, store, gateway>>

(* _rate_limited: EXPIRE, by the request that counted 1. *)
Expire(h) ==
  /\ pc[h] = "expire"
  /\ \E r \in Results :
       /\ Ends(r)
       /\ ttl' = (ttl \/ TookEffect(r))
       /\ GotoOr500(h, r, "secret")
  /\ UNCHANGED <<hook, todo, hits, passed, store, gateway>>

(* _resolve_channel_secret and _verify_signature; a 401 ends the request. *)
Authenticate(h) ==
  /\ pc[h] = "secret"
  /\ \E r \in Results :
       Ends(r) /\ GotoOr500(h, r, IF hook[h] \in Authorized THEN "dedup" ELSE "free")
  /\ UNCHANGED <<hook, todo, limiter, store, gateway>>

Skip(h) == todo' = [todo EXCEPT ![h] = Tail(@)]

(* Wrong: SET without NX. *)
DedupAnyway(h) ==
  /\ pc[h] = "dedup" /\ todo[h] # <<>>
  /\ dedup' = dedup \cup {IdOf[Head(todo[h])]}
  /\ IF Head(todo[h]) \in Wanted THEN Goto(h, "publish") /\ UNCHANGED todo
     ELSE Goto(h, "dedup") /\ Skip(h)
  /\ UNCHANGED <<hook, limiter, published, expired, gateway, faults>>

(* Wrong: a known id ends the loop. *)
DedupBreaks(h) ==
  /\ pc[h] = "dedup" /\ todo[h] # <<>>
  /\ LET m == Head(todo[h]) IN
       /\ dedup' = dedup \cup {IdOf[m]}
       /\ IF IdOf[m] \in dedup \/ m \notin Wanted
          THEN Goto(h, "dedup") /\ todo' = [todo EXCEPT ![h] = <<>>]
          ELSE Goto(h, "publish") /\ UNCHANGED todo
  /\ UNCHANGED <<hook, limiter, published, expired, gateway, faults>>

(* SET dedup NX EX for the next message.  A known id is skipped, and so is  *)
(* an unwanted message, whose id is known from now on.                     *)
Dedup(h) ==
  /\ pc[h] = "dedup" /\ todo[h] # <<>>
  /\ \E r \in Results :
       LET m == Head(todo[h]) IN
         /\ Ends(r)
         /\ dedup' = IF TookEffect(r) THEN dedup \cup {IdOf[m]} ELSE dedup
         /\ IF IdOf[m] \in dedup \/ m \notin Wanted
            THEN GotoOr500(h, r, "dedup") /\ Skip(h)
            ELSE GotoOr500(h, r, "publish") /\ UNCHANGED todo
  /\ UNCHANGED <<hook, limiter, published, expired, gateway>>

(* bus.publish("stream:inbound", ...). *)
Enqueue(h) ==
  /\ pc[h] = "publish"
  /\ \E r \in Results :
       /\ Ends(r)
       /\ published' = IF TookEffect(r) THEN [published EXCEPT ![IdOf[Head(todo[h])]] = @ + 1]
                       ELSE published
       /\ GotoOr500(h, r, "dedup")
       /\ Skip(h)
  /\ UNCHANGED <<hook, limiter, dedup, expired, gateway>>

(* The loop is done: 200. *)
Accept(h) ==
  /\ pc[h] = "dedup" /\ todo[h] = <<>>
  /\ Goto(h, "free")
  /\ accepted' = accepted \cup {hook[h]}
  /\ UNCHANGED <<hook, todo, limiter, store, attempts, faults>>

(* The counter's 60 seconds are over. *)
WindowEnds ==
  /\ ttl
  /\ hits' = 0 /\ ttl' = FALSE /\ passed' = 0
  /\ UNCHANGED <<request, store, gateway, faults>>

(* A dedup key is 24 hours old. *)
DedupExpires(i) ==
  /\ i \in dedup /\ expired[i] < MaxExpiries
  /\ dedup' = dedup \ {i}
  /\ expired' = [expired EXCEPT ![i] = @ + 1]
  /\ UNCHANGED <<request, limiter, published, gateway, faults>>

Serve(h) ==
  Limit(h) \/ Expire(h) \/ Authenticate(h) \/ Dedup(h) \/ Enqueue(h) \/ Accept(h)

Next ==
  \/ \E h \in Handlers : Serve(h) \/ \E p \in Webhooks : Post(h, p)
  \/ WindowEnds
  \/ \E i \in Ids : DedupExpires(i)

Spec == Init /\ [][Next]_vars

-------------------------------------------------------------------------------
TypeOK ==
  /\ pc \in [Handlers -> {"free", "limit", "expire", "secret", "dedup", "publish"}]
  /\ hook \in [Handlers -> Webhooks]
  /\ todo \in [Handlers -> Seq(Messages)]
  /\ \A h \in Handlers : pc[h] = "publish" => todo[h] # <<>>
  /\ hits \in Nat /\ ttl \in BOOLEAN /\ passed \in Nat
  /\ dedup \subseteq Ids
  /\ published \in [Ids -> Nat]
  /\ expired \in [Ids -> 0..MaxExpiries]
  /\ attempts \in [Webhooks -> 0..MaxAttempts]
  /\ accepted \subseteq Webhooks
  /\ faults \in 0..MaxFaults

(* However often and however concurrently the gateway posts a message, and
   whatever fails, it is on stream:inbound once per dedup period. *)
PublishedOnce == \A i \in Ids : published[i] <= 1 + expired[i]

(* No window lets more than _WEBHOOK_MAX_PER_MIN requests through, whichever
   requests raced on the counter or died in the middle of counting. *)
WithinLimit == passed <= MaxPerMin

(* m is on the stream, or a request is about to put it there. *)
OnItsWay(m) ==
  \/ published[IdOf[m]] > 0
  \/ \E h \in Handlers : pc[h] = "publish" /\ IdOf[Head(todo[h])] = IdOf[m]

MessagesIn(p) == {MessagesOf[p][k] : k \in 1..Len(MessagesOf[p])}

(* An unwanted message has the id of m: the sender's own copy (from_me), when
   the two numbers of a chat belong to the installation.  Whichever of the two
   comes first uses up the id. *)
Shadowed(m) == \E n \in Messages \ Wanted : IdOf[n] = IdOf[m]

(* While no await failed, concurrent requests for one message never turn each
   other's 200 into a lie. *)
AcceptedUnlessFailed ==
  faults = 0 =>
    \A p \in accepted : \A m \in MessagesIn(p) \cap Wanted : Shadowed(m) \/ OnItsWay(m)
===============================================================================
