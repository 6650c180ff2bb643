----------------------------- MODULE Conversation -----------------------------
(***************************************************************************)
(* The conversations of one contact on one number, between the bot         *)
(* (services/worker/main.py) and human operators (takeover, send_as_human  *)
(* and close_conv of services/api/main.py).                                *)
(*                                                                         *)
(* An attempt is one call of process() for a message or a trigger of the   *)
(* contact; which are called, and how often again, is the subject of       *)
(* Worker.  Attempts run side by side: a trigger locks another key than    *)
(* an inbound message, and a lock lapses when its heartbeat died.  An      *)
(* attempt resolves its row once and uses it to the end; an API request    *)
(* loads the row in one statement and commits what it makes of it in       *)
(* another.                                                                *)
(***************************************************************************)
EXTENDS Naturals, FiniteSets

CONSTANTS
  Attempts,       \* calls of process() for the contact
  Operators,      \* API requests in progress at a time
  MaxConvs,       \* bound: conversation rows
  MaxRequests,    \* bound: API requests
  MaxFaults       \* bound: awaits that fail

Convs == 1..MaxConvs
Nowhere == 0

ASSUME ConversationAssumption ==
  /\ MaxConvs \in Nat
  /\ MaxRequests \in Nat /\ MaxFaults \in Nat

ASSUME ActorsAssumption == IsFiniteSet(Operators) /\ IsFiniteSet(Attempts)

VARIABLES
  opened,      \* conversation rows so far: 1..opened
  state,       \* state[c]: Conversation.state, "none" without a row
  bot,         \* bot[a]: the await the attempt is at
  row,         \* row[a]: the conversation it resolved
  inRows,      \* inRows[c]: messages of role user
  botRows,     \* botRows[c]: messages of role assistant
  humanRows,   \* humanRows[c]: messages of role human
  botSent,     \* botSent[c]: replies of the bot on stream:outbound
  humanSent,   \* humanSent[c]: replies of an operator on stream:outbound
  audit,       \* audit[c]: "after" of the newest takeover or close of c in the audit log
  req,         \* req[o]: the request o is serving
  requests, faults,
  late,        \* history: late[c], bot replies sent when c was not active
  under,       \* history: under[c], attempts under way on c when an operator took it
  raced        \* history: conversations that two requests had loaded at a time

rows == <<inRows, botRows, humanRows>>
sent == <<botSent, humanSent>>
attempt == <<bot, row>>
api == <<req, requests, audit, raced>>
vars == <<opened, state, attempt, rows, sent, api, faults, late, under>>

NoRequest == [kind |-> "none", conv |-> Nowhere, seen |-> "none"]

Init ==
  /\ opened = 0 /\ state = [c \in Convs |-> "none"]
  /\ requests = 0 /\ faults = 0
  /\ bot = [a \in Attempts |-> "new"] /\ row = [a \in Attempts |-> Nowhere]
  /\ inRows = [c \in Convs |-> 0]
  /\ botRows = [c \in Convs |-> 0]
  /\ humanRows = [c \in Convs |-> 0]
  /\ botSent = [c \in Convs |-> 0]
  /\ humanSent = [c \in Convs |-> 0]
  /\ audit = [c \in Convs |-> "none"]
  /\ req = [o \in Operators |-> NoRequest]
  /\ late = [c \in Convs |-> 0] /\ under = [c \in Convs |-> 0]
  /\ raced = {}

Increment(f, c) == [f EXCEPT ![c] = @ + 1]

(* An await ends well, or raises before or after it took effect. *)
Results == {"ok", "before", "after"}
Ends(r) ==
  \/ r = "ok" /\ UNCHANGED faults
  \/ r # "ok" /\ faults < MaxFaults /\ faults' = faults + 1

-------------------------------------------------------------------------------
(* An exception ends the attempt. *)
Proceed(a, r, label) == bot' = [bot EXCEPT ![a] = IF r = "ok" THEN label ELSE "done"]

(* The contact's upsert locks its row until the commit, so an attempt waits   *)
(* for another that is about to insert.                                    *)
ContactFree == \A a \in Attempts : bot[a] # "insert"

Active == {c \in Convs : state[c] = "active"}

(* Wrong: the SELECT takes any conversation of the contact. *)
ResolveAny(a) ==
  /\ bot[a] = "new" /\ ContactFree
  /\ \/ \E c \in 1..opened : row' = [row EXCEPT ![a] = c] /\ Proceed(a, "ok", "persistIn")
     \/ opened = 0 /\ Proceed(a, "ok", "insert") /\ UNCHANGED row
  /\ UNCHANGED <<opened, state, rows, sent, api, faults, late, under>>

(* _resolve_route up to the SELECT of an active conversation.  An attempt that *)
(* ends here (no route, a blocked contact, an exception) leaves nothing.   *)
ResolveRoute(a) ==
  /\ bot[a] = "new" /\ ContactFree
  /\ \/ \E c \in Active : row' = [row EXCEPT ![a] = c] /\ Proceed(a, "ok", "persistIn")
     \/ Active = {} /\ Proceed(a, "ok", "insert") /\ UNCHANGED row
  /\ UNCHANGED <<opened, state, rows, sent, api, faults, late, under>>

(* ...and the INSERT of the one it did not find, with the commit. *)
InsertConversation(a) ==
  /\ bot[a] = "insert" /\ opened < MaxConvs
  /\ \E r \in Results :
       /\ Ends(r) /\ Proceed(a, r, "persistIn")
       /\ IF r = "before" THEN UNCHANGED <<opened, state, row>>
          ELSE /\ opened' = opened + 1
               /\ state' = [state EXCEPT ![opened + 1] = "active"]
               /\ row' = [row EXCEPT ![a] = opened + 1]
  /\ UNCHANGED <<rows, sent, api, late, under>>

(* The inbound message is persisted. *)
PersistInbound(a) ==
  /\ bot[a] = "persistIn"
  /\ \E r \in Results :
       /\ Ends(r) /\ Proceed(a, r, "agent")
       /\ inRows' = IF r = "before" THEN inRows ELSE Increment(inRows, row[a])
  /\ UNCHANGED <<opened, state, row, botRows, humanRows, sent, api, late, under>>

(* Agent loop and guards: an answer.  An escalation changes the text only. *)
Answer(a) ==
  /\ bot[a] = "agent" /\ Proceed(a, "ok", "persistOut")
  /\ UNCHANGED <<opened, state, row, rows, sent, api, faults, late, under>>

(* The reply is persisted in the row resolved at the start. *)
PersistOutbound(a) ==
  /\ bot[a] = "persistOut"
  /\ \E r \in Results :
       /\ Ends(r) /\ Proceed(a, r, "publish")
       /\ botRows' = IF r = "before" THEN botRows ELSE Increment(botRows, row[a])
  /\ UNCHANGED <<opened, state, row, inRows, humanRows, sent, api, late, under>>

Late(a) == IF state[row[a]] = "active" THEN late ELSE Increment(late, row[a])

(* Wrong: the worker writes back the conversation it loaded. *)
PublishReplySaves(a) ==
  /\ bot[a] = "publish" /\ Proceed(a, "ok", "done")
  /\ botSent' = Increment(botSent, row[a]) /\ late' = Late(a)
  /\ state' = [state EXCEPT ![row[a]] = "active"]
  /\ UNCHANGED <<opened, row, rows, humanSent, api, faults, under>>

(* The reply is published, whatever the state is by now. *)
PublishReply(a) ==
  /\ bot[a] = "publish"
  /\ \E r \in Results :
       /\ Ends(r) /\ Proceed(a, r, "done")
       /\ IF r = "before" THEN UNCHANGED <<botSent, late>>
          ELSE botSent' = Increment(botSent, row[a]) /\ late' = Late(a)
  /\ UNCHANGED <<opened, state, row, rows, humanSent, api, under>>

(* An exception or a death outside the calls above ends an attempt; its       *)
(* transaction is rolled back.                                             *)
Abort(a) ==
  /\ bot[a] \in {"insert", "persistIn", "agent", "persistOut", "publish"}
  /\ faults < MaxFaults /\ faults' = faults + 1
  /\ bot' = [bot EXCEPT ![a] = "done"]
  /\ UNCHANGED <<opened, state, row, rows, sent, api, late, under>>

-------------------------------------------------------------------------------
(* A request starts: load_owned. *)
Load(o, kind, c) ==
  /\ req[o] = NoRequest /\ requests < MaxRequests
  /\ state[c] # "none"
  /\ requests' = requests + 1
  /\ req' = [req EXCEPT ![o] = [kind |-> kind, conv |-> c, seen |-> state[c]]]
  /\ raced' = IF \E p \in Operators : req[p].conv = c THEN raced \cup {c} ELSE raced
  /\ UNCHANGED <<opened, state, attempt, rows, sent, audit, faults, late, under>>

Done(o) == req' = [req EXCEPT ![o] = NoRequest]
Published(o) ==
  req' = [req EXCEPT ![o] = [kind |-> "sent", conv |-> req[o].conv, seen |-> req[o].seen]]

Target(kind) == IF kind = "takeover" THEN "human_active" ELSE "closed"

(* Wrong: a conversation that is not active is left alone, but audited. *)
ChangeState(o, c, target) ==
  /\ state' = IF state[c] = "active" THEN [state EXCEPT ![c] = target] ELSE state
  /\ audit' = [audit EXCEPT ![c] = target]

(* What takeover and close_conv commit: the audit row, and an UPDATE if the   *)
(* state assigned differs from the one loaded.                             *)
Assign(o, c, target) ==
  /\ state' = IF req[o].seen = target THEN state ELSE [state EXCEPT ![c] = target]
  /\ audit' = [audit EXCEPT ![c] = target]

(* The attempts on a conversation, from the SELECT that found it on. *)
OnIt(c) == {a \in Attempts : bot[a] # "done" /\ row[a] = c}

Commit(o) ==
  /\ req[o].kind \in {"takeover", "close"}
  /\ Assign(o, req[o].conv, Target(req[o].kind))
  /\ under' = IF state[req[o].conv] = "active"
              THEN [under EXCEPT ![req[o].conv] = Cardinality(OnIt(req[o].conv))] ELSE under
  /\ Done(o)
  /\ UNCHANGED <<opened, attempt, rows, sent, requests, raced, faults, late>>

(* Wrong: commits before it publishes. *)
SendPublishLater(o) ==
  /\ req[o].kind = "send"
  /\ humanRows' = Increment(humanRows, req[o].conv)
  /\ Published(o)
  /\ UNCHANGED <<opened, state, attempt, inRows, botRows, sent, requests, audit,
                 raced, faults, late, under>>

(* send_as_human: the reply is published... *)
SendPublish(o) ==
  /\ req[o].kind = "send"
  /\ humanSent' = Increment(humanSent, req[o].conv)
  /\ Published(o)
  /\ UNCHANGED <<opened, state, attempt, rows, botSent, requests, audit, raced,
                 faults, late, under>>

(* ...and then its row is committed. *)
SendCommit(o) ==
  /\ req[o].kind = "sent"
  /\ humanRows' = Increment(humanRows, req[o].conv)
  /\ Done(o)
  /\ UNCHANGED <<opened, state, attempt, inRows, botRows, sent, requests, audit,
                 raced, faults, late, under>>

(* An exception or a death ends a request; what it has not committed is      *)
(* rolled back.                                                            *)
Fail(o) ==
  /\ req[o] # NoRequest
  /\ faults < MaxFaults /\ faults' = faults + 1
  /\ Done(o)
  /\ UNCHANGED <<opened, state, attempt, rows, sent, requests, audit, raced, late, under>>

Bot(a) ==
  \/ ResolveRoute(a) \/ InsertConversation(a) \/ PersistInbound(a) \/ Answer(a)
  \/ PersistOutbound(a) \/ PublishReply(a) \/ Abort(a)

Request(o) ==
  \/ \E kind \in {"takeover", "send", "close"}, c \in Convs : Load(o, kind, c)
  \/ Commit(o) \/ SendPublish(o) \/ SendCommit(o) \/ Fail(o)

Next == (\E a \in Attempts : Bot(a)) \/ (\E o \in Operators : Request(o))

Spec == Init /\ [][Next]_vars

-------------------------------------------------------------------------------
States == {"active", "human_active", "closed"}

ConvsOK ==
  /\ opened \in 0..MaxConvs
  /\ state \in [Convs -> States \cup {"none"}]
  /\ \A c \in Convs : state[c] = "none" <=> c > opened

AttemptOK ==
  /\ bot \in [Attempts -> {"new", "insert", "persistIn", "agent", "persistOut", "publish", "done"}]
  /\ row \in [Attempts -> 0..opened]
  /\ \A a \in Attempts :
       /\ bot[a] \in {"new", "insert"} => row[a] = Nowhere
       /\ bot[a] \in {"persistIn", "agent", "persistOut", "publish"} => row[a] # Nowhere

CountsOK ==
  /\ requests \in 0..MaxRequests /\ faults \in 0..MaxFaults
  /\ inRows \in [Convs -> Nat] /\ botRows \in [Convs -> Nat] /\ humanRows \in [Convs -> Nat]
  /\ botSent \in [Convs -> Nat] /\ humanSent \in [Convs -> Nat]
  /\ late \in [Convs -> Nat] /\ under \in [Convs -> Nat]

ApiOK ==
  /\ audit \in [Convs -> States \cup {"none"}] /\ raced \subseteq Convs
  /\ req \in [Operators -> [kind : {"none", "takeover", "send", "sent", "close"},
                            conv : 0..opened, seen : States \cup {"none"}]]
  /\ \A o \in Operators : req[o].kind # "none" => req[o].conv # Nowhere

TypeOK == ConvsOK /\ AttemptOK /\ CountsOK /\ ApiOK

(* No request or attempt that loaded a conversation earlier brings it back to
   the bot after an operator took it. *)
NeverReactivated ==
  [][\A c \in Convs : state[c] \in States \ {"active"} => state'[c] # "active"]_vars

(* "Takeover sets human_active so the worker backs off" (C21), as far as it
   goes: into a conversation an operator took or closed the bot sends at most
   one more reply for each attempt that had resolved it by then, however many
   attempts run, fail and are repeated, and whenever they do. *)
BotBacksOff == \A c \in Convs : late[c] <= under[c]

(* The history and the chat: the bot sends nothing its history does not show,
   shows no answer without the message before it, in that very conversation,
   and the history shows nothing of an operator that was not sent. *)
HistoryAgrees ==
  \A c \in Convs :
    botSent[c] <= botRows[c] /\ botRows[c] <= inRows[c] /\ humanRows[c] <= humanSent[c]

(* The newest audit row that names a state tells the state, unless two requests
   had the conversation loaded at a time: the second then commits, or omits,
   its UPDATE by what it loaded. *)
AuditTellsState ==
  \A c \in Convs \ raced : audit[c] \in {"none", state[c]}
===============================================================================
