------------------------------- MODULE Numbers --------------------------------
(***************************************************************************)
(* Connecting a WhatsApp number: the requests of services/api/main.py      *)
(* (create_number, get_qr, connect_number, disconnect_number,              *)
(* delete_number), the calls they make to the gateway                      *)
(* (cante/evolution.py) and the scheduler's check of connected numbers     *)
(* (_check_numbers_health), for the rows of one phone.                     *)
(*                                                                         *)
(* All rows of a phone share one gateway instance (instance_name_for).  A  *)
(* request loads its row, asks the gateway, and writes later: other        *)
(* requests, the check and the phone itself act in between.                *)
(***************************************************************************)
EXTENDS Naturals

CONSTANTS
  Requests,   \* API requests in progress at a time
  MaxRows,    \* bound: rows created for the phone
  MaxCalls,   \* bound: requests made
  MaxMoves,   \* bound: changes the phone makes to its session
  MaxFaults   \* bound: failures of the check's calls and scheduler restarts

ASSUME NumbersAssumption ==
  /\ MaxRows \in Nat \ {0}
  /\ MaxCalls \in Nat /\ MaxMoves \in Nat /\ MaxFaults \in Nat

Ids == 1..MaxRows
NoRow == 0
Sessions == {"none", "close", "connecting", "open"}
Hosts == {"none", "configured", "fixed"}

VARIABLES
  status,    \* status[i]: Number.status of row i, "absent" outside the table
  secret,    \* secret[i]: its connection_config has a webhook_secret
  rows,      \* rows flushed so far
  session,   \* state of the gateway's instance
  hook,      \* the instance's webhook: row of its URL, and whether its token
             \* is the one in that row
  base,      \* host of that URL: "configured" (settings.ingress_base_url) or
             \* "fixed" (the one get_qr has in its source)
  req,       \* req[q]: what the request holds in memory
  todo,      \* rows the running check has not asked about yet
  down,      \* row the check is about to write, NoRow if none
  enforced,  \* the scheduler's process requires a tenant for every SELECT
  calls, moves, faults,
  welcomes,  \* history: welcome messages of row i
  downs,     \* history: times row i went from connected to disconnected
  raced,     \* history: rows polled by two requests at a time
  alone,     \* history: no creation began beside another row or request
  settled    \* history: rows marked connected in a quiet moment, see Quiet

table == <<status, secret, rows>>
gateway == <<session, hook, base>>
check == <<todo, down, enforced>>
bounds == <<calls, moves, faults>>
history == <<welcomes, downs, raced, alone, settled>>
vars == <<table, gateway, req, check, bounds, history>>

Idle == [at |-> "idle", op |-> "none", id |-> NoRow, was |-> "absent"]

(* A row made before webhooks had secrets may be there already. *)
Init ==
  /\ \E old \in BOOLEAN :
       /\ rows = IF old THEN 1 ELSE 0
       /\ status = [i \in Ids |-> IF i <= rows THEN "disconnected" ELSE "absent"]
       /\ session = IF old THEN "close" ELSE "none"
  /\ secret = [i \in Ids |-> FALSE]
  /\ hook = [id |-> NoRow, own |-> FALSE] /\ base = "none"
  /\ req = [q \in Requests |-> Idle]
  /\ todo = {} /\ down = NoRow /\ enforced = FALSE
  /\ calls = 0 /\ moves = 0 /\ faults = 0
  /\ welcomes = [i \in Ids |-> 0] /\ downs = [i \in Ids |-> 0]
  /\ raced = {} /\ alone = TRUE /\ settled = {}

There(i) == status[i] # "absent"
Goto(q, place) == req' = [req EXCEPT ![q].at = place]
Leave(q) == req' = [req EXCEPT ![q] = Idle]

(* The instance's state becomes s; no row is settled unless it is open. *)
Becomes(s) ==
  /\ session' = s
  /\ settled' = IF s = "open" THEN settled ELSE {}

Begin(q, r) ==
  /\ req[q] = Idle
  /\ calls < MaxCalls
  /\ calls' = calls + 1
  /\ req' = [req EXCEPT ![q] = r]

-------------------------------------------------------------------------------
(* create_number: flush, provision the instance and its webhook, commit. *)
Create(q) ==
  /\ rows < MaxRows
  /\ Begin(q, [at |-> "create", op |-> "create", id |-> rows + 1, was |-> "disconnected"])
  /\ rows' = rows + 1
  /\ alone' = (alone /\ \A i \in Ids : ~There(i) /\ \A p \in Requests : req[p] = Idle)
  /\ UNCHANGED <<status, secret, gateway, check, moves, faults, welcomes, downs, raced,
                 settled>>

(* create_instance: an instance that exists answers 400, 403 or 409, taken *)
(* for success; another error rolls the row back.                          *)
CreateInstance(q) ==
  /\ req[q].at = "create"
  /\ \/ /\ IF session = "none" THEN \E s \in {"close", "connecting"} : Becomes(s)
           ELSE UNCHANGED <<session, settled>>
        /\ Goto(q, "provision")
     \/ Leave(q) /\ UNCHANGED <<session, settled>>
  /\ UNCHANGED <<table, hook, base, check, bounds, welcomes, downs, raced, alone>>

(* set_webhook with the configured host and the row's new secret; a failure, of which the gateway  *)
(* may have heard or not, rolls the row back.                              *)
Provision(q) ==
  /\ req[q].at = "provision"
  /\ \/ /\ hook' = [id |-> req[q].id, own |-> TRUE] /\ base' = "configured"
        /\ Goto(q, "commit") \/ Leave(q)
     \/ Leave(q) /\ UNCHANGED <<hook, base>>
  /\ UNCHANGED <<table, session, check, bounds, history>>

Commit(q) ==
  /\ req[q].at = "commit"
  /\ status' = [status EXCEPT ![req[q].id] = "disconnected"]
  /\ secret' = [secret EXCEPT ![req[q].id] = TRUE]
  /\ Leave(q)
  /\ UNCHANGED <<rows, gateway, check, bounds, history>>

-------------------------------------------------------------------------------
(* get_qr, connect_number and disconnect_number load the row. *)
Polls == {"qr", "connect"}

Load(q, op, i) ==
  /\ There(i)
  /\ Begin(q, [at |-> IF op = "connect" THEN "ask" ELSE op,
               op |-> op, id |-> i, was |-> status[i]])
  /\ raced' = IF op \in Polls /\ \E p \in Requests : req[p].op \in Polls /\ req[p].id = i
              THEN raced \cup {i} ELSE raced
  /\ settled' = IF op \in Polls THEN settled ELSE settled \ {i}
  /\ UNCHANGED <<table, gateway, check, moves, faults, welcomes, downs, alone>>

(* adapter.connect asks for a QR code: a closed instance opens a socket.  Its *)
(* failure is swallowed.                                                      *)
Pairing == IF session = "close" THEN "connecting" ELSE session

ShowQR(q) ==
  /\ req[q].at = "qr"
  /\ Becomes(Pairing) \/ UNCHANGED <<session, settled>>
  /\ Goto(q, "ask")
  /\ UNCHANGED <<table, hook, base, check, bounds, welcomes, downs, raced, alone>>

(* Wrong: every open instance is news. *)
AnyPairing(q) == TRUE

(* The test of the status the request loaded, not of the committed one. *)
NewlyPaired(q) == req[q].was # "connected"

(* adapter.status: only a row loaded as not connected goes on, and only when *)
(* the instance is open.  connect_number asks for the QR code afterwards.    *)
Ask(q) ==
  /\ req[q].at = "ask"
  /\ \/ /\ session = "open"
        /\ IF NewlyPaired(q) THEN Goto(q, IF req[q].op = "qr" THEN "hook" ELSE "mark")
           ELSE Leave(q)
        /\ UNCHANGED <<session, settled>>
     \/ /\ session # "open"
        /\ Leave(q)
        /\ \/ req[q].op = "connect" /\ Becomes(Pairing)
           \/ UNCHANGED <<session, settled>>
     \/ Leave(q) /\ UNCHANGED <<session, settled>>   \* the gateway is unreachable
  /\ UNCHANGED <<table, hook, base, check, bounds, welcomes, downs, raced, alone>>

(* Wrong: a new secret for every row. *)
SetHookAfresh(q) ==
  /\ req[q].at = "hook"
  /\ \/ hook' = [id |-> req[q].id, own |-> FALSE] /\ base' = "fixed"
     \/ UNCHANGED <<hook, base>>
  /\ Goto(q, "mark")
  /\ UNCHANGED <<table, session, check, bounds, history>>

(* get_qr sets the webhook, with a host of its own; a failure is swallowed.  *)
(* A row without a secret gets one in the object that was loaded: no UPDATE *)
(* writes it, so the row stays without.                                    *)
SetHook(q) ==
  /\ req[q].at = "hook"
  /\ \/ hook' = [id |-> req[q].id, own |-> secret[req[q].id]] /\ base' = "fixed"
     \/ UNCHANGED <<hook, base>>
  /\ Goto(q, "mark")
  /\ UNCHANGED <<table, session, check, bounds, history>>

(* Nothing that could write "disconnected" is on its way. *)
Quiet(i) ==
  /\ session = "open"
  /\ down # i
  /\ \A p \in Requests : req[p].op = "disconnect" => req[p].id # i

(* The commit of status = "connected", then the welcome message.  The UPDATE *)
(* of a row that is gone raises: 503 and no message.                         *)
Mark(q) ==
  LET i == req[q].id
  IN /\ req[q].at = "mark"
     /\ Leave(q)
     /\ IF There(i)
        THEN /\ status' = [status EXCEPT ![i] = "connected"]
             /\ welcomes' = [welcomes EXCEPT ![i] = @ + 1]
             /\ settled' = IF Quiet(i) THEN settled \cup {i} ELSE settled
        ELSE UNCHANGED <<status, welcomes, settled>>
     /\ UNCHANGED <<secret, rows, gateway, check, bounds, downs, raced, alone>>

(* disconnect_number: a failure of the logout is swallowed. *)
Logout(q) ==
  /\ req[q].at = "disconnect"
  /\ \/ session # "none" /\ Becomes("close")
     \/ UNCHANGED <<session, settled>>
  /\ Goto(q, "clear")
  /\ UNCHANGED <<table, hook, base, check, bounds, welcomes, downs, raced, alone>>

TakeDown(i) ==
  /\ status' = [status EXCEPT ![i] = IF There(i) THEN "disconnected" ELSE @]
  /\ downs' = [downs EXCEPT ![i] = IF status[i] = "connected" THEN @ + 1 ELSE @]

(* Its commit: no UPDATE when the row was loaded as disconnected. *)
Clear(q) ==
  /\ req[q].at = "clear"
  /\ Leave(q)
  /\ IF req[q].was = "connected" THEN TakeDown(req[q].id) ELSE UNCHANGED <<status, downs>>
  /\ UNCHANGED <<secret, rows, gateway, check, bounds, welcomes, raced, alone, settled>>

(* delete_number: one transaction.  The gateway keeps the instance. *)
Delete(i) ==
  /\ There(i)
  /\ calls < MaxCalls
  /\ calls' = calls + 1
  /\ status' = [status EXCEPT ![i] = "absent"]
  /\ settled' = settled \ {i}
  /\ UNCHANGED <<secret, rows, gateway, req, check, moves, faults, welcomes, downs, raced,
                 alone>>

-------------------------------------------------------------------------------
(* The phone: scanned, logged out or out of reach. *)
Move ==
  /\ moves < MaxMoves
  /\ moves' = moves + 1
  /\ \/ session = "connecting" /\ \E s \in {"open", "close"} : Becomes(s)
     \/ session = "open" /\ Becomes("close")
  /\ UNCHANGED <<table, hook, base, req, check, calls, faults, welcomes, downs, raced, alone>>

-------------------------------------------------------------------------------
(* _check_numbers_health, every 60 s: the SELECT of the connected rows, a call *)
(* per row, and an UPDATE by id.  Where a tenant is required the SELECT raises *)
(* and the job ends (Learning).                                                *)
CheckStart ==
  /\ todo = {} /\ down = NoRow /\ ~enforced
  /\ todo' = {i \in Ids : status[i] = "connected"}
  /\ UNCHANGED <<table, gateway, req, down, enforced, bounds, history>>

(* Wrong: the gateway's own word for a closed session. *)
RawDown(s) == s = "disconnected"

(* _STATE_MAP knows no "disconnected": close, disconnected and disconnecting *)
(* are all "close".                                                          *)
Down(s) == s = "close"

(* Wrong: a gateway that is out of reach has lost its numbers. *)
CheckAskBlames(i) ==
  /\ i \in todo /\ down = NoRow
  /\ todo' = todo \ {i}
  /\ down' \in {i, IF session = "close" THEN i ELSE NoRow}
  /\ UNCHANGED <<table, gateway, req, enforced, bounds, history>>

CheckAsk(i) ==
  /\ i \in todo /\ down = NoRow
  /\ todo' = todo \ {i}
  /\ \/ /\ down' = IF Down(session) THEN i ELSE NoRow
        /\ UNCHANGED faults
     \/ /\ faults < MaxFaults
        /\ faults' = faults + 1
        /\ UNCHANGED down
  /\ UNCHANGED <<table, gateway, req, enforced, calls, moves, history>>

CheckWrite ==
  /\ down # NoRow
  /\ TakeDown(down)
  /\ down' = NoRow
  /\ UNCHANGED <<secret, rows, gateway, req, todo, enforced, bounds, welcomes, raced, alone,
                 settled>>

(* The first learning inserted in this process installs the tenant hooks. *)
Enforce ==
  /\ ~enforced
  /\ enforced' = TRUE
  /\ UNCHANGED <<table, gateway, req, todo, down, bounds, history>>

Restart ==
  /\ faults < MaxFaults
  /\ faults' = faults + 1
  /\ todo' = {} /\ down' = NoRow /\ enforced' = FALSE
  /\ UNCHANGED <<table, gateway, req, calls, moves, history>>

Check == CheckStart \/ CheckWrite \/ \E i \in Ids : CheckAsk(i)

Next ==
  \/ \E q \in Requests :
       \/ Create(q) \/ CreateInstance(q) \/ Provision(q) \/ Commit(q)
       \/ \E i \in Ids, op \in {"qr", "connect", "disconnect"} : Load(q, op, i)
       \/ ShowQR(q) \/ Ask(q) \/ SetHook(q) \/ Mark(q) \/ Logout(q) \/ Clear(q)
  \/ \E i \in Ids : Delete(i)
  \/ Move \/ Check \/ Enforce \/ Restart

Spec == Init /\ [][Next]_vars

(* The scheduler runs the job again and again. *)
FairSpec == Spec /\ WF_vars(CheckStart) /\ WF_vars(CheckWrite)
                 /\ \A i \in Ids : WF_vars(CheckAsk(i))

-------------------------------------------------------------------------------
TypeOK ==
  /\ status \in [Ids -> {"absent", "disconnected", "connected"}]
  /\ secret \in [Ids -> BOOLEAN]
  /\ rows \in 0..MaxRows
  /\ session \in Sessions
  /\ hook \in [id : Ids \cup {NoRow}, own : BOOLEAN] /\ base \in Hosts
  /\ req \in [Requests -> [at : {"idle", "create", "provision", "commit", "qr", "ask", "hook",
                                 "mark", "disconnect", "clear"},
                           op : {"none", "create", "qr", "connect", "disconnect"},
                           id : Ids \cup {NoRow},
                           was : {"absent", "disconnected", "connected"}]]
  /\ todo \subseteq Ids /\ down \in Ids \cup {NoRow} /\ enforced \in BOOLEAN
  /\ calls \in 0..MaxCalls /\ moves \in 0..MaxMoves /\ faults \in 0..MaxFaults
  /\ welcomes \in [Ids -> Nat] /\ downs \in [Ids -> Nat]
  /\ raced \subseteq Ids /\ alone \in BOOLEAN /\ settled \subseteq Ids

(* A row is welcomed once for each time it gets connected, whatever the check, *)
(* a disconnect, a deletion or the phone does between a poll's load and its    *)
(* commit; only two polls of one row at a time may welcome it twice.           *)
WelcomedOnce == \A i \in Ids \ raced : welcomes[i] <= downs[i] + 1

(* A poll found row i's instance open, or is about to say so. *)
Paired(i) == welcomes[i] > 0 \/ \E q \in Requests : req[q].at = "mark" /\ req[q].id = i

(* The webhook of a phone's only row names that row and carries the token the *)
(* ingress takes for it, after failed creations, deletions and pairings in   *)
(* any order, as long as nobody creates a row beside another row or request; *)
(* its host is the configured one until a poll finds the phone paired.       *)
WebhookAgrees ==
  alone => \A i \in Ids : There(i) /\ secret[i] =>
    hook = [id |-> i, own |-> TRUE] /\ (base = "configured" \/ Paired(i))

(* A number the admin saw connected is shown connected until the phone, a     *)
(* disconnect or a deletion ends it: no check takes it down, when no check's  *)
(* answer and no disconnect was on its way as the row was marked.             *)
ShownStays == \A i \in settled : status[i] = "connected"

(* A row shown as connected while its session is closed is corrected, unless *)
(* the session opens again or the scheduler's process requires a tenant:     *)
(* late marks, disconnects that wrote nothing and failed checks included.    *)
ShownDown ==
  \A i \in Ids : (status[i] = "connected" /\ session = "close")
                   ~> (status[i] # "connected" \/ session # "close" \/ enforced)
===============================================================================
