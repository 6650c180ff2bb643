----------------------------- MODULE NumbersProofs -----------------------------
(* Theorems about Numbers, for any number of requests, rows, calls, moves and *)
(* faults.                                                                 *)
EXTENDS Numbers, TLAPS

RequestType ==
  [at : {"idle", "create", "provision", "commit", "qr", "ask", "hook", "mark", "disconnect", "clear"},
   op : {"none", "create", "qr", "connect", "disconnect"},
   id : Ids \cup {NoRow},
   was : {"absent", "disconnected", "connected"}]

(* Where a request may be, by its handler; only polls of a row loaded as not  *)
(* connected get to the webhook and the commit.                             *)
Staged(x) ==
  /\ \/ x = Idle
     \/ x.id \in Ids /\ x.op = "create" /\ x.at \in {"create", "provision", "commit"}
     \/ x.id \in Ids /\ x.op \in Polls /\ x.at \in {"qr", "ask", "hook", "mark"}
     \/ x.id \in Ids /\ x.op = "disconnect" /\ x.at \in {"disconnect", "clear"}
  /\ x.at \in {"hook", "mark"} => x.was # "connected"

RequestTypes == req \in [Requests -> RequestType] /\ \A q \in Requests : Staged(req[q])

TableTypes ==
  /\ status \in [Ids -> {"absent", "disconnected", "connected"}]
  /\ secret \in [Ids -> BOOLEAN]
  /\ rows \in 0..MaxRows

GatewayTypes == session \in Sessions /\ hook \in [id : Ids \cup {NoRow}, own : BOOLEAN] /\ base \in Hosts

CheckTypes == todo \subseteq Ids /\ down \in Ids \cup {NoRow} /\ enforced \in BOOLEAN

BoundTypes == calls \in 0..MaxCalls /\ moves \in 0..MaxMoves /\ faults \in 0..MaxFaults

HistoryTypes ==
  /\ welcomes \in [Ids -> Nat] /\ downs \in [Ids -> Nat]
  /\ raced \subseteq Ids /\ alone \in BOOLEAN /\ settled \subseteq Ids

Types ==
  /\ RequestTypes /\ TableTypes /\ GatewayTypes /\ CheckTypes /\ BoundTypes /\ HistoryTypes

-------------------------------------------------------------------------------
(* A request goes on, leaves or begins: the others stay where they are. *)
LEMMA GotoFacts ==
  ASSUME RequestTypes, NEW q \in Requests, NEW place, Goto(q, place)
  PROVE  /\ \A p \in Requests \ {q} : req'[p] = req[p]
         /\ req'[q].at = place /\ req'[q].op = req[q].op
         /\ req'[q].id = req[q].id /\ req'[q].was = req[q].was
         /\ req[q].op # "none" /\ place \in {"provision", "commit", "ask", "hook", "mark", "clear"}
              => req'[q] # Idle /\ req' \in [Requests -> RequestType]
  BY DEF RequestTypes, RequestType, Goto, Idle

LEMMA LeaveFacts ==
  ASSUME RequestTypes, NEW q \in Requests, Leave(q)
  PROVE  /\ \A p \in Requests \ {q} : req'[p] = req[p]
         /\ req'[q] = Idle /\ RequestTypes'
  BY DEF RequestTypes, RequestType, Leave, Idle, NoRow, Staged

LEMMA BeginFacts ==
  ASSUME RequestTypes, NEW q \in Requests, NEW r \in RequestType, Staged(r), Begin(q, r)
  PROVE  /\ \A p \in Requests \ {q} : req'[p] = req[p]
         /\ req'[q] = r /\ req[q] = Idle /\ RequestTypes'
  BY DEF RequestTypes, Begin

LEMMA GoOn ==
  ASSUME RequestTypes, NEW q \in Requests, NEW place, Goto(q, place),
         \/ req[q].at = "create" /\ place = "provision"
         \/ req[q].at = "provision" /\ place = "commit"
         \/ req[q].at = "qr" /\ place = "ask"
         \/ req[q].at = "ask" /\ place \in {"hook", "mark"} /\ req[q].was # "connected"
         \/ req[q].at = "hook" /\ place = "mark"
         \/ req[q].at = "disconnect" /\ place = "clear"
  PROVE  RequestTypes'
<1>1. req[q] # Idle /\ Staged(req[q])
  BY DEF RequestTypes, Idle
<1>2. /\ req[q].op \in {"create", "qr", "connect", "disconnect"}
      /\ place \in {"provision", "commit", "ask", "hook", "mark", "clear"}
  BY <1>1 DEF Staged, Polls
<1>3. req' \in [Requests -> RequestType] /\ req'[q] # Idle
  BY <1>2, GotoFacts
<1>4. Staged(req'[q])
  BY <1>1, <1>3, GotoFacts DEF Staged, Polls
<1> QED
  BY <1>3, <1>4, GotoFacts DEF RequestTypes

-------------------------------------------------------------------------------
LEMMA TypesInductive == ASSUME Types, [Next]_vars PROVE Types'
<1> USE NumbersAssumption
<1>a. Pairing \in Sessions
  BY DEF Types, GatewayTypes, Pairing, Sessions
<1>b. {"none", "close", "connecting", "open"} = Sessions
  BY DEF Sessions
<1>1. ASSUME NEW q \in Requests, Create(q) PROVE Types'
  <2> DEFINE r == [at |-> "create", op |-> "create", id |-> rows + 1, was |-> "disconnected"]
  <2>1. rows + 1 \in Ids /\ rows + 1 \in 0..MaxRows
    BY <1>1 DEF Create, Types, TableTypes, Ids
  <2>2. r \in RequestType /\ Staged(r)
    BY <2>1 DEF RequestType, Staged, Idle
  <2> HIDE DEF r
  <2>3. Begin(q, r)
    BY <1>1 DEF Create, r
  <2>4. RequestTypes'
    BY <2>2, <2>3, BeginFacts DEF Types
  <2>5. calls' \in 0..MaxCalls
    BY <2>3 DEF Begin, Types, BoundTypes
  <2>6. TableTypes' /\ HistoryTypes'
    BY <1>1, <2>1 DEF Create, Types, TableTypes, HistoryTypes
  <2> QED
    BY <1>1, <2>4, <2>5, <2>6 DEF Create, Types, gateway, check, GatewayTypes, CheckTypes, BoundTypes
<1>2. ASSUME NEW q \in Requests, CreateInstance(q) PROVE Types'
  <2>1. RequestTypes'
    BY <1>2, GoOn, LeaveFacts DEF CreateInstance, Types
  <2>2. session' \in Sessions /\ settled' \subseteq Ids
    BY <1>2, <1>b DEF CreateInstance, Becomes, Types, HistoryTypes, GatewayTypes
  <2> QED
    BY <1>2, <2>1, <2>2 DEF CreateInstance, Types, table, check, bounds, TableTypes,
         GatewayTypes, CheckTypes, BoundTypes, HistoryTypes
<1>3. ASSUME NEW q \in Requests, Provision(q) PROVE Types'
  <2>1. RequestTypes'
    BY <1>3, GoOn, LeaveFacts DEF Provision, Types
  <2>2. [id |-> req[q].id, own |-> TRUE] \in [id : Ids \cup {NoRow}, own : BOOLEAN]
    BY DEF Types, RequestTypes, RequestType
  <2>3. GatewayTypes'
    BY <1>3, <2>2 DEF Provision, Types, GatewayTypes, Hosts
  <2> QED
    BY <1>3, <2>1, <2>3 DEF Provision, Types, table, check, bounds, history, TableTypes,
         CheckTypes, BoundTypes, HistoryTypes
<1>4. ASSUME NEW q \in Requests, Commit(q) PROVE Types'
  <2>1. RequestTypes'
    BY <1>4, LeaveFacts DEF Commit, Types
  <2>2. TableTypes'
    BY <1>4 DEF Commit, Types, TableTypes
  <2> QED
    BY <1>4, <2>1, <2>2 DEF Commit, Types, gateway, check, bounds, history, GatewayTypes,
         CheckTypes, BoundTypes, HistoryTypes
<1>5. ASSUME NEW q \in Requests, NEW i \in Ids, NEW op \in {"qr", "connect", "disconnect"}, Load(q, op, i)
      PROVE  Types'
  <2> DEFINE r == [at |-> IF op = "connect" THEN "ask" ELSE op, op |-> op, id |-> i, was |-> status[i]]
  <2>1. status[i] \in {"absent", "disconnected", "connected"}
    BY DEF Types, TableTypes
  <2>2. r \in RequestType /\ Staged(r)
    BY <2>1 DEF RequestType, Staged, Polls
  <2> HIDE DEF r
  <2>3. Begin(q, r)
    BY <1>5 DEF Load, r
  <2>4. RequestTypes'
    BY <2>2, <2>3, BeginFacts DEF Types
  <2>5. calls' \in 0..MaxCalls
    BY <2>3 DEF Begin, Types, BoundTypes
  <2>6. HistoryTypes'
    BY <1>5 DEF Load, Types, HistoryTypes
  <2> QED
    BY <1>5, <2>4, <2>5, <2>6 DEF Load, Types, table, gateway, check, TableTypes, GatewayTypes,
         CheckTypes, BoundTypes
<1>6. ASSUME NEW q \in Requests, ShowQR(q) PROVE Types'
  <2>1. RequestTypes'
    BY <1>6, GoOn DEF ShowQR, Types
  <2>2. session' \in Sessions /\ settled' \subseteq Ids
    BY <1>6, <1>a DEF ShowQR, Becomes, Types, HistoryTypes, GatewayTypes
  <2> QED
    BY <1>6, <2>1, <2>2 DEF ShowQR, Types, table, check, bounds, TableTypes,
         GatewayTypes, CheckTypes, BoundTypes, HistoryTypes
<1>7. ASSUME NEW q \in Requests, Ask(q) PROVE Types'
  <2>1. RequestTypes'
    BY <1>7, GoOn, LeaveFacts DEF Ask, NewlyPaired, Types
  <2>2. session' \in Sessions /\ settled' \subseteq Ids
    BY <1>7, <1>a DEF Ask, Becomes, Types, HistoryTypes, GatewayTypes
  <2> QED
    BY <1>7, <2>1, <2>2 DEF Ask, Types, table, check, bounds, TableTypes,
         GatewayTypes, CheckTypes, BoundTypes, HistoryTypes
<1>8. ASSUME NEW q \in Requests, SetHook(q) PROVE Types'
  <2>1. RequestTypes'
    BY <1>8, GoOn DEF SetHook, Types
  <2>2. req[q].id \in Ids
    BY <1>8 DEF SetHook, Types, RequestTypes, Staged, Idle
  <2>3. GatewayTypes'
    BY <1>8, <2>2 DEF SetHook, Types, GatewayTypes, TableTypes, Hosts
  <2> QED
    BY <1>8, <2>1, <2>3 DEF SetHook, Types, table, check, bounds, history, TableTypes,
         CheckTypes, BoundTypes, HistoryTypes
<1>9. ASSUME NEW q \in Requests, Mark(q) PROVE Types'
  <2>1. RequestTypes'
    BY <1>9, LeaveFacts DEF Mark, Types
  <2>2. req[q].id \in Ids
    BY <1>9 DEF Mark, Types, RequestTypes, Staged, Idle
  <2>3. TableTypes'
    BY <1>9, <2>2 DEF Mark, Types, TableTypes
  <2>4. HistoryTypes'
    BY <1>9, <2>2 DEF Mark, Types, HistoryTypes
  <2> QED
    BY <1>9, <2>1, <2>3, <2>4 DEF Mark, Types, gateway, check, bounds, GatewayTypes, CheckTypes, BoundTypes
<1>10. ASSUME NEW q \in Requests, Logout(q) PROVE Types'
  <2>1. RequestTypes'
    BY <1>10, GoOn DEF Logout, Types
  <2>2. session' \in Sessions /\ settled' \subseteq Ids
    BY <1>10, <1>b DEF Logout, Becomes, Types, HistoryTypes, GatewayTypes
  <2> QED
    BY <1>10, <2>1, <2>2 DEF Logout, Types, table, check, bounds, TableTypes,
         GatewayTypes, CheckTypes, BoundTypes, HistoryTypes
<1>11. ASSUME NEW i \in Ids, TakeDown(i)
       PROVE  /\ status' \in [Ids -> {"absent", "disconnected", "connected"}]
              /\ downs' \in [Ids -> Nat]
  BY <1>11 DEF TakeDown, Types, TableTypes, HistoryTypes
<1>12. ASSUME NEW q \in Requests, Clear(q) PROVE Types'
  <2>1. RequestTypes'
    BY <1>12, LeaveFacts DEF Clear, Types
  <2>0. req[q].id \in Ids
    BY <1>12 DEF Clear, Types, RequestTypes, Staged, Idle
  <2>2. status' \in [Ids -> {"absent", "disconnected", "connected"}] /\ downs' \in [Ids -> Nat]
    BY <1>11, <1>12, <2>0 DEF Clear, Types, TableTypes, HistoryTypes
  <2> QED
    BY <1>12, <2>1, <2>2 DEF Clear, Types, gateway, check, bounds, TableTypes,
         GatewayTypes, CheckTypes, BoundTypes, HistoryTypes
<1>13. ASSUME NEW i \in Ids, Delete(i) PROVE Types'
  BY <1>13 DEF Delete, Types, gateway, check, RequestTypes, TableTypes, GatewayTypes, CheckTypes,
       BoundTypes, HistoryTypes
<1>14. CASE Move
  BY <1>14, <1>b DEF Move, Becomes, Types, table, check, RequestTypes, TableTypes, GatewayTypes,
       CheckTypes, BoundTypes, HistoryTypes
<1>15. CASE Check
  <2>1. CASE CheckStart
    BY <2>1 DEF CheckStart, Types, table, gateway, bounds, history, RequestTypes, TableTypes,
         GatewayTypes, CheckTypes, BoundTypes, HistoryTypes
  <2>2. CASE CheckWrite
    <3>1. down \in Ids
      BY <2>2 DEF CheckWrite, Types, CheckTypes
    <3> QED
      BY <1>11, <2>2, <3>1 DEF CheckWrite, Types, gateway, bounds, RequestTypes, TableTypes,
           GatewayTypes, CheckTypes, BoundTypes, HistoryTypes
  <2>3. ASSUME NEW i \in Ids, CheckAsk(i) PROVE Types'
    BY <2>3 DEF CheckAsk, Types, table, gateway, history, RequestTypes, TableTypes,
         GatewayTypes, CheckTypes, BoundTypes, HistoryTypes
  <2> QED
    BY <1>15, <2>1, <2>2, <2>3 DEF Check
<1>16. CASE Enforce \/ Restart
  <2>1. UNCHANGED <<table, gateway, req, history>>
    BY <1>16 DEF Enforce, Restart
  <2>2. RequestTypes' /\ TableTypes' /\ GatewayTypes' /\ HistoryTypes'
    BY <2>1 DEF Types, table, gateway, history, RequestTypes, TableTypes, GatewayTypes, HistoryTypes
  <2>3. CheckTypes'
    BY <1>16 DEF Enforce, Restart, Types, CheckTypes
  <2>4. BoundTypes'
    BY <1>16 DEF Enforce, Restart, Types, bounds, BoundTypes
  <2> QED
    BY <2>2, <2>3, <2>4 DEF Types
<1>17. CASE UNCHANGED vars
  <2>1. UNCHANGED <<table, gateway, req, check, bounds, history>>
    BY <1>17 DEF vars
  <2>2. RequestTypes' /\ TableTypes' /\ GatewayTypes'
    BY <2>1 DEF Types, table, gateway, RequestTypes, TableTypes, GatewayTypes
  <2>3. CheckTypes' /\ BoundTypes' /\ HistoryTypes'
    BY <2>1 DEF Types, check, bounds, history, CheckTypes, BoundTypes, HistoryTypes
  <2> QED
    BY <2>2, <2>3 DEF Types
<1> QED
  BY <1>1, <1>2, <1>3, <1>4, <1>5, <1>6, <1>7, <1>8, <1>9, <1>10, <1>12, <1>13, <1>14, <1>15,
     <1>16, <1>17 DEF Next

LEMMA TypesAlways == Spec => []Types
<1>1. Init => Types
  <2> SUFFICES ASSUME Init PROVE Types
    OBVIOUS
  <2> USE NumbersAssumption
  <2>1. Idle \in RequestType /\ Staged(Idle)
    BY DEF Idle, RequestType, Staged
  <2>2. RequestTypes
    BY <2>1 DEF Init, RequestTypes
  <2>3. TableTypes
    BY DEF Init, TableTypes, Ids
  <2>4. GatewayTypes
    BY DEF Init, GatewayTypes, Sessions, Hosts
  <2>5. CheckTypes /\ HistoryTypes
    BY DEF Init, CheckTypes, HistoryTypes
  <2>6. BoundTypes
    BY DEF Init, BoundTypes
  <2> QED
    BY <2>2, <2>3, <2>4, <2>5, <2>6 DEF Types
<1> QED
  BY <1>1, TypesInductive, PTL DEF Spec

(* Types of Numbers, for any bounds. *)
THEOREM TypeCorrect == Spec => []TypeOK
<1>1. Types => TypeOK
  BY DEF Types, RequestTypes, RequestType, TableTypes, GatewayTypes, CheckTypes, BoundTypes,
       HistoryTypes, TypeOK
<1> QED
  BY <1>1, TypesAlways, PTL

-------------------------------------------------------------------------------
(* Welcomes.  A row that was never polled by two requests at a time: a poll  *)
(* that read it as not connected keeps it so until its own commit, and a row *)
(* that is not connected has lost a connection for each of its messages.   *)
Polling(q, i) == req[q].op \in Polls /\ req[q].id = i

RowsFlushed == \A i \in Ids : There(i) \/ welcomes[i] > 0 => i <= rows

Creations ==
  /\ \A q \in Requests : req[q].op = "create" =>
       /\ req[q].id <= rows /\ ~There(req[q].id) /\ welcomes[req[q].id] = 0
  /\ \A p, q \in Requests : req[p].op = "create" /\ req[q].op = "create" /\ req[p].id = req[q].id => p = q

PollsAlone ==
  \A i \in Ids \ raced : \A p, q \in Requests : Polling(p, i) /\ Polling(q, i) => p = q

StillDown ==
  \A i \in Ids \ raced : \A q \in Requests :
    Polling(q, i) /\ req[q].was # "connected" => status[i] # "connected"

Paid == \A i \in Ids \ raced : status[i] = "disconnected" => welcomes[i] <= downs[i]

WelcomeInv ==
  /\ RowsFlushed /\ Creations /\ PollsAlone /\ StillDown /\ Paid /\ WelcomedOnce

(* A request changes its place only, or leaves. *)
LEMMA MovesOn ==
  ASSUME Types, WelcomeInv, NEW q \in Requests, UNCHANGED <<table, welcomes, downs, raced>>,
         Leave(q) \/ \E place : Goto(q, place)
  PROVE  WelcomeInv'
<1>1. \A p \in Requests : /\ req'[p].op \in {req[p].op, "none"}
                          /\ req'[p].op # "none" => req'[p].id = req[p].id /\ req'[p].was = req[p].was
  <2>1. CASE Leave(q)
    BY <2>1, LeaveFacts DEF Types, Idle
  <2>2. ASSUME NEW place, Goto(q, place)
        PROVE  \A p \in Requests : req'[p].op = req[p].op /\ req'[p].id = req[p].id /\ req'[p].was = req[p].was
    BY <2>2, GotoFacts DEF Types
  <2> QED
    BY <2>1, <2>2
<1>2. \A p \in Requests, i \in Ids : Polling(p, i)' => Polling(p, i) /\ req'[p].was = req[p].was
  BY <1>1 DEF Polling, Polls
<1>3. RowsFlushed' /\ Paid' /\ WelcomedOnce'
  BY DEF WelcomeInv, RowsFlushed, Paid, WelcomedOnce, table, There
<1>4. Creations'
  BY <1>1 DEF WelcomeInv, Creations, table, There
<1>5. PollsAlone' /\ StillDown'
  BY <1>2 DEF WelcomeInv, PollsAlone, StillDown, table
<1> QED
  BY <1>3, <1>4, <1>5 DEF WelcomeInv

(* No request changes, and no row gets there or connected. *)
LEMMA RowsDown ==
  ASSUME Types, WelcomeInv, UNCHANGED <<req, rows, welcomes, raced>>,
         \A i \in Ids : \/ status'[i] = status[i] /\ downs'[i] = downs[i]
                        \/ status'[i] = "absent" /\ downs'[i] = downs[i]
                        \/ status[i] = "connected" /\ status'[i] = "disconnected" /\ downs'[i] = downs[i] + 1
  PROVE  WelcomeInv'
<1>1. \A i \in Ids : welcomes[i] \in Nat /\ downs[i] \in Nat
  BY DEF Types, HistoryTypes
<1>2. RowsFlushed'
  BY DEF WelcomeInv, RowsFlushed, There
<1>3. Creations'
  <2>1. \A q \in Requests : req[q].op = "create" => req[q].id \in Ids
    BY DEF Types, RequestTypes, Staged, Idle
  <2> QED
    BY <2>1 DEF WelcomeInv, Creations, There
<1>4. PollsAlone' /\ StillDown'
  BY DEF WelcomeInv, PollsAlone, StillDown, Polling
<1>5. Paid' /\ WelcomedOnce'
  BY <1>1 DEF WelcomeInv, Paid, WelcomedOnce
<1> QED
  BY <1>2, <1>3, <1>4, <1>5 DEF WelcomeInv

LEMMA TakesDown ==
  ASSUME Types, NEW i \in Ids, TakeDown(i)
  PROVE  \A j \in Ids : \/ status'[j] = status[j] /\ downs'[j] = downs[j]
                        \/ status'[j] = "absent" /\ downs'[j] = downs[j]
                        \/ status[j] = "connected" /\ status'[j] = "disconnected" /\ downs'[j] = downs[j] + 1
  BY DEF TakeDown, Types, TableTypes, HistoryTypes, There

LEMMA CreateWelcomes == ASSUME Types, WelcomeInv, NEW q \in Requests, Create(q) PROVE WelcomeInv'
<1> DEFINE r == [at |-> "create", op |-> "create", id |-> rows + 1, was |-> "disconnected"]
<1>1. rows + 1 \in Ids /\ rows \in Nat /\ \A i \in Ids : i \in Nat /\ welcomes[i] \in Nat
  BY NumbersAssumption DEF Create, Types, TableTypes, HistoryTypes, Ids
<1>2. r \in RequestType /\ Staged(r) /\ r.op = "create" /\ r.id = rows + 1
  BY <1>1 DEF RequestType, Staged, Idle
<1> HIDE DEF r
<1>3. (\A p \in Requests \ {q} : req'[p] = req[p]) /\ req'[q] = r
  BY <1>2, BeginFacts DEF Create, r, Types
<1>4. ~There(rows + 1) /\ welcomes[rows + 1] = 0
  BY <1>1 DEF WelcomeInv, RowsFlushed
<1>5. RowsFlushed' /\ Paid' /\ WelcomedOnce'
  BY <1>1 DEF Create, WelcomeInv, RowsFlushed, Paid, WelcomedOnce, There
<1>6. Creations'
  <2>1. rows' = rows + 1 /\ status' = status /\ welcomes' = welcomes
    BY DEF Create
  <2>2. \A p \in Requests \ {q} : req[p].op = "create" =>
          req[p].id <= rows /\ status'[req[p].id] = "absent" /\ welcomes'[req[p].id] = 0 /\ req[p].id \in Nat
    BY <1>1, <2>1 DEF WelcomeInv, Creations, There, Types, RequestTypes, Staged, Idle
  <2>3. \A p \in Requests : req'[p].op = "create" =>
          req'[p].id <= rows' /\ status'[req'[p].id] = "absent" /\ welcomes'[req'[p].id] = 0
    BY <1>1, <1>2, <1>3, <1>4, <2>1, <2>2 DEF There
  <2>4. \A p, s \in Requests : req'[p].op = "create" /\ req'[s].op = "create" /\ req'[p].id = req'[s].id => p = s
    BY <1>1, <1>2, <1>3, <2>2 DEF WelcomeInv, Creations
  <2> QED
    BY <2>3, <2>4 DEF Creations, There
<1>7. PollsAlone' /\ StillDown'
  <2>1. \A p \in Requests, i \in Ids : Polling(p, i)' => Polling(p, i) /\ req'[p] = req[p]
    BY <1>2, <1>3 DEF Polling, Polls
  <2> QED
    BY <2>1 DEF Create, WelcomeInv, PollsAlone, StillDown
<1> QED
  BY <1>5, <1>6, <1>7 DEF WelcomeInv

LEMMA CommitWelcomes == ASSUME Types, WelcomeInv, NEW q \in Requests, Commit(q) PROVE WelcomeInv'
<1>1. /\ (\A p \in Requests \ {q} : req'[p] = req[p]) /\ req'[q] = Idle
  BY LeaveFacts DEF Commit, Types
<1>2. req[q].op = "create" /\ req[q].id \in Ids
  BY DEF Commit, Types, RequestTypes, Staged, Idle, Polls
<1>3. /\ status'[req[q].id] = "disconnected" /\ \A i \in Ids \ {req[q].id} : status'[i] = status[i]
      /\ UNCHANGED <<rows, welcomes, downs, raced>>
  BY <1>2 DEF Commit, Types, TableTypes, history
<1>4. welcomes[req[q].id] = 0 /\ req[q].id <= rows /\ \A i \in Ids : downs[i] \in Nat
  BY <1>2 DEF WelcomeInv, Creations, Types, HistoryTypes
<1>5. RowsFlushed' /\ Paid' /\ WelcomedOnce'
  BY <1>3, <1>4 DEF WelcomeInv, RowsFlushed, Paid, WelcomedOnce, There
<1>6. Creations'
  <2>1. \A p \in Requests : req'[p].op = "create" =>
          p # q /\ req'[p] = req[p] /\ req[p].op = "create" /\ req[p].id \in Ids \ {req[q].id}
    BY <1>1, <1>2 DEF Idle, WelcomeInv, Creations, Types, RequestTypes, Staged
  <2> QED
    BY <1>3, <2>1 DEF WelcomeInv, Creations, There
<1>7. PollsAlone' /\ StillDown'
  <2>1. \A p \in Requests, i \in Ids : Polling(p, i)' => Polling(p, i) /\ req'[p] = req[p]
    BY <1>1 DEF Polling, Polls, Idle
  <2> QED
    BY <1>3, <2>1 DEF WelcomeInv, PollsAlone, StillDown
<1> QED
  BY <1>5, <1>6, <1>7 DEF WelcomeInv

LEMMA LoadWelcomes ==
  ASSUME Types, WelcomeInv, NEW q \in Requests, NEW k \in Ids,
         NEW op \in {"qr", "connect", "disconnect"}, Load(q, op, k)
  PROVE  WelcomeInv'
<1> DEFINE r == [at |-> IF op = "connect" THEN "ask" ELSE op, op |-> op, id |-> k, was |-> status[k]]
<1>0. status[k] \in {"absent", "disconnected", "connected"}
  BY DEF Types, TableTypes
<1>1. r \in RequestType /\ Staged(r) /\ r.op = op /\ r.id = k /\ r.was = status[k]
  BY <1>0 DEF RequestType, Staged, Polls
<1> HIDE DEF r
<1>2. (\A p \in Requests \ {q} : req'[p] = req[p]) /\ req'[q] = r
  BY <1>1, BeginFacts DEF Load, r, Types
<1>3. UNCHANGED <<status, rows, welcomes, downs>> /\ raced \subseteq raced'
      /\ (op \in Polls /\ (\E p \in Requests : Polling(p, k)) => k \in raced')
  BY DEF Load, table, Polling
<1>4. RowsFlushed' /\ Paid' /\ WelcomedOnce'
  BY <1>3 DEF WelcomeInv, RowsFlushed, Paid, WelcomedOnce, There
<1>5. Creations'
  <2>1. \A p \in Requests : req'[p].op = "create" => req'[p] = req[p]
    BY <1>1, <1>2
  <2> QED
    BY <1>3, <2>1 DEF WelcomeInv, Creations, There
<1>6. \A p \in Requests, i \in Ids : Polling(p, i)' =>
        \/ p # q /\ Polling(p, i) /\ req'[p] = req[p]
        \/ p = q /\ i = k /\ op \in Polls /\ req'[p].was = status[i]
  BY <1>1, <1>2 DEF Polling
<1>7. PollsAlone'
  BY <1>3, <1>6 DEF WelcomeInv, PollsAlone
<1>8. StillDown'
  BY <1>3, <1>6 DEF WelcomeInv, StillDown
<1> QED
  BY <1>4, <1>5, <1>7, <1>8 DEF WelcomeInv

LEMMA MarkWelcomes == ASSUME Types, WelcomeInv, NEW q \in Requests, Mark(q) PROVE WelcomeInv'
<1> DEFINE k == req[q].id
<1>1. /\ (\A p \in Requests \ {q} : req'[p] = req[p]) /\ req'[q] = Idle
  BY LeaveFacts DEF Mark, Types
<1>2. k \in Ids /\ Polling(q, k) /\ req[q].was # "connected"
  BY DEF Mark, Types, RequestTypes, Staged, Idle, Polling
<1>3. CASE ~There(k)
  <2>1. UNCHANGED <<table, welcomes, downs, raced>> /\ Leave(q)
    BY <1>3 DEF Mark, table
  <2> QED
    BY <2>1, MovesOn
<1>4. CASE There(k)
  <2>1. /\ status'[k] = "connected" /\ \A i \in Ids \ {k} : status'[i] = status[i]
        /\ welcomes'[k] = welcomes[k] + 1 /\ \A i \in Ids \ {k} : welcomes'[i] = welcomes[i]
        /\ UNCHANGED <<rows, downs, raced>>
    BY <1>2, <1>4 DEF Mark, Types, TableTypes, HistoryTypes
  <2>2. \A i \in Ids : welcomes[i] \in Nat /\ downs[i] \in Nat
    BY DEF Types, HistoryTypes
  <2>3. k \notin raced => status[k] = "disconnected"
    BY <1>2, <1>4 DEF WelcomeInv, StillDown, Types, TableTypes, There
  <2>4. RowsFlushed' /\ Paid'
    BY <1>4, <2>1 DEF WelcomeInv, RowsFlushed, Paid, There
  <2>5. WelcomedOnce'
    BY <2>1, <2>2, <2>3 DEF WelcomeInv, Paid, WelcomedOnce
  <2>6. Creations'
    <3>1. \A p \in Requests : req'[p].op = "create" =>
            p # q /\ req'[p] = req[p] /\ req[p].op = "create" /\ req[p].id \in Ids \ {k}
      BY <1>1, <1>4 DEF Idle, WelcomeInv, Creations, Types, RequestTypes, Staged
    <3> QED
      BY <2>1, <3>1 DEF WelcomeInv, Creations, There
  <2>7. \A p \in Requests, i \in Ids : Polling(p, i)' => p # q /\ Polling(p, i) /\ req'[p] = req[p]
    BY <1>1 DEF Polling, Polls, Idle
  <2>8. PollsAlone'
    BY <2>1, <2>7 DEF WelcomeInv, PollsAlone
  <2>9. StillDown'
    BY <1>2, <2>1, <2>7 DEF WelcomeInv, StillDown, PollsAlone, Polling
  <2> QED
    BY <2>4, <2>5, <2>6, <2>8, <2>9 DEF WelcomeInv
<1> QED
  BY <1>3, <1>4

LEMMA ClearWelcomes == ASSUME Types, WelcomeInv, NEW q \in Requests, Clear(q) PROVE WelcomeInv'
<1>1. req[q].id \in Ids
  BY DEF Clear, Types, RequestTypes, Staged, Idle
<1>2. CASE UNCHANGED <<status, downs>>
  BY <1>2, MovesOn DEF Clear, table
<1>3. CASE TakeDown(req[q].id)
  <2>1. \A i \in Ids : \/ status'[i] = status[i] /\ downs'[i] = downs[i]
                       \/ status'[i] = "absent" /\ downs'[i] = downs[i]
                       \/ status[i] = "connected" /\ status'[i] = "disconnected" /\ downs'[i] = downs[i] + 1
    BY <1>1, <1>3, TakesDown
  <2>2. (\A p \in Requests \ {q} : req'[p] = req[p]) /\ req'[q] = Idle
        /\ UNCHANGED <<rows, welcomes, raced>>
    BY LeaveFacts DEF Clear, Types
  <2>3. \A i \in Ids : welcomes[i] \in Nat /\ downs[i] \in Nat
    BY DEF Types, HistoryTypes
  <2>4. RowsFlushed' /\ Paid' /\ WelcomedOnce'
    BY <2>1, <2>2, <2>3 DEF WelcomeInv, RowsFlushed, Paid, WelcomedOnce, There
  <2>5. Creations'
    <3>1. \A p \in Requests : req'[p].op = "create" =>
            req'[p] = req[p] /\ req[p].op = "create" /\ req[p].id \in Ids
      BY <2>2 DEF Idle, Types, RequestTypes, Staged
    <3> QED
      BY <2>1, <2>2, <3>1 DEF WelcomeInv, Creations, There
  <2>6. \A p \in Requests, i \in Ids : Polling(p, i)' => Polling(p, i) /\ req'[p] = req[p]
    BY <2>2 DEF Polling, Polls, Idle
  <2>7. PollsAlone' /\ StillDown'
    BY <2>1, <2>2, <2>6 DEF WelcomeInv, PollsAlone, StillDown
  <2> QED
    BY <2>4, <2>5, <2>7 DEF WelcomeInv
<1> QED
  BY <1>2, <1>3 DEF Clear

LEMMA WelcomesInductive == ASSUME Types, WelcomeInv, [Next]_vars PROVE WelcomeInv'
<1>1. ASSUME NEW q \in Requests, CreateInstance(q) \/ Provision(q) \/ ShowQR(q) \/ Ask(q) \/ SetHook(q) \/ Logout(q)
      PROVE  WelcomeInv'
  <2>1. Leave(q) \/ \E place : Goto(q, place)
    BY <1>1 DEF CreateInstance, Provision, ShowQR, Ask, SetHook, Logout
  <2>2. UNCHANGED <<table, welcomes, downs, raced>>
    BY <1>1 DEF CreateInstance, Provision, ShowQR, Ask, SetHook, Logout, history
  <2> QED
    BY <2>1, <2>2, MovesOn
<1>2. ASSUME UNCHANGED <<table, req, welcomes, downs, raced>> PROVE WelcomeInv'
  BY <1>2, RowsDown DEF table
<1>3. ASSUME NEW i \in Ids, Delete(i) PROVE WelcomeInv'
  <2>1. UNCHANGED <<req, rows, welcomes, raced, downs>>
    BY <1>3 DEF Delete
  <2>2. \A j \in Ids : status'[j] = status[j] \/ status'[j] = "absent"
    BY <1>3 DEF Delete, Types, TableTypes
  <2> QED
    BY <2>1, <2>2, RowsDown
<1>4. CASE CheckWrite
  <2>1. down \in Ids /\ TakeDown(down) /\ UNCHANGED <<req, rows, welcomes, raced>>
    BY <1>4 DEF CheckWrite, Types, CheckTypes
  <2> QED
    BY <2>1, TakesDown, RowsDown
<1>5. Move \/ CheckStart \/ Enforce \/ Restart => UNCHANGED <<table, req, welcomes, downs, raced>>
  BY DEF Move, CheckStart, Enforce, Restart, history
<1>6. \A i \in Ids : CheckAsk(i) => UNCHANGED <<table, req, welcomes, downs, raced>>
  BY DEF CheckAsk, history
<1>7. UNCHANGED vars => UNCHANGED <<table, req, welcomes, downs, raced>>
  BY DEF vars, history
<1> QED
  BY <1>1, <1>2, <1>3, <1>4, <1>5, <1>6, <1>7, CreateWelcomes, CommitWelcomes, LoadWelcomes,
     MarkWelcomes, ClearWelcomes DEF Next, Check

LEMMA WelcomesInit == ASSUME Init, Types PROVE WelcomeInv
<1>1. \A q \in Requests : req[q].op = "none"
  BY DEF Init, Idle
<1>2. \A i \in Ids : welcomes[i] = 0 /\ downs[i] = 0 /\ status[i] # "connected" /\ (There(i) => i <= rows)
  BY DEF Init, There
<1> QED
  BY <1>1, <1>2 DEF WelcomeInv, RowsFlushed, Creations, PollsAlone, StillDown, Paid, WelcomedOnce,
     Polling, Polls

LEMMA WelcomesAlways == Spec => []WelcomeInv
BY TypesAlways, WelcomesInit, WelcomesInductive, PTL DEF Spec

(* A number is welcomed once for each time it gets connected, unless two polls *)
(* of its row overlapped, for any rows, requests and failures.              *)
THEOREM Welcomed == Spec => []WelcomedOnce
<1>1. WelcomeInv => WelcomedOnce
  BY DEF WelcomeInv
<1> QED
  BY <1>1, WelcomesAlways, PTL

-------------------------------------------------------------------------------
(* Numbers shown as connected.  What is on its way to take a settled row down *)
(* would have been on its way when it was marked: nothing is.               *)
NothingComing(i) ==
  /\ session = "open" /\ status[i] = "connected" /\ down # i
  /\ \A p \in Requests : req[p].op = "disconnect" => req[p].id # i

SettledInv == \A i \in settled : NothingComing(i)

(* A request changes its place only, or leaves; rows stay.  The session stays *)
(* or nothing is settled any more.                                          *)
LEMMA SettledMoves ==
  ASSUME Types, SettledInv, UNCHANGED <<status, down>>,
         NEW q \in Requests, Leave(q) \/ \E place : Goto(q, place),
         UNCHANGED <<session, settled>> \/ \E s : Becomes(s)
  PROVE  SettledInv'
<1>1. \A p \in Requests : /\ req'[p].op \in {req[p].op, "none"}
                          /\ req'[p].op # "none" => req'[p].id = req[p].id
  <2>1. CASE Leave(q)
    BY <2>1, LeaveFacts DEF Types, Idle
  <2>2. ASSUME NEW place, Goto(q, place)
        PROVE  \A p \in Requests : req'[p].op = req[p].op /\ req'[p].id = req[p].id
    BY <2>2, GotoFacts DEF Types
  <2> QED
    BY <2>1, <2>2
<1>2. settled' \subseteq settled /\ (settled' # {} => session' = session \/ session' = "open")
  BY DEF Becomes
<1> QED
  BY <1>1, <1>2 DEF SettledInv, NothingComing

LEMMA SettledInductive == ASSUME Types, SettledInv, WelcomeInv, [Next]_vars PROVE SettledInv'
<1>1. ASSUME NEW q \in Requests,
             CreateInstance(q) \/ Provision(q) \/ ShowQR(q) \/ Ask(q) \/ SetHook(q) \/ Logout(q)
      PROVE  SettledInv'
  <2>1. Leave(q) \/ \E place : Goto(q, place)
    BY <1>1 DEF CreateInstance, Provision, ShowQR, Ask, SetHook, Logout
  <2>2. UNCHANGED <<status, down>>
    BY <1>1 DEF CreateInstance, Provision, ShowQR, Ask, SetHook, Logout, table, check
  <2>3. UNCHANGED <<session, settled>> \/ \E s : Becomes(s)
    BY <1>1 DEF CreateInstance, Provision, ShowQR, Ask, SetHook, Logout, history
  <2> QED
    BY <2>1, <2>2, <2>3, SettledMoves
<1>2. ASSUME NEW q \in Requests, Create(q) PROVE SettledInv'
  <2> DEFINE r == [at |-> "create", op |-> "create", id |-> rows + 1, was |-> "disconnected"]
  <2>1. rows + 1 \in Ids
    BY <1>2, NumbersAssumption DEF Create, Types, TableTypes, Ids
  <2>2. r \in RequestType /\ Staged(r) /\ r.op = "create"
    BY <2>1 DEF RequestType, Staged, Idle
  <2> HIDE DEF r
  <2>3. (\A p \in Requests \ {q} : req'[p] = req[p]) /\ req'[q] = r
    BY <1>2, <2>2, BeginFacts DEF Create, r, Types
  <2>4. UNCHANGED <<status, session, down, settled>>
    BY <1>2 DEF Create, gateway, check
  <2> QED
    BY <2>2, <2>3, <2>4 DEF SettledInv, NothingComing
<1>3. ASSUME NEW q \in Requests, Commit(q) PROVE SettledInv'
  <2>1. (\A p \in Requests \ {q} : req'[p] = req[p]) /\ req'[q] = Idle
    BY <1>3, LeaveFacts DEF Commit, Types
  <2>2. req[q].op = "create" /\ req[q].id \in Ids
    BY <1>3 DEF Commit, Types, RequestTypes, Staged, Idle, Polls
  <2>3. req[q].id \notin settled
    BY <2>2 DEF SettledInv, NothingComing, WelcomeInv, Creations, There
  <2>4. UNCHANGED <<session, down, settled>> /\ \A i \in Ids \ {req[q].id} : status'[i] = status[i]
    BY <1>3 DEF Commit, gateway, check, history, Types, TableTypes
  <2>5. settled \subseteq Ids
    BY DEF Types, HistoryTypes
  <2> QED
    BY <2>1, <2>3, <2>4, <2>5 DEF SettledInv, NothingComing, Idle
<1>4. ASSUME NEW q \in Requests, NEW k \in Ids, NEW op \in {"qr", "connect", "disconnect"}, Load(q, op, k)
      PROVE  SettledInv'
  <2> DEFINE r == [at |-> IF op = "connect" THEN "ask" ELSE op, op |-> op, id |-> k, was |-> status[k]]
  <2>0. status[k] \in {"absent", "disconnected", "connected"}
    BY DEF Types, TableTypes
  <2>1. r \in RequestType /\ Staged(r) /\ r.op = op /\ r.id = k
    BY <2>0 DEF RequestType, Staged, Polls
  <2> HIDE DEF r
  <2>2. (\A p \in Requests \ {q} : req'[p] = req[p]) /\ req'[q] = r
    BY <1>4, <2>1, BeginFacts DEF Load, r, Types
  <2>3. UNCHANGED <<status, session, down>> /\ settled' \subseteq settled
        /\ (op = "disconnect" => k \notin settled')
    BY <1>4 DEF Load, table, gateway, check, Polls
  <2> QED
    BY <2>1, <2>2, <2>3 DEF SettledInv, NothingComing
<1>5. ASSUME NEW q \in Requests, Mark(q) PROVE SettledInv'
  <2> DEFINE k == req[q].id
  <2>1. (\A p \in Requests \ {q} : req'[p] = req[p]) /\ req'[q] = Idle
    BY <1>5, LeaveFacts DEF Mark, Types
  <2>2. k \in Ids /\ UNCHANGED <<session, down>>
    BY <1>5 DEF Mark, Types, RequestTypes, Staged, Idle, gateway, check
  <2>3. /\ settled' = settled \/ (settled' = settled \cup {k} /\ Quiet(k) /\ status'[k] = "connected")
        /\ \A i \in Ids : status[i] = "connected" => status'[i] = "connected"
    BY <1>5, <2>2 DEF Mark, Types, TableTypes
  <2>4. settled \subseteq Ids
    BY DEF Types, HistoryTypes
  <2> QED
    BY <2>1, <2>2, <2>3, <2>4 DEF SettledInv, NothingComing, Quiet, Idle
<1>6. ASSUME NEW i \in Ids, TakeDown(i), i \notin settled, settled' = settled
      PROVE  \A j \in settled' : status[j] = "connected" => status'[j] = "connected"
  BY <1>6 DEF TakeDown, Types, TableTypes, HistoryTypes
<1>7. ASSUME NEW q \in Requests, Clear(q) PROVE SettledInv'
  <2>1. (\A p \in Requests \ {q} : req'[p] = req[p]) /\ req'[q] = Idle
    BY <1>7, LeaveFacts DEF Clear, Types
  <2>2. req[q].op = "disconnect" /\ req[q].id \in Ids
    BY <1>7 DEF Clear, Types, RequestTypes, Staged, Idle, Polls
  <2>3. req[q].id \notin settled /\ UNCHANGED <<session, down, settled>>
    BY <1>7, <2>2 DEF Clear, gateway, check, SettledInv, NothingComing
  <2>4. \A j \in settled' : status[j] = "connected" => status'[j] = "connected"
    BY <1>6, <1>7, <2>2, <2>3 DEF Clear
  <2> QED
    BY <2>1, <2>3, <2>4 DEF SettledInv, NothingComing, Idle
<1>8. ASSUME NEW i \in Ids, Delete(i) PROVE SettledInv'
  <2>1. UNCHANGED <<req, session, down>> /\ settled' = settled \ {i}
        /\ \A j \in Ids \ {i} : status'[j] = status[j]
    BY <1>8 DEF Delete, gateway, check, Types, TableTypes
  <2>2. settled \subseteq Ids
    BY DEF Types, HistoryTypes
  <2> QED
    BY <2>1, <2>2 DEF SettledInv, NothingComing
<1>9. CASE Move
  BY <1>9 DEF Move, Becomes, table, check, SettledInv, NothingComing
<1>10. CASE CheckWrite
  <2>1. down \in Ids /\ TakeDown(down) /\ UNCHANGED <<req, session, settled>> /\ down' = NoRow
    BY <1>10 DEF CheckWrite, gateway, Types, CheckTypes
  <2>2. down \notin settled
    BY DEF SettledInv, NothingComing
  <2>4. NoRow \notin settled
    BY DEF Types, HistoryTypes, NoRow, Ids
  <2>3. \A j \in settled' : status[j] = "connected" => status'[j] = "connected"
    BY <1>6, <2>1, <2>2
  <2> QED
    BY <2>1, <2>3, <2>4 DEF SettledInv, NothingComing
<1>11. ASSUME NEW i \in Ids, CheckAsk(i) PROVE SettledInv'
  <2>1. UNCHANGED <<req, status, session, settled>> /\ down' \in {down, NoRow, i}
        /\ (down' = i /\ down # i => session = "close")
    BY <1>11 DEF CheckAsk, Down, table, gateway, history, NoRow, Ids
  <2>2. NoRow \notin settled
    BY DEF Types, HistoryTypes, NoRow, Ids
  <2> QED
    BY <2>1, <2>2 DEF SettledInv, NothingComing
<1>12. ASSUME UNCHANGED <<req, status, session, settled>>, down' \in {down, NoRow} PROVE SettledInv'
  <2>1. NoRow \notin settled
    BY DEF Types, HistoryTypes, NoRow, Ids
  <2> QED
    BY <1>12, <2>1 DEF SettledInv, NothingComing
<1>13. CheckStart \/ Enforce \/ Restart \/ UNCHANGED vars =>
         UNCHANGED <<req, status, session, settled>> /\ down' \in {down, NoRow}
  BY DEF CheckStart, Enforce, Restart, vars, table, gateway, check, history
<1> QED
  BY <1>1, <1>2, <1>3, <1>4, <1>5, <1>7, <1>8, <1>9, <1>10, <1>11, <1>12, <1>13 DEF Next, Check

(* A number shown as connected stays so until the phone, a disconnect or a     *)
(* deletion ends it, for any rows, requests and failures.                   *)
THEOREM Stays == Spec => []ShownStays
<1>1. Init => SettledInv
  BY DEF Init, SettledInv
<1>2. SettledInv => ShownStays
  BY DEF SettledInv, NothingComing, ShownStays
<1> QED
  BY <1>1, <1>2, TypesAlways, WelcomesAlways, SettledInductive, PTL DEF Spec

-------------------------------------------------------------------------------
(* The webhook.  As long as every creation found no row and no request, all  *)
(* requests in progress are about the only row, and a creation is alone.    *)
LoneCreation ==
  \A q \in Requests : req[q].op = "create" =>
    /\ \A p \in Requests \ {q} : req[p] = Idle
    /\ \A i \in Ids : ~There(i)

LoneRow == \A i, j \in Ids : There(i) /\ There(j) => i = j

AboutIt ==
  \A q \in Requests, i \in Ids : req[q].op \in Polls \cup {"disconnect"} /\ There(i) => req[q].id = i

HookSet ==
  \A q \in Requests : req[q].at = "commit" => hook = [id |-> req[q].id, own |-> TRUE] /\ base = "configured"

HookInv == alone => LoneCreation /\ LoneRow /\ AboutIt /\ HookSet /\ WebhookAgrees

(* A request goes on or leaves; it gets to the commit by setting the webhook; *)
(* rows may go.                                                             *)
LEMMA HookMoves ==
  ASSUME Types, HookInv, NEW q \in Requests, req[q] # Idle, UNCHANGED <<secret, hook, base, alone>>,
         Leave(q) \/ \E place \in {"provision", "ask", "hook", "mark", "clear"} : Goto(q, place),
         \A i \in Ids : There(i)' => There(i) /\ (Paired(i) => Paired(i)')
  PROVE  HookInv'
<1>1. /\ \A p \in Requests \ {q} : req'[p] = req[p]
      /\ req'[q].op \in {req[q].op, "none"}
      /\ req'[q].op # "none" => req'[q].id = req[q].id
      /\ req'[q].at # "commit"
  <2>1. CASE Leave(q)
    BY <2>1, LeaveFacts DEF Types, Idle
  <2>2. CASE \E place \in {"provision", "ask", "hook", "mark", "clear"} : Goto(q, place)
    BY <2>2, GotoFacts DEF Types
  <2> QED
    BY <2>1, <2>2
<1> SUFFICES ASSUME alone PROVE (LoneCreation /\ LoneRow /\ AboutIt /\ HookSet /\ WebhookAgrees)'
  BY DEF HookInv
<1>2. LoneCreation /\ LoneRow /\ AboutIt /\ HookSet /\ WebhookAgrees
  BY DEF HookInv
<1>3. LoneCreation'
  <2> SUFFICES ASSUME NEW p \in Requests, req'[p].op = "create"
               PROVE  (\A s \in Requests \ {p} : req'[s] = Idle) /\ \A i \in Ids : ~There(i)'
    BY DEF LoneCreation
  <2>1. req[p].op = "create"
    BY <1>1
  <2>2. p = q
    BY <1>1, <1>2, <2>1 DEF LoneCreation
  <2> QED
    BY <1>1, <1>2, <2>1, <2>2 DEF LoneCreation
<1>4. LoneRow' /\ AboutIt'
  BY <1>1, <1>2 DEF LoneRow, AboutIt, Polls
<1>5. HookSet' /\ WebhookAgrees'
  BY <1>1, <1>2 DEF HookSet, WebhookAgrees
<1> QED
  BY <1>3, <1>4, <1>5

(* No request changes; rows may go. *)
LEMMA HookRows ==
  ASSUME Types, HookInv, UNCHANGED <<req, secret, hook, base, alone, welcomes>>,
         \A i \in Ids : There(i)' => There(i)
  PROVE  HookInv'
  BY DEF HookInv, LoneCreation, LoneRow, AboutIt, HookSet, WebhookAgrees, Paired

LEMMA TakeDownStays ==
  ASSUME Types, NEW k \in Ids, TakeDown(k) PROVE \A i \in Ids : There(i)' => There(i)
  BY DEF TakeDown, Types, TableTypes, There

LEMMA HookInductive == ASSUME Types, HookInv, [Next]_vars PROVE HookInv'
<1>1. ASSUME NEW q \in Requests, Create(q) PROVE HookInv'
  <2> SUFFICES ASSUME alone' PROVE (LoneCreation /\ LoneRow /\ AboutIt /\ HookSet /\ WebhookAgrees)'
    BY DEF HookInv
  <2> DEFINE r == [at |-> "create", op |-> "create", id |-> rows + 1, was |-> "disconnected"]
  <2>1. rows + 1 \in Ids
    BY <1>1, NumbersAssumption DEF Create, Types, TableTypes, Ids
  <2>2. r \in RequestType /\ Staged(r) /\ r.op = "create" /\ r.at = "create"
    BY <2>1 DEF RequestType, Staged, Idle
  <2> HIDE DEF r
  <2>3. (\A p \in Requests \ {q} : req'[p] = req[p]) /\ req'[q] = r
    BY <1>1, <2>2, BeginFacts DEF Create, r, Types
  <2>4. (\A i \in Ids : ~There(i)) /\ (\A p \in Requests : req[p] = Idle) /\ status' = status
    BY <1>1, <2>1 DEF Create
  <2>5. LoneCreation'
    BY <2>2, <2>3, <2>4 DEF LoneCreation, There, Idle
  <2>6. (LoneRow /\ AboutIt /\ WebhookAgrees)'
    BY <2>4 DEF LoneRow, AboutIt, WebhookAgrees, There
  <2>7. HookSet'
    BY <2>2, <2>3, <2>4 DEF HookSet, Idle
  <2> QED
    BY <2>5, <2>6, <2>7
<1>2. ASSUME NEW q \in Requests, Provision(q) PROVE HookInv'
  <2>1. req[q].op = "create" /\ req[q] # Idle /\ UNCHANGED <<status, secret, alone>>
    BY <1>2 DEF Provision, Types, RequestTypes, Staged, Idle, Polls, table, history
  <2>2. CASE Leave(q) /\ UNCHANGED <<hook, base>>
    <3>1. \A i \in Ids : There(i)' => There(i) /\ (Paired(i) => Paired(i)')
      <4>1. req[q].at # "mark" /\ UNCHANGED <<status, welcomes>> /\ \A p \in Requests \ {q} : req'[p] = req[p]
        BY <1>2, <2>2, LeaveFacts DEF Provision, Types, table, history
      <4> QED
        BY <4>1 DEF There, Paired
    <3> QED
      BY <2>1, <2>2, <3>1, HookMoves
  <2>3. CASE /\ hook' = [id |-> req[q].id, own |-> TRUE] /\ base' = "configured"
             /\ Goto(q, "commit") \/ Leave(q)
    <3> SUFFICES ASSUME alone PROVE (LoneCreation /\ LoneRow /\ AboutIt /\ HookSet /\ WebhookAgrees)'
      BY <2>1 DEF HookInv
    <3>1. (\A p \in Requests \ {q} : req[p] = Idle) /\ \A i \in Ids : ~There(i)
      BY <2>1 DEF HookInv, LoneCreation
    <3>2. /\ \A p \in Requests \ {q} : req'[p] = Idle
          /\ req'[q].at = "commit" => req'[q].id = req[q].id
      <4>1. CASE Goto(q, "commit")
        BY <3>1, <4>1, GotoFacts DEF Types
      <4>2. CASE Leave(q)
        BY <3>1, <4>2, LeaveFacts DEF Types, Idle
      <4> QED
        BY <2>3, <4>1, <4>2
    <3>3. LoneCreation'
      BY <2>1, <3>1, <3>2 DEF LoneCreation, There, Idle
    <3>4. (LoneRow /\ AboutIt /\ WebhookAgrees)'
      BY <2>1, <3>1 DEF LoneRow, AboutIt, WebhookAgrees, There
    <3>5. HookSet'
      <4> SUFFICES ASSUME NEW p \in Requests, req'[p].at = "commit"
                   PROVE  hook' = [id |-> req'[p].id, own |-> TRUE] /\ base' = "configured"
        BY DEF HookSet
      <4>1. p = q
        BY <3>2 DEF Idle
      <4> QED
        BY <2>3, <3>2, <4>1
    <3> QED
      BY <3>3, <3>4, <3>5
  <2> QED
    BY <1>2, <2>2, <2>3 DEF Provision
<1>3. ASSUME NEW q \in Requests, Commit(q) PROVE HookInv'
  <2>1. req[q].op = "create" /\ req[q].id \in Ids /\ UNCHANGED <<hook, base, alone>>
    BY <1>3 DEF Commit, Types, RequestTypes, Staged, Idle, Polls, gateway, history
  <2> SUFFICES ASSUME alone PROVE (LoneCreation /\ LoneRow /\ AboutIt /\ HookSet /\ WebhookAgrees)'
    BY <2>1 DEF HookInv
  <2>2. (\A p \in Requests \ {q} : req[p] = Idle) /\ \A i \in Ids : ~There(i)
    BY <2>1 DEF HookInv, LoneCreation
  <2>3. \A p \in Requests : req'[p] = Idle
    BY <1>3, <2>2, LeaveFacts DEF Commit, Types
  <2>4. \A i \in Ids : There(i)' => i = req[q].id
    BY <1>3, <2>1, <2>2 DEF Commit, There, Types, TableTypes
  <2>5. hook' = [id |-> req[q].id, own |-> TRUE] /\ base' = "configured"
    BY <1>3, <2>1 DEF Commit, HookInv, HookSet
  <2>6. (LoneCreation /\ AboutIt /\ HookSet)'
    BY <2>3 DEF LoneCreation, AboutIt, HookSet, Idle, Polls
  <2>7. (LoneRow /\ WebhookAgrees)'
    BY <2>4, <2>5 DEF LoneRow, WebhookAgrees
  <2> QED
    BY <2>6, <2>7
<1>4. ASSUME NEW q \in Requests, NEW k \in Ids, NEW op \in {"qr", "connect", "disconnect"}, Load(q, op, k)
      PROVE  HookInv'
  <2> DEFINE r == [at |-> IF op = "connect" THEN "ask" ELSE op, op |-> op, id |-> k, was |-> status[k]]
  <2>0. status[k] \in {"absent", "disconnected", "connected"}
    BY DEF Types, TableTypes
  <2>1. r \in RequestType /\ Staged(r) /\ r.op = op /\ r.id = k /\ r.at # "commit"
    BY <2>0 DEF RequestType, Staged, Polls
  <2> HIDE DEF r
  <2>2. (\A p \in Requests \ {q} : req'[p] = req[p]) /\ req'[q] = r
    BY <1>4, <2>1, BeginFacts DEF Load, r, Types
  <2>3. UNCHANGED <<status, secret, hook, base, alone, welcomes>> /\ There(k) /\ req[q] = Idle
    BY <1>4 DEF Load, Begin, table, gateway
  <2> SUFFICES ASSUME alone PROVE (LoneCreation /\ LoneRow /\ AboutIt /\ HookSet /\ WebhookAgrees)'
    BY <2>3 DEF HookInv
  <2>4. LoneCreation /\ LoneRow /\ AboutIt /\ HookSet /\ WebhookAgrees
    BY DEF HookInv
  <2>5. LoneCreation'
    BY <2>1, <2>2, <2>3, <2>4 DEF LoneCreation
  <2>6. AboutIt'
    BY <2>1, <2>2, <2>3, <2>4 DEF AboutIt, LoneRow, There
  <2>7. (LoneRow /\ HookSet)'
    BY <2>1, <2>2, <2>3, <2>4 DEF LoneRow, HookSet, There
  <2>8. WebhookAgrees'
    <3>1. \A i \in Ids : Paired(i) => Paired(i)'
      BY <2>2, <2>3 DEF Paired, Idle
    <3> QED
      BY <2>3, <2>4, <3>1 DEF WebhookAgrees, There
  <2> QED
    BY <2>5, <2>6, <2>7, <2>8
<1>5. ASSUME NEW q \in Requests, SetHook(q) PROVE HookInv'
  <2>1. req[q].op \in Polls /\ UNCHANGED <<status, secret, alone>>
    BY <1>5 DEF SetHook, Types, RequestTypes, Staged, Idle, table, history
  <2> SUFFICES ASSUME alone PROVE (LoneCreation /\ LoneRow /\ AboutIt /\ HookSet /\ WebhookAgrees)'
    BY <2>1 DEF HookInv
  <2>2. LoneCreation /\ LoneRow /\ AboutIt /\ HookSet /\ WebhookAgrees
    BY DEF HookInv
  <2>3. /\ \A p \in Requests \ {q} : req'[p] = req[p]
        /\ req'[q].op = req[q].op /\ req'[q].id = req[q].id /\ req'[q].at = "mark"
    BY <1>5, GotoFacts DEF SetHook, Types
  <2>4. req[q].op # "create" /\ req[q] # Idle
    BY <1>5, <2>1 DEF Polls, SetHook, Idle
  <2>5. \A p \in Requests : req[p].op # "create"
    BY <2>2, <2>4 DEF LoneCreation
  <2>6. \A p \in Requests : req'[p].at # "commit" /\ req'[p].op # "create"
    <3> SUFFICES ASSUME NEW p \in Requests, p # q PROVE req[p].at # "commit"
      BY <2>3, <2>4, <2>5
    <3> QED
      BY <2>5 DEF Types, RequestTypes, Staged, Idle, Polls
  <2>7. (LoneCreation /\ HookSet)'
    BY <2>6 DEF LoneCreation, HookSet
  <2>8. (LoneRow /\ AboutIt)'
    BY <2>1, <2>2, <2>3 DEF LoneRow, AboutIt, There
  <2>9. WebhookAgrees'
    <3> SUFFICES ASSUME NEW i \in Ids, There(i), secret[i]
                 PROVE  hook' = [id |-> i, own |-> TRUE] /\ (base' = "configured" \/ Paired(i)')
      BY <2>1 DEF WebhookAgrees, There
    <3>1. hook = [id |-> i, own |-> TRUE] /\ req[q].id = i
      BY <2>1, <2>2 DEF WebhookAgrees, AboutIt
    <3>2. secret[i] = TRUE
      BY DEF Types, TableTypes
    <3>3. Paired(i)'
      BY <2>3, <3>1 DEF Paired
    <3> QED
      BY <1>5, <3>1, <3>2, <3>3 DEF SetHook
  <2> QED
    BY <2>7, <2>8, <2>9
<1>6. ASSUME NEW q \in Requests,
             CreateInstance(q) \/ ShowQR(q) \/ Ask(q) \/ Logout(q) \/ Mark(q) \/ Clear(q)
      PROVE  HookInv'
  <2>1. Leave(q) \/ \E place \in {"provision", "ask", "hook", "mark", "clear"} : Goto(q, place)
    BY <1>6 DEF CreateInstance, ShowQR, Ask, Logout, Mark, Clear
  <2>2. UNCHANGED <<secret, hook, base, alone>>
    BY <1>6 DEF CreateInstance, ShowQR, Ask, Logout, Mark, Clear, table, gateway
  <2>3. \A i \in Ids : There(i)' => There(i)
    <3>1. CASE UNCHANGED status
      BY <3>1 DEF There
    <3>2. CASE Mark(q)
      BY <3>2 DEF Mark, There, Types, TableTypes
    <3>3. CASE Clear(q)
      <4>1. req[q].id \in Ids
        BY <3>3 DEF Clear, Types, RequestTypes, Staged, Idle
      <4> QED
        BY <3>1, <3>3, <4>1, TakeDownStays DEF Clear
    <3> QED
      BY <1>6, <3>1, <3>2, <3>3 DEF CreateInstance, ShowQR, Ask, Logout, table
  <2>4. req[q] # Idle
    BY <1>6 DEF CreateInstance, ShowQR, Ask, Logout, Mark, Clear, Idle
  <2>5. ASSUME NEW i \in Ids, There(i)', Paired(i) PROVE Paired(i)'
    <3>1. \A p \in Requests \ {q} : req'[p] = req[p]
      BY <2>1, LeaveFacts, GotoFacts DEF Types
    <3>2. CASE Mark(q)
      <4>1. /\ There(req[q].id) /\ req[q].id \in Ids => welcomes' = [welcomes EXCEPT ![req[q].id] = @ + 1]
            /\ ~There(req[q].id) => welcomes' = welcomes
        BY <3>2 DEF Mark
      <4>2. req[q].id \in Ids /\ welcomes \in [Ids -> Nat] /\ There(i)
        BY <2>3, <2>5, <3>2 DEF Mark, Types, RequestTypes, Staged, Idle, HistoryTypes
      <4>3. CASE req[q].id = i
        <5>1. welcomes'[i] = welcomes[i] + 1 /\ welcomes[i] \in Nat
          BY <4>1, <4>2, <4>3
        <5> QED
          BY <5>1 DEF Paired
      <4>4. CASE req[q].id # i
        <5>1. welcomes'[i] = welcomes[i]
          BY <4>1, <4>2, <4>4
        <5> QED
          BY <2>5, <3>1, <4>4, <5>1 DEF Paired
      <4> QED
        BY <4>3, <4>4
    <3>3. CASE ~Mark(q)
      <4>1. req[q].at # "mark" /\ welcomes' = welcomes
        BY <1>6, <3>3 DEF CreateInstance, ShowQR, Ask, Logout, Clear, history
      <4> QED
        BY <2>5, <3>1, <4>1 DEF Paired
    <3> QED
      BY <3>2, <3>3
  <2> QED
    BY <2>1, <2>2, <2>3, <2>4, <2>5, HookMoves
<1>7. ASSUME NEW i \in Ids, Delete(i) PROVE HookInv'
  <2>1. UNCHANGED <<req, secret, hook, base, alone, welcomes>> /\ \A j \in Ids : There(j)' => There(j)
    BY <1>7 DEF Delete, gateway, There, Types, TableTypes
  <2> QED
    BY <2>1, HookRows
<1>8. CASE CheckWrite
  <2>1. down \in Ids /\ TakeDown(down) /\ UNCHANGED <<req, secret, hook, base, alone, welcomes>>
    BY <1>8 DEF CheckWrite, gateway, Types, CheckTypes
  <2> QED
    BY <2>1, TakeDownStays, HookRows
<1>9. Move \/ CheckStart \/ Enforce \/ Restart \/ UNCHANGED vars \/ (\E i \in Ids : CheckAsk(i)) =>
        UNCHANGED <<req, status, secret, hook, base, alone, welcomes>>
  BY DEF Move, CheckStart, Enforce, Restart, CheckAsk, vars, table, gateway, history
<1>10. ASSUME UNCHANGED <<req, status, secret, hook, base, alone, welcomes>> PROVE HookInv'
  BY <1>10, HookRows DEF There
<1> QED
  BY <1>1, <1>2, <1>3, <1>4, <1>5, <1>6, <1>7, <1>8, <1>9, <1>10 DEF Next, Check

(* The webhook of a phone's only row names that row and carries its token, for
   any sequence of requests and failures that creates no row beside another; its
   host is the configured one until a poll finds the phone paired. *)
THEOREM HookAgrees == Spec => []WebhookAgrees
<1>1. Init => HookInv
  <2> SUFFICES ASSUME Init PROVE HookInv
    OBVIOUS
  <2>1. \A q \in Requests : req[q].op = "none" /\ req[q].at = "idle"
    BY DEF Init, Idle
  <2>2. \A i \in Ids : secret[i] = FALSE /\ (There(i) => i <= rows) /\ rows \in {0, 1}
    BY DEF Init, There
  <2>3. \A i, j \in Ids : There(i) /\ There(j) => i = j
    BY <2>2, NumbersAssumption DEF Ids
  <2> QED
    BY <2>1, <2>2, <2>3 DEF HookInv, LoneCreation, LoneRow, AboutIt, HookSet, WebhookAgrees, Polls
<1>2. HookInv => WebhookAgrees
  BY DEF HookInv, WebhookAgrees
<1> QED
  BY <1>1, <1>2, TypesAlways, HookInductive, PTL DEF Spec
===============================================================================
