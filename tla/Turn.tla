--------------------------------- MODULE Turn ---------------------------------
(***************************************************************************)
(* What process() of services/worker/main.py does between the route and    *)
(* the publication, for the messages of one conversation: the language,    *)
(* the history, the reply of the agent loop (AgentLoop), the guards and the *)
(* one regeneration.  Around it, operators send messages of their own and  *)
(* edit the contact (update_contact of services/api/main.py).              *)
(*                                                                         *)
(* Attempts at messages overlap as they like: a trigger and a message of    *)
(* one conversation take locks of different names, and a lock may lapse    *)
(* (Worker).  An attempt may break off anywhere; another at the same       *)
(* message, if the queue delivers it again, is an attempt of its own.      *)
(***************************************************************************)
EXTENDS Naturals, Sequences

CONSTANTS
  Attempts,        \* calls of process, each made once
  Texts,           \* texts of messages, as detect_language and ScopeGuard see them
  PhoneLangs,      \* what the phone's country code may tell: languages or NoLang
  NoLang,          \* no language, no value of an attribute
  Replies,         \* what run_agent_loop may return
  HumanTexts,      \* texts of operators, perhaps an empty one
  OutPolicy,       \* scope.out_policy of the skill
  Window,          \* limit of _load_history (8)
  Values,          \* values an operator gives to attributes
  Edits,           \* requests update_contact
  MaxHuman         \* bound: messages of operators

Keys == {"preferred_language", "note"}
TextType == [br : BOOLEAN, eu : BOOLEAN, pt : Nat, en : Nat, es : Nat, scope : BOOLEAN]

ASSUME TurnAssumption ==
  /\ MaxHuman \in Nat /\ Window \in Nat \ {0}
  /\ Texts \subseteq TextType /\ "" \notin Replies

VARIABLES
  phone,      \* language of the phone's country code
  rows,       \* Message rows: [dir, body, how, lang, read, known, seen]
  attrs,      \* Contact.attributes
  log,        \* history: commits of attributes: [by, key, value, seen]
  edit,       \* edit[q]: what update_contact holds in memory
  run,        \* run[a]: the await attempt a is at, and its locals
  human       \* messages of operators

vars == <<phone, rows, attrs, log, edit, run, human>>

Unset == [k \in Keys |-> NoLang]
NoEdit == [at |-> "new", base |-> Unset, key |-> "note", value |-> NoLang, seen |-> 0]

(* An attempt's locals: the text, the attributes it read and how many commits *)
(* it saw, the language of its prompt and the commits when the contact had  *)
(* that, the rows when it loaded the history, the reply and its origin.    *)
NoText == [br |-> FALSE, eu |-> FALSE, pt |-> 0, en |-> 0, es |-> 0, scope |-> TRUE]
NoRun ==
  [at |-> "new", text |-> NoText, base |-> Unset, seen |-> 0, lang |-> NoLang, known |-> 0,
   loaded |-> 0, reply |-> "", how |-> "first"]

Init ==
  /\ phone \in PhoneLangs
  /\ rows = <<>> /\ attrs = Unset /\ log = <<>>
  /\ edit = [q \in Edits |-> NoEdit] /\ run = [a \in Attempts |-> NoRun] /\ human = 0

(* process ends, by its last line or an exception: its locals are gone. *)
Leave(a) == run' = [run EXCEPT ![a] = [NoRun EXCEPT !.at = "done"]]

-------------------------------------------------------------------------------
(* detect_language: markers of a variant first, else the first language     *)
(* with the most markers, of which it takes two.                           *)
Detected(t) ==
  IF t.br THEN "pt-BR"
  ELSE IF t.eu THEN "pt-PT"
  ELSE IF t.pt >= t.en /\ t.pt >= t.es THEN (IF t.pt >= 2 THEN "pt-PT" ELSE NoLang)
  ELSE IF t.en >= t.es THEN (IF t.en >= 2 THEN "en" ELSE NoLang)
  ELSE IF t.es >= 2 THEN "es" ELSE NoLang

(* lang.split("-")[0] *)
Stem(l) == IF l \in {"pt-PT", "pt-BR"} THEN "pt" ELSE l

(* _resolve_language without a stored preference: the text decides unless it *)
(* tells nothing or the language of the phone, whose variant then holds.   *)
Resolved(t) ==
  LET told == Detected(t) IN
    IF phone # NoLang /\ (told = NoLang \/ Stem(told) = Stem(phone)) THEN phone ELSE told

(* A row of _persist_message, and what its attempt knew. *)
Inbound == [dir |-> "in", body |-> "", how |-> "user", lang |-> NoLang, read |-> 0, known |-> 0, seen |-> 0]
Outbound(a, b) ==
  [dir |-> "out", body |-> b, how |-> run[a].how, lang |-> run[a].lang,
   read |-> run[a].seen, known |-> run[a].known, seen |-> run[a].loaded]

(* An attempt at a message: _persist_message(conv, "in"). *)
PersistInbound(a) ==
  /\ run[a].at = "new"
  /\ \E t \in Texts : run' = [run EXCEPT ![a] = [@ EXCEPT !.at = "language", !.text = t]]
  /\ rows' = Append(rows, Inbound)
  /\ UNCHANGED <<phone, attrs, log, edit, human>>

(* _resolve_language: the SELECT of the contact. *)
ResolveLanguage(a) ==
  /\ run[a].at = "language"
  /\ LET stored == attrs["preferred_language"]
         told == IF stored # NoLang THEN stored ELSE Resolved(run[a].text) IN
       run' = [run EXCEPT ![a] = [@ EXCEPT
         !.at = IF told # stored THEN "save" ELSE "history",
         !.base = attrs, !.seen = Len(log), !.lang = told, !.known = Len(log)]]
  /\ UNCHANGED <<phone, rows, attrs, log, edit, human>>

(* Wrong: the language is saved in the conversation only. *)
SaveInConversation(a) ==
  /\ run[a].at = "save"
  /\ run' = [run EXCEPT ![a] = [@ EXCEPT !.at = "history", !.known = Len(log)]]
  /\ UNCHANGED <<phone, rows, attrs, log, edit, human>>

(* _resolve_language: the whole column is written, as read before. *)
SaveLanguage(a) ==
  /\ run[a].at = "save"
  /\ attrs' = [run[a].base EXCEPT !["preferred_language"] = run[a].lang]
  /\ log' = Append(log,
       [by |-> "worker", key |-> "preferred_language", value |-> run[a].lang, seen |-> run[a].seen])
  /\ run' = [run EXCEPT ![a] = [@ EXCEPT !.at = "history", !.known = Len(log) + 1]]
  /\ UNCHANGED <<phone, rows, edit, human>>

(* _load_history: the newest rows, the current message among them unless     *)
(* others wrote many since.                                                *)
LoadHistory(a) ==
  /\ run[a].at = "history"
  /\ run' = [run EXCEPT ![a] = [@ EXCEPT !.at = "ask", !.loaded = Len(rows)]]
  /\ UNCHANGED <<phone, rows, attrs, log, edit, human>>

InWindow(n) == {i \in 1..n : i + Window > n}

(* Wrong: the oldest one. *)
FirstOutbound(n) ==
  LET out == {i \in InWindow(n) : rows[i].dir = "out"} IN
    IF out = {} THEN "" ELSE rows[CHOOSE i \in out : \A j \in out : j >= i].body

(* The body of the newest outbound row of the window, an operator's too,     *)
(* when n rows were there.                                                 *)
LastOutbound(n) ==
  LET out == {i \in InWindow(n) : rows[i].dir = "out"} IN
    IF out = {} THEN "" ELSE rows[CHOOSE i \in out : \A j \in out : j <= i].body

(* ScopeGuard and DedupGuard: the actions of those that reply b did not pass. *)
Fired(a, b) ==
  (IF run[a].text.scope THEN {} ELSE {OutPolicy})
  \cup (IF LastOutbound(run[a].loaded) # "" /\ b = LastOutbound(run[a].loaded) THEN {"regenerate"} ELSE {})

(* run_agent_loop, then the guard pipeline on its reply: an escalation's      *)
(* reason is the reply in the end, and at most one regeneration follows.   *)
Answer(a) ==
  /\ run[a].at = "ask"
  /\ \E b \in Replies : run' = [run EXCEPT ![a] = [@ EXCEPT
       !.at = IF "regenerate" \in Fired(a, b) THEN "again" ELSE "persist",
       !.reply = b,
       !.how = IF "escalate" \in Fired(a, b) THEN "reason"
               ELSE IF "regenerate" \in Fired(a, b) THEN "again" ELSE "first"]]
  /\ UNCHANGED <<phone, rows, attrs, log, edit, human>>

(* run_agent_loop once more: no guard sees its reply. *)
Regenerate(a) ==
  /\ run[a].at = "again"
  /\ \E b \in Replies : run' = [run EXCEPT ![a] = [@ EXCEPT !.at = "persist", !.reply = b]]
  /\ UNCHANGED <<phone, rows, attrs, log, edit, human>>

(* _persist_message(conv, "out"); what follows touches no row.  *)
PersistOutbound(a) ==
  /\ run[a].at = "persist" /\ Leave(a)
  /\ rows' = Append(rows,
       Outbound(a, IF run[a].how = "reason" THEN "user_intent_out_of_scope" ELSE run[a].reply))
  /\ UNCHANGED <<phone, attrs, log, edit, human>>

(* A call to the database or Redis raises or the worker dies. *)
BreakOff(a) ==
  /\ run[a].at \notin {"new", "done"} /\ Leave(a)
  /\ UNCHANGED <<phone, rows, attrs, log, edit, human>>

-------------------------------------------------------------------------------
(* send_as_human: the row. *)
SendAsHuman ==
  /\ human < MaxHuman /\ human' = human + 1
  /\ \E b \in HumanTexts : rows' = Append(rows, [Inbound EXCEPT !.dir = "out", !.body = b, !.how = "human"])
  /\ UNCHANGED <<phone, attrs, log, edit, run>>

(* update_contact: load_owned, with an attribute to set. *)
LoadContact(q) ==
  /\ edit[q].at = "new"
  /\ \E k \in Keys, v \in Values : edit' = [edit EXCEPT ![q] =
       [at |-> "loaded", base |-> attrs, key |-> k, value |-> v, seen |-> Len(log)]]
  /\ UNCHANGED <<phone, rows, attrs, log, run, human>>

(* Wrong: the attributes sent replace all others. *)
Replaced(q) == [Unset EXCEPT ![edit[q].key] = edit[q].value]

(* {**c.attributes, **data.attributes} *)
Merged(q) == [edit[q].base EXCEPT ![edit[q].key] = edit[q].value]

(* update_contact: the commit, with an UPDATE if the merge changed anything. *)
UpdateContact(q) ==
  /\ edit[q].at = "loaded"
  /\ edit' = [edit EXCEPT ![q] = [@ EXCEPT !.at = "done"]]
  /\ IF Merged(q) = edit[q].base THEN UNCHANGED <<attrs, log>>
     ELSE /\ attrs' = Merged(q)
          /\ log' = Append(log, [by |-> "edit", key |-> edit[q].key, value |-> edit[q].value, seen |-> edit[q].seen])
  /\ UNCHANGED <<phone, rows, run, human>>

Process(a) ==
  \/ PersistInbound(a) \/ ResolveLanguage(a) \/ SaveLanguage(a) \/ LoadHistory(a)
  \/ Answer(a) \/ Regenerate(a) \/ PersistOutbound(a)

Next ==
  \/ \E a \in Attempts : Process(a) \/ BreakOff(a)
  \/ SendAsHuman
  \/ \E q \in Edits : LoadContact(q) \/ UpdateContact(q)

Spec == Init /\ [][Next]_vars

-------------------------------------------------------------------------------
TypeOK ==
  /\ phone \in PhoneLangs /\ human \in 0..MaxHuman
  /\ \A a \in Attempts :
       /\ run[a].at \in {"new", "language", "save", "history", "ask", "again", "persist", "done"}
       /\ run[a].seen \in 0..Len(log) /\ run[a].known \in 0..Len(log)
       /\ run[a].loaded \in 0..Len(rows) /\ run[a].how \in {"first", "again", "reason"}
  /\ \A q \in Edits : edit[q].at \in {"new", "loaded", "done"} /\ edit[q].seen \in 0..Len(log)

(* "Never send two identical messages in a row" (DedupGuard): a first reply  *)
(* repeats the outbound message before it only if that one was committed    *)
(* after the history was loaded, or the history's window had passed it.    *)
NoRepeats ==
  \A j \in DOMAIN rows : rows[j].how = "first" =>
    \A i \in 1..(j - 1) :
      /\ rows[i].dir = "out" /\ rows[i].body = rows[j].body
      /\ \A k \in (i + 1)..(j - 1) : rows[k].dir = "in"
      => i > rows[j].seen \/ i + Window <= rows[j].seen

(* preferred_language is "sticky across conversations": a later reply has    *)
(* another language than an earlier one only if its attempt read the       *)
(* contact before the earlier one's language was stored there (the two     *)
(* overlapped), or if in between an operator's edit was saved, or the      *)
(* column as some attempt had read it before.                              *)
LanguageSticks ==
  \A i, j \in DOMAIN rows :
    i < j /\ rows[i].lang # NoLang /\ rows[j].how \in {"first", "again", "reason"} =>
      \/ rows[j].lang = rows[i].lang
      \/ rows[j].read < rows[i].known
      \/ \E n \in (rows[i].known + 1)..rows[j].read : log[n].by = "edit" \/ log[n].seen < rows[i].known

(* An attribute that was written is there until it is written again, but for *)
(* writers that had read the contact before: both write the whole column.   *)
AttributesKept ==
  \A i \in DOMAIN log :
    \/ attrs[log[i].key] = log[i].value
    \/ \E j \in DOMAIN log : i < j /\ (log[j].key = log[i].key \/ log[j].seen < i)
===============================================================================
