------------------------------- MODULE Learning -------------------------------
(***************************************************************************)
(* Learnings: the analysis of closed conversations (_daily_learning of     *)
(* services/scheduler/main.py, run by the scheduler and, in a process of   *)
(* its own, by POST /v1/learnings/analyze), the review of its suggestions  *)
(* (approve, reject, snooze) and the edits of the skill they go into       *)
(* (update_skill of services/api/main.py).                                 *)
(*                                                                         *)
(* A learning is <<conversation, run>>.  A text of the skill is the set of *)
(* requests that wrote into it: an approval appends to the text it read,   *)
(* an edit sends back the text its page showed, with a change.             *)
(***************************************************************************)
EXTENDS Naturals, Sequences

CONSTANTS
  Runs,        \* calls of _daily_learning
  Processes,   \* operating-system processes they run in
  ProcessOf,   \* [Runs -> Processes]
  Convs,       \* conversations with human messages, bot, skill and provider
  FieldOf,     \* [Convs -> Fields \cup {NoField}]: suggestion_type of its analysis
  Fields,      \* texts of the skill: playbook_md, guardrails_md
  NoField,     \* no_action, or an empty suggestion
  Requests     \* API requests of reviewers and skill editors

ASSUME LearningAssumption ==
  /\ ProcessOf \in [Runs -> Processes]
  /\ FieldOf \in [Convs -> Fields \cup {NoField}]
  /\ NoField \notin Fields

VARIABLES
  closed,     \* conversations whose state is closed
  rows,       \* the learnings table
  run,        \* run[r]: "new", "busy", "asked", "broken", "ended"
  todo,       \* todo[r]: candidates not looked at yet
  cur,        \* cur[r]: the candidate whose analysis was asked for
  enforced,   \* processes that imported cante.tenant, whose hooks are installed
  overlaps,   \* history: sets of two runs that were busy at a time
  text,       \* text[f]: committed text of the skill
  versions,   \* skill_versions: <<number, request>>
  req,        \* req[q]: what the request holds in memory
  log         \* history: requests in the order they committed a text

analysis == <<closed, rows, run, todo, cur, enforced, overlaps>>
skill == <<text, versions, log>>
vars == <<analysis, skill, req>>

Learnings == Convs \X Runs
Busy(r) == run[r] \in {"busy", "asked", "broken"}

NewRequest ==
  [at |-> "new", kind |-> "none", on |-> {}, base |-> [f \in Fields |-> {}],
   sets |-> {}, version |-> 0, seen |-> 0]

Init ==
  /\ closed = {} /\ rows = {} /\ enforced = {} /\ overlaps = {}
  /\ run = [r \in Runs |-> "new"]
  /\ todo = [r \in Runs |-> {}]
  /\ cur = [r \in Runs |-> {}]
  /\ text = [f \in Fields |-> {}]
  /\ versions = {} /\ log = <<>>
  /\ req = [q \in Requests |-> NewRequest]

-------------------------------------------------------------------------------
(* close_conv: one more conversation to analyse. *)
Close(c) ==
  /\ c \notin closed
  /\ closed' = closed \cup {c}
  /\ UNCHANGED <<rows, run, todo, cur, enforced, overlaps, skill, req>>

Candidates == {c \in closed : \A r \in Runs : <<c, r>> \notin rows}

(* Wrong: every closed conversation is a candidate. *)
StartAll(r) ==
  /\ run[r] = "new"
  /\ run' = [run EXCEPT ![r] = "busy"]
  /\ todo' = [todo EXCEPT ![r] = closed]
  /\ overlaps' = overlaps \cup {{r, s} : s \in {t \in Runs : Busy(t)}}
  /\ UNCHANGED <<closed, rows, cur, enforced, skill, req>>

(* The SELECT of the candidates (at most 50); it raises in an enforced       *)
(* process.  APScheduler runs a job of a process one at a time.            *)
Start(r) ==
  /\ run[r] = "new"
  /\ \A s \in Runs : ProcessOf[s] = ProcessOf[r] => ~Busy(s)
  /\ IF ProcessOf[r] \in enforced
       THEN /\ run' = [run EXCEPT ![r] = "ended"]
            /\ UNCHANGED <<todo, overlaps>>
       ELSE /\ run' = [run EXCEPT ![r] = "busy"]
            /\ todo' = [todo EXCEPT ![r] = Candidates]
            /\ overlaps' = overlaps \cup {{r, s} : s \in {t \in Runs : Busy(t)}}
  /\ UNCHANGED <<closed, rows, cur, enforced, skill, req>>

(* The next candidate is looked at.  An exception, which in an enforced      *)
(* process is the first read, rolls back and expires every loaded row: with *)
(* the candidate after it the run breaks off, in the handler itself.       *)
Look(r, c) ==
  /\ c \in todo[r] /\ run[r] \in {"busy", "broken"}
  /\ todo' = [todo EXCEPT ![r] = @ \ {c}]
  /\ \/ run[r] = "broken" /\ run' = [run EXCEPT ![r] = "ended"] /\ UNCHANGED cur
     \/ run[r] = "busy" /\ run' = [run EXCEPT ![r] = "broken"] /\ UNCHANGED cur
     \/ /\ run[r] = "busy" /\ ProcessOf[r] \notin enforced
        /\ \/ UNCHANGED <<run, cur>>         \* no API key, LLM failure, bad JSON
           \/ run' = [run EXCEPT ![r] = "asked"] /\ cur' = [cur EXCEPT ![r] = {c}]
  /\ UNCHANGED <<closed, rows, enforced, overlaps, skill, req>>

(* The LLM answered: import of cante.tenant, INSERT, commit. *)
Insert(r) ==
  /\ run[r] = "asked"
  /\ enforced' = enforced \cup {ProcessOf[r]}
  /\ cur' = [cur EXCEPT ![r] = {}]
  /\ \/ /\ rows' = rows \cup {<<c, r>> : c \in cur[r]}
        /\ run' = [run EXCEPT ![r] = "busy"]
     \/ run' = [run EXCEPT ![r] = "broken"] /\ UNCHANGED rows
  /\ UNCHANGED <<closed, todo, overlaps, skill, req>>

End(r) ==
  /\ run[r] \in {"busy", "broken"} /\ todo[r] = {}
  /\ run' = [run EXCEPT ![r] = "ended"]
  /\ UNCHANGED <<closed, rows, todo, cur, enforced, overlaps, skill, req>>

-------------------------------------------------------------------------------
(* load_owned of a review; a rejected or snoozed learning is declined: that   *)
(* writes the learning's own columns and the audit row only.               *)
Load(q, l) ==
  /\ req[q].at = "new" /\ l \in rows
  /\ \E k \in {"approved", "declined"} :
       req' = [req EXCEPT ![q] = [@ EXCEPT !.at = "loaded", !.kind = k, !.on = {l},
                 !.sets = IF k = "approved" THEN {FieldOf[l[1]]} \ {NoField} ELSE {}]]
  /\ UNCHANGED <<analysis, skill>>

(* Row locks last from the flush of an UPDATE to the commit: an approval     *)
(* flushes its learning when it goes on to read the skill, an edit the      *)
(* skill when it goes on to read the versions.                             *)
LearningFree(q) == \A p \in Requests \ {q} : req[p].at = "ready" => req[p].on \cap req[q].on = {}

(* Wrong: nothing is flushed before the commit, so there is no lock to wait for. *)
SkillUnlocked(q) == TRUE

SkillFree(q) == \A p \in Requests \ {q} : req[p].at = "ready" /\ req[p].kind = "edit" => req[p].sets = {}

(* An approval reads the skill its suggestion goes into. *)
ReadSkill(q) ==
  /\ req[q].at = "loaded" /\ req[q].kind = "approved" /\ req[q].sets # {}
  /\ LearningFree(q)
  /\ req' = [req EXCEPT ![q] = [@ EXCEPT !.at = "ready", !.base = text, !.seen = Len(log)]]
  /\ UNCHANGED <<analysis, skill>>

(* The editor's page shows the skill; the editor changes the texts F. *)
Open(q, F) ==
  /\ req[q].at = "new"
  /\ req' = [req EXCEPT ![q] = [@ EXCEPT !.at = "loaded", !.kind = "edit",
               !.sets = F, !.base = text, !.seen = Len(log)]]
  /\ UNCHANGED <<analysis, skill>>

MaxVersion == CHOOSE n \in {0} \cup {v[1] : v \in versions} : \A v \in versions : v[1] <= n

(* update_skill up to the SELECT of the highest version. *)
Flush(q) ==
  /\ req[q].at = "loaded" /\ req[q].kind = "edit"
  /\ req[q].sets # {} => SkillFree(q)
  /\ req' = [req EXCEPT ![q] = [@ EXCEPT !.at = "ready", !.version = MaxVersion + 1]]
  /\ UNCHANGED <<analysis, skill>>

(* Wrong: an approval sets the text instead of appending to it. *)
WritesAfresh(q) == [f \in Fields |-> IF f \in req[q].sets THEN {q} ELSE text[f]]

Writes(q) == [f \in Fields |-> IF f \in req[q].sets THEN req[q].base[f] \cup {q} ELSE text[f]]

Finish(q) == req' = [req EXCEPT ![q] = [@ EXCEPT !.at = "done"]]

(* The commit.  An approval always has an UPDATE of its learning (applied_at);  *)
(* a refusal of what was refused already has none, and waits for no lock.   *)
Commit(q) ==
  /\ \/ req[q].at = "ready"
     \/ req[q].at = "loaded" /\ req[q].kind # "edit" /\ req[q].sets = {}
  /\ req[q].sets # {} => SkillFree(q)
  /\ req[q].kind = "approved" => LearningFree(q)
  /\ Finish(q)
  /\ text' = Writes(q)
  /\ log' = IF req[q].sets = {} THEN log ELSE Append(log, q)
  /\ versions' = IF req[q].kind = "edit" THEN versions \cup {<<req[q].version, q>>} ELSE versions
  /\ UNCHANGED analysis

(* The request raises; its transaction is rolled back. *)
Fail(q) ==
  /\ req[q].at \in {"loaded", "ready"}
  /\ Finish(q)
  /\ UNCHANGED <<analysis, skill>>

Analysis == (\E c \in Convs : Close(c)) \/ \E r \in Runs : Start(r) \/ Insert(r) \/ End(r) \/ \E c \in Convs : Look(r, c)

Review(q) ==
  \/ ReadSkill(q) \/ Flush(q) \/ Commit(q) \/ Fail(q)
  \/ \E l \in Learnings : Load(q, l)
  \/ \E F \in SUBSET Fields : Open(q, F)

Next == Analysis \/ \E q \in Requests : Review(q)

Spec == Init /\ [][Next]_vars

-------------------------------------------------------------------------------
RequestType ==
  [at : {"new", "loaded", "ready", "done"}, kind : {"none", "approved", "declined", "edit"},
   on : SUBSET Learnings, base : [Fields -> SUBSET Requests], sets : SUBSET Fields, version : Nat, seen : Nat]

TypeOK ==
  /\ closed \subseteq Convs /\ rows \subseteq Learnings
  /\ run \in [Runs -> {"new", "busy", "asked", "broken", "ended"}]
  /\ todo \in [Runs -> SUBSET Convs] /\ cur \in [Runs -> SUBSET Convs]
  /\ enforced \subseteq Processes /\ overlaps \subseteq SUBSET Runs
  /\ text \in [Fields -> SUBSET Requests]
  /\ versions \subseteq Nat \X Requests
  /\ req \in [Requests -> RequestType]
  /\ log \in Seq(Requests)

(* "Each conversation is analyzed at most once" (docstring of              *)
(* _daily_learning): two learnings of a conversation come from two runs that *)
(* were busy at the same time, since candidates are selected once per run   *)
(* and nothing is checked at the insert.                                   *)
AnalysedOnce ==
  \A c \in Convs, r, s \in Runs :
    <<c, r>> \in rows /\ <<c, s>> \in rows /\ r # s => {r, s} \in overlaps

(* What an approval or an edit wrote into a text of the skill is there, unless *)
(* a request that had read the text before that commit committed after it:   *)
(* approve_learning and update_skill write whole columns back.             *)
AppliedUnlessOverwritten ==
  \A i \in DOMAIN log : \A f \in req[log[i]].sets :
    \/ log[i] \in text[f]
    \/ \E j \in DOMAIN log : i < j /\ req[log[j]].seen < i /\ f \in req[log[j]].sets

(* Two edits that change the skill get different version numbers: max + 1 is *)
(* read while the row lock of the skill is held.                           *)
VersionsDistinct ==
  \A v, w \in versions :
    v[1] = w[1] /\ req[v[2]].sets # {} /\ req[w[2]].sets # {} => v = w
===============================================================================
