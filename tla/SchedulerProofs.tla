---------------------------- MODULE SchedulerProofs ----------------------------
(* Theorems about what services/scheduler/main.py does: about Learning, for *)
(* any runs, processes, conversations, texts and requests; and about Leader, *)
(* for any processes, TTL, delays, stops and losses.                       *)
EXTENDS Learning, Leader, TLAPS

AnalysisTypes ==
  /\ closed \subseteq Convs /\ rows \subseteq Learnings
  /\ run \in [Runs -> {"new", "busy", "asked", "broken", "ended"}]
  /\ todo \in [Runs -> SUBSET Convs] /\ cur \in [Runs -> SUBSET Convs]
  /\ enforced \subseteq Processes /\ overlaps \subseteq SUBSET Runs

SkillTypes ==
  /\ text \in [Fields -> SUBSET Requests]
  /\ versions \subseteq Nat \X Requests
  /\ log \in Seq(Requests)

(* The highest version number exists (versions is finite, step by step). *)
HasMax == \E n \in Nat : n \in {0} \cup {v[1] : v \in versions} /\ \A v \in versions : v[1] <= n

(* Only a review holds a learning. *)
Held(x) ==
  /\ x.at = "new" => x.on = {}
  /\ x.on # {} => x.kind \in {"approved", "declined"}

RequestTypes == req \in [Requests -> RequestType] /\ \A q \in Requests : Held(req[q])

Types == AnalysisTypes /\ SkillTypes /\ RequestTypes /\ HasMax

LEMMA MaxVersionBound ==
  ASSUME SkillTypes, HasMax
  PROVE  MaxVersion \in Nat /\ \A v \in versions : v[1] <= MaxVersion
<1> PICK n \in Nat : n \in {0} \cup {v[1] : v \in versions} /\ \A v \in versions : v[1] <= n
  BY DEF HasMax
<1>1. MaxVersion \in {0} \cup {v[1] : v \in versions} /\ \A v \in versions : v[1] <= MaxVersion
  BY DEF MaxVersion
<1> QED
  BY <1>1 DEF SkillTypes

-------------------------------------------------------------------------------
LEMMA CloseTypes == ASSUME Types, NEW c \in Convs, Close(c) PROVE Types'
<1>1. AnalysisTypes'
  BY DEF Close, Types, AnalysisTypes
<1> QED
  BY <1>1 DEF Close, skill, Types, SkillTypes, RequestTypes, HasMax

LEMMA StartTypes == ASSUME Types, NEW r \in Runs, Start(r) PROVE Types'
<1>1. Candidates \subseteq Convs
  BY DEF Types, AnalysisTypes, Candidates
<1>2. {{r, s} : s \in {t \in Runs : Busy(t)}} \subseteq SUBSET Runs
  OBVIOUS
<1>3. AnalysisTypes'
  BY <1>1, <1>2 DEF Start, Types, AnalysisTypes
<1> QED
  BY <1>3 DEF Start, skill, Types, SkillTypes, RequestTypes, HasMax

LEMMA LookTypes == ASSUME Types, NEW r \in Runs, NEW c \in Convs, Look(r, c) PROVE Types'
<1>1. AnalysisTypes'
  BY DEF Look, Types, AnalysisTypes
<1> QED
  BY <1>1 DEF Look, skill, Types, SkillTypes, RequestTypes, HasMax

LEMMA InsertTypes == ASSUME Types, NEW r \in Runs, Insert(r) PROVE Types'
<1>1. ProcessOf[r] \in Processes
  BY LearningAssumption
<1>2. {<<c, r>> : c \in cur[r]} \subseteq Learnings
  BY DEF Types, AnalysisTypes, Learnings
<1>3. AnalysisTypes'
  BY <1>1, <1>2 DEF Insert, Types, AnalysisTypes
<1> QED
  BY <1>3 DEF Insert, skill, Types, SkillTypes, RequestTypes, HasMax

LEMMA EndTypes == ASSUME Types, NEW r \in Runs, End(r) PROVE Types'
<1>1. AnalysisTypes'
  BY DEF End, Types, AnalysisTypes
<1> QED
  BY <1>1 DEF End, skill, Types, SkillTypes, RequestTypes, HasMax

(* A request that only changes what it holds in memory. *)
LEMMA ReqTypes ==
  ASSUME Types, UNCHANGED <<analysis, skill>>,
         NEW q \in Requests, NEW x \in RequestType, Held(x), req' = [req EXCEPT ![q] = x]
  PROVE  Types'
<1>1. RequestTypes'
  BY DEF Types, RequestTypes
<1> QED
  BY <1>1 DEF analysis, skill, Types, AnalysisTypes, SkillTypes, RequestTypes, HasMax

LEMMA LoadTypes ==
  ASSUME Types, NEW q \in Requests, NEW l \in Learnings, Load(q, l) PROVE Types'
<1>0. req[q] \in RequestType
  BY DEF Types, RequestTypes
<1>1. {FieldOf[l[1]]} \ {NoField} \in SUBSET Fields
  BY LearningAssumption DEF Learnings
<1>2. PICK k \in {"approved", "declined"} :
        req' = [req EXCEPT ![q] = [req[q] EXCEPT !.at = "loaded", !.kind = k, !.on = {l},
                 !.sets = IF k = "approved" THEN {FieldOf[l[1]]} \ {NoField} ELSE {}]]
  BY DEF Load
<1>3. [req[q] EXCEPT !.at = "loaded", !.kind = k, !.on = {l},
         !.sets = IF k = "approved" THEN {FieldOf[l[1]]} \ {NoField} ELSE {}] \in RequestType
  BY <1>0, <1>1 DEF RequestType
<1>4. Held([req[q] EXCEPT !.at = "loaded", !.kind = k, !.on = {l},
             !.sets = IF k = "approved" THEN {FieldOf[l[1]]} \ {NoField} ELSE {}])
  BY <1>0 DEF Held, RequestType
<1> QED
  BY <1>2, <1>3, <1>4, ReqTypes DEF Load

LEMMA ReadSkillTypes == ASSUME Types, NEW q \in Requests, ReadSkill(q) PROVE Types'
<1>0. req[q] \in RequestType /\ Held(req[q]) /\ text \in [Fields -> SUBSET Requests] /\ Len(log) \in Nat
  BY DEF Types, RequestTypes, SkillTypes
<1>1. [req[q] EXCEPT !.at = "ready", !.base = text, !.seen = Len(log)] \in RequestType
  BY <1>0 DEF RequestType
<1>2. Held([req[q] EXCEPT !.at = "ready", !.base = text, !.seen = Len(log)])
  BY <1>0 DEF Held, RequestType
<1> QED
  BY <1>1, <1>2, ReqTypes DEF ReadSkill

LEMMA OpenTypes ==
  ASSUME Types, NEW q \in Requests, NEW F \in SUBSET Fields, Open(q, F) PROVE Types'
<1>0. req[q] \in RequestType /\ Held(req[q]) /\ text \in [Fields -> SUBSET Requests] /\ Len(log) \in Nat
  BY DEF Types, RequestTypes, SkillTypes
<1>1. [req[q] EXCEPT !.at = "loaded", !.kind = "edit", !.sets = F, !.base = text, !.seen = Len(log)]
        \in RequestType
  BY <1>0 DEF RequestType
<1>2. Held([req[q] EXCEPT !.at = "loaded", !.kind = "edit", !.sets = F, !.base = text, !.seen = Len(log)])
  BY <1>0 DEF Held, RequestType, Open
<1> QED
  BY <1>1, <1>2, ReqTypes DEF Open

LEMMA FlushTypes == ASSUME Types, NEW q \in Requests, Flush(q) PROVE Types'
<1>0. req[q] \in RequestType /\ Held(req[q]) /\ MaxVersion + 1 \in Nat
  BY MaxVersionBound DEF Types, RequestTypes
<1>1. [req[q] EXCEPT !.at = "ready", !.version = MaxVersion + 1] \in RequestType
  BY <1>0 DEF RequestType
<1>2. Held([req[q] EXCEPT !.at = "ready", !.version = MaxVersion + 1])
  BY <1>0 DEF Held, RequestType
<1> QED
  BY <1>1, <1>2, ReqTypes DEF Flush

LEMMA FinishType ==
  ASSUME Types, NEW q \in Requests
  PROVE  [req[q] EXCEPT !.at = "done"] \in RequestType /\ Held([req[q] EXCEPT !.at = "done"])
<1>0. req[q] \in RequestType /\ Held(req[q])
  BY DEF Types, RequestTypes
<1> QED
  BY <1>0 DEF RequestType, Held

LEMMA FailTypes == ASSUME Types, NEW q \in Requests, Fail(q) PROVE Types'
  BY FinishType, ReqTypes DEF Fail, Finish

LEMMA CommitTypes == ASSUME Types, NEW q \in Requests, Commit(q) PROVE Types'
<1>0. req[q] \in RequestType /\ Held(req[q])
  BY DEF Types, RequestTypes
<1>1. RequestTypes'
  BY FinishType DEF Commit, Finish, Types, RequestTypes
<1>2. AnalysisTypes'
  BY DEF Commit, analysis, Types, AnalysisTypes
<1>3. text' \in [Fields -> SUBSET Requests]
  BY <1>0 DEF Commit, Writes, Types, SkillTypes, RequestType
<1>4. log' \in Seq(Requests)
  BY DEF Commit, Types, SkillTypes
<1>5. versions' \subseteq Nat \X Requests
  BY <1>0 DEF Commit, Types, SkillTypes, RequestType
<1>6. HasMax'
  <2>1. CASE versions' = versions
    BY <2>1 DEF HasMax, Types
  <2>2. CASE versions' = versions \cup {<<req[q].version, q>>}
    <3>1. PICK n \in Nat : n \in {0} \cup {v[1] : v \in versions} /\ \A v \in versions : v[1] <= n
      BY DEF HasMax, Types
    <3>2. req[q].version \in Nat /\ \A v \in versions : v[1] \in Nat
      BY <1>0 DEF RequestType, Types, SkillTypes
    <3> DEFINE big == IF req[q].version > n THEN req[q].version ELSE n
    <3>3. big \in Nat /\ \A v \in versions' : v[1] <= big
      BY <2>2, <3>1, <3>2
    <3>4. big \in {0} \cup {v[1] : v \in versions'}
      <4>1. <<req[q].version, q>>[1] = req[q].version /\ <<req[q].version, q>> \in versions'
        BY <2>2
      <4>2. {v[1] : v \in versions} \subseteq {v[1] : v \in versions'}
        BY <2>2
      <4> QED
        BY <3>1, <4>1, <4>2
    <3> QED
      BY <3>3, <3>4 DEF HasMax
  <2> QED
    BY <2>1, <2>2 DEF Commit
<1> QED
  BY <1>1, <1>2, <1>3, <1>4, <1>5, <1>6 DEF Types, SkillTypes

LEMMA TypesInductive == ASSUME Types, [Next]_vars PROVE Types'
<1>1. CASE Analysis
  BY <1>1, CloseTypes, StartTypes, LookTypes, InsertTypes, EndTypes DEF Analysis
<1>2. ASSUME NEW q \in Requests, Review(q) PROVE Types'
  BY <1>2, LoadTypes, ReadSkillTypes, OpenTypes, FlushTypes, CommitTypes, FailTypes DEF Review
<1>3. CASE UNCHANGED vars
  BY <1>3 DEF vars, analysis, skill, Types, AnalysisTypes, SkillTypes, RequestTypes, HasMax
<1> QED
  BY <1>1, <1>2, <1>3 DEF Next

LEMMA TypesAlways == Spec => []Types
<1>1. Init => Types
  BY DEF Init, Types, AnalysisTypes, SkillTypes, RequestTypes, HasMax, RequestType,
         Held, NewRequest
<1> QED
  BY <1>1, TypesInductive, PTL DEF Spec

(* Types of Learning, for any runs and requests. *)
THEOREM TypeCorrect == Spec => []TypeOK
<1>1. Types => TypeOK
  BY DEF Types, AnalysisTypes, SkillTypes, RequestTypes, TypeOK
<1> QED
  BY <1>1, TypesAlways, PTL

-------------------------------------------------------------------------------
(* Two runs that are busy at a time overlap; what a run may still insert is  *)
(* about a conversation that only runs it overlaps with have inserted.       *)
BusyOverlap == \A r, s \in Runs : r # s /\ Busy(r) /\ Busy(s) => {r, s} \in overlaps

CurAsked == \A r \in Runs : cur[r] # {} => run[r] = "asked"

UnseenInserts ==
  \A r, s \in Runs, c \in Convs :
    Busy(r) /\ c \in todo[r] \cup cur[r] /\ <<c, s>> \in rows /\ s # r => {r, s} \in overlaps

RunsInv == BusyOverlap /\ CurAsked /\ UnseenInserts /\ AnalysedOnce

LEMMA QuietRuns == ASSUME RunsInv, UNCHANGED <<rows, run, todo, cur, overlaps>> PROVE RunsInv'
  BY DEF RunsInv, BusyOverlap, CurAsked, UnseenInserts, AnalysedOnce, Busy

LEMMA StartRuns == ASSUME Types, RunsInv, NEW r \in Runs, Start(r) PROVE RunsInv'
<1>0. run[r] = "new" /\ cur[r] = {} /\ cur' = cur /\ rows' = rows
  BY DEF Start, RunsInv, CurAsked
<1>1. /\ overlaps \subseteq overlaps'
      /\ \A s \in Runs : Busy(s) /\ Busy(r)' => {r, s} \in overlaps'
      /\ \A s \in Runs \ {r} : run'[s] = run[s] /\ todo'[s] = todo[s]
      /\ Busy(r)' => todo'[r] = Candidates
      /\ run'[r] \in {"busy", "ended"}
  BY DEF Start, Types, AnalysisTypes, Busy
<1>2. BusyOverlap'
  <2> SUFFICES ASSUME NEW s \in Runs, NEW t \in Runs, s # t, Busy(s)', Busy(t)'
               PROVE  {s, t} \in overlaps'
    BY DEF BusyOverlap
  <2>1. CASE s = r
    BY <1>1, <2>1 DEF Busy
  <2>2. CASE t = r
    <3>1. {r, s} \in overlaps'
      BY <1>1, <2>2 DEF Busy
    <3>2. {s, t} = {r, s}
      BY <2>2
    <3> QED
      BY <3>1, <3>2
  <2>3. CASE s # r /\ t # r
    BY <1>1, <2>3 DEF RunsInv, BusyOverlap, Busy
  <2> QED
    BY <2>1, <2>2, <2>3
<1>3. CurAsked'
  BY <1>0, <1>1 DEF RunsInv, CurAsked
<1>4. UnseenInserts'
  <2> SUFFICES ASSUME NEW t \in Runs, NEW s \in Runs, NEW c \in Convs, Busy(t)',
                      c \in todo'[t] \cup cur'[t], <<c, s>> \in rows', s # t
               PROVE  {t, s} \in overlaps'
    BY DEF UnseenInserts
  <2>1. CASE t = r
    BY <1>0, <1>1, <2>1 DEF Candidates
  <2>2. CASE t # r
    BY <1>0, <1>1, <2>2 DEF RunsInv, UnseenInserts, Busy
  <2> QED
    BY <2>1, <2>2
<1>5. AnalysedOnce'
  BY <1>0, <1>1 DEF RunsInv, AnalysedOnce
<1> QED
  BY <1>2, <1>3, <1>4, <1>5 DEF RunsInv

LEMMA LookRuns == ASSUME Types, RunsInv, NEW r \in Runs, NEW c \in Convs, Look(r, c) PROVE RunsInv'
<1>0. /\ Busy(r) /\ run[r] # "asked" /\ cur[r] = {}
      /\ rows' = rows /\ overlaps' = overlaps
      /\ \A s \in Runs \ {r} : run'[s] = run[s] /\ todo'[s] = todo[s] /\ cur'[s] = cur[s]
      /\ todo'[r] \subseteq todo[r]
      /\ cur'[r] # {} => run'[r] = "asked" /\ cur'[r] \subseteq todo[r]
  BY DEF Look, Types, AnalysisTypes, Busy, RunsInv, CurAsked
<1>1. \A s \in Runs : Busy(s)' => Busy(s)
  BY <1>0 DEF Busy
<1>2. \A s \in Runs : todo'[s] \cup cur'[s] \subseteq todo[s] \cup cur[s]
  BY <1>0
<1>3. BusyOverlap' /\ CurAsked'
  BY <1>0, <1>1 DEF RunsInv, BusyOverlap, CurAsked
<1>4. UnseenInserts' /\ AnalysedOnce'
  BY <1>0, <1>1, <1>2 DEF RunsInv, UnseenInserts, AnalysedOnce
<1> QED
  BY <1>3, <1>4 DEF RunsInv

LEMMA InsertRuns == ASSUME Types, RunsInv, NEW r \in Runs, Insert(r) PROVE RunsInv'
<1>0. /\ Busy(r) /\ run'[r] \in {"busy", "broken"}
      /\ cur'[r] = {} /\ overlaps' = overlaps /\ todo' = todo
      /\ \A s \in Runs \ {r} : run'[s] = run[s] /\ cur'[s] = cur[s]
  BY DEF Insert, Types, AnalysisTypes, Busy
<1>1. \A c \in Convs, s \in Runs : <<c, s>> \in rows' => <<c, s>> \in rows \/ (s = r /\ c \in cur[r])
  BY DEF Insert
<1>2. \A s \in Runs : Busy(s)' => Busy(s)
  BY <1>0 DEF Busy
<1>3. \A s \in Runs : todo'[s] \cup cur'[s] \subseteq todo[s] \cup cur[s]
  BY <1>0
<1>4. BusyOverlap' /\ CurAsked'
  BY <1>0, <1>2 DEF RunsInv, BusyOverlap, CurAsked
<1>5. UnseenInserts'
  <2> SUFFICES ASSUME NEW t \in Runs, NEW s \in Runs, NEW c \in Convs, Busy(t)',
                      c \in todo'[t] \cup cur'[t], <<c, s>> \in rows', s # t
               PROVE  {t, s} \in overlaps
    BY <1>0 DEF UnseenInserts
  <2>1. Busy(t) /\ c \in todo[t] \cup cur[t]
    BY <1>2, <1>3
  <2>2. CASE <<c, s>> \in rows
    BY <2>1, <2>2 DEF RunsInv, UnseenInserts
  <2>3. CASE s = r
    BY <1>0, <2>1, <2>3 DEF RunsInv, BusyOverlap
  <2> QED
    BY <1>1, <2>2, <2>3
<1>6. AnalysedOnce'
  <2> SUFFICES ASSUME NEW c \in Convs, NEW s \in Runs, NEW t \in Runs,
                      <<c, s>> \in rows', <<c, t>> \in rows', s # t
               PROVE  {s, t} \in overlaps
    BY <1>0 DEF AnalysedOnce
  <2>1. CASE <<c, s>> \in rows /\ <<c, t>> \in rows
    BY <2>1 DEF RunsInv, AnalysedOnce
  <2>2. CASE s = r /\ c \in cur[r] /\ <<c, t>> \in rows
    BY <1>0, <2>2 DEF RunsInv, UnseenInserts
  <2>3. CASE t = r /\ c \in cur[r] /\ <<c, s>> \in rows
    <3>1. {r, s} \in overlaps
      BY <1>0, <2>3 DEF RunsInv, UnseenInserts
    <3>2. {s, t} = {r, s}
      BY <2>3
    <3> QED
      BY <3>1, <3>2
  <2> QED
    BY <1>1, <2>1, <2>2, <2>3
<1> QED
  BY <1>4, <1>5, <1>6 DEF RunsInv

LEMMA EndRuns == ASSUME Types, RunsInv, NEW r \in Runs, End(r) PROVE RunsInv'
<1>0. /\ rows' = rows /\ overlaps' = overlaps /\ todo' = todo /\ cur' = cur /\ cur[r] = {}
      /\ \A s \in Runs \ {r} : run'[s] = run[s]
      /\ run'[r] = "ended"
  BY DEF End, Types, AnalysisTypes, RunsInv, CurAsked
<1>1. \A s \in Runs : Busy(s)' => Busy(s)
  BY <1>0 DEF Busy
<1>2. BusyOverlap' /\ CurAsked'
  BY <1>0, <1>1 DEF RunsInv, BusyOverlap, CurAsked
<1> QED
  BY <1>0, <1>1, <1>2 DEF RunsInv, UnseenInserts, AnalysedOnce

LEMMA ReviewQuiet == ASSUME NEW q \in Requests, Review(q) PROVE UNCHANGED analysis
  BY DEF Review, ReadSkill, Flush, Commit, Fail, Load, Open

LEMMA RunsInductive == ASSUME Types, RunsInv, [Next]_vars PROVE RunsInv'
<1>1. ASSUME NEW c \in Convs, Close(c) PROVE RunsInv'
  BY <1>1, QuietRuns DEF Close
<1>2. ASSUME NEW q \in Requests, Review(q) PROVE RunsInv'
  BY <1>2, ReviewQuiet, QuietRuns DEF analysis
<1>3. CASE UNCHANGED vars
  BY <1>3, QuietRuns DEF vars, analysis
<1> QED
  BY <1>1, <1>2, <1>3, StartRuns, LookRuns, InsertRuns, EndRuns DEF Next, Analysis

(* Only runs that overlapped learn from one conversation twice, for any runs *)
(* and processes, failures and tenant hooks included.                        *)
THEOREM AtMostOnce == Spec => []AnalysedOnce
<1>1. Init => RunsInv
  BY DEF Init, RunsInv, BusyOverlap, CurAsked, UnseenInserts, AnalysedOnce, Busy
<1>2. RunsInv => AnalysedOnce
  BY DEF RunsInv
<1> QED
  BY <1>1, <1>2, TypesAlways, RunsInductive, PTL DEF Spec

-------------------------------------------------------------------------------
(* The texts.  A text T in which everything of the first n commits is        *)
(* present or was written over by a request that had not seen it: the       *)
(* committed text is such a text, and so is what every request has read.    *)
Keeps(T, n) ==
  \A i \in 1..n : \A f \in req[log[i]].sets :
    log[i] \in T[f] \/ \E j \in 1..n : i < j /\ req[log[j]].seen < i /\ f \in req[log[j]].sets

LogDone == \A i \in 1..Len(log) : req[log[i]].at = "done"

TextInv ==
  /\ LogDone
  /\ Keeps(text, Len(log))
  /\ \A q \in Requests : req[q].seen <= Len(log) /\ Keeps(req[q].base, req[q].seen)

(* A request that is not done is not in the log: what it holds changes no      *)
(* Keeps.                                                                   *)
LEMMA KeepsStays ==
  ASSUME Types, LogDone, NEW q \in Requests, req[q].at # "done", log' = log,
         \A p \in Requests \ {q} : req'[p] = req[p],
         NEW T, NEW n \in 0..Len(log), Keeps(T, n)
  PROVE  Keeps(T, n)'
<1>1. \A i \in 1..Len(log) : log[i] \in Requests /\ log[i] # q
  BY DEF Types, SkillTypes, LogDone
<1>2. \A i \in 1..n : log'[i] = log[i] /\ req'[log[i]] = req[log[i]]
  BY <1>1 DEF Types, SkillTypes
<1> QED
  BY <1>2 DEF Keeps

(* One request changes what it holds in memory. *)
LEMMA HoldsText ==
  ASSUME Types, TextInv, NEW q \in Requests, req[q].at # "done", UNCHANGED <<text, log>>,
         NEW x \in RequestType, req' = [req EXCEPT ![q] = x],
         \/ x.seen = req[q].seen /\ x.base = req[q].base
         \/ x.seen = Len(log) /\ x.base = text
  PROVE  TextInv'
<1>1. /\ \A p \in Requests \ {q} : req'[p] = req[p]
      /\ req'[q] = x /\ log' = log /\ text' = text /\ Len(log) \in Nat
      /\ \A p \in Requests : req[p].seen \in Nat
  BY DEF Types, RequestTypes, RequestType, SkillTypes
<1>2. ASSUME NEW T, NEW n \in 0..Len(log), Keeps(T, n) PROVE Keeps(T, n)'
  BY <1>1, <1>2, KeepsStays DEF TextInv
<1>3. LogDone'
  BY <1>1 DEF TextInv, LogDone, Types, SkillTypes
<1>4. Keeps(text, Len(log))'
  <2>1. PICK T : T = text
    OBVIOUS
  <2>2. PICK n : n = Len(log)
    OBVIOUS
  <2>3. Keeps(T, n)'
    BY <1>1, <1>2, <2>1, <2>2 DEF TextInv
  <2> QED
    BY <1>1, <2>1, <2>2, <2>3 DEF Keeps
<1>5. ASSUME NEW p \in Requests
      PROVE  (req[p].seen <= Len(log) /\ Keeps(req[p].base, req[p].seen))'
  <2>1. PICK T : T = req'[p].base
    OBVIOUS
  <2>2. PICK n : n = req'[p].seen
    OBVIOUS
  <2>3. n \in 0..Len(log) /\ Keeps(T, n)
    <3>1. CASE p = q /\ n = Len(log) /\ T = text
      BY <1>1, <3>1 DEF TextInv
    <3>2. CASE n = req[p].seen /\ T = req[p].base
      BY <1>1, <3>2 DEF TextInv
    <3> QED
      BY <1>1, <2>1, <2>2, <3>1, <3>2
  <2>4. Keeps(T, n)'
    BY <1>2, <2>3
  <2>5. (req[p].seen <= Len(log))'
    BY <1>1, <2>2, <2>3
  <2>6. Keeps(req[p].base, req[p].seen)'
    BY <2>1, <2>2, <2>4 DEF Keeps
  <2> QED
    BY <2>5, <2>6 DEF Keeps
<1> QED
  BY <1>3, <1>4, <1>5 DEF TextInv

(* A commit appends to the log. *)
LEMMA CommitText == ASSUME Types, TextInv, NEW q \in Requests, Commit(q) PROVE TextInv'
<1>0. /\ req[q] \in RequestType /\ Len(log) \in Nat /\ log \in Seq(Requests)
      /\ text \in [Fields -> SUBSET Requests]
      /\ \A p \in Requests : req[p] \in RequestType /\ req[p].seen \in Nat
  BY DEF Types, RequestTypes, RequestType, SkillTypes
<1>1. \A p \in Requests : /\ req'[p].seen = req[p].seen /\ req'[p].base = req[p].base
                          /\ req'[p].sets = req[p].sets
                          /\ p # q => req'[p] = req[p]
  BY <1>0 DEF Commit, Finish, Types, RequestTypes, RequestType
<1>2. req'[q].at = "done"
  BY <1>0 DEF Commit, Finish, Types, RequestTypes, RequestType
<1>3. \A i \in 1..Len(log) : log[i] \in Requests /\ log'[i] = log[i]
  BY <1>0 DEF Commit
<1>4. /\ Len(log') \in Nat /\ Len(log) <= Len(log') /\ Len(log') <= Len(log) + 1
      /\ \A i \in 1..Len(log') : i > Len(log) => log'[i] = q /\ Len(log') = Len(log) + 1
      /\ req[q].sets # {} => Len(log') = Len(log) + 1 /\ log'[Len(log) + 1] = q
  BY <1>0 DEF Commit
<1>5. LogDone'
  <2> SUFFICES ASSUME NEW i \in 1..Len(log') PROVE req'[log'[i]].at = "done"
    BY DEF LogDone
  <2>1. CASE i > Len(log)
    BY <1>2, <1>4, <2>1
  <2>2. CASE ~(i > Len(log))
    <3>1. i \in 1..Len(log)
      BY <1>0, <1>4, <2>2
    <3>2. log'[i] = log[i] /\ log[i] \in Requests /\ req[log[i]].at = "done"
      BY <1>3, <3>1 DEF TextInv, LogDone
    <3> QED
      BY <1>1, <1>2, <3>2
  <2> QED
    BY <2>1, <2>2
<1>6. ASSUME NEW p \in Requests
      PROVE  (req[p].seen <= Len(log) /\ Keeps(req[p].base, req[p].seen))'
  <2>1. req[p].seen \in 0..Len(log) /\ Keeps(req[p].base, req[p].seen)
    BY <1>0 DEF TextInv
  <2>2. \A i \in 1..req[p].seen : /\ log[i] \in Requests /\ log'[i] = log[i]
                                  /\ req'[log[i]].sets = req[log[i]].sets
                                  /\ req'[log[i]].seen = req[log[i]].seen
    BY <1>0, <1>1, <1>3, <2>1
  <2>3. req'[p].seen = req[p].seen /\ req'[p].base = req[p].base
    BY <1>1
  <2>4. (req[p].seen <= Len(log))'
    BY <1>0, <1>4, <2>1, <2>3
  <2>5. ASSUME NEW i \in 1..req'[p].seen, NEW f \in req'[log'[i]].sets
        PROVE  \/ log'[i] \in req'[p].base[f]
               \/ \E j \in 1..req'[p].seen : i < j /\ req'[log'[j]].seen < i /\ f \in req'[log'[j]].sets
    <3>1. i \in 1..req[p].seen /\ log'[i] = log[i] /\ f \in req[log[i]].sets
      BY <2>2, <2>3, <2>5
    <3>2. \/ log[i] \in req[p].base[f]
          \/ \E j \in 1..req[p].seen : i < j /\ req[log[j]].seen < i /\ f \in req[log[j]].sets
      BY <2>1, <3>1 DEF Keeps
    <3> QED
      BY <2>2, <2>3, <3>1, <3>2
  <2>6. Keeps(req[p].base, req[p].seen)'
    BY <2>5 DEF Keeps
  <2> QED
    BY <2>4, <2>6 DEF Keeps
<1>7. Keeps(text, Len(log))'
  <2> SUFFICES ASSUME NEW i \in 1..Len(log'), NEW f \in req'[log'[i]].sets
               PROVE  \/ log'[i] \in text'[f]
                      \/ \E j \in 1..Len(log') : i < j /\ req'[log'[j]].seen < i /\ f \in req'[log'[j]].sets
    BY DEF Keeps
  <2>1. CASE i > Len(log)
    <3>1. log'[i] = q /\ f \in req[q].sets /\ req[q].sets \subseteq Fields
      BY <1>0, <1>1, <1>4, <2>1 DEF RequestType
    <3> QED
      BY <3>1 DEF Commit, Writes
  <2>2. CASE ~(i > Len(log))
    <3>0. i \in 1..Len(log)
      BY <1>0, <1>4, <2>2
    <3>1. log'[i] = log[i] /\ log[i] \in Requests /\ f \in req[log[i]].sets
      BY <1>1, <1>3, <3>0
    <3>2. f \in Fields
      BY <1>0, <3>1 DEF RequestType
    <3>3. ASSUME NEW j \in 1..Len(log), i < j, req[log[j]].seen < i, f \in req[log[j]].sets
          PROVE  \E k \in 1..Len(log') : i < k /\ req'[log'[k]].seen < i /\ f \in req'[log'[k]].sets
      <4>1. log'[j] = log[j] /\ log[j] \in Requests /\ j \in 1..Len(log')
        BY <1>3, <1>4, <1>0
      <4>2. req'[log'[j]].seen < i /\ f \in req'[log'[j]].sets
        BY <1>1, <3>3, <4>1
      <4> QED
        BY <3>3, <4>1, <4>2
    <3>4. CASE f \notin req[q].sets
      <4>1. text'[f] = text[f]
        BY <3>2, <3>4 DEF Commit, Writes
      <4>2. log[i] \in text[f] \/ \E j \in 1..Len(log) : i < j /\ req[log[j]].seen < i /\ f \in req[log[j]].sets
        BY <3>0, <3>1 DEF TextInv, Keeps
      <4> QED
        BY <3>1, <3>3, <4>1, <4>2
    <3>5. CASE f \in req[q].sets /\ i <= req[q].seen
      <4>1. text'[f] = req[q].base[f] \cup {q}
        BY <3>2, <3>5 DEF Commit, Writes
      <4>2. i \in 1..req[q].seen /\ req[q].seen <= Len(log)
        BY <1>0, <3>0, <3>5 DEF TextInv
      <4>3. \/ log[i] \in req[q].base[f]
            \/ \E j \in 1..req[q].seen : i < j /\ req[log[j]].seen < i /\ f \in req[log[j]].sets
        BY <3>1, <4>2 DEF TextInv, Keeps
      <4>4. \/ log[i] \in req[q].base[f]
            \/ \E j \in 1..Len(log) : i < j /\ req[log[j]].seen < i /\ f \in req[log[j]].sets
        BY <1>0, <4>2, <4>3
      <4> QED
        BY <3>1, <3>3, <4>1, <4>4
    <3>6. CASE f \in req[q].sets /\ ~(i <= req[q].seen)
      <4>1. Len(log') = Len(log) + 1 /\ log'[Len(log) + 1] = q
        BY <1>4, <3>6
      <4>2. req'[q].seen < i /\ f \in req'[q].sets /\ i < Len(log) + 1
        BY <1>0, <1>1, <3>0, <3>6
      <4>3. Len(log) + 1 \in 1..Len(log')
        BY <1>0, <4>1
      <4> QED
        BY <4>1, <4>2, <4>3
    <3> QED
      BY <3>4, <3>5, <3>6
  <2> QED
    BY <2>1, <2>2
<1> QED
  BY <1>5, <1>6, <1>7 DEF TextInv

(* Every other step of a request changes only what it holds: the same texts,   *)
(* or the committed ones.                                                   *)
LEMMA ReviewHolds ==
  ASSUME Types, NEW q \in Requests, Review(q), ~Commit(q)
  PROVE  /\ UNCHANGED <<analysis, skill>> /\ req[q].at # "done"
         /\ \E x \in RequestType :
              /\ req' = [req EXCEPT ![q] = x]
              /\ \/ x.seen = req[q].seen /\ x.base = req[q].base
                 \/ x.seen = Len(log) /\ x.base = text
              /\ x.at = "ready" /\ x.kind = "edit" =>
                   /\ x.version = MaxVersion + 1 /\ (x.sets # {} => SkillFree(q))
<1>0. /\ req[q] \in RequestType /\ text \in [Fields -> SUBSET Requests] /\ Len(log) \in Nat
      /\ req \in [Requests -> RequestType]
  BY DEF Types, RequestTypes, SkillTypes
<1>1. CASE ReadSkill(q)
  <2> DEFINE x == [req[q] EXCEPT !.at = "ready", !.base = text, !.seen = Len(log)]
  <2>1. x \in RequestType /\ x.seen = Len(log) /\ x.base = text /\ x.kind = "approved"
    BY <1>0, <1>1 DEF RequestType, ReadSkill
  <2>2. req' = [req EXCEPT ![q] = x]
    BY <1>1 DEF ReadSkill
  <2> HIDE DEF x
  <2> QED
    BY <1>1, <2>1, <2>2 DEF ReadSkill
<1>2. CASE Flush(q)
  <2>0. PICK n \in Nat : n = MaxVersion + 1
    BY MaxVersionBound DEF Types
  <2> DEFINE x == [req[q] EXCEPT !.at = "ready", !.version = n]
  <2>1. x \in RequestType /\ x.seen = req[q].seen /\ x.base = req[q].base /\ x.sets = req[q].sets
        /\ x.version = MaxVersion + 1
    BY <1>0, <2>0 DEF RequestType
  <2>2. req' = [req EXCEPT ![q] = x]
    BY <1>2, <2>0 DEF Flush
  <2> HIDE DEF x
  <2> QED
    BY <1>2, <2>1, <2>2 DEF Flush
<1>3. CASE Fail(q)
  <2> DEFINE x == [req[q] EXCEPT !.at = "done"]
  <2>1. x \in RequestType /\ x.seen = req[q].seen /\ x.base = req[q].base /\ x.at = "done"
    BY <1>0 DEF RequestType
  <2>2. req' = [req EXCEPT ![q] = x]
    BY <1>3 DEF Fail, Finish
  <2> HIDE DEF x
  <2> QED
    BY <1>3, <2>1, <2>2 DEF Fail
<1>4. ASSUME NEW l \in Learnings, Load(q, l)
      PROVE  /\ UNCHANGED <<analysis, skill>> /\ req[q].at = "new"
             /\ \E x \in RequestType : /\ req' = [req EXCEPT ![q] = x] /\ x.at = "loaded"
                                       /\ x.seen = req[q].seen /\ x.base = req[q].base
  <2>1. PICK k \in {"approved", "declined"} :
        req' = [req EXCEPT ![q] = [req[q] EXCEPT !.at = "loaded", !.kind = k, !.on = {l},
                 !.sets = IF k = "approved" THEN {FieldOf[l[1]]} \ {NoField} ELSE {}]]
    BY <1>4 DEF Load
  <2> DEFINE x == [req[q] EXCEPT !.at = "loaded", !.kind = k, !.on = {l},
                    !.sets = IF k = "approved" THEN {FieldOf[l[1]]} \ {NoField} ELSE {}]
  <2>2. {FieldOf[l[1]]} \ {NoField} \in SUBSET Fields
    BY LearningAssumption DEF Learnings
  <2>4. x \in RequestType /\ x.at = "loaded" /\ x.seen = req[q].seen /\ x.base = req[q].base
    BY <1>0, <2>2 DEF RequestType
  <2>5. req' = [req EXCEPT ![q] = x]
    BY <2>1
  <2> HIDE DEF x
  <2> QED
    BY <1>4, <2>4, <2>5 DEF Load
<1>5. ASSUME NEW F \in SUBSET Fields, Open(q, F)
      PROVE  /\ UNCHANGED <<analysis, skill>> /\ req[q].at = "new"
             /\ \E x \in RequestType : /\ req' = [req EXCEPT ![q] = x] /\ x.at = "loaded"
                                       /\ x.seen = Len(log) /\ x.base = text
  <2> DEFINE x == [req[q] EXCEPT !.at = "loaded", !.kind = "edit", !.sets = F, !.base = text, !.seen = Len(log)]
  <2>1. x \in RequestType /\ x.at = "loaded" /\ x.seen = Len(log) /\ x.base = text
    BY <1>0 DEF RequestType
  <2>2. req' = [req EXCEPT ![q] = x]
    BY <1>5 DEF Open
  <2> HIDE DEF x
  <2> QED
    BY <1>5, <2>1, <2>2 DEF Open
<1> QED
  BY <1>1, <1>2, <1>3, <1>4, <1>5 DEF Review

LEMMA TextInductive == ASSUME Types, TextInv, [Next]_vars PROVE TextInv'
<1>1. CASE UNCHANGED <<req, text, log>>
  BY <1>1 DEF TextInv, LogDone, Keeps
<1>2. Analysis => UNCHANGED <<req, text, log>>
  BY DEF Analysis, Close, Start, Insert, End, Look, skill
<1>3. ASSUME NEW q \in Requests, Review(q) PROVE TextInv'
  <2>1. CASE Commit(q)
    BY <2>1, CommitText
  <2>2. CASE ~Commit(q)
    BY <1>3, <2>2, ReviewHolds, HoldsText DEF skill
  <2> QED
    BY <2>1, <2>2
<1>4. UNCHANGED vars => UNCHANGED <<req, text, log>>
  BY DEF vars, skill
<1> QED
  BY <1>1, <1>2, <1>3, <1>4 DEF Next

(* What was written into the skill is only lost to a request that had read the *)
(* text before, for any requests, texts and suggestions.                    *)
THEOREM Applied == Spec => []AppliedUnlessOverwritten
<1>1. Init => TextInv
  BY DEF Init, NewRequest, TextInv, LogDone, Keeps
<1>2. Types /\ TextInv => AppliedUnlessOverwritten
  BY DEF Types, SkillTypes, TextInv, Keeps, AppliedUnlessOverwritten
<1> QED
  BY <1>1, <1>2, TypesAlways, TextInductive, PTL DEF Spec

-------------------------------------------------------------------------------
(* The versions.  Of the edits that wait for their commit at most one changes  *)
(* the skill: it holds the row lock, and its number is above all committed  *)
(* numbers of such edits.                                                   *)
Editing(q) == req[q].at = "ready" /\ req[q].kind = "edit" /\ req[q].sets # {}

VersionsDone == \A v \in versions : req[v[2]].at = "done"

OneEditor == \A p, q \in Requests : Editing(p) /\ Editing(q) => p = q

NumberAbove ==
  \A q \in Requests : Editing(q) =>
    \A v \in versions : req[v[2]].sets # {} => v[1] < req[q].version

VersionInv == VersionsDone /\ OneEditor /\ NumberAbove /\ VersionsDistinct

LEMMA CommitVersions == ASSUME Types, VersionInv, NEW q \in Requests, Commit(q) PROVE VersionInv'
<1>0. /\ req[q] \in RequestType /\ req \in [Requests -> RequestType]
      /\ \A v \in versions : v \in Nat \X Requests
  BY DEF Types, RequestTypes, SkillTypes
<1>1. /\ \A p \in Requests : req'[p].sets = req[p].sets /\ req'[p].version = req[p].version
      /\ \A p \in Requests \ {q} : req'[p] = req[p]
      /\ req'[q].at = "done" /\ req[q].at # "done"
  BY <1>0 DEF Commit, Finish, RequestType
<1>2. \A p \in Requests : Editing(p)' => Editing(p) /\ p # q
  BY <1>1 DEF Editing
<1>3. \A v \in versions' : v \in versions \/ (v = <<req[q].version, q>> /\ req[q].kind = "edit")
  BY DEF Commit
<1>4. req[q].kind = "edit" /\ req[q].sets # {} => Editing(q)
  BY DEF Commit, Editing
<1>5. VersionsDone'
  BY <1>0, <1>1, <1>3 DEF VersionInv, VersionsDone
<1>6. OneEditor'
  BY <1>2 DEF VersionInv, OneEditor
<1>7. NumberAbove'
  <2> SUFFICES ASSUME NEW p \in Requests, Editing(p)', NEW v \in versions', req'[v[2]].sets # {}
               PROVE  v[1] < req'[p].version
    BY DEF NumberAbove
  <2>1. CASE v \in versions
    BY <1>0, <1>1, <1>2, <2>1 DEF VersionInv, NumberAbove
  <2>2. CASE v = <<req[q].version, q>> /\ req[q].kind = "edit"
    <3>1. Editing(q) /\ Editing(p) /\ p # q
      BY <1>1, <1>2, <1>4, <2>2
    <3> QED
      BY <3>1 DEF VersionInv, OneEditor
  <2> QED
    BY <1>3, <2>1, <2>2
<1>8. VersionsDistinct'
  <2> SUFFICES ASSUME NEW v \in versions', NEW w \in versions', v[1] = w[1],
                      req'[v[2]].sets # {}, req'[w[2]].sets # {}
               PROVE  v = w
    BY DEF VersionsDistinct
  <2>1. CASE v \in versions /\ w \in versions
    BY <1>0, <1>1, <2>1 DEF VersionInv, VersionsDistinct
  <2>2. ASSUME NEW u \in versions, req'[u[2]].sets # {}, u[1] = req[q].version,
               req[q].kind = "edit", req[q].sets # {}
        PROVE  FALSE
    <3>1. u[1] < req[q].version /\ u[1] \in Nat
      BY <1>0, <1>1, <1>4, <2>2 DEF VersionInv, NumberAbove
    <3> QED
      BY <2>2, <3>1
  <2> QED
    BY <1>1, <1>3, <2>1, <2>2
<1> QED
  BY <1>5, <1>6, <1>7, <1>8 DEF VersionInv

LEMMA HoldsVersions ==
  ASSUME Types, VersionInv, NEW q \in Requests, req[q].at # "done", versions' = versions,
         NEW x \in RequestType, req' = [req EXCEPT ![q] = x],
         x.at = "ready" /\ x.kind = "edit" =>
           x.version = MaxVersion + 1 /\ (x.sets # {} => SkillFree(q))
  PROVE  VersionInv'
<1>1. /\ \A p \in Requests \ {q} : req'[p] = req[p]
      /\ req'[q] = x
      /\ \A v \in versions : v \in Nat \X Requests /\ v[2] # q
  BY DEF Types, RequestTypes, SkillTypes, VersionInv, VersionsDone
<1>2. \A p \in Requests \ {q} : Editing(p)' <=> Editing(p)
  BY <1>1 DEF Editing
<1>3. Editing(q)' => x.version = MaxVersion + 1 /\ SkillFree(q)
  BY <1>1 DEF Editing
<1>4. SkillFree(q) => \A p \in Requests \ {q} : ~Editing(p)
  BY DEF SkillFree, Editing
<1>5. OneEditor'
  BY <1>2, <1>3, <1>4 DEF VersionInv, OneEditor
<1>6. NumberAbove'
  <2>1. MaxVersion \in Nat /\ \A v \in versions : v[1] <= MaxVersion
    BY MaxVersionBound DEF Types
  <2>2. \A v \in versions : v[1] < MaxVersion + 1
    BY <1>1, <2>1
  <2> QED
    BY <1>1, <1>2, <1>3, <2>2 DEF VersionInv, NumberAbove
<1>7. VersionsDone' /\ VersionsDistinct'
  BY <1>1 DEF VersionInv, VersionsDone, VersionsDistinct
<1> QED
  BY <1>5, <1>6, <1>7 DEF VersionInv

LEMMA VersionsInductive == ASSUME Types, VersionInv, [Next]_vars PROVE VersionInv'
<1>1. CASE UNCHANGED <<req, versions>>
  BY <1>1 DEF VersionInv, VersionsDone, OneEditor, NumberAbove, VersionsDistinct, Editing
<1>2. Analysis => UNCHANGED <<req, versions>>
  BY DEF Analysis, Close, Start, Insert, End, Look, skill
<1>3. ASSUME NEW q \in Requests, Review(q) PROVE VersionInv'
  <2>1. CASE Commit(q)
    BY <2>1, CommitVersions
  <2>2. CASE ~Commit(q)
    BY <1>3, <2>2, ReviewHolds, HoldsVersions DEF skill
  <2> QED
    BY <2>1, <2>2
<1>4. UNCHANGED vars => UNCHANGED <<req, versions>>
  BY DEF vars, skill
<1> QED
  BY <1>1, <1>2, <1>3, <1>4 DEF Next

(* Edits that change the skill get different version numbers, for any number  *)
(* of concurrent edits.                                                     *)
THEOREM Numbered == Spec => []VersionsDistinct
<1>1. Init => VersionInv
  BY DEF Init, NewRequest, VersionInv, VersionsDone, OneEditor, NumberAbove, VersionsDistinct, Editing
<1>2. VersionInv => VersionsDistinct
  BY DEF VersionInv
<1> QED
  BY <1>1, <1>2, TypesAlways, VersionsInductive, PTL DEF Spec

-------------------------------------------------------------------------------
(* What a lock command of s does to the lock and the leaders. *)
LEMMA CommandTypes ==
  ASSUME LeaderTypeOK, NEW s \in Schedulers,
         TryAcquire(s) \/ (s \in up /\ Refresh(s))
  PROVE  /\ owner' \in Schedulers \cup {NoOne, Gone}
         /\ ttl' \in 0..LOCK_TTL
         /\ owner' = NoOne <=> ttl' = 0
         /\ leader' \subseteq leader \cup {s}
  BY LeaderAssumption DEF LeaderTypeOK, TryAcquire, Refresh, lock

LEMMA LeaderTypeInductive ==
  ASSUME LeaderTypeOK, [LeaderNext]_leaderVars
  PROVE LeaderTypeOK'
<1> USE LeaderAssumption
<1>1. ASSUME NEW s \in Schedulers, Boot(s) PROVE LeaderTypeOK'
  BY <1>1, CommandTypes DEF Boot, Record, LeaderTypeOK
<1>2. ASSUME NEW s \in Schedulers, Round(s) PROVE LeaderTypeOK'
  <2>1. TryAcquire(s) \/ (s \in up /\ Refresh(s))
    BY <1>2 DEF Round
  <2> QED
    BY <1>2, <2>1, CommandTypes DEF Round, Record, LeaderTypeOK
<1>3. ASSUME NEW s \in Schedulers, Down(s) PROVE LeaderTypeOK'
  BY <1>3 DEF Down, LeaderTypeOK
<1>4. CASE Tick
  BY <1>4 DEF Tick, LeaderTypeOK
<1>5. CASE LoseKey
  BY <1>5 DEF LoseKey, processes, history, LeaderTypeOK
<1>6. CASE UNCHANGED leaderVars
  BY <1>6 DEF leaderVars, lock, processes, history, LeaderTypeOK
<1> QED
  BY <1>1, <1>2, <1>3, <1>4, <1>5, <1>6 DEF LeaderNext

(* Types, and that the key exists exactly while it has ticks left. *)
THEOREM LeaderTypeCorrect == LeaderSpec => []LeaderTypeOK
<1>1. LeaderInit => LeaderTypeOK
  BY LeaderAssumption DEF LeaderInit, LeaderTypeOK
<1> QED
  BY <1>1, LeaderTypeInductive, PTL DEF LeaderSpec

-------------------------------------------------------------------------------
(* A leader that refreshed less than the TTL ago owns the key, and the key's *)
(* remaining life says when it refreshed.                                  *)
FreshOwns == flushes = 0 => \A s \in Schedulers : Fresh(s) => owner = s /\ ttl + age[s] = LOCK_TTL

LEMMA FreshInductive ==
  ASSUME LeaderTypeOK, FreshOwns, [LeaderNext]_leaderVars
  PROVE FreshOwns'
<1> USE LeaderAssumption
<1> SUFFICES ASSUME flushes' = 0, NEW t \in Schedulers, Fresh(t)'
             PROVE  owner' = t /\ ttl' + age'[t] = LOCK_TTL
  BY DEF FreshOwns
<1>0. flushes = 0
  BY DEF LeaderNext, Boot, Round, Down, Tick, LoseKey, leaderVars, LeaderTypeOK
<1>1. ASSUME NEW s \in Schedulers, Boot(s) \/ Round(s)
      PROVE owner' = t /\ ttl' + age'[t] = LOCK_TTL
  <2>1. TryAcquire(s) \/ (s \in leader /\ Refresh(s))
    BY <1>1 DEF Boot, Round
  <2>2. age' = [age EXCEPT ![s] = 0]
    BY <1>1 DEF Boot, Round
  <2>3. s \in leader => s \in leader /\ Refresh(s)
    BY <1>1 DEF Boot, Round, LeaderTypeOK
  <2>4. CASE t = s
    BY <2>1, <2>2, <2>3, <2>4 DEF Fresh, TryAcquire, Refresh, LeaderTypeOK
  <2>5. CASE t # s
    <3>1. Fresh(t)
      BY <2>1, <2>2, <2>5 DEF Fresh, TryAcquire, Refresh, LeaderTypeOK
    <3>2. owner = t /\ ttl + age[t] = LOCK_TTL
      BY <1>0, <3>1 DEF FreshOwns
    <3> QED
      BY <2>1, <2>2, <2>5, <3>2 DEF TryAcquire, Refresh, lock, LeaderTypeOK
  <2> QED
    BY <2>4, <2>5
<1>2. ASSUME NEW s \in Schedulers, Down(s)
      PROVE owner' = t /\ ttl' + age'[t] = LOCK_TTL
  <2>1. t # s /\ Fresh(t)
    BY <1>2 DEF Down, Fresh
  <2> QED
    BY <1>0, <1>2, <2>1 DEF Down, FreshOwns
<1>3. CASE Tick
  <2>1. Fresh(t) /\ age'[t] = age[t] + 1 /\ age[t] + 1 < LOCK_TTL
    BY <1>3 DEF Tick, Fresh, LeaderTypeOK
  <2>2. owner = t /\ ttl + age[t] = LOCK_TTL
    BY <1>0, <2>1 DEF FreshOwns
  <2> QED
    BY <1>3, <2>1, <2>2 DEF Tick, LeaderTypeOK
<1>4. CASE UNCHANGED leaderVars
  BY <1>0, <1>4 DEF leaderVars, lock, processes, FreshOwns, Fresh
<1>5. ~LoseKey
  BY DEF LoseKey, LeaderTypeOK
<1> QED
  BY <1>1, <1>2, <1>3, <1>4, <1>5 DEF LeaderNext

(* Of the leaders that refreshed less than the TTL ago there is one, while
   Redis keeps the key, for any number of processes and any delays. *)
THEOREM Election == LeaderSpec => []OneLeader
<1>1. LeaderInit => FreshOwns
  BY DEF LeaderInit, FreshOwns, Fresh
<1>2. FreshOwns => OneLeader
  BY DEF FreshOwns, OneLeader
<1> QED
  BY <1>1, <1>2, LeaderTypeCorrect, FreshInductive, PTL DEF LeaderSpec

(* Only the owner prolongs the key. *)
THEOREM Fencing == LeaderSpec => StaleCannotExtend
<1>1. ASSUME LeaderTypeOK, [LeaderNext]_leaderVars
      PROVE  [ttl' > ttl => owner = NoOne \/ owner' = Gone \/ (owner \in leader /\ age'[owner] = 0)]_leaderVars
  <2> SUFFICES ASSUME ttl' > ttl
               PROVE  owner = NoOne \/ owner' = Gone \/ (owner \in leader /\ age'[owner] = 0)
    OBVIOUS
  <2> USE <1>1, LeaderAssumption DEF LeaderTypeOK
  <2>1. CASE \E s \in Schedulers : Boot(s)
    BY <2>1 DEF Boot, TryAcquire, lock
  <2>2. CASE \E s \in Schedulers : Round(s)
    BY <2>2 DEF Round, TryAcquire, Refresh, lock
  <2>3. CASE \E s \in Schedulers : Down(s)
    BY <2>3 DEF Down
  <2>4. CASE Tick \/ LoseKey \/ UNCHANGED leaderVars
    BY <2>4 DEF Tick, LoseKey, leaderVars, lock
  <2> QED
    BY <2>1, <2>2, <2>3, <2>4 DEF LeaderNext
<1> QED
  BY <1>1, LeaderTypeCorrect, PTL DEF LeaderSpec, StaleCannotExtend

-------------------------------------------------------------------------------
(* A leader is stale for no longer than it has not refreshed. *)
StaleInv == \A s \in leader : stale[s] <= age[s]

LEMMA StaleInductive ==
  ASSUME LeaderTypeOK, StaleInv, [LeaderNext]_leaderVars
  PROVE StaleInv'
<1> USE LeaderAssumption DEF LeaderTypeOK
<1>1. ASSUME NEW s \in Schedulers, Boot(s) \/ Round(s) PROVE StaleInv'
  <2>1. TryAcquire(s) \/ (s \in leader /\ Refresh(s))
    BY <1>1 DEF Boot, Round
  <2>2. age' = [age EXCEPT ![s] = 0] /\ Record(s)
    BY <1>1 DEF Boot, Round
  <2>3. s \in leader => s \in leader /\ Refresh(s)
    BY <1>1 DEF Boot, Round
  <2>4. s \in leader' => owner' = s
    BY <2>1, <2>3 DEF TryAcquire, Refresh, lock
  <2>5. leader' \subseteq leader \cup {s}
    BY <2>1 DEF TryAcquire, Refresh
  <2> QED
    BY <2>2, <2>4, <2>5 DEF Record, StaleInv
<1>2. ASSUME NEW s \in Schedulers, Down(s) PROVE StaleInv'
  BY <1>2 DEF Down, StaleInv
<1>3. CASE Tick
  BY <1>3 DEF Tick, StaleInv
<1>4. CASE LoseKey \/ UNCHANGED leaderVars
  BY <1>4 DEF LoseKey, processes, history, leaderVars, StaleInv
<1> QED
  BY <1>1, <1>2, <1>3, <1>4 DEF LeaderNext

(* A leader that lost the key leads on until its next round at most. *)
THEOREM SteppingDown == LeaderSpec => []StaleBriefly
<1>1. LeaderInit => StaleInv
  BY DEF LeaderInit, StaleInv
<1>2. LeaderTypeOK /\ StaleInv => StaleBriefly
  BY LeaderAssumption DEF LeaderTypeOK, StaleInv, StaleBriefly
<1> QED
  BY <1>1, <1>2, LeaderTypeCorrect, StaleInductive, PTL DEF LeaderSpec

-------------------------------------------------------------------------------
(* While nobody leads, the key of a stopped process expires in time, and    *)
(* once it is gone every running process has yet to make its next round.    *)
VacancyInv ==
  /\ owner \in Schedulers => owner \in leader
  /\ vacant > 0 =>
       /\ leader = {} /\ up # {}
       /\ owner # NoOne => vacant + ttl <= LOCK_TTL
       /\ owner = NoOne => \A s \in up : vacant < LOCK_TTL + age[s]

LEMMA VacancyInductive ==
  ASSUME LeaderTypeOK, VacancyInv, [LeaderNext]_leaderVars
  PROVE VacancyInv'
<1> USE LeaderAssumption DEF LeaderTypeOK
<1>1. ASSUME NEW s \in Schedulers, Boot(s) PROVE VacancyInv'
  BY <1>1 DEF Boot, TryAcquire, Record, lock, VacancyInv
<1>2. ASSUME NEW s \in Schedulers, Round(s) PROVE VacancyInv'
  BY <1>2 DEF Round, TryAcquire, Refresh, Record, lock, VacancyInv
<1>3. ASSUME NEW s \in Schedulers, Down(s) PROVE VacancyInv'
  BY <1>3 DEF Down, VacancyInv
<1>4. CASE Tick
  <2>1. (owner' \in Schedulers => owner' \in leader') /\ leader' = leader /\ up' = up
    BY <1>4 DEF Tick, VacancyInv
  <2>2. ASSUME vacant' > 0, owner' # NoOne PROVE vacant' + ttl' <= LOCK_TTL
    BY <1>4, <2>2 DEF Tick, VacancyInv
  <2>3. ASSUME vacant' > 0, owner' = NoOne, NEW s \in up PROVE vacant' < LOCK_TTL + age'[s]
    <3>1. age'[s] = age[s] + 1 /\ vacant' = vacant + 1
      BY <1>4, <2>3 DEF Tick
    <3>2. vacant > 0 => vacant < LOCK_TTL + age[s]
      BY <1>4, <2>3 DEF Tick, VacancyInv
    <3> QED
      BY <3>1, <3>2
  <2>4. vacant' > 0 => leader' = {} /\ up' # {}
    BY <1>4 DEF Tick
  <2> QED
    BY <2>1, <2>2, <2>3, <2>4 DEF VacancyInv
<1>5. CASE LoseKey
  BY <1>5 DEF LoseKey, processes, history, VacancyInv
<1>6. CASE UNCHANGED leaderVars
  BY <1>6 DEF leaderVars, lock, processes, history, VacancyInv
<1> QED
  BY <1>1, <1>2, <1>3, <1>4, <1>5, <1>6 DEF LeaderNext

(* Less than a TTL and a round after the last stop of a process, one of the
   running processes leads. *)
THEOREM Promotion == LeaderSpec => []Failover
<1>1. LeaderInit => VacancyInv
  BY LeaderAssumption DEF LeaderInit, VacancyInv
<1>2. LeaderTypeOK /\ VacancyInv => Failover
  BY LeaderAssumption DEF LeaderTypeOK, VacancyInv, Failover
<1> QED
  BY <1>1, <1>2, LeaderTypeCorrect, VacancyInductive, PTL DEF LeaderSpec
===============================================================================
