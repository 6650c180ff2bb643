------------------------------ MODULE TurnProofs ------------------------------
(* Theorems about Turn, for any attempts, texts, replies, edits and windows, *)
(* and about AgentLoop, for any histories, answers and limits of the loop.  *)
EXTENDS Turn, AgentLoop, FiniteSetTheorems, TLAPS

Langs == PhoneLangs \cup Values \cup {NoLang, "pt-BR", "pt-PT", "en", "es"}
Bodies == Replies \cup HumanTexts \cup {"", "user_intent_out_of_scope"}
Awaits == {"new", "language", "save", "history", "ask", "again", "persist", "done"}
Origins == {"first", "again", "reason"}

RowType ==
  [dir : {"in", "out"}, body : Bodies, how : {"user", "human"} \cup Origins,
   lang : Langs, read : Nat, known : Nat, seen : Nat]
CommitType == [by : {"worker", "edit"}, key : Keys, value : Langs, seen : Nat]
EditType ==
  [at : {"new", "loaded", "done"}, base : [Keys -> Langs], key : Keys, value : Langs, seen : Nat]
RunType ==
  [at : Awaits, text : Texts \cup {NoText}, base : [Keys -> Langs], seen : Nat, lang : Langs,
   known : Nat, loaded : Nat, reply : Replies \cup {""}, how : Origins]

ContactTypes ==
  /\ attrs \in [Keys -> Langs] /\ log \in Seq(CommitType)
  /\ edit \in [Edits -> EditType] /\ \A q \in Edits : edit[q].seen <= Len(log)

RowTypes ==
  /\ rows \in Seq(RowType)
  /\ \A i \in 1..Len(rows) : rows[i].read <= Len(log) /\ rows[i].known <= Len(log)

RunTypes ==
  /\ run \in [Attempts -> RunType]
  /\ \A a \in Attempts :
       run[a].seen <= Len(log) /\ run[a].known <= Len(log) /\ run[a].loaded <= Len(rows)

Types == ContactTypes /\ RowTypes /\ RunTypes /\ phone \in PhoneLangs /\ human \in 0..MaxHuman

-------------------------------------------------------------------------------
LEMMA Limits == MaxHuman \in Nat /\ Window \in Nat /\ Window > 0
<1>1. MaxHuman \in Nat /\ Window \in Nat \ {0}
  BY TurnAssumption, Zenon
<1> QED
  BY <1>1

LEMMA LengthTypes == ASSUME Types PROVE Len(log) \in Nat /\ Len(rows) \in Nat
  BY DEF Types, ContactTypes, RowTypes

(* A row that is appended leaves those before it as they are. *)
LEMMA AppendRow ==
  ASSUME Types, NEW r \in RowType, rows' = Append(rows, r)
  PROVE  /\ rows' \in Seq(RowType) /\ Len(rows') = Len(rows) + 1 /\ rows'[Len(rows) + 1] = r
         /\ \A i \in 1..Len(rows) : rows'[i] = rows[i]
         /\ \A i \in 1..Len(rows') : i \in 1..Len(rows) \/ i = Len(rows) + 1
<1>1. rows \in Seq(RowType) /\ Len(rows) \in Nat
  BY DEF Types, RowTypes
<1>2. rows' \in Seq(RowType) /\ Len(rows') = Len(rows) + 1
  BY <1>1
<1>3. rows'[Len(rows) + 1] = r /\ \A i \in 1..Len(rows) : rows'[i] = rows[i]
  BY <1>1
<1> QED
  BY <1>1, <1>2, <1>3

(* So does a commit. *)
LEMMA AppendCommit ==
  ASSUME Types, NEW c \in CommitType, log' = Append(log, c)
  PROVE  /\ log' \in Seq(CommitType) /\ Len(log') = Len(log) + 1 /\ log'[Len(log) + 1] = c
         /\ \A i \in 1..Len(log) : log'[i] = log[i]
<1>1. log \in Seq(CommitType) /\ Len(log) \in Nat
  BY DEF Types, ContactTypes
<1> QED
  BY <1>1

LEMMA RowTyped ==
  ASSUME Types, NEW i \in 1..Len(rows)
  PROVE  /\ rows[i] \in RowType /\ rows[i].read \in 0..Len(log) /\ rows[i].known \in 0..Len(log)
         /\ rows[i].lang \in Langs
<1>1. rows[i] \in RowType /\ rows[i].read <= Len(log) /\ rows[i].known <= Len(log)
  BY DEF Types, RowTypes
<1>2. rows[i].read \in Nat /\ rows[i].known \in Nat /\ rows[i].lang \in Langs
  BY <1>1 DEF RowType
<1> QED
  BY <1>1, <1>2, LengthTypes

LEMMA RunTyped ==
  ASSUME Types, NEW a \in Attempts
  PROVE  /\ run[a] \in RunType /\ run[a].at \in Awaits /\ run[a].base \in [Keys -> Langs]
         /\ run[a].lang \in Langs /\ run[a].how \in Origins
         /\ run[a].seen \in 0..Len(log) /\ run[a].known \in 0..Len(log) /\ run[a].loaded \in 0..Len(rows)
<1>1. run[a] \in RunType /\ run[a].seen <= Len(log) /\ run[a].known <= Len(log) /\ run[a].loaded <= Len(rows)
  BY DEF Types, RunTypes
<1>2. /\ run[a].at \in Awaits /\ run[a].base \in [Keys -> Langs] /\ run[a].lang \in Langs
      /\ run[a].how \in Origins
      /\ run[a].seen \in Nat /\ run[a].known \in Nat /\ run[a].loaded \in Nat
  BY <1>1 DEF RunType
<1>3. run[a].seen \in 0..Len(log) /\ run[a].known \in 0..Len(log) /\ run[a].loaded \in 0..Len(rows)
  BY <1>1, <1>2, LengthTypes
<1> QED
  BY <1>1, <1>2, <1>3, Zenon

-------------------------------------------------------------------------------
(* Attempt a goes on with locals r; all others stay where they are. *)
Moves(a, r) ==
  /\ r \in RunType /\ run' \in [Attempts -> RunType] /\ run'[a] = r
  /\ \A b \in Attempts : b # a => run'[b] = run[b]

LEMMA Moving ==
  ASSUME Types, NEW a \in Attempts, NEW r \in RunType, run' = [run EXCEPT ![a] = r]
  PROVE  Moves(a, r)
  BY DEF Moves, Types, RunTypes

(* What the prompt rests on stays as it is. *)
SamePrompt(r, s) == r.base = s.base /\ r.seen = s.seen /\ r.lang = s.lang /\ r.known = s.known

LEMMA ResolvedTypes == ASSUME Types, NEW t PROVE Resolved(t) \in Langs
<1>1. Detected(t) \in Langs
  BY DEF Detected, Langs
<1>2. phone \in Langs
  BY DEF Types, Langs
<1> QED
  BY <1>1, <1>2 DEF Resolved

LEMMA NoRunType ==
  /\ NoRun \in RunType /\ Unset \in [Keys -> Langs] /\ NoRun.at = "new"
  /\ NoRun.seen = 0 /\ NoRun.known = 0 /\ NoRun.loaded = 0
<1>1. Unset \in [Keys -> Langs] /\ NoLang \in Langs
  BY DEF Unset, Langs
<1> QED
  BY <1>1 DEF NoRun, RunType, Awaits, Origins

LEMMA InboundType ==
  /\ Inbound \in RowType /\ Inbound.read = 0 /\ Inbound.known = 0 /\ Inbound.lang = NoLang
  /\ Inbound.how = "user"
  BY DEF Inbound, RowType, Bodies, Langs, Origins

LEMMA PersistInboundMoves ==
  ASSUME Types, NEW a \in Attempts, PersistInbound(a)
  PROVE  /\ rows' = Append(rows, Inbound) /\ UNCHANGED <<phone, attrs, log, edit, human>>
         /\ \E r \in RunType : /\ Moves(a, r) /\ SamePrompt(r, run[a]) /\ r.loaded = run[a].loaded
                               /\ r.at = "language"
<1> PICK t \in Texts : run' = [run EXCEPT ![a] = [run[a] EXCEPT !.at = "language", !.text = t]]
  BY DEF PersistInbound
<1> DEFINE r == [run[a] EXCEPT !.at = "language", !.text = t]
<1>1. r \in RunType /\ SamePrompt(r, run[a]) /\ r.loaded = run[a].loaded /\ r.at = "language"
  BY RunTyped DEF RunType, Awaits, SamePrompt
<1> HIDE DEF r
<1>2. Moves(a, r)
  BY <1>1, Moving DEF r
<1> QED
  BY <1>1, <1>2 DEF PersistInbound

LEMMA ResolveLanguageMoves ==
  ASSUME Types, NEW a \in Attempts, ResolveLanguage(a)
  PROVE  /\ UNCHANGED <<phone, rows, attrs, log, edit, human>>
         /\ \E r \in RunType :
              /\ Moves(a, r) /\ r.base = attrs /\ r.seen = Len(log) /\ r.known = Len(log)
              /\ r.loaded = run[a].loaded
              /\ \/ r.at = "save" /\ attrs["preferred_language"] = NoLang
                 \/ r.at = "history" /\ r.lang = attrs["preferred_language"]
<1> DEFINE stored == attrs["preferred_language"]
           told == IF stored # NoLang THEN stored ELSE Resolved(run[a].text)
           r == [run[a] EXCEPT !.at = IF told # stored THEN "save" ELSE "history",
                   !.base = attrs, !.seen = Len(log), !.lang = told, !.known = Len(log)]
<1>1. run' = [run EXCEPT ![a] = r]
  BY DEF ResolveLanguage
<1>2. stored \in Langs /\ attrs \in [Keys -> Langs] /\ Len(log) \in Nat
  BY LengthTypes DEF Types, ContactTypes, Keys
<1>3. told \in Langs
  BY <1>2, ResolvedTypes
<1>4. told # stored => stored = NoLang
  OBVIOUS
<1> HIDE DEF told
<1>5. /\ r \in RunType /\ r.base = attrs /\ r.seen = Len(log) /\ r.known = Len(log)
      /\ r.loaded = run[a].loaded /\ r.lang = told
      /\ r.at = IF told # stored THEN "save" ELSE "history"
  BY <1>2, <1>3, RunTyped DEF RunType, Awaits
<1> HIDE DEF r
<1>6. Moves(a, r)
  BY <1>1, <1>5, Moving
<1> QED
  BY <1>4, <1>5, <1>6 DEF ResolveLanguage

LEMMA SaveLanguageMoves ==
  ASSUME Types, NEW a \in Attempts, SaveLanguage(a)
  PROVE  /\ run[a].at = "save" /\ UNCHANGED <<phone, rows, edit, human>>
         /\ attrs' = [run[a].base EXCEPT !["preferred_language"] = run[a].lang]
         /\ \E c \in CommitType :
              /\ log' = Append(log, c) /\ c.by = "worker" /\ c.key = "preferred_language"
              /\ c.value = run[a].lang /\ c.seen = run[a].seen
         /\ \E r \in RunType :
              /\ Moves(a, r) /\ r.at = "history" /\ r.base = run[a].base /\ r.seen = run[a].seen
              /\ r.lang = run[a].lang /\ r.known = Len(log) + 1 /\ r.loaded = run[a].loaded
<1> DEFINE c == [by |-> "worker", key |-> "preferred_language", value |-> run[a].lang, seen |-> run[a].seen]
           r == [run[a] EXCEPT !.at = "history", !.known = Len(log) + 1]
<1>0. /\ run[a] \in RunType /\ run[a].lang \in Langs /\ run[a].seen \in Nat
      /\ Len(log) \in Nat /\ Len(log) + 1 \in Nat
  <2>1. run[a] \in RunType /\ Len(log) \in Nat
    BY RunTyped, LengthTypes
  <2>2. run[a].lang \in Langs /\ run[a].seen \in Nat
    BY <2>1 DEF RunType
  <2> QED
    BY <2>1, <2>2
<1>1. /\ c \in CommitType /\ c.by = "worker" /\ c.key = "preferred_language"
      /\ c.value = run[a].lang /\ c.seen = run[a].seen
  BY <1>0 DEF CommitType, Keys
<1>2. /\ r \in RunType /\ r.at = "history" /\ r.base = run[a].base /\ r.seen = run[a].seen
      /\ r.lang = run[a].lang /\ r.known = Len(log) + 1 /\ r.loaded = run[a].loaded
  BY <1>0 DEF RunType, Awaits
<1>3. log' = Append(log, c) /\ run' = [run EXCEPT ![a] = r]
  BY DEF SaveLanguage
<1> HIDE DEF c, r
<1>4. Moves(a, r)
  BY <1>2, <1>3, Moving
<1>5. \E d \in CommitType :
        /\ log' = Append(log, d) /\ d.by = "worker" /\ d.key = "preferred_language"
        /\ d.value = run[a].lang /\ d.seen = run[a].seen
  BY <1>1, <1>3
<1>6. \E s \in RunType :
        /\ Moves(a, s) /\ s.at = "history" /\ s.base = run[a].base /\ s.seen = run[a].seen
        /\ s.lang = run[a].lang /\ s.known = Len(log) + 1 /\ s.loaded = run[a].loaded
  BY <1>2, <1>4
<1> QED
  BY <1>5, <1>6 DEF SaveLanguage

LEMMA LoadHistoryMoves ==
  ASSUME Types, NEW a \in Attempts, LoadHistory(a)
  PROVE  /\ run[a].at = "history" /\ UNCHANGED <<phone, rows, attrs, log, edit, human>>
         /\ \E r \in RunType : /\ Moves(a, r) /\ SamePrompt(r, run[a]) /\ r.loaded = Len(rows)
                               /\ r.at = "ask"
<1> DEFINE r == [run[a] EXCEPT !.at = "ask", !.loaded = Len(rows)]
<1>1. r \in RunType /\ SamePrompt(r, run[a]) /\ r.loaded = Len(rows) /\ r.at = "ask"
  BY RunTyped, LengthTypes DEF RunType, Awaits, SamePrompt
<1>2. run' = [run EXCEPT ![a] = r]
  BY DEF LoadHistory
<1> HIDE DEF r
<1>3. Moves(a, r)
  BY <1>1, <1>2, Moving
<1> QED
  BY <1>1, <1>3 DEF LoadHistory

LEMMA AnswerMoves ==
  ASSUME Types, NEW a \in Attempts, Answer(a)
  PROVE  /\ run[a].at = "ask" /\ UNCHANGED <<phone, rows, attrs, log, edit, human>>
         /\ \E r \in RunType :
              /\ Moves(a, r) /\ SamePrompt(r, run[a]) /\ r.loaded = run[a].loaded
              /\ r.at \in {"again", "persist"} /\ r.reply \in Replies
              /\ r.how = "first" => r.at = "persist" /\ "regenerate" \notin Fired(a, r.reply)
<1> PICK b \in Replies : run' = [run EXCEPT ![a] = [run[a] EXCEPT
       !.at = IF "regenerate" \in Fired(a, b) THEN "again" ELSE "persist",
       !.reply = b,
       !.how = IF "escalate" \in Fired(a, b) THEN "reason"
               ELSE IF "regenerate" \in Fired(a, b) THEN "again" ELSE "first"]]
  BY DEF Answer
<1> DEFINE at == IF "regenerate" \in Fired(a, b) THEN "again" ELSE "persist"
           how == IF "escalate" \in Fired(a, b) THEN "reason"
                  ELSE IF "regenerate" \in Fired(a, b) THEN "again" ELSE "first"
           r == [run[a] EXCEPT !.at = at, !.reply = b, !.how = how]
<1>0. /\ at \in {"again", "persist"} /\ how \in Origins
      /\ how = "first" => at = "persist" /\ "regenerate" \notin Fired(a, b)
  BY DEF Origins
<1>2. run' = [run EXCEPT ![a] = r]
  OBVIOUS
<1> HIDE DEF at, how
<1>1. /\ r \in RunType /\ SamePrompt(r, run[a]) /\ r.loaded = run[a].loaded
      /\ r.at \in {"again", "persist"} /\ r.reply = b
      /\ r.how = "first" => r.at = "persist" /\ "regenerate" \notin Fired(a, b)
  <2>1. run[a] \in RunType
    BY RunTyped
  <2> QED
    BY <1>0, <2>1 DEF RunType, Awaits, SamePrompt
<1> HIDE DEF r
<1>3. Moves(a, r)
  BY <1>1, <1>2, Moving
<1> QED
  BY <1>1, <1>3 DEF Answer

LEMMA RegenerateMoves ==
  ASSUME Types, NEW a \in Attempts, Regenerate(a)
  PROVE  /\ run[a].at = "again" /\ UNCHANGED <<phone, rows, attrs, log, edit, human>>
         /\ \E r \in RunType :
              /\ Moves(a, r) /\ SamePrompt(r, run[a]) /\ r.loaded = run[a].loaded
              /\ r.at = "persist" /\ r.reply \in Replies /\ r.how = run[a].how
<1> PICK b \in Replies : run' = [run EXCEPT ![a] = [run[a] EXCEPT !.at = "persist", !.reply = b]]
  BY DEF Regenerate
<1> DEFINE r == [run[a] EXCEPT !.at = "persist", !.reply = b]
<1>1. /\ r \in RunType /\ SamePrompt(r, run[a]) /\ r.loaded = run[a].loaded
      /\ r.at = "persist" /\ r.reply = b /\ r.how = run[a].how
  BY RunTyped DEF RunType, Awaits, SamePrompt
<1>2. run' = [run EXCEPT ![a] = r]
  OBVIOUS
<1> HIDE DEF r
<1>3. Moves(a, r)
  BY <1>1, <1>2, Moving
<1> QED
  BY <1>1, <1>3 DEF Regenerate

LEMMA LeaveMoves ==
  ASSUME Types, NEW a \in Attempts, Leave(a)
  PROVE  \E r \in RunType : /\ Moves(a, r) /\ r.at = "done" /\ r.seen = 0 /\ r.known = 0
                            /\ r.loaded = 0
<1> DEFINE r == [NoRun EXCEPT !.at = "done"]
<1>1. r \in RunType /\ r.at = "done" /\ r.seen = 0 /\ r.known = 0 /\ r.loaded = 0
  BY NoRunType DEF RunType, Awaits
<1>2. run' = [run EXCEPT ![a] = r]
  BY DEF Leave
<1> HIDE DEF r
<1>3. Moves(a, r)
  BY <1>1, <1>2, Moving
<1> QED
  BY <1>1, <1>3

(* The row of the reply: the prompt it came from, and what it says. *)
LEMMA PersistOutboundMoves ==
  ASSUME Types, NEW a \in Attempts, PersistOutbound(a)
  PROVE  /\ run[a].at = "persist" /\ Leave(a) /\ UNCHANGED <<phone, attrs, log, edit, human>>
         /\ \E r \in RowType :
              /\ rows' = Append(rows, r) /\ r.how = run[a].how /\ r.lang = run[a].lang
              /\ r.read = run[a].seen /\ r.known = run[a].known /\ r.seen = run[a].loaded
              /\ r.how # "reason" => r.body = run[a].reply
<1> DEFINE body == IF run[a].how = "reason" THEN "user_intent_out_of_scope" ELSE run[a].reply
           r == Outbound(a, body)
<1>1. body \in Bodies /\ (run[a].how # "reason" => body = run[a].reply)
  <2>1. run[a].reply \in Replies \cup {""}
    BY RunTyped DEF RunType
  <2> QED
    BY <2>1 DEF Bodies
<1>2. rows' = Append(rows, r)
  BY DEF PersistOutbound
<1> HIDE DEF body
<1>4. /\ run[a].how \in Origins /\ run[a].lang \in Langs
      /\ run[a].seen \in Nat /\ run[a].known \in Nat /\ run[a].loaded \in Nat
  <2>1. run[a] \in RunType
    BY RunTyped
  <2> QED
    BY <2>1 DEF RunType
<1>3. /\ r \in RowType /\ r.how = run[a].how /\ r.lang = run[a].lang /\ r.body = body
      /\ r.read = run[a].seen /\ r.known = run[a].known /\ r.seen = run[a].loaded
  BY <1>1, <1>4 DEF Outbound, RowType
<1> HIDE DEF r
<1> QED
  BY <1>1, <1>2, <1>3 DEF PersistOutbound

(* The message of an operator is a row, too. *)
LEMMA HumanRow ==
  ASSUME Types, SendAsHuman
  PROVE  /\ human' \in 0..MaxHuman /\ UNCHANGED <<phone, attrs, log, edit, run>>
         /\ \E r \in RowType : /\ rows' = Append(rows, r) /\ r.read = 0 /\ r.known = 0
                               /\ r.lang = NoLang /\ r.how = "human"
<1> PICK b \in HumanTexts : rows' = Append(rows, [Inbound EXCEPT !.dir = "out", !.body = b, !.how = "human"])
  BY DEF SendAsHuman
<1> DEFINE r == [Inbound EXCEPT !.dir = "out", !.body = b, !.how = "human"]
<1>1. r \in RowType /\ r.read = 0 /\ r.known = 0 /\ r.lang = NoLang /\ r.how = "human"
  BY DEF Inbound, RowType, Bodies, Langs
<1> HIDE DEF r
<1>2. rows' = Append(rows, r)
  BY DEF r
<1>3. human' \in 0..MaxHuman
  <2>1. human < MaxHuman /\ human' = human + 1 /\ human \in 0..MaxHuman
    BY DEF SendAsHuman, Types
  <2> QED
    BY <2>1, Limits
<1> QED
  BY <1>1, <1>2, <1>3 DEF SendAsHuman

-------------------------------------------------------------------------------
(* The types of what a step leaves behind, part by part. *)
LEMMA MovedTypes ==
  ASSUME Types, NEW a \in Attempts, NEW r \in RunType, Moves(a, r),
         Len(log') \in Nat, Len(log') >= Len(log), Len(rows') \in Nat, Len(rows') >= Len(rows),
         r.seen <= Len(log'), r.known <= Len(log'), r.loaded <= Len(rows')
  PROVE  RunTypes'
<1>1. run' \in [Attempts -> RunType]
  BY DEF Moves
<1>2. ASSUME NEW b \in Attempts
      PROVE  run'[b].seen <= Len(log') /\ run'[b].known <= Len(log') /\ run'[b].loaded <= Len(rows')
  <2>1. CASE b = a
    BY <2>1 DEF Moves
  <2>2. CASE b # a
    <3>1. run'[b] = run[b]
      BY <2>2 DEF Moves
    <3> QED
      BY <3>1, RunTyped, LengthTypes
  <2> QED
    BY <2>1, <2>2
<1> QED
  BY <1>1, <1>2 DEF RunTypes

LEMMA StillRuns ==
  ASSUME Types, UNCHANGED run,
         Len(log') \in Nat, Len(log') >= Len(log), Len(rows') \in Nat, Len(rows') >= Len(rows)
  PROVE  RunTypes'
<1>1. ASSUME NEW b \in Attempts
      PROVE  run[b].seen <= Len(log') /\ run[b].known <= Len(log') /\ run[b].loaded <= Len(rows')
  BY RunTyped, LengthTypes
<1> QED
  BY <1>1 DEF Types, RunTypes

LEMMA StillRows ==
  ASSUME Types, UNCHANGED rows, Len(log') \in Nat, Len(log') >= Len(log)
  PROVE  RowTypes'
<1>1. ASSUME NEW i \in 1..Len(rows) PROVE rows[i].read <= Len(log') /\ rows[i].known <= Len(log')
  BY RowTyped, LengthTypes
<1> QED
  BY <1>1 DEF Types, RowTypes

LEMMA MoreRows ==
  ASSUME Types, NEW r \in RowType, rows' = Append(rows, r), UNCHANGED log,
         r.read <= Len(log), r.known <= Len(log)
  PROVE  RowTypes' /\ Len(rows') \in Nat /\ Len(rows') >= Len(rows)
<1>1. /\ rows' \in Seq(RowType) /\ Len(rows') = Len(rows) + 1 /\ rows'[Len(rows) + 1] = r
      /\ \A i \in 1..Len(rows) : rows'[i] = rows[i]
      /\ \A i \in 1..Len(rows') : i \in 1..Len(rows) \/ i = Len(rows) + 1
  BY AppendRow
<1>2. ASSUME NEW i \in 1..Len(rows') PROVE rows'[i].read <= Len(log') /\ rows'[i].known <= Len(log')
  <2>1. CASE i \in 1..Len(rows)
    BY <1>1, <2>1 DEF Types, RowTypes
  <2>2. CASE i = Len(rows) + 1
    BY <1>1, <2>2
  <2> QED
    BY <1>1, <2>1, <2>2
<1>3. Len(rows') \in Nat /\ Len(rows') >= Len(rows)
  BY <1>1, LengthTypes
<1> QED
  BY <1>1, <1>2, <1>3 DEF RowTypes

(* An attempt that changes neither rows nor contact. *)
LEMMA AloneTypes ==
  ASSUME Types, NEW a \in Attempts, NEW r \in RunType, Moves(a, r),
         UNCHANGED <<phone, rows, attrs, log, edit, human>>,
         r.seen <= Len(log), r.known <= Len(log), r.loaded <= Len(rows)
  PROVE  Types'
<1>1. Len(log) \in Nat /\ Len(rows) \in Nat
  BY LengthTypes
<1>2. Len(log') = Len(log) /\ Len(rows') = Len(rows)
  OBVIOUS
<1>3. RunTypes'
  BY <1>1, <1>2, MovedTypes
<1> QED
  BY <1>3 DEF Types, ContactTypes, RowTypes

LEMMA PersistInboundTypes == ASSUME Types, NEW a \in Attempts, PersistInbound(a) PROVE Types'
<1>1. rows' = Append(rows, Inbound) /\ UNCHANGED <<phone, attrs, log, edit, human>>
  BY PersistInboundMoves
<1> PICK r \in RunType : Moves(a, r) /\ SamePrompt(r, run[a]) /\ r.loaded = run[a].loaded
  BY PersistInboundMoves
<1>2. RowTypes' /\ Len(rows') \in Nat /\ Len(rows') >= Len(rows) /\ Len(log') = Len(log)
  BY <1>1, InboundType, LengthTypes, MoreRows
<1>3. r.seen <= Len(log) /\ r.known <= Len(log) /\ r.loaded <= Len(rows')
  BY <1>2, RunTyped, LengthTypes DEF SamePrompt
<1>4. RunTypes'
  BY <1>2, <1>3, LengthTypes, MovedTypes
<1> QED
  BY <1>1, <1>2, <1>4 DEF Types, ContactTypes

LEMMA ResolveLanguageTypes == ASSUME Types, NEW a \in Attempts, ResolveLanguage(a) PROVE Types'
<1> PICK r \in RunType : Moves(a, r) /\ r.seen = Len(log) /\ r.known = Len(log) /\ r.loaded = run[a].loaded
  BY ResolveLanguageMoves
<1>1. r.seen <= Len(log) /\ r.known <= Len(log) /\ r.loaded <= Len(rows)
  BY RunTyped, LengthTypes
<1> QED
  BY <1>1, ResolveLanguageMoves, AloneTypes

LEMMA SaveLanguageTypes == ASSUME Types, NEW a \in Attempts, SaveLanguage(a) PROVE Types'
<1> PICK c \in CommitType : log' = Append(log, c)
  BY SaveLanguageMoves
<1> PICK r \in RunType : /\ Moves(a, r) /\ r.seen = run[a].seen /\ r.known = Len(log) + 1
                         /\ r.loaded = run[a].loaded
  BY SaveLanguageMoves
<1>1. UNCHANGED <<phone, rows, edit, human>> /\ attrs' = [run[a].base EXCEPT !["preferred_language"] = run[a].lang]
  BY SaveLanguageMoves
<1>2. log' \in Seq(CommitType) /\ Len(log') = Len(log) + 1 /\ Len(log') \in Nat /\ Len(log') >= Len(log)
  BY AppendCommit, LengthTypes
<1>3. attrs' \in [Keys -> Langs]
  BY <1>1, RunTyped
<1>4. ContactTypes'
  <2>1. \A q \in Edits : edit[q].seen \in Nat /\ edit[q].seen <= Len(log)
    BY DEF Types, ContactTypes, EditType
  <2>2. \A q \in Edits : edit'[q].seen <= Len(log')
    BY <1>1, <1>2, <2>1, LengthTypes
  <2> QED
    BY <1>1, <1>2, <1>3, <2>2 DEF Types, ContactTypes
<1>5. RowTypes'
  BY <1>1, <1>2, StillRows
<1>6. r.seen <= Len(log') /\ r.known <= Len(log') /\ r.loaded <= Len(rows')
  BY <1>1, <1>2, RunTyped, LengthTypes
<1>7. RunTypes'
  BY <1>1, <1>2, <1>6, LengthTypes, MovedTypes
<1> QED
  BY <1>1, <1>4, <1>5, <1>7 DEF Types

LEMMA LoadHistoryTypes == ASSUME Types, NEW a \in Attempts, LoadHistory(a) PROVE Types'
<1> PICK r \in RunType : Moves(a, r) /\ SamePrompt(r, run[a]) /\ r.loaded = Len(rows)
  BY LoadHistoryMoves
<1>1. r.seen <= Len(log) /\ r.known <= Len(log) /\ r.loaded <= Len(rows)
  BY RunTyped, LengthTypes DEF SamePrompt
<1> QED
  BY <1>1, LoadHistoryMoves, AloneTypes

LEMMA ReplyTypes == ASSUME Types, NEW a \in Attempts, Answer(a) \/ Regenerate(a) PROVE Types'
<1> PICK r \in RunType : Moves(a, r) /\ SamePrompt(r, run[a]) /\ r.loaded = run[a].loaded
  BY AnswerMoves, RegenerateMoves
<1>1. r.seen <= Len(log) /\ r.known <= Len(log) /\ r.loaded <= Len(rows)
  BY RunTyped, LengthTypes DEF SamePrompt
<1>2. UNCHANGED <<phone, rows, attrs, log, edit, human>>
  BY AnswerMoves, RegenerateMoves
<1> QED
  BY <1>1, <1>2, AloneTypes

LEMMA PersistOutboundTypes == ASSUME Types, NEW a \in Attempts, PersistOutbound(a) PROVE Types'
<1>1. Leave(a) /\ UNCHANGED <<phone, attrs, log, edit, human>>
  BY PersistOutboundMoves
<1> PICK w \in RowType : rows' = Append(rows, w) /\ w.read = run[a].seen /\ w.known = run[a].known
  BY PersistOutboundMoves
<1> PICK r \in RunType : Moves(a, r) /\ r.seen = 0 /\ r.known = 0 /\ r.loaded = 0
  BY <1>1, LeaveMoves
<1>2. RowTypes' /\ Len(rows') \in Nat /\ Len(rows') >= Len(rows) /\ Len(log') = Len(log)
  BY <1>1, RunTyped, LengthTypes, MoreRows
<1>3. RunTypes'
  BY <1>2, LengthTypes, MovedTypes
<1> QED
  BY <1>1, <1>2, <1>3 DEF Types, ContactTypes

LEMMA BreakOffTypes == ASSUME Types, NEW a \in Attempts, BreakOff(a) PROVE Types'
<1>1. Leave(a) /\ UNCHANGED <<phone, rows, attrs, log, edit, human>>
  BY DEF BreakOff
<1> PICK r \in RunType : Moves(a, r) /\ r.seen = 0 /\ r.known = 0 /\ r.loaded = 0
  BY <1>1, LeaveMoves
<1> QED
  BY <1>1, LengthTypes, AloneTypes

LEMMA SendAsHumanTypes == ASSUME Types, SendAsHuman PROVE Types'
<1>1. human' \in 0..MaxHuman /\ UNCHANGED <<phone, attrs, log, edit, run>>
  BY HumanRow
<1> PICK r \in RowType : rows' = Append(rows, r) /\ r.read = 0 /\ r.known = 0
  BY HumanRow
<1>2. RowTypes' /\ Len(rows') \in Nat /\ Len(rows') >= Len(rows) /\ Len(log') = Len(log)
  BY <1>1, LengthTypes, MoreRows
<1>3. RunTypes'
  BY <1>1, <1>2, LengthTypes, StillRuns
<1> QED
  BY <1>1, <1>2, <1>3 DEF Types, ContactTypes

LEMMA LoadContactTypes == ASSUME Types, NEW q \in Edits, LoadContact(q) PROVE Types'
<1> PICK k \in Keys, v \in Values : edit' = [edit EXCEPT ![q] =
       [at |-> "loaded", base |-> attrs, key |-> k, value |-> v, seen |-> Len(log)]]
  BY DEF LoadContact
<1>1. [at |-> "loaded", base |-> attrs, key |-> k, value |-> v, seen |-> Len(log)] \in EditType
  BY LengthTypes DEF EditType, Langs, Types, ContactTypes
<1>2. ContactTypes'
  BY <1>1, LengthTypes DEF LoadContact, Types, ContactTypes
<1> QED
  BY <1>2 DEF LoadContact, Types, RowTypes, RunTypes

(* An edit commits what it merged, or nothing. *)
LEMMA EditCommits ==
  ASSUME Types, NEW q \in Edits, UpdateContact(q)
  PROVE  \/ UNCHANGED <<attrs, log>>
         \/ \E c \in CommitType :
              /\ log' = Append(log, c) /\ attrs' = [edit[q].base EXCEPT ![c.key] = c.value]
              /\ c.by = "edit" /\ c.key = edit[q].key /\ c.seen = edit[q].seen
              /\ attrs' \in [Keys -> Langs]
<1>1. edit[q] \in EditType
  BY DEF Types, ContactTypes
<1> DEFINE c == [by |-> "edit", key |-> edit[q].key, value |-> edit[q].value, seen |-> edit[q].seen]
<1>2. c \in CommitType /\ c.by = "edit" /\ c.key = edit[q].key /\ c.value = edit[q].value
      /\ c.seen = edit[q].seen
  BY <1>1 DEF CommitType, EditType
<1>3. Merged(q) = [edit[q].base EXCEPT ![edit[q].key] = edit[q].value] /\ Merged(q) \in [Keys -> Langs]
  BY <1>1 DEF Merged, EditType
<1>4. UNCHANGED <<attrs, log>> \/ (attrs' = Merged(q) /\ log' = Append(log, c))
  BY DEF UpdateContact
<1> HIDE DEF c
<1> QED
  BY <1>2, <1>3, <1>4

LEMMA UpdateContactTypes == ASSUME Types, NEW q \in Edits, UpdateContact(q) PROVE Types'
<1>1. edit' = [edit EXCEPT ![q] = [edit[q] EXCEPT !.at = "done"]] /\ UNCHANGED <<phone, rows, run, human>>
  BY DEF UpdateContact
<1>2. edit' \in [Edits -> EditType] /\ \A p \in Edits : edit'[p].seen = edit[p].seen
  BY <1>1 DEF Types, ContactTypes, EditType
<1>3. Len(log') \in Nat /\ Len(log') >= Len(log) /\ log' \in Seq(CommitType) /\ attrs' \in [Keys -> Langs]
  BY EditCommits, AppendCommit, LengthTypes DEF Types, ContactTypes
<1>4. ContactTypes'
  BY <1>2, <1>3, LengthTypes DEF Types, ContactTypes, EditType
<1>5. RowTypes' /\ RunTypes'
  BY <1>1, <1>3, LengthTypes, StillRows, StillRuns
<1> QED
  BY <1>1, <1>4, <1>5 DEF Types

LEMMA TypeInductive == ASSUME Types, [Next]_vars PROVE Types'
<1>1. ASSUME NEW a \in Attempts, Process(a) \/ BreakOff(a) PROVE Types'
  BY <1>1, PersistInboundTypes, ResolveLanguageTypes, SaveLanguageTypes, LoadHistoryTypes,
     ReplyTypes, PersistOutboundTypes, BreakOffTypes DEF Process
<1>2. CASE SendAsHuman
  BY <1>2, SendAsHumanTypes
<1>3. ASSUME NEW q \in Edits, LoadContact(q) \/ UpdateContact(q) PROVE Types'
  BY <1>3, LoadContactTypes, UpdateContactTypes
<1>4. CASE UNCHANGED vars
  BY <1>4 DEF vars, Types, ContactTypes, RowTypes, RunTypes
<1> QED
  BY <1>1, <1>2, <1>3, <1>4 DEF Next

LEMMA TypesAtFirst == ASSUME Init PROVE Types
<1>1. Unset \in [Keys -> Langs] /\ NoEdit \in EditType /\ NoEdit.seen = 0
  <2>1. NoLang \in Langs /\ Unset \in [Keys -> Langs]
    BY NoRunType DEF Langs
  <2> QED
    BY <2>1 DEF NoEdit, EditType, Keys
<1>2. /\ rows = <<>> /\ log = <<>> /\ attrs = Unset /\ phone \in PhoneLangs /\ human = 0
      /\ edit = [q \in Edits |-> NoEdit] /\ run = [a \in Attempts |-> NoRun]
  BY DEF Init
<1>3. rows \in Seq(RowType) /\ log \in Seq(CommitType) /\ Len(rows) = 0 /\ Len(log) = 0
  BY <1>2
<1>4. ContactTypes
  <2>1. edit \in [Edits -> EditType] /\ \A q \in Edits : edit[q].seen = 0
    BY <1>1, <1>2
  <2>2. \A q \in Edits : edit[q].seen <= Len(log)
    BY <1>3, <2>1
  <2> QED
    BY <1>1, <1>2, <1>3, <2>1, <2>2 DEF ContactTypes
<1>5. RunTypes
  <2>1. run \in [Attempts -> RunType] /\ \A a \in Attempts : run[a] = NoRun
    BY <1>2, NoRunType
  <2>2. \A a \in Attempts : run[a].seen = 0 /\ run[a].known = 0 /\ run[a].loaded = 0
    BY <2>1, NoRunType
  <2>3. ASSUME NEW a \in Attempts
        PROVE  run[a].seen <= Len(log) /\ run[a].known <= Len(log) /\ run[a].loaded <= Len(rows)
    <3>1. run[a].seen = 0 /\ run[a].known = 0 /\ run[a].loaded = 0
      BY <2>2
    <3>2. 0 <= 0
      OBVIOUS
    <3> QED
      BY <1>3, <3>1, <3>2, Zenon
  <2> QED
    BY <2>1, <2>3 DEF RunTypes
<1>6. RowTypes
  BY <1>3 DEF RowTypes
<1>7. human \in 0..MaxHuman
  BY <1>2, Limits
<1> QED
  BY <1>2, <1>4, <1>5, <1>6, <1>7 DEF Types

LEMMA TypesAlways == Spec => []Types
  BY TypesAtFirst, TypeInductive, PTL DEF Spec

(* Types, and that attempts and edits read commits and rows that exist. *)
THEOREM TypeCorrect == Spec => []TypeOK
<1>1. ASSUME Types PROVE TypeOK
  <2>1. \A a \in Attempts :
          /\ run[a].at \in Awaits /\ run[a].seen \in 0..Len(log) /\ run[a].known \in 0..Len(log)
          /\ run[a].loaded \in 0..Len(rows) /\ run[a].how \in Origins
    BY <1>1, RunTyped
  <2>2. ASSUME NEW q \in Edits PROVE edit[q].at \in {"new", "loaded", "done"} /\ edit[q].seen \in 0..Len(log)
    <3>1. edit[q] \in EditType /\ edit[q].seen <= Len(log)
      BY <1>1 DEF Types, ContactTypes
    <3>2. edit[q].at \in {"new", "loaded", "done"} /\ edit[q].seen \in Nat
      BY <3>1 DEF EditType
    <3> QED
      BY <1>1, <3>1, <3>2, LengthTypes
  <2> QED
    BY <1>1, <2>1, <2>2 DEF Types, TypeOK, Awaits, Origins
<1> QED
  BY <1>1, TypesAlways, PTL

-------------------------------------------------------------------------------
(* The first n commits of l are in the attributes a, but for those written   *)
(* over by one of the same key or by a writer that had not seen them.      *)
Keeps(l, a, n) ==
  \A i \in 1..n :
    \/ a[l[i].key] = l[i].value
    \/ \E j \in 1..n : i < j /\ (l[j].key = l[i].key \/ l[j].seen < i)

(* The stored attributes hold the log, and what a writer read holds the part  *)
(* of the log it had seen: this is what writing the whole column relies on. *)
KeptInv ==
  /\ Keeps(log, attrs, Len(log))
  /\ \A q \in Edits : edit[q].at = "loaded" => Keeps(log, edit[q].base, edit[q].seen)
  /\ \A a \in Attempts : run[a].at = "save" => Keeps(log, run[a].base, run[a].seen)

LEMMA StillKeeps ==
  ASSUME Types, NEW c \in CommitType, log' = Append(log, c),
         NEW a, NEW n \in 0..Len(log), Keeps(log, a, n)
  PROVE  Keeps(log', a, n)
<1>1. \A i \in 1..n : log'[i] = log[i]
  BY AppendCommit, LengthTypes
<1> QED
  BY <1>1 DEF Keeps

(* A writer puts back all it had read with its key set. *)
LEMMA WriteBack ==
  ASSUME Types, NEW c \in CommitType, log' = Append(log, c), c.seen <= Len(log),
         NEW a \in [Keys -> Langs], Keeps(log, a, c.seen)
  PROVE  Keeps(log', [a EXCEPT ![c.key] = c.value], Len(log'))
<1> DEFINE b == [a EXCEPT ![c.key] = c.value]
<1>1. /\ Len(log) \in Nat /\ Len(log') = Len(log) + 1 /\ log'[Len(log) + 1] = c
      /\ \A i \in 1..Len(log) : log'[i] = log[i] /\ log[i] \in CommitType
  BY AppendCommit, LengthTypes DEF Types, ContactTypes
<1>2. c.key \in Keys /\ c.seen \in Nat
  BY DEF CommitType
<1>3. b[c.key] = c.value /\ \A k \in Keys : k # c.key => b[k] = a[k]
  BY <1>2
<1> HIDE DEF b
<1> SUFFICES ASSUME NEW i \in 1..Len(log')
             PROVE  \/ b[log'[i].key] = log'[i].value
                    \/ \E j \in 1..Len(log') : i < j /\ (log'[j].key = log'[i].key \/ log'[j].seen < i)
  BY DEF Keeps, b
<1>4. CASE i = Len(log) + 1
  BY <1>1, <1>3, <1>4
<1>5. CASE i \in 1..Len(log)
  <2>1. Len(log) + 1 \in 1..Len(log') /\ i < Len(log) + 1
    BY <1>1, <1>5
  <2>2. CASE log[i].key = c.key \/ c.seen < i
    BY <1>1, <1>5, <2>1, <2>2
  <2>3. CASE log[i].key # c.key /\ i <= c.seen
    <3>1. i \in 1..c.seen /\ log[i].key \in Keys
      BY <1>1, <1>2, <1>5, <2>3 DEF CommitType
    <3>2. CASE a[log[i].key] = log[i].value
      BY <1>1, <1>3, <1>5, <2>3, <3>1, <3>2
    <3>3. ASSUME NEW j \in 1..c.seen, i < j, log[j].key = log[i].key \/ log[j].seen < i
          PROVE  \E k \in 1..Len(log') : i < k /\ (log'[k].key = log'[i].key \/ log'[k].seen < i)
      <4>1. j \in 1..Len(log) /\ j \in 1..Len(log')
        BY <1>1, <1>2
      <4> QED
        BY <1>1, <1>5, <3>3, <4>1
    <3> QED
      BY <3>1, <3>2, <3>3 DEF Keeps
  <2> QED
    BY <1>2, <2>2, <2>3
<1> QED
  BY <1>1, <1>4, <1>5

(* Steps of an attempt after which nobody holds more of the attributes. *)
LEMMA QuietKept ==
  ASSUME KeptInv, UNCHANGED <<attrs, log, edit>>,
         NEW a \in Attempts, NEW r \in RunType, Moves(a, r), r.at # "save"
  PROVE  KeptInv'
<1>1. ASSUME NEW b \in Attempts, run'[b].at = "save" PROVE run'[b] = run[b]
  BY <1>1 DEF Moves
<1> QED
  BY <1>1 DEF KeptInv

LEMMA ResolveKept == ASSUME Types, KeptInv, NEW a \in Attempts, ResolveLanguage(a) PROVE KeptInv'
<1> PICK r \in RunType : Moves(a, r) /\ r.base = attrs /\ r.seen = Len(log)
  BY ResolveLanguageMoves
<1>1. UNCHANGED <<attrs, log, edit>>
  BY ResolveLanguageMoves
<1>2. ASSUME NEW b \in Attempts, run'[b].at = "save" PROVE Keeps(log, run'[b].base, run'[b].seen)
  <2>1. CASE b = a
    BY <2>1 DEF Moves, KeptInv
  <2>2. CASE b # a
    BY <1>2, <2>2 DEF Moves, KeptInv
  <2> QED
    BY <2>1, <2>2
<1> QED
  BY <1>1, <1>2 DEF KeptInv

(* After a commit, everyone else keeps what they had. *)
LEMMA OthersKept ==
  ASSUME Types, KeptInv, NEW c \in CommitType, log' = Append(log, c)
  PROVE  /\ \A q \in Edits : edit[q].at = "loaded" => Keeps(log', edit[q].base, edit[q].seen)
         /\ \A a \in Attempts : run[a].at = "save" => Keeps(log', run[a].base, run[a].seen)
<1>1. ASSUME NEW q \in Edits, edit[q].at = "loaded" PROVE Keeps(log', edit[q].base, edit[q].seen)
  <2>1. edit[q].seen \in 0..Len(log)
    BY LengthTypes DEF Types, ContactTypes, EditType
  <2> QED
    BY <1>1, <2>1, StillKeeps DEF KeptInv
<1>2. ASSUME NEW a \in Attempts, run[a].at = "save" PROVE Keeps(log', run[a].base, run[a].seen)
  <2>1. run[a].seen \in 0..Len(log)
    BY RunTyped
  <2> QED
    BY <1>2, <2>1, StillKeeps DEF KeptInv
<1> QED
  BY <1>1, <1>2

LEMMA SaveKept == ASSUME Types, KeptInv, NEW a \in Attempts, SaveLanguage(a) PROVE KeptInv'
<1> PICK c \in CommitType : /\ log' = Append(log, c) /\ c.key = "preferred_language"
                            /\ c.value = run[a].lang /\ c.seen = run[a].seen
  BY SaveLanguageMoves
<1> PICK r \in RunType : Moves(a, r) /\ r.at = "history"
  BY SaveLanguageMoves
<1>1. /\ run[a].at = "save" /\ UNCHANGED edit
      /\ attrs' = [run[a].base EXCEPT !["preferred_language"] = run[a].lang]
  BY SaveLanguageMoves
<1>2. c.seen <= Len(log) /\ run[a].base \in [Keys -> Langs] /\ Keeps(log, run[a].base, c.seen)
  <2>1. run[a].seen \in 0..Len(log) /\ run[a].base \in [Keys -> Langs]
    BY RunTyped
  <2>2. Keeps(log, run[a].base, run[a].seen)
    BY <1>1 DEF KeptInv
  <2> QED
    BY <2>1, <2>2, LengthTypes
<1>3. Keeps(log', attrs', Len(log'))
  BY <1>1, <1>2, WriteBack
<1>4. ASSUME NEW b \in Attempts, run'[b].at = "save" PROVE Keeps(log', run'[b].base, run'[b].seen)
  <2>1. run'[b] = run[b]
    BY <1>4 DEF Moves
  <2> QED
    BY <1>4, <2>1, OthersKept
<1> QED
  BY <1>1, <1>3, <1>4, OthersKept DEF KeptInv

LEMMA EditKept == ASSUME Types, KeptInv, NEW q \in Edits, UpdateContact(q) PROVE KeptInv'
<1>1. edit[q].at = "loaded" /\ UNCHANGED run
      /\ \A p \in Edits : edit'[p].at = "loaded" => p # q /\ edit'[p] = edit[p]
  <2>1. edit' = [edit EXCEPT ![q] = [edit[q] EXCEPT !.at = "done"]] /\ edit[q].at = "loaded"
    BY DEF UpdateContact
  <2>2. edit'[q].at = "done"
    BY <2>1 DEF Types, ContactTypes, EditType
  <2> QED
    BY <2>1, <2>2 DEF UpdateContact, Types, ContactTypes
<1>2. CASE UNCHANGED <<attrs, log>>
  BY <1>1, <1>2 DEF KeptInv
<1>3. ASSUME NEW c \in CommitType, log' = Append(log, c),
             attrs' = [edit[q].base EXCEPT ![c.key] = c.value], c.seen = edit[q].seen
      PROVE  KeptInv'
  <2>1. edit[q].seen <= Len(log) /\ edit[q].base \in [Keys -> Langs]
    BY DEF Types, ContactTypes, EditType
  <2>2. Keeps(log', attrs', Len(log'))
    BY <1>1, <1>3, <2>1, WriteBack DEF KeptInv
  <2> QED
    BY <1>1, <1>3, <2>2, OthersKept DEF KeptInv
<1> QED
  BY <1>2, <1>3, EditCommits

LEMMA LoadKept == ASSUME Types, KeptInv, NEW q \in Edits, LoadContact(q) PROVE KeptInv'
<1>1. PICK k \in Keys, v \in Values : edit' = [edit EXCEPT ![q] =
         [at |-> "loaded", base |-> attrs, key |-> k, value |-> v, seen |-> Len(log)]]
  BY DEF LoadContact
<1>2. edit'[q].base = attrs /\ edit'[q].seen = Len(log) /\ \A p \in Edits : p # q => edit'[p] = edit[p]
  BY <1>1 DEF Types, ContactTypes
<1>3. UNCHANGED <<attrs, log, run>>
  BY DEF LoadContact
<1> QED
  BY <1>2, <1>3 DEF KeptInv

LEMMA KeptInductive == ASSUME Types, KeptInv, [Next]_vars PROVE KeptInv'
<1>1. ASSUME NEW a \in Attempts,
             PersistInbound(a) \/ LoadHistory(a) \/ Answer(a) \/ Regenerate(a) \/ PersistOutbound(a) \/ BreakOff(a)
      PROVE  KeptInv'
  <2>1. UNCHANGED <<attrs, log, edit>>
    BY <1>1 DEF PersistInbound, LoadHistory, Answer, Regenerate, PersistOutbound, BreakOff
  <2>2. CASE PersistInbound(a)
    BY <2>1, <2>2, PersistInboundMoves, QuietKept
  <2>3. CASE LoadHistory(a)
    BY <2>1, <2>3, LoadHistoryMoves, QuietKept
  <2>4. CASE Answer(a)
    BY <2>1, <2>4, AnswerMoves, QuietKept
  <2>5. CASE Regenerate(a)
    BY <2>1, <2>5, RegenerateMoves, QuietKept
  <2>6. CASE PersistOutbound(a) \/ BreakOff(a)
    <3>1. Leave(a)
      BY <2>6 DEF PersistOutbound, BreakOff
    <3> QED
      BY <2>1, <3>1, LeaveMoves, QuietKept
  <2> QED
    BY <1>1, <2>2, <2>3, <2>4, <2>5, <2>6
<1>2. CASE SendAsHuman
  BY <1>2 DEF SendAsHuman, KeptInv
<1>3. CASE UNCHANGED vars
  BY <1>3 DEF vars, KeptInv
<1> QED
  BY <1>1, <1>2, <1>3, ResolveKept, SaveKept, EditKept, LoadKept DEF Next, Process

(* An attribute that was written is there until it is written again, or until
   a writer puts back what it had read before: for any edits and attempts. *)
THEOREM Kept == Spec => []AttributesKept
<1>1. Init => KeptInv
  <2> SUFFICES ASSUME Init PROVE KeptInv
    OBVIOUS
  <2>1. log = <<>> /\ (\A q \in Edits : edit[q].at = "new") /\ (\A a \in Attempts : run[a].at = "new")
    BY NoRunType DEF Init, NoEdit
  <2> QED
    BY <2>1 DEF KeptInv, Keeps
<1>2. Types /\ KeptInv => AttributesKept
  <2> SUFFICES ASSUME Types, KeptInv PROVE AttributesKept
    OBVIOUS
  <2>1. DOMAIN log = 1..Len(log)
    BY DEF Types, ContactTypes
  <2> QED
    BY <2>1 DEF KeptInv, Keeps, AttributesKept
<1> QED
  BY <1>1, <1>2, TypesAlways, KeptInductive, PTL DEF Spec

-------------------------------------------------------------------------------
(* Of the commits after the first k, up to the n-th, one is an operator's, or *)
(* puts back what was read before the k-th.                                *)
Upset(l, k, n) == \E m \in (k + 1)..n : l[m].by = "edit" \/ l[m].seen < k

Stored == attrs["preferred_language"]
Prompted(a) == run[a].at \in {"history", "ask", "again", "persist"}
Replied(j) == rows[j].how \in Origins
Tongues == Langs \ {NoLang}

(* A reply, or an attempt that will give one, has language t, which the       *)
(* contact had as of commit k.                                             *)
Knows(t, k) ==
  \/ \E i \in 1..Len(rows) : rows[i].lang = t /\ rows[i].known = k
  \/ \E a \in Attempts : Prompted(a) /\ run[a].lang = t /\ run[a].known = k

(* The contact has it still, unless upset. *)
StoredInv == \A t \in Tongues, k \in Nat : Knows(t, k) => Stored = t \/ Upset(log, k, Len(log))

(* So has every attempt that read the contact since; none that found no       *)
(* language did, unless upset.                                             *)
PromptInv ==
  \A t \in Tongues, k \in Nat, a \in Attempts : Knows(t, k) /\ k <= run[a].seen =>
    /\ run[a].at = "save" => Upset(log, k, run[a].seen)
    /\ Prompted(a) => run[a].lang = t \/ Upset(log, k, run[a].seen)

(* What an attempt that saw all commits has is what is stored. *)
FreshInv ==
  \A a \in Attempts : run[a].seen = Len(log) =>
    /\ run[a].at = "save" => Stored = NoLang
    /\ Prompted(a) => run[a].lang = Stored

Sticks ==
  \A i, j \in 1..Len(rows) : i < j /\ rows[i].lang # NoLang /\ Replied(j) =>
    \/ rows[j].lang = rows[i].lang \/ rows[j].read < rows[i].known
    \/ Upset(log, rows[i].known, rows[j].read)

AttemptsAgree == StoredInv /\ PromptInv /\ FreshInv
LangInv == AttemptsAgree /\ Sticks

LEMMA KnownSeen == ASSUME Types, NEW t, NEW k, Knows(t, k) PROVE k \in 0..Len(log)
  BY RowTyped, RunTyped DEF Knows

LEMMA UpsetStays ==
  ASSUME Types, NEW c \in CommitType, log' = Append(log, c),
         NEW k \in Nat, NEW n \in 0..Len(log), Upset(log, k, n)
  PROVE  Upset(log', k, n) /\ Upset(log', k, Len(log'))
<1>1. Len(log) \in Nat /\ Len(log') = Len(log) + 1 /\ \A i \in 1..Len(log) : log'[i] = log[i]
  BY AppendCommit, LengthTypes
<1>2. PICK m \in (k + 1)..n : log[m].by = "edit" \/ log[m].seen < k
  BY DEF Upset
<1>3. m \in 1..Len(log) /\ m \in (k + 1)..Len(log')
  BY <1>1
<1> QED
  BY <1>1, <1>2, <1>3 DEF Upset

LEMMA NewUpset ==
  ASSUME Types, NEW c \in CommitType, log' = Append(log, c), NEW k \in 0..Len(log),
         c.by = "edit" \/ c.seen < k
  PROVE  Upset(log', k, Len(log'))
<1>1. Len(log) \in Nat /\ Len(log') = Len(log) + 1 /\ log'[Len(log) + 1] = c
  BY AppendCommit, LengthTypes
<1>2. Len(log) + 1 \in (k + 1)..Len(log')
  BY <1>1
<1> QED
  BY <1>1, <1>2 DEF Upset

-------------------------------------------------------------------------------
(* Steps after which attempts and rows know what they knew, or less. *)
Less ==
  /\ \A t \in Tongues, k \in Nat : Knows(t, k)' => Knows(t, k)
  /\ \A a \in Attempts :
       /\ run'[a].at = "save" => run[a].at = "save" /\ run'[a].seen = run[a].seen
       /\ Prompted(a)' => Prompted(a) /\ run'[a].seen = run[a].seen /\ run'[a].lang = run[a].lang

LEMMA LessAgrees ==
  ASSUME AttemptsAgree, Less, UNCHANGED <<attrs, log>>
  PROVE  AttemptsAgree'
<1>1. StoredInv'
  BY DEF AttemptsAgree, Less, StoredInv, Stored
<1>2. PromptInv'
  <2> SUFFICES ASSUME NEW t \in Tongues, NEW k \in Nat, NEW a \in Attempts,
                      Knows(t, k)', k <= run'[a].seen
               PROVE  /\ run'[a].at = "save" => Upset(log, k, run'[a].seen)
                      /\ Prompted(a)' => run'[a].lang = t \/ Upset(log, k, run'[a].seen)
    BY DEF PromptInv
  <2>1. Knows(t, k)
    BY DEF Less
  <2> QED
    BY <2>1 DEF AttemptsAgree, Less, PromptInv
<1>3. FreshInv'
  BY DEF AttemptsAgree, Less, FreshInv, Stored
<1> QED
  BY <1>1, <1>2, <1>3 DEF AttemptsAgree

LEMMA QuietLess ==
  ASSUME UNCHANGED rows, NEW a \in Attempts, NEW r \in RunType, Moves(a, r), r.at # "save",
         \/ r.at \notin {"history", "ask", "again", "persist"}
         \/ Prompted(a) /\ SamePrompt(r, run[a])
  PROVE  Less
<1>1. ASSUME NEW b \in Attempts
      PROVE  /\ run'[b].at = "save" => run[b].at = "save" /\ run'[b].seen = run[b].seen
             /\ Prompted(b)' => /\ Prompted(b) /\ run'[b].seen = run[b].seen
                                /\ run'[b].lang = run[b].lang /\ run'[b].known = run[b].known
  <2>1. CASE b = a
    BY <2>1 DEF Moves, Prompted, SamePrompt
  <2>2. CASE b # a
    BY <2>2 DEF Moves, Prompted
  <2> QED
    BY <2>1, <2>2
<1>2. ASSUME NEW t \in Tongues, NEW k \in Nat, Knows(t, k)' PROVE Knows(t, k)
  BY <1>1, <1>2 DEF Knows
<1> QED
  BY <1>1, <1>2 DEF Less

(* A row without a language tells nothing. *)
LEMMA PlainLess ==
  ASSUME Types, NEW w \in RowType, rows' = Append(rows, w), w.lang = NoLang,
         \A a \in Attempts :
           /\ run'[a].at = "save" => run[a].at = "save" /\ run'[a].seen = run[a].seen
           /\ Prompted(a)' => /\ Prompted(a) /\ run'[a].seen = run[a].seen
                              /\ run'[a].lang = run[a].lang /\ run'[a].known = run[a].known
  PROVE  Less
<1>1. ASSUME NEW t \in Tongues, NEW k \in Nat, Knows(t, k)' PROVE Knows(t, k)
  <2>1. CASE \E i \in 1..Len(rows') : rows'[i].lang = t /\ rows'[i].known = k
    <3>1. PICK i \in 1..Len(rows') : rows'[i].lang = t /\ rows'[i].known = k
      BY <2>1
    <3>2. i \in 1..Len(rows) /\ rows'[i] = rows[i]
      BY <3>1, AppendRow DEF Tongues
    <3> QED
      BY <3>1, <3>2 DEF Knows
  <2>2. CASE \E a \in Attempts : Prompted(a)' /\ run'[a].lang = t /\ run'[a].known = k
    BY <2>2 DEF Knows
  <2> QED
    BY <1>1, <2>1, <2>2 DEF Knows
<1> QED
  BY <1>1 DEF Less

(* Replies already given agree when a row is added that agrees with them. *)
LEMMA SticksOn ==
  ASSUME Types, Sticks, UNCHANGED log, NEW w \in RowType, rows' = Append(rows, w),
         w.how \in Origins =>
           \A i \in 1..Len(rows) : rows[i].lang # NoLang =>
             \/ w.lang = rows[i].lang \/ w.read < rows[i].known
             \/ Upset(log, rows[i].known, w.read)
  PROVE  Sticks'
<1>1. /\ Len(rows) \in Nat /\ Len(rows') = Len(rows) + 1 /\ rows'[Len(rows) + 1] = w
      /\ \A i \in 1..Len(rows) : rows'[i] = rows[i]
      /\ \A i \in 1..Len(rows') : i \in 1..Len(rows) \/ i = Len(rows) + 1
  BY AppendRow, LengthTypes
<1> SUFFICES ASSUME NEW i \in 1..Len(rows'), NEW j \in 1..Len(rows'),
                    i < j, rows'[i].lang # NoLang, Replied(j)'
             PROVE  \/ rows'[j].lang = rows'[i].lang \/ rows'[j].read < rows'[i].known
                    \/ Upset(log', rows'[i].known, rows'[j].read)
  BY DEF Sticks
<1>2. i \in 1..Len(rows)
  BY <1>1
<1>3. CASE j \in 1..Len(rows)
  BY <1>1, <1>2, <1>3 DEF Sticks, Replied
<1>4. CASE j = Len(rows) + 1
  BY <1>1, <1>2, <1>4 DEF Replied
<1> QED
  BY <1>1, <1>3, <1>4

(* Replies already given agree whatever is committed later. *)
LEMMA SticksStill ==
  ASSUME Types, Sticks, NEW c \in CommitType, log' = Append(log, c), UNCHANGED rows
  PROVE  Sticks'
<1> SUFFICES ASSUME NEW i \in 1..Len(rows), NEW j \in 1..Len(rows),
                    i < j, rows[i].lang # NoLang, Replied(j)
             PROVE  \/ rows[j].lang = rows[i].lang \/ rows[j].read < rows[i].known
                    \/ Upset(log', rows[i].known, rows[j].read)
  BY DEF Sticks, Replied
<1>1. rows[i].known \in Nat /\ rows[j].read \in 0..Len(log)
  BY RowTyped
<1>2. Upset(log, rows[i].known, rows[j].read) => Upset(log', rows[i].known, rows[j].read)
  BY <1>1, UpsetStays
<1> QED
  BY <1>2 DEF Sticks

-------------------------------------------------------------------------------
LEMMA ResolveLang == ASSUME Types, LangInv, NEW a \in Attempts, ResolveLanguage(a) PROVE LangInv'
<1> PICK r \in RunType :
      /\ Moves(a, r) /\ r.seen = Len(log) /\ r.known = Len(log)
      /\ \/ r.at = "save" /\ Stored = NoLang
         \/ r.at = "history" /\ r.lang = Stored
  BY ResolveLanguageMoves DEF Stored
<1>1. UNCHANGED <<rows, attrs, log>> /\ Len(log) \in Nat /\ Stored' = Stored
  BY ResolveLanguageMoves, LengthTypes DEF Stored
<1>2. run'[a] = r /\ \A b \in Attempts : b # a => run'[b] = run[b]
  BY DEF Moves
<1>3. ASSUME NEW t \in Tongues, NEW k \in Nat, Knows(t, k)'
      PROVE  Knows(t, k) \/ (k = Len(log) /\ t = Stored)
  <2>1. CASE \E i \in 1..Len(rows') : rows'[i].lang = t /\ rows'[i].known = k
    BY <1>1, <2>1 DEF Knows
  <2>2. ASSUME NEW b \in Attempts, Prompted(b)', run'[b].lang = t, run'[b].known = k
        PROVE  Knows(t, k) \/ (k = Len(log) /\ t = Stored)
    <3>1. CASE b = a
      BY <1>2, <2>2, <3>1 DEF Prompted
    <3>2. CASE b # a
      BY <1>2, <2>2, <3>2 DEF Prompted, Knows
    <3> QED
      BY <3>1, <3>2
  <2> QED
    BY <1>3, <2>1, <2>2 DEF Knows
<1>4. StoredInv'
  BY <1>1, <1>3 DEF StoredInv, LangInv, AttemptsAgree
<1>5. FreshInv'
  <2> SUFFICES ASSUME NEW b \in Attempts, run'[b].seen = Len(log)
               PROVE  /\ run'[b].at = "save" => Stored = NoLang
                      /\ Prompted(b)' => run'[b].lang = Stored
    BY <1>1 DEF FreshInv
  <2>1. CASE b = a
    BY <1>2, <2>1 DEF Prompted
  <2>2. CASE b # a
    BY <1>2, <2>2 DEF Prompted, FreshInv, LangInv, AttemptsAgree
  <2> QED
    BY <2>1, <2>2
<1>6. ASSUME NEW t \in Tongues, NEW k \in Nat, NEW b \in Attempts,
             Knows(t, k), k <= run'[b].seen
      PROVE  /\ run'[b].at = "save" => Upset(log, k, run'[b].seen)
             /\ Prompted(b)' => run'[b].lang = t \/ Upset(log, k, run'[b].seen)
  <2>1. CASE b = a
    <3>1. Stored = t \/ Upset(log, k, Len(log))
      BY <1>6 DEF StoredInv, LangInv, AttemptsAgree
    <3>2. t # NoLang
      BY DEF Tongues
    <3> QED
      BY <1>2, <2>1, <3>1, <3>2 DEF Prompted
  <2>2. CASE b # a
    BY <1>2, <1>6, <2>2 DEF Prompted, PromptInv, LangInv, AttemptsAgree
  <2> QED
    BY <2>1, <2>2
<1>7. ASSUME NEW t \in Tongues, NEW k \in Nat, NEW b \in Attempts,
             k = Len(log), t = Stored, k <= run'[b].seen
      PROVE  run'[b].at # "save" /\ (Prompted(b)' => run'[b].lang = t)
  <2>1. run'[b].seen = Len(log)
    <3>1. run'[b].seen \in 0..Len(log)
      <4>1. CASE b = a
        BY <1>1, <1>2, <4>1
      <4>2. CASE b # a
        BY <1>2, <4>2, RunTyped
      <4> QED
        BY <4>1, <4>2
    <3> QED
      BY <1>1, <1>7, <3>1
  <2> QED
    BY <1>1, <1>5, <1>7, <2>1 DEF FreshInv, Tongues
<1>8. PromptInv'
  <2> SUFFICES ASSUME NEW t \in Tongues, NEW k \in Nat, NEW b \in Attempts,
                      Knows(t, k)', k <= run'[b].seen
               PROVE  /\ run'[b].at = "save" => Upset(log, k, run'[b].seen)
                      /\ Prompted(b)' => run'[b].lang = t \/ Upset(log, k, run'[b].seen)
    BY <1>1 DEF PromptInv
  <2> QED
    BY <1>3, <1>6, <1>7
<1>9. Sticks'
  BY <1>1 DEF LangInv, Sticks, Replied
<1> QED
  BY <1>4, <1>5, <1>8, <1>9 DEF LangInv, AttemptsAgree

LEMMA SaveLang == ASSUME Types, LangInv, NEW a \in Attempts, SaveLanguage(a) PROVE LangInv'
<1> PICK c \in CommitType : log' = Append(log, c) /\ c.seen = run[a].seen
  BY SaveLanguageMoves
<1> PICK r \in RunType : /\ Moves(a, r) /\ r.at = "history" /\ r.seen = run[a].seen
                         /\ r.lang = run[a].lang /\ r.known = Len(log) + 1
  BY SaveLanguageMoves
<1>1. run[a].at = "save" /\ UNCHANGED rows /\ Stored' = run[a].lang
  <2>1. run[a].base \in [Keys -> Langs] /\ "preferred_language" \in Keys
    BY RunTyped DEF Keys
  <2> QED
    BY <2>1, SaveLanguageMoves DEF Stored
<1>2. run'[a] = r /\ \A b \in Attempts : b # a => run'[b] = run[b]
  BY DEF Moves
<1>3. Len(log) \in Nat /\ Len(log') = Len(log) + 1
  BY AppendCommit, LengthTypes
<1>4. \A b \in Attempts : run'[b].seen = run[b].seen /\ run[b].seen \in 0..Len(log)
  BY <1>2, RunTyped
<1>5. ASSUME NEW t \in Tongues, NEW k \in Nat, Knows(t, k)'
      PROVE  Knows(t, k) \/ (k = Len(log') /\ t = run[a].lang)
  <2>1. CASE \E i \in 1..Len(rows') : rows'[i].lang = t /\ rows'[i].known = k
    BY <1>1, <2>1 DEF Knows
  <2>2. ASSUME NEW b \in Attempts, Prompted(b)', run'[b].lang = t, run'[b].known = k
        PROVE  Knows(t, k) \/ (k = Len(log') /\ t = run[a].lang)
    <3>1. CASE b = a
      BY <1>2, <1>3, <2>2, <3>1
    <3>2. CASE b # a
      BY <1>2, <2>2, <3>2 DEF Prompted, Knows
    <3> QED
      BY <3>1, <3>2
  <2> QED
    BY <1>5, <2>1, <2>2 DEF Knows
<1>6. ASSUME NEW t \in Tongues, NEW k \in Nat, Knows(t, k) PROVE Upset(log', k, Len(log'))
  <2>1. k \in 0..Len(log)
    BY <1>6, KnownSeen
  <2>2. CASE k <= run[a].seen
    <3>1. Upset(log, k, run[a].seen)
      BY <1>1, <1>6, <2>2 DEF LangInv, AttemptsAgree, PromptInv
    <3> QED
      BY <1>4, <3>1, UpsetStays
  <2>3. CASE run[a].seen < k
    BY <2>1, <2>3, NewUpset
  <2> QED
    BY <1>4, <2>1, <2>2, <2>3
<1>7. StoredInv'
  BY <1>1, <1>5, <1>6 DEF StoredInv
<1>8. FreshInv'
  BY <1>3, <1>4 DEF FreshInv
<1>9. PromptInv'
  <2> SUFFICES ASSUME NEW t \in Tongues, NEW k \in Nat, NEW b \in Attempts,
                      Knows(t, k)', k <= run'[b].seen
               PROVE  /\ run'[b].at = "save" => Upset(log', k, run'[b].seen)
                      /\ Prompted(b)' => run'[b].lang = t \/ Upset(log', k, run'[b].seen)
    BY DEF PromptInv
  <2>1. Knows(t, k) /\ k <= run[b].seen
    BY <1>3, <1>4, <1>5
  <2>2. Upset(log, k, run[b].seen) => Upset(log', k, run'[b].seen)
    BY <1>4, UpsetStays
  <2>3. CASE b = a
    <3>1. Upset(log, k, run[a].seen)
      BY <1>1, <2>1, <2>3 DEF LangInv, AttemptsAgree, PromptInv
    <3> QED
      BY <2>2, <2>3, <3>1
  <2>4. CASE b # a
    BY <1>2, <2>1, <2>2, <2>4 DEF LangInv, AttemptsAgree, PromptInv, Prompted
  <2> QED
    BY <2>3, <2>4
<1>10. Sticks'
  BY <1>1, SticksStill DEF LangInv
<1> QED
  BY <1>7, <1>8, <1>9, <1>10 DEF LangInv, AttemptsAgree

LEMMA EditLang == ASSUME Types, LangInv, NEW q \in Edits, UpdateContact(q) PROVE LangInv'
<1>1. UNCHANGED <<rows, run>>
  BY DEF UpdateContact
<1>2. CASE UNCHANGED <<attrs, log>>
  BY <1>1, <1>2 DEF LangInv, AttemptsAgree, StoredInv, PromptInv, FreshInv, Sticks, Stored, Replied,
     Prompted, Knows
<1>3. ASSUME NEW c \in CommitType, log' = Append(log, c), c.by = "edit" PROVE LangInv'
  <2>1. \A t, k : Knows(t, k)' = Knows(t, k)
    BY <1>1 DEF Knows, Prompted
  <2>2. Len(log) \in Nat /\ Len(log') = Len(log) + 1
    BY <1>3, AppendCommit, LengthTypes
  <2>3. StoredInv'
    BY <1>3, <2>1, KnownSeen, NewUpset DEF StoredInv
  <2>4. FreshInv'
    <3>1. \A a \in Attempts : run'[a].seen # Len(log')
      BY <1>1, <2>2, RunTyped
    <3> QED
      BY <3>1 DEF FreshInv
  <2>5. PromptInv'
    <3> SUFFICES ASSUME NEW t \in Tongues, NEW k \in Nat, NEW a \in Attempts,
                        Knows(t, k), k <= run[a].seen
                 PROVE  /\ run[a].at = "save" => Upset(log', k, run[a].seen)
                        /\ Prompted(a) => run[a].lang = t \/ Upset(log', k, run[a].seen)
      BY <1>1, <2>1 DEF PromptInv, Prompted
    <3>1. Upset(log, k, run[a].seen) => Upset(log', k, run[a].seen)
      BY <1>3, RunTyped, UpsetStays
    <3> QED
      BY <3>1 DEF LangInv, AttemptsAgree, PromptInv
  <2>6. Sticks'
    BY <1>1, <1>3, SticksStill DEF LangInv
  <2> QED
    BY <2>3, <2>4, <2>5, <2>6 DEF LangInv, AttemptsAgree
<1> QED
  BY <1>2, <1>3, EditCommits

(* The reply's row knows what its attempt knew. *)
LEMMA ReplyLang == ASSUME Types, LangInv, NEW a \in Attempts, PersistOutbound(a) PROVE LangInv'
<1>1. run[a].at = "persist" /\ Leave(a) /\ UNCHANGED <<attrs, log>>
  BY PersistOutboundMoves
<1> PICK w \in RowType : /\ rows' = Append(rows, w) /\ w.lang = run[a].lang
                         /\ w.read = run[a].seen /\ w.known = run[a].known
  BY PersistOutboundMoves
<1> PICK r \in RunType : Moves(a, r) /\ r.at = "done"
  BY <1>1, LeaveMoves
<1>2. /\ Len(rows) \in Nat /\ Len(rows') = Len(rows) + 1 /\ rows'[Len(rows) + 1] = w
      /\ \A i \in 1..Len(rows) : rows'[i] = rows[i]
      /\ \A i \in 1..Len(rows') : i \in 1..Len(rows) \/ i = Len(rows) + 1
  BY AppendRow, LengthTypes
<1>3. Prompted(a)
  BY <1>1 DEF Prompted
<1>4. ASSUME NEW b \in Attempts, run'[b].at = "save" \/ Prompted(b)' PROVE run'[b] = run[b]
  BY <1>4 DEF Moves, Prompted
<1>5. ASSUME NEW t \in Tongues, NEW k \in Nat, Knows(t, k)' PROVE Knows(t, k)
  <2>1. CASE \E i \in 1..Len(rows') : rows'[i].lang = t /\ rows'[i].known = k
    <3>1. PICK i \in 1..Len(rows') : rows'[i].lang = t /\ rows'[i].known = k
      BY <2>1
    <3>2. CASE i \in 1..Len(rows)
      BY <1>2, <3>1, <3>2 DEF Knows
    <3>3. CASE i = Len(rows) + 1
      BY <1>2, <1>3, <3>1, <3>3 DEF Knows
    <3> QED
      BY <1>2, <3>2, <3>3
  <2>2. CASE \E b \in Attempts : Prompted(b)' /\ run'[b].lang = t /\ run'[b].known = k
    BY <1>4, <2>2 DEF Knows, Prompted
  <2> QED
    BY <1>5, <2>1, <2>2 DEF Knows
<1>6. Less
  BY <1>4, <1>5 DEF Less, Prompted
<1>7. ASSUME NEW i \in 1..Len(rows), rows[i].lang # NoLang
      PROVE  \/ w.lang = rows[i].lang \/ w.read < rows[i].known
             \/ Upset(log, rows[i].known, w.read)
  <2>1. rows[i].lang \in Tongues /\ rows[i].known \in Nat
    BY <1>7, RowTyped DEF Tongues
  <2>2. Knows(rows[i].lang, rows[i].known)
    BY DEF Knows
  <2>3. run[a].seen \in Nat
    BY RunTyped
  <2>4. rows[i].known <= run[a].seen => w.lang = rows[i].lang \/ Upset(log, rows[i].known, w.read)
    BY <1>3, <2>1, <2>2 DEF LangInv, AttemptsAgree, PromptInv
  <2> QED
    BY <2>1, <2>3, <2>4
<1>8. Sticks'
  BY <1>1, <1>7, SticksOn DEF LangInv
<1>9. AttemptsAgree'
  BY <1>1, <1>6, LessAgrees DEF LangInv
<1> QED
  BY <1>8, <1>9 DEF LangInv

(* A step of an attempt that touches neither rows nor contact nor its prompt. *)
LEMMA QuietLang ==
  ASSUME LangInv, UNCHANGED <<rows, attrs, log>>,
         NEW a \in Attempts, NEW r \in RunType, Moves(a, r), r.at # "save",
         \/ r.at \notin {"history", "ask", "again", "persist"}
         \/ Prompted(a) /\ SamePrompt(r, run[a])
  PROVE  LangInv'
<1>1. AttemptsAgree'
  BY QuietLess, LessAgrees DEF LangInv
<1>2. Sticks'
  BY DEF LangInv, Sticks, Replied
<1> QED
  BY <1>1, <1>2 DEF LangInv

LEMMA PlainLang ==
  ASSUME Types, LangInv, UNCHANGED <<attrs, log>>,
         NEW w \in RowType, rows' = Append(rows, w), w.lang = NoLang, w.how \notin Origins,
         \A a \in Attempts :
           /\ run'[a].at = "save" => run[a].at = "save" /\ run'[a].seen = run[a].seen
           /\ Prompted(a)' => /\ Prompted(a) /\ run'[a].seen = run[a].seen
                              /\ run'[a].lang = run[a].lang /\ run'[a].known = run[a].known
  PROVE  LangInv'
<1>1. Less
  BY PlainLess
<1>2. AttemptsAgree'
  BY <1>1, LessAgrees DEF LangInv
<1>3. Sticks'
  BY SticksOn DEF LangInv
<1> QED
  BY <1>2, <1>3 DEF LangInv

LEMMA LangInductive == ASSUME Types, LangInv, [Next]_vars PROVE LangInv'
<1>1. ASSUME NEW a \in Attempts, PersistInbound(a) PROVE LangInv'
  <2>1. rows' = Append(rows, Inbound) /\ UNCHANGED <<attrs, log>>
    BY <1>1, PersistInboundMoves
  <2> PICK r \in RunType : Moves(a, r) /\ r.at = "language"
    BY <1>1, PersistInboundMoves
  <2>2. ASSUME NEW b \in Attempts, run'[b].at = "save" \/ Prompted(b)' PROVE run'[b] = run[b]
    BY <2>2 DEF Moves, Prompted
  <2>3. "user" \notin Origins
    BY DEF Origins
  <2> QED
    BY <2>1, <2>2, <2>3, InboundType, PlainLang DEF Prompted
<1>2. ASSUME NEW a \in Attempts, LoadHistory(a) \/ Answer(a) \/ Regenerate(a) PROVE LangInv'
  <2>1. UNCHANGED <<rows, attrs, log>> /\ Prompted(a)
    BY <1>2, LoadHistoryMoves, AnswerMoves, RegenerateMoves DEF Prompted
  <2> PICK r \in RunType : Moves(a, r) /\ SamePrompt(r, run[a]) /\ r.at \in {"ask", "again", "persist"}
    BY <1>2, LoadHistoryMoves, AnswerMoves, RegenerateMoves
  <2> QED
    BY <2>1, QuietLang
<1>3. ASSUME NEW a \in Attempts, BreakOff(a) PROVE LangInv'
  <2>1. UNCHANGED <<rows, attrs, log>> /\ Leave(a)
    BY <1>3 DEF BreakOff
  <2> PICK r \in RunType : Moves(a, r) /\ r.at = "done"
    BY <2>1, LeaveMoves
  <2> QED
    BY <2>1, QuietLang
<1>4. CASE SendAsHuman
  <2>1. UNCHANGED <<attrs, log, run>>
    BY <1>4, HumanRow
  <2> PICK w \in RowType : rows' = Append(rows, w) /\ w.lang = NoLang /\ w.how = "human"
    BY <1>4, HumanRow
  <2>2. "human" \notin Origins
    BY DEF Origins
  <2> QED
    BY <2>1, <2>2, PlainLang DEF Prompted
<1>5. CASE (\E q \in Edits : LoadContact(q)) \/ UNCHANGED vars
  <2>1. UNCHANGED <<rows, attrs, log, run>>
    BY <1>5 DEF LoadContact, vars
  <2> QED
    BY <2>1 DEF LangInv, AttemptsAgree, StoredInv, PromptInv, FreshInv, Sticks, Stored, Replied,
       Prompted, Knows
<1> QED
  BY <1>1, <1>2, <1>3, <1>4, <1>5, ResolveLang, SaveLang, EditLang, ReplyLang DEF Next, Process

(* A later reply has another language than an earlier one only if its attempt
   had read the contact before the earlier one's language was there, or for an
   operator's edit or a write-back in between: for any number of attempts,
   however they and the edits overlap and break off. *)
THEOREM LanguageKept == Spec => []LanguageSticks
<1>1. ASSUME Init PROVE LangInv
  <2>1. rows = <<>> /\ Len(<<>>) = 0 /\ \A a \in Attempts : run[a].at = "new"
    BY <1>1, NoRunType DEF Init
  <2>2. \A t, k : ~Knows(t, k)
    BY <2>1 DEF Knows, Prompted
  <2> QED
    BY <2>1, <2>2 DEF LangInv, AttemptsAgree, StoredInv, PromptInv, FreshInv, Sticks, Prompted
<1>2. ASSUME Types, LangInv PROVE LanguageSticks
  <2>1. DOMAIN rows = 1..Len(rows)
    BY <1>2 DEF Types, RowTypes
  <2> QED
    BY <1>2, <2>1 DEF LangInv, Sticks, Replied, Origins, Upset, LanguageSticks
<1> QED
  BY <1>1, <1>2, TypesAlways, LangInductive, PTL DEF Spec

-------------------------------------------------------------------------------
(* Row i of s is the outbound one before row j, or before where row j would be. *)
Before(s, i, j) == s[i].dir = "out" /\ \A k \in (i + 1)..(j - 1) : s[k].dir = "in"

(* A reply is not the newest outbound row that the history showed. *)
Fresh(s, r) ==
  \A i \in 1..r.loaded :
    i + Window > r.loaded /\ Before(s, i, r.loaded + 1) => s[i].body # r.reply

(* A first reply that passed the guards is fresh, whatever rows are committed since. *)
Guarded ==
  \A a \in Attempts : run[a].how = "first" =>
    /\ run[a].at # "again"
    /\ run[a].at = "persist" => Fresh(rows, run[a])

Unrepeated ==
  \A j \in 1..Len(rows) : rows[j].how = "first" =>
    \A i \in 1..(j - 1) : Before(rows, i, j) /\ rows[i].body = rows[j].body =>
      i > rows[j].seen \/ i + Window <= rows[j].seen

RepeatInv == Guarded /\ Unrepeated

LEMMA NewestOutbound ==
  ASSUME NEW n \in Nat, NEW i \in 1..n, i + Window > n, Before(rows, i, n + 1)
  PROVE  LastOutbound(n) = rows[i].body
<1> DEFINE out == {k \in InWindow(n) : rows[k].dir = "out"}
<1>1. i \in out
  BY DEF InWindow, Before
<1>2. ASSUME NEW k \in out PROVE k \in Nat /\ k <= i
  <2>1. k \in 1..n /\ rows[k].dir = "out"
    BY DEF InWindow
  <2>2. k \notin (i + 1)..n
    BY <2>1 DEF Before
  <2> QED
    BY <2>1, <2>2
<1> HIDE DEF out
<1>3. ASSUME NEW m \in out, \A k \in out : k <= m PROVE m = i
  BY <1>1, <1>2, <1>3
<1>4. (CHOOSE m \in out : \A k \in out : k <= m) = i
  BY <1>1, <1>2, <1>3
<1>5. out # {}
  BY <1>1
<1> QED
  BY <1>4, <1>5 DEF LastOutbound, out

(* What the guard lets through. *)
LEMMA GuardPasses ==
  ASSUME NEW a \in Attempts, NEW r \in RunType, r.reply \in Replies, r.loaded = run[a].loaded,
         "regenerate" \notin Fired(a, r.reply)
  PROVE  Fresh(rows, r)
<1> SUFFICES ASSUME NEW i \in 1..r.loaded, i + Window > r.loaded, Before(rows, i, r.loaded + 1),
                    rows[i].body = r.reply
             PROVE  FALSE
  BY DEF Fresh
<1>1. r.loaded \in Nat
  BY DEF RunType
<1>2. LastOutbound(run[a].loaded) = r.reply
  BY <1>1, NewestOutbound
<1>3. r.reply # ""
  BY TurnAssumption, Zenon
<1> QED
  BY <1>2, <1>3, Zenon DEF Fired

(* Rows are only appended: what a history showed stays as it was. *)
LEMMA FreshStill ==
  ASSUME Types, NEW w \in RowType, rows' = Append(rows, w),
         NEW a \in Attempts, Fresh(rows, run[a])
  PROVE  Fresh(rows', run[a])
<1>1. Len(rows) \in Nat /\ \A i \in 1..Len(rows) : rows'[i] = rows[i]
  BY AppendRow, LengthTypes
<1>2. run[a].loaded \in 0..Len(rows)
  BY RunTyped
<1>3. ASSUME NEW i \in 1..run[a].loaded, Before(rows', i, run[a].loaded + 1)
      PROVE  Before(rows, i, run[a].loaded + 1) /\ rows'[i] = rows[i]
  <2>1. \A k \in (i + 1)..run[a].loaded : k \in 1..Len(rows)
    BY <1>1, <1>2
  <2>2. i \in 1..Len(rows)
    BY <1>1, <1>2
  <2>3. \A k \in (i + 1)..((run[a].loaded + 1) - 1) : k \in (i + 1)..run[a].loaded
    BY <1>2
  <2>4. rows'[i] = rows[i] /\ \A k \in (i + 1)..run[a].loaded : rows'[k] = rows[k]
    BY <1>1, <2>1, <2>2
  <2> QED
    BY <1>3, <2>3, <2>4 DEF Before
<1> QED
  BY <1>3 DEF Fresh

(* One that is no first reply breaks nothing. *)
LEMMA RowAppended ==
  ASSUME Types, Unrepeated, NEW r \in RowType, rows' = Append(rows, r),
         r.how = "first" => \A i \in 1..Len(rows) :
           Before(rows, i, Len(rows) + 1) /\ rows[i].body = r.body => i > r.seen \/ i + Window <= r.seen
  PROVE  Unrepeated'
<1>1. /\ Len(rows) \in Nat /\ Len(rows') = Len(rows) + 1 /\ rows'[Len(rows) + 1] = r
      /\ \A i \in 1..Len(rows) : rows'[i] = rows[i]
  BY AppendRow, LengthTypes
<1> SUFFICES ASSUME NEW j \in 1..Len(rows'), rows'[j].how = "first",
                    NEW i \in 1..(j - 1), Before(rows', i, j), rows'[i].body = rows'[j].body
             PROVE  i > rows'[j].seen \/ i + Window <= rows'[j].seen
  BY DEF Unrepeated
<1>2. i \in 1..Len(rows) /\ \A k \in (i + 1)..(j - 1) : k \in 1..Len(rows)
  BY <1>1
<1>3. Before(rows, i, j)
  BY <1>1, <1>2 DEF Before
<1>4. CASE j \in 1..Len(rows)
  BY <1>1, <1>2, <1>3, <1>4 DEF Unrepeated
<1>5. CASE j = Len(rows) + 1
  BY <1>1, <1>2, <1>3, <1>5
<1>6. j \in 1..Len(rows) \/ j = Len(rows) + 1
  BY <1>1
<1> QED
  BY <1>4, <1>5, <1>6

(* An attempt moves on without a row: it guards its reply or has none to guard. *)
LEMMA QuietRepeat ==
  ASSUME RepeatInv, UNCHANGED rows, NEW a \in Attempts, NEW r \in RunType, Moves(a, r),
         r.how = "first" => r.at # "again" /\ (r.at = "persist" => Fresh(rows, r))
  PROVE  RepeatInv'
<1>1. Guarded'
  <2> SUFFICES ASSUME NEW b \in Attempts, run'[b].how = "first"
               PROVE  run'[b].at # "again" /\ (run'[b].at = "persist" => Fresh(rows, run'[b]))
    BY DEF Guarded
  <2>1. CASE b = a
    BY <2>1 DEF Moves
  <2>2. CASE b # a
    BY <2>2 DEF Moves, RepeatInv, Guarded
  <2> QED
    BY <2>1, <2>2
<1> QED
  BY <1>1 DEF RepeatInv, Unrepeated

(* So it does with a row. *)
LEMMA GuardedStill ==
  ASSUME Types, Guarded, NEW w \in RowType, rows' = Append(rows, w),
         \A b \in Attempts : run'[b] = run[b] \/ run'[b].at \notin {"again", "persist"}
  PROVE  Guarded'
<1> SUFFICES ASSUME NEW b \in Attempts, run'[b].how = "first"
             PROVE  run'[b].at # "again" /\ (run'[b].at = "persist" => Fresh(rows', run'[b]))
  BY DEF Guarded
<1>1. CASE run'[b] = run[b]
  BY <1>1, FreshStill DEF Guarded
<1>2. CASE run'[b].at \notin {"again", "persist"}
  BY <1>2
<1> QED
  BY <1>1, <1>2

LEMMA AnswerRepeat ==
  ASSUME Types, RepeatInv, NEW a \in Attempts, PersistOutbound(a) PROVE RepeatInv'
<1>1. run[a].at = "persist" /\ Leave(a)
  BY PersistOutboundMoves
<1> PICK w \in RowType :
      /\ rows' = Append(rows, w) /\ w.how = run[a].how /\ w.seen = run[a].loaded
      /\ w.how # "reason" => w.body = run[a].reply
  BY PersistOutboundMoves
<1> PICK r \in RunType : Moves(a, r) /\ r.at = "done"
  BY <1>1, LeaveMoves
<1>2. run[a].loaded \in 0..Len(rows) /\ Len(rows) \in Nat
  BY RunTyped, LengthTypes
<1>3. ASSUME w.how = "first", NEW i \in 1..Len(rows), Before(rows, i, Len(rows) + 1), rows[i].body = w.body
      PROVE  i > w.seen \/ i + Window <= w.seen
  <2> SUFFICES ASSUME i <= run[a].loaded, i + Window > run[a].loaded PROVE FALSE
    BY <1>2, Limits
  <2>1. i \in 1..run[a].loaded
    BY <1>2
  <2>2. \A k \in (i + 1)..((run[a].loaded + 1) - 1) : k \in (i + 1)..((Len(rows) + 1) - 1)
    BY <1>2
  <2>3. Before(rows, i, run[a].loaded + 1)
    BY <1>3, <2>2 DEF Before
  <2>4. w.body = run[a].reply /\ Fresh(rows, run[a])
    BY <1>1, <1>3 DEF RepeatInv, Guarded
  <2> QED
    BY <1>3, <2>1, <2>3, <2>4 DEF Fresh
<1>4. Unrepeated'
  BY <1>3, RowAppended DEF RepeatInv
<1>5. Guarded'
  BY GuardedStill DEF RepeatInv, Moves
<1> QED
  BY <1>4, <1>5 DEF RepeatInv

LEMMA RepeatInductive == ASSUME Types, RepeatInv, [Next]_vars PROVE RepeatInv'
<1>1. ASSUME NEW a \in Attempts, PersistInbound(a) PROVE RepeatInv'
  <2>1. rows' = Append(rows, Inbound)
    BY <1>1, PersistInboundMoves
  <2> PICK r \in RunType : Moves(a, r) /\ r.at = "language"
    BY <1>1, PersistInboundMoves
  <2>2. Unrepeated'
    BY <2>1, InboundType, RowAppended DEF RepeatInv
  <2>3. Guarded'
    BY <2>1, InboundType, GuardedStill DEF RepeatInv, Moves
  <2> QED
    BY <2>2, <2>3 DEF RepeatInv
<1>2. ASSUME NEW a \in Attempts, ResolveLanguage(a) \/ SaveLanguage(a) \/ LoadHistory(a) PROVE RepeatInv'
  <2>1. UNCHANGED rows
    BY <1>2, ResolveLanguageMoves, SaveLanguageMoves, LoadHistoryMoves
  <2> PICK r \in RunType : Moves(a, r) /\ r.at \in {"save", "history", "ask"}
    BY <1>2, ResolveLanguageMoves, SaveLanguageMoves, LoadHistoryMoves
  <2> QED
    BY <2>1, QuietRepeat
<1>3. ASSUME NEW a \in Attempts, Answer(a) PROVE RepeatInv'
  <2>1. UNCHANGED rows
    BY <1>3, AnswerMoves
  <2> PICK r \in RunType :
        /\ Moves(a, r) /\ r.loaded = run[a].loaded /\ r.reply \in Replies
        /\ r.how = "first" => r.at = "persist" /\ "regenerate" \notin Fired(a, r.reply)
    BY <1>3, AnswerMoves
  <2>2. r.how = "first" => r.at = "persist" /\ Fresh(rows, r)
    BY GuardPasses
  <2> QED
    BY <2>1, <2>2, QuietRepeat
<1>4. ASSUME NEW a \in Attempts, Regenerate(a) PROVE RepeatInv'
  <2>1. run[a].at = "again" /\ UNCHANGED rows
    BY <1>4, RegenerateMoves
  <2> PICK r \in RunType : Moves(a, r) /\ r.how = run[a].how
    BY <1>4, RegenerateMoves
  <2>2. r.how # "first"
    BY <2>1 DEF RepeatInv, Guarded
  <2> QED
    BY <2>1, <2>2, QuietRepeat
<1>5. ASSUME NEW a \in Attempts, BreakOff(a) PROVE RepeatInv'
  <2>1. UNCHANGED rows /\ Leave(a)
    BY <1>5 DEF BreakOff
  <2> PICK r \in RunType : Moves(a, r) /\ r.at = "done"
    BY <2>1, LeaveMoves
  <2> QED
    BY <2>1, QuietRepeat
<1>6. CASE SendAsHuman
  <2>1. UNCHANGED run
    BY <1>6, HumanRow
  <2> PICK w \in RowType : rows' = Append(rows, w) /\ w.how = "human"
    BY <1>6, HumanRow
  <2> QED
    BY <2>1, RowAppended, GuardedStill DEF RepeatInv
<1>7. CASE (\E q \in Edits : LoadContact(q) \/ UpdateContact(q)) \/ UNCHANGED vars
  <2>1. UNCHANGED <<rows, run>>
    BY <1>7 DEF LoadContact, UpdateContact, vars
  <2> QED
    BY <2>1 DEF RepeatInv, Guarded, Unrepeated
<1> QED
  BY <1>1, <1>2, <1>3, <1>4, <1>5, <1>6, <1>7, AnswerRepeat DEF Next, Process

(* A first reply never repeats the outbound message before it, as far as the
   history the guard compared with goes: for any window, replies and texts and
   any attempts that overlap. *)
THEOREM NotRepeated == Spec => []NoRepeats
<1>1. ASSUME Init PROVE RepeatInv
  <2>1. rows = <<>> /\ \A a \in Attempts : run[a].at = "new"
    BY <1>1, NoRunType DEF Init
  <2> QED
    BY <2>1 DEF RepeatInv, Guarded, Unrepeated
<1>2. ASSUME Types, RepeatInv PROVE NoRepeats
  <2>1. DOMAIN rows = 1..Len(rows)
    BY <1>2 DEF Types, RowTypes
  <2> QED
    BY <1>2, <2>1 DEF RepeatInv, Unrepeated, Before, NoRepeats
<1> QED
  BY <1>1, <1>2, TypesAlways, RepeatInductive, PTL DEF Spec

-------------------------------------------------------------------------------
(* The loop of the agent. *)
MessageType == [role : {"system", "user", "assistant", "tool"}, calls : Seq(Nat), of : Nat]
Endings == {"failed", "calls", "text"}

LoopTypes ==
  /\ history \in Histories /\ talk \in Seq(MessageType)
  /\ rounds \in 0..(MaxIterations - 1) /\ failures \in 0..(Breaker - 1)
  /\ outcomes \in Seq(Endings) /\ Len(outcomes) <= MaxIterations
  /\ answer \in {"", "dificuldades", "continuar"} \cup ModelTexts

(* The requests so far agree with the counters. *)
Counted ==
  /\ Len(outcomes) = rounds /\ failures <= rounds
  /\ \A i \in (rounds - failures + 1)..rounds : outcomes[i] = "failed"
  /\ \A i \in 1..rounds : outcomes[i] # "text"

LEMMA LoopLimits ==
  /\ MaxTurns \in Nat /\ MaxCalls \in Nat
  /\ MaxIterations \in Nat /\ MaxIterations > 0 /\ Breaker \in Nat /\ Breaker > 0
<1>1. {MaxTurns, MaxCalls} \subseteq Nat /\ {MaxIterations, Breaker} \subseteq Nat \ {0}
  BY LoopAssumption, Zenon
<1> QED
  BY <1>1

LEMMA Answers == "" \notin ModelTexts /\ "dificuldades" \notin ModelTexts /\ "continuar" \notin ModelTexts
<1>1. {"", "dificuldades", "continuar"} \cap ModelTexts = {}
  BY LoopAssumption, Zenon
<1> QED
  BY <1>1, Zenon

LEMMA CountersTypes == ASSUME LoopTypes PROVE rounds \in Nat /\ failures \in Nat /\ Len(outcomes) \in Nat
<1>1. /\ rounds \in 0..(MaxIterations - 1) /\ failures \in 0..(Breaker - 1)
      /\ outcomes \in Seq(Endings)
  BY DEF LoopTypes
<1> QED
  BY <1>1, LoopLimits

(* The ids of a round's calls, its assistant turn, and its results. *)
Ids(n) == [i \in 1..n |-> 10 * rounds + i]

LEMMA Joined ==
  ASSUME NEW S, NEW s \in Seq(S), NEW t \in Seq(S)
  PROVE  /\ s \o t \in Seq(S) /\ Len(s \o t) = Len(s) + Len(t)
         /\ \A i \in 1..Len(s) : (s \o t)[i] = s[i]
         /\ \A i \in 1..Len(t) : (s \o t)[Len(s) + i] = t[i]
  OBVIOUS

LEMMA JoinedOne ==
  ASSUME NEW S, NEW x \in S, NEW t \in Seq(S)
  PROVE  /\ <<x>> \o t \in Seq(S) /\ Len(<<x>> \o t) = Len(t) + 1 /\ (<<x>> \o t)[1] = x
         /\ \A i \in 1..Len(t) : (<<x>> \o t)[i + 1] = t[i]
<1>1. <<x>> \in Seq(S) /\ Len(<<x>>) = 1 /\ <<x>>[1] = x
  OBVIOUS
<1>2. <<x>> \o t \in Seq(S) /\ Len(<<x>> \o t) = 1 + Len(t)
  BY <1>1, Joined
<1>3. \A i \in 1..1 : (<<x>> \o t)[i] = <<x>>[i]
  BY <1>1, Joined
<1>4. \A i \in 1..Len(t) : (<<x>> \o t)[1 + i] = t[i]
  BY <1>1, Joined
<1> QED
  BY <1>1, <1>2, <1>3, <1>4

LEMMA RoundShape ==
  ASSUME rounds \in Nat, NEW n \in Nat \ {0}
  PROVE  /\ ToolRound(n) \in Seq(MessageType) /\ Len(ToolRound(n)) = n + 1
         /\ ToolRound(n)[1] = Message("assistant", Ids(n), 0)
         /\ \A i \in 1..n : ToolRound(n)[i + 1] = Message("tool", <<>>, 10 * rounds + i)
<1> DEFINE answers == [i \in 1..n |-> Message("tool", <<>>, 10 * rounds + i)]
<1>1. ToolRound(n) = <<Message("assistant", Ids(n), 0)>> \o answers
  BY DEF ToolRound, Ids
<1>2. Message("assistant", Ids(n), 0) \in MessageType
  <2>1. \A i \in 1..n : 10 * rounds + i \in Nat
    OBVIOUS
  <2>2. Ids(n) \in Seq(Nat)
    BY <2>1 DEF Ids
  <2> QED
    BY <2>2 DEF Message, MessageType
<1>3. answers \in Seq(MessageType) /\ Len(answers) = n
      /\ \A i \in 1..n : answers[i] = Message("tool", <<>>, 10 * rounds + i)
  <2>1. \A i \in 1..n : Message("tool", <<>>, 10 * rounds + i) \in MessageType
    BY DEF Message, MessageType
  <2> QED
    BY <2>1
<1> HIDE DEF answers
<1>4. PICK first : first = Message("assistant", Ids(n), 0)
  OBVIOUS
<1> QED
  BY <1>1, <1>2, <1>3, <1>4, JoinedOne

LEMMA RoundTypes ==
  ASSUME LoopTypes, NEW n \in 0..MaxCalls
  PROVE  ToolRound(n) \in Seq(MessageType) /\ talk \o ToolRound(n) \in Seq(MessageType)
<1>1. rounds \in Nat /\ talk \in Seq(MessageType)
  BY CountersTypes DEF LoopTypes
<1>2. ToolRound(n) \in Seq(MessageType)
  <2>1. CASE n = 0
    BY <2>1 DEF ToolRound
  <2>2. CASE n # 0
    BY <1>1, <2>2, RoundShape, LoopLimits
  <2> QED
    BY <2>1, <2>2
<1> QED
  BY <1>1, <1>2

-------------------------------------------------------------------------------
(* What an iteration that ended with o may do. *)
Stays == UNCHANGED <<talk, rounds, failures>>
Said(o) == o = "text" /\ answer' \in ModelTexts /\ Stays
Opens(o) == o = "failed" /\ failures + 1 >= Breaker /\ answer' = "dificuldades" /\ Stays
Exhausted(o) == o # "text" /\ rounds + 1 = MaxIterations /\ answer' = "continuar" /\ Stays
Onward(o) ==
  /\ o # "text" /\ rounds + 1 # MaxIterations /\ rounds' = rounds + 1
  /\ failures' = 0 \/ (o = "failed" /\ failures' = failures + 1 /\ failures + 1 < Breaker)
  /\ \E n \in 0..MaxCalls : talk' = talk \o ToolRound(n)
  /\ UNCHANGED answer
Ends(o) == Said(o) \/ Opens(o) \/ Exhausted(o) \/ Onward(o)

LEMMA IterateCases ==
  ASSUME NEW f, NEW n \in 0..MaxCalls, Iterate(f, n), NEW o, o # "text",
         f = 0 \/ (o = "failed" /\ f = failures + 1 /\ failures + 1 < Breaker)
  PROVE  Exhausted(o) \/ Onward(o)
<1>1. CASE rounds + 1 = MaxIterations
  BY <1>1 DEF Iterate, Exhausted, Stays
<1>2. CASE rounds + 1 # MaxIterations
  BY <1>2 DEF Iterate, Onward
<1> QED
  BY <1>1, <1>2

LEMMA ResponseTypes ==
  ASSUME NEW r \in Responses
  PROVE  /\ r.calls \in 0..MaxCalls /\ Failed.calls = 0
         /\ r # Failed /\ r.calls = 0 => r.body \in ModelTexts
<1> DEFINE Texted == [body : ModelTexts, calls : {0}]
           Calling == [body : {""}, calls : 1..MaxCalls]
<1>1. Failed.calls = 0
  BY DEF Failed
<1>2. 0 \in 0..MaxCalls
  BY LoopLimits
<1>3. ASSUME r \in Texted PROVE r.calls = 0 /\ r.body \in ModelTexts
  BY <1>3
<1>4. ASSUME r \in Calling PROVE r.calls \in 0..MaxCalls /\ r.calls # 0
  <2>1. r.calls \in 1..MaxCalls
    BY <1>4
  <2> QED
    BY <2>1, LoopLimits
<1>5. r = Failed \/ r \in Texted \/ r \in Calling
  BY DEF Responses
<1> HIDE DEF Texted, Calling
<1> QED
  BY <1>1, <1>2, <1>3, <1>4, <1>5

LEMMA AskCases ==
  ASSUME LoopTypes, Ask
  PROVE  /\ answer = "" /\ UNCHANGED history
         /\ \E o \in Endings : outcomes' = Append(outcomes, o) /\ Ends(o)
<1> PICK r \in Responses :
      /\ Answered(r) \/ Called(r) \/ Broken(r)
      /\ outcomes' = Append(outcomes, IF r = Failed THEN "failed" ELSE IF r.calls > 0 THEN "calls" ELSE "text")
  BY DEF Ask
<1> DEFINE o == IF r = Failed THEN "failed" ELSE IF r.calls > 0 THEN "calls" ELSE "text"
<1>1. outcomes' = Append(outcomes, o) /\ o \in Endings
  BY DEF Endings
<1>2. /\ r.calls \in 0..MaxCalls /\ Failed.calls = 0
      /\ r # Failed /\ r.calls = 0 => r.body \in ModelTexts
  BY ResponseTypes
<1>3. ASSUME Answered(r) PROVE Ends(o)
  <2>1. r # Failed /\ r.calls = 0 /\ answer' = r.body /\ Stays
    BY <1>3 DEF Answered, Return, Stays
  <2>2. ~(r.calls > 0)
    BY <2>1
  <2>3. o = "text"
    BY <2>1, <2>2
  <2> HIDE DEF o
  <2> QED
    BY <1>2, <2>1, <2>3 DEF Said, Ends
<1>4. ASSUME Called(r) PROVE Ends(o)
  <2>1. r.calls > 0 /\ Iterate(0, r.calls)
    BY <1>4 DEF Called
  <2>2. r # Failed
    BY <1>2, <2>1
  <2>3. o = "calls"
    BY <2>1, <2>2
  <2> HIDE DEF o
  <2> QED
    BY <1>2, <2>1, <2>3, IterateCases DEF Ends
<1>5. ASSUME Broken(r) PROVE Ends(o)
  <2>1. o = "failed"
    BY <1>5 DEF Broken
  <2> HIDE DEF o
  <2>2. CASE failures + 1 >= Breaker
    BY <1>5, <2>1, <2>2 DEF Broken, Return, Opens, Stays, Ends
  <2>3. CASE ~(failures + 1 >= Breaker)
    <3>1. Iterate(failures + 1, 0)
      BY <1>5, <2>3 DEF Broken
    <3>2. 0 \in 0..MaxCalls /\ failures + 1 < Breaker
      BY <2>3, CountersTypes, LoopLimits
    <3> QED
      BY <2>1, <3>1, <3>2, IterateCases DEF Ends
  <2> QED
    BY <2>2, <2>3
<1> HIDE DEF o
<1>6. answer = "" /\ UNCHANGED history
  BY DEF Ask
<1> QED
  BY <1>1, <1>3, <1>4, <1>5, <1>6

-------------------------------------------------------------------------------
LEMMA LoopTypesNext == ASSUME LoopTypes, Counted, Ask PROVE LoopTypes'
<1> PICK o \in Endings : outcomes' = Append(outcomes, o) /\ Ends(o)
  BY AskCases
<1>1. /\ rounds \in 0..(MaxIterations - 1) /\ failures \in 0..(Breaker - 1)
      /\ outcomes \in Seq(Endings) /\ Len(outcomes) = rounds
  BY DEF LoopTypes, Counted
<1>2. outcomes' \in Seq(Endings) /\ Len(outcomes') <= MaxIterations
  BY <1>1, LoopLimits
<1>3. history' \in Histories
  BY AskCases DEF LoopTypes
<1>4. CASE Said(o) \/ Opens(o) \/ Exhausted(o)
  <2>1. answer' \in {"dificuldades", "continuar"} \cup ModelTexts /\ Stays
    BY <1>4 DEF Said, Opens, Exhausted
  <2> QED
    BY <1>2, <1>3, <2>1 DEF LoopTypes, Stays
<1>5. CASE Onward(o)
  <2>1. rounds' = rounds + 1 /\ rounds + 1 # MaxIterations
        /\ (failures' = 0 \/ (failures' = failures + 1 /\ failures + 1 < Breaker))
    BY <1>5 DEF Onward
  <2>2. rounds' \in 0..(MaxIterations - 1) /\ failures' \in 0..(Breaker - 1)
    BY <1>1, <2>1, LoopLimits
  <2>3. talk' \in Seq(MessageType)
    BY <1>5, RoundTypes DEF Onward
  <2> QED
    BY <1>2, <1>3, <1>5, <2>2, <2>3 DEF Onward, LoopTypes
<1> QED
  BY <1>4, <1>5 DEF Ends

(* The counters tell which requests failed, while the call goes on. *)
LEMMA CountedNext == ASSUME LoopTypes, Counted, NEW o \in Endings, outcomes' = Append(outcomes, o), Onward(o)
                     PROVE  Counted'
<1>1. /\ rounds \in Nat /\ failures \in Nat /\ outcomes \in Seq(Endings) /\ Len(outcomes) = rounds
      /\ failures <= rounds /\ \A i \in (rounds - failures + 1)..rounds : outcomes[i] = "failed"
      /\ \A i \in 1..rounds : outcomes[i] # "text"
  BY CountersTypes DEF LoopTypes, Counted
<1>2. /\ Len(outcomes') = rounds + 1 /\ outcomes'[rounds + 1] = o
      /\ \A i \in 1..rounds : outcomes'[i] = outcomes[i]
  BY <1>1
<1>3. rounds' = rounds + 1 /\ o # "text"
      /\ (failures' = 0 \/ (o = "failed" /\ failures' = failures + 1))
  BY DEF Onward
<1>4. \A i \in 1..rounds' : outcomes'[i] # "text"
  <2> SUFFICES ASSUME NEW i \in 1..(rounds + 1) PROVE outcomes'[i] # "text"
    BY <1>3
  <2>1. i \in 1..rounds \/ i = rounds + 1
    BY <1>1
  <2> QED
    BY <1>1, <1>2, <1>3, <2>1
<1>5. \A i \in (rounds' - failures' + 1)..rounds' : outcomes'[i] = "failed"
  <2>1. CASE failures' = 0
    BY <1>1, <1>3, <2>1
  <2>2. CASE o = "failed" /\ failures' = failures + 1
    <3> SUFFICES ASSUME NEW i \in (rounds - failures + 1)..(rounds + 1) PROVE outcomes'[i] = "failed"
      BY <1>1, <1>3, <2>2
    <3>1. i \in (rounds - failures + 1)..rounds \/ i = rounds + 1
      BY <1>1
    <3>2. ASSUME i \in (rounds - failures + 1)..rounds PROVE i \in 1..rounds
      BY <1>1, <3>2
    <3> QED
      BY <1>1, <1>2, <2>2, <3>1, <3>2
  <2> QED
    BY <1>3, <2>1, <2>2
<1> QED
  BY <1>1, <1>2, <1>3, <1>4, <1>5 DEF Counted

(* Who breaks the circuit or ends the last round had cause. *)
LEMMA CauseNext ==
  ASSUME LoopTypes, LoopTypes', Counted, NEW o \in Endings, outcomes' = Append(outcomes, o),
         Said(o) \/ Opens(o) \/ Exhausted(o)
  PROVE  GivesUpForCause'
<1>0. Len(outcomes') <= MaxIterations
  BY DEF LoopTypes
<1>1. /\ rounds \in Nat /\ failures \in Nat /\ outcomes \in Seq(Endings) /\ Len(outcomes) = rounds
      /\ failures <= rounds /\ \A i \in (rounds - failures + 1)..rounds : outcomes[i] = "failed"
      /\ \A i \in 1..rounds : outcomes[i] # "text"
  BY CountersTypes DEF LoopTypes, Counted
<1>2. /\ Len(outcomes') = rounds + 1 /\ outcomes'[rounds + 1] = o
      /\ \A i \in 1..rounds : outcomes'[i] = outcomes[i]
      /\ \A i \in 1..(rounds + 1) : i \in 1..rounds \/ i = rounds + 1
  BY <1>1
<1>3. CASE Said(o)
  <2>1. answer' # "dificuldades" /\ answer' # "continuar"
    BY <1>3, Answers DEF Said
  <2> QED
    BY <1>0, <2>1 DEF GivesUpForCause
<1>4. CASE Opens(o)
  <2>1. o = "failed" /\ failures + 1 >= Breaker /\ answer' # "continuar"
    BY <1>4 DEF Opens
  <2>2. rounds + 1 >= Breaker /\ Breaker \in Nat
    BY <1>1, <2>1, LoopLimits
  <2>3. ASSUME NEW i \in (Len(outcomes') - Breaker + 1)..Len(outcomes') PROVE outcomes'[i] = "failed"
    <3>1. i \in Int /\ i <= rounds + 1 /\ i >= rounds + 1 - Breaker + 1
      BY <1>1, <1>2, <2>2
    <3>2. i \in (rounds - failures + 1)..rounds \/ i = rounds + 1
      BY <1>1, <2>1, <2>2, <3>1
    <3>3. ASSUME i \in (rounds - failures + 1)..rounds PROVE i \in 1..rounds
      BY <1>1, <3>3
    <3> QED
      BY <1>1, <1>2, <2>1, <3>2, <3>3
  <2>4. Len(outcomes') >= Breaker
    BY <1>2, <2>2
  <2> QED
    BY <1>0, <2>1, <2>3, <2>4, Zenon DEF GivesUpForCause
<1>5. CASE Exhausted(o)
  <2>1. o # "text" /\ rounds + 1 = MaxIterations /\ answer' # "dificuldades"
    BY <1>5 DEF Exhausted
  <2>2. \A i \in 1..(rounds + 1) : outcomes'[i] # "text"
    BY <1>1, <1>2, <2>1
  <2> QED
    BY <1>0, <1>2, <2>1, <2>2 DEF GivesUpForCause
<1> QED
  BY <1>3, <1>4, <1>5

LoopInv == LoopTypes /\ (answer = "" => Counted) /\ GivesUpForCause

LEMMA LoopInductive == ASSUME LoopInv, [LoopNext]_loopVars PROVE LoopInv'
<1>1. CASE Ask
  <2> PICK o \in Endings : outcomes' = Append(outcomes, o) /\ Ends(o)
    BY <1>1, AskCases DEF LoopInv
  <2>1. LoopTypes /\ Counted /\ answer = ""
    BY <1>1, AskCases DEF LoopInv
  <2>2. LoopTypes'
    BY <1>1, <2>1, LoopTypesNext
  <2>3. CASE Said(o) \/ Opens(o) \/ Exhausted(o)
    <3>1. answer' # ""
      BY <2>3, Answers DEF Said, Opens, Exhausted
    <3> QED
      BY <2>1, <2>2, <2>3, <3>1, CauseNext DEF LoopInv
  <2>4. CASE Onward(o)
    <3>1. Counted' /\ answer' = ""
      BY <2>1, <2>4, CountedNext DEF Onward
    <3>2. answer' # "dificuldades" /\ answer' # "continuar"
      BY <3>1
    <3> QED
      BY <2>2, <3>1, <3>2 DEF LoopInv, LoopTypes, GivesUpForCause
  <2> QED
    BY <2>3, <2>4 DEF Ends
<1>2. CASE UNCHANGED loopVars
  BY <1>2 DEF loopVars, LoopInv, LoopTypes, Counted, GivesUpForCause
<1> QED
  BY <1>1, <1>2 DEF LoopNext

LEMMA LoopAlways == LoopSpec => []LoopInv
<1>1. ASSUME LoopInit PROVE LoopInv
  <2>1. history \in Histories /\ talk = <<>> /\ rounds = 0 /\ failures = 0 /\ outcomes = <<>>
    BY <1>1, Zenon DEF LoopInit
  <2>0. answer = ""
    BY <1>1, Zenon DEF LoopInit
  <2>2. talk \in Seq(MessageType) /\ outcomes \in Seq(Endings) /\ Len(outcomes) = 0
    BY <2>1
  <2>3. rounds \in 0..(MaxIterations - 1) /\ failures \in 0..(Breaker - 1) /\ Len(outcomes) <= MaxIterations
    BY <2>1, <2>2, LoopLimits
  <2>4. Counted
    <3>1. rounds - failures + 1 = 1 /\ \A i : i \notin 1..rounds
      BY <2>1
    <3> QED
      BY <2>1, <2>2, <3>1 DEF Counted
  <2>5. answer # "dificuldades" /\ answer # "continuar"
    BY <2>0
  <2> QED
    BY <2>0, <2>1, <2>2, <2>3, <2>4, <2>5 DEF LoopInv, LoopTypes, GivesUpForCause
<1> QED
  BY <1>1, LoopInductive, PTL DEF LoopSpec

(* Types, and that no call asks more often than the limit allows. *)
THEOREM LoopTypeCorrect == LoopSpec => []LoopTypeOK
<1>1. LoopInv => LoopTypeOK
  BY DEF LoopInv, LoopTypes, LoopTypeOK
<1> QED
  BY <1>1, LoopAlways, PTL

(* A call makes no more requests than the limit allows, and hands the contact to
   a human only after Breaker failures in a row or all of them without a text: for
   any limits and answers. *)
THEOREM GivenUpForCause == LoopSpec => []GivesUpForCause
<1>1. LoopInv => GivesUpForCause
  BY DEF LoopInv
<1> QED
  BY <1>1, LoopAlways, PTL

-------------------------------------------------------------------------------
(* Paired, said of the positions of a sequence of messages. *)
LEMMA PairedMeans ==
  ASSUME NEW s \in Seq(MessageType)
  PROVE  Paired(s) <=> \A i \in 1..Len(s) :
           /\ \A k \in 1..Len(s[i].calls) : i + k \in 1..Len(s) /\ s[i + k].of = s[i].calls[k]
           /\ s[i].of # 0 =>
                \E j \in 1..(i - 1) : i - j \in 1..Len(s[j].calls) /\ s[j].calls[i - j] = s[i].of
<1>1. DOMAIN s = 1..Len(s) /\ Len(s) \in Nat
  OBVIOUS
<1>2. \A i \in 1..Len(s) : s[i] \in MessageType
  OBVIOUS
<1>3. \A i \in 1..Len(s) : s[i].calls \in Seq(Nat) /\ DOMAIN s[i].calls = 1..Len(s[i].calls)
  BY <1>2 DEF MessageType
<1>4. \A i \in 1..Len(s) : \A j \in 1..(i - 1) : j \in 1..Len(s)
  BY <1>1
<1> QED
  BY <1>1, <1>3, <1>4 DEF Paired

(* Complete rounds after complete rounds are complete rounds. *)
LEMMA PairedJoined ==
  ASSUME NEW s \in Seq(MessageType), NEW t \in Seq(MessageType), Paired(s), Paired(t)
  PROVE  Paired(s \o t)
<1> DEFINE u == s \o t
<1>1. /\ u \in Seq(MessageType) /\ Len(u) = Len(s) + Len(t) /\ Len(s) \in Nat /\ Len(t) \in Nat
      /\ \A i \in 1..Len(s) : u[i] = s[i]
      /\ \A i \in 1..Len(t) : u[Len(s) + i] = t[i]
  BY Joined
<1> HIDE DEF u
<1>2. \A m \in MessageType : m.calls \in Seq(Nat)
  BY DEF MessageType
<1>3. \A i \in 1..Len(t) : t[i].calls \in Seq(Nat)
  <2>1. \A i \in 1..Len(t) : t[i] \in MessageType
    OBVIOUS
  <2> QED
    BY <1>2, <2>1
<1> SUFFICES ASSUME NEW i \in 1..Len(u)
             PROVE  /\ \A k \in 1..Len(u[i].calls) : i + k \in 1..Len(u) /\ u[i + k].of = u[i].calls[k]
                    /\ u[i].of # 0 =>
                         \E j \in 1..(i - 1) : i - j \in 1..Len(u[j].calls) /\ u[j].calls[i - j] = u[i].of
  BY <1>1, PairedMeans DEF u
<1>4. CASE i \in 1..Len(s)
  <2>1. ASSUME NEW k \in 1..Len(u[i].calls) PROVE i + k \in 1..Len(u) /\ u[i + k].of = u[i].calls[k]
    <3>1. u[i] = s[i] /\ k \in 1..Len(s[i].calls)
      BY <1>1, <1>4
    <3>2. i + k \in 1..Len(s) /\ s[i + k].of = s[i].calls[k]
      BY <1>4, <3>1, PairedMeans
    <3> QED
      BY <1>1, <3>1, <3>2
  <2>2. ASSUME u[i].of # 0
        PROVE  \E j \in 1..(i - 1) : i - j \in 1..Len(u[j].calls) /\ u[j].calls[i - j] = u[i].of
    <3>1. u[i] = s[i]
      BY <1>1, <1>4
    <3>2. PICK j \in 1..(i - 1) : i - j \in 1..Len(s[j].calls) /\ s[j].calls[i - j] = s[i].of
      BY <1>4, <2>2, <3>1, PairedMeans
    <3>3. j \in 1..Len(s)
      BY <1>1, <1>4
    <3>4. u[j] = s[j]
      BY <1>1, <3>3
    <3> QED
      BY <3>1, <3>2, <3>4
  <2> QED
    BY <2>1, <2>2
<1>5. CASE i \notin 1..Len(s)
  <2>1. PICK m \in 1..Len(t) : i = Len(s) + m
    <3>1. i - Len(s) \in 1..Len(t) /\ i = Len(s) + (i - Len(s))
      BY <1>1, <1>5
    <3> QED
      BY <3>1
  <2>2. u[i] = t[m]
    BY <1>1, <2>1
  <2>3. ASSUME NEW k \in 1..Len(u[i].calls) PROVE i + k \in 1..Len(u) /\ u[i + k].of = u[i].calls[k]
    <3>1. m + k \in 1..Len(t) /\ t[m + k].of = t[m].calls[k]
      BY <2>2, PairedMeans
    <3>2. k \in Nat
      BY <1>3, <2>2
    <3>3. i + k = Len(s) + (m + k)
      BY <1>1, <2>1, <3>2
    <3>4. u[i + k] = t[m + k] /\ i + k \in 1..Len(u)
      <4>1. u[Len(s) + (m + k)] = t[m + k]
        BY <1>1, <3>1
      <4>2. Len(s) + (m + k) \in 1..Len(u)
        BY <1>1, <3>1
      <4> QED
        BY <3>3, <4>1, <4>2, Zenon
    <3> QED
      BY <2>2, <3>1, <3>4, Zenon
  <2>4. ASSUME u[i].of # 0
        PROVE  \E j \in 1..(i - 1) : i - j \in 1..Len(u[j].calls) /\ u[j].calls[i - j] = u[i].of
    <3>1. PICK j \in 1..(m - 1) : m - j \in 1..Len(t[j].calls) /\ t[j].calls[m - j] = t[m].of
      BY <2>2, <2>4, PairedMeans
    <3>2. j \in 1..Len(t) /\ Len(s) + j \in 1..(i - 1) /\ i - (Len(s) + j) = m - j
      BY <1>1, <2>1
    <3>3. u[Len(s) + j] = t[j]
      BY <1>1, <3>2
    <3> QED
      BY <2>2, <3>1, <3>2, <3>3
  <2> QED
    BY <2>3, <2>4
<1> QED
  BY <1>4, <1>5

(* Messages without calls or results need no partner. *)
LEMMA PairedPlain ==
  ASSUME NEW s \in Seq(MessageType), \A i \in 1..Len(s) : s[i].calls = <<>> /\ s[i].of = 0
  PROVE  Paired(s)
<1>1. \A i \in 1..Len(s) : Len(s[i].calls) = 0
  OBVIOUS
<1> QED
  BY <1>1, PairedMeans

LEMMA PairedRound == ASSUME rounds \in Nat, NEW n \in Nat PROVE Paired(ToolRound(n))
<1>1. CASE n = 0
  <2>1. ToolRound(n) = <<>>
    BY <1>1 DEF ToolRound
  <2>2. DOMAIN <<>> = {}
    OBVIOUS
  <2>3. Paired(<<>>)
    BY <2>2 DEF Paired
  <2> QED
    BY <2>1, <2>3
<1>2. CASE n # 0
  <2> PICK s : s = ToolRound(n)
    OBVIOUS
  <2>1. /\ s \in Seq(MessageType) /\ Len(s) = n + 1 /\ s[1] = Message("assistant", Ids(n), 0)
        /\ \A i \in 1..n : s[i + 1] = Message("tool", <<>>, 10 * rounds + i)
    BY <1>2, RoundShape
  <2>2. s[1].calls = Ids(n) /\ s[1].of = 0 /\ Len(Ids(n)) = n /\ \A i \in 1..n : Ids(n)[i] = 10 * rounds + i
    BY <2>1 DEF Message, Ids
  <2>3. \A i \in 1..n : s[i + 1].calls = <<>> /\ s[i + 1].of = 10 * rounds + i
    <3>1. \A x \in Nat : Message("tool", <<>>, x).calls = <<>> /\ Message("tool", <<>>, x).of = x
      BY DEF Message
    <3>2. \A i \in 1..n : 10 * rounds + i \in Nat
      OBVIOUS
    <3> QED
      BY <2>1, <3>1, <3>2
  <2> SUFFICES ASSUME NEW i \in 1..Len(s)
               PROVE  /\ \A k \in 1..Len(s[i].calls) : i + k \in 1..Len(s) /\ s[i + k].of = s[i].calls[k]
                      /\ s[i].of # 0 =>
                           \E j \in 1..(i - 1) : i - j \in 1..Len(s[j].calls) /\ s[j].calls[i - j] = s[i].of
    BY <2>1, PairedMeans
  <2>4. CASE i = 1
    <3>1. \A k \in 1..n : 1 + k \in 1..Len(s) /\ s[1 + k].of = Ids(n)[k]
      BY <2>1, <2>2, <2>3
    <3> QED
      BY <2>2, <2>4, <3>1
  <2>5. CASE i # 1
    <3>1. PICK m \in 1..n : i = m + 1
      <4>1. i - 1 \in 1..n /\ i = (i - 1) + 1
        BY <2>1, <2>5
      <4> QED
        BY <4>1
    <3>2. Len(s[i].calls) = 0
      BY <2>3, <3>1
    <3>3. 1 \in 1..(i - 1) /\ i - 1 \in 1..Len(s[1].calls) /\ s[1].calls[i - 1] = s[i].of
      BY <2>2, <2>3, <3>1
    <3> QED
      BY <3>2, <3>3
  <2> QED
    BY <2>4, <2>5
<1> QED
  BY <1>1, <1>2

-------------------------------------------------------------------------------
(* Only complete rounds are added to what the next request sends. *)
TalkInv == Paired(talk) /\ \A i \in 1..Len(talk) : talk[i].role # "system"

LEMMA RoundRoles ==
  ASSUME LoopTypes, NEW n \in Nat, NEW i \in 1..Len(ToolRound(n))
  PROVE  ToolRound(n)[i].role # "system"
<1>1. rounds \in Nat
  BY CountersTypes
<1>2. n # 0
  <2>1. n = 0 => ToolRound(n) = <<>>
    BY DEF ToolRound
  <2> QED
    BY <2>1
<1>3. /\ Len(ToolRound(n)) = n + 1 /\ ToolRound(n)[1] = Message("assistant", Ids(n), 0)
      /\ \A k \in 1..n : ToolRound(n)[k + 1] = Message("tool", <<>>, 10 * rounds + k)
  BY <1>1, <1>2, RoundShape
<1>4. i = 1 \/ i - 1 \in 1..n
  BY <1>3
<1>5. \A c, x : Message("tool", c, x).role = "tool" /\ Message("assistant", c, x).role = "assistant"
  BY DEF Message
<1>6. CASE i = 1
  BY <1>3, <1>5, <1>6
<1>7. CASE i - 1 \in 1..n
  <2>1. ToolRound(n)[(i - 1) + 1] = Message("tool", <<>>, 10 * rounds + (i - 1)) /\ (i - 1) + 1 = i
    BY <1>3, <1>7
  <2> QED
    BY <1>5, <2>1
<1> QED
  BY <1>4, <1>6, <1>7

LEMMA TalkInductive == ASSUME LoopTypes, TalkInv, [LoopNext]_loopVars PROVE TalkInv'
<1>1. CASE UNCHANGED talk
  BY <1>1 DEF TalkInv
<1>2. ASSUME NEW n \in 0..MaxCalls, talk' = talk \o ToolRound(n) PROVE TalkInv'
  <2>1. n \in Nat /\ rounds \in Nat /\ talk \in Seq(MessageType)
    <3>1. talk \in Seq(MessageType)
      BY DEF LoopTypes
    <3> QED
      BY <3>1, CountersTypes, LoopLimits
  <2>2. ToolRound(n) \in Seq(MessageType)
    BY RoundTypes
  <2>3. Paired(talk')
    BY <1>2, <2>1, <2>2, PairedRound, PairedJoined DEF TalkInv
  <2>4. ASSUME NEW i \in 1..Len(talk') PROVE talk'[i].role # "system"
    <3>1. /\ Len(talk') = Len(talk) + Len(ToolRound(n))
          /\ Len(talk) \in Nat /\ Len(ToolRound(n)) \in Nat
          /\ \A k \in 1..Len(talk) : talk'[k] = talk[k]
          /\ \A k \in 1..Len(ToolRound(n)) : talk'[Len(talk) + k] = ToolRound(n)[k]
      BY <1>2, <2>1, <2>2, Joined
    <3>2. CASE i \in 1..Len(talk)
      BY <3>1, <3>2 DEF TalkInv
    <3>3. CASE i \notin 1..Len(talk)
      <4>1. i - Len(talk) \in 1..Len(ToolRound(n)) /\ i = Len(talk) + (i - Len(talk))
        BY <3>1, <3>3
      <4> QED
        BY <2>1, <3>1, <4>1, RoundRoles
    <3> QED
      BY <3>2, <3>3
  <2> QED
    BY <2>3, <2>4 DEF TalkInv
<1>3. UNCHANGED talk \/ \E n \in 0..MaxCalls : talk' = talk \o ToolRound(n)
  BY AskCases DEF LoopNext, loopVars, Ends, Said, Opens, Exhausted, Onward, Stays
<1> QED
  BY <1>1, <1>2, <1>3

-------------------------------------------------------------------------------
(* The turns of the history. *)
Past == [i \in DOMAIN history |-> Message(history[i], <<>>, 0)]

LEMMA PastPlain ==
  ASSUME LoopTypes
  PROVE  /\ Past \in Seq(MessageType)
         /\ \A i \in 1..Len(Past) : Past[i].calls = <<>> /\ Past[i].of = 0 /\ Past[i].role # "system"
<1> PICK n \in 0..MaxTurns : history \in [1..n -> {"user", "assistant"}]
  BY DEF LoopTypes, Histories
<1>1. n \in Nat
  BY LoopLimits
<1>2. Past = [i \in 1..n |-> Message(history[i], <<>>, 0)]
  BY DEF Past
<1>3. \A i \in 1..n : history[i] \in {"user", "assistant"}
  OBVIOUS
<1>4. \A i \in 1..n : /\ Message(history[i], <<>>, 0) \in MessageType
                      /\ Message(history[i], <<>>, 0).calls = <<>> /\ Message(history[i], <<>>, 0).of = 0
                      /\ Message(history[i], <<>>, 0).role # "system"
  BY <1>3 DEF Message, MessageType
<1>5. Past \in Seq(MessageType) /\ Len(Past) = n
      /\ \A i \in 1..n : Past[i] = Message(history[i], <<>>, 0)
  BY <1>1, <1>2, <1>4
<1> QED
  BY <1>4, <1>5

(* The messages of a request: one of the system, then what has no partner, then *)
(* the rounds.                                                             *)
LEMMA MessagesPaired ==
  ASSUME LoopTypes, TalkInv
  PROVE  /\ Messages \in Seq(MessageType) /\ Len(Messages) >= 1 /\ Paired(Messages)
         /\ Messages[1].calls = <<>> /\ Messages[1].role = "system"
         /\ \A i \in 2..Len(Messages) : Messages[i].role # "system"
<1> PICK first : first = Message("system", <<>>, 0)
  OBVIOUS
<1> PICK last : last = Message("user", <<>>, 0)
  OBVIOUS
<1>1. /\ first \in MessageType /\ first.calls = <<>> /\ first.of = 0 /\ first.role = "system"
      /\ last \in MessageType /\ last.calls = <<>> /\ last.of = 0 /\ last.role # "system"
  BY DEF Message, MessageType
<1> PICK h : h = Past
  OBVIOUS
<1>2. h \in Seq(MessageType) /\ \A i \in 1..Len(h) : h[i].calls = <<>> /\ h[i].of = 0 /\ h[i].role # "system"
  BY PastPlain
<1> PICK opening : opening = <<first>> \o h
  OBVIOUS
<1>3. /\ opening \in Seq(MessageType) /\ Len(opening) = Len(h) + 1 /\ opening[1] = first
      /\ \A i \in 1..Len(h) : opening[i + 1] = h[i]
  BY <1>1, <1>2, JoinedOne
<1>4. /\ <<last>> \in Seq(MessageType) /\ Len(<<last>>) = 1 /\ <<last>>[1] = last
  BY <1>1
<1> PICK plain : plain = opening \o <<last>>
  OBVIOUS
<1>5. /\ plain \in Seq(MessageType) /\ Len(plain) = Len(opening) + 1
      /\ \A i \in 1..Len(opening) : plain[i] = opening[i]
      /\ \A i \in 1..1 : plain[Len(opening) + i] = <<last>>[i]
  BY <1>3, <1>4, Joined
<1>6. \A i \in 1..Len(plain) : /\ plain[i].calls = <<>> /\ plain[i].of = 0
                               /\ i # 1 => plain[i].role # "system"
  <2> SUFFICES ASSUME NEW i \in 1..Len(plain)
               PROVE  plain[i].calls = <<>> /\ plain[i].of = 0 /\ (i # 1 => plain[i].role # "system")
    OBVIOUS
  <2>1. Len(h) \in Nat
    BY <1>2
  <2>2. CASE i = 1
    BY <1>1, <1>3, <1>5, <2>1, <2>2
  <2>3. CASE i - 1 \in 1..Len(h)
    <3>1. i \in 1..Len(opening) /\ opening[(i - 1) + 1] = h[i - 1] /\ (i - 1) + 1 = i
      BY <1>3, <2>1, <2>3
    <3> QED
      BY <1>2, <1>5, <2>3, <3>1
  <2>4. CASE i = Len(opening) + 1
    BY <1>1, <1>4, <1>5, <2>4
  <2>5. i = 1 \/ i - 1 \in 1..Len(h) \/ i = Len(opening) + 1
    BY <1>3, <1>5, <2>1
  <2> QED
    BY <2>2, <2>3, <2>4, <2>5
<1>7. Messages = plain \o talk /\ talk \in Seq(MessageType)
  BY DEF Messages, Past, LoopTypes
<1>8. Paired(Messages)
  BY <1>5, <1>6, <1>7, PairedPlain, PairedJoined DEF TalkInv
<1>9. /\ Messages \in Seq(MessageType) /\ Len(Messages) = Len(plain) + Len(talk)
      /\ \A i \in 1..Len(plain) : Messages[i] = plain[i]
      /\ \A i \in 1..Len(talk) : Messages[Len(plain) + i] = talk[i]
  BY <1>5, <1>7, Joined
<1>10. Len(h) \in Nat /\ Len(talk) \in Nat /\ Len(plain) = Len(h) + 2
  BY <1>2, <1>3, <1>5, <1>7
<1>11. Messages[1] = first
  BY <1>3, <1>5, <1>9, <1>10
<1>12. ASSUME NEW i \in 2..Len(Messages) PROVE Messages[i].role # "system"
  <2>1. CASE i \in 1..Len(plain)
    <3>1. i # 1 /\ Messages[i] = plain[i]
      BY <1>9, <2>1
    <3>2. i # 1 => plain[i].role # "system"
      BY <1>6, <2>1
    <3> QED
      BY <3>1, <3>2
  <2>2. CASE i \notin 1..Len(plain)
    <3>1. i - Len(plain) \in 1..Len(talk) /\ i = Len(plain) + (i - Len(plain))
      BY <1>9, <1>10, <2>2
    <3>2. Messages[i] = talk[i - Len(plain)]
      BY <1>9, <3>1
    <3> QED
      BY <3>1, <3>2 DEF TalkInv
  <2> QED
    BY <2>1, <2>2
<1> QED
  BY <1>1, <1>8, <1>9, <1>10, <1>11, <1>12

(* AnthropicAdapter drops the only system message, the first: the others keep *)
(* their distances, their calls and what they answer.                      *)
LEMMA AnthropicTurns ==
  ASSUME NEW ms \in Seq(MessageType), Len(ms) >= 1, ms[1].role = "system",
         \A i \in 2..Len(ms) : ms[i].role # "system"
  PROVE  /\ AsAnthropic(ms) \in Seq(MessageType) /\ Len(AsAnthropic(ms)) = Len(ms) - 1
         /\ \A n \in 1..(Len(ms) - 1) : /\ AsAnthropic(ms)[n].calls = ms[n + 1].calls
                                       /\ AsAnthropic(ms)[n].of = ms[n + 1].of
<1> DEFINE L == Len(ms)
           turns == {i \in DOMAIN ms : ms[i].role # "system"}
           Nth(n) == CHOOSE i \in turns : Cardinality({j \in turns : j <= i}) = n
           Turn(m) == [m EXCEPT !.role = IF @ = "tool" THEN "user" ELSE @]
<1>1. AsAnthropic(ms) = [n \in 1..Cardinality(turns) |-> Turn(ms[Nth(n)])]
      /\ turns = {i \in DOMAIN ms : ms[i].role # "system"}
  BY DEF AsAnthropic
<1>2. L \in Nat /\ L >= 1 /\ DOMAIN ms = 1..L
  OBVIOUS
<1>3. turns = 2..L
  BY <1>1, <1>2
<1> HIDE DEF turns
<1>4. Cardinality(turns) = L - 1
  <2>1. 2 \in Int /\ L \in Int
    BY <1>2
  <2>2. Cardinality(2..L) = IF 2 > L THEN 0 ELSE L - 2 + 1
    BY <2>1, FS_Interval
  <2> QED
    BY <1>2, <1>3, <2>2
<1>5. ASSUME NEW i \in turns PROVE Cardinality({j \in turns : j <= i}) = i - 1
  <2>1. i \in 2..L
    BY <1>3
  <2>2. {j \in turns : j <= i} = 2..i
    BY <1>2, <1>3, <2>1
  <2>3. i \in Int /\ 2 \in Int /\ i >= 2
    BY <1>2, <2>1
  <2>4. Cardinality(2..i) = IF 2 > i THEN 0 ELSE i - 2 + 1
    BY <2>3, FS_Interval
  <2>5. Cardinality(2..i) = i - 1
    BY <2>3, <2>4
  <2> QED
    BY <2>2, <2>5, Zenon
<1>6. ASSUME NEW n \in 1..(L - 1) PROVE Nth(n) = n + 1
  <2>1. n + 1 \in turns /\ n + 1 \in Int
    BY <1>2, <1>3
  <2>2. \A i \in turns : Cardinality({j \in turns : j <= i}) = n <=> i = n + 1
    <3> SUFFICES ASSUME NEW i \in turns PROVE Cardinality({j \in turns : j <= i}) = n <=> i = n + 1
      OBVIOUS
    <3>1. i \in Int
      BY <1>3
    <3> QED
      BY <1>5, <3>1
  <2> QED
    BY <2>1, <2>2
<1>7. ASSUME NEW m \in MessageType
      PROVE  Turn(m) \in MessageType /\ Turn(m).calls = m.calls /\ Turn(m).of = m.of
  BY DEF MessageType
<1> HIDE DEF Nth, Turn
<1>8. \A n \in 1..(L - 1) : n + 1 \in 1..L /\ ms[n + 1] \in MessageType
  BY <1>2
<1>9. AsAnthropic(ms) = [n \in 1..(L - 1) |-> Turn(ms[n + 1])]
  BY <1>1, <1>4, <1>6
<1>10. \A n \in 1..(L - 1) : Turn(ms[n + 1]) \in MessageType
  BY <1>7, <1>8
<1>11. AsAnthropic(ms) \in Seq(MessageType) /\ Len(AsAnthropic(ms)) = L - 1
       /\ \A n \in 1..(L - 1) : AsAnthropic(ms)[n] = Turn(ms[n + 1])
  <2>1. L - 1 \in Nat
    BY <1>2
  <2> QED
    BY <1>9, <1>10, <2>1
<1> QED
  BY <1>7, <1>8, <1>11

LEMMA AnthropicPaired ==
  ASSUME NEW ms \in Seq(MessageType), Len(ms) >= 1, ms[1].role = "system", ms[1].calls = <<>>,
         \A i \in 2..Len(ms) : ms[i].role # "system", Paired(ms)
  PROVE  Paired(AsAnthropic(ms))
<1> PICK s : s = AsAnthropic(ms)
  OBVIOUS
<1>1. /\ s \in Seq(MessageType) /\ Len(s) = Len(ms) - 1 /\ Len(ms) \in Nat
      /\ \A n \in 1..(Len(ms) - 1) : s[n].calls = ms[n + 1].calls /\ s[n].of = ms[n + 1].of
  <2>1. Len(ms) \in Nat
    OBVIOUS
  <2> QED
    BY <2>1, AnthropicTurns
<1>2. \A i \in 1..Len(ms) : ms[i].calls \in Seq(Nat)
  <2>1. \A i \in 1..Len(ms) : ms[i] \in MessageType
    OBVIOUS
  <2>2. \A m \in MessageType : m.calls \in Seq(Nat)
    BY DEF MessageType
  <2> QED
    BY <2>1, <2>2
<1> SUFFICES ASSUME NEW i \in 1..Len(s)
             PROVE  /\ \A k \in 1..Len(s[i].calls) : i + k \in 1..Len(s) /\ s[i + k].of = s[i].calls[k]
                    /\ s[i].of # 0 =>
                         \E j \in 1..(i - 1) : i - j \in 1..Len(s[j].calls) /\ s[j].calls[i - j] = s[i].of
  BY <1>1, PairedMeans
<1>3. i + 1 \in 1..Len(ms) /\ i \in 1..(Len(ms) - 1) /\ i \in Nat
  BY <1>1
<1>4. s[i].calls = ms[i + 1].calls /\ s[i].of = ms[i + 1].of
  BY <1>1, <1>3
<1>5. ASSUME NEW k \in 1..Len(s[i].calls) PROVE i + k \in 1..Len(s) /\ s[i + k].of = s[i].calls[k]
  <2>1. k \in Nat /\ k \in 1..Len(ms[i + 1].calls)
    BY <1>2, <1>3, <1>4
  <2>2. (i + 1) + k \in 1..Len(ms) /\ ms[(i + 1) + k].of = ms[i + 1].calls[k]
    BY <1>3, <2>1, PairedMeans
  <2>3. (i + 1) + k = (i + k) + 1 /\ i + k \in 1..(Len(ms) - 1)
    BY <1>1, <1>3, <2>1, <2>2
  <2> QED
    BY <1>1, <1>4, <2>2, <2>3
<1>6. ASSUME s[i].of # 0
      PROVE  \E j \in 1..(i - 1) : i - j \in 1..Len(s[j].calls) /\ s[j].calls[i - j] = s[i].of
  <2>1. PICK m \in 1..((i + 1) - 1) : (i + 1) - m \in 1..Len(ms[m].calls) /\ ms[m].calls[(i + 1) - m] = ms[i + 1].of
    BY <1>3, <1>4, <1>6, PairedMeans
  <2>2. m # 1
    <3>1. Len(ms[1].calls) = 0
      OBVIOUS
    <3> QED
      BY <2>1, <3>1
  <2>3. m - 1 \in 1..(i - 1) /\ i - (m - 1) = (i + 1) - m /\ m - 1 \in 1..(Len(ms) - 1) /\ (m - 1) + 1 = m
    <3>0. m \in 1..((i + 1) - 1) /\ (i + 1) - 1 = i
      BY <1>3
    <3>1. m \in Nat /\ 1 < m /\ m <= i
      BY <1>3, <2>2, <3>0
    <3>2. i + 1 <= Len(ms) /\ Len(ms) \in Nat
      BY <1>1, <1>3
    <3> QED
      BY <1>3, <3>1, <3>2
  <2>4. s[m - 1].calls = ms[m].calls
    BY <1>1, <2>3
  <2> QED
    BY <1>4, <2>1, <2>3, <2>4
<1> QED
  BY <1>5, <1>6

(* Each request of a call, whatever failed before it, pairs calls and results as
   both adapters send them: for any history and any number of rounds and calls. *)
THEOREM WellFormed == LoopSpec => []RequestsWellFormed
<1>1. ASSUME LoopInit PROVE TalkInv
  <2>1. talk = <<>>
    BY <1>1 DEF LoopInit
  <2>2. DOMAIN <<>> = {} /\ Len(<<>>) = 0
    OBVIOUS
  <2> QED
    BY <2>1, <2>2 DEF TalkInv, Paired
<1>2. ASSUME LoopInv, TalkInv PROVE RequestsWellFormed
  <2>1. Paired(Messages) /\ Paired(AsAnthropic(Messages))
    BY <1>2, MessagesPaired, AnthropicPaired DEF LoopInv
  <2> QED
    BY <2>1 DEF RequestsWellFormed, AsOpenAI
<1>3. ASSUME LoopInv, TalkInv, [LoopNext]_loopVars PROVE TalkInv'
  BY <1>3, TalkInductive DEF LoopInv
<1> QED
  BY <1>1, <1>2, <1>3, LoopAlways, PTL DEF LoopSpec
===============================================================================
