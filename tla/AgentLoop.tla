------------------------------- MODULE AgentLoop -------------------------------
(***************************************************************************)
(* One call of run_agent_loop of services/worker/main.py: the requests it   *)
(* sends to the model, the rounds of tools the model asks for, the circuit *)
(* breaker and the limit of iterations.  Turn takes the call as one step,  *)
(* for it touches none of the rows that Turn is about.                     *)
(***************************************************************************)
EXTENDS Naturals, Sequences, FiniteSets

CONSTANTS
  MaxTurns,        \* turns of the history: limit of _load_history (8)
  ModelTexts,      \* texts of the model (the apology for an empty one among them)
  MaxCalls,        \* bound: tool calls in one response
  MaxIterations,   \* max_tool_iterations (5)
  Breaker          \* circuit_breaker_failures (3)

ASSUME LoopAssumption ==
  /\ {MaxTurns, MaxCalls} \subseteq Nat
  /\ {MaxIterations, Breaker} \subseteq Nat \ {0}
  /\ {"", "dificuldades", "continuar"} \cap ModelTexts = {}

VARIABLES
  history,    \* roles of the turns before, oldest first
  talk,       \* messages after the user message
  rounds,     \* iterations that ended without a return
  failures,   \* those that failed since one that did not
  outcomes,   \* history: how each request ended
  answer      \* what the call returned, "" before

loopVars == <<history, talk, rounds, failures, outcomes, answer>>

(* What _load_history returns at most: other attempts write rows, too, so    *)
(* the newest row need not be the message to be answered.                  *)
Histories == UNION {[1..n -> {"user", "assistant"}] : n \in 0..MaxTurns}

LoopInit ==
  /\ history \in Histories
  /\ talk = <<>> /\ rounds = 0 /\ failures = 0 /\ outcomes = <<>> /\ answer = ""

-------------------------------------------------------------------------------
(* The messages of a request: [role, calls, of], calls the ids an assistant  *)
(* turn asks for, of the id that a tool's turn answers (0: none).          *)
Message(r, c, i) == [role |-> r, calls |-> c, of |-> i]

Messages ==
  <<Message("system", <<>>, 0)>> \o [i \in DOMAIN history |-> Message(history[i], <<>>, 0)]
    \o <<Message("user", <<>>, 0)>> \o talk

(* AnthropicAdapter: no system turn, results of tools are turns of the user. *)
AsAnthropic(ms) ==
  LET turns == {i \in DOMAIN ms : ms[i].role # "system"}
      Nth(n) == CHOOSE i \in turns : Cardinality({j \in turns : j <= i}) = n IN
    [n \in 1..Cardinality(turns) |->
       [ms[Nth(n)] EXCEPT !.role = IF @ = "tool" THEN "user" ELSE @]]

(* OpenAICompatibleAdapter: every message as it is. *)
AsOpenAI(ms) == ms

(* What the adapters' complete() may end with, an exception counting as none. *)
Failed == [body |-> "", calls |-> 0]
Responses ==
  {Failed} \cup [body : ModelTexts, calls : {0}]
           \cup [body : {""}, calls : 1..MaxCalls]

(* Wrong: an exception of a tool leaves the round. *)
ToolRoundBreaks(n) ==
  IF n = 0 THEN <<>>
  ELSE LET id(i) == 10 * rounds + i IN
    <<Message("assistant", [i \in 1..n |-> id(i)], 0)>> \o [i \in 1..(n - 1) |-> Message("tool", <<>>, id(i))]

(* The assistant's turn with its n calls, once, and what ToolRegistry.execute *)
(* makes of each: a result or an error, never an exception.                *)
ToolRound(n) ==
  IF n = 0 THEN <<>>
  ELSE LET id(i) == 10 * rounds + i IN
    <<Message("assistant", [i \in 1..n |-> id(i)], 0)>> \o [i \in 1..n |-> Message("tool", <<>>, id(i))]

(* The next iteration, with what this one adds; after the last the loop ends. *)
Iterate(f, n) ==
  IF rounds + 1 = MaxIterations THEN answer' = "continuar" /\ UNCHANGED <<talk, rounds, failures>>
  ELSE /\ rounds' = rounds + 1 /\ failures' = f
       /\ talk' = talk \o ToolRound(n) /\ UNCHANGED answer

(* run_agent_loop returns b out of its loop. *)
Return(b) == answer' = b /\ UNCHANGED <<talk, rounds, failures>>

(* A text ends the loop. *)
Answered(r) == r # Failed /\ r.calls = 0 /\ Return(r.body)

(* Wrong: failures are never reset. *)
CalledKeepsCount(r) == r.calls > 0 /\ Iterate(failures, r.calls)

(* Calls are made, and failures in a row begin anew. *)
Called(r) == r.calls > 0 /\ Iterate(0, r.calls)

(* The circuit breaker opens, or the next iteration tries again. *)
Broken(r) ==
  /\ r = Failed
  /\ IF failures + 1 >= Breaker THEN Return("dificuldades") ELSE Iterate(failures + 1, 0)

(* One iteration: a request and the tools it asks for. *)
Ask ==
  /\ answer = ""
  /\ \E r \in Responses :
       /\ Answered(r) \/ Called(r) \/ Broken(r)
       /\ outcomes' = Append(outcomes, IF r = Failed THEN "failed" ELSE IF r.calls > 0 THEN "calls" ELSE "text")
  /\ UNCHANGED history

LoopNext == Ask

LoopSpec == LoopInit /\ [][LoopNext]_loopVars

-------------------------------------------------------------------------------
LoopTypeOK ==
  /\ history \in Histories
  /\ rounds \in 0..(MaxIterations - 1) /\ failures \in 0..(Breaker - 1)
  /\ answer \in {"", "dificuldades", "continuar"} \cup ModelTexts
  /\ Len(outcomes) <= MaxIterations

(* Results follow the assistant turn that asks for them, one per call and in *)
(* its order, and nothing else answers a call.                             *)
Paired(turns) ==
  \A i \in DOMAIN turns :
    /\ \A k \in DOMAIN turns[i].calls :
         i + k \in DOMAIN turns /\ turns[i + k].of = turns[i].calls[k]
    /\ turns[i].of # 0 =>
         \E j \in 1..(i - 1) : i - j \in DOMAIN turns[j].calls /\ turns[j].calls[i - j] = turns[i].of

(* "Both OpenAI and Anthropic reject a follow-up request that drops the      *)
(* assistant tool_calls the results refer to" (C3): whatever fails on the   *)
(* way, each request pairs calls and results as both adapters send them.   *)
RequestsWellFormed == answer = "" => Paired(AsAnthropic(Messages)) /\ Paired(AsOpenAI(Messages))

(* Whatever the model answers, the call makes at most MaxIterations requests, *)
(* and it gives up only for cause: Breaker failures in a row up to the last *)
(* request, or all the requests it may make, none of which brought a text. *)
GivesUpForCause ==
  LET n == Len(outcomes) IN
    /\ n <= MaxIterations
    /\ answer = "dificuldades" =>
         n >= Breaker /\ \A i \in (n - Breaker + 1)..n : outcomes[i] = "failed"
    /\ answer = "continuar" => n = MaxIterations /\ \A i \in 1..n : outcomes[i] # "text"
===============================================================================
