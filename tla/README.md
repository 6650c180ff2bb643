# Formal models of cante

cante answers WhatsApp messages with LLM bots. A webhook of the gateway
(Evolution) becomes an entry of a Redis stream, a pool of workers turns entries
into replies, a pool of senders hands the replies to the gateway, an API lets
operators configure bots and step into conversations, and an elected scheduler
runs periodic jobs. PostgreSQL holds the rows, Redis everything the processes
coordinate with: streams, locks, counters, dedup keys.

The directory holds TLA+ modules of the parts of the system in which processes
meet, TLC configurations that check them on small instances, and TLAPS proofs of
their central properties for every instance.

## 1. Inventory

Paths are relative to `src/`.

| Component | State it keeps | Operations | Talks to | Hard behaviour |
|---|---|---|---|---|
| Event bus, `core/cante/bus.py` | a stream per topic, its consumer group (last delivered id, pending list with idle times) | `publish`, `consume`, `ack`, `create_group`, `claim_pending`, `trim_delivered`, `pending_oldest` | Redis | delivery to many consumers, reclaiming from dead ones, a trim in two commands, MAXLEN, a Redis without its data |
| Ingress, `services/ingress/main.py` | rate counters, dedup keys (Redis) | `webhook` (`_rate_limited`, `_resolve_channel_secret`, `_verify_signature`, `_parse`) | gateway, bus | concurrent and repeated posts, a failure between two Redis commands |
| Worker, `services/worker/main.py` | conversation locks, retry counters (Redis), conversations, messages (rows), its batch | `main`, `_drain`, `process`, `_resolve_route`, `run_agent_loop`, `_on_failure` | bus, database, LLM, tools | locks without owner, heartbeats, reclaims racing TTLs, deaths, retries and dead letters |
| Sender, `services/sender/main.py` | its batch | `main`, `send_one`, `_check_queue_health` | bus, database, gateway | failure between the gateway's answer and the acknowledgement, abandoned batches |
| Scheduler, `services/scheduler/main.py` | leader lock (Redis), `is_leader`, job list | `_try_acquire_lock`, `_refresh_lock`, `_daily_learning`, `_check_numbers_health` | Redis, database, gateway, LLM | leader election by TTL, jobs reading stale rows, a process whose tenant hook appears half way |
| API: conversations, `services/api/main.py` 1080-1213 | conversation state, human messages, audit rows | `takeover`, `send_as_human`, `close_conv` | database, bus | operators and workers on one conversation |
| API: learning review, 1218-1421 | learnings, skill texts | `approve`, `reject`, `snooze`, `trigger_analysis` | database, scheduler's code in a subprocess | read-modify-write of a playbook, analysis runs that overlap |
| API: numbers, 467-675; `core/cante/evolution.py` | number status, webhook secrets, gateway instances | `create_number`, `get_qr`, `connect_number`, `disconnect_number`, `delete_number`, the health check | database, gateway | status written by requests and the check from answers that are stale, secrets kept at both ends |
| API: login and tokens, 297-365; `core/cante/auth.py` | throttle counters, revoked token ids (Redis) | `login`, `refresh` | Redis | counter without expiry, check and revoke in two steps |
| API: bots, skills, providers, routes, contacts, groups, users, audit, triggers | rows | CRUD | database, bus | version numbers from `max + 1`, cursor pagination |
| Tenant isolation, `core/cante/tenant.py` | context variables, session hooks | `with_tenant`, `with_bypass`, three hooks | every database access | fail-closed reads, nested contexts, attach versus flush |
| Metrics, `core/cante/metrics.py` | `daily_metrics` rows | `refresh_daily_metrics`, `ensure_days_cached`, `get_metrics_overview` | database | a cache of past days, the turn of the day |
| Agent loop, worker lines 226-474 and 580-621; `core/cante/guards.py`, `tools.py`, `adapters/` | messages, contact attributes (rows), the turns of one request | `_resolve_language`, `_load_history`, `run_agent_loop`, guard pipeline, tool registry | database, LLM, tools | failing rounds, a regeneration, columns and histories read before awaits |
| Redis connection, `core/cante/redis.py` | one client and a timeout counter per process | `get_redis`, `on_redis_timeout`, `on_redis_success` | Redis | resetting a client others are using |
| Adapters, `core/cante/evolution.py`, `llm.py`, `adapters/` | none | HTTP calls | gateway, LLM | answers that are late or lost |
| Models, migrations, seeds, secrets, URL checks, observability | declarations | | | constraints that code relies on |
| Frontend, deployment, examples | | | API | token refresh of the client |

What makes each correct, in one line:

- **Bus**: no entry is skipped, lost or handed out after its acknowledgement; a
  trim removes acknowledged entries only; a dead consumer's entries come back.
- **Ingress**: a message is on the stream once, a 200 is true, the limit limits
  and lifts.
- **Worker**: one worker per conversation, every entry is answered or visibly
  given up, history is never behind the chat, nothing stays locked or pending.
- **Sender**: no reply twice, none dropped silently, each tried.
- **Scheduler**: one leader, a successor in bounded time; a conversation is
  analysed once.
- **Conversations**: a human who takes over is alone with the contact; rows,
  stream and audit agree.
- **Agent loop**: every request pairs calls and results, a call of the loop gives up
  for cause only, no reply twice in a row, one language.
- **Learning review**: a conversation is analysed once, an approved suggestion is in
  the skill, version numbers differ.
- **Numbers**: the status follows the gateway, one welcome per pairing, the webhook
  leads to the row and carries its secret.
- **Tokens**: a refresh token works once; an address is throttled for a window.
- **Tenants**: no read or write outside the tenant of the context.
- **Metrics**: a cached day equals its recomputation.

## 2. Modules

| Module | Models | Kind |
|---|---|---|
| `AtLeastOnceQueue` | what the bus promises | abstract specification |
| `StreamGroup` | `RedisStreamsBus` on one stream and group | component |
| `Worker` | the worker pool | component, implements `AtLeastOnceQueue` |
| `Sender` | the sender pool | component, uses `StreamGroup` command for command |
| `Ingress` | webhook requests | component |
| `Leader` | the scheduler's election | component |
| `Conversation` | a contact's conversations between bot and operators | component |
| `Learning` | analysis runs, reviews and skill edits | component |
| `Turn` | answers: language, history, guards, beside operators and edits | component |
| `AgentLoop` | one call of `run_agent_loop`: requests, tools, breaker | component |
| `Numbers` | pairing of a phone's rows, webhook, health check | component |
| `MC*` | finite instances for TLC | model values, maps, symmetry |
| `*Proofs` | theorems | TLAPS |

`StreamGroup` is an instance inside `Sender`: every command a sender sends is the
`StreamGroup` action of that name, so what is proved of the bus holds of
`stream:outbound`. `Worker` has two streams and many locks; it keeps the part of
the bus its properties need (waiting, pending, idle, acknowledged entries) and is
shown to use it as `AtLeastOnceQueue` allows, which `StreamGroup` in turn
implements.

### StreamGroup (`core/cante/bus.py`)

An entry is its id. State: `stream` (entries in the stream), `top` (last id
given), `group` and `delivered` (the group exists; its last delivered id), `pel`
(pending list: entry to consumer), `idle` (pending longer than `min_idle_ms`),
`held` (what each consumer's code was handed and has not finished), `snap` (what a
`trim_delivered` between its two commands remembers). Each method is an action of
that name; `trim_delivered` is `TrimInfo` (XINFO, and its early returns) and
`TrimApply` (XTRIM MINID), because other consumers run between. `Publish` evicts
past MAXLEN, as XADD does. `Crash` is a consumer that forgets its batch; `Flush`,
nothing of this code, is a Redis that comes back empty, after which `consume` meets NOGROUP and
`create_group` makes the group from id 0.

### Worker (`services/worker/main.py`)

A worker is a process at an await: `pc[w]`. `Consume`/`Claim`/`NextStream` are
`_drain` and the alternation of `main` between the two streams; `Lock` takes the
conversation lock or drops the entry; `ResolveRoute`, `InsertConversation`,
`PersistInbound`, `RunAgent`, `PersistOutbound`, `PublishReply` and `Finally` are
`process`; `Ack`, `ClearRetries` the success path; `CountFailure`, `Bury`,
`BuryAck`, `BuryClear` are `_on_failure`. Every call into Redis or PostgreSQL may
fail *before* it took effect or *after* it (the answer is lost): `Results`. An
exception goes where the code's handlers send it. `HeartbeatFails` ends the lock's
heartbeat task, `LockExpires` is the lock's TTL, which a live heartbeat prevents,
`Crash` restarts a worker without its batch. `Age` lets a pending entry reach
`worker_claim_min_idle_ms` at any time after its delivery, since nothing in the
code bounds how long an entry waits in a batch.

`InsertConversation` needs the row lock of the contact (`ContactFree`):
`_resolve_route` selects the contact and, for an existing one, flushes an UPDATE
before it looks for the active conversation; the row stays locked until the commit.

Abstracted: texts, languages, tool rounds and guards inside `RunAgent` (one step that
answers or raises). `Turn` and `AgentLoop` are that step in detail.

### Sender (`services/sender/main.py`)

`Consume`, `Resolve` (pacing, `_resolve_channel_config`, the early returns of
`send_one`), `Send` (the gateway may take the message and may answer,
independently), `Ack`, `Trim`, `TrimApply`; `Abandon` is a death or an exception
that sends the loop back to `consume`. `Deliverable` are the replies with a
configured number, a recipient and a text.

### Ingress (`services/ingress/main.py`)

A handler is a request in progress. `Post` is the gateway (first attempt or
retry), `Limit` and `Expire` the two Redis commands of `_rate_limited`,
`Authenticate` the secret and the signature, `Dedup` the SET NX and the filters,
`Enqueue` the XADD, `Accept` the 200. `WindowEnds` and `DedupExpires` are Redis'
clock. Failures are as in `Worker`; a request that fails ends with a 500.

### Leader (`services/scheduler/main.py`)

Time is counted in ticks of the loop's sleep. `Boot` and `Round` are the two
places where `main` sends a command; `TryAcquire` is SET NX EX, `Refresh` the Lua
script. `Down` stops a process by signal, crash or Redis exception, in each case
without releasing the lock and possibly after its last command took effect.
`MaxDelay` bounds the time between two rounds and is larger than the TTL in the
run, so stalled leaders occur.

### Conversation (`services/worker/main.py`, `services/api/main.py`)

The conversations of one contact on one number. An attempt is one call of `process` for
the contact. Attempts run side by side, whatever locks they hold: a trigger locks
`lock:conv:<conversation_id>`, a message `lock:conv:<phone>`, and a lock lapses when its
heartbeat died. An attempt is `ResolveRoute` (the SELECT of an active conversation),
`InsertConversation` (if there was none; in between the contact's row lock keeps other
attempts waiting, `ContactFree`), `PersistInbound`, `Answer`, `PersistOutbound`,
`PublishReply`, each of which may raise before or after it took effect, or `Abort`; a
repetition is an attempt of its own, and which entries are repeated is the subject of
`Worker`. An API request is `Load` (`load_owned`) and later `Commit` (`takeover`,
`close_conv`: the audit row, and the UPDATE that SQLAlchemy emits only if the value differs
from the one loaded), or `SendPublish` and `SendCommit` (`send_as_human`), or `Fail`. Rows
and published replies are counted per conversation; texts are abstracted. An escalation
(`_escalated`, a guard) changes the text only, so it is part of `Answer`. That one
conversation of a contact is active is `OneActiveConversation` of `Worker`, where
SELECT and INSERT are interleaved with failures, lapses and deaths.

### Learning (`services/scheduler/main.py`, `services/api/main.py`)

A run is one call of `_daily_learning`: `Start` (the SELECT of the candidates), `Look`
(one candidate, up to the question to the model), `Insert` (the import of
`cante.tenant`, INSERT, commit), `End`. Runs of one process do not overlap, the
scheduler's and the subprocess of `trigger_analysis` may. `enforced` holds the
processes whose tenant hooks are installed: from then on a run's first read raises; the
handler's own read of an expired row raises too and ends the run (`"broken"`).
A request is a review (`Load`, `ReadSkill`, `Commit`) or an edit (`Open`: what the
editor's page showed, `Flush`, `Commit`). Row locks from a flush to the commit are
`LearningFree` and `SkillFree`. A rejection and a snooze are one kind, `"declined"`: both
write the learning's row and no text. A text is the set of requests that wrote into it.

### Turn (`services/worker/main.py`, guards)

The messages of one conversation. An attempt `a` is a call of `process` at an await,
`run[a]`: `PersistInbound`, `ResolveLanguage` and `SaveLanguage` (the contact's attributes
are read and written back whole), `LoadHistory`, `Answer` (the agent loop's reply and the
guards on it), `Regenerate`, `PersistOutbound`; `BreakOff` is an exception or a death
anywhere, which ends the attempt. Attempts overlap without restriction, as in
`Conversation`, and one that is repeated is another attempt; nothing is promised of how
often that happens, since a death or repeated failures end it (`Worker`). Rows are in the
order of their commits. Beside the attempts run `SendAsHuman` and
`LoadContact`/`UpdateContact`. A text is what `detect_language` counts in it and
whether it is in scope.

### AgentLoop (`services/worker/main.py`, adapters, tools)

One call of `run_agent_loop`, which touches none of the rows `Turn` is about. `Ask` is one
iteration: a request, and what comes of it, a text (`Answered`), calls of tools (`Called`,
each with a result or an error: `ToolRegistry.execute` raises nothing) or a failure
(`Broken`, the circuit breaker). A request to the model is the sequence of its turns'
roles, call ids and answered ids, as the two adapters send it.

### Numbers (`services/api/main.py`, `services/scheduler/main.py`, `core/cante/evolution.py`)

All rows of one phone, which share one gateway instance. Its webhook is `hook` (the row id
in the URL, and whether the token is that row's) and `base` (the URL's host:
`settings.ingress_base_url` where `create_number` sets it, the host in the source where
`get_qr` sets it again). A request holds the row it
loaded and is at a call to the gateway or the commit: `Create`, `CreateInstance`,
`Provision`, `Commit`; `Load`, `ShowQR`, `Ask`, `SetHook`, `Mark` (`get_qr` and
`connect_number`); `Logout`, `Clear`; `Delete`. `Move` is the phone. `CheckStart`,
`CheckAsk`, `CheckWrite` are `_check_numbers_health`; `Enforce` is the tenant hook that
the first learning of the scheduler's process installs (see `Learning`), `Restart` a
new process. An answer of the gateway may be a failure at every call.

## 3. Runs

All runs use two workers of TLC; the longest take about a minute and a half.

| Run | Module | Question | Bounds |
|---|---|---|---|
| `StreamGroup_group` | MCStreamGroup | is the bus an at-least-once queue? | 2 consumers that read, reclaim and trim; 4 entries, MAXLEN 3; 1 crash; 1 flush |
| `Worker_pool` | MCWorker | does the pool settle what it takes? | 2 workers, 3 entries: two of one contact, who is blocked before the second, and a trigger without a route; no failure |
| `Worker_crash` | MCWorker | what does a death leave behind? | 2 workers, 2 entries of one contact (one lock) to two numbers, the second without a route, so that it is dead-lettered; 1 death at any await, those of the dead-lettering included |
| `Worker_faults` | MCWorker | do lock, conversation and dead letters survive failing calls? | 2 workers, 2 entries of one conversation, any 2 failing calls, `worker_max_retries` 2; symmetry of workers (safety only) |
| `Sender_pool` | MCSender | is every reply sent at most once, and none lost unseen? | 2 senders, 4 replies, two without configuration, MAXLEN 3, 2 abandoned batches |
| `Ingress_pool` | MCIngress | are dedup and limit right under concurrency? | 2 requests at a time, 2 webhooks with 3 messages (one unwanted, with the id of another), 2 posts each, limit 3, 1 failure, 1 expiry |
| `Leader_election` | MCLeader | is there one leader, and soon? | 3 schedulers, TTL 3, delay up to 4, 3 stops, 1 flush; symmetry (safety only) |
| `Conversation_desk` | MCConversation | do bot and operators share conversations as meant? | 3 attempts, 2 requests at a time, 3 requests in all, 3 conversations, 1 failing await; symmetry (safety only) |
| `Learning_review` | MCLearning | is nothing learned twice, and no approval lost unseen? | 3 runs in 2 processes, 2 conversations, 2 requests, 1 text; symmetry (safety only) |
| `Turn_scenes` | MCTurn | do replies, language and attributes survive overlapping attempts; does the loop behave? | three scenes: 3 attempts with 2 texts, phone known or not, and 1 edit; 3 attempts and 1 operator's message, which may be empty; 1 call of the loop with any history of 3 turns, 2 calls a response, 4 requests, breaker 2; window 3; symmetry (safety only) |
| `Numbers_health` | MCNumbers | do status, webhook and gateway agree? | 2 requests at a time, 4 in all, 2 rows, 2 moves of the phone, 1 fault |
| `Worker_crash_lost` | MCWorker | *violation*: "ack only on success" | 1 worker, 1 entry, 1 death |

Why the bounds are enough. Every property here is about at most two entries and
two actors and a disturbance between two of their steps: two consumers and a trim
need one entry below and one above the trim id and one evicted; two workers of one
conversation meet with two entries; the third entry adds the other stream, the
other key and the ignored outcome. A second failure is what it takes to fail
in the handler of the first. The leader's bounds let a lock expire, be
taken over and expire again. Three requests are what two that overlap and one after
them need; three conversations, one taken over, one closed, one active; three attempts, so
that two overlap on one conversation and one comes after. Two runs in one
process and one in another overlap or do not; two requests are enough to overwrite one
another. In `Turn` a second attempt overlaps the first or reads what it stored, and a third
writes back what it read before either; the edit and the operator's message are about
different properties, so each has its scene (`MCTurn`), and so has the loop, which shares
no state with the attempts. `AgentLoop` scales the code's limits (5 iterations, 3 failures, 8
turns) down to where each is met, and a failure between two rounds of tools fits in.
Two rows of a phone and two requests make every pair of poll, disconnect, creation and
deletion meet with the check.

What the properties say:

- `TrimOnlyAcked`, `NothingLost`, `ImplementsQueue`,
  `EventuallyAcked`: what the users of the bus rely on. The last three end where data is
  destroyed: `LossFree` says that MAXLEN was not exceeded and Redis lost nothing.
- `MutualExclusion`: two workers with live heartbeats never share a lock key. The
  lock's value is always `"1"`; refresh and release check no owner, so this rests
  on who can reach them when. `OneActiveConversation`: where keys differ (a trigger
  locks its conversation, a message the phone), the contact's row lock has to do.
- `AckedIsHandled`, `DroppedWhileHandled`, `EventuallySettled`,
  `DeadLetterNeedsFailures`: what may happen to an entry. `RepliesBounded`: how often a
  contact may be answered twice; reclaims alone make it once per worker.
- `NeverSentTwice`, `NoSilentDrop`, `TriedUnlessAbandoned`: the sender trades
  at-least-once for at-most-once; these say exactly where. `NoSilentDrop` is about what one
  sender's trim may do to the others' replies, those of a dead one included.
- `PublishedOnce`, `WithinLimit`, `AcceptedUnlessFailed`: the ingress.
- `NeverReactivated`, `BotBacksOff`: who has the conversation, while attempts use a row they
  resolved earlier and operators commit what they loaded. A take-over does not stop the
  attempts that had resolved the row: a trigger and a message may both send a late reply.
  `BotBacksOff` says that there is at most one for each attempt that was under way then.
  `HistoryAgrees`: the worker writes the row first and publishes second,
  `send_as_human` the other way round; history and chat differ in one direction each.
  `AuditTellsState`: the audit trail names the state where requests did not overlap.
- `OneLeader`, `StaleBriefly`, `Failover`: of the leaders whose last refresh is younger
  than the TTL there is one; a leader that lost the lock leads on for at most one round;
  after the last stop of a process a leader exists again within less than TTL + round.
- `AnalysedOnce`: only overlapping runs learn twice from a conversation.
  `AppliedUnlessOverwritten`: who may lose an approval or an edit, namely a request that
  had read the text before it and committed after it. `VersionsDistinct`: `max + 1` is
  read under the skill's row lock.
- `RequestsWellFormed`: each request pairs calls with results, whatever failed before
  (the code's note C3); texts and roles, which the providers check too, are left out.
  `GivesUpForCause`: two counters end the loop, and only breaker failures in a row or the
  limit of requests hand the contact to a human. `NoRepeats`: where the dedup guard's word
  holds: for a first reply and what the history's window showed. `LanguageSticks`,
  `AttributesKept`: a reply has another language than an earlier one, and an attribute is
  lost, only by an edit or by a writer that had read before; two overlapping attempts may
  each answer in the language they detected.
- `WelcomedOnce`: one welcome per connection of a row, if no two polls overlap.
  `WebhookAgrees`: the gateway's webhook names the row and holds its secret, if no row is
  created beside another, and its host is the configured one until a poll finds the phone
  paired; afterwards it is the host that `get_qr` has in its source (section 5).
  `ShownStays`, `ShownDown`: no check takes down a number that was connected for
  good, and one that is gone does not stay connected.

### Fairness

`Worker`, `Sender`: weak fairness of each process's step, as their loops are
`while running` without a condition; weak fairness of time (idle times, TTLs).
`StreamGroup`: weak fairness of a consumer's own steps and strong fairness of
`Consume` and `ClaimPending`: a consumer polls again and again, and a poll that
comes while another consumer has emptied the stream returns nothing, so the step
is enabled only now and then. `Numbers`: weak fairness of the check's steps
alone, an interval job of the scheduler; phone, requests, restarts owe nothing. Deaths,
failures and posts are never required. `Ingress`, `Conversation`, `Turn`,
`AgentLoop` and `Learning` state no fairness: their properties are of safety. `Leader`
has no liveness property: `Failover` is a bound in ticks, and `Tick` waits for every process
whose round is due.

Deadlock is not checked where the system may come to rest: all entries published
and handled, the last permitted post answered.

## 4. Proofs

Each proof module extends its component and TLAPS; `SchedulerProofs` extends two, `Learning`
and `Leader` (where the second has a name of the first, it carries the prefix `Leader`).
The constants are arbitrary (any number of processes, entries, failures), with the named
assumptions of the component: sets where sets are needed, bounds natural numbers, limits
positive, the requests and attempts at a time finite (`Handlers`, `ActorsAssumption`), and no
empty text among the model's replies (`Replies` in `Turn`, `ModelTexts` in `AgentLoop`:
`run_agent_loop` replaces an empty answer by an apology).

| Theorem | Says |
|---|---|
| `StreamGroupProofs!TypeCorrect`, `Accounted`, `TrimIsSafe`, `AcknowledgedOnce`, `AtLeastOnce`, `Refinement` | types; `DeliveredAccounted`; `TrimOnlyAcked`; `NoRedeliveryAfterAck`; `NothingLost`; `ImplementsQueue` |
| `WorkerProofs!TypeCorrect`, `Exclusion`, `OneConversation`, `Records`, `Refinement`, `RepliesPaid`, `DeadLettersEarned`, `AcksAreHandled`, `DropsAreCovered` | types; `MutualExclusion`; `OneActiveConversation`; `RecordsInOrder`; `ImplementsQueue`; `RepliesBounded`; `DeadLetterNeedsFailures`; `AckedIsHandled` until the first failure or death; `DroppedWhileHandled` |
| `SenderProofs!TypeCorrect`, `SentOnce`, `Traced` | types; `NeverSentTwice`; `NoSilentDrop` |
| `IngressProofs!TypeCorrect`, `RateLimited`, `Deduplicated`, `AcceptedIsTaken` | types; `WithinLimit`; `PublishedOnce`; `AcceptedUnlessFailed` |
| `SchedulerProofs!LeaderTypeCorrect`, `Election`, `Fencing`, `SteppingDown`, `Promotion` | types; `OneLeader`; `StaleCannotExtend`; `StaleBriefly`; `Failover` |
| `ConversationProofs!TypeCorrect`, `StaysWithHumans`, `BacksOff`, `HistoryFaithful`, `AuditFaithful` | types; `NeverReactivated`; `BotBacksOff`; `HistoryAgrees`; `AuditTellsState` |
| `SchedulerProofs!TypeCorrect`, `AtMostOnce`, `Applied`, `Numbered` | types; `AnalysedOnce`; `AppliedUnlessOverwritten`; `VersionsDistinct` |
| `NumbersProofs!TypeCorrect`, `Welcomed`, `Stays`, `HookAgrees` | types; `WelcomedOnce`; `ShownStays`; `WebhookAgrees` |
| `TurnProofs!TypeCorrect`, `Kept`, `LanguageKept`, `NotRepeated` | types; `AttributesKept`; `LanguageSticks`; `NoRepeats` |
| `TurnProofs!LoopTypeCorrect`, `GivenUpForCause`, `WellFormed` | types; `GivesUpForCause`; `RequestsWellFormed` |

`DeliveredAccounted`, `NoRedeliveryAfterAck`, `RecordsInOrder` and `StaleCannotExtend` are
proved and not the property of a run; each is a part of what the others rest on or, as
`NoRedeliveryAfterAck`, what a refinement says already where no data is lost.

The arguments:

- **Trim.** XTRIM is safe because of `SnapshotSettled`: when `TrimInfo` found
  nothing pending, everything up to the delivered id was acknowledged, and later
  steps only add acknowledgements; the id remembered keeps that meaning until the
  second command.
- **Queue.** Waiting entries map to those above the delivered id, unsettled ones to
  the pending list. `NothingLost` strengthens to an accounting of every id ever
  published, which MAXLEN and a flush break; hence `LossFree`.
- **Exclusion.** `MutualExclusion` is not inductive: a worker in its section must
  hold the key, and two workers may be in a section of one key once a heartbeat
  died. The invariant says that a section with a live heartbeat has its lock held
  and that any other section of the key has lost its heartbeat; it rests on
  `LoopInv`, which ties registers to control points.
- **One conversation.** A worker that found no active conversation holds the contact's
  row lock, so no second one is there and nobody inserted since it looked.
- **Records.** Each row count is compared per entry with the control points of the
  workers on that entry: those past `PersistInbound` owe one, those past
  `PersistOutbound` another.
- **Sent once.** A reply not yet sent by its holder is held by exactly one sender
  at or before it; sent ones are behind the holder's position, and no action moves
  an entry from one sender to another.
- **Nothing dropped.** A reply is acknowledged by the sender that just tried it. That trims
  spare the others' replies is the bus' theorem: every step of a sender is one of
  `StreamGroup` (`BusStep`), so `AtLeastOnce` holds of `stream:outbound`, and what left the
  stream below MAXLEN was acknowledged, hence tried.
- **Duplicates.** Until an entry is acknowledged, each reply is set against a worker that is
  about to acknowledge the entry, a failure or a death. From the acknowledgement on nobody
  new gets hold of the entry, and those that may still answer it are other workers than those
  that did; each answers once. That waiting, pending and acknowledged entries stay apart comes
  from `Refinement`: the abstract queue keeps them so.
- **Dead letters.** The failures counted for an entry, and the failed calls whose handler
  is still to count them, are together at most the faults there were. Without the second
  term a failed call would be free between the exception and `CountFailure`.
- **Healthy run.** Until the first failure or death a lock that is held has a live worker
  on an entry of its key behind it, a worker comes to its acknowledgement only with an
  entry that has its outcome, and fails only on entries nobody can answer. After a failure
  the statement is false (section 5).
- **Dedup.** The times an id was published, plus the handlers that have passed its dedup
  and not yet published it, are at most its expiries plus one if its key is there. The
  second number is a cardinality: a SET NX that succeeds takes one handler in and sets the
  key, and an expiry trades the key for one expiry.
- **Accepted.** While nothing failed, an id whose key is set is published, filtered, or on
  its way in a handler, and a handler has each of its messages there or still to do. So a
  200 that skips a known id leaves it to another request that will publish it.
- **Election.** A leader whose last refresh is younger than the TTL owns the lock
  and `ttl + age = LOCK_TTL`: time moves both. `Failover` strengthens to a relation of
  `vacant` with the remaining TTL while the key exists, and with every running
  process's age once it does not.
- **Backing off.** Of a conversation out of the bot's hands, the late replies and the attempts
  still on it are together at most the attempts that were on it when it was taken: no
  attempt resolves it again, and each leaves it with one reply or none. The second number
  is a cardinality; `under` is the first moment's.
- **History.** The bot's rows lead its replies by the attempts about to publish, the
  contact's rows lead the bot's by the attempts still to answer, and the operators' replies
  lead their rows by the requests between `SendPublish` and `SendCommit`: cardinalities
  that each step changes by one.
- **Audit.** Of a conversation no two requests had loaded at a time, at most one request
  is in progress and what it loaded is the state still, so an UPDATE left out was none.
- **Analyses.** What a busy run may still insert is about conversations that only
  runs it overlapped with have inserted (`UnseenInserts`), because its candidates were
  selected when it started and busy runs overlap.
- **Texts.** `Keeps(T, n)` says that in the text `T` everything of the first `n` commits is
  present or overwritten by one that had not seen it. The committed text keeps all
  commits, and what a request read keeps those before its read; a commit replaces the
  first by the second plus itself.
- **Versions.** One changing edit at most is between its flush and its commit, by the row
  lock, and its number is above those of all changing edits committed.
- **Welcomes.** A poll that loaded a row as not connected keeps it so until its commit,
  if it is the row's only poll; a row that is not connected has been taken down as often
  as it was welcomed.
- **Shown.** What could take a row down must have been on its way when it was marked; with
  an open session neither the check nor a request begins anew to take it down.
- **Webhook.** While every creation found no row and no request, a creation is alone, there
  is one row, and all requests in progress are about it. The host changes only in polls that
  found the phone paired, which leave a welcome or are still to mark the row.
- **Attributes.** An attempt, and an edit, hold the attributes as they read them;
  `Keeps` says that what was written before that read is in them, and what was
  written after it and is missing once they are stored has been overwritten.
- **Language.** What an attempt knows of the language is tied to the history of commits: from
  the commit that stored the language of a reply's prompt to any later read of the column,
  the language is that one unless the commits in between contain an edit or a writer that
  had read before. Attempts under way carry the same promise as the rows they will leave.
- **Repeats.** A guarded reply differs from the last outbound text of the window as it was
  loaded. Rows are only appended, so what the window showed stays where it was, and a
  nearer outbound row was committed after the load, which the property names.
- **Gives up.** The outcomes so far agree with the two counters: as many as rounds, none a text,
  and the last `failures` of them failures.
- **Requests.** The loop appends complete rounds only: an assistant's calls and a result for
  each, failed tools and the open breaker included. Joining sequences of complete rounds,
  and dropping the system message as the Anthropic adapter does, keep the pairing; the
  adapter's turns are numbered by how many precede them, so no recursion is needed.

Only model-checked: all liveness (`EventuallyAcked`, `EventuallySettled`, `LocksFreed`,
`TriedUnlessAbandoned`, `ShownDown`), which is beyond the prover.
`AckedIsHandled` is an invariant of runs without failures only, and is proved for just
those behaviours. What the learnings or the adapters compute from texts is abstract in
the models, and nothing is claimed of it.

## 5. Where code and documentation disagree

`Worker_crash_lost` is a violation run, with the trace TLC finds: a worker dies in
`process`; its lock lives up to 120 s, the entry is reclaimed after 60 s idle; the reclaim
meets the lock, returns normally and `_drain` acknowledges an entry nobody answered.

What the models contain or the properties exclude by name, without a run of its own:

- The worker looks for `active` conversations only (`services/worker/main.py:362`): after
  a take-over the contact's next message opens another one and the bot answers there,
  against `services/api/main.py:1164` and `README.md:32`.
- The sender never calls `claim_pending` (`services/sender/main.py:143`): what it held when
  it died stays pending, against `README.md:56` (`TriedUnlessAbandoned`).
- Dedup key first, XADD second (`services/ingress/main.py:128`): when XADD fails, the retry
  is skipped and answered 200, against `GOTCHAS.md:17` (`AcceptedUnlessFailed`).
- Two schedulers lead at a time after a stall longer than the TTL (`StaleBriefly`), against
  the docstring of `services/scheduler/main.py:6`.
- `process` reads `last_outbound` on the path of an unroutable number, where nothing
  assigned it: the entry fails at every attempt and is dead-lettered, the apology of
  `services/worker/main.py:534` never sent. Echo mode (`llm_enabled = False`) takes the
  same path (`Answerable`).
- A reclaimed entry that is dropped at the lock is acknowledged; when the attempt that
  holds the lock then fails, nothing retries it (`AckedIsHandled` is checked without
  failures and of `Answerable` entries).
- `send_as_human` publishes `from_phone: ""`; the sender logs `sender.empty` and
  acknowledges, so the reply of an operator never reaches the contact.
- Nothing sets the state `needs_human`, although `README.md:83` says "conversations
  escalate when the bot gets stuck".
- Triggers without a `conversation_id` all lock the key `lock:conv:`, so two contacts'
  triggers drop one another.
- `delete_number` deletes conversations that learnings refer to by foreign key, so it fails
  once one of them was analysed.
- Two overlapping requests can leave audit trail and state disagreeing (`raced`).
- XADD MAXLEN evicts entries nobody has read (`LossFree`).
- The lock key of an inbound entry is the phone, without the number: a contact who
  writes to two numbers has one message dropped (`KeyNamesChat`).
- An entry waiting in a worker's batch is reclaimed by another worker when it is
  older than the idle time, and both answer it (`RepliesBounded` says how often at most).
- Two numbers of the installation that write to each other share message ids; the
  sender's own copy can use up the id (`Shadowed`).
- INCR and EXPIRE of the ingress' limiter are two commands; a failure between them
  leaves a counter without expiry.
- The first learning a process inserts installs the tenant hooks in it: the run's next read
  raises, later daily runs and the health check of that scheduler raise at their first, so
  a scheduler inserts one learning in its life and `numbers.status` no longer "reflects
  reality" (`services/scheduler/main.py:231`; `enforced` in `Learning` and `Numbers`).
- `_load_history` runs after the inbound row was written: the user's message is in the
  request twice, though its docstring speaks of prior turns.
- The text never overrides the variant of the phone's country code, though the comment
  at `services/worker/main.py:452` says so; the default `out_policy`
  `redirect_then_escalate` has no effect (`== "escalate"`); a regenerated reply passes no
  guard.
- Approving a learning twice appends its suggestion twice; rejecting it later undoes nothing.
- `phone` is not unique: a second row of a phone takes over the webhook, also when its
  creation fails half way. A row without a secret never gets one stored by `get_qr`
  (the dictionary is changed in place, no UPDATE follows), while the gateway is told it.
- `create_number` registers the webhook at `settings.ingress_base_url`
  (`services/api/main.py:507`, by default `http://cante-ingress:8001`), which
  `core/cante/settings.py:76` calls the "base URL the Evolution API uses to call the cante
  ingress for incoming messages"; `get_qr` registers it again, once the phone is paired, at
  `http://cante-cds-ingress:8001` whatever the setting is (`services/api/main.py:562`). In an
  installation with another host the pairing sends the messages elsewhere. `base` in
  `Numbers` tells the two apart; `WebhookAgrees` promises the configured host up to the
  pairing only.
- The saved language is "sticky across conversations"
  (`services/worker/main.py:421`), but two overlapping attempts, a message and a trigger,
  both find none and the second overwrites what the first saved: the contact is answered in
  two languages without an edit (`LanguageSticks` names the overlap).
- A take-over is to make "the worker back off" (`services/api/main.py:1164`); attempts that
  had resolved the conversation still reply (`BotBacksOff` counts them).
- Overlapping polls of one row both send the welcome (`raced`).
- `disconnect_number` swallows a failed logout: the row says disconnected while the session is
  open, and the health check looks at connected rows only.

## 6. Not modelled, and what could follow

Left out for good: declarations, migrations and seeds, logging, URL checks, the user
interface; reads (`list_*`, `get_*`, the health of queues); CRUD in one transaction
per request whose rows no other actor writes (bots, routes, groups, users, providers).

Left out for other reasons:

- *Login and refresh.* The throttle is the pattern of `Ingress` (INCR, EXPIRE when the
  count is 1). `refresh` checks and marks a token with two commands, so two
  requests with one token at a time are both served; authentication is not a subject of
  these models.
- *Metrics cache.* SQL aggregation over dates; a day computed while it lasted is never
  computed again once it is past.
- *Pagination.* Cursors compare a timestamp with `<`: rows of equal timestamps at the end
  of a page are skipped. A single comparison needs no model.
- *Tenant contexts.* Sequential per request; the hooks' effect across requests of one
  process is in `Learning` and `Numbers`.
- *Redis client.* A counter of timeouts that drops the shared client; commands that fail are in
  every module.

Worth adding: an end-to-end composition of ingress, worker and sender over
`AtLeastOnceQueue`.
