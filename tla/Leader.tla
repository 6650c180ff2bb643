-------------------------------- MODULE Leader --------------------------------
(***************************************************************************)
(* services/scheduler/main.py: the election among scheduler processes.     *)
(* One key, lock:scheduler:leader, holds the token of the process that may *)
(* run the jobs.  main tries to take it at boot and then once per round:   *)
(* sleep 10 seconds, refresh it as leader, try to take it as follower.     *)
(*                                                                         *)
(* Time passes in ticks of one sleep.  A round comes at least one tick and *)
(* at most MaxDelay ticks after the one before it: the sleep is a minimum, *)
(* and a busy event loop or a slow Redis makes it longer.                  *)
(***************************************************************************)
EXTENDS Naturals

CONSTANTS
  Schedulers,
  NoOne,        \* the key does not exist
  Gone,         \* its token is of a process that is down
  LOCK_TTL,     \* life of the key in ticks (120 s: 12)
  MaxDelay,     \* bound: ticks from one round of a process to the next
  MaxDowns,     \* bound: processes that stop
  MaxFlushes    \* bound: times Redis loses the key

ASSUME LeaderAssumption ==
  /\ NoOne \notin Schedulers /\ Gone \notin Schedulers /\ NoOne # Gone
  /\ LOCK_TTL \in Nat \ {0} /\ MaxDelay \in Nat \ {0}
  /\ MaxDowns \in Nat /\ MaxFlushes \in Nat

VARIABLES
  owner,     \* whose token the key holds
  ttl,       \* ticks the key has left
  up,        \* running processes
  leader,    \* processes with is_leader, whose jobs run
  age,       \* age[s]: ticks since the last round of s
  stale,     \* history: stale[s], ticks s has led without the lock
  vacant,    \* history: ticks without a leader since a process last stopped
  downs, flushes

lock == <<owner, ttl>>
processes == <<up, leader, age>>
history == <<stale, vacant>>
leaderVars == <<lock, processes, history, downs, flushes>>

LeaderInit ==
  /\ owner = NoOne /\ ttl = 0
  /\ up = {} /\ leader = {}
  /\ age = [s \in Schedulers |-> 0]
  /\ stale = [s \in Schedulers |-> 0]
  /\ vacant = 0 /\ downs = 0 /\ flushes = 0

(* The history after a command of s; one that lost the lock is stale until   *)
(* it stops leading.                                                       *)
Record(s) ==
  /\ stale' = IF s \in leader' /\ owner' # s THEN stale ELSE [stale EXCEPT ![s] = 0]
  /\ vacant' = IF leader' = {} THEN vacant ELSE 0

-------------------------------------------------------------------------------
(* Wrong: SET without NX. *)
TryAcquireAnyway(s) == owner' = s /\ ttl' = LOCK_TTL /\ leader' = leader \cup {s}

(* Wrong: a key without EX. *)
TryAcquireForever(s) ==
  IF owner = NoOne
  THEN owner' = s /\ ttl' = 2 * LOCK_TTL + MaxDelay /\ leader' = leader \cup {s}
  ELSE UNCHANGED <<lock, leader>>

(* _try_acquire_lock: SET NX EX. *)
TryAcquire(s) ==
  IF owner = NoOne
  THEN owner' = s /\ ttl' = LOCK_TTL /\ leader' = leader \cup {s}
  ELSE UNCHANGED <<lock, leader>>

(* A process starts, with a token of its own. *)
Boot(s) ==
  /\ s \notin up
  /\ up' = up \cup {s}
  /\ TryAcquire(s)
  /\ age' = [age EXCEPT ![s] = 0]
  /\ Record(s)
  /\ UNCHANGED <<downs, flushes>>

(* Wrong: the loser's jobs go on. *)
RefreshStays(s) ==
  /\ ttl' = IF owner = s THEN LOCK_TTL ELSE ttl
  /\ UNCHANGED <<owner, leader>>

(* _refresh_lock: EXPIRE if the key holds the token of s; otherwise s shuts  *)
(* its jobs down.                                                          *)
Refresh(s) ==
  IF owner = s
  THEN ttl' = LOCK_TTL /\ UNCHANGED <<owner, leader>>
  ELSE leader' = leader \ {s} /\ UNCHANGED lock

(* One turn of the while loop, after the sleep. *)
Round(s) ==
  /\ s \in up /\ age[s] > 0
  /\ IF s \in leader THEN Refresh(s) ELSE TryAcquire(s)
  /\ age' = [age EXCEPT ![s] = 0]
  /\ Record(s)
  /\ UNCHANGED <<up, downs, flushes>>

(* A process stops: SIGTERM, a crash, an exception of Redis, which main does *)
(* not catch.  Its last command may have taken effect; its lock stays.     *)
Down(s) ==
  /\ s \in up /\ downs < MaxDowns
  /\ up' = up \ {s} /\ leader' = leader \ {s}
  /\ \/ UNCHANGED ttl /\ owner' = IF owner = s THEN Gone ELSE owner
     \/ age[s] > 0 /\ owner \in {s, NoOne} /\ owner' = Gone /\ ttl' = LOCK_TTL
  /\ stale' = [stale EXCEPT ![s] = 0]
  /\ vacant' = 0
  /\ downs' = downs + 1
  /\ UNCHANGED <<age, flushes>>

(* Ten seconds pass. *)
Tick ==
  /\ \A s \in up : age[s] < MaxDelay
  /\ ttl' = IF ttl > 0 THEN ttl - 1 ELSE 0
  /\ owner' = IF ttl > 1 THEN owner ELSE NoOne
  /\ age' = [s \in Schedulers |-> IF s \in up THEN age[s] + 1 ELSE age[s]]
  /\ stale' = [s \in Schedulers |-> IF s \in leader /\ owner' # s THEN stale[s] + 1 ELSE 0]
  /\ vacant' = IF leader = {} /\ up # {} THEN vacant + 1 ELSE 0
  /\ UNCHANGED <<up, leader, downs, flushes>>

(* Redis restarts without its data. *)
LoseKey ==
  /\ owner # NoOne /\ flushes < MaxFlushes
  /\ owner' = NoOne /\ ttl' = 0
  /\ flushes' = flushes + 1
  /\ UNCHANGED <<processes, history, downs>>

LeaderNext ==
  \/ \E s \in Schedulers : Boot(s) \/ Round(s) \/ Down(s)
  \/ Tick
  \/ LoseKey

LeaderSpec == LeaderInit /\ [][LeaderNext]_leaderVars

-------------------------------------------------------------------------------
LeaderTypeOK ==
  /\ owner \in Schedulers \cup {NoOne, Gone}
  /\ ttl \in 0..LOCK_TTL
  /\ owner = NoOne <=> ttl = 0
  /\ up \subseteq Schedulers /\ leader \subseteq up
  /\ age \in [Schedulers -> 0..MaxDelay]
  /\ stale \in [Schedulers -> Nat] /\ vacant \in Nat
  /\ downs \in 0..MaxDowns /\ flushes \in 0..MaxFlushes

(* s leads on the strength of a lock that cannot have expired yet. *)
Fresh(s) == s \in leader /\ age[s] < LOCK_TTL

(* The docstring's "no path by which two schedulers believe they are leader
   simultaneously", as far as it goes: of the leaders whose last round was
   less than the TTL ago there is one, while Redis keeps the key.  (One that
   stalled for longer goes on until its next round.) *)
OneLeader == flushes = 0 => \A s, t \in Schedulers : Fresh(s) /\ Fresh(t) => s = t

(* A leader that lost the lock, whatever it lost it to, leads on until its
   next round and no longer. *)
StaleBriefly == \A s \in leader : stale[s] <= MaxDelay

(* The fencing of S16: only the process whose token the key holds prolongs it,
   so a leader that lost the lock never keeps it from expiring. *)
StaleCannotExtend ==
  [][ttl' > ttl => owner = NoOne \/ owner' = Gone \/ (owner \in leader /\ age'[owner] = 0)]_leaderVars

(* "A crashed leader's TTL expiry promotes a follower automatically": jobs
   rest less than a TTL and a round after the last stop of a process. *)
Failover == vacant < LOCK_TTL + MaxDelay
===============================================================================
