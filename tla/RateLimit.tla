------------------------------ MODULE RateLimit ------------------------------
(***************************************************************************)
(* The sliding-window limiter of backend/cache/src/rate_limit.rs for one   *)
(* key.  A request reads its own clock and then sends one Lua script; the  *)
(* script is atomic, but it runs when it reaches Redis, up to CmdTimeout   *)
(* ticks later, with the times computed before.  The sorted set holds the  *)
(* numbers of admitted requests; `log' remembers all of them.              *)
(***************************************************************************)
EXTENDS Integers, Sequences, FiniteSets

CONSTANTS
  Task,        \* requests in progress
  Window,      \* the window, in ticks
  Max,         \* max_requests
  Buffer,      \* the key outlives the window by this much (60 s)
  CmdTimeout,  \* a script runs within this many ticks of the clock reading
  Epoch,       \* the clock when the model starts; past one window
  MaxTime      \* bound: the clock stops here

ASSUME RateAssumption ==
  /\ Window \in Nat \ {0}
  /\ Max \in Nat \ {0}
  /\ Buffer \in Nat
  /\ CmdTimeout \in Nat
  /\ Epoch \in Nat /\ Epoch >= Window
  /\ MaxTime \in Nat

VARIABLES
  clock,   \* real time
  zset,    \* the members of ratelimit:<key>, as positions in log
  expires, \* when the key expires
  read,    \* read[t]: the clock readings of a check in progress (0 or 1)
  log,     \* history: score and execution time of every admission
  told     \* history: the last refusal, its time and the reset_at it gave

vars == <<clock, zset, expires, read, log, told>>
-----------------------------------------------------------------------------
Init ==
  /\ clock = Epoch
  /\ zset = {}
  /\ expires = Epoch
  /\ read = [t \in Task |-> {}]
  /\ log = <<>>
  /\ told = {}

\* Mutant of Begin: the end of the window is taken for the current time.
BeginAtWindowEnd(t) ==
  /\ read[t] = {}
  /\ read' = [read EXCEPT ![t] = {clock + Window}]
  /\ UNCHANGED <<clock, zset, expires, log, told>>

\* unix_epoch_ms, and the arguments of the script.
Begin(t) ==
  /\ read[t] = {}
  /\ read' = [read EXCEPT ![t] = {clock}]
  /\ UNCHANGED <<clock, zset, expires, log, told>>

\* ZREMRANGEBYSCORE '-inf' window_start: what is left of the set.
InWindow(now) == {i \in zset : log[i].score > now - Window}

\* Mutant of Admit: one too many.
AdmitOneMore(now) ==
  /\ Cardinality(InWindow(now)) <= Max
  /\ log' = Append(log, [score |-> now, at |-> clock])
  /\ zset' = InWindow(now) \cup {Len(log) + 1}
  /\ expires' = clock + Window + Buffer
  /\ UNCHANGED told

\* ZCARD below the maximum: ZADD and EXPIRE.
Admit(now) ==
  /\ Cardinality(InWindow(now)) < Max
  /\ log' = Append(log, [score |-> now, at |-> clock])
  /\ zset' = InWindow(now) \cup {Len(log) + 1}
  /\ expires' = clock + Window + Buffer
  /\ UNCHANGED told

\* Otherwise reset_at is computed from the lowest score and the key's TTL.
Oldest(S) == {i \in S : \A k \in S : log[i].score <= log[k].score}

\* Mutant of ResetAt: the buffer without the window.
ResetAtBuffer(i) == log[i].score + Buffer

ResetAt(i) == log[i].score + Window + Buffer

Refuse(now) ==
  /\ Cardinality(InWindow(now)) >= Max
  /\ zset' = InWindow(now)
  /\ told' = {[at |-> clock, reset |-> ResetAt(i)] : i \in Oldest(InWindow(now))}
  /\ UNCHANGED <<log, expires>>

\* rate_limit_check's script runs and its reply arrives or is lost: the
\* request is let in, refused or failed, and Redis has changed either way.
Eval(t) ==
  /\ \E now \in read[t] : Admit(now) \/ Refuse(now)
  /\ read' = [read EXCEPT ![t] = {}]
  /\ UNCHANGED clock

\* The command fails before it reaches Redis.
Fail(t) ==
  /\ read[t] # {}
  /\ read' = [read EXCEPT ![t] = {}]
  /\ UNCHANGED <<clock, zset, expires, log, told>>

\* rate_limit_count: ZREMRANGEBYSCORE with the caller's clock, then ZCARD.
Count(t) ==
  /\ \E now \in read[t] : zset' = InWindow(now)
  /\ read' = [read EXCEPT ![t] = {}]
  /\ UNCHANGED <<clock, expires, log, told>>

\* Time passes; commands that took too long have failed before, and the key
\* goes when its TTL has run out.
Tick ==
  /\ clock < MaxTime
  /\ \A t \in Task : \A now \in read[t] : clock - now < CmdTimeout
  /\ clock' = clock + 1
  /\ zset' = IF expires <= clock + 1 THEN {} ELSE zset
  /\ UNCHANGED <<expires, read, log, told>>

Next ==
  \/ \E t \in Task : Begin(t) \/ Eval(t) \/ Fail(t) \/ Count(t)
  \/ Tick

Spec == Init /\ [][Next]_vars
-----------------------------------------------------------------------------
\* The sorted set holds admitted requests only, and no admission is scored or
\* executed in the future: scores are past clock readings.
TypeOK ==
  /\ clock \in Nat
  /\ zset \in SUBSET (1..Len(log))
  /\ expires \in Nat
  /\ read \in [Task -> SUBSET Nat]
  /\ log \in Seq([score : Nat, at : Nat])
  /\ \A i \in 1..Len(log) : log[i].score <= log[i].at /\ log[i].at <= clock
  /\ told \in SUBSET [at : Nat, reset : Nat]

\* At most Max requests are admitted in any stretch of time shorter than the
\* window less the time a script may take to reach Redis, whatever the order
\* in which delayed scripts run.
Limited ==
  \A i, j \in 1..Len(log) :
    i <= j /\ log[j].at - log[i].at < Window - CmdTimeout => j - i < Max

\* A client that was refused and waits until the reset_at it was told finds
\* room, unless somebody else was admitted in the meantime.
ResetIsEnough ==
  \A r \in told :
    clock >= r.reset /\ (\A i \in 1..Len(log) : log[i].at < r.at)
      => Cardinality(InWindow(clock)) < Max
=============================================================================
