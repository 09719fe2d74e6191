---------------------------- MODULE SessionStore ----------------------------
(***************************************************************************)
(* The session store of backend/cache/src/session.rs: session keys and     *)
(* per-user index sets in Redis, a session cache in the memory of every    *)
(* API process, and request tasks that interleave at each await.  A Redis  *)
(* command (a Lua script included) is one atomic step.  Time is counted in *)
(* ticks; every TTL is the number of ticks that are left.                  *)
(***************************************************************************)
EXTENDS Integers, FiniteSets

CONSTANTS
  User,        \* accounts
  Sid,         \* session ids, drawn fresh by Uuid::new_v4
  Owner,       \* the user whose login draws the id
  Proc,        \* API processes, each with its own SESSION_CACHE
  Task,        \* request tasks
  At,          \* the process a task runs on
  SessionTTL,  \* jwt_expiry, the ttl handed to session_create
  CacheTTL,    \* SESSION_CACHE_TTL
  CmdTimeout,  \* default_command_timeout of the Redis client
  MaxCached,   \* MAX_SESSION_CACHE_ENTRIES
  MaxResets,   \* bound: destroy-all calls in flight for one user
  MaxFailures, \* bound: failed commands, dropped requests and restarts
  Refreshing   \* whether session_refresh is called

ASSUME ConstantAssumption ==
  /\ Owner \in [Sid -> User]
  /\ At \in [Task -> Proc]
  /\ SessionTTL \in Nat \ {0}
  /\ CacheTTL \in Nat \ {0}
  /\ CmdTimeout \in Nat
  /\ MaxCached \in Nat \ {0}
  /\ MaxResets \in Nat \ {0}
  /\ MaxFailures \in Nat
  /\ IsFiniteSet(Task) /\ IsFiniteSet(Sid)
  /\ Refreshing \in BOOLEAN

VARIABLES
  created,   \* ids handed out so far
  sess,      \* session:<id>        ticks left, 0 when the key is absent
  index,     \* user_sessions:<uid> members and ticks left
  temp,      \* user_sessions:<uid>:destroying
  cached,    \* the ids in each process's SESSION_CACHE
  fresh,     \* ticks left of each cache entry, 0 once stale
  task,      \* what each request task is doing
  gone,      \* history: ticks since the session left Redis (saturating)
  revoked,   \* history: ids whose destruction was reported done
  raced,     \* history: ids a get had read but not cached at that moment
  failures   \* failures so far

redisVars == <<created, sess, index, temp>>
cacheVars == <<cached, fresh>>
historyVars == <<gone, revoked, raced>>
vars == <<created, sess, index, temp, cached, fresh, task, gone, revoked,
          raced, failures>>
-----------------------------------------------------------------------------
\* A Redis set key; a set without members does not exist in Redis.
SetKey == [ids : SUBSET Sid, ttl : 0..SessionTTL]
NoKey == [ids |-> {}, ttl |-> 0]

\* A request task and its locals: the id or user it works for, the ids it
\* read from the index, the sessions it must have destroyed when it returns,
\* and how long it has waited for Redis.
Ops == {"idle", "get", "fill", "uncache", "members", "deltemp", "delkeys",
        "purge"}
TaskState == [op : Ops, sid : SUBSET Sid, user : SUBSET User,
              ids : SUBSET Sid, snap : SUBSET Sid, waited : 0..CmdTimeout]
Idle == [op |-> "idle", sid |-> {}, user |-> {}, ids |-> {}, snap |-> {},
         waited |-> 0]
SidTask(o, s, w) ==
  [op |-> o, sid |-> {s}, user |-> {}, ids |-> {}, snap |-> {}, waited |-> w]
ResetTask(o, u, I, S) ==
  [op |-> o, sid |-> {}, user |-> {u}, ids |-> I, snap |-> S, waited |-> 0]

StaleBound == CmdTimeout + CacheTTL

Live(s) == sess[s] > 0
SessionsOf(u) == {s \in Sid : Owner[s] = u}
LiveOf(u) == {s \in SessionsOf(u) : Live(s)}

\* Ids some get has read from Redis and not yet put into its cache.
BeingFilled == UNION {task[t].sid : t \in {x \in Task : task[x].op = "fill"}}

\* Mutant of CacheHit: the entry's expiry is not looked at.
CacheHitIgnoringExpiry(p, s) == s \in cached[p]

\* Would a session_get on process p answer s from memory?
CacheHit(p, s) == s \in cached[p] /\ fresh[p][s] > 0

\* Cache entry changes of one process (the mutex makes each atomic).
CacheRemove(p, S) ==
  /\ cached' = [cached EXCEPT ![p] = @ \ S]
  /\ fresh' = [fresh EXCEPT ![p] = [s \in Sid |-> IF s \in S THEN 0 ELSE @[s]]]

\* Mutants of CachePut: the expiry is added twice; the cap is off by one.
CachePutTwice(p, s) ==
  /\ cached' = [cached EXCEPT ![p] = @ \cup {s}]
  /\ fresh' = [fresh EXCEPT ![p][s] = CacheTTL + CacheTTL]

CachePutOverCap(p, s) ==
  LET full == Cardinality(cached[p]) > MaxCached
  IN /\ cached' = [cached EXCEPT ![p] = (IF full THEN {} ELSE @) \cup {s}]
     /\ fresh' = [fresh EXCEPT ![p] =
          [r \in Sid |-> IF r = s THEN CacheTTL ELSE IF full THEN 0 ELSE @[r]]]

CachePut(p, s) ==
  LET full == Cardinality(cached[p]) >= MaxCached
  IN /\ cached' = [cached EXCEPT ![p] = (IF full THEN {} ELSE @) \cup {s}]
     /\ fresh' = [fresh EXCEPT ![p] =
          [r \in Sid |-> IF r = s THEN CacheTTL ELSE IF full THEN 0 ELSE @[r]]]

\* SREM drops the key with its last member.
Without(key, s) ==
  IF key.ids \ {s} = {} THEN NoKey ELSE [key EXCEPT !.ids = @ \ {s}]
-----------------------------------------------------------------------------
Init ==
  /\ created = {}
  /\ sess = [s \in Sid |-> 0]
  /\ index = [u \in User |-> NoKey]
  /\ temp = [u \in User |-> NoKey]
  /\ cached = [p \in Proc |-> {}]
  /\ fresh = [p \in Proc |-> [s \in Sid |-> 0]]
  /\ task = [t \in Task |-> Idle]
  /\ gone = [s \in Sid |-> 0]
  /\ revoked = {}
  /\ raced = {}
  /\ failures = 0

\* Mutant of Create: the TTL of an index that exists is left as it is.
CreateKeepingTTL(s) ==
  /\ s \notin created
  /\ created' = created \cup {s}
  /\ sess' = [sess EXCEPT ![s] = SessionTTL]
  /\ index' = [index EXCEPT ![Owner[s]] =
                 [ids |-> @.ids \cup {s},
                  ttl |-> IF @.ids = {} THEN SessionTTL ELSE @.ttl]]
  /\ UNCHANGED <<temp, cached, fresh, task, historyVars, failures>>

\* session_create: one script sets the session, adds it to the index and
\* restarts the index's TTL.
Create(s) ==
  /\ s \notin created
  /\ created' = created \cup {s}
  /\ sess' = [sess EXCEPT ![s] = SessionTTL]
  /\ index' = [index EXCEPT ![Owner[s]] =
                 [ids |-> @.ids \cup {s}, ttl |-> SessionTTL]]
  /\ UNCHANGED <<temp, cached, fresh, task, historyVars, failures>>

\* session_get up to the await: a hit returns and changes nothing, a miss
\* drops a stale entry and sends GET.
GetBegin(t, s) ==
  /\ task[t].op = "idle"
  /\ s \in created
  /\ ~CacheHit(At[t], s)
  /\ CacheRemove(At[t], {s})
  /\ task' = [task EXCEPT ![t] = SidTask("get", s, 0)]
  /\ UNCHANGED <<redisVars, historyVars, failures>>

\* Redis executes GET: the value travels back, or the get ends NotFound.
GetReply(t) ==
  /\ task[t].op = "get"
  /\ \E s \in task[t].sid :
       task' = [task EXCEPT ![t] =
                  IF Live(s) THEN SidTask("fill", s, @.waited) ELSE Idle]
  /\ UNCHANGED <<redisVars, cacheVars, historyVars, failures>>

\* session_get after the await: the value read is put into the cache.
GetFill(t) ==
  /\ task[t].op = "fill"
  /\ \E s \in task[t].sid : CachePut(At[t], s)
  /\ task' = [task EXCEPT ![t] = Idle]
  /\ UNCHANGED <<redisVars, historyVars, failures>>

\* GET fails or times out: CommandFailed.
GetFail(t) ==
  /\ task[t].op \in {"get", "fill"}
  /\ task' = [task EXCEPT ![t] = Idle]
  /\ UNCHANGED <<redisVars, cacheVars, historyVars, failures>>

\* The script of session_destroy.
DestroyScript(s) ==
  /\ index' = IF Live(s) THEN [index EXCEPT ![Owner[s]] = Without(@, s)]
                         ELSE index
  /\ sess' = [sess EXCEPT ![s] = 0]

Destroy(t, s) ==
  /\ task[t].op = "idle"
  /\ s \in created
  /\ DestroyScript(s)
  /\ task' = [task EXCEPT ![t] = SidTask("uncache", s, 0)]
  /\ UNCHANGED <<created, temp, cacheVars, historyVars, failures>>

\* Mutant of DestroyEnd: the cache entry stays.
DestroyEndCached(t) ==
  /\ task[t].op = "uncache"
  /\ revoked' = revoked \cup task[t].sid
  /\ raced' = raced \cup (task[t].sid \cap BeingFilled)
  /\ task' = [task EXCEPT ![t] = Idle]
  /\ UNCHANGED <<redisVars, cacheVars, gone, failures>>

\* session_destroy after the await: drop the cache entry, return Ok.
DestroyEnd(t) ==
  /\ task[t].op = "uncache"
  /\ CacheRemove(At[t], task[t].sid)
  /\ revoked' = revoked \cup task[t].sid
  /\ raced' = raced \cup (task[t].sid \cap BeingFilled)
  /\ task' = [task EXCEPT ![t] = Idle]
  /\ UNCHANGED <<redisVars, gone, failures>>
-----------------------------------------------------------------------------
(* session_destroy_all_for_user, one action per Redis command.             *)

Resets(u) == {t \in Task : u \in task[t].user}

\* RENAME index -> temp overwrites whatever temp held.
RenameKey(u) ==
  /\ temp' = [temp EXCEPT ![u] = index[u]]
  /\ index' = [index EXCEPT ![u] = NoKey]

Rename(t, u) ==
  /\ task[t].op = "idle"
  /\ Cardinality(Resets(u)) < MaxResets
  /\ index[u].ids # {}
  /\ RenameKey(u)
  /\ task' = [task EXCEPT ![t] = ResetTask("members", u, {}, LiveOf(u))]
  /\ UNCHANGED <<created, sess, cacheVars, historyVars, failures>>

\* RENAME of a missing key is an error: return early, the cache untouched.
RenameMissing(t, u) ==
  /\ task[t].op = "idle"
  /\ Cardinality(Resets(u)) < MaxResets
  /\ index[u].ids = {}
  /\ revoked' = revoked \cup LiveOf(u)
  /\ raced' = raced \cup (SessionsOf(u) \cap BeingFilled)
  /\ UNCHANGED <<redisVars, cacheVars, task, gone, failures>>

\* Mutant of Members: SMEMBERS asks for the old name.
MembersOfIndex(t) ==
  /\ task[t].op = "members"
  /\ \E u \in task[t].user :
       task' = [task EXCEPT ![t] =
                  ResetTask("deltemp", u, index[u].ids, @.snap)]
  /\ UNCHANGED <<redisVars, cacheVars, historyVars, failures>>

Members(t) ==
  /\ task[t].op = "members"
  /\ \E u \in task[t].user :
       task' = [task EXCEPT ![t] =
                  ResetTask("deltemp", u, temp[u].ids, @.snap)]
  /\ UNCHANGED <<redisVars, cacheVars, historyVars, failures>>

DelTemp(t) ==
  /\ task[t].op = "deltemp"
  /\ \E u \in task[t].user :
       /\ temp' = [temp EXCEPT ![u] = NoKey]
       /\ task' = [task EXCEPT ![t] = ResetTask("delkeys", u, @.ids, @.snap)]
  /\ UNCHANGED <<created, sess, index, cacheVars, historyVars, failures>>

DelKeys(t) ==
  /\ task[t].op = "delkeys"
  /\ sess' = [s \in Sid |-> IF s \in task[t].ids THEN 0 ELSE sess[s]]
  /\ \E u \in task[t].user :
       task' = [task EXCEPT ![t] = ResetTask("purge", u, @.ids, @.snap)]
  /\ UNCHANGED <<created, index, temp, cacheVars, historyVars, failures>>

\* Mutant of Purge: the reset leaves the process's cache alone.
PurgeNothing(t) ==
  /\ task[t].op = "purge"
  /\ revoked' = revoked \cup task[t].snap
  /\ raced' = raced \cup (task[t].snap \cap BeingFilled)
  /\ task' = [task EXCEPT ![t] = Idle]
  /\ UNCHANGED <<redisVars, cacheVars, gone, failures>>

Purge(t) ==
  /\ task[t].op = "purge"
  /\ \E u \in task[t].user : CacheRemove(At[t], SessionsOf(u))
  /\ revoked' = revoked \cup task[t].snap
  /\ raced' = raced \cup (task[t].snap \cap BeingFilled)
  /\ task' = [task EXCEPT ![t] = Idle]
  /\ UNCHANGED <<redisVars, gone, failures>>

\* session_refresh: EXPIRE on the session key alone.
Refresh(s) ==
  /\ Refreshing
  /\ Live(s)
  /\ sess' = [sess EXCEPT ![s] = SessionTTL]
  /\ UNCHANGED <<created, index, temp, cacheVars, task, historyVars, failures>>
-----------------------------------------------------------------------------
(* Failures.  A command that fails before it reaches Redis changes nothing *)
(* and returns an error: only the failures that leave a trace are actions. *)

Fail ==
  /\ failures < MaxFailures
  /\ failures' = failures + 1

\* The script ran, its reply was lost: session_destroy returns Err.
DestroyLost(s) ==
  /\ Fail
  /\ s \in created
  /\ DestroyScript(s)
  /\ UNCHANGED <<created, temp, cacheVars, task, historyVars>>

\* RENAME ran, its reply was lost: the early return.
RenameLost(u) ==
  /\ Fail
  /\ index[u].ids # {}
  /\ RenameKey(u)
  /\ UNCHANGED <<created, sess, cacheVars, task, historyVars>>

NextOp(o) == CASE o = "members" -> "deltemp"
               [] o = "deltemp" -> "delkeys"
               [] OTHER -> "purge"

\* SMEMBERS, DEL temp or DEL of the keys fails: the call goes on, with no ids
\* after a failed SMEMBERS, and makes no promise about the sessions.
StepFail(t) ==
  /\ Fail
  /\ task[t].op \in {"members", "deltemp", "delkeys"}
  /\ \E u \in task[t].user :
       task' = [task EXCEPT ![t] = ResetTask(NextOp(task[t].op), u, @.ids, {})]
  /\ UNCHANGED <<redisVars, cacheVars, historyVars>>

\* The client goes away and the server drops the handler at an await.
Cancel(t) ==
  /\ Fail
  /\ task[t].op # "idle"
  /\ task' = [task EXCEPT ![t] = Idle]
  /\ UNCHANGED <<redisVars, cacheVars, historyVars>>

\* A process restarts: its tasks and its cache are lost.
Restart(p) ==
  /\ Fail
  /\ task' = [t \in Task |-> IF At[t] = p THEN Idle ELSE task[t]]
  /\ CacheRemove(p, Sid)
  /\ UNCHANGED <<redisVars, historyVars>>
-----------------------------------------------------------------------------
Less(n) == IF n = 0 THEN 0 ELSE n - 1
Aged(key) == IF key.ttl <= 1 THEN NoKey ELSE [key EXCEPT !.ttl = @ - 1]
Reading(t) == task[t].op \in {"get", "fill"}

\* One tick.  A GET is answered or given up within CmdTimeout of being sent.
Tick ==
  /\ \A t \in Task : Reading(t) => task[t].waited < CmdTimeout
  /\ sess' = [s \in Sid |-> Less(sess[s])]
  /\ index' = [u \in User |-> Aged(index[u])]
  /\ temp' = [u \in User |-> Aged(temp[u])]
  /\ fresh' = [p \in Proc |-> [s \in Sid |-> Less(fresh[p][s])]]
  /\ task' = [t \in Task |-> IF Reading(t) THEN [task[t] EXCEPT !.waited = @ + 1]
                                           ELSE task[t]]
  /\ gone' = [s \in Sid |->
       IF s \in created /\ ~Live(s) /\ gone[s] <= StaleBound
       THEN gone[s] + 1 ELSE gone[s]]
  /\ UNCHANGED <<created, cached, revoked, raced, failures>>

TaskStep(t) ==
  \/ GetReply(t) \/ GetFill(t) \/ DestroyEnd(t)
  \/ Members(t) \/ DelTemp(t) \/ DelKeys(t) \/ Purge(t)

Next ==
  \/ \E s \in Sid : Create(s) \/ Refresh(s) \/ DestroyLost(s)
  \/ \E t \in Task, s \in Sid : GetBegin(t, s) \/ Destroy(t, s)
  \/ \E t \in Task, u \in User : Rename(t, u) \/ RenameMissing(t, u)
  \/ \E t \in Task : TaskStep(t) \/ GetFail(t) \/ StepFail(t) \/ Cancel(t)
  \/ \E u \in User : RenameLost(u)
  \/ \E p \in Proc : Restart(p)
  \/ Tick

Spec == Init /\ [][Next]_vars

-----------------------------------------------------------------------------
\* Lifetimes never exceed their TTLs (a cache entry's is SESSION_CACHE_TTL at
\* most), and tasks, keys and histories stay within their types.
TypeOK ==
  /\ created \in SUBSET Sid
  /\ sess \in [Sid -> 0..SessionTTL]
  /\ index \in [User -> SetKey]
  /\ temp \in [User -> SetKey]
  /\ cached \in [Proc -> SUBSET Sid]
  /\ fresh \in [Proc -> [Sid -> 0..CacheTTL]]
  /\ task \in [Task -> TaskState]
  /\ gone \in [Sid -> 0..StaleBound + 1]
  /\ revoked \in SUBSET Sid
  /\ raced \in SUBSET Sid
  /\ failures \in 0..MaxFailures

\* Every live session can still be found by a reset: it is in its owner's
\* index, in the set a running reset has renamed, or among the ids that reset
\* has read (the index's TTL is never shorter than its members').
Findable(s) ==
  \/ s \in index[Owner[s]].ids
  \/ \E t \in Resets(Owner[s]) :
       \/ task[t].op = "members" /\ s \in temp[Owner[s]].ids
       \/ task[t].op \in {"deltemp", "delkeys"} /\ s \in task[t].ids

IndexComplete == \A s \in Sid : Live(s) => Findable(s)

\* When session_destroy or session_destroy_all_for_user has returned, the
\* sessions it was called for stay dead in Redis, whatever else runs.
DestroyIsFinal == \A s \in revoked : ~Live(s)

\* A destroyed session is served from memory only if a session_get had read
\* it from Redis and not yet cached it when the destroy returned.
OnlyRacedFillsSurvive ==
  \A s \in revoked \ raced, p \in Proc : ~CacheHit(p, s)

\* However a session left Redis (expiry, destroy, partial failure), no process
\* serves it for longer than one command timeout and one cache TTL.
StaleBounded ==
  \A p \in Proc, s \in created :
    CacheHit(p, s) /\ ~Live(s) => gone[s] + fresh[p][s] <= StaleBound

\* session_cache_put keeps the in-process map within its cap.
CacheBounded == \A p \in Proc : Cardinality(cached[p]) <= MaxCached
=============================================================================
