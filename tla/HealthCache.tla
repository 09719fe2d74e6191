----------------------------- MODULE HealthCache -----------------------------
(***************************************************************************)
(* The health endpoints of backend/api/src/health.rs over the calls of     *)
(* Dependencies.  The result of a probe is cached behind a Tokio RwLock,   *)
(* which is fair: the tasks that want it form a queue.  A reader holds the *)
(* lock for one look at the cache; a writer looks again and, if it must,   *)
(* keeps the lock while it probes.  The task at the head of the queue has  *)
(* the lock.                                                               *)
(***************************************************************************)
EXTENDS Dependencies, Sequences, SequencesExt

CONSTANTS
  OkTTL,   \* HEALTH_CACHE_TTL
  ErrTTL   \* HEALTH_ERROR_CACHE_TTL

ASSUME HealthAssumption == OkTTL \in Nat \ {0} /\ ErrTTL \in Nat \ {0}

VARIABLES
  queue,   \* for each cache the tasks that hold or want its lock, in order
  cache,   \* the cached value of each service and its age
  job,     \* what each task does about each service
  okAgo    \* history: ticks since each service was last well (saturating)

healthVars == <<queue, cache, job>>
vars == <<server, call, queue, cache, job, okAgo>>
-----------------------------------------------------------------------------
\* Where okAgo saturates.
LongAgo(s) == Timeout[s] + OkTTL

Jobs == {"none", "read", "write", "probe", "traced", "done"}
NoJobs == [s \in Service |-> "none"]
Idle(t) == job[t] = NoJobs

\* "none" is an empty cache; every status but ok is cached as an error.
CacheEntry == [val : {"none", "ok", "error"}, age : 0..OkTTL + ErrTTL]

\* Mutant of health_cache_fresh: the two lifetimes are swapped.
FreshSwapped(s) ==
  /\ cache[s].val # "none"
  /\ cache[s].age < IF cache[s].val = "ok" THEN ErrTTL ELSE OkTTL

health_cache_fresh(s) ==
  /\ cache[s].val # "none"
  /\ cache[s].age < IF cache[s].val = "ok" THEN OkTTL ELSE ErrTTL

Has(t, s) == queue[s] # <<>> /\ Head(queue[s]) = t

\* A queue that t has left.
Without(q, t) ==
  IF t \in Range(q) THEN RemoveAt(q, CHOOSE i \in DOMAIN q : q[i] = t) ELSE q

Leave(t, s) == queue' = [queue EXCEPT ![s] = Without(@, t)]
SetJob(t, s, j) == job' = [job EXCEPT ![t][s] = j]

Init ==
  /\ InitCalls
  /\ queue = [s \in Service |-> <<>>]
  /\ cache = [s \in Service |-> [val |-> "none", age |-> 0]]
  /\ job = [t \in Task |-> NoJobs]
  /\ okAgo = [s \in Service |-> IF server[s] = "ok" THEN 0 ELSE LongAgo(s)]
-----------------------------------------------------------------------------
\* A request for the services S: health joins all of them, the single
\* endpoints ask for one.  Each value starts by wanting the read lock.
Ask(t, S) ==
  /\ Idle(t)
  /\ job' = [job EXCEPT ![t] = [s \in Service |-> IF s \in S THEN "read" ELSE "none"]]
  /\ queue' = [s \in Service |-> IF s \in S THEN Append(queue[s], t) ELSE queue[s]]
  /\ UNCHANGED <<callVars, cache, okAgo>>

\* The fast path: answer from a fresh cache, or queue for the write lock.
ReadCheck(t, s) ==
  /\ job[t][s] = "read" /\ Has(t, s)
  /\ IF health_cache_fresh(s)
     THEN SetJob(t, s, "done") /\ Leave(t, s)
     ELSE /\ SetJob(t, s, "write")
          /\ queue' = [queue EXCEPT ![s] = Append(Tail(@), t)]
  /\ UNCHANGED <<callVars, cache, okAgo>>

\* Mutant of WriteCheck: no second look at the cache.
WriteCheckOnce(t, s) ==
  /\ job[t][s] = "write" /\ Has(t, s)
  /\ SetJob(t, s, "probe") /\ BeginCall(t, s, 0)
  /\ UNCHANGED <<server, queue, cache, okAgo>>

\* Under the write lock: look again, then probe without retries.
WriteCheck(t, s) ==
  /\ job[t][s] = "write" /\ Has(t, s)
  /\ \/ /\ health_cache_fresh(s)
        /\ SetJob(t, s, "done") /\ Leave(t, s)
        /\ UNCHANGED call
     \/ /\ ~health_cache_fresh(s)
        /\ SetJob(t, s, "probe") /\ BeginCall(t, s, 0)
        /\ UNCHANGED queue
  /\ UNCHANGED <<server, cache, okAgo>>

\* The probe has a result: cache it with the time of now and unlock.
Store(t, s) ==
  /\ job[t][s] = "probe" /\ call[t][s].pc \in {"ok", "error"}
  /\ cache' = [cache EXCEPT ![s] = [val |-> call[t][s].pc, age |-> 0]]
  /\ SetCall(t, s, NoCall)
  /\ SetJob(t, s, "done") /\ Leave(t, s)
  /\ UNCHANGED <<server, okAgo>>

\* health_python with an x-trace-id: past the cache, with retries.
Trace(t, s) ==
  /\ Idle(t) /\ s = "python"
  /\ SetJob(t, s, "traced")
  /\ BeginCall(t, s, MaxRetries)
  /\ UNCHANGED <<server, queue, cache, okAgo>>

TraceEnd(t, s) ==
  /\ job[t][s] = "traced" /\ call[t][s].pc \in {"ok", "error"}
  /\ SetCall(t, s, NoCall)
  /\ SetJob(t, s, "done")
  /\ UNCHANGED <<server, queue, cache, okAgo>>

\* All values are there: the answer is sent (and the events of health are
\* handed to broadcast_event).
Answer(t) ==
  /\ ~Idle(t) /\ \A s \in Service : job[t][s] \in {"none", "done"}
  /\ job' = [job EXCEPT ![t] = NoJobs]
  /\ UNCHANGED <<callVars, queue, cache, okAgo>>

\* Mutant of Cancel: a dropped request keeps its place in the queue.
CancelHolding(t) ==
  /\ ~Idle(t)
  /\ job' = [job EXCEPT ![t] = NoJobs]
  /\ call' = [call EXCEPT ![t] = [s \in Service |-> NoCall]]
  /\ UNCHANGED <<server, queue, cache, okAgo>>

\* The client goes away and the handler is dropped at an await: its calls end
\* and its lock, or its place in the queue, is given up.
Cancel(t) ==
  /\ ~Idle(t)
  /\ job' = [job EXCEPT ![t] = NoJobs]
  /\ call' = [call EXCEPT ![t] = [s \in Service |-> NoCall]]
  /\ queue' = [s \in Service |-> Without(queue[s], t)]
  /\ UNCHANGED <<server, cache, okAgo>>
-----------------------------------------------------------------------------
CallSteps(t, s) == CallStep(t, s) /\ UNCHANGED <<healthVars, okAgo>>
Serve(t, s) == Execute(t, s) /\ UNCHANGED <<healthVars, okAgo>>

ChangeService(s) ==
  /\ Change(s)
  /\ okAgo' = [okAgo EXCEPT ![s] = IF server'[s] = "ok" THEN 0 ELSE @]
  /\ UNCHANGED healthVars

AtMost(n, max) == IF n < max THEN n ELSE max

\* One tick.
Tick ==
  /\ TickCalls
  /\ cache' = [s \in Service |-> IF cache[s].val = "none" THEN cache[s]
                 ELSE [cache[s] EXCEPT !.age = AtMost(@ + 1, OkTTL + ErrTTL)]]
  /\ okAgo' = [s \in Service |-> IF server[s] = "ok" THEN 0
                                 ELSE AtMost(okAgo[s] + 1, LongAgo(s))]
  /\ UNCHANGED <<queue, job>>

Step(t) ==
  \/ Answer(t)
  \/ \E s \in Service : ReadCheck(t, s) \/ WriteCheck(t, s) \/ Store(t, s)
                          \/ TraceEnd(t, s) \/ CallSteps(t, s)

Next ==
  \/ \E t \in Task, s \in Service : Trace(t, s) \/ Serve(t, s)
  \/ \E t \in Task, S \in {Service} \cup {{s} : s \in Service} : Ask(t, S)
  \/ \E t \in Task : Step(t) \/ Cancel(t)
  \/ \E s \in Service : ChangeService(s)
  \/ Tick

\* Tokio polls a task whose future can go on, and timers fire.  Services,
\* clients and their requests owe nothing.
Fairness == WF_vars(Tick) /\ \A t \in Task : WF_vars(Step(t))

Spec == Init /\ [][Next]_vars
FairSpec == Spec /\ Fairness
-----------------------------------------------------------------------------
\* Calls, caches, queues and jobs are well formed; a task waits at most once
\* for a lock, and exactly while it is about to read, write or probe.
TypeOK ==
  /\ server \in [Service -> Status]
  /\ call \in [Task -> [Service -> CallState]]
  /\ cache \in [Service -> CacheEntry]
  /\ job \in [Task -> [Service -> Jobs]]
  /\ okAgo \in [Service -> Nat] /\ \A s \in Service : okAgo[s] <= LongAgo(s)
  /\ \A s \in Service :
       /\ IsInjective(queue[s])
       /\ Range(queue[s]) = {t \in Task : job[t][s] \in {"read", "write", "probe"}}

\* Double-checked locking: a service is probed by one request at a time, and
\* never while its cached result is still fresh, so that requests which
\* waited for a probe do not repeat it.
Probing(s) == {t \in Task : job[t][s] = "probe"}
ProbesAreNeeded ==
  \A s \in Service :
    /\ Cardinality(Probing(s)) <= 1
    /\ Probing(s) # {} => ~health_cache_fresh(s)

\* The endpoints report ok from the cache only if the service was well within
\* the last probe timeout and cache lifetime, although its answer may travel
\* for a timeout and the cache is stamped when it arrives.
OkIsRecent ==
  \A s \in Service :
    health_cache_fresh(s) /\ cache[s].val = "ok"
      => okAgo[s] <= Timeout[s] + OkTTL - 1

\* Every request is answered or dropped: a hanging service, a cancelled
\* prober and requests that keep coming hold nobody up for ever.
Answered == \A t \in Task : ~Idle(t) ~> Idle(t)
=============================================================================
