------------------------- MODULE SessionStoreProofs -------------------------
(***************************************************************************)
(* Theorems about SessionStore, for any number of users, sessions, tasks   *)
(* and API processes and any TTLs: its invariants, and that it implements  *)
(* SessionService.                                                         *)
(***************************************************************************)
EXTENDS SessionRefinement, FiniteSetTheorems, TLAPS

USE ConstantAssumption

\* The helpers that change set keys and cache entries stay within their types.
LEMMA IdleType == Idle \in TaskState
  BY DEF Idle, TaskState, Ops

\* The locals of a get or a destroy.
LEMMA SidTaskType ==
  ASSUME NEW o \in Ops, NEW s \in Sid, NEW w \in 0..CmdTimeout
  PROVE  SidTask(o, s, w) \in TaskState
  BY DEF SidTask, TaskState

\* The locals of a reset.
LEMMA ResetTaskType ==
  ASSUME NEW o \in Ops, NEW u \in User, NEW I \in SUBSET Sid,
         NEW S \in SUBSET Sid
  PROVE  ResetTask(o, u, I, S) \in TaskState
  BY DEF ResetTask, TaskState

\* A missing set key.
LEMMA NoKeyType == NoKey \in SetKey
  BY DEF NoKey, SetKey

\* SREM leaves a set key.
LEMMA WithoutType ==
  ASSUME NEW key \in SetKey, NEW s PROVE Without(key, s) \in SetKey
  BY DEF Without, SetKey, NoKey

\* A reset whose command failed goes on with a known step.
LEMMA NextOpType == ASSUME NEW o PROVE NextOp(o) \in Ops
  BY DEF NextOp, Ops

\* A GET in flight ages up to its timeout.
LEMMA WaitedType ==
  ASSUME NEW k \in TaskState, k.waited < CmdTimeout
  PROVE  [k EXCEPT !.waited = @ + 1] \in TaskState
<1>1. k.waited + 1 \in 0..CmdTimeout
  BY DEF TaskState
<1> QED BY <1>1 DEF TaskState

\* A TTL counts down and stops at zero.
LEMMA LessType ==
  ASSUME NEW m \in Nat, NEW n \in 0..m PROVE Less(n) \in 0..m
  BY DEF Less

\* A set key counts down and goes away.
LEMMA AgedType ==
  ASSUME NEW key \in SetKey PROVE Aged(key) \in SetKey
  BY DEF Aged, SetKey, NoKey

\* session_cache_remove keeps the cache well typed.
LEMMA CacheRemoveType ==
  ASSUME TypeOK, NEW p \in Proc, NEW S, CacheRemove(p, S)
  PROVE  /\ cached' \in [Proc -> SUBSET Sid]
         /\ fresh' \in [Proc -> [Sid -> 0..CacheTTL]]
  BY DEF CacheRemove, TypeOK

\* session_cache_put keeps the cache well typed.
LEMMA CachePutType ==
  ASSUME TypeOK, NEW p \in Proc, NEW s \in Sid, CachePut(p, s)
  PROVE  /\ cached' \in [Proc -> SUBSET Sid]
         /\ fresh' \in [Proc -> [Sid -> 0..CacheTTL]]
  BY DEF CachePut, TypeOK

\* session_create .. session_refresh keep every variable within its type.
LEMMA TypeStep == TypeOK /\ [Next]_vars => TypeOK'
<1> SUFFICES ASSUME TypeOK, [Next]_vars PROVE TypeOK'
  OBVIOUS
<1> USE DEF redisVars, cacheVars, historyVars
<1>1. ASSUME NEW s \in Sid, Create(s) PROVE TypeOK'
  BY <1>1 DEF Create, TypeOK, SetKey
<1>2. ASSUME NEW s \in Sid, Refresh(s) PROVE TypeOK'
  BY <1>2 DEF Refresh, TypeOK
<1>3. ASSUME NEW s \in Sid, DestroyLost(s) PROVE TypeOK'
  BY <1>3, WithoutType DEF DestroyLost, DestroyScript, Fail, TypeOK
<1>4. ASSUME NEW t \in Task, NEW s \in Sid, GetBegin(t, s) PROVE TypeOK'
  <2>1. SidTask("get", s, 0) \in TaskState
    BY SidTaskType DEF Ops
  <2> QED BY <1>4, <2>1, CacheRemoveType DEF GetBegin, TypeOK
<1>5. ASSUME NEW t \in Task, NEW s \in Sid, Destroy(t, s) PROVE TypeOK'
  <2>1. SidTask("uncache", s, 0) \in TaskState
    BY SidTaskType DEF Ops
  <2> QED BY <1>5, <2>1, WithoutType DEF Destroy, DestroyScript, TypeOK
<1>6. ASSUME NEW t \in Task, NEW u \in User, Rename(t, u) PROVE TypeOK'
  <2>1. ResetTask("members", u, {}, LiveOf(u)) \in TaskState
    BY ResetTaskType DEF Ops, LiveOf, SessionsOf
  <2> QED BY <1>6, <2>1, NoKeyType DEF Rename, RenameKey, TypeOK
<1>7. ASSUME NEW t \in Task, NEW u \in User, RenameMissing(t, u) PROVE TypeOK'
  BY <1>7 DEF RenameMissing, TypeOK, LiveOf, SessionsOf
<1>8. ASSUME NEW t \in Task, GetReply(t) PROVE TypeOK'
  <2>1. PICK s \in Sid : task' = [task EXCEPT ![t] =
                  IF Live(s) THEN SidTask("fill", s, @.waited) ELSE Idle]
    BY <1>8 DEF GetReply, TypeOK, TaskState
  <2>2. SidTask("fill", s, task[t].waited) \in TaskState
    BY SidTaskType DEF Ops, TypeOK, TaskState
  <2> QED BY <1>8, <2>1, <2>2, IdleType DEF GetReply, TypeOK
<1>9. ASSUME NEW t \in Task, GetFill(t) PROVE TypeOK'
  <2>1. PICK s \in Sid : CachePut(At[t], s)
    BY <1>9 DEF GetFill, TypeOK, TaskState
  <2> QED BY <1>9, <2>1, IdleType, CachePutType DEF GetFill, TypeOK
<1>10. ASSUME NEW t \in Task, GetFail(t) PROVE TypeOK'
  BY <1>10, IdleType DEF GetFail, TypeOK
<1>11. ASSUME NEW t \in Task, DestroyEnd(t) PROVE TypeOK'
  <2>1. task[t].sid \subseteq Sid
    BY DEF TypeOK, TaskState
  <2> QED BY <1>11, <2>1, IdleType, CacheRemoveType DEF DestroyEnd, TypeOK
<1>12. ASSUME NEW t \in Task, Members(t) PROVE TypeOK'
  <2>1. PICK u \in User : task' = [task EXCEPT ![t] =
                  ResetTask("deltemp", u, temp[u].ids, @.snap)]
    BY <1>12 DEF Members, TypeOK, TaskState
  <2>2. ResetTask("deltemp", u, temp[u].ids, task[t].snap) \in TaskState
    BY ResetTaskType DEF Ops, TypeOK, TaskState, SetKey
  <2> QED BY <1>12, <2>1, <2>2 DEF Members, TypeOK
<1>13. ASSUME NEW t \in Task, DelTemp(t) PROVE TypeOK'
  <2>1. PICK u \in User :
          /\ temp' = [temp EXCEPT ![u] = NoKey]
          /\ task' = [task EXCEPT ![t] = ResetTask("delkeys", u, @.ids, @.snap)]
    BY <1>13 DEF DelTemp, TypeOK, TaskState
  <2>2. ResetTask("delkeys", u, task[t].ids, task[t].snap) \in TaskState
    BY ResetTaskType DEF Ops, TypeOK, TaskState
  <2> QED BY <1>13, <2>1, <2>2, NoKeyType DEF DelTemp, TypeOK
<1>14. ASSUME NEW t \in Task, DelKeys(t) PROVE TypeOK'
  <2>1. PICK u \in User :
          task' = [task EXCEPT ![t] = ResetTask("purge", u, @.ids, @.snap)]
    BY <1>14 DEF DelKeys, TypeOK, TaskState
  <2>2. ResetTask("purge", u, task[t].ids, task[t].snap) \in TaskState
    BY ResetTaskType DEF Ops, TypeOK, TaskState
  <2> QED BY <1>14, <2>1, <2>2 DEF DelKeys, TypeOK
<1>15. ASSUME NEW t \in Task, Purge(t) PROVE TypeOK'
  <2>1. task[t].snap \subseteq Sid
    BY DEF TypeOK, TaskState
  <2>2. PICK u : CacheRemove(At[t], SessionsOf(u))
    BY <1>15 DEF Purge
  <2> QED BY <1>15, <2>1, <2>2, IdleType, CacheRemoveType DEF Purge, TypeOK
<1>16. ASSUME NEW t \in Task, StepFail(t) PROVE TypeOK'
  <2>1. PICK u \in User :
          task' = [task EXCEPT ![t] = ResetTask(NextOp(task[t].op), u, @.ids, {})]
    BY <1>16 DEF StepFail, TypeOK, TaskState
  <2>2. ResetTask(NextOp(task[t].op), u, task[t].ids, {}) \in TaskState
    BY NextOpType, ResetTaskType DEF TypeOK, TaskState
  <2>3. failures' \in 0..MaxFailures
    BY <1>16 DEF StepFail, Fail, TypeOK
  <2> QED BY <1>16, <2>1, <2>2, <2>3 DEF StepFail, TypeOK
<1>17. ASSUME NEW t \in Task, Cancel(t) PROVE TypeOK'
  BY <1>17, IdleType DEF Cancel, Fail, TypeOK
<1>18. ASSUME NEW u \in User, RenameLost(u) PROVE TypeOK'
  BY <1>18, NoKeyType DEF RenameLost, RenameKey, Fail, TypeOK
<1>19. ASSUME NEW p \in Proc, Restart(p) PROVE TypeOK'
  BY <1>19, IdleType, CacheRemoveType DEF Restart, Fail, TypeOK
<1>20. ASSUME Tick PROVE TypeOK'
  <2>1. index' \in [User -> SetKey] /\ temp' \in [User -> SetKey]
    BY <1>20, AgedType DEF Tick, TypeOK
  <2>2. ASSUME NEW t \in Task, Reading(t)
        PROVE  [task[t] EXCEPT !.waited = @ + 1] \in TaskState
    <3>1. task[t].waited < CmdTimeout /\ task[t].waited \in Nat
      BY <1>20, <2>2 DEF Tick, TypeOK, TaskState
    <3> QED BY <3>1, WaitedType DEF TypeOK
  <2>3. task' \in [Task -> TaskState]
    BY <1>20, <2>2 DEF Tick, TypeOK
  <2>4. gone' \in [Sid -> 0..StaleBound + 1]
    BY <1>20 DEF Tick, TypeOK, StaleBound
  <2>5. sess' \in [Sid -> 0..SessionTTL]
    <3>1. \A s \in Sid : Less(sess[s]) \in 0..SessionTTL
      BY LessType DEF TypeOK
    <3> QED BY <1>20, <3>1 DEF Tick
  <2>6. fresh' \in [Proc -> [Sid -> 0..CacheTTL]]
    <3>1. \A p \in Proc, s \in Sid : Less(fresh[p][s]) \in 0..CacheTTL
      BY LessType DEF TypeOK
    <3> QED BY <1>20, <3>1 DEF Tick
  <2> QED BY <1>20, <2>1, <2>3, <2>4, <2>5, <2>6 DEF Tick, TypeOK
<1>21. ASSUME UNCHANGED vars PROVE TypeOK'
  BY <1>21 DEF vars, TypeOK
<1> QED
  BY <1>1, <1>2, <1>3, <1>4, <1>5, <1>6, <1>7, <1>8, <1>9, <1>10, <1>11,
     <1>12, <1>13, <1>14, <1>15, <1>16, <1>17, <1>18, <1>19, <1>20, <1>21
     DEF Next, TaskStep

\* Every reachable state of the session store is well typed: no TTL leaves its
\* range, no task or Redis set names an id that was never a session id.
THEOREM TypeCorrect == Spec => []TypeOK
<1>1. Init => TypeOK
  BY IdleType, NoKeyType DEF Init, TypeOK, StaleBound
<1> QED BY <1>1, TypeStep, PTL DEF Spec
-----------------------------------------------------------------------------
(* The history of a session that left Redis: what bounds its stay in the   *)
(* caches.  A get that read it has waited at least as long as it is gone.  *)
StaleInv ==
  /\ \A s \in Sid : Live(s) => s \in created
  /\ \A s \in Sid : Live(s) \/ s \notin created => gone[s] = 0
  /\ \A p \in Proc, s \in Sid : fresh[p][s] > 0 =>
       /\ s \in created
       /\ ~Live(s) => gone[s] + fresh[p][s] <= StaleBound
  /\ \A t \in Task : \A s \in task[t].sid :
       /\ s \in created
       /\ task[t].op = "fill" => Live(s) \/ gone[s] <= task[t].waited


\* What removing and adding cache entries does to their remaining life.
LEMMA CacheRemoveFresh ==
  ASSUME TypeOK, NEW p \in Proc, NEW S, CacheRemove(p, S)
  PROVE  \A q \in Proc, s \in Sid : fresh'[q][s] > 0 => fresh'[q][s] = fresh[q][s]
  BY DEF CacheRemove, TypeOK

\* session_cache_put gives the new entry SESSION_CACHE_TTL, no other entry more.
LEMMA CachePutFresh ==
  ASSUME TypeOK, NEW p \in Proc, NEW r \in Sid, CachePut(p, r)
  PROVE  \A q \in Proc, s \in Sid : fresh'[q][s] > 0 =>
           fresh'[q][s] = fresh[q][s] \/ (s = r /\ fresh'[q][s] = CacheTTL)
  BY DEF CachePut, TypeOK

\* Deleting session keys preserves StaleInv: a key that goes away leaves with
\* gone = 0, and every cache entry has at most CacheTTL left.
LEMMA StaleDelete ==
  ASSUME TypeOK, StaleInv,
         \A s \in Sid : sess'[s] = sess[s] \/ sess'[s] = 0,
         UNCHANGED <<created, fresh, gone>>,
         \A t \in Task : \A s \in task'[t].sid :
           /\ s \in created
           /\ task'[t].op = "fill" => s \in task[t].sid /\ task'[t] = task[t]
  PROVE  StaleInv'
<1>1. \A s \in Sid : /\ gone[s] \in Nat
                     /\ Live(s) => gone[s] = 0
                     /\ Live(s)' => Live(s)
  <2>1. \A s \in Sid : gone[s] \in Nat /\ sess[s] \in Nat
    BY DEF TypeOK
  <2>2. \A s \in Sid : Live(s) => gone[s] = 0
    BY DEF StaleInv
  <2>3. \A s \in Sid : Live(s)' => Live(s)
    BY <2>1 DEF Live
  <2> QED BY <2>1, <2>2, <2>3
<1>2. \A p \in Proc, s \in Sid :
        fresh[p][s] \in Nat /\ (Live(s) => gone[s] + fresh[p][s] <= StaleBound)
  BY <1>1 DEF TypeOK, StaleBound
<1>3. \A t \in Task : task[t].sid \subseteq Sid /\ task[t].waited \in Nat
  BY DEF TypeOK, TaskState
<1>4. \A t \in Task : \A s \in task'[t].sid :
        task'[t].op = "fill" => Live(s)' \/ gone[s] <= task'[t].waited
  <2> SUFFICES ASSUME NEW t \in Task, NEW s \in task'[t].sid, task'[t].op = "fill"
               PROVE  Live(s)' \/ gone[s] <= task'[t].waited
    OBVIOUS
  <2>1. s \in task[t].sid /\ task'[t] = task[t] /\ s \in Sid
    BY <1>3
  <2>2. Live(s) \/ gone[s] <= task[t].waited
    BY <2>1 DEF StaleInv
  <2> QED BY <1>1, <1>3, <2>1, <2>2
<1>5. StaleBound' = StaleBound
  BY DEF StaleBound
<1>6. \A p \in Proc, s \in Sid : fresh[p][s] > 0 =>
        s \in created /\ (~Live(s)' => gone[s] + fresh[p][s] <= StaleBound)
  BY <1>2 DEF StaleInv
<1>7. \A s \in Sid : /\ Live(s)' => s \in created
                     /\ Live(s)' \/ s \notin created => gone[s] = 0
  BY <1>1 DEF StaleInv
<1> QED BY <1>4, <1>5, <1>6, <1>7 DEF StaleInv

\* Every step preserves StaleInv.
LEMMA StaleStep == TypeOK /\ StaleInv /\ [Next]_vars => StaleInv'
<1> SUFFICES ASSUME TypeOK, StaleInv, [Next]_vars PROVE StaleInv'
  OBVIOUS
<1> USE DEF redisVars, cacheVars, historyVars, Live
<1>1. ASSUME NEW r \in Sid, Create(r) PROVE StaleInv'
  BY <1>1 DEF Create, TypeOK, StaleInv
<1>2. ASSUME NEW r \in Sid, Refresh(r) PROVE StaleInv'
  BY <1>2 DEF Refresh, TypeOK, StaleInv
<1>3. ASSUME NEW r \in Sid, DestroyLost(r) PROVE StaleInv'
  BY <1>3, StaleDelete DEF DestroyLost, DestroyScript, TypeOK, StaleInv
<1>4. ASSUME NEW x \in Task, NEW r \in Sid, GetBegin(x, r) PROVE StaleInv'
  BY <1>4, CacheRemoveFresh DEF GetBegin, TypeOK, StaleInv, SidTask
<1>5. ASSUME NEW x \in Task, NEW r \in Sid, Destroy(x, r) PROVE StaleInv'
  BY <1>5, StaleDelete DEF Destroy, DestroyScript, TypeOK, StaleInv, SidTask
<1>6. ASSUME NEW x \in Task, NEW u \in User, Rename(x, u) PROVE StaleInv'
  BY <1>6 DEF Rename, RenameKey, TypeOK, StaleInv, ResetTask
<1>7. ASSUME NEW x \in Task, NEW u \in User, RenameMissing(x, u) PROVE StaleInv'
  BY <1>7 DEF RenameMissing, TypeOK, StaleInv
<1>8. ASSUME NEW x \in Task, GetReply(x) PROVE StaleInv'
  BY <1>8 DEF GetReply, TypeOK, StaleInv, SidTask, Idle
<1>9. ASSUME NEW x \in Task, GetFill(x) PROVE StaleInv'
  <2>1. PICK r \in task[x].sid : CachePut(At[x], r)
    BY <1>9 DEF GetFill
  <2>2. r \in Sid /\ r \in created /\ (Live(r) \/ gone[r] <= task[x].waited)
    BY <1>9 DEF GetFill, StaleInv, TypeOK, TaskState
  <2>3. task[x].waited \in 0..CmdTimeout
    BY DEF TypeOK, TaskState
  <2>4. Live(r) \/ gone[r] + CacheTTL <= StaleBound
    BY <2>2, <2>3 DEF StaleBound, TypeOK
  <2> QED BY <1>9, <2>1, <2>2, <2>4, CachePutFresh DEF GetFill, TypeOK, StaleInv, Idle
<1>10. ASSUME NEW x \in Task, GetFail(x) PROVE StaleInv'
  BY <1>10 DEF GetFail, TypeOK, StaleInv, Idle
<1>11. ASSUME NEW x \in Task, DestroyEnd(x) PROVE StaleInv'
  BY <1>11, CacheRemoveFresh DEF DestroyEnd, TypeOK, StaleInv, Idle
<1>12. ASSUME NEW x \in Task, Members(x) PROVE StaleInv'
  BY <1>12 DEF Members, TypeOK, StaleInv, ResetTask
<1>13. ASSUME NEW x \in Task, DelTemp(x) PROVE StaleInv'
  BY <1>13 DEF DelTemp, TypeOK, StaleInv, ResetTask
<1>14. ASSUME NEW x \in Task, DelKeys(x) PROVE StaleInv'
  <2>1. \A s \in Sid : sess'[s] = sess[s] \/ sess'[s] = 0
    BY <1>14 DEF DelKeys
  <2>2. PICK u : task' = [task EXCEPT ![x] = ResetTask("purge", u, @.ids, @.snap)]
    BY <1>14 DEF DelKeys
  <2>3. \A t \in Task : \A s \in task'[t].sid : t # x /\ task'[t] = task[t]
    BY <2>2 DEF TypeOK, ResetTask
  <2>4. \A t \in Task : \A s \in task[t].sid : s \in created
    BY DEF StaleInv
  <2> QED BY <1>14, <2>1, <2>3, <2>4, StaleDelete DEF DelKeys
<1>15. ASSUME NEW x \in Task, Purge(x) PROVE StaleInv'
  BY <1>15, CacheRemoveFresh DEF Purge, TypeOK, StaleInv, Idle
<1>16. ASSUME NEW x \in Task, StepFail(x) PROVE StaleInv'
  BY <1>16 DEF StepFail, TypeOK, StaleInv, ResetTask
<1>17. ASSUME NEW x \in Task, Cancel(x) PROVE StaleInv'
  BY <1>17 DEF Cancel, TypeOK, StaleInv, Idle
<1>18. ASSUME NEW u \in User, RenameLost(u) PROVE StaleInv'
  BY <1>18 DEF RenameLost, RenameKey, TypeOK, StaleInv
<1>19. ASSUME NEW p \in Proc, Restart(p) PROVE StaleInv'
  BY <1>19, CacheRemoveFresh DEF Restart, TypeOK, StaleInv, Idle
<1>20. ASSUME Tick PROVE StaleInv'
  <2>1. \A s \in Sid : Live(s)' => Live(s)
    BY <1>20 DEF Tick, TypeOK, Less
  <2>2. \A p \in Proc, s \in Sid :
          fresh'[p][s] > 0 => fresh[p][s] > 0 /\ fresh'[p][s] = fresh[p][s] - 1
    BY <1>20 DEF Tick, TypeOK, Less
  <2>3. \A s \in Sid : gone'[s] = gone[s] \/
          (gone'[s] = gone[s] + 1 /\ s \in created /\ ~Live(s))
    BY <1>20 DEF Tick, TypeOK
  <2>4. \A t \in Task : /\ task'[t].sid = task[t].sid
                        /\ task'[t].op = task[t].op
                        /\ task[t].op = "fill" => task'[t].waited = task[t].waited + 1
    BY <1>20 DEF Tick, TypeOK, TaskState, Reading
  <2>5. \A t \in Task : task[t].sid \subseteq Sid /\ task[t].waited \in Nat
    BY DEF TypeOK, TaskState
  <2>6. gone \in [Sid -> Nat] /\ fresh \in [Proc -> [Sid -> Nat]] /\ StaleBound \in Nat
    BY DEF TypeOK, StaleBound
  <2>7. created' = created
    BY <1>20 DEF Tick
  <2>8. (\A p \in Proc, s \in Sid : fresh[p][s] > 0 =>
          /\ s \in created
          /\ ~Live(s) => gone[s] + fresh[p][s] <= StaleBound)'
    <3> SUFFICES ASSUME NEW p \in Proc, NEW s \in Sid, fresh'[p][s] > 0
                 PROVE  s \in created /\ (~Live(s)' => gone'[s] + fresh'[p][s] <= StaleBound)
      BY <2>7 DEF StaleBound
    <3>1. CASE Live(s)
      <4>1. gone[s] = 0 /\ gone'[s] = 0
        BY <2>3, <3>1 DEF StaleInv
      <4>2. fresh'[p][s] <= CacheTTL
        BY <2>2 DEF TypeOK
      <4> QED BY <2>2, <4>1, <4>2 DEF StaleInv, StaleBound, TypeOK
    <3>2. CASE ~Live(s)
      BY <2>2, <2>3, <2>6, <3>2 DEF StaleInv
    <3> QED BY <3>1, <3>2
  <2>9. (\A t \in Task : \A s \in task[t].sid :
          /\ s \in created
          /\ task[t].op = "fill" => Live(s) \/ gone[s] <= task[t].waited)'
    <3> SUFFICES ASSUME NEW t \in Task, NEW s \in task[t].sid
                 PROVE  s \in created /\
                        (task[t].op = "fill" => Live(s)' \/ gone'[s] <= task'[t].waited)
      BY <2>4, <2>7
    <3>1. s \in Sid
      BY <2>5
    <3>2. CASE Live(s)
      BY <2>3, <2>4, <2>5, <3>1, <3>2 DEF StaleInv
    <3>3. CASE ~Live(s)
      BY <2>3, <2>4, <2>5, <2>6, <3>1, <3>3 DEF StaleInv
    <3> QED BY <3>2, <3>3
  <2> QED BY <2>1, <2>3, <2>7, <2>8, <2>9 DEF StaleInv
<1>21. ASSUME UNCHANGED vars PROVE StaleInv'
  BY <1>21 DEF vars, StaleInv, StaleBound
<1> QED
  BY <1>1, <1>2, <1>3, <1>4, <1>5, <1>6, <1>7, <1>8, <1>9, <1>10, <1>11,
     <1>12, <1>13, <1>14, <1>15, <1>16, <1>17, <1>18, <1>19, <1>20, <1>21
     DEF Next, TaskStep

\* The bound on stale service holds for every number of processes, users and
\* tasks, with any number of failed commands, cancelled requests, restarts and
\* TTL refreshes: a session that left Redis is served from a SESSION_CACHE no
\* longer than default_command_timeout + SESSION_CACHE_TTL.
THEOREM StaleServiceBounded == Spec => []StaleBounded
<1>1. Init => StaleInv
  BY DEF Init, StaleInv, Live, Idle, StaleBound
<1>2. StaleInv /\ TypeOK => StaleBounded
  BY DEF StaleInv, StaleBounded, CacheHit, TypeOK
<1> QED BY <1>1, <1>2, StaleStep, TypeCorrect, PTL DEF Spec

-----------------------------------------------------------------------------
(* Where a live session is recorded, with a TTL that outlasts it.          *)
Covers(key, s) == s \in key.ids /\ sess[s] <= key.ttl

(* Reset task t still has s in hand: it will delete s before it returns.   *)
InHand(t, s) ==
  \/ task[t].op = "members" /\ Covers(temp[Owner[s]], s)
  \/ task[t].op \in {"deltemp", "delkeys"} /\ s \in task[t].ids

ResetOps == {"members", "deltemp", "delkeys", "purge"}

LiveIsCreated == \A s \in Sid : Live(s) => s \in created

TaskInv == \A t \in Task :
  /\ task[t].op \in ResetOps <=> task[t].user # {}
  /\ \A u, v \in task[t].user : u = v
  /\ task[t].op = "uncache" =>
       \A s \in task[t].sid : s \in created /\ ~Live(s)
  /\ \A s \in task[t].snap :
       s \in created /\ Owner[s] \in task[t].user /\ (Live(s) => InHand(t, s))

OneResetEach == \A x, y \in Task, u \in User :
  u \in task[x].user /\ u \in task[y].user => x = y

LiveIsRecorded == \A s \in Sid : Live(s) =>
  \/ Covers(index[Owner[s]], s)
  \/ \E t \in Task : Owner[s] \in task[t].user /\ InHand(t, s)

RevokedIsDead == \A s \in revoked : s \in created /\ ~Live(s)

ResetInv ==
  LiveIsCreated /\ TaskInv /\ OneResetEach /\ LiveIsRecorded /\ RevokedIsDead

\* The assumptions of the reset guarantee: no two destroy-all calls for one user
\* overlap, Redis answers every command, and session_refresh is not called (no
\* route calls it).
OrderlyResets == MaxResets = 1 /\ MaxFailures = 0 /\ Refreshing = FALSE

\* A reset starts only when no other reset of that user is running.
LEMMA NoOtherReset ==
  ASSUME OrderlyResets, NEW u \in User, Cardinality(Resets(u)) < MaxResets
  PROVE  \A t \in Task : u \notin task[t].user
<1>1. IsFiniteSet(Resets(u))
  BY FS_Subset DEF Resets
<1>2. Cardinality(Resets(u)) = 0
  BY <1>1, FS_CardinalityType DEF OrderlyResets
<1> QED BY <1>1, <1>2, FS_EmptySet DEF Resets

\* Steps that leave Redis, the history and the reset tasks alone.
LEMMA ResetFrame ==
  ASSUME TypeOK, ResetInv,
         UNCHANGED <<created, sess, index, temp, revoked>>,
         \A t \in Task : task'[t] = task[t] \/
           (task'[t].op \in {"idle", "get", "fill"} /\ task'[t].user = {}
             /\ task'[t].snap = {} /\ task[t].user = {})
  PROVE  ResetInv'
<1>1. \A s \in Sid, t \in Task : task'[t] = task[t] => InHand(t, s)' = InHand(t, s)
  BY DEF InHand, Covers
<1>2. \A s : Live(s)' = Live(s)
  BY DEF Live
<1>3. \A t \in Task : task[t].snap \subseteq Sid
  BY DEF TypeOK, TaskState
<1>4. LiveIsCreated' /\ RevokedIsDead' /\ OneResetEach'
  BY <1>2 DEF ResetInv, LiveIsCreated, RevokedIsDead, OneResetEach
<1>5. TaskInv'
  BY <1>1, <1>2, <1>3 DEF ResetInv, TaskInv, ResetOps
<1>6. LiveIsRecorded'
  BY <1>1, <1>2 DEF ResetInv, LiveIsRecorded, Covers
<1> QED BY <1>4, <1>5, <1>6 DEF ResetInv

\* A reset task that takes its next step: it keeps its user, everyone else's
\* work is untouched, no session appears, and what it had in hand it still has
\* in hand or has deleted.
LEMMA ResetAdvance ==
  ASSUME TypeOK, ResetInv, NEW x \in Task, NEW u \in User, u \in task[x].user,
         UNCHANGED <<created, index, revoked>>,
         \A t \in Task : t # x => task'[t] = task[t],
         task'[x].user = {u}, task'[x].snap = task[x].snap,
         task'[x].op \in ResetOps,
         \A s \in Sid : sess'[s] = sess[s] \/ sess'[s] = 0,
         \A v \in User : v # u => temp'[v] = temp[v],
         \A s \in Sid : Owner[s] = u /\ InHand(x, s) => InHand(x, s)' \/ ~Live(s)'
  PROVE  ResetInv'
<1>1. \A s \in Sid : Live(s)' => Live(s) /\ sess'[s] = sess[s]
  BY DEF Live, TypeOK
<1>2. task[x].user = {u}
  BY DEF ResetInv, TaskInv
<1>3. \A t \in Task : t # x => u \notin task[t].user
  BY DEF ResetInv, OneResetEach
<1>4. \A s \in Sid, t \in Task :
        t # x /\ Owner[s] # u /\ InHand(t, s) /\ Live(s)' => InHand(t, s)'
  BY <1>1 DEF InHand, Covers
<1>5. \A t \in Task : task[t].sid \subseteq Sid /\ task[t].snap \subseteq Sid
  BY DEF TypeOK, TaskState
<1>6. LiveIsCreated' /\ RevokedIsDead' /\ OneResetEach'
  BY <1>1, <1>2 DEF ResetInv, LiveIsCreated, RevokedIsDead, OneResetEach, TypeOK
<1>7. TaskInv'
  <2>1. ASSUME NEW t \in Task, t # x, NEW s \in task[t].snap
        PROVE  s \in created /\ Owner[s] \in task[t].user /\ (Live(s)' => InHand(t, s)')
    BY <1>1, <1>3, <1>4, <1>5, <2>1 DEF ResetInv, TaskInv
  <2>2. ASSUME NEW s \in task[x].snap
        PROVE  s \in created /\ Owner[s] = u /\ (Live(s)' => InHand(x, s)')
    BY <1>1, <1>2, <1>5 DEF ResetInv, TaskInv
  <2>3. ASSUME NEW t \in Task, t # x, task[t].op = "uncache", NEW s \in task[t].sid
        PROVE  s \in created /\ ~Live(s)'
    BY <1>1, <1>5, <2>3 DEF ResetInv, TaskInv
  <2> QED BY <2>1, <2>2, <2>3 DEF ResetInv, TaskInv, ResetOps
<1>8. LiveIsRecorded'
  <2> SUFFICES ASSUME NEW s \in Sid, Live(s)'
               PROVE  \/ Covers(index[Owner[s]], s)'
                      \/ \E t \in Task : Owner[s] \in task'[t].user /\ InHand(t, s)'
    BY DEF LiveIsRecorded
  <2>1. CASE Covers(index[Owner[s]], s)
    BY <1>1, <2>1 DEF Covers
  <2>2. ASSUME NEW t \in Task, Owner[s] \in task[t].user, InHand(t, s)
        PROVE  Owner[s] \in task'[t].user /\ InHand(t, s)'
    <3>1. CASE t = x
      BY <1>2, <2>2, <3>1
    <3>2. CASE t # x
      BY <1>3, <1>4, <2>2, <3>2
    <3> QED BY <3>1, <3>2
  <2> QED BY <1>1, <2>1, <2>2 DEF ResetInv, LiveIsRecorded
<1> QED BY <1>6, <1>7, <1>8 DEF ResetInv

\* Every step preserves ResetInv, one action after the other.
LEMMA ResetStep == OrderlyResets /\ TypeOK /\ ResetInv /\ [Next]_vars => ResetInv'
<1> SUFFICES ASSUME OrderlyResets, TypeOK, ResetInv, [Next]_vars PROVE ResetInv'
  OBVIOUS
<1> USE DEF redisVars, cacheVars, historyVars
<1>0. ~Fail
  BY DEF Fail, OrderlyResets, TypeOK
<1>1. ASSUME NEW r \in Sid, Create(r) PROVE ResetInv'
  <2>1. /\ \A s \in Sid : s # r => sess'[s] = sess[s]
        /\ sess'[r] = SessionTTL /\ sess' \in [Sid -> 0..SessionTTL]
        /\ created' = created \cup {r} /\ UNCHANGED <<task, temp, revoked>>
    BY <1>1 DEF Create, TypeOK
  <2>2. \A s \in Sid : s # r /\ Covers(index[Owner[s]], s) => Covers(index[Owner[s]], s)'
    BY <1>1 DEF Create, TypeOK, Covers, SetKey
  <2>3. Covers(index[Owner[r]], r)'
    BY <1>1 DEF Create, TypeOK, Covers
  <2>4. \A s \in Sid, t \in Task : s # r /\ InHand(t, s) => InHand(t, s)'
    BY <2>1 DEF InHand, Covers
  <2>5. r \notin created
    BY <1>1 DEF Create
  <2>6. \A t \in Task : task[t].sid \subseteq Sid /\ task[t].snap \subseteq Sid
    BY DEF TypeOK, TaskState
  <2>7. \A s \in Sid : s # r => Live(s)' = Live(s)
    BY <2>1 DEF Live
  <2>8. LiveIsCreated' /\ RevokedIsDead' /\ OneResetEach'
    BY <2>1, <2>5, <2>7 DEF ResetInv, LiveIsCreated, RevokedIsDead, OneResetEach, TypeOK
  <2>9. TaskInv'
    BY <2>1, <2>4, <2>5, <2>6, <2>7 DEF ResetInv, TaskInv
  <2>10. LiveIsRecorded'
    BY <2>1, <2>2, <2>3, <2>4, <2>7 DEF ResetInv, LiveIsRecorded
  <2> QED BY <2>8, <2>9, <2>10 DEF ResetInv
<1>2. ASSUME NEW r \in Sid, Refresh(r) PROVE ResetInv'
  BY <1>2 DEF Refresh, OrderlyResets
<1>3. ASSUME NEW r \in Sid, DestroyLost(r) PROVE ResetInv'
  BY <1>0, <1>3 DEF DestroyLost
<1>4. ASSUME NEW x \in Task, NEW r \in Sid, GetBegin(x, r) PROVE ResetInv'
  <2>1. task[x].user = {}
    BY <1>4 DEF GetBegin, ResetInv, TaskInv, ResetOps
  <2>2. task' = [task EXCEPT ![x] = SidTask("get", r, 0)]
    BY <1>4 DEF GetBegin
  <2>3. \A t \in Task : t # x => task'[t] = task[t]
    BY <2>2 DEF TypeOK
  <2>4. task'[x].op = "get" /\ task'[x].user = {} /\ task'[x].snap = {}
    BY <2>2 DEF TypeOK, SidTask
  <2> QED BY <1>4, <2>1, <2>3, <2>4, ResetFrame DEF GetBegin
<1>5. ASSUME NEW x \in Task, NEW r \in Sid, Destroy(x, r) PROVE ResetInv'
  <2>1. /\ sess' = [sess EXCEPT ![r] = 0] /\ r \in created
        /\ UNCHANGED <<created, temp, revoked>>
        /\ task[x].op = "idle"
        /\ task' = [task EXCEPT ![x] = SidTask("uncache", r, 0)]
    BY <1>5 DEF Destroy, DestroyScript
  <2>2. \A s \in Sid : s # r /\ Covers(index[Owner[s]], s) => Covers(index[Owner[s]], s)'
    BY <1>5 DEF Destroy, DestroyScript, Without, NoKey, TypeOK, Covers, SetKey
  <2>3. /\ \A t \in Task : t # x => task'[t] = task[t]
        /\ task'[x].op = "uncache" /\ task'[x].sid = {r} /\ task'[x].user = {}
        /\ task'[x].snap = {}
    BY <2>1 DEF TypeOK, SidTask
  <2>4. task[x].user = {}
    BY <2>1 DEF ResetInv, TaskInv, ResetOps
  <2>5. \A s \in Sid : (s # r => sess'[s] = sess[s]) /\ (Live(s)' => s # r /\ Live(s))
    BY <2>1 DEF TypeOK, Live
  <2>6. \A s \in Sid, t \in Task : t # x /\ s # r /\ InHand(t, s) => InHand(t, s)'
    BY <2>1, <2>3, <2>5 DEF InHand, Covers
  <2>7. \A t \in Task : task[t].sid \subseteq Sid /\ task[t].snap \subseteq Sid
    BY DEF TypeOK, TaskState
  <2>8. LiveIsCreated' /\ RevokedIsDead' /\ OneResetEach'
    BY <2>1, <2>3, <2>5 DEF ResetInv, LiveIsCreated, RevokedIsDead, OneResetEach, TypeOK
  <2>9. TaskInv'
    BY <2>1, <2>3, <2>5, <2>6, <2>7 DEF ResetInv, TaskInv, ResetOps
  <2>10. LiveIsRecorded'
    BY <2>2, <2>3, <2>4, <2>5, <2>6 DEF ResetInv, LiveIsRecorded
  <2> QED BY <2>8, <2>9, <2>10 DEF ResetInv
<1>6. ASSUME NEW x \in Task, NEW u \in User, Rename(x, u) PROVE ResetInv'
  <2>1. /\ UNCHANGED <<created, sess, revoked>>
        /\ task[x].op = "idle"
        /\ task' = [task EXCEPT ![x] = ResetTask("members", u, {}, LiveOf(u))]
    BY <1>6 DEF Rename
  <2>2. \A t \in Task : u \notin task[t].user
    BY <1>6, NoOtherReset DEF Rename
  <2>3. /\ \A t \in Task : t # x => task'[t] = task[t]
        /\ task'[x].op = "members" /\ task'[x].user = {u} /\ task'[x].snap = LiveOf(u)
    BY <2>1 DEF TypeOK, ResetTask
  <2>4. task[x].user = {}
    BY <2>1 DEF ResetInv, TaskInv, ResetOps
  <2>5. \A s \in Sid : /\ Live(s)' = Live(s) /\ sess'[s] = sess[s]
                       /\ Owner[s] = u /\ Covers(index[u], s) => Covers(temp[u], s)'
                       /\ Owner[s] # u => /\ temp'[Owner[s]] = temp[Owner[s]]
                                          /\ index'[Owner[s]] = index[Owner[s]]
    BY <1>6, <2>1 DEF Rename, RenameKey, TypeOK, Live, Covers
  <2>6. \A s \in LiveOf(u) : InHand(x, s)' /\ s \in created /\ s \in Sid /\ Owner[s] = u
    BY <2>2, <2>3, <2>5 DEF ResetInv, LiveIsRecorded, LiveIsCreated, InHand, LiveOf, SessionsOf
  <2>7. \A s \in Sid, t \in Task :
          t # x /\ Owner[s] # u /\ InHand(t, s) => InHand(t, s)'
    BY <2>3, <2>5 DEF InHand, Covers
  <2>8. \A t \in Task : task[t].snap \subseteq Sid
    BY DEF TypeOK, TaskState
  <2>9. LiveIsCreated' /\ RevokedIsDead' /\ OneResetEach'
    <3>1. LiveIsCreated' /\ RevokedIsDead'
      BY <2>1 DEF ResetInv, LiveIsCreated, RevokedIsDead, Live
    <3>2. OneResetEach'
      BY <2>2, <2>3 DEF ResetInv, OneResetEach
    <3> QED BY <3>1, <3>2
  <2>10. TaskInv'
    <3>1. ASSUME NEW t \in Task, t # x, NEW s \in task[t].snap
          PROVE  s \in created /\ Owner[s] \in task[t].user /\ (Live(s)' => InHand(t, s)')
      BY <2>2, <2>5, <2>7, <2>8, <3>1 DEF ResetInv, TaskInv
    <3>2. ASSUME NEW t \in Task, NEW s \in task[t].sid, t # x, task[t].op = "uncache"
          PROVE  s \in created /\ ~Live(s)'
      BY <2>1, <3>2 DEF ResetInv, TaskInv, Live
    <3> QED BY <2>1, <2>3, <2>6, <3>1, <3>2 DEF ResetInv, TaskInv, ResetOps
  <2>11. LiveIsRecorded'
    <3> SUFFICES ASSUME NEW s \in Sid, Live(s)
                 PROVE  \/ Covers(index[Owner[s]], s)'
                        \/ \E t \in Task : Owner[s] \in task'[t].user /\ InHand(t, s)'
      BY <2>5 DEF LiveIsRecorded
    <3>1. CASE Owner[s] = u
      BY <2>3, <2>6, <3>1 DEF LiveOf, SessionsOf
    <3>2. CASE Owner[s] # u
      <4>1. CASE Covers(index[Owner[s]], s)
        BY <2>5, <3>2, <4>1 DEF Covers
      <4>2. ASSUME NEW t \in Task, Owner[s] \in task[t].user, InHand(t, s)
            PROVE  t # x /\ Owner[s] \in task'[t].user /\ InHand(t, s)'
        BY <2>3, <2>4, <2>7, <3>2, <4>2
      <4> QED BY <4>1, <4>2 DEF ResetInv, LiveIsRecorded
    <3> QED BY <3>1, <3>2
  <2> QED BY <2>9, <2>10, <2>11 DEF ResetInv
<1>7. ASSUME NEW x \in Task, NEW u \in User, RenameMissing(x, u) PROVE ResetInv'
  <2>1. LiveOf(u) = {}
    <3>1. \A t \in Task : u \notin task[t].user
      BY <1>7, NoOtherReset DEF RenameMissing
    <3> QED BY <1>7, <3>1 DEF RenameMissing, ResetInv, LiveIsRecorded, LiveOf, SessionsOf, Covers
  <2> QED BY <1>7, <2>1, ResetFrame DEF RenameMissing
<1>8. ASSUME NEW x \in Task, GetReply(x) PROVE ResetInv'
  <2>1. task[x].user = {}
    BY <1>8 DEF GetReply, ResetInv, TaskInv, ResetOps
  <2>2. PICK r : task' = [task EXCEPT ![x] =
                  IF Live(r) THEN SidTask("fill", r, @.waited) ELSE Idle]
    BY <1>8 DEF GetReply
  <2>3. \A t \in Task : t # x => task'[t] = task[t]
    BY <2>2 DEF TypeOK
  <2>4. task'[x].op \in {"idle", "fill"} /\ task'[x].user = {} /\ task'[x].snap = {}
    BY <2>2 DEF TypeOK, SidTask, Idle
  <2> QED BY <1>8, <2>1, <2>3, <2>4, ResetFrame DEF GetReply
<1>9. ASSUME NEW x \in Task, GetFill(x) PROVE ResetInv'
  <2>1. task[x].user = {}
    BY <1>9 DEF GetFill, ResetInv, TaskInv, ResetOps
  <2>2. task' = [task EXCEPT ![x] = Idle]
    BY <1>9 DEF GetFill
  <2>3. \A t \in Task : t # x => task'[t] = task[t]
    BY <2>2 DEF TypeOK
  <2>4. task'[x].op = "idle" /\ task'[x].user = {} /\ task'[x].snap = {}
    BY <2>2 DEF TypeOK, Idle
  <2> QED BY <1>9, <2>1, <2>3, <2>4, ResetFrame DEF GetFill
<1>10. ASSUME NEW x \in Task, GetFail(x) PROVE ResetInv'
  <2>1. task[x].user = {}
    BY <1>10 DEF GetFail, ResetInv, TaskInv, ResetOps
  <2>2. task' = [task EXCEPT ![x] = Idle]
    BY <1>10 DEF GetFail
  <2>3. \A t \in Task : t # x => task'[t] = task[t]
    BY <2>2 DEF TypeOK
  <2>4. task'[x].op = "idle" /\ task'[x].user = {} /\ task'[x].snap = {}
    BY <2>2 DEF TypeOK, Idle
  <2> QED BY <1>10, <2>1, <2>3, <2>4, ResetFrame DEF GetFail
<1>11. ASSUME NEW x \in Task, DestroyEnd(x) PROVE ResetInv'
  <2>1. UNCHANGED <<created, sess, index, temp>> /\ task[x].op = "uncache"
        /\ task' = [task EXCEPT ![x] = Idle] /\ revoked' = revoked \cup task[x].sid
    BY <1>11 DEF DestroyEnd
  <2>2. \A s \in task[x].sid : s \in created /\ ~Live(s)
    BY <2>1 DEF ResetInv, TaskInv
  <2>3. /\ \A t \in Task : t # x => task'[t] = task[t]
        /\ task'[x].op = "idle" /\ task'[x].user = {} /\ task'[x].snap = {}
    BY <2>1 DEF TypeOK, Idle
  <2>4. task[x].user = {}
    BY <2>1 DEF ResetInv, TaskInv, ResetOps
  <2>5. (\A s : Live(s)' = Live(s)) /\
        (\A s : \A t \in Task : t # x => InHand(t, s)' = InHand(t, s))
    BY <2>1, <2>3 DEF Live, InHand, Covers
  <2>6. LiveIsCreated' /\ RevokedIsDead' /\ OneResetEach'
    BY <2>1, <2>2, <2>3, <2>5 DEF ResetInv, LiveIsCreated, RevokedIsDead, OneResetEach
  <2>7. TaskInv'
    BY <2>1, <2>3, <2>5 DEF ResetInv, TaskInv, ResetOps
  <2>8. LiveIsRecorded'
    BY <2>1, <2>3, <2>4, <2>5 DEF ResetInv, LiveIsRecorded, Covers
  <2> QED BY <2>6, <2>7, <2>8 DEF ResetInv
<1>12. ASSUME NEW x \in Task, Members(x) PROVE ResetInv'
  <2>1. PICK u \in task[x].user :
          task' = [task EXCEPT ![x] = ResetTask("deltemp", u, temp[u].ids, @.snap)]
    BY <1>12 DEF Members
  <2>2. u \in User
    BY DEF TypeOK, TaskState
  <2>3. /\ \A t \in Task : t # x => task'[t] = task[t]
        /\ task'[x].op = "deltemp" /\ task'[x].user = {u}
        /\ task'[x].snap = task[x].snap /\ task'[x].ids = temp[u].ids
    BY <2>1 DEF TypeOK, ResetTask
  <2>4. \A s \in Sid : Owner[s] = u /\ InHand(x, s) => InHand(x, s)'
    BY <1>12, <2>3 DEF Members, InHand, Covers
  <2> QED BY <1>12, <2>2, <2>3, <2>4, ResetAdvance DEF Members, ResetOps
<1>13. ASSUME NEW x \in Task, DelTemp(x) PROVE ResetInv'
  <2>1. PICK u \in task[x].user :
          /\ temp' = [temp EXCEPT ![u] = NoKey]
          /\ task' = [task EXCEPT ![x] = ResetTask("delkeys", u, @.ids, @.snap)]
    BY <1>13 DEF DelTemp
  <2>2. u \in User
    BY DEF TypeOK, TaskState
  <2>3. /\ \A t \in Task : t # x => task'[t] = task[t]
        /\ task'[x].op = "delkeys" /\ task'[x].user = {u}
        /\ task'[x].snap = task[x].snap /\ task'[x].ids = task[x].ids
    BY <2>1 DEF TypeOK, ResetTask
  <2>4. \A s \in Sid : Owner[s] = u /\ InHand(x, s) => InHand(x, s)'
    BY <1>13, <2>3 DEF DelTemp, InHand
  <2>5. \A v \in User : v # u => temp'[v] = temp[v]
    BY <2>1 DEF TypeOK
  <2> QED BY <1>13, <2>2, <2>3, <2>4, <2>5, ResetAdvance DEF DelTemp, ResetOps
<1>14. ASSUME NEW x \in Task, DelKeys(x) PROVE ResetInv'
  <2>1. PICK u \in task[x].user :
          task' = [task EXCEPT ![x] = ResetTask("purge", u, @.ids, @.snap)]
    BY <1>14 DEF DelKeys
  <2>2. u \in User
    BY DEF TypeOK, TaskState
  <2>3. /\ \A t \in Task : t # x => task'[t] = task[t]
        /\ task'[x].op = "purge" /\ task'[x].user = {u}
        /\ task'[x].snap = task[x].snap /\ task'[x].ids = task[x].ids
    BY <2>1 DEF TypeOK, ResetTask
  <2>4. \A s \in Sid : InHand(x, s) => ~Live(s)'
    BY <1>14 DEF DelKeys, InHand, Live
  <2>5. \A s \in Sid : sess'[s] = sess[s] \/ sess'[s] = 0
    BY <1>14 DEF DelKeys
  <2> QED BY <1>14, <2>2, <2>3, <2>4, <2>5, ResetAdvance DEF DelKeys, ResetOps
<1>15. ASSUME NEW x \in Task, Purge(x) PROVE ResetInv'
  <2>1. UNCHANGED <<created, sess, index, temp>> /\ task[x].op = "purge"
        /\ task' = [task EXCEPT ![x] = Idle] /\ revoked' = revoked \cup task[x].snap
    BY <1>15 DEF Purge
  <2>2. \A s : ~InHand(x, s)
    BY <2>1 DEF InHand
  <2>3. /\ \A t \in Task : t # x => task'[t] = task[t]
        /\ task'[x].op = "idle" /\ task'[x].user = {} /\ task'[x].snap = {}
    BY <2>1 DEF TypeOK, Idle
  <2>4. (\A s : Live(s)' = Live(s)) /\
        (\A s : \A t \in Task : t # x => InHand(t, s)' = InHand(t, s))
    BY <2>1, <2>3 DEF Live, InHand, Covers
  <2>5. \A s \in task[x].snap : s \in created /\ ~Live(s)
    BY <2>2 DEF ResetInv, TaskInv
  <2>6. LiveIsCreated' /\ RevokedIsDead' /\ OneResetEach'
    BY <2>1, <2>3, <2>4, <2>5 DEF ResetInv, LiveIsCreated, RevokedIsDead, OneResetEach
  <2>7. TaskInv'
    BY <2>1, <2>3, <2>4 DEF ResetInv, TaskInv, ResetOps
  <2>8. LiveIsRecorded'
    BY <2>1, <2>2, <2>3, <2>4 DEF ResetInv, LiveIsRecorded, Covers
  <2> QED BY <2>6, <2>7, <2>8 DEF ResetInv
<1>16. ASSUME NEW x \in Task, StepFail(x) PROVE ResetInv'
  BY <1>0, <1>16 DEF StepFail
<1>17. ASSUME NEW x \in Task, Cancel(x) PROVE ResetInv'
  BY <1>0, <1>17 DEF Cancel
<1>18. ASSUME NEW u \in User, RenameLost(u) PROVE ResetInv'
  BY <1>0, <1>18 DEF RenameLost
<1>19. ASSUME NEW p \in Proc, Restart(p) PROVE ResetInv'
  BY <1>0, <1>19 DEF Restart
<1>20. ASSUME Tick PROVE ResetInv'
  <2>1. \A s \in Sid : Live(s)' => Live(s) /\ sess'[s] = sess[s] - 1
    BY <1>20 DEF Tick, TypeOK, Live, Less
  <2>2. ASSUME NEW s \in Sid, Live(s)'
        PROVE  /\ Covers(index[Owner[s]], s) => Covers(index[Owner[s]], s)'
               /\ Covers(temp[Owner[s]], s) => Covers(temp[Owner[s]], s)'
    <3>1. sess[s] >= 2 /\ sess'[s] = sess[s] - 1
      BY <2>1, <2>2 DEF Live, TypeOK
    <3>2. ASSUME NEW key \in SetKey, s \in key.ids, sess[s] <= key.ttl
          PROVE  s \in Aged(key).ids /\ sess[s] - 1 <= Aged(key).ttl
      BY <3>1, <3>2 DEF Aged, SetKey, TypeOK
    <3>3. /\ index[Owner[s]] \in SetKey /\ temp[Owner[s]] \in SetKey
          /\ index'[Owner[s]] = Aged(index[Owner[s]])
          /\ temp'[Owner[s]] = Aged(temp[Owner[s]])
      BY <1>20 DEF Tick, TypeOK
    <3> QED BY <3>1, <3>2, <3>3 DEF Covers
  <2>3. \A t \in Task : /\ task'[t].op = task[t].op /\ task'[t].sid = task[t].sid
                        /\ task'[t].user = task[t].user /\ task'[t].ids = task[t].ids
                        /\ task'[t].snap = task[t].snap
    BY <1>20 DEF Tick, TypeOK, TaskState
  <2>4. \A s \in Sid, t \in Task : Live(s)' /\ InHand(t, s) => InHand(t, s)'
    BY <2>2, <2>3 DEF InHand
  <2>5. \A t \in Task : task[t].sid \subseteq Sid /\ task[t].snap \subseteq Sid
    BY DEF TypeOK, TaskState
  <2>6. UNCHANGED <<created, revoked>>
    BY <1>20 DEF Tick
  <2>7. LiveIsCreated' /\ RevokedIsDead' /\ OneResetEach'
    BY <2>1, <2>3, <2>6 DEF ResetInv, LiveIsCreated, RevokedIsDead, OneResetEach, TypeOK
  <2>8. TaskInv'
    BY <2>1, <2>3, <2>4, <2>5, <2>6 DEF ResetInv, TaskInv
  <2>9. LiveIsRecorded'
    BY <2>1, <2>2, <2>3, <2>4 DEF ResetInv, LiveIsRecorded
  <2> QED BY <2>7, <2>8, <2>9 DEF ResetInv
<1>21. ASSUME UNCHANGED vars PROVE ResetInv'
  BY <1>21, ResetFrame DEF vars
<1> QED
  BY <1>1, <1>2, <1>3, <1>4, <1>5, <1>6, <1>7, <1>8, <1>9, <1>10, <1>11,
     <1>12, <1>13, <1>14, <1>15, <1>16, <1>17, <1>18, <1>19, <1>20, <1>21
     DEF Next, TaskStep

\* With orderly resets a destroyed session never comes back, and every live
\* session is found by the next reset of its owner.
THEOREM ResetsAreComplete ==
  OrderlyResets /\ Spec => [](IndexComplete /\ DestroyIsFinal)
<1> SUFFICES ASSUME OrderlyResets
             PROVE  Spec => [](IndexComplete /\ DestroyIsFinal)
  OBVIOUS
<1>1. Init => ResetInv
  BY DEF Init, ResetInv, LiveIsCreated, TaskInv, OneResetEach, LiveIsRecorded,
         RevokedIsDead, Live, Idle, ResetOps
<1>2. ResetInv /\ TypeOK => IndexComplete /\ DestroyIsFinal
  BY DEF ResetInv, LiveIsRecorded, RevokedIsDead, IndexComplete, DestroyIsFinal,
         Findable, InHand, Covers, Resets
<1>3. TypeOK /\ ResetInv /\ [Next]_vars => ResetInv'
  BY ResetStep
<1> QED BY <1>1, <1>2, <1>3, TypeCorrect, PTL DEF Spec

-----------------------------------------------------------------------------
(* With one process: a revoked session no get was carrying is not cached,  *)
(* and no get carries it any more.                                         *)
QuietInv ==
  \A s \in revoked \ raced :
    /\ \A p \in Proc : ~CacheHit(p, s)
    /\ \A t \in Task : task[t].op = "fill" => s \notin task[t].sid

OneProcess == \A p, q \in Proc : p = q

\* A fill can only add the session it carries to the cache.
LEMMA FillHits ==
  ASSUME TypeOK, NEW p \in Proc, NEW r \in Sid, CachePut(p, r)
  PROVE  \A q \in Proc, s \in Sid : CacheHit(q, s)' => CacheHit(q, s) \/ s = r
  BY DEF CachePut, CacheHit, TypeOK

\* Removing entries serves no session that was not served before.
LEMMA RemoveHits ==
  ASSUME TypeOK, NEW p \in Proc, NEW S, CacheRemove(p, S)
  PROVE  /\ \A q \in Proc, s \in Sid : CacheHit(q, s)' => CacheHit(q, s)
         /\ \A s \in S : s \in Sid => ~CacheHit(p, s)'
  BY DEF CacheRemove, CacheHit, TypeOK

\* Steps that revoke nothing, start no fill and add no cache entry.
LEMMA QuietFrame ==
  ASSUME TypeOK, QuietInv, UNCHANGED <<revoked, raced>>,
         \A q \in Proc, s \in Sid : CacheHit(q, s)' => CacheHit(q, s),
         \A t \in Task : task'[t].op = "fill" =>
           task[t].op = "fill" /\ task'[t].sid = task[t].sid
  PROVE  QuietInv'
  BY DEF QuietInv, TypeOK

\* Steps that revoke S and empty the caches of S.
LEMMA QuietRevoke ==
  ASSUME TypeOK, QuietInv, NEW S \in SUBSET Sid, NEW x \in Task,
         revoked' = revoked \cup S,
         raced' = raced \cup (S \cap BeingFilled),
         task' = [task EXCEPT ![x] = Idle],
         \A q \in Proc, s \in Sid : CacheHit(q, s)' => CacheHit(q, s) /\ s \notin S
  PROVE  QuietInv'
<1>1. \A t \in Task : task'[t].op = "fill" =>
        task[t].op = "fill" /\ task'[t].sid = task[t].sid
  BY DEF TypeOK, Idle
<1>2. ASSUME NEW s \in revoked' \ raced', NEW t \in Task, task'[t].op = "fill"
      PROVE  s \notin task'[t].sid
  BY <1>1, <1>2 DEF QuietInv, BeingFilled
<1>3. ASSUME NEW s \in revoked' \ raced', NEW q \in Proc
      PROVE  ~CacheHit(q, s)'
  BY <1>3 DEF QuietInv, TypeOK
<1> QED BY <1>2, <1>3 DEF QuietInv

\* Every step preserves QuietInv.
LEMMA QuietStep ==
  OrderlyResets /\ OneProcess /\ TypeOK /\ ResetInv /\ QuietInv /\ [Next]_vars
    => QuietInv'
<1> SUFFICES ASSUME OrderlyResets, OneProcess, TypeOK, ResetInv, QuietInv, [Next]_vars
             PROVE  QuietInv'
  OBVIOUS
<1> USE DEF redisVars, cacheVars, historyVars
<1>0. ~Fail
  BY DEF Fail, OrderlyResets, TypeOK
<1>1. ASSUME UNCHANGED <<cached, fresh, revoked, raced>>,
             \A t \in Task : task'[t].op = "fill" =>
               task[t].op = "fill" /\ task'[t].sid = task[t].sid
      PROVE  QuietInv'
  BY <1>1, QuietFrame DEF CacheHit
<1>2. ASSUME NEW s \in Sid, Create(s) \/ Refresh(s) PROVE QuietInv'
  BY <1>1, <1>2 DEF Create, Refresh
<1>3. ASSUME NEW x \in Task, NEW r \in Sid, GetBegin(x, r) PROVE QuietInv'
  <2>1. \A t \in Task : task'[t].op = "fill" => task'[t] = task[t]
    BY <1>3 DEF GetBegin, TypeOK, SidTask
  <2> QED BY <1>3, <2>1, RemoveHits, QuietFrame DEF GetBegin
<1>4. ASSUME NEW x \in Task, NEW r \in Sid, Destroy(x, r) PROVE QuietInv'
  <2>1. \A t \in Task : task'[t].op = "fill" => task'[t] = task[t]
    BY <1>4 DEF Destroy, TypeOK, SidTask
  <2> QED BY <1>1, <1>4, <2>1 DEF Destroy
<1>5. ASSUME NEW x \in Task, NEW u \in User, Rename(x, u) PROVE QuietInv'
  <2>1. \A t \in Task : task'[t].op = "fill" => task'[t] = task[t]
    BY <1>5 DEF Rename, TypeOK, ResetTask
  <2> QED BY <1>1, <1>5, <2>1 DEF Rename
<1>6. ASSUME NEW x \in Task, NEW u \in User, RenameMissing(x, u) PROVE QuietInv'
  <2>1. \A t \in Task : u \notin task[t].user
    BY <1>6, NoOtherReset DEF RenameMissing
  <2>2. LiveOf(u) = {}
    BY <1>6, <2>1 DEF RenameMissing, ResetInv, LiveIsRecorded, LiveOf, SessionsOf, Covers
  <2>3. revoked' = revoked /\ raced \subseteq raced' /\ UNCHANGED <<task, cached, fresh>>
    BY <1>6, <2>2 DEF RenameMissing
  <2> QED BY <2>3 DEF QuietInv, CacheHit
<1>7. ASSUME NEW x \in Task, GetReply(x) PROVE QuietInv'
  <2>1. PICK r \in task[x].sid : task' = [task EXCEPT ![x] =
                  IF Live(r) THEN SidTask("fill", r, @.waited) ELSE Idle]
    BY <1>7 DEF GetReply
  <2>2. \A t \in Task : t # x => task'[t] = task[t]
    BY <2>1 DEF TypeOK
  <2>3. task'[x].op = "fill" => Live(r) /\ task'[x].sid = {r}
    BY <2>1 DEF TypeOK, SidTask, Idle
  <2>4. Live(r) => r \notin revoked
    BY DEF ResetInv, RevokedIsDead
  <2> QED BY <1>7, <2>2, <2>3, <2>4 DEF GetReply, QuietInv, CacheHit
<1>8. ASSUME NEW x \in Task, GetFill(x) PROVE QuietInv'
  <2>1. PICK r \in task[x].sid : CachePut(At[x], r)
    BY <1>8 DEF GetFill
  <2>2. r \in Sid /\ r \notin revoked \ raced
    BY <1>8 DEF GetFill, QuietInv, TypeOK, TaskState
  <2>3. \A t \in Task : task'[t].op = "fill" => task'[t] = task[t]
    BY <1>8 DEF GetFill, TypeOK, Idle
  <2>4. \A q \in Proc, s \in revoked \ raced : CacheHit(q, s)' => CacheHit(q, s)
    BY <2>1, <2>2, FillHits DEF TypeOK
  <2> QED BY <1>8, <2>3, <2>4 DEF GetFill, QuietInv
<1>9. ASSUME NEW x \in Task, GetFail(x) PROVE QuietInv'
  <2>1. \A t \in Task : task'[t].op = "fill" => task'[t] = task[t]
    BY <1>9 DEF GetFail, TypeOK, Idle
  <2> QED BY <1>1, <1>9, <2>1 DEF GetFail
<1>10. ASSUME NEW x \in Task, DestroyEnd(x) PROVE QuietInv'
  <2>1. task[x].sid \in SUBSET Sid
    BY DEF TypeOK, TaskState
  <2>2. \A q \in Proc, s \in Sid : CacheHit(q, s)' => CacheHit(q, s) /\ s \notin task[x].sid
    BY <1>10, RemoveHits DEF DestroyEnd, OneProcess
  <2> QED BY <1>10, <2>1, <2>2, QuietRevoke DEF DestroyEnd
<1>11. ASSUME NEW x \in Task, Members(x) \/ DelTemp(x) \/ DelKeys(x) PROVE QuietInv'
  <2>1. PICK o, u, I, S : /\ o \in ResetOps
                           /\ task' = [task EXCEPT ![x] = ResetTask(o, u, I, S)]
    BY <1>11 DEF Members, DelTemp, DelKeys, ResetOps
  <2>2. \A t \in Task : task'[t].op = "fill" => task'[t] = task[t]
    BY <2>1 DEF TypeOK, ResetTask, ResetOps
  <2> QED BY <1>1, <1>11, <2>2 DEF Members, DelTemp, DelKeys
<1>12. ASSUME NEW x \in Task, Purge(x) PROVE QuietInv'
  <2>1. task[x].snap \in SUBSET Sid
    BY DEF TypeOK, TaskState
  <2>2. PICK u \in task[x].user : CacheRemove(At[x], SessionsOf(u))
    BY <1>12 DEF Purge
  <2>3. task[x].snap \subseteq SessionsOf(u)
    BY <2>1 DEF ResetInv, TaskInv, SessionsOf
  <2>4. \A q \in Proc, s \in Sid : CacheHit(q, s)' => CacheHit(q, s) /\ s \notin task[x].snap
    BY <2>2, <2>3, RemoveHits DEF OneProcess
  <2> QED BY <1>12, <2>1, <2>4, QuietRevoke DEF Purge
<1>13. ASSUME NEW x \in Task, StepFail(x) \/ Cancel(x) PROVE QuietInv'
  BY <1>0, <1>13 DEF StepFail, Cancel
<1>14. ASSUME NEW u \in User, RenameLost(u) PROVE QuietInv'
  BY <1>0, <1>14 DEF RenameLost
<1>15. ASSUME NEW p \in Proc, Restart(p) PROVE QuietInv'
  BY <1>0, <1>15 DEF Restart
<1>16. ASSUME NEW s \in Sid, DestroyLost(s) PROVE QuietInv'
  BY <1>0, <1>16 DEF DestroyLost
<1>17. ASSUME Tick PROVE QuietInv'
  <2>1. \A q \in Proc, s \in Sid : CacheHit(q, s)' => CacheHit(q, s)
    BY <1>17 DEF Tick, CacheHit, Less, TypeOK
  <2>2. \A t \in Task : task'[t].op = task[t].op /\ task'[t].sid = task[t].sid
    BY <1>17 DEF Tick, TypeOK, TaskState
  <2> QED BY <1>17, <2>1, <2>2, QuietFrame DEF Tick
<1>18. ASSUME UNCHANGED vars PROVE QuietInv'
  BY <1>1, <1>18 DEF vars
<1> QED
  BY <1>2, <1>3, <1>4, <1>5, <1>6, <1>7, <1>8, <1>9, <1>10, <1>11, <1>12,
     <1>13, <1>14, <1>15, <1>16, <1>17, <1>18 DEF Next, TaskStep

\* One API process, orderly resets: a session whose destruction was reported is
\* not served again unless a session_get was carrying it at that moment.
THEOREM DestroyedSessionsAreNotServed ==
  OrderlyResets /\ OneProcess /\ Spec => []OnlyRacedFillsSurvive
<1> SUFFICES ASSUME OrderlyResets, OneProcess PROVE Spec => []OnlyRacedFillsSurvive
  OBVIOUS
<1>1. Init => ResetInv /\ QuietInv
  BY DEF Init, ResetInv, LiveIsCreated, TaskInv, OneResetEach, LiveIsRecorded,
         RevokedIsDead, Live, Idle, ResetOps, QuietInv
<1>2. QuietInv => OnlyRacedFillsSurvive
  BY DEF QuietInv, OnlyRacedFillsSurvive
<1>3. TypeOK /\ ResetInv /\ QuietInv /\ [Next]_vars => (ResetInv /\ QuietInv)'
  BY ResetStep, QuietStep
<1> QED BY <1>1, <1>2, <1>3, TypeCorrect, PTL DEF Spec

\* session_cache_put never lets a SESSION_CACHE grow past its cap.
THEOREM CacheStaysBounded == Spec => []CacheBounded
<1>1. Init => CacheBounded
  BY FS_EmptySet DEF Init, CacheBounded
<1>2. TypeOK /\ CacheBounded /\ [Next]_vars => CacheBounded'
  <2> SUFFICES ASSUME TypeOK, CacheBounded, [Next]_vars, NEW p \in Proc
               PROVE  Cardinality(cached'[p]) <= MaxCached
    BY DEF CacheBounded
  <2> USE DEF redisVars, cacheVars, historyVars
  <2>1. IsFiniteSet(cached[p]) /\ Cardinality(cached[p]) \in Nat
    BY FS_Subset, FS_CardinalityType DEF TypeOK
  <2>2. CASE cached'[p] \subseteq cached[p]
    BY <2>1, <2>2, FS_Subset, FS_CardinalityType DEF CacheBounded
  <2>3. ASSUME NEW x \in Task, NEW r, CachePut(At[x], r), ~(cached'[p] \subseteq cached[p])
        PROVE  Cardinality(cached'[p]) <= MaxCached
    <3>1. CASE Cardinality(cached[p]) >= MaxCached
      <4>1. CASE At[x] = p
        <5>1. cached'[p] = {r}
          BY <2>3, <3>1, <4>1 DEF CachePut, TypeOK
        <5> QED BY <5>1, FS_Singleton
      <4>2. CASE At[x] # p
        BY <2>3, <4>2 DEF CachePut, TypeOK
      <4> QED BY <4>1, <4>2
    <3>2. CASE ~(Cardinality(cached[p]) >= MaxCached)
      <4>1. cached'[p] = cached[p] \cup {r}
        BY <2>3, <3>2 DEF CachePut, TypeOK
      <4>2. \/ Cardinality(cached[p] \cup {r}) = Cardinality(cached[p])
            \/ Cardinality(cached[p] \cup {r}) = Cardinality(cached[p]) + 1
        BY <2>1, FS_AddElement
      <4> QED BY <2>1, <3>2, <4>1, <4>2
    <3> QED BY <3>1, <3>2
  <2>4. ASSUME NEW q \in Proc, NEW S, CacheRemove(q, S) PROVE cached'[p] \subseteq cached[p]
    BY <2>4 DEF CacheRemove, TypeOK
  <2>5. \/ cached'[p] \subseteq cached[p]
        \/ \E x \in Task, r \in Sid : CachePut(At[x], r)
    <3>1. ASSUME NEW x \in Task, GetFill(x) PROVE \E r \in Sid : CachePut(At[x], r)
      BY <3>1 DEF GetFill, TypeOK, TaskState
    <3>2. ASSUME NEW x \in Task, NEW r \in Sid, GetBegin(x, r)
          PROVE  cached'[p] \subseteq cached[p]
      BY <2>4, <3>2 DEF GetBegin
    <3>3. ASSUME NEW x \in Task, DestroyEnd(x) \/ Purge(x)
          PROVE  cached'[p] \subseteq cached[p]
      BY <2>4, <3>3 DEF DestroyEnd, Purge
    <3>4. ASSUME NEW q \in Proc, Restart(q) PROVE cached'[p] \subseteq cached[p]
      BY <2>4, <3>4 DEF Restart
    <3> QED
      BY <3>1, <3>2, <3>3, <3>4 DEF Next, TaskStep, vars, Create, Refresh, DestroyLost,
         Destroy, Rename, RenameMissing, GetReply, GetFail, Members, DelTemp,
         DelKeys, StepFail, Cancel, RenameLost, Tick
  <2> QED BY <2>2, <2>3, <2>5
<1> QED BY <1>1, <1>2, TypeCorrect, PTL DEF Spec
-----------------------------------------------------------------------------
(***************************************************************************)
(* SessionStore implements SessionService under OrderlyResets: each step   *)
(* of the store shows as a step of the service or as none.  That a         *)
(* reported session is gone rests on ResetInv above.                       *)
(***************************************************************************)

\* A get holds the one session it was called for.
ReadInv ==
  \A t \in Task : task[t].op \in {"get", "fill"} =>
    \E s \in Sid : task[t].sid = {s}

ServiceStep == [Service!Next]_(Service!vars)

\* Nothing the service knows of has changed.
LEMMA Stutter ==
  ASSUME UNCHANGED <<created, liveNow, askedNow, revoked, readNow, servedNow>>
  PROVE  ServiceStep
BY DEF ServiceStep, Service!vars

\* Sessions, readers and memories have only gone away.
LEMMA LapseStep ==
  ASSUME UNCHANGED <<created, askedNow, revoked>>, liveNow' \subseteq liveNow,
         readNow' \subseteq readNow, servedNow' \subseteq servedNow
  PROVE  ServiceStep
<1>1. askedNow' = [t \in Task |-> IF t \in {} THEN {} ELSE askedNow[t]]
  BY DEF askedNow
<1>2. Service!Lapse
  BY <1>1 DEF Service!Lapse
<1> QED BY <1>2 DEF ServiceStep, Service!Next

\* A task that is not resetting has been asked nothing.
LEMMA NothingAsked ==
  ASSUME TypeOK, ResetInv, NEW t \in Task, task[t].op \notin ResetOps
  PROVE  task[t].snap = {} /\ (task[t].op # "uncache" => Asked(t) = {})
BY DEF ResetInv, TaskInv, Asked

\* What the service sees of a step that changes one task.
LEMMA AskedElsewhere ==
  ASSUME TypeOK, NEW t \in Task, NEW k, task' = [task EXCEPT ![t] = k]
  PROVE  askedNow' = [askedNow EXCEPT ![t] = Asked(t)']
BY DEF askedNow, Asked, TypeOK

LEMMA SameRedis ==
  ASSUME UNCHANGED sess
  PROVE  liveNow' = liveNow
BY DEF liveNow, Live

LEMMA SameCache ==
  ASSUME UNCHANGED cacheVars
  PROVE  servedNow' = servedNow
BY DEF servedNow, CacheHit, cacheVars

\* Readers other than task t are as they were.
LEMMA ReadElsewhere ==
  ASSUME TypeOK, NEW t \in Task, NEW k, task' = [task EXCEPT ![t] = k],
         task[t].op # "fill", k.op # "fill"
  PROVE  readNow' = readNow
<1>1. \A x \in Task : \A p, s : Filling(x, p, s)' = Filling(x, p, s)
  BY DEF Filling, TypeOK
<1> QED BY <1>1 DEF readNow

\* A cache that loses entries serves no more than before.
LEMMA ServedShrinks ==
  ASSUME TypeOK, NEW p \in Proc, NEW S \in SUBSET Sid, CacheRemove(p, S)
  PROVE  servedNow' \subseteq servedNow \ ({p} \X S)
<1>1. \A q \in Proc, s \in Sid : CacheHit(q, s)' => CacheHit(q, s)
  BY RemoveHits
<1>2. \A s \in S : ~CacheHit(p, s)'
  BY RemoveHits
<1> QED BY <1>1, <1>2 DEF servedNow
-----------------------------------------------------------------------------
(* One lemma for each action.                                              *)

LEMMA CreateOpens ==
  ASSUME TypeOK, NEW s \in Sid, Create(s)
  PROVE  ServiceStep
<1>1. liveNow' = liveNow \cup {s}
  BY ConstantAssumption DEF Create, liveNow, Live, TypeOK
<1>2. UNCHANGED <<revoked, task, cached, fresh>>
  BY DEF Create, historyVars
<1>3. UNCHANGED <<askedNow, readNow, servedNow>>
  BY <1>2 DEF askedNow, Asked, readNow, Filling, servedNow, CacheHit
<1>4. Service!Open(s)
  BY <1>1, <1>2, <1>3 DEF Service!Open, Create
<1> QED BY <1>4 DEF ServiceStep, Service!Next

\* A miss drops a stale entry, which was not served.
LEMMA GetBeginStutters ==
  ASSUME TypeOK, ResetInv, NEW t \in Task, NEW s \in Sid, GetBegin(t, s)
  PROVE  ServiceStep
<1>1. /\ task[t].op = "idle" /\ ~CacheHit(At[t], s) /\ CacheRemove(At[t], {s})
      /\ task' = [task EXCEPT ![t] = SidTask("get", s, 0)]
      /\ UNCHANGED <<created, sess, revoked>>
  BY DEF GetBegin, redisVars, historyVars
<1>2. UNCHANGED servedNow
  <2>1. \A q \in Proc, r \in Sid : CacheHit(q, r)' = CacheHit(q, r)
    BY <1>1, ConstantAssumption DEF CacheRemove, CacheHit, TypeOK
  <2> QED BY <2>1 DEF servedNow
<1>3. UNCHANGED readNow
  <2>1. SidTask("get", s, 0).op # "fill"
    BY DEF SidTask
  <2> QED BY <1>1, <2>1, ReadElsewhere
<1>4. UNCHANGED askedNow
  <2>1. Asked(t) = {}
    BY <1>1, NothingAsked DEF ResetOps
  <2>2. Asked(t)' = {}
    BY <1>1 DEF Asked, SidTask, TypeOK
  <2> QED BY <1>1, <2>1, <2>2, AskedElsewhere DEF askedNow
<1> QED BY <1>1, <1>2, <1>3, <1>4, SameRedis, Stutter

\* GET reads a live session, or finds none.
LEMMA GetReplyReads ==
  ASSUME TypeOK, ResetInv, NEW t \in Task, GetReply(t)
  PROVE  ServiceStep
<1>1. PICK s \in task[t].sid :
        task' = [task EXCEPT ![t] = IF Live(s)
                                    THEN SidTask("fill", s, task[t].waited)
                                    ELSE Idle]
  BY DEF GetReply, TypeOK
<1>2. /\ task[t].op = "get"
      /\ UNCHANGED <<created, sess, revoked, cached, fresh>>
  BY DEF GetReply, redisVars, historyVars, cacheVars
<1>3. s \in Sid /\ At[t] \in Proc
  BY ConstantAssumption DEF TypeOK, TaskState
<1>4. UNCHANGED <<liveNow, servedNow>>
  BY <1>2, SameRedis, SameCache DEF cacheVars
<1>5. UNCHANGED askedNow
  <2>1. Asked(t) = {}
    BY <1>2, NothingAsked DEF ResetOps
  <2>2. Asked(t)' = {}
    BY <1>1 DEF Asked, SidTask, Idle, TypeOK
  <2> QED BY <1>1, <2>1, <2>2, AskedElsewhere DEF askedNow
<1>6. CASE Live(s)
  <2>1. task' = [task EXCEPT ![t] = SidTask("fill", s, task[t].waited)]
    BY <1>1, <1>6
  <2>2. \A x \in Task : \A p, r :
          Filling(x, p, r)' <=> Filling(x, p, r) \/ (x = t /\ p = At[t] /\ r = s)
    BY <1>2, <2>1 DEF Filling, SidTask, TypeOK
  <2>3. readNow' = readNow \cup {<<At[t], s>>}
    BY <1>3, <2>2 DEF readNow
  <2>4. s \in liveNow
    BY <1>3, <1>6 DEF liveNow
  <2>5. Service!Read(At[t], s)
    BY <1>2, <1>4, <1>5, <2>3, <2>4 DEF Service!Read
  <2> QED BY <1>3, <2>5 DEF ServiceStep, Service!Next
<1>7. CASE ~Live(s)
  <2>1. task' = [task EXCEPT ![t] = Idle]
    BY <1>1, <1>7
  <2>2. UNCHANGED readNow
    <3>1. Idle.op # "fill"
      BY DEF Idle
    <3> QED BY <1>2, <2>1, <3>1, ReadElsewhere
  <2> QED BY <1>2, <1>4, <1>5, <2>2, Stutter
<1> QED BY <1>6, <1>7

\* A reader that ends leaves at most its own entry out.
LEMMA ReaderEnds ==
  ASSUME TypeOK, NEW t \in Task, NEW s \in Sid, task[t].op = "fill",
         task[t].sid = {s}, task' = [task EXCEPT ![t] = Idle]
  PROVE  readNow' \in {readNow, readNow \ {<<At[t], s>>}}
<1>1. \A x \in Task : \A p, r :
        Filling(x, p, r)' <=> Filling(x, p, r) /\ x # t
  BY DEF Filling, Idle, TypeOK
<1>2. \A p, r : Filling(t, p, r) <=> p = At[t] /\ r = s
  BY DEF Filling
<1>3. CASE \E x \in Task : x # t /\ Filling(x, At[t], s)
  <2>1. \A q \in Proc \X Sid :
          (\E x \in Task : Filling(x, q[1], q[2])')
            <=> (\E x \in Task : Filling(x, q[1], q[2]))
    BY <1>1, <1>2, <1>3
  <2>2. readNow' = readNow
    BY <2>1 DEF readNow
  <2> QED BY <2>2
<1>4. CASE ~ \E x \in Task : x # t /\ Filling(x, At[t], s)
  <2>1. \A q \in Proc \X Sid :
          (\E x \in Task : Filling(x, q[1], q[2])')
            <=> (q # <<At[t], s>> /\ \E x \in Task : Filling(x, q[1], q[2]))
    BY <1>1, <1>2, <1>4
  <2>2. readNow' = readNow \ {<<At[t], s>>}
    BY <2>1 DEF readNow
  <2> QED BY <2>2
<1> QED BY <1>3, <1>4

\* A get holds one session.
LEMMA OneSession ==
  ASSUME ReadInv, NEW t \in Task, task[t].op \in {"get", "fill"}
  PROVE  \E s \in Sid : task[t].sid = {s}
BY DEF ReadInv

LEMMA GetFillRemembers ==
  ASSUME TypeOK, ResetInv, ReadInv, NEW t \in Task, GetFill(t)
  PROVE  ServiceStep
<1>1. /\ task[t].op = "fill" /\ task' = [task EXCEPT ![t] = Idle]
      /\ UNCHANGED <<created, sess, revoked>>
  BY DEF GetFill, redisVars, historyVars
<1>2. PICK s \in Sid : task[t].sid = {s}
  BY <1>1, OneSession
<1>3. CachePut(At[t], s) /\ At[t] \in Proc
  BY <1>2, ConstantAssumption DEF GetFill
<1>4. servedNow' \subseteq servedNow \cup {<<At[t], s>>}
  <2>1. \A q \in Proc, r \in Sid :
          CacheHit(q, r)' => CacheHit(q, r) \/ <<q, r>> = <<At[t], s>>
    BY <1>3 DEF CachePut, CacheHit, TypeOK
  <2> QED BY <2>1 DEF servedNow
<1>5. readNow' \in {readNow, readNow \ {<<At[t], s>>}}
  BY <1>1, <1>2, ReaderEnds
<1>6. <<At[t], s>> \in readNow
  BY <1>1, <1>2, <1>3 DEF readNow, Filling
<1>7. UNCHANGED askedNow
  <2>1. Asked(t) = {}
    BY <1>1, NothingAsked DEF ResetOps
  <2>2. Asked(t)' = {}
    BY <1>1 DEF Asked, Idle, TypeOK
  <2> QED BY <1>1, <2>1, <2>2, AskedElsewhere DEF askedNow
<1>8. Service!Remember(At[t], s)
  BY <1>1, <1>4, <1>5, <1>6, <1>7, SameRedis DEF Service!Remember
<1> QED BY <1>3, <1>8 DEF ServiceStep, Service!Next

LEMMA GetFailLapses ==
  ASSUME TypeOK, ResetInv, NEW t \in Task, GetFail(t)
  PROVE  ServiceStep
<1>1. /\ task[t].op \in {"get", "fill"} /\ task' = [task EXCEPT ![t] = Idle]
      /\ UNCHANGED <<created, sess, revoked, cacheVars>>
  BY DEF GetFail, redisVars, historyVars
<1>2. UNCHANGED <<liveNow, servedNow>>
  BY <1>1, SameRedis, SameCache
<1>3. readNow' \subseteq readNow
  BY <1>1 DEF readNow, Filling, Idle, TypeOK
<1>4. UNCHANGED askedNow
  <2>1. Asked(t) = {}
    BY <1>1, NothingAsked DEF ResetOps
  <2>2. Asked(t)' = {}
    BY <1>1 DEF Asked, Idle, TypeOK
  <2> QED BY <1>1, <2>1, <2>2, AskedElsewhere DEF askedNow
<1> QED BY <1>1, <1>2, <1>3, <1>4, LapseStep

\* session_destroy's script ran: the task is asked to end its session.
LEMMA DestroyAsks ==
  ASSUME TypeOK, ResetInv, NEW t \in Task, NEW s \in Sid, Destroy(t, s)
  PROVE  ServiceStep
<1>1. /\ task[t].op = "idle" /\ s \in created
      /\ task' = [task EXCEPT ![t] = SidTask("uncache", s, 0)]
      /\ sess' = [sess EXCEPT ![s] = 0]
      /\ UNCHANGED <<created, revoked, cacheVars>>
  BY DEF Destroy, DestroyScript, historyVars
<1>2. liveNow' \subseteq liveNow
  BY <1>1 DEF liveNow, Live, TypeOK
<1>3. UNCHANGED readNow
  <2>1. SidTask("uncache", s, 0).op # "fill"
    BY DEF SidTask
  <2> QED BY <1>1, <2>1, ReadElsewhere
<1>4. askedNow' = [askedNow EXCEPT ![t] = {s}]
  <2>1. Asked(t)' = {s}
    BY <1>1 DEF Asked, SidTask, TypeOK
  <2> QED BY <1>1, <2>1, AskedElsewhere
<1>5. Service!Ask(t, {s})
  BY <1>1, <1>2, <1>3, <1>4, SameCache DEF Service!Ask
<1> QED BY <1>1, <1>5 DEF ServiceStep, Service!Next

\* session_destroy returns: its session is dead and uncached.
LEMMA DestroyEndReports ==
  ASSUME TypeOK, ResetInv, NEW t \in Task, DestroyEnd(t)
  PROVE  ServiceStep
<1>1. /\ task[t].op = "uncache" /\ task' = [task EXCEPT ![t] = Idle]
      /\ CacheRemove(At[t], task[t].sid)
      /\ revoked' = revoked \cup task[t].sid
      /\ UNCHANGED <<created, sess>>
  BY DEF DestroyEnd, redisVars
<1>2. askedNow[t] = task[t].sid /\ task[t].sid \in SUBSET Sid
      /\ At[t] \in Proc
  BY <1>1, ConstantAssumption DEF askedNow, Asked, TypeOK, TaskState
<1>3. askedNow[t] \cap liveNow = {}
  BY <1>1, <1>2 DEF ResetInv, TaskInv, liveNow
<1>4. servedNow' \subseteq servedNow \ ({At[t]} \X askedNow[t])
  BY <1>1, <1>2, ServedShrinks
<1>5. UNCHANGED readNow
  <2>1. Idle.op # "fill"
    BY DEF Idle
  <2> QED BY <1>1, <2>1, ReadElsewhere
<1>6. askedNow' = [askedNow EXCEPT ![t] = {}]
  <2>1. Asked(t)' = {}
    BY <1>1 DEF Asked, Idle, TypeOK
  <2> QED BY <1>1, <2>1, AskedElsewhere
<1>7. Service!Report(t)
  BY <1>1, <1>2, <1>3, <1>4, <1>5, <1>6, SameRedis DEF Service!Report
<1> QED BY <1>7 DEF ServiceStep, Service!Next

\* RENAME: the reset is asked to end the sessions its user has now.
LEMMA RenameAsks ==
  ASSUME TypeOK, NEW t \in Task, NEW u \in User, Rename(t, u)
  PROVE  ServiceStep
<1>1. /\ task[t].op = "idle"
      /\ task' = [task EXCEPT ![t] = ResetTask("members", u, {}, LiveOf(u))]
      /\ UNCHANGED <<created, sess, revoked, cacheVars>>
  BY DEF Rename, historyVars
<1>2. UNCHANGED readNow
  <2>1. ResetTask("members", u, {}, LiveOf(u)).op # "fill"
    BY DEF ResetTask
  <2> QED BY <1>1, <2>1, ReadElsewhere
<1>3. LiveOf(u) = {s \in liveNow : Owner[s] = u}
  BY DEF LiveOf, SessionsOf, liveNow
<1>4. askedNow' = [askedNow EXCEPT ![t] = {s \in liveNow : Owner[s] = u}]
  <2>1. Asked(t)' = LiveOf(u)
    BY <1>1 DEF Asked, ResetTask, TypeOK
  <2> QED BY <1>1, <1>3, <2>1, AskedElsewhere
<1>5. liveNow' = liveNow /\ servedNow' = servedNow
  BY <1>1, SameRedis, SameCache
<1>6. Service!AskForUser(t, u)
  BY <1>1, <1>2, <1>4, <1>5 DEF Service!AskForUser, Service!Ask
<1> QED BY <1>6 DEF ServiceStep, Service!Next

\* Without an index and without another reset the user has no live session,
\* so the early return reports nothing.
LEMMA RenameMissingStutters ==
  ASSUME OrderlyResets, TypeOK, ResetInv, NEW t \in Task, NEW u \in User,
         RenameMissing(t, u)
  PROVE  ServiceStep
<1>1. \A x \in Task : u \notin task[x].user
  BY NoOtherReset DEF RenameMissing
<1>2. LiveOf(u) = {}
  BY <1>1 DEF RenameMissing, LiveOf, SessionsOf, ResetInv, LiveIsRecorded,
              Covers
<1>3. UNCHANGED <<created, sess, revoked, cached, fresh, task>>
  BY <1>2 DEF RenameMissing, redisVars, cacheVars
<1> QED BY <1>3, Stutter
           DEF liveNow, Live, askedNow, Asked, readNow, Filling, servedNow,
               CacheHit

\* SMEMBERS and the two DELs are the reset's own business; sessions die.
LEMMA ResetStepLapses ==
  ASSUME TypeOK, ResetInv, NEW t \in Task,
         Members(t) \/ DelTemp(t) \/ DelKeys(t)
  PROVE  ServiceStep
<1>1. /\ task[t].op \in {"members", "deltemp", "delkeys"}
      /\ UNCHANGED <<created, revoked, cacheVars>>
  BY DEF Members, DelTemp, DelKeys, redisVars, historyVars
<1>2. PICK o \in {"deltemp", "delkeys", "purge"} : \E u, I :
        task' = [task EXCEPT ![t] = ResetTask(o, u, I, task[t].snap)]
  BY DEF Members, DelTemp, DelKeys, TypeOK
<1>3. PICK u, I : task' = [task EXCEPT ![t] = ResetTask(o, u, I, task[t].snap)]
  BY <1>2
<1>4. liveNow' \subseteq liveNow
  BY DEF liveNow, Live, Members, DelTemp, DelKeys, redisVars, TypeOK
<1>5. UNCHANGED readNow
  <2>1. ResetTask(o, u, I, task[t].snap).op # "fill"
    BY DEF ResetTask
  <2> QED BY <1>1, <1>3, <2>1, ReadElsewhere
<1>6. UNCHANGED askedNow
  <2>1. Asked(t) = task[t].snap
    BY <1>1 DEF Asked
  <2>2. Asked(t)' = task[t].snap
    BY <1>3 DEF Asked, ResetTask, TypeOK
  <2> QED BY <1>3, <2>1, <2>2, AskedElsewhere DEF askedNow
<1> QED BY <1>1, <1>4, <1>5, <1>6, SameCache, LapseStep

\* The reset returns: what it found live is dead and uncached.
LEMMA PurgeReports ==
  ASSUME TypeOK, ResetInv, NEW t \in Task, Purge(t)
  PROVE  ServiceStep
<1>1. /\ task[t].op = "purge" /\ task' = [task EXCEPT ![t] = Idle]
      /\ revoked' = revoked \cup task[t].snap
      /\ UNCHANGED <<created, sess>>
  BY DEF Purge, redisVars
<1>2. PICK u \in task[t].user : CacheRemove(At[t], SessionsOf(u))
  BY DEF Purge
<1>3. askedNow[t] = task[t].snap /\ task[t].snap \subseteq SessionsOf(u)
  BY <1>1 DEF askedNow, Asked, ResetInv, TaskInv, SessionsOf, TypeOK, TaskState
<1>4. askedNow[t] \cap liveNow = {}
  BY <1>1, <1>3 DEF ResetInv, TaskInv, InHand, liveNow
<1>5. servedNow' \subseteq servedNow \ ({At[t]} \X askedNow[t])
  <2>1. At[t] \in Proc /\ SessionsOf(u) \in SUBSET Sid
    BY ConstantAssumption DEF SessionsOf
  <2>2. servedNow' \subseteq servedNow \ ({At[t]} \X SessionsOf(u))
    BY <1>2, <2>1, ServedShrinks
  <2> QED BY <1>3, <2>2
<1>6. UNCHANGED readNow
  <2>1. Idle.op # "fill"
    BY DEF Idle
  <2> QED BY <1>1, <2>1, ReadElsewhere
<1>7. askedNow' = [askedNow EXCEPT ![t] = {}]
  <2>1. Asked(t)' = {}
    BY <1>1 DEF Asked, Idle, TypeOK
  <2> QED BY <1>1, <2>1, AskedElsewhere
<1>8. Service!Report(t)
  BY <1>1, <1>3, <1>4, <1>5, <1>6, <1>7, SameRedis DEF Service!Report
<1> QED BY <1>8 DEF ServiceStep, Service!Next

\* Time passes: sessions and cache entries expire.
LEMMA TickLapses ==
  ASSUME TypeOK, Tick
  PROVE  ServiceStep
<1>1. UNCHANGED <<created, cached, revoked>>
  BY DEF Tick
<1>2. liveNow' \subseteq liveNow
  BY DEF Tick, liveNow, Live, Less, TypeOK
<1>3. servedNow' \subseteq servedNow
  BY <1>1 DEF Tick, servedNow, CacheHit, Less, TypeOK
<1>4. \A t \in Task : /\ task'[t].op = task[t].op
                      /\ task'[t].sid = task[t].sid
                      /\ task'[t].snap = task[t].snap
  BY DEF Tick, TypeOK, TaskState
<1>5. UNCHANGED <<askedNow, readNow>>
  BY <1>4 DEF askedNow, Asked, readNow, Filling
<1> QED BY <1>1, <1>2, <1>3, <1>5, LapseStep
-----------------------------------------------------------------------------
\* Without failures and refreshes the actions for them are not taken.
LEMMA NoFaults ==
  ASSUME OrderlyResets, TypeOK
  PROVE  /\ ~Fail
         /\ \A s \in Sid : ~Refresh(s) /\ ~DestroyLost(s)
         /\ \A t \in Task : ~StepFail(t) /\ ~Cancel(t)
         /\ \A u \in User : ~RenameLost(u)
         /\ \A p \in Proc : ~Restart(p)
<1>1. ~Fail
  BY DEF OrderlyResets, TypeOK, Fail
<1>2. \A s \in Sid : ~Refresh(s)
  BY Zenon DEF OrderlyResets, Refresh
<1> QED BY <1>1, <1>2 DEF DestroyLost, StepFail, Cancel, RenameLost, Restart

LEMMA ReadInvStep == TypeOK /\ ReadInv /\ [Next]_vars => ReadInv'
<1> SUFFICES ASSUME TypeOK, ReadInv, [Next]_vars PROVE ReadInv'
  OBVIOUS
<1>1. ASSUME NEW t \in Task, NEW k, task' = [task EXCEPT ![t] = k],
             k.op \in {"get", "fill"} => \E s \in Sid : k.sid = {s}
      PROVE  ReadInv'
  BY <1>1 DEF ReadInv, TypeOK
<1>2. ASSUME UNCHANGED task PROVE ReadInv'
  BY <1>2 DEF ReadInv
<1>3. Idle.op \notin {"get", "fill"}
  BY DEF Idle
<1>4. \A o \in Ops, s \in Sid : \A w : SidTask(o, s, w).sid = {s}
  BY DEF SidTask
<1>5. \A o, u, I, S : ResetTask(o, u, I, S).op = o
  BY DEF ResetTask
<1>6. ASSUME NEW t \in Task, NEW s \in Sid, GetBegin(t, s) \/ Destroy(t, s)
      PROVE  ReadInv'
  BY <1>1, <1>4, <1>6 DEF GetBegin, Destroy, Ops
<1>7. ASSUME NEW t \in Task, GetReply(t) PROVE ReadInv'
  <2>1. PICK s \in task[t].sid :
          task' = [task EXCEPT ![t] = IF Live(s)
                                      THEN SidTask("fill", s, task[t].waited)
                                      ELSE Idle]
    BY <1>7 DEF GetReply, TypeOK
  <2>2. s \in Sid
    BY DEF TypeOK, TaskState
  <2>3. CASE Live(s)
    <3>1. task' = [task EXCEPT ![t] = SidTask("fill", s, task[t].waited)]
      BY <2>1, <2>3
    <3>2. SidTask("fill", s, task[t].waited).sid = {s}
      BY <1>4, <2>2 DEF Ops
    <3> QED BY <1>1, <2>2, <3>1, <3>2
  <2>4. CASE ~Live(s)
    <3>1. task' = [task EXCEPT ![t] = Idle]
      BY <2>1, <2>4
    <3> QED BY <1>1, <1>3, <3>1
  <2> QED BY <2>3, <2>4
<1>8. ASSUME NEW t \in Task,
             GetFill(t) \/ GetFail(t) \/ DestroyEnd(t) \/ Purge(t) \/ Cancel(t)
      PROVE  ReadInv'
  BY <1>1, <1>3, <1>8 DEF GetFill, GetFail, DestroyEnd, Purge, Cancel
<1>9. ASSUME NEW t \in Task, NEW u \in User, Rename(t, u) PROVE ReadInv'
  BY <1>1, <1>5, <1>9 DEF Rename
<1>10. ASSUME NEW t \in Task,
              Members(t) \/ DelTemp(t) \/ DelKeys(t) \/ StepFail(t)
       PROVE  ReadInv'
  <2>1. PICK o \in {"deltemp", "delkeys", "purge"} : \E u, I, S :
          task' = [task EXCEPT ![t] = ResetTask(o, u, I, S)]
    BY <1>10 DEF Members, DelTemp, DelKeys, StepFail, NextOp
  <2> QED BY <1>1, <1>5, <2>1
<1>11. ASSUME NEW p \in Proc, Restart(p) PROVE ReadInv'
  BY <1>3, <1>11 DEF Restart, ReadInv, TypeOK
<1>12. CASE Tick
  <2>1. \A t \in Task : task'[t].op = task[t].op /\ task'[t].sid = task[t].sid
    BY <1>12 DEF Tick, TypeOK, TaskState
  <2> QED BY <2>1 DEF ReadInv
<1>13. ASSUME \/ \E s \in Sid : Create(s) \/ Refresh(s) \/ DestroyLost(s)
              \/ \E t \in Task, u \in User : RenameMissing(t, u)
              \/ \E u \in User : RenameLost(u)
              \/ UNCHANGED vars
       PROVE  ReadInv'
  <2>1. UNCHANGED task
    BY <1>13 DEF Create, Refresh, DestroyLost, RenameMissing, RenameLost, vars
  <2> QED BY <1>2, <2>1
<1> QED BY <1>6, <1>7, <1>8, <1>9, <1>10, <1>11, <1>12, <1>13
           DEF Next, TaskStep

LEMMA StepRefines ==
  ASSUME OrderlyResets, TypeOK, ResetInv, ReadInv, [Next]_vars
  PROVE  ServiceStep
<1>1. CASE \E s \in Sid : Create(s)
  BY <1>1, CreateOpens
<1>2. CASE \E t \in Task, s \in Sid : GetBegin(t, s)
  BY <1>2, GetBeginStutters
<1>3. CASE \E t \in Task, s \in Sid : Destroy(t, s)
  BY <1>3, DestroyAsks
<1>4. CASE \E t \in Task, u \in User : Rename(t, u)
  BY <1>4, RenameAsks
<1>5. CASE \E t \in Task, u \in User : RenameMissing(t, u)
  BY <1>5, RenameMissingStutters
<1>6. CASE \E t \in Task : GetReply(t)
  BY <1>6, GetReplyReads
<1>7. CASE \E t \in Task : GetFill(t)
  BY <1>7, GetFillRemembers
<1>8. CASE \E t \in Task : GetFail(t)
  BY <1>8, GetFailLapses
<1>9. CASE \E t \in Task : DestroyEnd(t)
  BY <1>9, DestroyEndReports
<1>10. CASE \E t \in Task : Members(t) \/ DelTemp(t) \/ DelKeys(t)
  BY <1>10, ResetStepLapses
<1>11. CASE \E t \in Task : Purge(t)
  BY <1>11, PurgeReports
<1>12. CASE Tick
  BY <1>12, TickLapses
<1>13. CASE UNCHANGED vars
  BY <1>13, Stutter DEF vars, liveNow, Live, askedNow, Asked, readNow, Filling,
                        servedNow, CacheHit
<1> QED BY <1>1, <1>2, <1>3, <1>4, <1>5, <1>6, <1>7, <1>8, <1>9, <1>10, <1>11,
           <1>12, <1>13, NoFaults DEF Next, TaskStep

LEMMA InitRefines == Init => Service!Init
<1> SUFFICES ASSUME Init PROVE Service!Init
  OBVIOUS
<1>1. liveNow = {}
  BY DEF Init, liveNow, Live
<1>2. askedNow = [t \in Task |-> {}]
  BY DEF Init, askedNow, Asked, Idle
<1>3. readNow = {}
  BY DEF Init, readNow, Filling, Idle
<1>4. servedNow = {}
  BY DEF Init, servedNow, CacheHit
<1> QED BY <1>1, <1>2, <1>3, <1>4 DEF Service!Init, Init

\* The session store implements the session service, if resets of one user do
\* not overlap, Redis answers and session_refresh is not called: what
\* session_destroy and session_destroy_all_for_user report holds.
THEOREM StoreImplementsService == OrderlyResets /\ Spec => ImplementsService
<1> SUFFICES ASSUME OrderlyResets PROVE Spec => ImplementsService
  OBVIOUS
<1>1. Init => ResetInv /\ ReadInv
  BY DEF Init, ResetInv, LiveIsCreated, TaskInv, OneResetEach, LiveIsRecorded,
         RevokedIsDead, ReadInv, Live, Idle, ResetOps
<1>2. TypeOK /\ ResetInv /\ [Next]_vars => ResetInv'
  BY ResetStep
<1>3. TypeOK /\ ResetInv /\ ReadInv /\ [Next]_vars
        => [Service!Next]_(Service!vars)
  BY StepRefines DEF ServiceStep
<1> QED BY <1>1, <1>2, <1>3, InitRefines, ReadInvStep, TypeCorrect, PTL
           DEF Spec, ImplementsService, Service!Spec
=============================================================================
