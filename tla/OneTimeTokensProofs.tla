------------------------ MODULE OneTimeTokensProofs ------------------------
(***************************************************************************)
(* What OneTimeTokens promises, for every number of accounts, tokens,      *)
(* states and requests.  Ids, tokens and states are never drawn twice;     *)
(* this is what keeps an old key, task or session from being taken for a   *)
(* new one.                                                                *)
(***************************************************************************)
EXTENDS OAuthRefinement, FiniteSetTheorems, TLAPS

\* The UPDATE of reset_password for the account of its token.
NewPw(u) == IF users[u].provider = "local" THEN users[u].pw + 1 ELSE 0
UpdateOf(t, u) ==
  /\ NewPw(u) <= MaxSets
  /\ users' = IF NewPw(u) > 0 THEN [users EXCEPT ![u].pw = NewPw(u)] ELSE users
  /\ task' = [task EXCEPT ![t].op = "delete", ![t].pw = NewPw(u)]

\* The two outcomes of the UPSERT.
MeetsAccount(t, u) ==
  /\ Exists(u) /\ UNCHANGED rowVars
  /\ task' = [task EXCEPT ![t] = GrantTask(u, users[u].pw, task[t].via)]
MakesAccount(t, u, p) ==
  /\ u \notin drawn
  /\ users' = [users EXCEPT ![u] = [provider |-> p, pw |-> 0]]
  /\ drawn' = drawn \cup {u}
  /\ task' = [task EXCEPT ![t] = GrantTask(u, 0, task[t].via)]

LEMMA UpsertCases ==
  ASSUME TypeOK, NEW t \in Task, Upsert(t)
  PROVE  \E u \in User : \/ MeetsAccount(t, u)
                         \/ \E p \in Provider : MakesAccount(t, u, p)
<1>1. task[t].provider \in SUBSET Provider
  BY DEF TypeOK, TaskState
<1>2. PICK e \in task[t].email, p \in task[t].provider :
        \/ \E u \in AccountOf(e) : MeetsAccount(t, u)
        \/ \E u \in User \ drawn : MakesAccount(t, u, p)
  BY DEF Upsert, MeetsAccount, MakesAccount, AccountOf
<1> QED BY <1>1, <1>2 DEF AccountOf

LEMMA UpdateCases ==
  ASSUME TypeOK, NEW t \in Task, ResetUpdate(t)
  PROVE  \E u \in User : /\ u \in task[t].user /\ UpdateOf(t, u)
                         /\ NewPw(u) \in 0..MaxSets
<1>1. PICK u \in task[t].user : UpdateOf(t, u)
  BY DEF ResetUpdate, UpdateOf, NewPw
<1>2. u \in User /\ users[u].pw \in 0..MaxSets
  BY DEF TypeOK, Row, TaskState
<1>3. NewPw(u) \in Nat
  BY <1>2 DEF NewPw
<1>4. NewPw(u) <= MaxSets
  BY <1>1 DEF UpdateOf
<1>5. NewPw(u) \in 0..MaxSets
  BY <1>3, <1>4, TokenAssumption
<1> QED BY <1>1, <1>2, <1>5

TaskType == task \in [Task -> TaskState]

LEMMA IdleType == Idle \in TaskState
BY TokenAssumption DEF Idle, TaskState, Ops

LEMMA GrantType ==
  ASSUME NEW u \in User, NEW n \in 0..MaxSets, NEW S \in SUBSET State
  PROVE  GrantTask(u, n, S) \in TaskState
BY IdleType DEF GrantTask, Idle, TaskState, Ops

LEMMA SetTask ==
  ASSUME TaskType, NEW t \in Task, NEW k \in TaskState,
         task' = [task EXCEPT ![t] = k]
  PROVE  TaskType'
BY DEF TaskType

LEMMA EndType ==
  ASSUME TaskType, NEW t \in Task, End(t)
  PROVE  TaskType'
BY IdleType, SetTask DEF End

LEMMA GotoType ==
  ASSUME TaskType, NEW t \in Task, NEW o \in Ops, Goto(t, o)
  PROVE  TaskType'
BY DEF TaskType, Goto, TaskState

LEMMA LearnType ==
  ASSUME TaskType, NEW t \in Task, NEW e \in Email, Learn(t, e)
  PROVE  TaskType'
<1> DEFINE old == task[t]
           new == [old EXCEPT !.op = "upsert", !.email = {e}]
<1>1. old \in TaskState
  BY DEF TaskType
<1>2. task' = [task EXCEPT ![t] = new]
  BY DEF Learn, TaskType
<1> HIDE DEF old
<1>3. new \in TaskState
  BY <1>1 DEF TaskState, Ops
<1> QED BY <1>2, <1>3, SetTask

LEMMA AgedType ==
  ASSUME TypeOK
  PROVE  /\ \A k \in Token : Aged(reset[k], NoReset) \in
                               [user : SUBSET User, ttl : 0..ResetTTL]
         /\ \A s \in State : Aged(csrf[s], NoState) \in
              [provider : SUBSET Provider, bound : SUBSET Browser,
               ttl : 0..StateTTL]
<1>1. ASSUME NEW k \in Token
      PROVE  Aged(reset[k], NoReset) \in [user : SUBSET User, ttl : 0..ResetTTL]
  <2>1. reset[k] \in [user : SUBSET User, ttl : 0..ResetTTL]
    BY DEF TypeOK
  <2>2. NoReset \in [user : SUBSET User, ttl : 0..ResetTTL]
    BY TokenAssumption DEF NoReset
  <2> QED BY <2>1, <2>2, TokenAssumption DEF Aged
<1>2. ASSUME NEW s \in State
      PROVE  Aged(csrf[s], NoState) \in
               [provider : SUBSET Provider, bound : SUBSET Browser,
                ttl : 0..StateTTL]
  <2>1. csrf[s] \in [provider : SUBSET Provider, bound : SUBSET Browser,
                     ttl : 0..StateTTL]
    BY DEF TypeOK
  <2>2. NoState \in [provider : SUBSET Provider, bound : SUBSET Browser,
                     ttl : 0..StateTTL]
    BY TokenAssumption DEF NoState
  <2> QED BY <2>1, <2>2, TokenAssumption DEF Aged
<1> QED BY <1>1, <1>2

LEMMA LoginsAreTyped ==
  ASSUME TypeOK
  PROVE  /\ \A t \in Task : LoginOf(t) \subseteq Login /\ Taken(t) \subseteq Login
         /\ \A u, n : InFlight(u, n) \subseteq Login
         /\ \A u : Loose(u) \subseteq Login /\ \A t : Meets(t, u) \subseteq Login
<1>1. \A t \in Task : LoginOf(t) \subseteq Login
  BY DEF TypeOK, LoginOf, Login, TaskState
<1>2. \A t \in Task : Taken(t) \subseteq Login
  BY DEF TypeOK, Taken, Of, TaskState
<1>3. \A u, n : InFlight(u, n) \subseteq Login
  <2> SUFFICES ASSUME NEW u, NEW n, NEW x \in InFlight(u, n) PROVE x \in Login
    OBVIOUS
  <2>1. PICK t \in Task : x \in LoginOf(t)
    BY DEF InFlight, Granting
  <2> QED BY <1>1, <2>1
<1>4. \A u : Loose(u) \subseteq Login /\ \A t : Meets(t, u) \subseteq Login
  BY DEF TypeOK, Loose, Meets
<1> QED BY <1>1, <1>2, <1>3, <1>4

LEMMA FoundType ==
  ASSUME TaskType, NEW t \in Task, NEW S \in SUBSET Login, Found(t, S)
  PROVE  TaskType'
<1> DEFINE old == task[t]
           new == [old EXCEPT !.op = "deltemp", !.found = S]
<1>1. old \in TaskState
  BY DEF TaskType
<1>2. task' = [task EXCEPT ![t] = new]
  BY DEF Found, TaskType
<1> HIDE DEF old
<1>3. new \in TaskState
  BY <1>1 DEF TaskState, Ops
<1> QED BY <1>2, <1>3, SetTask

\* A command with which a reset destroys the sessions.
Destroying(t) ==
  \/ Rename(t) \/ RenameMissing(t) \/ RenameFails(t) \/ Members(t) \/ MembersFails(t)
  \/ DelTemp(t) \/ DelTempFails(t) \/ DelKeys(t) \/ DelKeysFails(t) \/ DropDestroy(t)

LEMMA Destroyers == DestroyStep => \E t \in Task : Destroying(t)
BY DEF DestroyStep, Destroying

LEMMA DestroyTypes ==
  ASSUME TypeOK, NEW t \in Task, Destroying(t), task' \in [Task -> TaskState]
  PROVE  TypeOK'
<1> USE TokenAssumption DEF rowVars, keyVars, sessVars
<1>0. /\ task[t].pw \in 0..MaxSets /\ task[t].user \in SUBSET User
      /\ index' \in SUBSET Login /\ temp' \in SUBSET Login
  BY DEF Destroying, Rename, RenameMissing, RenameFails, Members, MembersFails,
         DelTemp, DelTempFails, DelKeys, DelKeysFails, DropDestroy, MoveIndex,
         TypeOK, TaskState
<1>1. /\ UNCHANGED <<users, drawn, reset, csrf, spent, raced>>
      /\ sess' \subseteq sess
      /\ failures' = failures \/ Fail
  BY DEF Destroying, Rename, RenameMissing, RenameFails, Members, MembersFails,
         DelTemp, DelTempFails, DelKeys, DelKeysFails, DropDestroy, historyVars
<1>2. failures' \in 0..MaxFailures
  BY <1>1 DEF Fail, TypeOK
<1>3. \/ swept' = swept
      \/ \E u \in task[t].user : Answer200(t, u)
  BY DEF Destroying, Rename, RenameMissing, RenameFails, Members, MembersFails,
         DelTemp, DelTempFails, DelKeys, DelKeysFails, DropDestroy, historyVars
<1>4. swept' \in [User -> 0..MaxSets]
  BY <1>0, <1>3 DEF Answer200, TypeOK
<1>5. excused' = excused \/ \E S \in SUBSET Login : Excuse(S)
  BY LoginsAreTyped DEF Destroying, Rename, RenameMissing, RenameFails, Members,
     MembersFails, DelTemp, DelTempFails, DelKeys, DelKeysFails, DropDestroy,
     historyVars, TypeOK
<1>6. excused' \in SUBSET Login
  BY <1>5 DEF Excuse, TypeOK
<1> QED BY <1>0, <1>1, <1>2, <1>4, <1>6 DEF TypeOK
-----------------------------------------------------------------------------
LEMMA TaskStepType == TypeOK /\ [Next]_vars => TaskType'
<1> SUFFICES ASSUME TypeOK, [Next]_vars PROVE TaskType'
  OBVIOUS
<1> USE TokenAssumption
<1>0. TaskType
  BY DEF TypeOK, TaskType
<1>1. ASSUME NEW t \in Task, NEW u \in User, Register(t, u) PROVE TaskType'
  <2>1. GrantTask(u, 1, {}) \in TaskState
    BY GrantType
  <2> QED BY <1>0, <1>1, <2>1, SetTask DEF Register
<1>2. ASSUME NEW t \in Task, NEW u \in User, LoginRead(t, u) PROVE TaskType'
  <2>1. users[u].pw \in 0..MaxSets
    BY DEF TypeOK, Row
  <2>2. GrantTask(u, users[u].pw, {}) \in TaskState
    BY <2>1, GrantType
  <2> QED BY <1>0, <1>2, <2>2, SetTask DEF LoginRead
<1>3. ASSUME NEW t \in Task,
             \/ Grant(t) \/ Abort(t) \/ ResetDeleteFails(t)
             \/ \E k \in Token : ForgotSet(t, k)
      PROVE  TaskType'
  <2>1. End(t)
    BY <1>3 DEF Grant, Abort, ResetDeleteFails, ForgotSet
  <2> QED BY <1>0, <2>1, EndType
<1>4. ASSUME NEW t \in Task, NEW e \in Email, ForgotRead(t, e) PROVE TaskType'
  <2>1. PICK u \in AccountOf(e) :
          task' = [task EXCEPT ![t] = [Idle EXCEPT !.op = "forgot",
                                                   !.user = {u}]]
    BY <1>4 DEF ForgotRead
  <2>2. [Idle EXCEPT !.op = "forgot", !.user = {u}] \in TaskState
    BY IdleType DEF AccountOf, Idle, TaskState, Ops
  <2> QED BY <1>0, <2>1, <2>2, SetTask
<1>5. ASSUME NEW t \in Task, NEW k \in Token, ResetGet(t, k) PROVE TaskType'
  <2>1. reset[k].user \in SUBSET User
    BY DEF TypeOK
  <2>2. [Idle EXCEPT !.op = "hash", !.token = {k}, !.user = reset[k].user]
          \in TaskState
    BY <2>1, IdleType DEF Idle, TaskState, Ops
  <2> QED BY <1>0, <1>5, <2>2, SetTask DEF ResetGet
<1>6. ASSUME NEW t \in Task, ResetUpdate(t) PROVE TaskType'
  <2>1. PICK u \in User : UpdateOf(t, u) /\ NewPw(u) \in 0..MaxSets
    BY <1>6, UpdateCases
  <2> DEFINE old == task[t]
             n == NewPw(u)
             new == [old EXCEPT !.op = "delete", !.pw = n]
  <2>2. old \in TaskState
    BY <1>0 DEF TaskType
  <2>3. task' = [task EXCEPT ![t] = new]
    BY <1>0, <2>1 DEF UpdateOf, TaskType
  <2>4. n \in 0..MaxSets
    BY <2>1
  <2> HIDE DEF old, n
  <2>5. new \in TaskState
    BY <2>2, <2>4 DEF TaskState, Ops
  <2> QED BY <1>0, <2>3, <2>5, SetTask
<1>7. ASSUME NEW t \in Task, ResetDelete(t) PROVE TaskType'
  <2>1. End(t) \/ Goto(t, "destroy")
    BY <1>7 DEF ResetDelete
  <2> QED BY <1>0, <2>1, EndType, GotoType DEF Ops
<1>8. ASSUME NEW t \in Task, NEW s \in State, NEW p \in Provider,
             NEW B \in Cookie, CallbackGet(t, s, p, B)
      PROVE  TaskType'
  <2>1. [Idle EXCEPT !.op = "exchange", !.via = {s}, !.provider = {p}]
          \in TaskState
    BY IdleType DEF Idle, TaskState, Ops
  <2> QED BY <1>0, <1>8, <2>1, IdleType, SetTask DEF CallbackGet
<1>9. ASSUME NEW t \in Task, ExchangeCode(t) PROVE TaskType'
  BY <1>0, <1>9, GotoType DEF ExchangeCode, Ops
<1>10. ASSUME NEW t \in Task, NEW e \in Email,
              FetchGoogle(t, e) \/ FetchGithub(t, e) \/ FetchGithubEmail(t, e)
       PROVE  TaskType'
  <2>1. Learn(t, e) \/ Goto(t, "emails")
    BY <1>10 DEF FetchGoogle, FetchGithub, FetchGithubEmail
  <2> QED BY <1>0, <2>1, LearnType, GotoType DEF Ops
<1>11. ASSUME NEW t \in Task, Upsert(t) PROVE TaskType'
  <2>1. PICK u \in User, n \in 0..MaxSets :
          task' = [task EXCEPT ![t] = GrantTask(u, n, task[t].via)]
    BY <1>11, UpsertCases DEF MeetsAccount, MakesAccount, TypeOK, Row
  <2>2. task[t].via \in SUBSET State
    BY DEF TypeOK, TaskState
  <2>3. GrantTask(u, n, task[t].via) \in TaskState
    BY <2>2, GrantType
  <2> QED BY <1>0, <2>1, <2>3, SetTask
<1>12. CASE UNCHANGED task
  BY <1>0, <1>12 DEF TaskType
<1>13. ASSUME \/ \E u \in User : DeleteUser(u)
              \/ \E s \in State, p \in Provider, B \in Cookie :
                   Redirect(s, p, B)
              \/ \E s \in State : CallbackGetLost(s)
              \/ SessionEnds \/ Tick \/ UNCHANGED vars
       PROVE  UNCHANGED task
  BY <1>13 DEF DeleteUser, Redirect, CallbackGetLost, SessionEnds, Tick, vars
<1>14. ASSUME NEW t \in Task, Destroying(t) PROVE TaskType'
  <2>1. \/ End(t)
        \/ \E o \in {"members", "delkeys"} : Goto(t, o)
        \/ \E S \in SUBSET Login : Found(t, S)
    BY <1>14, LoginsAreTyped
       DEF Destroying, Rename, RenameMissing, RenameFails, Members, MembersFails,
           DelTemp, DelTempFails, DelKeys, DelKeysFails, DropDestroy, Answer200
  <2> QED BY <1>0, <2>1, EndType, GotoType, FoundType DEF Ops
<1> QED BY <1>1, <1>2, <1>3, <1>4, <1>5, <1>6, <1>7, <1>8, <1>9, <1>10, <1>11,
           <1>12, <1>13, <1>14, Destroyers DEF Next, AccountStep, ResetStep, OAuthStep

\* Every step keeps the types; Tasks are TaskStepType.
LEMMA TypeStep == TypeOK /\ [Next]_vars => TypeOK'
<1> SUFFICES ASSUME TypeOK, [Next]_vars PROVE TypeOK'
  OBVIOUS
<1> USE TokenAssumption DEF rowVars, keyVars, sessVars, historyVars
<1>0. task' \in [Task -> TaskState]
  BY TaskStepType DEF TaskType
<1>1. ASSUME NEW t \in Task, NEW u \in User, Register(t, u) PROVE TypeOK'
  BY <1>0, <1>1 DEF Register, TypeOK, Row
<1>2. ASSUME NEW t \in Task, NEW u \in User, LoginRead(t, u) PROVE TypeOK'
  BY <1>0, <1>2 DEF LoginRead, TypeOK
<1>3. ASSUME NEW t \in Task, Grant(t) PROVE TypeOK'
  BY <1>0, <1>3, LoginsAreTyped DEF Grant, TypeOK
<1>4. ASSUME NEW u \in User, DeleteUser(u) PROVE TypeOK'
  BY <1>0, <1>4 DEF DeleteUser, TypeOK, Row, NoRow
<1>5. ASSUME NEW t \in Task, NEW e \in Email, ForgotRead(t, e) PROVE TypeOK'
  BY <1>0, <1>5 DEF ForgotRead, TypeOK
<1>6. ASSUME NEW t \in Task, NEW k \in Token, ForgotSet(t, k) PROVE TypeOK'
  <2>1. task[t].user \in SUBSET User
    BY DEF TypeOK, TaskState
  <2> QED BY <1>0, <1>6, <2>1 DEF ForgotSet, TypeOK
<1>7. ASSUME NEW t \in Task, NEW k \in Token, ResetGet(t, k) PROVE TypeOK'
  BY <1>0, <1>7 DEF ResetGet, TypeOK
<1>8. ASSUME NEW t \in Task, ResetUpdate(t) PROVE TypeOK'
  <2>1. PICK u \in User : UpdateOf(t, u) /\ NewPw(u) \in 0..MaxSets
    BY <1>8, UpdateCases
  <2>2. users \in [User -> Row] /\ [users[u] EXCEPT !.pw = NewPw(u)] \in Row
    BY <2>1 DEF TypeOK, Row
  <2>3. users' \in [User -> Row]
    <3>1. \/ users' = users
          \/ users' = [users EXCEPT ![u] = [users[u] EXCEPT !.pw = NewPw(u)]]
      BY <2>1, <2>2 DEF UpdateOf
    <3> QED BY <2>2, <3>1
  <2> QED BY <1>0, <1>8, <2>3 DEF ResetUpdate, TypeOK
<1>9. ASSUME NEW t \in Task, ResetDelete(t) PROVE TypeOK'
  <2>1. task[t].token \in SUBSET Token /\ \A k : Holding(k) \in SUBSET Task
    BY DEF TypeOK, TaskState, Holding
  <2> QED BY <1>0, <1>9, <2>1 DEF ResetDelete, TypeOK, NoReset
<1>10. ASSUME NEW t \in Task, ResetDeleteFails(t) PROVE TypeOK'
  BY <1>0, <1>10 DEF ResetDeleteFails, Fail, TypeOK, NoReset
<1>11. ASSUME NEW t \in Task, Destroying(t) PROVE TypeOK'
  BY <1>0, <1>11, DestroyTypes
<1>12. CASE DestroyStep
  BY <1>11, <1>12, Destroyers
<1>13. ASSUME NEW s \in State, NEW p \in Provider, NEW B \in Cookie,
              Redirect(s, p, B)
       PROVE  TypeOK'
  BY <1>0, <1>13 DEF Redirect, Cookie, TypeOK
<1>14. ASSUME NEW t \in Task, NEW s \in State, NEW p \in Provider,
              NEW B \in Cookie, CallbackGet(t, s, p, B)
       PROVE  TypeOK'
  BY <1>0, <1>14 DEF CallbackGet, TypeOK, NoState
<1>15. ASSUME NEW s \in State, CallbackGetLost(s) PROVE TypeOK'
  BY <1>0, <1>15 DEF CallbackGetLost, Fail, TypeOK, NoState
<1>16. ASSUME NEW t \in Task,
              ExchangeCode(t) \/ Abort(t) \/ \E e \in Email :
                FetchGoogle(t, e) \/ FetchGithub(t, e) \/ FetchGithubEmail(t, e)
       PROVE  TypeOK'
  BY <1>0, <1>16 DEF ExchangeCode, Abort, FetchGoogle, FetchGithub,
                     FetchGithubEmail, TypeOK
<1>17. ASSUME NEW t \in Task, Upsert(t) PROVE TypeOK'
  <2>1. /\ users' \in [User -> Row]
        /\ drawn' \in SUBSET (User \cup Token \cup State)
    BY <1>17, UpsertCases DEF MeetsAccount, MakesAccount, TypeOK, Row
  <2> QED BY <1>0, <1>17, <2>1 DEF Upsert, TypeOK
<1>18. CASE SessionEnds
  BY <1>0, <1>18 DEF SessionEnds, TypeOK
<1>19. CASE Tick
  BY <1>0, <1>19, AgedType DEF Tick, TypeOK
<1>20. CASE UNCHANGED vars
  BY <1>20 DEF vars, TypeOK
<1> QED BY <1>1, <1>2, <1>3, <1>4, <1>5, <1>6, <1>7, <1>8, <1>9, <1>10, <1>11,
           <1>12, <1>13, <1>14, <1>15, <1>16, <1>17, <1>18, <1>19, <1>20
           DEF Next, AccountStep, ResetStep, OAuthStep

\* Rows, keys, tasks and histories keep their types, and no key outlives the
\* TTL it was stored with.
THEOREM TypeCorrect == Spec => []TypeOK
<1>1. Init => TypeOK
  BY TokenAssumption, IdleType DEF Init, TypeOK, Row, NoRow, NoReset, NoState
<1> QED BY <1>1, TypeStep, PTL DEF Spec
-----------------------------------------------------------------------------
\* Whatever names an account, a token or a state names one that was drawn.
DrawnInv ==
  /\ \A u \in User : Exists(u) \/ swept[u] > 0 => u \in drawn
  /\ \A k \in Token : /\ reset[k].user \subseteq drawn
                      /\ reset[k].ttl > 0 => k \in drawn
  /\ \A s \in State : csrf[s].ttl > 0 => s \in drawn
  /\ \A t \in Task : /\ task[t].user \subseteq drawn
                     /\ task[t].token \subseteq drawn
                     /\ task[t].via \subseteq drawn
  /\ \A x \in sess : x.via \subseteq drawn
  /\ spent \subseteq drawn

\* A reset or a login is for one account.
OneInv ==
  /\ \A k \in Token : \A u, v \in reset[k].user : u = v
  /\ \A t \in Task : /\ \A u, v \in task[t].user : u = v
                     /\ task[t].op \in {"grant", "members", "deltemp", "delkeys"} =>
                          \E u \in User : task[t].user = {u}

\* A spent token is not in Redis, and will not be again.
SpentInv == \A k \in spent : reset[k].ttl = 0 /\ Holding(k) \subseteq raced[k]

\* A state that is in Redis was not used, and a used one is with one task or
\* one session.
Carries(t, s) == s \in task[t].via
StateInv ==
  \A s \in State :
    /\ csrf[s].ttl > 0 => /\ \A t \in Task : ~Carries(t, s)
                          /\ \A x \in sess : s \notin x.via
    /\ \A t, r \in Task : Carries(t, s) /\ Carries(r, s) => t = r
    /\ \A x, y \in sess : s \in x.via /\ s \in y.via => x = y
    /\ \A t \in Task, x \in sess : ~(Carries(t, s) /\ s \in x.via)

\* What a reset reports is not newer than the account's password.
RowInv ==
  /\ \A u \in User : Exists(u) => swept[u] <= users[u].pw
  /\ \A t \in Task :
       task[t].op \in {"delete", "destroy", "members", "deltemp", "delkeys"} =>
       \A u \in task[t].user : Exists(u) => task[t].pw <= users[u].pw

\* Logins with an older password than a reset of u has reported, or is going
\* to report, are excused, or a destroy has them; and there is no session that
\* is neither in a set, nor excused, nor in the hands of a destroy.
LoginFor(t, u) == [user |-> u, pw |-> task[t].pw, via |-> task[t].via]
HeldFor(u) ==
  \A t \in Sweeping(u) : \A x \in sess \cap Of(u) :
    x.pw < task[t].pw => x \in excused \/ x \in Taken(t)
ListedFor(u) ==
  \A t \in Sweeping(u) : \A x \in index \cap Of(u) :
    x.pw < task[t].pw => x \in excused
FlightFor(u) ==
  \A g \in Granting(u) :
    /\ task[g].pw < swept[u] => LoginFor(g, u) \in excused
    /\ \A t \in Sweeping(u) : task[g].pw < task[t].pw => LoginFor(g, u) \in excused
KnownFor(u) ==
  \A x \in sess \cap Of(u) :
    x \in index \/ x \in excused \/ \E t \in Sweeping(u) : x \in Taken(t)
EndedFor(u) ==
  \A x \in sess \cap Of(u) : x.pw < swept[u] => x \in excused
OldFor(u) ==
  HeldFor(u) /\ ListedFor(u) /\ FlightFor(u) /\ KnownFor(u) /\ EndedFor(u)
OldInv == \A u \in User : OldFor(u)

Alone(t) == \A r \in Task \ {t} : task'[r] = task[r]

\* Task t changes where it stands, and nothing else of it that is named here.
Passes(t, o) ==
  /\ task'[t].op = o /\ task'[t].user = task[t].user
  /\ task'[t].pw = task[t].pw /\ task'[t].token = task[t].token
  /\ task'[t].via = task[t].via
  /\ \A r \in Task \ {t} : task'[r] = task[r]

LEMMA GotoPasses ==
  ASSUME TypeOK, NEW t \in Task, NEW o \in Ops, Goto(t, o)
  PROVE  Passes(t, o)
BY DEF TypeOK, TaskState, Goto, Passes

LEMMA LearnPasses ==
  ASSUME TypeOK, NEW t \in Task, NEW e \in Email, Learn(t, e)
  PROVE  Passes(t, "upsert")
BY DEF TypeOK, TaskState, Learn, Passes

\* The steps that only talk to the provider.
LEMMA ProviderPasses ==
  ASSUME TypeOK, NEW t \in Task,
         ExchangeCode(t) \/ \E e \in Email :
           FetchGoogle(t, e) \/ FetchGithub(t, e) \/ FetchGithubEmail(t, e)
  PROVE  /\ \E o \in {"userinfo", "emails", "upsert"} : Passes(t, o)
         /\ UNCHANGED <<users, drawn, reset, csrf, sess, spent, raced, swept,
                        excused>>
<1>1. \/ Goto(t, "userinfo") \/ Goto(t, "emails")
      \/ \E e \in Email : Learn(t, e)
  BY DEF ExchangeCode, FetchGoogle, FetchGithub, FetchGithubEmail
<1>2. \E o \in {"userinfo", "emails", "upsert"} : Passes(t, o)
  BY <1>1, GotoPasses, LearnPasses DEF Ops
<1> QED BY <1>2 DEF ExchangeCode, FetchGoogle, FetchGithub, FetchGithubEmail,
                    rowVars, keyVars, sessVars, historyVars

LEMMA IdleFields ==
  /\ Idle.op = "idle" /\ Idle.user = {} /\ Idle.pw = 0 /\ Idle.token = {}
  /\ Idle.via = {}
BY DEF Idle

LEMMA EndMoves ==
  ASSUME TypeOK, NEW t \in Task, End(t)
  PROVE  task'[t] = Idle /\ \A r \in Task \ {t} : task'[r] = task[r]
BY DEF TypeOK, End

\* DEL returned: the task goes on to the sessions, or ends.
LEMMA DeletePasses ==
  ASSUME TypeOK, NEW t \in Task, ResetDelete(t)
  PROVE  \/ Passes(t, "destroy")
         \/ task'[t] = Idle /\ \A r \in Task \ {t} : task'[r] = task[r]
<1>1. End(t) \/ Goto(t, "destroy")
  BY DEF ResetDelete
<1> QED BY <1>1, EndMoves, GotoPasses DEF Ops

\* The task that has stored a new password, and the account.
Updates(t, u) ==
  /\ task'[t].op = "delete" /\ task'[t].pw = NewPw(u)
  /\ task'[t].user = task[t].user /\ task'[t].token = task[t].token
  /\ task'[t].via = task[t].via
  /\ \A r \in Task \ {t} : task'[r] = task[r]
  /\ \A v \in User : users'[v].provider = users[v].provider
  /\ \A v \in User \ {u} : users'[v] = users[v]
  /\ users[u].pw \in Nat /\ NewPw(u) \in Nat
  /\ users'[u].pw >= users[u].pw /\ users'[u].pw >= NewPw(u)

LEMMA UpdateMoves ==
  ASSUME TypeOK, NEW t \in Task, NEW u \in User, UpdateOf(t, u),
         NewPw(u) \in 0..MaxSets
  PROVE  Updates(t, u)
<1>1. /\ task'[t].op = "delete" /\ task'[t].pw = NewPw(u)
      /\ task'[t].user = task[t].user /\ task'[t].token = task[t].token
      /\ task'[t].via = task[t].via
      /\ \A r \in Task \ {t} : task'[r] = task[r]
  BY DEF UpdateOf, TypeOK, TaskState
<1>2. CASE users[u].provider = "local"
  <2>1. NewPw(u) = users[u].pw + 1 /\ NewPw(u) > 0
    BY <1>2 DEF NewPw, TypeOK, Row
  <2>2. users' = [users EXCEPT ![u].pw = NewPw(u)]
    BY <2>1 DEF UpdateOf
  <2> QED BY <1>1, <1>2, <2>1, <2>2 DEF Updates, TypeOK, Row
<1>3. CASE users[u].provider # "local"
  <2>1. NewPw(u) = 0 /\ ~(NewPw(u) > 0)
    BY <1>3 DEF NewPw
  <2>2. users' = users
    BY <2>1 DEF UpdateOf
  <2> QED BY <1>1, <1>3, <2>1, <2>2 DEF Updates, TypeOK, Row
<1> QED BY <1>2, <1>3

LEMMA GrantTaskFields ==
  ASSUME NEW u, NEW n, NEW S
  PROVE  LET k == GrantTask(u, n, S)
         IN /\ k.op = "grant" /\ k.user = {u} /\ k.pw = n /\ k.via = S
            /\ k.token = {}
BY DEF GrantTask, Idle

\* What all commands of a destroy have in common.
Destroys(t) ==
  /\ task[t].op \in {"destroy", "members", "deltemp", "delkeys"} /\ Alone(t)
  /\ \/ task'[t] = Idle
     \/ /\ task'[t].op \in {"members", "deltemp", "delkeys"}
        /\ task'[t].user = task[t].user /\ task'[t].pw = task[t].pw
        /\ task'[t].token = task[t].token /\ task'[t].via = task[t].via
        /\ task[t].op = "destroy" => task[t].user # {}
  /\ \A u \in User : \/ swept'[u] = swept[u]
                     \/ /\ u \in task[t].user
                        /\ swept'[u] = task[t].pw
  /\ sess' \subseteq sess
  /\ UNCHANGED <<users, drawn, reset, csrf, spent, raced>>

LEMMA FoundPasses ==
  ASSUME TypeOK, NEW t \in Task, NEW S, Found(t, S)
  PROVE  Passes(t, "deltemp") /\ task'[t].found = S
BY DEF TypeOK, TaskState, Found, Passes

LEMMA AnswerMoves ==
  ASSUME TypeOK, NEW t \in Task, NEW u \in User, Answer200(t, u)
  PROVE  /\ task'[t] = Idle /\ Alone(t)
         /\ swept'[u] = IF task[t].pw > swept[u] THEN task[t].pw ELSE swept[u]
         /\ \A v \in User \ {u} : swept'[v] = swept[v]
BY EndMoves DEF TypeOK, Answer200, Alone

LEMMA DestroyMoves ==
  ASSUME TypeOK, DestroyStep
  PROVE  \E t \in Task : Destroys(t)
<1> USE DEF rowVars, keyVars, sessVars, historyVars
<1>1. PICK t \in Task : Destroying(t)
  BY Destroyers
<1>2. /\ UNCHANGED <<users, drawn, reset, csrf, spent, raced>>
      /\ sess' \subseteq sess
      /\ task[t].op \in {"destroy", "members", "deltemp", "delkeys"}
  BY <1>1 DEF Destroying, Rename, RenameMissing, RenameFails, Members, MembersFails,
     DelTemp, DelTempFails, DelKeys, DelKeysFails, DropDestroy, Sweeping
<1>3. \/ swept' = swept /\ End(t)
      \/ swept' = swept /\ \E o \in {"members", "delkeys"} : Goto(t, o)
      \/ swept' = swept /\ \E S : Found(t, S)
      \/ \E u \in task[t].user : Answer200(t, u)
  BY <1>1 DEF Destroying, Rename, RenameMissing, RenameFails, Members, MembersFails,
     DelTemp, DelTempFails, DelKeys, DelKeysFails, DropDestroy
<1>4. task[t].user \subseteq User
  BY DEF TypeOK, TaskState
<1>5. \/ task'[t] = Idle
      \/ \E o \in {"members", "deltemp", "delkeys"} : Passes(t, o)
  BY <1>3, <1>4, EndMoves, GotoPasses, FoundPasses, AnswerMoves DEF Ops
<1>6. Alone(t)
  <2>1. End(t) => Alone(t)
    BY EndMoves DEF Alone
  <2>2. \A o \in {"members", "delkeys"} : Goto(t, o) => Alone(t)
    BY GotoPasses DEF Ops, Alone, Passes
  <2>3. \A S : Found(t, S) => Alone(t)
    BY FoundPasses DEF Alone, Passes
  <2>4. \A u \in task[t].user : Answer200(t, u) => Alone(t)
    BY <1>4, AnswerMoves
  <2> QED BY <1>3, <2>1, <2>2, <2>3, <2>4
<1>7. \A u \in User : \/ swept'[u] = swept[u]
                       \/ /\ u \in task[t].user
                          /\ swept'[u] = task[t].pw
  BY <1>3, <1>4, AnswerMoves
<1>8. \/ task'[t] = Idle
      \/ /\ task'[t].op \in {"members", "deltemp", "delkeys"}
         /\ task'[t].user = task[t].user /\ task'[t].pw = task[t].pw
         /\ task'[t].token = task[t].token /\ task'[t].via = task[t].via
  BY <1>5 DEF Passes
<1>9. task[t].op = "destroy" => task'[t] = Idle \/ task[t].user # {}
  BY <1>1 DEF Destroying, Rename, RenameMissing, RenameFails, Members, MembersFails,
     DelTemp, DelTempFails, DelKeys, DelKeysFails, DropDestroy, Sweeping
<1> QED BY <1>2, <1>6, <1>7, <1>8, <1>9 DEF Destroys
-----------------------------------------------------------------------------
(* Each part of the invariant, action by action.                           *)

\* Drawing is the only way to a new name.
LEMMA DrawnStep == TypeOK /\ DrawnInv /\ [Next]_vars => DrawnInv'
<1> SUFFICES ASSUME TypeOK, DrawnInv, [Next]_vars PROVE DrawnInv'
  OBVIOUS
<1> USE TokenAssumption DEF rowVars, keyVars, sessVars, historyVars
<1>1. ASSUME NEW t \in Task, NEW u \in User, Register(t, u) PROVE DrawnInv'
  BY <1>1 DEF Register, GrantTask, Idle, DrawnInv, Exists, TypeOK, TaskState
<1>2. ASSUME NEW t \in Task, NEW u \in User, LoginRead(t, u) PROVE DrawnInv'
  BY <1>2 DEF LoginRead, GrantTask, Idle, DrawnInv, Exists, TypeOK, TaskState
<1>3. ASSUME NEW t \in Task, Grant(t) PROVE DrawnInv'
  BY <1>3 DEF Grant, End, Idle, LoginOf, DrawnInv, Exists, TypeOK, TaskState
<1>4. ASSUME NEW u \in User, DeleteUser(u) PROVE DrawnInv'
  BY <1>4 DEF DeleteUser, NoRow, DrawnInv, Exists, TypeOK, TaskState
<1>5. ASSUME NEW t \in Task, NEW e \in Email, ForgotRead(t, e) PROVE DrawnInv'
  BY <1>5 DEF ForgotRead, AccountOf, Idle, DrawnInv, Exists, TypeOK, TaskState
<1>6. ASSUME NEW t \in Task, NEW k \in Token, ForgotSet(t, k) PROVE DrawnInv'
  BY <1>6 DEF ForgotSet, End, Idle, DrawnInv, Exists, TypeOK, TaskState
<1>7. ASSUME NEW t \in Task, NEW k \in Token, ResetGet(t, k) PROVE DrawnInv'
  BY <1>7 DEF ResetGet, Idle, DrawnInv, Exists, TypeOK, TaskState
<1>8. ASSUME NEW t \in Task, ResetUpdate(t) PROVE DrawnInv'
  <2>1. PICK u \in User : /\ u \in task[t].user /\ UpdateOf(t, u)
                           /\ NewPw(u) \in 0..MaxSets
    BY <1>8, UpdateCases
  <2>2. UNCHANGED <<drawn, reset, csrf, sess, spent, raced, swept, excused>>
    BY <1>8 DEF ResetUpdate
  <2>3. Updates(t, u) /\ task[t].op = "hash"
    BY <1>8, <2>1, UpdateMoves DEF ResetUpdate
  <2>4. \A r \in Task : /\ task'[r].user = task[r].user /\ task'[r].via = task[r].via
                        /\ task'[r].token = task[r].token
    BY <2>3 DEF Updates
  <2>5. \A v \in User : users'[v].provider = users[v].provider
    BY <2>3 DEF Updates
  <2> QED BY <2>2, <2>4, <2>5 DEF DrawnInv, Exists
<1>9. ASSUME NEW t \in Task, ResetDelete(t) PROVE DrawnInv'
  <2>1. PICK k \in task[t].token :
          /\ reset' = [reset EXCEPT ![k] = NoReset]
          /\ spent' = spent \cup {k}
          /\ raced' = [raced EXCEPT ![k] = @ \cup Holding(k)]
    BY <1>9 DEF ResetDelete
  <2>2. UNCHANGED <<users, drawn, csrf, sess, swept, excused>>
    BY <1>9 DEF ResetDelete
  <2>3. CASE Passes(t, "destroy")
    BY <2>1, <2>2, <2>3 DEF Passes, NoReset, DrawnInv, Exists, TypeOK,
           TaskState
  <2>4. CASE task'[t] = Idle /\ \A r \in Task \ {t} : task'[r] = task[r]
    BY <2>1, <2>2, <2>4, IdleFields DEF NoReset, DrawnInv, Exists, TypeOK
  <2> QED BY <1>9, <2>3, <2>4, DeletePasses
<1>10. ASSUME NEW t \in Task, ResetDeleteFails(t) PROVE DrawnInv'
  <2>1. /\ task'[t] = Idle /\ \A r \in Task \ {t} : task'[r] = task[r]
        /\ UNCHANGED <<users, drawn, csrf, sess, spent, raced, swept, excused>>
    BY <1>10 DEF ResetDeleteFails, End, TypeOK, rowVars, sessVars, historyVars
  <2>2. \A j \in Token : reset'[j] = reset[j] \/ reset'[j] = NoReset
    BY <1>10 DEF ResetDeleteFails, TypeOK
  <2> QED BY <2>1, <2>2, IdleFields DEF NoReset, DrawnInv, Exists
<1>11. ASSUME NEW t \in Task, Destroys(t) PROVE DrawnInv'
  <2>1. \A u \in User : swept'[u] > 0 => swept[u] > 0 \/ u \in drawn
    BY <1>11 DEF Destroys, DrawnInv
  <2>2. \A r \in Task : /\ task'[r].user \subseteq drawn
                        /\ task'[r].token \subseteq drawn
                        /\ task'[r].via \subseteq drawn
    BY <1>11, IdleFields DEF Destroys, Alone, DrawnInv
  <2> QED BY <1>11, <2>1, <2>2 DEF Destroys, DrawnInv, Exists
<1>12. CASE DestroyStep
  BY <1>11, <1>12, DestroyMoves
<1>13. ASSUME NEW s \in State, NEW p \in Provider,
              NEW B \in Cookie,
              Redirect(s, p, B)
       PROVE  DrawnInv'
  BY <1>13 DEF Redirect, DrawnInv, Exists, TypeOK, TaskState
<1>14. ASSUME NEW t \in Task, NEW s \in State, NEW p \in Provider,
              NEW B \in Cookie,
              CallbackGet(t, s, p, B)
       PROVE  DrawnInv'
  BY <1>14 DEF CallbackGet, Idle, NoState, DrawnInv, Exists, TypeOK, TaskState
<1>15. ASSUME NEW s \in State, CallbackGetLost(s) PROVE DrawnInv'
  BY <1>15 DEF CallbackGetLost, NoState, DrawnInv, Exists, TypeOK, TaskState
<1>16. ASSUME NEW t \in Task,
              ExchangeCode(t) \/ \E e \in Email :
                FetchGoogle(t, e) \/ FetchGithub(t, e) \/ FetchGithubEmail(t, e)
       PROVE  DrawnInv'
  BY <1>16, ProviderPasses DEF Passes, DrawnInv, Exists
<1>17. ASSUME NEW t \in Task, Upsert(t) PROVE DrawnInv'
  <2>1. PICK u \in User : \/ MeetsAccount(t, u)
                            \/ \E p \in Provider : MakesAccount(t, u, p)
    BY <1>17, UpsertCases
  <2>2. UNCHANGED <<reset, csrf, sess, spent, raced, swept, excused>>
    BY <1>17 DEF Upsert
  <2>3. CASE MeetsAccount(t, u)
    BY <2>2, <2>3, GrantTaskFields DEF MeetsAccount, DrawnInv, Exists, TypeOK,
           TaskState
  <2>4. CASE \E p \in Provider : MakesAccount(t, u, p)
    BY <2>2, <2>4, GrantTaskFields DEF MakesAccount, DrawnInv, Exists, TypeOK,
           TaskState
  <2> QED BY <2>1, <2>3, <2>4
<1>18. ASSUME NEW t \in Task, Abort(t) PROVE DrawnInv'
  BY <1>18 DEF Abort, End, Idle, DrawnInv, Exists, TypeOK, TaskState
<1>19. CASE SessionEnds
  BY <1>19 DEF SessionEnds, DrawnInv, Exists, TypeOK, TaskState
<1>20. CASE Tick
  BY <1>20 DEF Tick, Aged, NoReset, NoState, DrawnInv, Exists, TypeOK,
         TaskState
<1>21. CASE UNCHANGED vars
  BY <1>21 DEF vars, DrawnInv, Exists, TypeOK, TaskState
<1> QED BY <1>1, <1>2, <1>3, <1>4, <1>5, <1>6, <1>7, <1>8, <1>9,
           <1>10, <1>11, <1>12, <1>13, <1>14, <1>15, <1>16, <1>17, <1>18,
           <1>19, <1>20, <1>21
           DEF Next, AccountStep, ResetStep, OAuthStep

\* A token keeps the account forgot_password read.
LEMMA OneStep == TypeOK /\ OneInv /\ [Next]_vars => OneInv'
<1> SUFFICES ASSUME TypeOK, OneInv, [Next]_vars PROVE OneInv'
  OBVIOUS
<1> USE TokenAssumption DEF rowVars, keyVars, sessVars, historyVars
<1>1. ASSUME NEW t \in Task, NEW u \in User, Register(t, u) PROVE OneInv'
  BY <1>1 DEF Register, GrantTask, Idle, OneInv, TypeOK, TaskState
<1>2. ASSUME NEW t \in Task, NEW u \in User, LoginRead(t, u) PROVE OneInv'
  BY <1>2 DEF LoginRead, GrantTask, Idle, OneInv, TypeOK, TaskState
<1>3. ASSUME NEW t \in Task, Grant(t) PROVE OneInv'
  BY <1>3 DEF Grant, End, Idle, LoginOf, OneInv, TypeOK, TaskState
<1>4. ASSUME NEW u \in User, DeleteUser(u) PROVE OneInv'
  BY <1>4 DEF DeleteUser, NoRow, OneInv, TypeOK, TaskState
<1>5. ASSUME NEW t \in Task, NEW e \in Email, ForgotRead(t, e) PROVE OneInv'
  BY <1>5 DEF ForgotRead, AccountOf, Idle, OneInv, TypeOK, TaskState
<1>6. ASSUME NEW t \in Task, NEW k \in Token, ForgotSet(t, k) PROVE OneInv'
  BY <1>6 DEF ForgotSet, End, Idle, OneInv, TypeOK, TaskState
<1>7. ASSUME NEW t \in Task, NEW k \in Token, ResetGet(t, k) PROVE OneInv'
  BY <1>7 DEF ResetGet, Idle, OneInv, TypeOK, TaskState
<1>8. ASSUME NEW t \in Task, ResetUpdate(t) PROVE OneInv'
  <2>1. PICK u \in User : /\ u \in task[t].user /\ UpdateOf(t, u)
                           /\ NewPw(u) \in 0..MaxSets
    BY <1>8, UpdateCases
  <2>2. UNCHANGED <<drawn, reset, csrf, sess, spent, raced, swept, excused>>
    BY <1>8 DEF ResetUpdate
  <2>3. Updates(t, u) /\ task[t].op = "hash"
    BY <1>8, <2>1, UpdateMoves DEF ResetUpdate
  <2>4. \A r \in Task : task'[r].user = task[r].user
    BY <2>3 DEF Updates
  <2>5. reset' = reset
    BY <2>2
  <2>6. \A r \in Task : \A x, y \in task'[r].user : x = y
    BY <2>4 DEF OneInv
  <2>7. \A r \in Task : task'[r].op \in {"grant", "members", "deltemp", "delkeys"} =>
          \E x \in User : task'[r].user = {x}
    BY <2>3, <2>4 DEF Updates, OneInv
  <2> QED BY <2>5, <2>6, <2>7 DEF OneInv
<1>9. ASSUME NEW t \in Task, ResetDelete(t) PROVE OneInv'
  <2>1. PICK k \in task[t].token :
          /\ reset' = [reset EXCEPT ![k] = NoReset]
          /\ spent' = spent \cup {k}
          /\ raced' = [raced EXCEPT ![k] = @ \cup Holding(k)]
    BY <1>9 DEF ResetDelete
  <2>2. UNCHANGED <<users, drawn, csrf, sess, swept, excused>>
    BY <1>9 DEF ResetDelete
  <2>0. \A j \in Token : reset'[j].user \subseteq reset[j].user
    BY <2>1 DEF NoReset, TypeOK
  <2>3. CASE Passes(t, "destroy")
    BY <2>0, <2>2, <2>3 DEF Passes, OneInv
  <2>4. CASE task'[t] = Idle /\ \A r \in Task \ {t} : task'[r] = task[r]
    BY <2>0, <2>2, <2>4, IdleFields DEF OneInv
  <2> QED BY <1>9, <2>3, <2>4, DeletePasses
<1>10. ASSUME NEW t \in Task, ResetDeleteFails(t) PROVE OneInv'
  <2>1. task'[t] = Idle /\ \A r \in Task \ {t} : task'[r] = task[r]
    BY <1>10 DEF ResetDeleteFails, End, TypeOK
  <2>2. \A j \in Token : reset'[j].user \subseteq reset[j].user
    BY <1>10 DEF ResetDeleteFails, NoReset, TypeOK
  <2> QED BY <2>1, <2>2, IdleFields DEF OneInv
<1>11. ASSUME NEW t \in Task, Destroys(t) PROVE OneInv'
  <2>1. \A k \in Token : \A v, w \in reset'[k].user : v = w
    BY <1>11 DEF Destroys, OneInv
  <2>2. \A r \in Task : \A v, w \in task'[r].user : v = w
    BY <1>11, IdleFields DEF Destroys, Alone, OneInv
  <2>3. \A r \in Task \ {t} : task'[r] = task[r]
    BY <1>11 DEF Destroys, Alone
  <2>4. CASE task'[t] = Idle
    BY <2>1, <2>2, <2>3, <2>4, IdleFields DEF OneInv
  <2>5. CASE task'[t] # Idle
    <3>1. task'[t].user = task[t].user
      BY <1>11, <2>5 DEF Destroys
    <3>2. CASE task[t].op = "destroy"
      <4>1. PICK u \in task[t].user : TRUE
        BY <1>11, <2>5, <3>2 DEF Destroys
      <4>2. u \in User /\ task[t].user = {u}
        BY <4>1 DEF TypeOK, TaskState, OneInv
      <4> QED BY <2>1, <2>2, <2>3, <3>1, <4>2 DEF OneInv
    <3>3. CASE task[t].op \in {"members", "deltemp", "delkeys"}
      <4>1. PICK u \in User : task[t].user = {u}
        BY <3>3 DEF OneInv
      <4> QED BY <2>1, <2>2, <2>3, <3>1, <4>1 DEF OneInv
    <3> QED BY <1>11, <3>2, <3>3 DEF Destroys
  <2> QED BY <2>4, <2>5
<1>12. CASE DestroyStep
  BY <1>11, <1>12, DestroyMoves
<1>13. ASSUME NEW s \in State, NEW p \in Provider,
              NEW B \in Cookie,
              Redirect(s, p, B)
       PROVE  OneInv'
  BY <1>13 DEF Redirect, OneInv, TypeOK, TaskState
<1>14. ASSUME NEW t \in Task, NEW s \in State, NEW p \in Provider,
              NEW B \in Cookie,
              CallbackGet(t, s, p, B)
       PROVE  OneInv'
  BY <1>14 DEF CallbackGet, Idle, NoState, OneInv, TypeOK, TaskState
<1>15. ASSUME NEW s \in State, CallbackGetLost(s) PROVE OneInv'
  BY <1>15 DEF CallbackGetLost, NoState, OneInv, TypeOK, TaskState
<1>16. ASSUME NEW t \in Task,
              ExchangeCode(t) \/ \E e \in Email :
                FetchGoogle(t, e) \/ FetchGithub(t, e) \/ FetchGithubEmail(t, e)
       PROVE  OneInv'
  BY <1>16, ProviderPasses DEF Passes, OneInv
<1>17. ASSUME NEW t \in Task, Upsert(t) PROVE OneInv'
  <2>1. PICK u \in User : \/ MeetsAccount(t, u)
                            \/ \E p \in Provider : MakesAccount(t, u, p)
    BY <1>17, UpsertCases
  <2>2. UNCHANGED <<reset, csrf, sess, spent, raced, swept, excused>>
    BY <1>17 DEF Upsert
  <2>3. PICK n : task' = [task EXCEPT ![t] = GrantTask(u, n, task[t].via)]
    BY <2>1 DEF MeetsAccount, MakesAccount
  <2>4. DOMAIN task = Task
    BY DEF TypeOK
  <2>5. task'[t].user = {u} /\ \A r \in Task \ {t} : task'[r] = task[r]
    BY <2>3, <2>4, GrantTaskFields
  <2>6. \A k \in Token : \A v, w \in reset'[k].user : v = w
    BY <2>2 DEF OneInv
  <2> QED BY <2>5, <2>6 DEF OneInv
<1>18. ASSUME NEW t \in Task, Abort(t) PROVE OneInv'
  BY <1>18 DEF Abort, End, Idle, OneInv, TypeOK, TaskState
<1>19. CASE SessionEnds
  BY <1>19 DEF SessionEnds, OneInv, TypeOK, TaskState
<1>20. CASE Tick
  BY <1>20 DEF Tick, Aged, NoReset, NoState, OneInv, TypeOK, TaskState
<1>21. CASE UNCHANGED vars
  BY <1>21 DEF vars, OneInv, TypeOK, TaskState
<1> QED BY <1>1, <1>2, <1>3, <1>4, <1>5, <1>6, <1>7, <1>8, <1>9,
           <1>10, <1>11, <1>12, <1>13, <1>14, <1>15, <1>16, <1>17, <1>18,
           <1>19, <1>20, <1>21
           DEF Next, AccountStep, ResetStep, OAuthStep

\* No step stores a spent token again, and a request that reads one has read it
\* before DEL returned.
LEMMA SpentStep == TypeOK /\ DrawnInv /\ SpentInv /\ [Next]_vars => SpentInv'
<1> SUFFICES ASSUME TypeOK, DrawnInv, SpentInv, [Next]_vars PROVE SpentInv'
  OBVIOUS
<1> USE TokenAssumption DEF rowVars, keyVars, sessVars, historyVars
<1>1. ASSUME NEW t \in Task, NEW u \in User, Register(t, u) PROVE SpentInv'
  BY <1>1 DEF Register, GrantTask, Idle, DrawnInv, SpentInv, Holding, TypeOK,
         TaskState
<1>2. ASSUME NEW t \in Task, NEW u \in User, LoginRead(t, u) PROVE SpentInv'
  BY <1>2 DEF LoginRead, GrantTask, Idle, DrawnInv, SpentInv, Holding, TypeOK,
         TaskState
<1>3. ASSUME NEW t \in Task, Grant(t) PROVE SpentInv'
  BY <1>3 DEF Grant, End, Idle, LoginOf, DrawnInv, SpentInv, Holding, TypeOK,
         TaskState
<1>4. ASSUME NEW u \in User, DeleteUser(u) PROVE SpentInv'
  BY <1>4 DEF DeleteUser, NoRow, DrawnInv, SpentInv, Holding, TypeOK, TaskState
<1>5. ASSUME NEW t \in Task, NEW e \in Email, ForgotRead(t, e) PROVE SpentInv'
  BY <1>5 DEF ForgotRead, AccountOf, Idle, DrawnInv, SpentInv, Holding,
         TypeOK, TaskState
<1>6. ASSUME NEW t \in Task, NEW k \in Token, ForgotSet(t, k) PROVE SpentInv'
  BY <1>6 DEF ForgotSet, End, Idle, DrawnInv, SpentInv, Holding, TypeOK,
         TaskState
<1>7. ASSUME NEW t \in Task, NEW k \in Token, ResetGet(t, k) PROVE SpentInv'
  BY <1>7 DEF ResetGet, Idle, DrawnInv, SpentInv, Holding, TypeOK, TaskState
<1>8. ASSUME NEW t \in Task, ResetUpdate(t) PROVE SpentInv'
  <2>1. PICK u \in User : /\ u \in task[t].user /\ UpdateOf(t, u)
                           /\ NewPw(u) \in 0..MaxSets
    BY <1>8, UpdateCases
  <2>2. UNCHANGED <<drawn, reset, csrf, sess, spent, raced, swept, excused>>
    BY <1>8 DEF ResetUpdate
  <2>3. Updates(t, u) /\ task[t].op = "hash"
    BY <1>8, <2>1, UpdateMoves DEF ResetUpdate
  <2>4. \A k \in spent : Holding(k)' \subseteq Holding(k)
    BY <2>3 DEF Updates, Holding
  <2> QED BY <2>2, <2>4 DEF SpentInv
<1>9. ASSUME NEW t \in Task, ResetDelete(t) PROVE SpentInv'
  <2>1. PICK k \in task[t].token :
          /\ reset' = [reset EXCEPT ![k] = NoReset]
          /\ spent' = spent \cup {k}
          /\ raced' = [raced EXCEPT ![k] = @ \cup Holding(k)]
    BY <1>9 DEF ResetDelete
  <2>2. UNCHANGED <<users, drawn, csrf, sess, swept, excused>>
    BY <1>9 DEF ResetDelete
  <2>0. \A j \in spent' : reset'[j].ttl = 0 /\ Holding(j) \subseteq raced'[j]
    <3>1. spent' \subseteq Token /\ spent \subseteq Token /\ k \in Token
      BY <2>1 DEF TypeOK, TaskState
    <3>2. reset'[k].ttl = 0 /\ \A j \in Token \ {k} : reset'[j] = reset[j]
      BY <2>1, <3>1 DEF NoReset, TypeOK
    <3>3. /\ Holding(k) \subseteq raced'[k]
          /\ \A j \in Token \ {k} : raced'[j] = raced[j]
      BY <2>1, <3>1 DEF TypeOK
    <3> QED BY <2>1, <3>1, <3>2, <3>3 DEF SpentInv
  <2>3. CASE Passes(t, "destroy")
    <3>1. \A j \in spent' : Holding(j)' \subseteq Holding(j)
      BY <2>3 DEF Passes, Holding
    <3> QED BY <2>0, <3>1 DEF SpentInv
  <2>4. CASE task'[t] = Idle /\ \A r \in Task \ {t} : task'[r] = task[r]
    <3>1. \A j \in spent' : Holding(j)' \subseteq Holding(j)
      BY <2>4, IdleFields DEF Holding
    <3> QED BY <2>0, <3>1 DEF SpentInv
  <2> QED BY <1>9, <2>3, <2>4, DeletePasses
<1>10. ASSUME NEW t \in Task, ResetDeleteFails(t) PROVE SpentInv'
  <2>1. End(t) /\ spent' = spent /\ raced' = raced
    BY <1>10 DEF ResetDeleteFails
  <2>2. \A j \in Token : reset'[j] = reset[j] \/ reset'[j].ttl = 0
    BY <1>10 DEF ResetDeleteFails, NoReset, TypeOK
  <2>3. \A j \in Token : Holding(j)' \subseteq Holding(j)
    BY <2>1, EndMoves, IdleFields DEF Holding
  <2>4. spent \subseteq Token
    BY DEF TypeOK
  <2> QED BY <2>1, <2>2, <2>3, <2>4 DEF SpentInv
<1>11. ASSUME NEW t \in Task, Destroys(t) PROVE SpentInv'
  <2>1. \A k \in Token : Holding(k)' \subseteq Holding(k)
    BY <1>11, IdleFields DEF Destroys, Alone, Holding
  <2>2. spent \subseteq Token
    BY DEF TypeOK
  <2> QED BY <1>11, <2>1, <2>2 DEF Destroys, SpentInv
<1>12. CASE DestroyStep
  BY <1>11, <1>12, DestroyMoves
<1>13. ASSUME NEW s \in State, NEW p \in Provider,
              NEW B \in Cookie,
              Redirect(s, p, B)
       PROVE  SpentInv'
  BY <1>13 DEF Redirect, DrawnInv, SpentInv, Holding, TypeOK, TaskState
<1>14. ASSUME NEW t \in Task, NEW s \in State, NEW p \in Provider,
              NEW B \in Cookie,
              CallbackGet(t, s, p, B)
       PROVE  SpentInv'
  BY <1>14 DEF CallbackGet, Idle, NoState, DrawnInv, SpentInv, Holding,
         TypeOK, TaskState
<1>15. ASSUME NEW s \in State, CallbackGetLost(s) PROVE SpentInv'
  BY <1>15 DEF CallbackGetLost, NoState, DrawnInv, SpentInv, Holding, TypeOK,
         TaskState
<1>16. ASSUME NEW t \in Task,
              ExchangeCode(t) \/ \E e \in Email :
                FetchGoogle(t, e) \/ FetchGithub(t, e) \/ FetchGithubEmail(t, e)
       PROVE  SpentInv'
  BY <1>16, ProviderPasses DEF Passes, SpentInv, Holding
<1>17. ASSUME NEW t \in Task, Upsert(t) PROVE SpentInv'
  <2>1. PICK u \in User : \/ MeetsAccount(t, u)
                            \/ \E p \in Provider : MakesAccount(t, u, p)
    BY <1>17, UpsertCases
  <2>2. UNCHANGED <<reset, csrf, sess, spent, raced, swept, excused>>
    BY <1>17 DEF Upsert
  <2>3. CASE MeetsAccount(t, u)
    BY <2>2, <2>3, GrantTaskFields DEF MeetsAccount, DrawnInv, SpentInv,
           Holding, TypeOK, TaskState
  <2>4. CASE \E p \in Provider : MakesAccount(t, u, p)
    BY <2>2, <2>4, GrantTaskFields DEF MakesAccount, DrawnInv, SpentInv,
           Holding, TypeOK, TaskState
  <2> QED BY <2>1, <2>3, <2>4
<1>18. ASSUME NEW t \in Task, Abort(t) PROVE SpentInv'
  BY <1>18 DEF Abort, End, Idle, DrawnInv, SpentInv, Holding, TypeOK, TaskState
<1>19. CASE SessionEnds
  BY <1>19 DEF SessionEnds, DrawnInv, SpentInv, Holding, TypeOK, TaskState
<1>20. CASE Tick
  BY <1>20 DEF Tick, Aged, NoReset, NoState, DrawnInv, SpentInv, Holding,
         TypeOK, TaskState
<1>21. CASE UNCHANGED vars
  BY <1>21 DEF vars, DrawnInv, SpentInv, Holding, TypeOK, TaskState
<1> QED BY <1>1, <1>2, <1>3, <1>4, <1>5, <1>6, <1>7, <1>8, <1>9,
           <1>10, <1>11, <1>12, <1>13, <1>14, <1>15, <1>16, <1>17, <1>18,
           <1>19, <1>20, <1>21
           DEF Next, AccountStep, ResetStep, OAuthStep

(* Where the OAuth states are: a step loses some, or stores a new one, or   *)
(* gives one from Redis to a callback or from its callback to a session.   *)

Others(s) == \A g \in State \ {s} : csrf'[g] = csrf[g]

\* A task keeps its state, and is still at work, or has none any more.
Lets(t) ==
  /\ Alone(t)
  /\ \/ task'[t].via = {}
     \/ task'[t].via = task[t].via /\ task'[t].op # "idle"
Lapses ==
  /\ task' = task \/ \E t \in Task : Lets(t)
  /\ \A s \in State : csrf'[s].ttl > 0 => csrf[s].ttl > 0
  /\ sess' \subseteq sess
Begins(s) ==
  /\ s \notin drawn /\ csrf'[s].ttl > 0 /\ Others(s)
  /\ UNCHANGED <<task, sess>>
Handed(s, t) ==
  /\ csrf[s].ttl > 0 /\ csrf'[s].ttl = 0 /\ Others(s)
  /\ task[t].op = "idle" /\ task'[t].op # "idle"
  /\ task'[t].via = {s} /\ Alone(t)
  /\ UNCHANGED sess
Opened(t) ==
  /\ task[t].op = "grant" /\ task'[t].via = {} /\ Alone(t)
  /\ sess' = sess \cup LoginOf(t)
  /\ UNCHANGED csrf
StateMove ==
  \/ Lapses
  \/ \E s \in State : Begins(s) \/ \E t \in Task : Handed(s, t)
  \/ \E t \in Task : Opened(t)

LEMMA LetsByTask ==
  ASSUME TypeOK, NEW t \in Task, NEW k, task' = [task EXCEPT ![t] = k],
         \/ k.via = {}
         \/ k.via = task[t].via /\ k.op # "idle"
  PROVE  Lets(t)
BY DEF TypeOK, Lets, Alone

LEMMA LetsByPassing ==
  ASSUME NEW t \in Task, NEW o, o # "idle", Passes(t, o)
  PROVE  Lets(t)
BY DEF Passes, Lets, Alone

LEMMA StateMoves == TypeOK /\ [Next]_vars => StateMove
<1> SUFFICES ASSUME TypeOK, [Next]_vars PROVE StateMove
  OBVIOUS
<1> USE DEF rowVars, keyVars, sessVars, historyVars
<1>1. ASSUME NEW t \in Task, Lets(t), UNCHANGED csrf, sess' \subseteq sess
      PROVE  StateMove
  BY <1>1 DEF StateMove, Lapses
<1>2. ASSUME NEW t \in Task, End(t) PROVE Lets(t)
  BY <1>2, LetsByTask, IdleFields DEF End
<1>3. ASSUME NEW t \in Task, NEW u \in User, Register(t, u) \/ LoginRead(t, u)
      PROVE  StateMove
  <2>1. \A n : GrantTask(u, n, {}).via = {}
    BY GrantTaskFields
  <2>2. Lets(t)
    BY <1>3, <2>1, LetsByTask DEF Register, LoginRead
  <2> QED BY <1>1, <1>3, <2>2 DEF Register, LoginRead
<1>4. ASSUME NEW t \in Task, Grant(t) PROVE StateMove
  <2>1. task'[t].via = {} /\ Alone(t)
    BY <1>4, EndMoves, IdleFields DEF Grant, Alone
  <2> QED BY <1>4, <2>1 DEF Grant, StateMove, Opened
<1>5. ASSUME \/ \E u \in User : DeleteUser(u)
             \/ SessionEnds \/ UNCHANGED vars
      PROVE  StateMove
  BY <1>5 DEF DeleteUser, SessionEnds, vars, StateMove, Lapses
<1>6. ASSUME NEW t \in Task, NEW e \in Email, ForgotRead(t, e) PROVE StateMove
  <2>1. PICK u \in AccountOf(e) :
          task' = [task EXCEPT ![t] = [Idle EXCEPT !.op = "forgot",
                                                   !.user = {u}]]
    BY <1>6 DEF ForgotRead
  <2>2. [Idle EXCEPT !.op = "forgot", !.user = {u}].via = {}
    BY DEF Idle
  <2>3. Lets(t)
    BY <2>1, <2>2, LetsByTask
  <2> QED BY <1>1, <1>6, <2>3 DEF ForgotRead
<1>7. ASSUME NEW t \in Task, NEW k \in Token, ResetGet(t, k) PROVE StateMove
  <2>1. [Idle EXCEPT !.op = "hash", !.token = {k}, !.user = reset[k].user].via = {}
    BY DEF Idle
  <2>2. Lets(t)
    BY <1>7, <2>1, LetsByTask DEF ResetGet
  <2> QED BY <1>1, <1>7, <2>2 DEF ResetGet
<1>8. ASSUME NEW t \in Task,
             \/ ResetDeleteFails(t) \/ Abort(t)
             \/ \E k \in Token : ForgotSet(t, k)
      PROVE  StateMove
  <2>1. End(t) /\ UNCHANGED csrf /\ sess' \subseteq sess
    BY <1>8 DEF ResetDeleteFails, Abort, ForgotSet
  <2> QED BY <1>1, <1>2, <2>1
<1>9. ASSUME NEW t \in Task, ResetUpdate(t) PROVE StateMove
  <2>1. PICK u \in User : UpdateOf(t, u) /\ NewPw(u) \in 0..MaxSets
    BY <1>9, UpdateCases
  <2>2. Updates(t, u)
    BY <2>1, UpdateMoves
  <2>3. Lets(t)
    BY <2>2 DEF Updates, Lets, Alone
  <2> QED BY <1>1, <1>9, <2>3 DEF ResetUpdate
<1>10. ASSUME NEW t \in Task, ResetDelete(t) PROVE StateMove
  <2>1. Lets(t)
    BY <1>10, DeletePasses, LetsByPassing, IdleFields DEF Lets, Alone
  <2> QED BY <1>1, <1>10, <2>1 DEF ResetDelete
<1>11. ASSUME NEW s \in State, NEW p \in Provider, NEW B \in Cookie,
              Redirect(s, p, B)
       PROVE  StateMove
  <2>1. csrf'[s].ttl = StateTTL /\ Others(s)
    BY <1>11 DEF Redirect, TypeOK, Others
  <2>2. Begins(s)
    BY <1>11, <2>1, TokenAssumption DEF Redirect, Begins
  <2> QED BY <2>2 DEF StateMove
<1>12. ASSUME NEW t \in Task, NEW s \in State, NEW p \in Provider,
              NEW B \in Cookie, CallbackGet(t, s, p, B)
       PROVE  StateMove
  <2> DEFINE k == [Idle EXCEPT !.op = "exchange", !.via = {s}, !.provider = {p}]
  <2>1. k.op = "exchange" /\ k.via = {s}
    BY DEF Idle
  <2>2. csrf'[s].ttl = 0 /\ Others(s)
    BY <1>12 DEF CallbackGet, NoState, TypeOK, Others
  <2> HIDE DEF k
  <2>3. CASE task' = [task EXCEPT ![t] = k]
    <3>1. task'[t] = k /\ Alone(t)
      BY <2>3 DEF TypeOK, Alone
    <3> QED BY <1>12, <2>1, <2>2, <3>1 DEF CallbackGet, StateMove, Handed
  <2>4. CASE End(t)
    <3>1. Lets(t)
      BY <1>2, <2>4
    <3> QED BY <1>12, <2>2, <3>1 DEF CallbackGet, StateMove, Lapses, Others
  <2> QED BY <1>12, <2>3, <2>4 DEF CallbackGet, End, k
<1>13. ASSUME NEW s \in State, CallbackGetLost(s) PROVE StateMove
  BY <1>13 DEF CallbackGetLost, NoState, TypeOK, StateMove, Lapses
<1>14. ASSUME NEW t \in Task,
              ExchangeCode(t) \/ \E e \in Email :
                FetchGoogle(t, e) \/ FetchGithub(t, e) \/ FetchGithubEmail(t, e)
       PROVE  StateMove
  BY <1>1, <1>14, ProviderPasses, LetsByPassing
<1>15. ASSUME NEW t \in Task, Upsert(t) PROVE StateMove
  <2>1. PICK u, n : task' = [task EXCEPT ![t] = GrantTask(u, n, task[t].via)]
    BY <1>15, UpsertCases DEF MeetsAccount, MakesAccount
  <2> DEFINE k == GrantTask(u, n, task[t].via)
  <2>2. k.op = "grant" /\ k.via = task[t].via
    BY GrantTaskFields
  <2> HIDE DEF k
  <2>3. task' = [task EXCEPT ![t] = k]
    BY <2>1 DEF k
  <2>4. Lets(t)
    BY <2>2, <2>3, LetsByTask
  <2> QED BY <1>1, <1>15, <2>4 DEF Upsert
<1>16. CASE Tick
  <2>1. ASSUME NEW s \in State, csrf'[s].ttl > 0 PROVE csrf[s].ttl > 0
    <3>1. csrf'[s] = Aged(csrf[s], NoState) /\ csrf[s].ttl \in 0..StateTTL
      BY <1>16 DEF Tick, TypeOK
    <3> QED BY <2>1, <3>1, TokenAssumption DEF Aged, NoState
  <2> QED BY <1>16, <2>1 DEF Tick, StateMove, Lapses
<1>17. CASE DestroyStep
  <2>1. PICK t \in Task : Destroys(t)
    BY <1>17, DestroyMoves
  <2>2. Lets(t) /\ UNCHANGED csrf /\ sess' \subseteq sess
    BY <2>1, IdleFields DEF Destroys, Lets
  <2> QED BY <1>1, <2>2
<1> QED BY <1>3, <1>4, <1>5, <1>6, <1>7, <1>8, <1>9, <1>10, <1>11, <1>12, <1>13,
           <1>14, <1>15, <1>16, <1>17 DEF Next, AccountStep, ResetStep, OAuthStep

\* What a grant makes of the state its task has.
LEMMA OpenedLogin ==
  ASSUME TypeOK, OneInv, NEW t \in Task, Opened(t)
  PROVE  \E x \in Login : sess' = sess \cup {x} /\ x.via = task[t].via
<1>1. PICK u \in User : task[t].user = {u}
  BY DEF Opened, OneInv
<1> DEFINE x == [user |-> u, pw |-> task[t].pw, via |-> task[t].via]
<1>2. LoginOf(t) = {x} /\ x.via = task[t].via
  BY <1>1 DEF LoginOf
<1>3. x \in Login
  BY <1>2, LoginsAreTyped
<1> HIDE DEF x
<1> QED BY <1>2, <1>3 DEF Opened

\* GETDEL hands a state to one task, which hands it to one session.
LEMMA StateStep ==
  TypeOK /\ DrawnInv /\ OneInv /\ StateInv /\ [Next]_vars => StateInv'
<1> SUFFICES ASSUME TypeOK, DrawnInv, OneInv, StateInv, StateMove
             PROVE StateInv'
  BY StateMoves
<1>1. CASE Lapses
  <2>1. \A t \in Task, s \in State : Carries(t, s)' => Carries(t, s)
    BY <1>1 DEF Lapses, Lets, Alone, Carries
  <2> QED BY <1>1, <2>1 DEF Lapses, StateInv
<1>2. ASSUME NEW s \in State, Begins(s) PROVE StateInv'
  <2>1. /\ \A t \in Task, g \in State : Carries(t, g)' = Carries(t, g)
        /\ \A t \in Task : ~Carries(t, s)
        /\ \A x \in sess : s \notin x.via
    BY <1>2 DEF Begins, DrawnInv, Carries
  <2> QED BY <1>2, <2>1 DEF Begins, Others, StateInv
<1>3. ASSUME NEW s \in State, NEW t \in Task, Handed(s, t) PROVE StateInv'
  <2>1. /\ \A r \in Task : Carries(r, s)' => r = t
        /\ \A r \in Task, g \in State \ {s} : Carries(r, g)' => Carries(r, g)
        /\ \A x \in sess : s \notin x.via
    BY <1>3 DEF Handed, Alone, StateInv, Carries
  <2> QED BY <1>3, <2>1 DEF Handed, Others, StateInv
<1>4. ASSUME NEW t \in Task, Opened(t) PROVE StateInv'
  <2>1. PICK x \in Login : sess' = sess \cup {x} /\ x.via = task[t].via
    BY <1>4, OpenedLogin
  <2>2. \A r \in Task, g \in State : Carries(r, g)' => r # t /\ Carries(r, g)
    BY <1>4 DEF Opened, Alone, Carries
  <2> QED BY <1>4, <2>1, <2>2 DEF Opened, StateInv, Carries
<1> QED BY <1>1, <1>2, <1>3, <1>4 DEF StateMove

\* Passwords grow while an account exists, and a deleted account stays deleted.
LEMMA RowStep ==
  TypeOK /\ DrawnInv /\ OneInv /\ RowInv /\ [Next]_vars => RowInv'
<1> SUFFICES ASSUME TypeOK, DrawnInv, OneInv, RowInv, [Next]_vars
             PROVE RowInv'
  OBVIOUS
<1> USE TokenAssumption DEF rowVars, keyVars, sessVars, historyVars
<1>1. ASSUME NEW t \in Task, NEW u \in User, Register(t, u) PROVE RowInv'
  BY <1>1 DEF Register, GrantTask, Idle, DrawnInv, RowInv, Exists, TypeOK,
         TaskState, Row
<1>2. ASSUME NEW t \in Task, NEW u \in User, LoginRead(t, u) PROVE RowInv'
  BY <1>2 DEF LoginRead, GrantTask, Idle, DrawnInv, RowInv, Exists, TypeOK,
         TaskState, Row
<1>3. ASSUME NEW t \in Task, Grant(t) PROVE RowInv'
  BY <1>3 DEF Grant, End, Idle, LoginOf, DrawnInv, RowInv, Exists, TypeOK,
         TaskState, Row
<1>4. ASSUME NEW u \in User, DeleteUser(u) PROVE RowInv'
  BY <1>4 DEF DeleteUser, NoRow, DrawnInv, RowInv, Exists, TypeOK, TaskState, Row
<1>5. ASSUME NEW t \in Task, NEW e \in Email, ForgotRead(t, e) PROVE RowInv'
  BY <1>5 DEF ForgotRead, AccountOf, Idle, DrawnInv, RowInv, Exists, TypeOK,
         TaskState, Row
<1>6. ASSUME NEW t \in Task, NEW k \in Token, ForgotSet(t, k) PROVE RowInv'
  BY <1>6 DEF ForgotSet, End, Idle, DrawnInv, RowInv, Exists, TypeOK,
         TaskState, Row
<1>7. ASSUME NEW t \in Task, NEW k \in Token, ResetGet(t, k) PROVE RowInv'
  BY <1>7 DEF ResetGet, Idle, DrawnInv, RowInv, Exists, TypeOK, TaskState, Row
<1>8. ASSUME NEW t \in Task, ResetUpdate(t) PROVE RowInv'
  <2>1. PICK u \in User : /\ u \in task[t].user /\ UpdateOf(t, u)
                           /\ NewPw(u) \in 0..MaxSets
    BY <1>8, UpdateCases
  <2>2. UNCHANGED <<drawn, reset, csrf, sess, spent, raced, swept, excused>>
    BY <1>8 DEF ResetUpdate
  <2>3. Updates(t, u)
    BY <1>8, <2>1, UpdateMoves DEF ResetUpdate
  <2>4. users' \in [User -> Row] /\ task' \in [Task -> TaskState]
    BY TypeStep DEF TypeOK
  <2>5. \A v \in User : /\ Exists(v)' <=> Exists(v)
                        /\ users[v].pw \in Nat /\ users'[v].pw \in Nat
                        /\ swept[v] \in Nat
                        /\ users'[v].pw >= users[v].pw
    BY <2>3, <2>4 DEF Updates, Exists, TypeOK, Row
  <2>6. \A v \in User : Exists(v)' => swept'[v] <= users'[v].pw
    BY <2>2, <2>5 DEF RowInv
  <2>7. ASSUME NEW r \in Task, task'[r].op \in
                  {"delete", "destroy", "members", "deltemp", "delkeys"},
               NEW v \in task'[r].user, Exists(v)'
        PROVE  task'[r].pw <= users'[v].pw
    <3>1. task'[r].pw \in Nat /\ v \in User
      BY <2>4 DEF TaskState
    <3>2. CASE r # t
      BY <2>3, <2>5, <2>7, <3>1, <3>2 DEF Updates, RowInv
    <3>3. CASE r = t
      <4>1. v = u
        BY <2>1, <2>3, <3>3 DEF Updates, OneInv
      <4> QED BY <2>3, <2>5, <3>1, <3>3, <4>1 DEF Updates
    <3> QED BY <3>2, <3>3
  <2> QED BY <2>6, <2>7 DEF RowInv
<1>9. ASSUME NEW t \in Task, ResetDelete(t) PROVE RowInv'
  <2>1. PICK k \in task[t].token :
          /\ reset' = [reset EXCEPT ![k] = NoReset]
          /\ spent' = spent \cup {k}
          /\ raced' = [raced EXCEPT ![k] = @ \cup Holding(k)]
    BY <1>9 DEF ResetDelete
  <2>2. UNCHANGED <<users, drawn, csrf, sess, swept, excused>>
    BY <1>9 DEF ResetDelete
  <2>3. CASE Passes(t, "destroy")
    BY <1>9, <2>1, <2>2, <2>3 DEF Passes, NoReset, ResetDelete, RowInv, Exists
  <2>4. CASE task'[t] = Idle /\ \A r \in Task \ {t} : task'[r] = task[r]
    BY <2>1, <2>2, <2>4, IdleFields DEF NoReset, RowInv, Exists
  <2> QED BY <1>9, <2>3, <2>4, DeletePasses
<1>10. ASSUME NEW t \in Task, ResetDeleteFails(t) PROVE RowInv'
  BY <1>10 DEF ResetDeleteFails, End, Idle, NoReset, DrawnInv, RowInv, Exists,
         TypeOK, TaskState, Row
<1>11. ASSUME NEW t \in Task, Destroys(t) PROVE RowInv'
  <2>1. \A u \in User : Exists(u)' => swept'[u] <= users'[u].pw
    BY <1>11 DEF Destroys, RowInv, Exists
  <2>2. \A r \in Task :
          task'[r].op \in {"delete", "destroy", "members", "deltemp", "delkeys"} =>
          \A u \in task'[r].user : Exists(u)' => task'[r].pw <= users'[u].pw
    BY <1>11, IdleFields DEF Destroys, Alone, RowInv, Exists
  <2> QED BY <2>1, <2>2 DEF RowInv
<1>12. CASE DestroyStep
  BY <1>11, <1>12, DestroyMoves
<1>13. ASSUME NEW s \in State, NEW p \in Provider,
              NEW B \in Cookie,
              Redirect(s, p, B)
       PROVE  RowInv'
  BY <1>13 DEF Redirect, DrawnInv, RowInv, Exists, TypeOK, TaskState, Row
<1>14. ASSUME NEW t \in Task, NEW s \in State, NEW p \in Provider,
              NEW B \in Cookie,
              CallbackGet(t, s, p, B)
       PROVE  RowInv'
  BY <1>14 DEF CallbackGet, Idle, NoState, DrawnInv, RowInv, Exists, TypeOK,
         TaskState, Row
<1>15. ASSUME NEW s \in State, CallbackGetLost(s) PROVE RowInv'
  BY <1>15 DEF CallbackGetLost, NoState, DrawnInv, RowInv, Exists, TypeOK,
         TaskState, Row
<1>16. ASSUME NEW t \in Task,
              ExchangeCode(t) \/ \E e \in Email :
                FetchGoogle(t, e) \/ FetchGithub(t, e) \/ FetchGithubEmail(t, e)
       PROVE  RowInv'
  BY <1>16, ProviderPasses DEF Passes, RowInv, Exists
<1>17. ASSUME NEW t \in Task, Upsert(t) PROVE RowInv'
  <2>1. PICK u \in User : \/ MeetsAccount(t, u)
                            \/ \E p \in Provider : MakesAccount(t, u, p)
    BY <1>17, UpsertCases
  <2>2. UNCHANGED <<reset, csrf, sess, spent, raced, swept, excused>>
    BY <1>17 DEF Upsert
  <2>3. CASE MeetsAccount(t, u)
    BY <2>2, <2>3, GrantTaskFields DEF MeetsAccount, DrawnInv, RowInv, Exists,
           TypeOK, TaskState, Row
  <2>4. CASE \E p \in Provider : MakesAccount(t, u, p)
    BY <2>2, <2>4, GrantTaskFields DEF MakesAccount, DrawnInv, RowInv, Exists,
           TypeOK, TaskState, Row
  <2> QED BY <2>1, <2>3, <2>4
<1>18. ASSUME NEW t \in Task, Abort(t) PROVE RowInv'
  BY <1>18 DEF Abort, End, Idle, DrawnInv, RowInv, Exists, TypeOK, TaskState,
         Row
<1>19. CASE SessionEnds
  BY <1>19 DEF SessionEnds, DrawnInv, RowInv, Exists, TypeOK, TaskState, Row
<1>20. CASE Tick
  BY <1>20 DEF Tick, Aged, NoReset, NoState, DrawnInv, RowInv, Exists, TypeOK,
         TaskState, Row
<1>21. CASE UNCHANGED vars
  BY <1>21 DEF vars, DrawnInv, RowInv, Exists, TypeOK, TaskState, Row
<1> QED BY <1>1, <1>2, <1>3, <1>4, <1>5, <1>6, <1>7, <1>8, <1>9,
           <1>10, <1>11, <1>12, <1>13, <1>14, <1>15, <1>16, <1>17, <1>18,
           <1>19, <1>20, <1>21
           DEF Next, AccountStep, ResetStep, OAuthStep

-----------------------------------------------------------------------------
(* What a destroy under way is going to report, user by user.              *)

\* The sessions a command of a destroy sees.
LEMMA TakenBy ==
  ASSUME NEW u \in User, NEW t \in Sweeping(u)
  PROVE  Taken(t) = IF task[t].op = "members" THEN temp \cap Of(u) ELSE task[t].found
<1>1. task[t].user = {u}
  BY DEF Sweeping
<1>2. {temp \cap Of(v) : v \in task[t].user} = {temp \cap Of(u)}
  BY <1>1
<1>3. UNION {temp \cap Of(u)} = temp \cap Of(u)
  OBVIOUS
<1> QED BY <1>2, <1>3 DEF Taken

LEMMA TakenNext ==
  ASSUME NEW u \in User, NEW t \in Sweeping(u)'
  PROVE  Taken(t)' = IF task'[t].op = "members" THEN temp' \cap Of(u) ELSE task'[t].found
<1>1. task'[t].user = {u}
  BY DEF Sweeping
<1>2. {temp' \cap Of(v) : v \in task'[t].user} = {temp' \cap Of(u)}
  BY <1>1
<1>3. UNION {temp' \cap Of(u)} = temp' \cap Of(u)
  OBVIOUS
<1> QED BY <1>2, <1>3 DEF Taken

LEMMA FlightHas ==
  ASSUME NEW u \in User, NEW g \in Granting(u), NEW n, task[g].pw < n
  PROVE  LoginFor(g, u) \in InFlight(u, n)
<1>1. LoginFor(g, u) \in LoginOf(g) /\ LoginFor(g, u).pw < n
  BY DEF LoginFor, LoginOf, Granting
<1> QED BY <1>1 DEF InFlight

\* The steps of other tasks: sessions may end, and no destroy is touched.
Fresh(t) ==
  \A u \in task'[t].user :
    /\ u \in User /\ ~(task'[t].pw < swept[u])
    /\ \A r \in Sweeping(u) : ~(task'[t].pw < task[r].pw)
Sweeps == {"members", "deltemp", "delkeys"}
Apart(t) ==
  /\ Alone(t) /\ task[t].op \notin Sweeps /\ task'[t].op \notin Sweeps
  /\ task'[t].op = "grant" => Fresh(t)
Calm ==
  /\ \E K : sess' = sess \ K /\ index' = index \ K /\ temp' = temp \ K
  /\ UNCHANGED <<swept, excused>>
  /\ UNCHANGED task \/ \E t \in Task : Apart(t)

LEMMA CalmTasks ==
  ASSUME Calm, NEW u \in User
  PROVE  /\ Sweeping(u)' = Sweeping(u)
         /\ \A t \in Sweeping(u) : task'[t] = task[t]
         /\ \A g \in Granting(u)' :
              \/ g \in Granting(u) /\ task'[g] = task[g]
              \/ /\ ~(task'[g].pw < swept[u])
                 /\ \A r \in Sweeping(u) : ~(task'[g].pw < task[r].pw)
<1>1. CASE UNCHANGED task
  BY <1>1 DEF Sweeping, Granting
<1>2. ASSUME NEW t \in Task, Apart(t)
      PROVE  /\ Sweeping(u)' = Sweeping(u)
             /\ \A r \in Sweeping(u) : task'[r] = task[r]
             /\ \A g \in Granting(u)' :
                  \/ g \in Granting(u) /\ task'[g] = task[g]
                  \/ /\ ~(task'[g].pw < swept[u])
                     /\ \A r \in Sweeping(u) : ~(task'[g].pw < task[r].pw)
  <2>1. Sweeping(u)' = Sweeping(u) /\ \A r \in Sweeping(u) : task'[r] = task[r]
    BY <1>2 DEF Apart, Alone, Sweeps, Sweeping
  <2>2. ASSUME NEW g \in Granting(u)'
        PROVE  \/ g \in Granting(u) /\ task'[g] = task[g]
               \/ /\ ~(task'[g].pw < swept[u])
                  /\ \A r \in Sweeping(u) : ~(task'[g].pw < task[r].pw)
    <3>1. CASE g = t
      BY <1>2, <3>1 DEF Apart, Fresh, Granting
    <3>2. CASE g # t
      BY <1>2, <3>2 DEF Apart, Alone, Granting
    <3> QED BY <3>1, <3>2
  <2> QED BY <2>1, <2>2
<1> QED BY <1>1, <1>2 DEF Calm

LEMMA CalmStep ==
  ASSUME OldInv, Calm
  PROVE  OldInv'
<1> SUFFICES ASSUME NEW u \in User PROVE OldFor(u)'
  BY DEF OldInv
<1>1. PICK K : sess' = sess \ K /\ index' = index \ K /\ temp' = temp \ K
  BY DEF Calm
<1>2. /\ Sweeping(u)' = Sweeping(u)
      /\ \A t \in Sweeping(u) : task'[t] = task[t]
      /\ swept' = swept /\ excused' = excused
  BY CalmTasks DEF Calm
<1>3. ASSUME NEW t \in Sweeping(u), NEW x, x \notin K, x \in Taken(t)
      PROVE  x \in Taken(t)'
  <2>1. t \in Sweeping(u)' /\ task'[t] = task[t]
    BY <1>2
  <2> QED BY <1>1, <1>3, <2>1, TakenBy, TakenNext
<1>4. /\ HeldFor(u) /\ ListedFor(u) /\ FlightFor(u) /\ KnownFor(u) /\ EndedFor(u)
  BY DEF OldInv, OldFor
<1>5. HeldFor(u)'
  BY <1>1, <1>2, <1>3, <1>4 DEF HeldFor
<1>6. ListedFor(u)'
  BY <1>1, <1>2, <1>4 DEF ListedFor
<1>7. FlightFor(u)'
  BY <1>2, <1>4, CalmTasks DEF FlightFor, LoginFor
<1>8. KnownFor(u)'
  BY <1>1, <1>2, <1>3, <1>4 DEF KnownFor
<1>9. EndedFor(u)'
  BY <1>1, <1>2, <1>4 DEF EndedFor
<1> QED BY <1>5, <1>6, <1>7, <1>8, <1>9 DEF OldFor

\* What a login reads is the newest password, and all that was reported.
LEMMA NewestIsFresh ==
  ASSUME TypeOK, DrawnInv, RowInv, NEW u \in User, NEW n \in Nat,
         \/ Exists(u) /\ n = users[u].pw
         \/ u \notin drawn
  PROVE  ~(n < swept[u]) /\ \A r \in Sweeping(u) : ~(n < task[r].pw)
<1>1. swept[u] \in Nat /\ \A r \in Task : task[r].pw \in Nat
  BY DEF TypeOK, TaskState
<1>2. CASE Exists(u) /\ n = users[u].pw
  <2>1. swept[u] <= n
    BY <1>2 DEF RowInv
  <2>2. \A r \in Sweeping(u) : task[r].pw <= n
    BY <1>2 DEF RowInv, Sweeping
  <2> QED BY <1>1, <2>1, <2>2 DEF Sweeping
<1>3. CASE u \notin drawn
  <2>1. swept[u] = 0
    BY <1>1, <1>3 DEF DrawnInv
  <2>2. Sweeping(u) = {}
    BY <1>3 DEF DrawnInv, Sweeping
  <2> QED BY <1>1, <2>1, <2>2
<1> QED BY <1>2, <1>3

Quiet == UNCHANGED <<sess, index, temp, swept, excused>>

LEMMA CalmByTask ==
  ASSUME TypeOK, Quiet, NEW t \in Task, NEW k, task' = [task EXCEPT ![t] = k],
         task[t].op \notin Sweeps, k.op \notin Sweeps \cup {"grant"}
  PROVE  Calm
<1>1. task'[t] = k /\ Alone(t)
  BY DEF TypeOK, Alone
<1>2. sess' = sess \ {} /\ index' = index \ {} /\ temp' = temp \ {}
  BY DEF Quiet
<1> QED BY <1>1, <1>2 DEF Apart, Calm, Quiet

LEMMA CalmByPassing ==
  ASSUME Quiet, NEW t \in Task, NEW o, o \notin Sweeps \cup {"grant"},
         task[t].op \notin Sweeps, Passes(t, o)
  PROVE  Calm
<1>1. sess' = sess \ {} /\ index' = index \ {} /\ temp' = temp \ {}
  BY DEF Quiet
<1> QED BY <1>1 DEF Passes, Apart, Alone, Calm, Quiet

\* A login that has just read the row of u.
LEMMA CalmByLogin ==
  ASSUME TypeOK, DrawnInv, RowInv, Quiet, NEW t \in Task, task[t].op \notin Sweeps,
         NEW u \in User, NEW n \in Nat, NEW S,
         task' = [task EXCEPT ![t] = GrantTask(u, n, S)],
         \/ Exists(u) /\ n = users[u].pw
         \/ u \notin drawn
  PROVE  Calm
<1>1. task'[t] = GrantTask(u, n, S) /\ Alone(t)
  BY DEF TypeOK, Alone
<1>2. task'[t].op = "grant" /\ task'[t].user = {u} /\ task'[t].pw = n
  BY <1>1, GrantTaskFields
<1>3. Fresh(t)
  BY <1>2, NewestIsFresh DEF Fresh
<1>4. sess' = sess \ {} /\ index' = index \ {} /\ temp' = temp \ {}
  BY DEF Quiet
<1> QED BY <1>1, <1>2, <1>3, <1>4 DEF Apart, Sweeps, Calm, Quiet

LEMMA CalmMoves ==
  ASSUME TypeOK, DrawnInv, RowInv,
         \/ [AccountStep \/ ResetStep \/ OAuthStep \/ SessionEnds \/ Tick]_vars
  PROVE  Calm \/ \E t \in Task : Grant(t)
<1> USE DEF rowVars, keyVars, sessVars, historyVars
<1>1. ASSUME NEW t \in Task, NEW u \in User, Register(t, u) PROVE Calm
  BY <1>1, CalmByLogin DEF Register, Quiet, Sweeps
<1>2. ASSUME NEW t \in Task, NEW u \in User, LoginRead(t, u) PROVE Calm
  <2>1. users[u].pw \in Nat
    BY DEF TypeOK, Row
  <2> QED BY <1>2, <2>1, CalmByLogin DEF LoginRead, Quiet, Sweeps
<1>3. ASSUME NEW t \in Task,
             Abort(t) \/ ResetDeleteFails(t) \/ \E k \in Token : ForgotSet(t, k)
      PROVE  Calm
  <2>1. End(t) /\ Quiet /\ task[t].op \notin Sweeps
    BY <1>3 DEF Abort, ResetDeleteFails, ForgotSet, Quiet, Sweeps
  <2>2. Idle.op \notin Sweeps \cup {"grant"}
    BY IdleFields DEF Sweeps
  <2> QED BY <2>1, <2>2, CalmByTask DEF End
<1>4. ASSUME NEW t \in Task, NEW e \in Email, ForgotRead(t, e) PROVE Calm
  <2>1. PICK u \in AccountOf(e) :
          task' = [task EXCEPT ![t] = [Idle EXCEPT !.op = "forgot", !.user = {u}]]
    BY <1>4 DEF ForgotRead
  <2>2. [Idle EXCEPT !.op = "forgot", !.user = {u}].op = "forgot"
    BY DEF Idle
  <2> QED BY <1>4, <2>1, <2>2, CalmByTask DEF ForgotRead, Quiet, Sweeps
<1>5. ASSUME NEW t \in Task, NEW k \in Token, ResetGet(t, k) PROVE Calm
  <2>1. [Idle EXCEPT !.op = "hash", !.token = {k}, !.user = reset[k].user].op = "hash"
    BY DEF Idle
  <2> QED BY <1>5, <2>1, CalmByTask DEF ResetGet, Quiet, Sweeps
<1>6. ASSUME NEW t \in Task, ResetUpdate(t) PROVE Calm
  <2>1. PICK u \in User : UpdateOf(t, u) /\ NewPw(u) \in 0..MaxSets
    BY <1>6, UpdateCases
  <2>2. Updates(t, u) /\ Quiet /\ task[t].op = "hash"
    BY <1>6, <2>1, UpdateMoves DEF ResetUpdate, Quiet
  <2>3. sess' = sess \ {} /\ index' = index \ {} /\ temp' = temp \ {}
    BY <2>2 DEF Quiet
  <2> QED BY <2>2, <2>3 DEF Updates, Apart, Alone, Sweeps, Calm, Quiet
<1>7. ASSUME NEW t \in Task, ResetDelete(t) PROVE Calm
  <2>1. (End(t) \/ Goto(t, "destroy")) /\ Quiet /\ task[t].op = "delete"
    BY <1>7 DEF ResetDelete, Quiet
  <2>2. Idle.op \notin Sweeps \cup {"grant"} /\ "destroy" \notin Sweeps \cup {"grant"}
    BY IdleFields DEF Sweeps
  <2>3. task[t].op \notin Sweeps
    BY <2>1 DEF Sweeps
  <2> QED BY <2>1, <2>2, <2>3, CalmByTask, CalmByPassing, GotoPasses DEF End, Ops
<1>8. ASSUME NEW t \in Task, NEW s \in State, NEW p \in Provider,
             NEW B \in Cookie, CallbackGet(t, s, p, B)
      PROVE  Calm
  <2> DEFINE k == [Idle EXCEPT !.op = "exchange", !.via = {s}, !.provider = {p}]
  <2>1. k.op = "exchange" /\ Idle.op = "idle"
    BY DEF Idle
  <2> HIDE DEF k
  <2>2. task' = [task EXCEPT ![t] = k] \/ task' = [task EXCEPT ![t] = Idle]
    BY <1>8 DEF CallbackGet, k
  <2> QED BY <1>8, <2>1, <2>2, CalmByTask DEF CallbackGet, Quiet, Sweeps
<1>9. ASSUME NEW t \in Task,
             ExchangeCode(t) \/ \E e \in Email :
               FetchGoogle(t, e) \/ FetchGithub(t, e) \/ FetchGithubEmail(t, e)
      PROVE  Calm
  <2>1. Quiet /\ task[t].op \notin Sweeps
    BY <1>9 DEF ExchangeCode, FetchGoogle, FetchGithub, FetchGithubEmail, Quiet, Sweeps
  <2>2. PICK o \in {"userinfo", "emails", "upsert"} : Passes(t, o)
    BY <1>9, ProviderPasses
  <2> QED BY <2>1, <2>2, CalmByPassing DEF Sweeps
<1>10. ASSUME NEW t \in Task, Upsert(t) PROVE Calm
  <2>1. PICK u \in User : \/ MeetsAccount(t, u)
                          \/ \E p \in Provider : MakesAccount(t, u, p)
    BY <1>10, UpsertCases
  <2>2. Quiet /\ task[t].op \notin Sweeps
    BY <1>10 DEF Upsert, Quiet, Sweeps
  <2>3. users[u].pw \in Nat
    BY DEF TypeOK, Row
  <2>4. CASE MeetsAccount(t, u)
    BY <2>2, <2>3, <2>4, CalmByLogin DEF MeetsAccount
  <2>5. ASSUME NEW p \in Provider, MakesAccount(t, u, p) PROVE Calm
    BY <2>2, <2>5, CalmByLogin DEF MakesAccount
  <2> QED BY <2>1, <2>4, <2>5
<1>11. ASSUME NEW x, sess' = sess \ {x} /\ index' = index \ {x} /\ temp' = temp \ {x},
              UNCHANGED <<task, swept, excused>>
       PROVE  Calm
  BY <1>11 DEF Calm
<1>12. CASE SessionEnds
  BY <1>11, <1>12 DEF SessionEnds
<1>13. CASE Quiet /\ UNCHANGED task
  <2>1. sess' = sess \ {} /\ index' = index \ {} /\ temp' = temp \ {}
    BY <1>13 DEF Quiet
  <2> QED BY <1>13, <2>1 DEF Calm, Quiet
<1>14. ASSUME \/ \E u \in User : DeleteUser(u)
              \/ \E s \in State, p \in Provider, B \in Cookie : Redirect(s, p, B)
              \/ \E s \in State : CallbackGetLost(s)
              \/ Tick \/ UNCHANGED vars
       PROVE  Quiet /\ UNCHANGED task
  BY <1>14 DEF DeleteUser, Redirect, CallbackGetLost, Tick, vars, Quiet
<1> QED BY <1>1, <1>2, <1>3, <1>4, <1>5, <1>6, <1>7, <1>8, <1>9, <1>10, <1>12,
           <1>13, <1>14 DEF AccountStep, ResetStep, OAuthStep

\* A session is made by a login that is excused if it has to be.
LEMMA GrantKeepsOld ==
  ASSUME TypeOK, OneInv, OldInv, NEW t \in Task, Grant(t)
  PROVE  OldInv'
<1> SUFFICES ASSUME NEW u \in User PROVE OldFor(u)'
  BY DEF OldInv
<1>1. PICK v \in User : task[t].user = {v}
  BY DEF Grant, OneInv
<1> DEFINE x == LoginFor(t, v)
<1>2. LoginOf(t) = {x} /\ x.user = v /\ x.pw = task[t].pw
  BY <1>1 DEF LoginOf, LoginFor
<1> HIDE DEF x
<1>3. /\ sess' = sess \cup {x} /\ index' = index \cup {x}
      /\ UNCHANGED <<temp, swept, excused>>
  BY <1>2 DEF Grant, historyVars
<1>4. task'[t] = Idle /\ \A r \in Task \ {t} : task'[r] = task[r]
  BY EndMoves DEF Grant
<1>5. Sweeping(u)' = Sweeping(u) /\ \A r \in Sweeping(u) : task'[r] = task[r]
  BY <1>4, IdleFields DEF Grant, Sweeping
<1>6. \A r \in Sweeping(u) : Taken(r)' = Taken(r)
  <2> SUFFICES ASSUME NEW r \in Sweeping(u) PROVE Taken(r)' = Taken(r)
    OBVIOUS
  <2>1. r \in Sweeping(u)' /\ task'[r] = task[r]
    BY <1>5
  <2> QED BY <1>3, <2>1, TakenBy, TakenNext
<1>7. \A g \in Granting(u)' : g \in Granting(u) /\ task'[g] = task[g]
  BY <1>4, IdleFields DEF Granting
<1>8. /\ HeldFor(u) /\ ListedFor(u) /\ FlightFor(u) /\ KnownFor(u) /\ EndedFor(u)
  BY DEF OldInv, OldFor
<1>9. x \in Of(u) => /\ x.pw < swept[u] => x \in excused
                     /\ \A r \in Sweeping(u) : x.pw < task[r].pw => x \in excused
  <2> SUFFICES ASSUME x \in Of(u)
               PROVE  /\ x.pw < swept[u] => x \in excused
                      /\ \A r \in Sweeping(u) : x.pw < task[r].pw => x \in excused
    OBVIOUS
  <2>1. v = u
    BY <1>2 DEF Of
  <2>2. t \in Granting(u)
    BY <1>1, <2>1 DEF Grant, Granting
  <2> QED BY <1>2, <1>8, <2>1, <2>2 DEF FlightFor, x
<1>10. HeldFor(u)'
  BY <1>3, <1>5, <1>6, <1>8, <1>9 DEF HeldFor
<1>11. ListedFor(u)'
  BY <1>3, <1>5, <1>8, <1>9 DEF ListedFor
<1>12. FlightFor(u)'
  BY <1>3, <1>5, <1>7, <1>8 DEF FlightFor, LoginFor
<1>13. KnownFor(u)'
  BY <1>3, <1>5, <1>6, <1>8 DEF KnownFor
<1>14. EndedFor(u)'
  BY <1>3, <1>8, <1>9 DEF EndedFor
<1> QED BY <1>10, <1>11, <1>12, <1>13, <1>14 DEF OldFor

\* A command of a destroy of u leaves the other accounts alone.
Touches(t, u) ==
  /\ task[t].user = {u} /\ Alone(t)
  /\ task[t].op # "grant" /\ task'[t].op # "grant"
  /\ task'[t].op \in Sweeps => task'[t].user = {u} /\ task'[t].pw = task[t].pw
  /\ \A v \in User \ {u} : /\ swept'[v] = swept[v]
                           /\ index' \cap Of(v) = index \cap Of(v)
                           /\ temp' \cap Of(v) = temp \cap Of(v)
  /\ sess' \subseteq sess /\ index' \subseteq index /\ excused \subseteq excused'

LEMMA TouchedTasks ==
  ASSUME NEW t \in Task, NEW u \in User, Touches(t, u), NEW v \in User
  PROVE  /\ Sweeping(v)' \ {t} = Sweeping(v) \ {t}
         /\ \A r \in Task \ {t} : task'[r] = task[r]
         /\ v # u => t \notin Sweeping(v) /\ t \notin Sweeping(v)'
         /\ Granting(v)' = Granting(v)
         /\ \A g \in Granting(v) : g # t /\ LoginFor(g, v)' = LoginFor(g, v)
<1>1. \A r \in Task \ {t} : task'[r] = task[r]
  BY DEF Touches, Alone
<1>2. Granting(v)' = Granting(v) /\ t \notin Granting(v)
  BY <1>1 DEF Touches, Granting
<1>3. Sweeping(v)' \ {t} = Sweeping(v) \ {t}
  BY <1>1 DEF Sweeping
<1>4. v # u => t \notin Sweeping(v) /\ t \notin Sweeping(v)'
  BY DEF Touches, Sweeping, Sweeps
<1>5. \A g \in Granting(v) : g # t /\ LoginFor(g, v)' = LoginFor(g, v)
  BY <1>1, <1>2 DEF LoginFor, Granting
<1> QED BY <1>1, <1>2, <1>3, <1>4, <1>5

LEMMA OthersStay ==
  ASSUME OldInv, NEW t \in Task, NEW u \in User, Touches(t, u), OldFor(u)'
  PROVE  OldInv'
<1> SUFFICES ASSUME NEW v \in User, v # u PROVE OldFor(v)'
  BY DEF OldInv
<1>1. /\ Sweeping(v)' = Sweeping(v) /\ \A r \in Sweeping(v) : task'[r] = task[r]
      /\ Granting(v)' = Granting(v)
      /\ \A g \in Granting(v) : task'[g] = task[g] /\ LoginFor(g, v)' = LoginFor(g, v)
  BY TouchedTasks DEF Sweeping, Granting
<1>2. /\ swept'[v] = swept[v] /\ index' \cap Of(v) = index \cap Of(v)
      /\ temp' \cap Of(v) = temp \cap Of(v)
      /\ sess' \subseteq sess /\ excused \subseteq excused'
  BY DEF Touches
<1>3. \A r \in Sweeping(v) : Taken(r)' = Taken(r)
  <2> SUFFICES ASSUME NEW r \in Sweeping(v) PROVE Taken(r)' = Taken(r)
    OBVIOUS
  <2>1. r \in Sweeping(v)' /\ task'[r] = task[r]
    BY <1>1
  <2> QED BY <1>2, <2>1, TakenBy, TakenNext
<1>4. /\ HeldFor(v) /\ ListedFor(v) /\ FlightFor(v) /\ KnownFor(v) /\ EndedFor(v)
  BY DEF OldInv, OldFor
<1>5. HeldFor(v)'
  BY <1>1, <1>2, <1>3, <1>4 DEF HeldFor
<1>6. ListedFor(v)'
  BY <1>1, <1>2, <1>4 DEF ListedFor
<1>7. FlightFor(v)'
  BY <1>1, <1>2, <1>4 DEF FlightFor
<1>8. KnownFor(v)'
  BY <1>1, <1>2, <1>3, <1>4 DEF KnownFor
<1>9. EndedFor(v)'
  BY <1>1, <1>2, <1>4 DEF EndedFor
<1> QED BY <1>5, <1>6, <1>7, <1>8, <1>9 DEF OldFor

LEMMA TakenStays ==
  ASSUME NEW t \in Task, NEW u \in User, Touches(t, u), temp' = temp,
         NEW r \in Sweeping(u) \ {t}
  PROVE  r \in Sweeping(u)' /\ Taken(r)' = Taken(r)
<1>1. r \in Sweeping(u)' /\ task'[r] = task[r]
  BY TouchedTasks DEF Sweeping
<1> QED BY <1>1, TakenBy, TakenNext

\* A destroy that is under way excuses what another one takes from it.
LEMMA LooseHas ==
  ASSUME NEW u \in User, NEW t \in Task, NEW x \in sess \cap Of(u)
  PROVE  /\ \A r \in Sweeping(u) : x \in Taken(r) => x \in Loose(u)
         /\ \A r \in Sweeping(u) \ {t} : x \in Taken(r) => x \in Meets(t, u)
         /\ KnownFor(u) /\ x \notin index =>
              x \in excused \/ \E r \in Sweeping(u) : x \in Taken(r)
<1>1. \A r \in Sweeping(u) : x \in Taken(r) => x \in Loose(u)
  BY DEF Loose
<1>2. \A r \in Sweeping(u) \ {t} : x \in Taken(r) => x \in Meets(t, u)
  BY <1>1 DEF Meets
<1> QED BY <1>1, <1>2 DEF KnownFor

\* The account a destroy is for.
LEMMA DestroyOf ==
  ASSUME TypeOK, OneInv, NEW t \in Task, NEW u \in task[t].user
  PROVE  u \in User /\ task[t].user = {u}
BY DEF TypeOK, TaskState, OneInv

\* The parts of OldFor that a command of t has to show.
LEMMA OldAfter ==
  ASSUME OldInv, NEW t \in Task, NEW u \in User, Touches(t, u),
         \A r \in Sweeping(u) \ {t}, x \in sess' \cap Of(u) :
           x \in Taken(r) => x \in Taken(r)' \/ x \in excused',
         t \in Sweeping(u)' =>
           /\ \A x \in sess' \cap Of(u) :
                x.pw < task[t].pw => x \in excused' \/ x \in Taken(t)'
           /\ \A x \in index' \cap Of(u) : x.pw < task[t].pw => x \in excused'
           /\ \A g \in Granting(u) : task[g].pw < task[t].pw =>
                LoginFor(g, u) \in excused',
         swept'[u] # swept[u] =>
           /\ swept'[u] = task[t].pw
           /\ \A x \in sess' \cap Of(u) : x.pw < task[t].pw => x \in excused'
           /\ \A g \in Granting(u) : task[g].pw < task[t].pw =>
                LoginFor(g, u) \in excused',
         \A x \in sess' \cap Of(u) : \/ x \in index' \/ x \in excused'
                                     \/ \E r \in Sweeping(u)' : x \in Taken(r)'
  PROVE  OldInv'
<1>1. /\ \A r \in Task \ {t} : task'[r] = task[r]
      /\ \A r \in Sweeping(u)' : r = t \/ r \in Sweeping(u) \ {t}
      /\ t \in Sweeping(u)' => task'[t].pw = task[t].pw
      /\ Sweeping(u) \subseteq Task
  BY TouchedTasks DEF Touches, Sweeping, Sweeps
<1>2. /\ Granting(u)' = Granting(u)
      /\ \A g \in Granting(u) : task'[g] = task[g] /\ LoginFor(g, u)' = LoginFor(g, u)
  BY TouchedTasks DEF Granting
<1>3. sess' \subseteq sess /\ index' \subseteq index /\ excused \subseteq excused'
  BY DEF Touches
<1>4. /\ HeldFor(u) /\ ListedFor(u) /\ FlightFor(u) /\ KnownFor(u) /\ EndedFor(u)
  BY DEF OldInv, OldFor
<1>5. HeldFor(u)'
  <2> SUFFICES ASSUME NEW r \in Sweeping(u)', NEW x \in sess' \cap Of(u),
                      x.pw < task'[r].pw
               PROVE  x \in excused' \/ x \in Taken(r)'
    BY DEF HeldFor
  <2>1. CASE r = t
    BY <1>1, <2>1
  <2>2. CASE r # t
    <3>1. r \in Sweeping(u) \ {t} /\ task'[r] = task[r]
      BY <1>1, <2>2
    <3>2. x \in excused \/ x \in Taken(r)
      BY <1>3, <1>4, <3>1 DEF HeldFor
    <3> QED BY <1>3, <3>1, <3>2
  <2> QED BY <2>1, <2>2
<1>6. ListedFor(u)'
  <2> SUFFICES ASSUME NEW r \in Sweeping(u)', NEW x \in index' \cap Of(u),
                      x.pw < task'[r].pw
               PROVE  x \in excused'
    BY DEF ListedFor
  <2>1. CASE r = t
    BY <1>1, <2>1
  <2>2. CASE r # t
    BY <1>1, <1>3, <1>4, <2>2 DEF ListedFor
  <2> QED BY <2>1, <2>2
<1>7. FlightFor(u)'
  <2>1. ASSUME NEW g \in Granting(u), task[g].pw < swept'[u]
        PROVE  LoginFor(g, u) \in excused'
    BY <1>3, <1>4, <2>1 DEF FlightFor
  <2>2. ASSUME NEW g \in Granting(u), NEW r \in Sweeping(u)',
               task[g].pw < task'[r].pw
        PROVE  LoginFor(g, u) \in excused'
    <3>1. CASE r = t
      BY <1>1, <2>2, <3>1
    <3>2. CASE r # t
      BY <1>1, <1>3, <1>4, <2>2, <3>2 DEF FlightFor
    <3> QED BY <3>1, <3>2
  <2> QED BY <1>2, <2>1, <2>2 DEF FlightFor
<1>8. KnownFor(u)'
  BY DEF KnownFor
<1>9. EndedFor(u)'
  BY <1>3, <1>4 DEF EndedFor
<1>10. OldFor(u)'
  BY <1>5, <1>6, <1>7, <1>8, <1>9 DEF OldFor
<1> QED BY <1>10, OthersStay

\* The steps of a destroy.
LEMMA DestroyKeepsOld ==
  ASSUME TypeOK, OneInv, OldInv, DestroyStep
  PROVE  OldInv'
<1> USE DEF rowVars, keyVars, sessVars, historyVars
<1>0. ASSUME NEW t \in Task, NEW u \in task[t].user
      PROVE  /\ u \in User /\ task[t].user = {u}
             /\ HeldFor(u) /\ ListedFor(u) /\ FlightFor(u) /\ KnownFor(u) /\ EndedFor(u)
             /\ task[t].op \in Sweeps => t \in Sweeping(u)
             /\ swept[u] \in Nat /\ task[t].pw \in Nat
  <2>1. u \in User /\ task[t].user = {u}
    BY DestroyOf
  <2> QED BY <2>1 DEF OldInv, OldFor, Sweeping, Sweeps, TypeOK, TaskState
<1>1. ASSUME NEW t \in Task, Rename(t) PROVE OldInv'
  <2>1. PICK u \in task[t].user :
          /\ MoveIndex(u)
          /\ Excuse(InFlight(u, task[t].pw) \cup Meets(t, u))
    BY <1>1 DEF Rename
  <2>2. Passes(t, "members") /\ sess' = sess /\ swept' = swept /\ task[t].op = "destroy"
    BY <1>1, GotoPasses DEF Rename, Ops
  <2>3. u \in User /\ task[t].user = {u} /\ KnownFor(u)
    BY <1>0
  <2>4. Touches(t, u)
    BY <2>1, <2>2, <2>3 DEF Touches, Passes, Alone, Sweeps, MoveIndex, Excuse, Of
  <2>5. t \notin Sweeping(u) /\ t \in Sweeping(u)' /\ task'[t].op = "members"
    BY <2>2, <2>3 DEF Sweeping, Passes
  <2>6. Taken(t)' = index \cap Of(u)
    BY <2>1, <2>3, <2>5, TakenNext DEF MoveIndex
  <2>7. \A x \in sess \cap Of(u) : x \in Taken(t)' \/ x \in excused'
    BY <2>1, <2>3, <2>5, <2>6, LooseHas DEF Excuse
  <2>8. \A g \in Granting(u) : task[g].pw < task[t].pw => LoginFor(g, u) \in excused'
    BY <2>1, <2>3, FlightHas DEF Excuse
  <2>9. \A r \in Sweeping(u) \ {t}, x \in sess' \cap Of(u) :
          x \in Taken(r) => x \in excused'
    BY <2>1, <2>2, <2>3, LooseHas DEF Excuse
  <2>10. index' \cap Of(u) = {}
    BY <2>1 DEF MoveIndex
  <2> QED BY <2>2, <2>3, <2>4, <2>5, <2>7, <2>8, <2>9, <2>10, OldAfter
<1>2. ASSUME NEW t \in Task, RenameMissing(t) PROVE OldInv'
  <2>1. PICK u \in task[t].user :
          /\ index \cap Of(u) = {}
          /\ Excuse(InFlight(u, task[t].pw) \cup Meets(t, u))
          /\ Answer200(t, u)
    BY <1>2 DEF RenameMissing
  <2>2. sess' = sess /\ index' = index /\ temp' = temp /\ task[t].op = "destroy"
    BY <1>2 DEF RenameMissing
  <2>3. u \in User /\ task[t].user = {u} /\ KnownFor(u)
    BY <1>0
  <2>4. /\ task'[t] = Idle /\ Alone(t)
        /\ swept'[u] = IF task[t].pw > swept[u] THEN task[t].pw ELSE swept[u]
        /\ \A v \in User \ {u} : swept'[v] = swept[v]
    BY <2>1, <2>3, AnswerMoves
  <2>5. Touches(t, u)
    BY <2>1, <2>2, <2>3, <2>4, IdleFields DEF Touches, Sweeps, Excuse
  <2>6. t \notin Sweeping(u) /\ t \notin Sweeping(u)'
    BY <2>2, <2>4, IdleFields DEF Sweeping
  <2>7. \A x \in sess \cap Of(u) : x \in excused'
    BY <2>1, <2>3, <2>6, LooseHas DEF Excuse
  <2>8. \A g \in Granting(u) : task[g].pw < task[t].pw => LoginFor(g, u) \in excused'
    BY <2>1, <2>3, FlightHas DEF Excuse
  <2>9. swept'[u] # swept[u] => swept'[u] = task[t].pw
    BY <2>4
  <2> QED BY <2>2, <2>3, <2>5, <2>6, <2>7, <2>8, <2>9, OldAfter
<1>3. ASSUME NEW t \in Task, RenameFails(t) PROVE OldInv'
  <2>1. PICK u \in task[t].user :
          /\ MoveIndex(u) \/ UNCHANGED <<index, temp>>
          /\ Excuse(InFlight(u, task[t].pw) \cup (sess \cap Of(u)))
          /\ Answer200(t, u)
    BY <1>3 DEF RenameFails
  <2>2. sess' = sess /\ task[t].op = "destroy"
    BY <1>3 DEF RenameFails
  <2>3. u \in User /\ task[t].user = {u}
    BY <1>0
  <2>4. /\ task'[t] = Idle /\ Alone(t)
        /\ swept'[u] = IF task[t].pw > swept[u] THEN task[t].pw ELSE swept[u]
        /\ \A v \in User \ {u} : swept'[v] = swept[v]
    BY <2>1, <2>3, AnswerMoves
  <2>5. /\ index' \subseteq index
        /\ \A v \in User \ {u} : /\ index' \cap Of(v) = index \cap Of(v)
                                 /\ temp' \cap Of(v) = temp \cap Of(v)
    BY <2>1 DEF MoveIndex, Of
  <2>6. Touches(t, u)
    BY <2>1, <2>2, <2>3, <2>4, <2>5, IdleFields DEF Touches, Sweeps, Excuse
  <2>7. t \notin Sweeping(u)'
    BY <2>4, IdleFields DEF Sweeping
  <2>8. \A x \in sess \cap Of(u) : x \in excused'
    BY <2>1 DEF Excuse
  <2>9. \A g \in Granting(u) : task[g].pw < task[t].pw => LoginFor(g, u) \in excused'
    BY <2>1, <2>3, FlightHas DEF Excuse
  <2>10. swept'[u] # swept[u] => swept'[u] = task[t].pw
    BY <2>4
  <2> QED BY <2>2, <2>3, <2>6, <2>7, <2>8, <2>9, <2>10, OldAfter
<1>4. ASSUME NEW t \in Task, Members(t) \/ DelTempFails(t) PROVE OldInv'
  <2>1. /\ task[t].op \in Sweeps /\ Quiet
        /\ \/ Found(t, Taken(t))
           \/ /\ task[t].op = "deltemp"
              /\ Goto(t, "delkeys")
    BY <1>4 DEF Members, DelTempFails, Quiet, Sweeps
  <2>2. /\ Alone(t) /\ task'[t].user = task[t].user /\ task'[t].pw = task[t].pw
        /\ task'[t].op \in {"deltemp", "delkeys"}
    BY <2>1, FoundPasses, GotoPasses DEF Passes, Alone, Ops
  <2>3. PICK u \in User : task[t].user = {u}
    BY <2>1 DEF OneInv, Sweeps
  <2>4. /\ HeldFor(u) /\ ListedFor(u) /\ FlightFor(u) /\ KnownFor(u)
        /\ t \in Sweeping(u)
    BY <1>0, <2>1, <2>3
  <2>5. Touches(t, u)
    BY <2>1, <2>2, <2>3 DEF Touches, Quiet, Sweeps
  <2>6. t \in Sweeping(u)'
    BY <2>2, <2>3 DEF Sweeping
  <2>7. Taken(t)' = Taken(t)
    <3>1. CASE Found(t, Taken(t))
      <4>1. task'[t].found = Taken(t)
        BY <3>1, FoundPasses
      <4> QED BY <2>2, <2>6, <4>1, TakenNext
    <3>2. CASE Goto(t, "delkeys") /\ task[t].op = "deltemp"
      <4>1. task'[t].found = task[t].found
        BY <3>2 DEF Goto, TypeOK, TaskState
      <4> QED BY <2>2, <2>4, <2>6, <3>2, <4>1, TakenBy, TakenNext
    <3> QED BY <2>1, <3>1, <3>2
  <2>8. \A r \in Sweeping(u) \ {t} : r \in Sweeping(u)' /\ Taken(r)' = Taken(r)
    BY <2>1, <2>5, TakenStays DEF Quiet
  <2>9. \A x \in sess' \cap Of(u) : \/ x \in index' \/ x \in excused'
                                    \/ \E r \in Sweeping(u)' : x \in Taken(r)'
    BY <2>1, <2>4, <2>6, <2>7, <2>8 DEF KnownFor, Quiet
  <2>10. /\ \A x \in sess' \cap Of(u) :
              x.pw < task[t].pw => x \in excused' \/ x \in Taken(t)'
         /\ \A x \in index' \cap Of(u) : x.pw < task[t].pw => x \in excused'
         /\ \A g \in Granting(u) : task[g].pw < task[t].pw =>
              LoginFor(g, u) \in excused'
    BY <2>1, <2>4, <2>7 DEF HeldFor, ListedFor, FlightFor, Quiet
  <2> QED BY <2>1, <2>5, <2>8, <2>9, <2>10, OldAfter DEF Quiet
<1>5. ASSUME NEW t \in Task, MembersFails(t) PROVE OldInv'
  <2>1. PICK u \in task[t].user : Excuse(Loose(u))
    BY <1>5 DEF MembersFails
  <2>2. /\ Passes(t, "deltemp") /\ task[t].op \in Sweeps
        /\ UNCHANGED <<sess, index, temp, swept>>
    BY <1>5, FoundPasses DEF MembersFails, Sweeps
  <2>3. /\ u \in User /\ task[t].user = {u} /\ t \in Sweeping(u)
        /\ HeldFor(u) /\ ListedFor(u) /\ FlightFor(u) /\ KnownFor(u)
    BY <1>0, <2>2
  <2>4. Touches(t, u)
    BY <2>1, <2>2, <2>3 DEF Touches, Passes, Alone, Sweeps, Excuse
  <2>5. \A r \in Sweeping(u) \ {t} : r \in Sweeping(u)' /\ Taken(r)' = Taken(r)
    BY <2>2, <2>3, <2>4, TakenStays
  <2>6. \A x \in sess \cap Of(u) : x \in Taken(t) => x \in excused'
    BY <2>1, <2>3, LooseHas DEF Excuse
  <2>7. excused \subseteq excused'
    BY <2>1 DEF Excuse
  <2>8. \A x \in sess' \cap Of(u) : \/ x \in index' \/ x \in excused'
                                    \/ \E r \in Sweeping(u)' : x \in Taken(r)'
    BY <2>2, <2>3, <2>5, <2>6, <2>7 DEF KnownFor
  <2>9. /\ \A x \in sess' \cap Of(u) : x.pw < task[t].pw => x \in excused'
        /\ \A x \in index' \cap Of(u) : x.pw < task[t].pw => x \in excused'
        /\ \A g \in Granting(u) : task[g].pw < task[t].pw =>
             LoginFor(g, u) \in excused'
    BY <2>2, <2>3, <2>6, <2>7 DEF HeldFor, ListedFor, FlightFor
  <2> QED BY <2>2, <2>3, <2>4, <2>5, <2>8, <2>9, OldAfter
<1>6. ASSUME NEW t \in Task, DelTemp(t) PROVE OldInv'
  <2>1. PICK u \in task[t].user : temp' = temp \ Of(u) /\ Excuse(Meets(t, u))
    BY <1>6 DEF DelTemp
  <2>2. /\ Passes(t, "delkeys") /\ task'[t].found = task[t].found
        /\ task[t].op = "deltemp" /\ UNCHANGED <<sess, index, swept>>
    BY <1>6, GotoPasses DEF DelTemp, Ops, Goto, TypeOK, TaskState
  <2>3. /\ u \in User /\ task[t].user = {u} /\ t \in Sweeping(u)
        /\ HeldFor(u) /\ ListedFor(u) /\ FlightFor(u) /\ KnownFor(u)
    BY <1>0, <2>2 DEF Sweeps
  <2>4. Touches(t, u)
    BY <2>1, <2>2, <2>3 DEF Touches, Passes, Alone, Sweeps, Excuse, Of
  <2>5. t \in Sweeping(u)' /\ Taken(t)' = Taken(t)
    <3>1. t \in Sweeping(u)'
      BY <2>2, <2>3 DEF Passes, Sweeping
    <3> QED BY <2>2, <2>3, <3>1, TakenBy, TakenNext DEF Passes
  <2>6. \A r \in Sweeping(u) \ {t}, x \in sess' \cap Of(u) :
          x \in Taken(r) => x \in excused'
    BY <2>1, <2>2, <2>3, LooseHas DEF Excuse
  <2>7. excused \subseteq excused'
    BY <2>1 DEF Excuse
  <2>8. \A x \in sess' \cap Of(u) : \/ x \in index' \/ x \in excused'
                                    \/ \E r \in Sweeping(u)' : x \in Taken(r)'
    BY <2>2, <2>3, <2>5, <2>6, <2>7 DEF KnownFor
  <2>9. /\ \A x \in sess' \cap Of(u) :
             x.pw < task[t].pw => x \in excused' \/ x \in Taken(t)'
        /\ \A x \in index' \cap Of(u) : x.pw < task[t].pw => x \in excused'
        /\ \A g \in Granting(u) : task[g].pw < task[t].pw =>
             LoginFor(g, u) \in excused'
    BY <2>2, <2>3, <2>5, <2>7 DEF HeldFor, ListedFor, FlightFor
  <2> QED BY <2>2, <2>3, <2>4, <2>6, <2>8, <2>9, OldAfter
<1>7. ASSUME NEW t \in Task, DelKeys(t) PROVE OldInv'
  <2>1. PICK u \in task[t].user :
          \E S \in SUBSET (task[t].found \cap
                 (excused \cup UNION {Taken(r) : r \in Sweeping(u) \ {t}})) :
            /\ sess' = sess \ (task[t].found \ (index \cup S))
            /\ Excuse(Meets(t, u))
            /\ Answer200(t, u)
    BY <1>7 DEF DelKeys
  <2>2. PICK S \in SUBSET (task[t].found \cap
                 (excused \cup UNION {Taken(r) : r \in Sweeping(u) \ {t}})) :
            /\ sess' = sess \ (task[t].found \ (index \cup S))
            /\ Excuse(Meets(t, u))
            /\ Answer200(t, u)
    BY <2>1
  <2>3. index' = index /\ temp' = temp /\ task[t].op = "delkeys"
    BY <1>7 DEF DelKeys
  <2>4. /\ u \in User /\ task[t].user = {u} /\ t \in Sweeping(u)
        /\ HeldFor(u) /\ ListedFor(u) /\ FlightFor(u) /\ KnownFor(u)
    BY <1>0, <2>3 DEF Sweeps
  <2>5. /\ task'[t] = Idle /\ Alone(t)
        /\ swept'[u] = IF task[t].pw > swept[u] THEN task[t].pw ELSE swept[u]
        /\ \A v \in User \ {u} : swept'[v] = swept[v]
    BY <2>2, <2>4, AnswerMoves
  <2>6. Touches(t, u)
    BY <2>2, <2>3, <2>4, <2>5, IdleFields DEF Touches, Sweeps, Excuse
  <2>7. t \notin Sweeping(u)'
    BY <2>5, IdleFields DEF Sweeping
  <2>8. \A r \in Sweeping(u) \ {t} : r \in Sweeping(u)' /\ Taken(r)' = Taken(r)
    BY <2>3, <2>4, <2>6, TakenStays
  <2>9. excused \subseteq excused' /\ sess' \subseteq sess
    BY <2>2 DEF Excuse
  <2>10. Taken(t) = task[t].found
    BY <2>3, <2>4, TakenBy
  <2>11. \A x \in sess' \cap Of(u) : x \in Taken(t) =>
           \/ x \in index \/ x \in excused
           \/ \E r \in Sweeping(u) \ {t} : x \in Taken(r)
    BY <2>2, <2>10
  <2>12. \A x \in sess' \cap Of(u), r \in Sweeping(u) \ {t} :
           x \in Taken(r) => x \in excused'
    BY <2>2, <2>4, <2>9, LooseHas DEF Excuse
  <2>13. \A x \in sess' \cap Of(u) : \/ x \in index' \/ x \in excused'
                                     \/ \E r \in Sweeping(u)' : x \in Taken(r)'
    BY <2>3, <2>4, <2>9, <2>11, <2>12 DEF KnownFor
  <2>14. \A x \in sess' \cap Of(u) : x.pw < task[t].pw => x \in excused'
    BY <2>4, <2>9, <2>11, <2>12 DEF HeldFor, ListedFor
  <2>15. \A g \in Granting(u) : task[g].pw < task[t].pw => LoginFor(g, u) \in excused'
    BY <2>4, <2>9 DEF FlightFor
  <2>16. swept'[u] # swept[u] => swept'[u] = task[t].pw
    BY <2>5
  <2> QED BY <2>4, <2>6, <2>7, <2>8, <2>13, <2>14, <2>15, <2>16, OldAfter
<1>8. ASSUME NEW t \in Task, DelKeysFails(t) \/ DropDestroy(t) PROVE OldInv'
  <2>1. PICK u \in task[t].user :
          /\ Excuse(Loose(u))
          /\ \/ Answer200(t, u)
             \/ /\ End(t)
                /\ swept' = swept
    BY <1>8 DEF DelKeysFails, DropDestroy
  <2>2. UNCHANGED <<sess, index, temp>> /\ task[t].op \in Sweeps
    BY <1>8 DEF DelKeysFails, DropDestroy, Sweeping, Sweeps
  <2>3. /\ u \in User /\ task[t].user = {u} /\ t \in Sweeping(u)
        /\ HeldFor(u) /\ ListedFor(u) /\ FlightFor(u) /\ KnownFor(u)
    BY <1>0, <2>2
  <2>4. /\ task'[t] = Idle /\ Alone(t)
        /\ swept'[u] # swept[u] => swept'[u] = task[t].pw
        /\ \A v \in User \ {u} : swept'[v] = swept[v]
    BY <2>1, <2>3, AnswerMoves, EndMoves DEF Alone
  <2>5. Touches(t, u)
    BY <2>1, <2>2, <2>3, <2>4, IdleFields DEF Touches, Sweeps, Excuse
  <2>6. t \notin Sweeping(u)'
    BY <2>4, IdleFields DEF Sweeping
  <2>7. \A r \in Sweeping(u) \ {t} : r \in Sweeping(u)' /\ Taken(r)' = Taken(r)
    BY <2>2, <2>3, <2>5, TakenStays
  <2>8. \A x \in sess \cap Of(u) : x \in Taken(t) => x \in excused'
    BY <2>1, <2>3, LooseHas DEF Excuse
  <2>9. excused \subseteq excused'
    BY <2>1 DEF Excuse
  <2>10. \A x \in sess' \cap Of(u) : \/ x \in index' \/ x \in excused'
                                     \/ \E r \in Sweeping(u)' : x \in Taken(r)'
    BY <2>2, <2>3, <2>7, <2>8, <2>9 DEF KnownFor
  <2>11. /\ \A x \in sess' \cap Of(u) : x.pw < task[t].pw => x \in excused'
         /\ \A g \in Granting(u) : task[g].pw < task[t].pw =>
              LoginFor(g, u) \in excused'
    BY <2>2, <2>3, <2>8, <2>9 DEF HeldFor, FlightFor
  <2> QED BY <2>3, <2>4, <2>5, <2>6, <2>7, <2>10, <2>11, OldAfter
<1> QED BY <1>1, <1>2, <1>3, <1>4, <1>5, <1>6, <1>7, <1>8 DEF DestroyStep

\* A reset excuses what it reports without having ended it.
LEMMA OldStep ==
  TypeOK /\ DrawnInv /\ OneInv /\ RowInv /\ OldInv /\ [Next]_vars => OldInv'
<1> SUFFICES ASSUME TypeOK, DrawnInv, OneInv, RowInv, OldInv, [Next]_vars
             PROVE OldInv'
  OBVIOUS
<1>1. CASE DestroyStep
  BY <1>1, DestroyKeepsOld
<1>2. CASE [AccountStep \/ ResetStep \/ OAuthStep \/ SessionEnds \/ Tick]_vars
  BY <1>2, CalmMoves, CalmStep, GrantKeepsOld
<1> QED BY <1>1, <1>2 DEF Next

\* Register, the UPSERT, the UPDATE and the deletion are all that touch a row.
LEMMA PasswordStep ==
  TypeOK /\ PasswordMatchesProvider /\ [Next]_vars => PasswordMatchesProvider'
<1> SUFFICES ASSUME TypeOK, PasswordMatchesProvider, [Next]_vars
             PROVE  PasswordMatchesProvider'
  OBVIOUS
<1>1. ASSUME NEW t \in Task, NEW u \in User, Register(t, u)
      PROVE  PasswordMatchesProvider'
  BY <1>1 DEF Register, PasswordMatchesProvider, TypeOK, Row
<1>2. ASSUME NEW u \in User, DeleteUser(u) PROVE PasswordMatchesProvider'
  BY <1>2 DEF DeleteUser, NoRow, PasswordMatchesProvider, TypeOK, Row
<1>3. ASSUME NEW t \in Task, ResetUpdate(t) PROVE PasswordMatchesProvider'
  <2>1. PICK u \in User : UpdateOf(t, u) /\ NewPw(u) \in 0..MaxSets
    BY <1>3, UpdateCases
  <2>2. CASE users[u].provider = "local"
    <3>1. NewPw(u) > 0 /\ users' = [users EXCEPT ![u].pw = NewPw(u)]
      BY <2>1, <2>2 DEF NewPw, UpdateOf, TypeOK, Row
    <3> QED BY <2>2, <3>1 DEF PasswordMatchesProvider, TypeOK, Row
  <2>3. CASE users[u].provider # "local"
    <3>1. users' = users
      BY <2>1, <2>3 DEF NewPw, UpdateOf
    <3> QED BY <3>1 DEF PasswordMatchesProvider
  <2> QED BY <2>2, <2>3
<1>4. ASSUME NEW t \in Task, Upsert(t) PROVE PasswordMatchesProvider'
  <2>1. PICK u \in User : \/ MeetsAccount(t, u)
                          \/ \E p \in Provider : MakesAccount(t, u, p)
    BY <1>4, UpsertCases
  <2>2. CASE MeetsAccount(t, u)
    BY <2>2 DEF MeetsAccount, rowVars, PasswordMatchesProvider
  <2>3. CASE \E p \in Provider : MakesAccount(t, u, p)
    BY <2>3 DEF MakesAccount, Provider, PasswordMatchesProvider, TypeOK, Row
  <2> QED BY <2>1, <2>2, <2>3
<1>5. CASE UNCHANGED users
  BY <1>5 DEF PasswordMatchesProvider
<1>6. CASE DestroyStep
  BY <1>5, <1>6, DestroyMoves DEF Destroys
<1> QED BY <1>1, <1>2, <1>3, <1>4, <1>5, <1>6
           DEF Next, AccountStep, ResetStep, OAuthStep, LoginRead, Grant, Abort,
               ForgotRead, ForgotSet, ResetGet, ResetDelete, ResetDeleteFails,
               Redirect, CallbackGet,
               CallbackGetLost, ExchangeCode, FetchGoogle, FetchGithub,
               FetchGithubEmail, SessionEnds, Tick, rowVars, vars

-----------------------------------------------------------------------------
TokenInv ==
  /\ TypeOK /\ DrawnInv /\ OneInv /\ SpentInv /\ StateInv /\ RowInv /\ OldInv

LEMMA TokenInvAlways == Spec => []TokenInv
<1>1. Init => DrawnInv /\ OneInv /\ SpentInv
  BY DEF Init, DrawnInv, OneInv, SpentInv, Exists, NoRow, NoReset, NoState, Idle
<1>2. Init => StateInv /\ RowInv /\ OldInv
  BY DEF Init, StateInv, RowInv, OldInv, OldFor, HeldFor, ListedFor, FlightFor,
         KnownFor, EndedFor, Sweeping, Granting, Carries, Exists, NoRow, NoState, Idle
<1> QED BY <1>1, <1>2, TypeCorrect, DrawnStep, OneStep, SpentStep, StateStep,
           RowStep, OldStep, PTL DEF Spec, TokenInv

\* A set without two different elements has at most one.
LEMMA AtMostOne ==
  ASSUME NEW S, \A x, y \in S : x = y
  PROVE  Cardinality(S) <= 1
<1>1. CASE S = {}
  BY <1>1, FS_EmptySet
<1>2. CASE S # {}
  <2>1. PICK x : S = {x}
    BY <1>2
  <2> QED BY <2>1, FS_Singleton
<1> QED BY <1>1, <1>2

\* GETDEL lets one callback through, however many race with one OAuth state
\* and whatever replies are lost.
THEOREM StatesActOnce == Spec => []StateOnce
<1>1. StateInv => StateOnce
  <2> SUFFICES ASSUME StateInv, NEW s \in State
               PROVE  Cardinality({t \in Task : s \in task[t].via}
                                    \cup {x \in sess : s \in x.via}) <= 1
    BY DEF StateOnce
  <2>1. \A a, b \in {t \in Task : s \in task[t].via}
                      \cup {x \in sess : s \in x.via} : a = b
    BY DEF StateInv, Carries
  <2> QED BY <2>1, AtMostOne
<1> QED BY <1>1, TokenInvAlways, PTL DEF TokenInv

-----------------------------------------------------------------------------
(* The refinement of Baton: what a step does to where the states are.      *)

\* A task that ended has no state, and a callback has one.
ViaInv ==
  \A t \in Task : /\ task[t].op = "idle" => task[t].via = {}
                  /\ \A f, g \in task[t].via : f = g

LEMMA ViaAlways == Spec => []ViaInv
<1>1. Init => ViaInv
  BY IdleFields DEF Init, ViaInv
<1>2. TypeOK /\ ViaInv /\ [Next]_vars => ViaInv'
  <2> SUFFICES ASSUME TypeOK, ViaInv, StateMove PROVE ViaInv'
    BY StateMoves
  <2> QED BY DEF StateMove, Lapses, Lets, Begins, Handed, Opened, Alone, ViaInv
<1> QED BY <1>1, <1>2, TypeCorrect, PTL DEF Spec

Nowhere(s) == /\ ~(csrf[s].ttl > 0)
              /\ \A t \in Task : ~Carries(t, s)
              /\ \A x \in sess : s \notin x.via

\* Who has a state, from the one place where it is.
At(s) ==
  /\ csrf[s].ttl > 0 => HandsOf(s) = {InRedis}
  /\ \A t \in Task : Carries(t, s) => HandsOf(s) = {<<"task", t>>}
  /\ \A x \in sess : s \in x.via => HandsOf(s) = {<<"session", x>>}
  /\ Nowhere(s) => HandsOf(s) = {}
Placed == \A s \in State : At(s)

LEMMA Places == StateInv => Placed
<1> SUFFICES ASSUME StateInv, NEW s \in State
             PROVE  At(s)
  BY DEF Placed
<1> DEFINE R == {k \in {InRedis} : csrf[s].ttl > 0}
           C == {h \in Callbacks : s \in task[h[2]].via}
           L == {x \in sess : s \in x.via}
           S == {"session"} \X L
<1>1. HandsOf(s) = R \cup C \cup S
  BY DEF HandsOf
<1>2. IF csrf[s].ttl > 0 THEN R = {InRedis} ELSE R = {}
  OBVIOUS
<1>3. ASSUME \A t \in Task : ~Carries(t, s) PROVE C = {}
  BY <1>3 DEF Callbacks, Carries
<1>4. ASSUME NEW t \in Task, Carries(t, s) PROVE C = {<<"task", t>>}
  <2>1. \A h \in Callbacks : h = <<"task", h[2]>> /\ h[2] \in Task
    BY DEF Callbacks
  <2>2. <<"task", t>> \in Callbacks
    BY DEF Callbacks
  <2>3. \A r \in Task : Carries(r, s) => r = t
    BY <1>4 DEF StateInv
  <2> QED BY <1>4, <2>1, <2>2, <2>3 DEF Carries
<1>5. ASSUME \A x \in sess : s \notin x.via PROVE S = {}
  BY <1>5
<1>6. ASSUME NEW x \in sess, s \in x.via PROVE S = {<<"session", x>>}
  <2>1. L = {x}
    BY <1>6 DEF StateInv
  <2> QED BY <2>1
<1> HIDE DEF R, C, L, S
<1>7. ASSUME csrf[s].ttl > 0 PROVE HandsOf(s) = {InRedis}
  <2>1. R = {InRedis} /\ C = {} /\ S = {}
    BY <1>2, <1>3, <1>5, <1>7 DEF StateInv
  <2> QED BY <1>1, <2>1
<1>8. ASSUME NEW t \in Task, Carries(t, s) PROVE HandsOf(s) = {<<"task", t>>}
  <2>1. R = {} /\ S = {}
    BY <1>2, <1>5, <1>8 DEF StateInv
  <2> QED BY <1>1, <1>4, <1>8, <2>1
<1>9. ASSUME NEW x \in sess, s \in x.via PROVE HandsOf(s) = {<<"session", x>>}
  <2>1. R = {} /\ C = {}
    BY <1>2, <1>3, <1>9 DEF StateInv
  <2> QED BY <1>1, <1>6, <1>9, <2>1
<1>10. ASSUME Nowhere(s) PROVE HandsOf(s) = {}
  BY <1>1, <1>2, <1>3, <1>5, <1>10 DEF Nowhere
<1> QED BY <1>7, <1>8, <1>9, <1>10 DEF At

BatonStep == [OAuth!Next]_(OAuth!vars)

LEMMA StatesStay ==
  ASSUME Placed, Placed', NEW s \in State,
         csrf'[s].ttl > 0 <=> csrf[s].ttl > 0,
         \A t \in Task : Carries(t, s)' <=> Carries(t, s),
         \A x : x \in sess' /\ s \in x.via <=> x \in sess /\ s \in x.via
  PROVE  HandsOf(s)' = HandsOf(s)
<1>0. At(s) /\ At(s)'
  BY DEF Placed
<1>1. CASE Nowhere(s)
  <2>1. Nowhere(s)'
    BY <1>1 DEF Nowhere
  <2> QED BY <1>0, <1>1, <2>1 DEF At
<1>2. CASE csrf[s].ttl > 0
  BY <1>0, <1>2 DEF At
<1>3. ASSUME NEW t \in Task, Carries(t, s) PROVE HandsOf(s)' = HandsOf(s)
  <2>1. HandsOf(s) = {<<"task", t>>}
    BY <1>0, <1>3 DEF At
  <2>2. HandsOf(s)' = {<<"task", t>>}
    BY <1>0, <1>3 DEF At
  <2> QED BY <2>1, <2>2
<1>4. ASSUME NEW x \in sess, s \in x.via PROVE HandsOf(s)' = HandsOf(s)
  <2>1. HandsOf(s) = {<<"session", x>>}
    BY <1>0, <1>4 DEF At
  <2>2. x \in sess'
    BY <1>4
  <2>3. HandsOf(s)' = {<<"session", x>>}
    BY <1>0, <1>4, <2>2 DEF At
  <2> QED BY <2>1, <2>3
<1> QED BY <1>1, <1>2, <1>3, <1>4 DEF Nowhere

LEMMA LoseRefines ==
  ASSUME Placed, Placed', Lapses
  PROVE  BatonStep
<1> DEFINE X == {s \in State : HandsOf(s)' = {}}
<1>1. ASSUME NEW s \in State
      PROVE  IF s \in X THEN HandsOf(s)' = {} ELSE HandsOf(s)' = HandsOf(s)
  <2>0. At(s) /\ At(s)'
    BY DEF Placed
  <2>1. CASE Nowhere(s)'
    BY <2>0, <2>1 DEF At
  <2>2. CASE csrf'[s].ttl > 0
    BY <2>0, <2>2 DEF At, Lapses
  <2>3. ASSUME NEW t \in Task, Carries(t, s)' PROVE HandsOf(s)' = HandsOf(s)
    <3>1. Carries(t, s)
      BY <2>3 DEF Lapses, Lets, Alone, Carries
    <3>2. HandsOf(s) = {<<"task", t>>}
      BY <2>0, <3>1 DEF At
    <3>3. HandsOf(s)' = {<<"task", t>>}
      BY <2>0, <2>3 DEF At
    <3> QED BY <3>2, <3>3
  <2>4. ASSUME NEW x \in sess', s \in x.via PROVE HandsOf(s)' = HandsOf(s)
    <3>1. x \in sess
      BY DEF Lapses
    <3>2. HandsOf(s) = {<<"session", x>>}
      BY <2>0, <2>4, <3>1 DEF At
    <3>3. HandsOf(s)' = {<<"session", x>>}
      BY <2>0, <2>4 DEF At
    <3> QED BY <3>2, <3>3
  <2> QED BY <2>1, <2>2, <2>3, <2>4 DEF Nowhere
<1>2. X \in SUBSET State
  OBVIOUS
<1> HIDE DEF X
<1>3. OAuth!Lose(X)
  BY <1>1, <1>2 DEF OAuth!Lose
<1> QED BY <1>2, <1>3 DEF BatonStep, OAuth!Next

LEMMA BeginRefines ==
  ASSUME DrawnInv, Placed, Placed', NEW s \in State, Begins(s)
  PROVE  BatonStep
<1>1. Nowhere(s)
  BY DEF Begins, DrawnInv, Nowhere, Carries
<1>2. HandsOf(s) = {} /\ HandsOf(s)' = {InRedis}
  BY <1>1 DEF Placed, At, Begins
<1>3. ASSUME NEW g \in State \ {s} PROVE HandsOf(g)' = HandsOf(g)
  BY <1>3, StatesStay DEF Begins, Others, Carries
<1>4. OAuth!Begin(s, InRedis, {})
  BY <1>2, <1>3 DEF OAuth!Begin
<1> QED BY <1>4 DEF BatonStep, OAuth!Next

\* A state goes from the hand g to the hand h.
LEMMA PassRefines ==
  ASSUME NEW s \in State, NEW g, NEW h,
         <<g, h>> \in ({InRedis} \X Callbacks) \cup (Callbacks \X Sessions),
         HandsOf(s) = {g}, HandsOf(s)' = {h},
         \A f \in State \ {s} : HandsOf(f)' = HandsOf(f)
  PROVE  BatonStep
<1> DEFINE w == <<g, h>>
<1>1. OAuth!Pass(s, w[1], w[2])
  BY DEF OAuth!Pass
<1>2. w \in ({InRedis} \X Callbacks) \cup (Callbacks \X Sessions)
  OBVIOUS
<1> HIDE DEF w
<1> QED BY <1>1, <1>2 DEF BatonStep, OAuth!Next

LEMMA HandedRefines ==
  ASSUME ViaInv, Placed, Placed', NEW s \in State, NEW t \in Task, Handed(s, t)
  PROVE  BatonStep
<1>1. At(s) /\ At(s)'
  BY DEF Placed
<1>2. HandsOf(s) = {InRedis} /\ HandsOf(s)' = {<<"task", t>>}
  BY <1>1 DEF At, Handed, Carries
<1>3. ASSUME NEW f \in State \ {s} PROVE HandsOf(f)' = HandsOf(f)
  <2>1. \A r \in Task : Carries(r, f)' <=> Carries(r, f)
    BY DEF Handed, Alone, ViaInv, Carries
  <2> QED BY <2>1, StatesStay DEF Handed, Others
<1>4. <<InRedis, <<"task", t>>>> \in {InRedis} \X Callbacks
  BY DEF Callbacks
<1> QED BY <1>2, <1>3, <1>4, PassRefines

LEMMA GrantRefines ==
  ASSUME TypeOK, OneInv, ViaInv, StateInv, Placed, Placed', NEW t \in Task, Opened(t)
  PROVE  BatonStep
<1>1. PICK x \in Login : sess' = sess \cup {x} /\ x.via = task[t].via
  BY OpenedLogin
<1>2. ASSUME NEW f \in State, ~Carries(t, f) PROVE HandsOf(f)' = HandsOf(f)
  <2>1. \A r \in Task : Carries(r, f)' <=> Carries(r, f)
    BY <1>2 DEF Opened, Alone, Carries
  <2>2. f \notin x.via
    BY <1>1, <1>2 DEF Carries
  <2> QED BY <1>1, <2>1, <2>2, StatesStay DEF Opened
<1>3. ASSUME NEW s \in State, Carries(t, s) PROVE BatonStep
  <2>1. HandsOf(s) = {<<"task", t>>} /\ HandsOf(s)' = {<<"session", x>>}
    <3>1. At(s) /\ At(s)'
      BY DEF Placed
    <3>2. HandsOf(s) = {<<"task", t>>}
      BY <1>3, <3>1 DEF At
    <3>3. HandsOf(s)' = {<<"session", x>>}
      BY <1>1, <1>3, <3>1 DEF At, Carries
    <3> QED BY <3>2, <3>3
  <2>2. \A f \in State \ {s} : ~Carries(t, f)
    BY <1>3 DEF ViaInv, Carries
  <2>3. <<<<"task", t>>, <<"session", x>>>> \in Callbacks \X Sessions
    BY DEF Callbacks, Sessions
  <2> QED BY <1>2, <2>1, <2>2, <2>3, PassRefines
<1>4. ASSUME \A f \in State : HandsOf(f)' = HandsOf(f) PROVE BatonStep
  BY <1>4 DEF BatonStep, OAuth!vars
<1> QED BY <1>2, <1>3, <1>4

\* The state of an OAuth login is a Baton: GETDEL takes it out of Redis for
\* one callback, and only from that one a session gets it (oauth_callback).
THEOREM OAuthImplementsBaton == Spec => StateIsABaton
<1>1. Init => OAuth!Init
  <2> SUFFICES ASSUME Init, NEW s \in State PROVE HandsOf(s) = {}
    BY DEF OAuth!Init
  <2>1. Nowhere(s) /\ StateInv
    BY IdleFields DEF Init, Nowhere, StateInv, Carries, NoState
  <2> QED BY <2>1, Places DEF Placed, At
<1>2. TokenInv /\ TokenInv' /\ ViaInv /\ [Next]_vars => [OAuth!Next]_(OAuth!vars)
  <2> SUFFICES ASSUME TokenInv, TokenInv', ViaInv, [Next]_vars PROVE BatonStep
    BY DEF BatonStep
  <2>1. StateInv /\ Placed
    BY Places DEF TokenInv
  <2>2. StateInv'
    BY DEF TokenInv
  <2>3. StateInv' => Placed'
    BY Places, PTL
  <2>4. StateMove
    BY StateMoves DEF TokenInv
  <2> QED
    BY <2>1, <2>2, <2>3, <2>4, LoseRefines, BeginRefines, HandedRefines, GrantRefines
    DEF StateMove, TokenInv
<1> QED BY <1>1, <1>2, TokenInvAlways, ViaAlways, PTL
           DEF Spec, StateIsABaton, OAuth!Spec

\* A reset token whose DEL returned sets no password but by requests that had
\* read it before, and is never handed out again.
THEOREM SpentTokensStayDead == Spec => []SpentTokensAreDead
<1>1. SpentInv => SpentTokensAreDead
  BY DEF SpentInv, SpentTokensAreDead
<1> QED BY <1>1, TokenInvAlways, PTL DEF TokenInv

\* An account has a password exactly if it is a local one, whatever OAuth
\* callbacks, resets and deletions race.
THEOREM PasswordsMatch == Spec => []PasswordMatchesProvider
<1>1. Init => PasswordMatchesProvider
  BY DEF Init, NoRow, PasswordMatchesProvider
<1> QED BY <1>1, PasswordStep, TypeCorrect, PTL DEF Spec

\* After reset_password has answered 200, a session made with an older password
\* is alive only as a login that had no session yet at its RENAME, or because
\* another reset of the account was under way, or because a command of a destroy
\* failed or its request was dropped.
THEOREM OldLoginsEnd == Spec => []ResetEndsOldLogins
<1>1. TypeOK /\ OldInv => ResetEndsOldLogins
  <2> SUFFICES ASSUME TypeOK, OldInv, NEW x \in sess, x.pw < swept[x.user]
               PROVE  x \in excused
    BY DEF ResetEndsOldLogins
  <2>1. x.user \in User /\ x \in Of(x.user)
    BY DEF TypeOK, Login, Of
  <2> QED BY <2>1 DEF OldInv, OldFor, EndedFor
<1> QED BY <1>1, TokenInvAlways, PTL DEF TokenInv
=============================================================================
