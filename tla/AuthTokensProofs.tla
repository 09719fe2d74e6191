-------------------------- MODULE AuthTokensProofs --------------------------
(***************************************************************************)
(* Theorems about AuthTokens.  Three inductive invariants, each over the   *)
(* part of the state its property is about: where the refresh tokens of a  *)
(* login are (FamInv, from which the refinement of Baton follows too), how *)
(* long blacklist entries and sessions last after a logout (CoverInv), and *)
(* who registered a row (RowInv).                                          *)
(***************************************************************************)
EXTENDS RotationRefinement, FiniteSetTheorems, TLAPS

\* A family is with one bundle or one task.
ChainInv ==
  \A f \in Family :
    /\ \A b, c \in Bundle : f \in cred[b].fam /\ f \in cred[c].fam => b = c
    /\ \A t, r \in Task : Carries(t, f) /\ Carries(r, f) => t = r
    /\ \A b \in Bundle, t \in Task : ~(f \in cred[b].fam /\ Carries(t, f))

\* A bundle has the token of one login, and so has a task; a bundle whose
\* refresh token is gone has none.
SoleInv ==
  /\ \A b \in Bundle : \A f, g \in cred[b].fam : f = g
  /\ \A t \in Task : \A f, g \in Family : Carries(t, f) /\ Carries(t, g) => f = g
FadedInv == \A b \in Bundle : cred[b].refresh = 0 => cred[b].fam = {}

FamInv == ChainInv /\ SoleInv /\ FadedInv

\* A bundle whose session is about to be created is known to nobody else.
FreshInv ==
  \A t \in Task, b \in Bundle :
    task[t].op = "session" /\ b \in task[t].bundle =>
      /\ \A r \in Task : b \in task[r].bundle => r = t
      /\ \A w \in Ways : <<b, w>> \notin out

\* A logout that has written its blacklist entry, or has been answered.
Ending(b, w) ==
  \/ <<b, w>> \in out
  \/ \E t \in Task : task[t].op = "destroy" /\ b \in task[t].bundle /\ w \in task[t].way

\* The entry outlasts what it is there to refuse.
Covered(b, w) ==
  IF w = "bearer" THEN cred[b].jwt <= black[b] + Leeway
                  ELSE cred[b].session <= blank

\* A request comes with one credential.
OneInv ==
  \A t \in Task : /\ \A b, c \in task[t].bundle : b = c
                  /\ \A v, w \in task[t].way : v = w

CoverInv ==
  /\ FreshInv /\ OneInv
  /\ \A b \in Bundle, w \in Ways : Ending(b, w) => Covered(b, w)

\* A register that has its row and has not answered yet.
Pending(t) == task[t].op \in {"grant", "session"} /\ task[t].email # {}

\* Its id is nobody else's, and its row was not answered 201 before.
RowInv ==
  /\ \A e \in Email : row[e] \subseteq drawn
  /\ \A t \in Task : Pending(t) =>
       /\ \E u \in drawn : task[t].user = {u}
       /\ \A r \in Task : Pending(r) /\ task[r].user = task[t].user => r = t
       /\ \A e \in task[t].email : task[t].user \subseteq row[e] => e \notin granted
-----------------------------------------------------------------------------
LEMMA LessType == \A m \in Nat : \A n \in 0..m : Less(n) \in 0..m /\ Less(n) <= n
BY DEF Less

LEMMA JobTypes ==
  ASSUME TypeOK, NEW t \in Task
  PROVE  /\ task[t].op \in Ops /\ task[t].email \in SUBSET Email
         /\ task[t].user \in SUBSET Uid /\ task[t].fam \in SUBSET Family
         /\ task[t].bundle \in SUBSET Bundle /\ task[t].way \in SUBSET Ways
BY DEF TypeOK, Jobs

LEMMA JobType ==
  ASSUME NEW o \in Ops, NEW e \in SUBSET Email, NEW u \in SUBSET Uid,
         NEW f \in SUBSET Family, NEW b \in SUBSET Bundle, NEW w \in SUBSET Ways
  PROVE  Job(o, e, u, f, b, w) \in Jobs
BY DEF Job, Jobs

LEMMA IdleType == Idle \in Jobs
BY JobType DEF Idle, Ops

LEMMA CredTypes ==
  ASSUME TypeOK, NEW b \in Bundle
  PROVE  /\ cred[b].user \in SUBSET Uid /\ cred[b].fam \in SUBSET Family
         /\ cred[b].jwt \in 0..JwtTTL + Leeway /\ cred[b].refresh \in 0..RefreshTTL
         /\ cred[b].session \in 0..JwtTTL /\ cred[b].cached \in 0..CacheTTL
BY DEF TypeOK, Cred

LEMMA NewCredType ==
  ASSUME TypeOK, NEW t \in Task
  PROVE  NewCred(t) \in Cred
BY ConstantAssumption, JobTypes DEF NewCred, Cred

LEMMA OtherCredTypes ==
  ASSUME TypeOK, NEW b \in Bundle
  PROVE  /\ NoCred \in Cred
         /\ Spent(cred[b]) \in Cred
         /\ \A n \in 0..CacheTTL : /\ [cred[b] EXCEPT !.session = 0, !.cached = n] \in Cred
                                /\ [cred[b] EXCEPT !.cached = n] \in Cred
         /\ [cred[b] EXCEPT !.session = JwtTTL] \in Cred
         /\ AgedCred(cred[b]) \in Cred
<1>1. cred[b] \in Cred
  BY DEF TypeOK
<1>2. 0 \in 0..JwtTTL /\ JwtTTL \in 0..JwtTTL /\ 0 \in 0..JwtTTL + Leeway
      /\ 0 \in 0..RefreshTTL /\ 0 \in 0..CacheTTL
  BY ConstantAssumption
<1>4. NoCred \in Cred
  BY <1>2 DEF NoCred, Cred
<1>5. Spent(cred[b]) \in Cred
  BY <1>1, <1>2 DEF Spent, Cred
<1>6. /\ \A n \in 0..CacheTTL : /\ [cred[b] EXCEPT !.session = 0, !.cached = n] \in Cred
                             /\ [cred[b] EXCEPT !.cached = n] \in Cred
      /\ [cred[b] EXCEPT !.session = JwtTTL] \in Cred
  BY <1>1, <1>2 DEF Cred
<1>3. AgedCred(cred[b]) \in Cred
  BY <1>1, ConstantAssumption, CredTypes, LessType DEF AgedCred, Cred
<1> QED BY <1>3, <1>4, <1>5, <1>6

\* What session_get and session_destroy do to the bundles.
LEMMA LookupEffect ==
  ASSUME TypeOK, NEW b \in Bundle, NEW w, SessionGet(b) \/ Lookup(b, w)
  PROVE  /\ cred' \in [Bundle -> Cred]
         /\ \A c \in Bundle :
              /\ cred'[c].fam = cred[c].fam /\ cred'[c].user = cred[c].user
              /\ cred'[c].refresh = cred[c].refresh /\ cred'[c].jwt = cred[c].jwt
              /\ cred'[c].session = cred[c].session
<1>1. CASE UNCHANGED cred
  BY <1>1 DEF TypeOK
<1>2. CASE SessionGet(b)
  <2>1. CacheTTL \in 0..CacheTTL
    BY ConstantAssumption
  <2>2. cred \in [Bundle -> Cred] /\ cred' = [cred EXCEPT ![b].cached = CacheTTL]
    BY <1>2 DEF TypeOK, SessionGet
  <2>3. cred' \in [Bundle -> Cred]
    BY <2>1, <2>2, OtherCredTypes
  <2> QED BY <2>2, <2>3 DEF Cred
<1> QED BY <1>1, <1>2 DEF Lookup

LEMMA DestroyEffect ==
  ASSUME TypeOK, NEW t \in Task, DestroySession(t)
  PROVE  /\ cred' \in [Bundle -> Cred]
         /\ \A c \in Bundle :
              /\ cred'[c].fam = cred[c].fam /\ cred'[c].user = cred[c].user
              /\ cred'[c].refresh = cred[c].refresh /\ cred'[c].jwt = cred[c].jwt
              /\ cred'[c].session \in {0, cred[c].session}
<1>1. CASE UNCHANGED cred
  BY <1>1 DEF TypeOK
<1>2. ASSUME NEW b \in task[t].bundle, NEW n \in 0..CacheTTL,
             cred' = [cred EXCEPT ![b].session = 0, ![b].cached = n]
      PROVE  /\ cred' \in [Bundle -> Cred]
             /\ \A c \in Bundle :
                  /\ cred'[c].fam = cred[c].fam /\ cred'[c].user = cred[c].user
                  /\ cred'[c].refresh = cred[c].refresh /\ cred'[c].jwt = cred[c].jwt
                  /\ cred'[c].session \in {0, cred[c].session}
  <2> DEFINE new == [cred[b] EXCEPT !.session = 0, !.cached = n]
  <2>1. b \in Bundle /\ cred \in [Bundle -> Cred]
    BY JobTypes DEF TypeOK
  <2>2. cred' = [cred EXCEPT ![b] = new]
    BY <1>2, <2>1
  <2>3. new \in Cred
    BY <2>1, OtherCredTypes
  <2>4. /\ new.fam = cred[b].fam /\ new.user = cred[b].user /\ new.jwt = cred[b].jwt
        /\ new.refresh = cred[b].refresh /\ new.session = 0
    BY <2>1 DEF Cred
  <2> HIDE DEF new
  <2> QED BY <2>1, <2>2, <2>3, <2>4
<1>3. \A b \in task[t].bundle :
        {0, cred[b].cached} \cup {m \in {CacheTTL} : cred[b].session > 0} \subseteq 0..CacheTTL
  BY CredTypes, JobTypes, ConstantAssumption
<1>4. CASE \E b \in task[t].bundle, n \in 0..CacheTTL :
             cred' = [cred EXCEPT ![b].session = 0, ![b].cached = n]
  BY <1>2, <1>4
<1> QED BY <1>1, <1>3, <1>4 DEF DestroySession

\* A task that goes on to another step keeps its type.
LEMMA OpType ==
  ASSUME TypeOK, NEW t \in Task, NEW o \in Ops, task' = [task EXCEPT ![t].op = o]
  PROVE  task' \in [Task -> Jobs]
<1> DEFINE old == task[t]
           new == [old EXCEPT !.op = o]
<1>1. task \in [Task -> Jobs] /\ old \in Jobs
  BY DEF TypeOK
<1>2. task' = [task EXCEPT ![t] = new]
  BY <1>1
<1> HIDE DEF old
<1>3. new \in Jobs
  BY <1>1 DEF Jobs
<1> QED BY <1>1, <1>2, <1>3

\* Both forms of a blacklist entry keep their types.
LEMMA BlacklistType ==
  ASSUME TypeOK, NEW b \in Bundle, NEW w, SetBlacklist(b, w)
  PROVE  /\ black' \in [Bundle -> 0..JwtTTL]
         /\ blank' \in 0..JwtTTL
BY ConstantAssumption DEF SetBlacklist, TypeOK

LEMMA TypeStep == TypeOK /\ [Next]_vars => TypeOK'
<1> SUFFICES ASSUME TypeOK, [Next]_vars PROVE TypeOK'
  OBVIOUS
<1> USE DEF dbVars, redisVars, historyVars
<1>1. ASSUME NEW t \in Task, NEW e \in Email, Register(t, e) PROVE TypeOK'
  <2>1. Job("insert", {e}, {}, {}, {}, {}) \in Jobs
    BY JobType DEF Ops
  <2> QED BY <1>1, <2>1 DEF Register, TypeOK
<1>2. ASSUME NEW t \in Task, Insert(t) PROVE TypeOK'
  <2>1. PICK e \in task[t].email :
          \/ End(t) /\ UNCHANGED <<dbVars, granted>>
          \/ /\ \E u \in Uid \ drawn, f \in Family :
                  /\ row' = [row EXCEPT ![e] = {u}]
                  /\ drawn' = drawn \cup {u}
                  /\ task' = [task EXCEPT ![t] = Job("grant", {e}, {u}, {f}, {}, {})]
             /\ granted' = granted \ {e}
    BY <1>2 DEF Insert
  <2>2. e \in Email
    BY JobTypes
  <2>3. CASE End(t) /\ UNCHANGED <<dbVars, granted>>
    BY <1>2, <2>3, IdleType DEF Insert, End, TypeOK
  <2>4. ASSUME NEW u \in Uid \ drawn, NEW f \in Family,
               row' = [row EXCEPT ![e] = {u}], drawn' = drawn \cup {u},
               task' = [task EXCEPT ![t] = Job("grant", {e}, {u}, {f}, {}, {})],
               granted' = granted \ {e}
        PROVE  TypeOK'
    <3>1. Job("grant", {e}, {u}, {f}, {}, {}) \in Jobs
      BY <2>2, JobType DEF Ops
    <3> QED BY <1>2, <2>2, <2>4, <3>1 DEF Insert, TypeOK
  <2> QED BY <2>1, <2>3, <2>4
<1>3. ASSUME NEW t \in Task, NEW e \in Email, Login(t, e) PROVE TypeOK'
  <2>1. PICK f \in Family :
          task' = [task EXCEPT ![t] = Job("grant", {}, row[e], {f}, {}, {})]
    BY <1>3 DEF Login
  <2>2. Job("grant", {}, row[e], {f}, {}, {}) \in Jobs
    BY JobType DEF Ops, TypeOK
  <2> QED BY <1>3, <2>1, <2>2 DEF Login, TypeOK
<1>4. ASSUME NEW t \in Task, Grant(t) PROVE TypeOK'
  <2>1. PICK b \in Bundle :
          /\ cred' = [cred EXCEPT ![b] = NewCred(t)]
          /\ out' = {o \in out : o[1] # b}
          /\ task' = [task EXCEPT ![t] =
               Job("session", task[t].email, task[t].user, task[t].fam, {b}, {})]
    BY <1>4 DEF Grant
  <2>2. Job("session", task[t].email, task[t].user, task[t].fam, {b}, {}) \in Jobs
    BY JobType, JobTypes DEF Ops
  <2> QED BY <1>4, <2>1, <2>2, NewCredType DEF Grant, TypeOK
<1>5. ASSUME NEW t \in Task, GrantSession(t) PROVE TypeOK'
  <2>1. PICK b \in task[t].bundle : cred' = [cred EXCEPT ![b].session = JwtTTL]
    BY <1>5 DEF GrantSession
  <2>2. b \in Bundle /\ task[t].email \subseteq Email
    BY JobTypes
  <2>3. cred' \in [Bundle -> Cred]
    BY <2>1, <2>2, OtherCredTypes DEF TypeOK
  <2> QED BY <1>5, <2>2, <2>3, IdleType DEF GrantSession, End, TypeOK
<1>6. ASSUME NEW t \in Task, NEW b \in Bundle, Rotate(t, b) PROVE TypeOK'
  <2>1. Job("find", {}, cred[b].user, cred[b].fam, {}, {}) \in Jobs
    BY JobType, CredTypes DEF Ops
  <2>2. cred' \in [Bundle -> Cred]
    BY <1>6, OtherCredTypes DEF Rotate, TypeOK
  <2> QED BY <1>6, <2>1, <2>2 DEF Rotate, TypeOK
<1>7. ASSUME NEW t \in Task, FindUser(t) PROVE TypeOK'
  <2>1. Job("regrant", {}, task[t].user, task[t].fam, {}, {}) \in Jobs
    BY JobType, JobTypes DEF Ops
  <2> QED BY <1>7, <2>1, IdleType DEF FindUser, End, TypeOK
<1>8. ASSUME NEW t \in Task, Regrant(t) PROVE TypeOK'
  <2>1. cred' \in [Bundle -> Cred] /\ out' \in SUBSET (Bundle \X Ways)
    BY <1>8, NewCredType DEF Regrant, TypeOK
  <2> QED BY <1>8, <2>1, IdleType DEF Regrant, End, TypeOK
<1>9. ASSUME NEW t \in Task, NEW b \in Bundle, NEW w \in Ways, Logout(t, b, w)
      PROVE  TypeOK'
  <2>1. Job("logout", {}, {}, {}, {b}, {w}) \in Jobs
    BY JobType DEF Ops
  <2>2. cred' \in [Bundle -> Cred]
    BY <1>9, LookupEffect DEF Logout
  <2> QED BY <1>9, <2>1, <2>2 DEF Logout, TypeOK
<1>10. ASSUME NEW t \in Task, NEW R, DropRefresh(t, R) PROVE TypeOK'
  <2>1. cred' \in [Bundle -> Cred]
    BY <1>10, OtherCredTypes DEF DropRefresh, TypeOK
  <2>2. task' \in [Task -> Jobs]
    BY <1>10, OpType DEF DropRefresh, Ops
  <2> QED BY <1>10, <2>1, <2>2 DEF DropRefresh, TypeOK
<1>11. ASSUME NEW t \in Task, Blacklist(t) \/ DeleteBlacklist(t) PROVE TypeOK'
  <2>1. PICK b \in task[t].bundle, w \in task[t].way : SetBlacklist(b, w)
    BY <1>11 DEF Blacklist, DeleteBlacklist
  <2>2. /\ black' \in [Bundle -> 0..JwtTTL]
        /\ blank' \in 0..JwtTTL
    BY <2>1, BlacklistType, JobTypes
  <2>3. task' \in [Task -> Jobs]
    BY <1>11, OpType DEF Blacklist, DeleteBlacklist, Ops
  <2> QED BY <1>11, <2>2, <2>3 DEF Blacklist, DeleteBlacklist, TypeOK
<1>12. ASSUME NEW t \in Task, LogoutEnd(t) \/ DeleteSession(t) PROVE TypeOK'
  <2>1. cred' \in [Bundle -> Cred]
    BY <1>12, DestroyEffect DEF LogoutEnd, DeleteSession
  <2>2. CASE LogoutEnd(t)
    <3>1. task[t].bundle \X task[t].way \subseteq Bundle \X Ways
      BY JobTypes
    <3> QED BY <2>1, <2>2, <3>1, IdleType DEF LogoutEnd, End, TypeOK
  <2>3. CASE DeleteSession(t)
    <3>1. task' \in [Task -> Jobs]
      BY <2>3, OpType DEF DeleteSession, Ops
    <3> QED BY <2>1, <2>3, <3>1 DEF DeleteSession, TypeOK
  <2> QED BY <1>12, <2>2, <2>3
<1>13. ASSUME NEW t \in Task, NEW b \in Bundle, NEW w \in Ways,
              DeleteAccount(t, b, w)
       PROVE  TypeOK'
  <2>1. Job("delete", {}, cred[b].user, {}, {b}, {w}) \in Jobs
    BY JobType, CredTypes DEF Ops
  <2>2. cred' \in [Bundle -> Cred]
    BY <1>13, LookupEffect DEF DeleteAccount
  <2> QED BY <1>13, <2>1, <2>2 DEF DeleteAccount, TypeOK
<1>14. ASSUME NEW t \in Task, DeleteRow(t) PROVE TypeOK'
  <2>1. task[t].user \subseteq Uid
    BY JobTypes
  <2> QED BY <1>14, <2>1, IdleType DEF DeleteRow, End, TypeOK
<1>15. ASSUME NEW t \in Task, Abort(t) PROVE TypeOK'
  <2>1. cred' \in [Bundle -> Cred]
    BY <1>15, OtherCredTypes DEF Abort, TypeOK
  <2> QED BY <1>15, <2>1, IdleType DEF Abort, End, TypeOK
<1>16. CASE Tick
  <2>1. cred' \in [Bundle -> Cred]
    BY <1>16, OtherCredTypes DEF Tick, TypeOK
  <2>2. black' \in [Bundle -> 0..JwtTTL] /\ blank' \in 0..JwtTTL
    BY <1>16, LessType, ConstantAssumption DEF Tick, TypeOK
  <2> QED BY <1>16, <2>1, <2>2 DEF Tick, TypeOK
<1>17. CASE UNCHANGED vars
  BY <1>17 DEF vars, TypeOK
<1>18. ASSUME NEW b \in Bundle, Present(b) PROVE TypeOK'
  <2>1. cred' \in [Bundle -> Cred]
    BY <1>18, LookupEffect DEF Present
  <2> QED BY <1>18, <2>1 DEF Present, TypeOK
<1> QED
  BY <1>1, <1>2, <1>3, <1>4, <1>5, <1>6, <1>7, <1>8, <1>9, <1>10, <1>11,
     <1>12, <1>13, <1>14, <1>15, <1>16, <1>17, <1>18
  DEF Next, TaskStep

-----------------------------------------------------------------------------
(* The chain of refresh tokens.  A step moves one family from where it is  *)
(* to one other place, starts a family that is nowhere, or loses some.     *)

\* A step of task t alone, and a step that changes the bundle b alone.
Alone(t) == \A r \in Task \ {t} : task'[r] = task[r]
Only(b) == \A c \in Bundle \ {b} : cred'[c] = cred[c]

\* No bundle gets a family, and none changes its user while it has one.
AllKeep ==
  \A b \in Bundle : /\ cred'[b].fam \subseteq cred[b].fam
                    /\ cred'[b].fam # {} => cred'[b].user = cred[b].user

Fades ==
  /\ AllKeep
  /\ \A t \in Task, f \in Family :
       Carries(t, f)' => Carries(t, f) /\ task'[t].user = task[t].user
Starts(t, f) ==
  /\ FreeFamily(f) /\ cred' = cred /\ Alone(t)
  /\ \A g \in Family : ~Carries(t, g) /\ (Carries(t, g)' <=> g = f)
Taken(t, b) ==
  /\ Only(b) /\ Alone(t)
  /\ cred'[b].fam = {} /\ task'[t].user = cred[b].user
  /\ \A g \in Family : ~Carries(t, g) /\ (Carries(t, g)' <=> g \in cred[b].fam)
Given(t, b) ==
  /\ Only(b) /\ Alone(t)
  /\ cred[b].fam = {} /\ cred'[b].user = task[t].user
  /\ \A g \in Family : ~Carries(t, g)' /\ (g \in cred'[b].fam <=> Carries(t, g))
FamilyMove ==
  \/ Fades
  \/ \E t \in Task : \/ \E f \in Family : Starts(t, f)
                     \/ \E b \in Bundle : Taken(t, b) \/ Given(t, b)

LEMMA FadesByTask ==
  ASSUME NEW t \in Task, Alone(t), AllKeep,
         task'[t].op \in {"grant", "find", "regrant"} =>
           /\ task'[t].fam \subseteq task[t].fam /\ task'[t].user = task[t].user
           /\ task[t].op \in {"grant", "find", "regrant"}
  PROVE  FamilyMove
BY DEF FamilyMove, Fades, Carries, Alone

LEMMA TaskAlone ==
  ASSUME TypeOK, NEW t \in Task, NEW k, task' = [task EXCEPT ![t] = k]
  PROVE  task'[t] = k /\ Alone(t)
BY DEF TypeOK, Alone

LEMMA OpAlone ==
  ASSUME TypeOK, NEW t \in Task, NEW o, task' = [task EXCEPT ![t].op = o]
  PROVE  task'[t].op = o /\ Alone(t)
BY DEF TypeOK, Jobs, Alone

LEMMA IdleFields ==
  Idle.op = "idle" /\ Idle.fam = {} /\ Idle.bundle = {} /\ Idle.email = {}
    /\ Idle.way = {} /\ Idle.user = {}
BY DEF Idle, Job

LEMMA FamilyMoves == TypeOK /\ FadedInv /\ [Next]_vars => FamilyMove
<1> SUFFICES ASSUME TypeOK, FadedInv, [Next]_vars PROVE FamilyMove
  OBVIOUS
<1> USE DEF dbVars, redisVars, historyVars
<1>1. ASSUME NEW t \in Task, End(t), AllKeep PROVE FamilyMove
  BY <1>1, FadesByTask, IdleFields, TaskAlone DEF End
<1>2. ASSUME UNCHANGED cred PROVE AllKeep
  BY <1>2 DEF AllKeep
<1>3. ASSUME NEW t \in Task, NEW e \in Email, Register(t, e) PROVE FamilyMove
  <2>1. task'[t].op = "insert" /\ Alone(t)
    BY <1>3 DEF Register, Job, TypeOK, Alone
  <2> QED BY <1>2, <1>3, <2>1, FadesByTask DEF Register
<1>4. ASSUME NEW t \in Task, NEW e, NEW u, NEW f \in Family, FreeFamily(f),
             UNCHANGED cred, task[t].op \in {"idle", "insert"},
             task' = [task EXCEPT ![t] = Job("grant", e, u, {f}, {}, {})]
      PROVE  FamilyMove
  <2>1. task'[t].fam = {f} /\ task'[t].op = "grant" /\ Alone(t)
    BY <1>4 DEF Job, TypeOK, Alone
  <2> QED BY <1>2, <1>4, <2>1 DEF FamilyMove, Starts, Carries
<1>5. ASSUME NEW t \in Task, Insert(t) PROVE FamilyMove
  BY <1>1, <1>2, <1>4, <1>5 DEF Insert
<1>6. ASSUME NEW t \in Task, NEW e \in Email, Login(t, e) PROVE FamilyMove
  BY <1>4, <1>6 DEF Login
<1>7. ASSUME NEW t \in Task, NEW b \in Bundle, NEW k,
             FreeBundle(b), cred' = [cred EXCEPT ![b] = NewCred(t)],
             task[t].op \in {"grant", "regrant"},
             task' = [task EXCEPT ![t] = k], k.op \in {"idle", "session"}
      PROVE  FamilyMove
  <2>1. task'[t].op \in {"idle", "session"} /\ Alone(t)
    BY <1>7, TaskAlone
  <2>2. /\ cred'[b].fam = task[t].fam /\ cred'[b].user = task[t].user
        /\ Only(b) /\ cred[b].fam = {}
    BY <1>7 DEF TypeOK, NewCred, Only, FreeBundle, FadedInv
  <2> QED BY <1>7, <2>1, <2>2 DEF FamilyMove, Given, Carries
<1>8. ASSUME NEW t \in Task, Grant(t) PROVE FamilyMove
  <2>1. PICK b \in Bundle :
          /\ FreeBundle(b) /\ cred' = [cred EXCEPT ![b] = NewCred(t)]
          /\ task' = [task EXCEPT ![t] =
               Job("session", task[t].email, task[t].user, task[t].fam, {b}, {})]
    BY <1>8 DEF Grant
  <2>2. Job("session", task[t].email, task[t].user, task[t].fam, {b}, {}).op = "session"
    BY DEF Job
  <2> QED BY <1>7, <1>8, <2>1, <2>2 DEF Grant
<1>9. ASSUME NEW t \in Task, Regrant(t) PROVE FamilyMove
  BY <1>7, <1>9, IdleFields DEF Regrant, End
<1>10. ASSUME NEW t \in Task, GrantSession(t) PROVE FamilyMove
  <2>1. AllKeep
    BY <1>10, JobTypes DEF GrantSession, AllKeep, TypeOK, Cred
  <2> QED BY <1>1, <1>10, <2>1 DEF GrantSession
<1>11. ASSUME NEW t \in Task, NEW b \in Bundle, Rotate(t, b) PROVE FamilyMove
  <2>1. /\ task'[t].fam = cred[b].fam /\ task'[t].user = cred[b].user
        /\ task'[t].op = "find" /\ Alone(t) /\ task[t].op = "idle"
    BY <1>11 DEF Rotate, Job, TypeOK, Alone
  <2>2. cred'[b].fam = {} /\ Only(b)
    BY <1>11 DEF Rotate, Spent, TypeOK, Cred, Only
  <2> QED BY <2>1, <2>2 DEF FamilyMove, Taken, Carries
<1>12. ASSUME NEW t \in Task, FindUser(t) PROVE FamilyMove
  <2>1. CASE task' = [task EXCEPT ![t] =
               Job("regrant", {}, task[t].user, task[t].fam, {}, {})]
    <3>1. /\ task'[t].fam = task[t].fam /\ task[t].op = "find"
          /\ task'[t].user = task[t].user /\ Alone(t)
      BY <1>12, <2>1 DEF FindUser, Job, TypeOK, Alone
    <3> QED BY <1>2, <1>12, <3>1, FadesByTask DEF FindUser
  <2> QED BY <1>1, <1>2, <1>12, <2>1 DEF FindUser
<1>13. ASSUME NEW t \in Task, NEW b \in Bundle, NEW w \in Ways,
              Logout(t, b, w) \/ DeleteAccount(t, b, w)
       PROVE  FamilyMove
  <2>1. task'[t].op \in {"logout", "delete"} /\ Alone(t)
    BY <1>13 DEF Logout, DeleteAccount, Job, TypeOK, Alone
  <2>2. AllKeep
    BY <1>13, LookupEffect DEF Logout, DeleteAccount, AllKeep
  <2> QED BY <2>1, <2>2, FadesByTask
<1>14. ASSUME NEW t \in Task, NEW R, DropRefresh(t, R) PROVE FamilyMove
  <2>1. AllKeep
    BY <1>14 DEF DropRefresh, Spent, AllKeep, TypeOK, Cred
  <2>2. task'[t].op = "blacklist" /\ Alone(t)
    BY <1>14, OpAlone DEF DropRefresh
  <2> QED BY <2>1, <2>2, FadesByTask
<1>15. ASSUME NEW t \in Task, Blacklist(t) \/ DeleteBlacklist(t) PROVE FamilyMove
  <2>1. task'[t].op \in {"destroy", "del_destroy"} /\ Alone(t)
    BY <1>15, OpAlone DEF Blacklist, DeleteBlacklist
  <2> QED BY <1>2, <1>15, <2>1, FadesByTask DEF Blacklist, DeleteBlacklist
<1>16. ASSUME NEW t \in Task, LogoutEnd(t) \/ DeleteSession(t) PROVE FamilyMove
  <2>1. AllKeep
    BY <1>16, DestroyEffect DEF LogoutEnd, DeleteSession, AllKeep
  <2>2. CASE DeleteSession(t)
    <3>1. task'[t].op = "del_row" /\ Alone(t)
      BY <2>2, OpAlone DEF DeleteSession
    <3> QED BY <2>1, <3>1, FadesByTask
  <2> QED BY <1>1, <1>16, <2>1, <2>2 DEF LogoutEnd
<1>17. ASSUME NEW t \in Task, DeleteRow(t) PROVE FamilyMove
  BY <1>1, <1>2, <1>17 DEF DeleteRow
<1>18. ASSUME NEW t \in Task, Abort(t) PROVE FamilyMove
  <2>1. AllKeep
    BY <1>18 DEF Abort, NoCred, AllKeep, TypeOK, Cred
  <2> QED BY <1>1, <1>18, <2>1 DEF Abort
<1>19. CASE Tick
  BY <1>19 DEF Tick, AgedCred, FamilyMove, Fades, AllKeep, Carries
<1>20. CASE UNCHANGED vars
  BY <1>20 DEF vars, FamilyMove, Fades, AllKeep, Carries
<1>21. ASSUME NEW b \in Bundle, Present(b) PROVE FamilyMove
  <2>1. AllKeep /\ task' = task
    BY <1>21, LookupEffect DEF Present, AllKeep
  <2> QED BY <2>1 DEF FamilyMove, Fades, Carries
<1> QED
  BY <1>3, <1>5, <1>6, <1>8, <1>9, <1>10, <1>11, <1>12, <1>13, <1>14, <1>15,
     <1>16, <1>17, <1>18, <1>19, <1>20, <1>21
  DEF Next, TaskStep

\* A refresh token takes its family with it.
LEMMA FadedStep == TypeOK /\ FadedInv /\ [Next]_vars => FadedInv'
<1> SUFFICES ASSUME TypeOK, FadedInv, [Next]_vars PROVE FadedInv'
  OBVIOUS
<1> USE DEF dbVars, redisVars, historyVars
<1>1. ASSUME \A b \in Bundle : \/ cred'[b].fam = cred[b].fam /\ cred'[b].refresh = cred[b].refresh
                               \/ cred'[b].fam = {}
                               \/ cred'[b].refresh = RefreshTTL
      PROVE  FadedInv'
  <2>1. RefreshTTL # 0
    BY ConstantAssumption
  <2> QED BY <1>1, <2>1 DEF FadedInv
<1>2. ASSUME UNCHANGED cred PROVE FadedInv'
  BY <1>2 DEF FadedInv
<1>3. ASSUME NEW t \in Task, TaskStep(t) \/ Abort(t) PROVE FadedInv'
  <2>1. CASE Grant(t) \/ Regrant(t)
    <3>1. PICK b \in Bundle : cred' = [cred EXCEPT ![b] = NewCred(t)]
      BY <2>1 DEF Grant, Regrant
    <3>2. cred'[b].refresh = RefreshTTL /\ Only(b)
      BY <3>1 DEF NewCred, TypeOK, Only
    <3> QED BY <1>1, <3>2 DEF Only
  <2>2. ASSUME NEW b \in task[t].bundle, NEW n, cred' = [cred EXCEPT ![b].session = n]
        PROVE  FadedInv'
    <3>1. b \in Bundle
      BY <2>2, JobTypes
    <3>2. cred'[b].fam = cred[b].fam /\ cred'[b].refresh = cred[b].refresh /\ Only(b)
      BY <2>2, <3>1 DEF TypeOK, Cred, Only
    <3> QED BY <1>1, <3>2 DEF Only
  <2>3. CASE GrantSession(t)
    BY <2>2, <2>3 DEF GrantSession
  <2>7. CASE LogoutEnd(t) \/ DeleteSession(t)
    <3>1. DestroySession(t)
      BY <2>7 DEF LogoutEnd, DeleteSession
    <3> QED BY <1>1, <3>1, DestroyEffect
  <2>4. CASE \E R \in {{}} \cup {{b} : b \in Bundle} : DropRefresh(t, R)
    <3>1. \A b \in Bundle : cred'[b] = cred[b] \/ cred'[b] = Spent(cred[b])
      BY <2>4 DEF DropRefresh
    <3>2. \A b \in Bundle : Spent(cred[b]).fam = {}
      BY DEF Spent, TypeOK, Cred
    <3> QED BY <1>1, <3>1, <3>2
  <2>5. CASE Abort(t)
    <3>1. \A b \in Bundle : cred'[b] = cred[b] \/ cred'[b] = NoCred
      BY <2>5 DEF Abort
    <3> QED BY <1>1, <3>1 DEF NoCred
  <2>6. CASE Insert(t) \/ FindUser(t) \/ Blacklist(t) \/ DeleteBlacklist(t) \/ DeleteRow(t)
    BY <1>2, <2>6 DEF Insert, FindUser, Blacklist, DeleteBlacklist, DeleteRow
  <2> QED BY <1>3, <2>1, <2>3, <2>4, <2>5, <2>6, <2>7 DEF TaskStep
<1>4. ASSUME NEW t \in Task, NEW b \in Bundle, Rotate(t, b) PROVE FadedInv'
  <2>1. cred'[b].fam = {} /\ Only(b)
    BY <1>4 DEF Rotate, Spent, TypeOK, Cred, Only
  <2> QED BY <1>1, <2>1 DEF Only
<1>5. CASE \E t \in Task, e \in Email : Register(t, e) \/ Login(t, e)
  BY <1>2, <1>5 DEF Register, Login
<1>6. ASSUME NEW t \in Task, NEW b \in Bundle, NEW w \in Ways,
             Logout(t, b, w) \/ DeleteAccount(t, b, w)
      PROVE  FadedInv'
  <2>1. Lookup(b, w)
    BY <1>6 DEF Logout, DeleteAccount
  <2> QED BY <1>1, <2>1, LookupEffect
<1>7. CASE Tick
  <2> SUFFICES ASSUME NEW b \in Bundle, cred'[b].refresh = 0 PROVE cred'[b].fam = {}
    BY DEF FadedInv
  <2>1. cred'[b] = AgedCred(cred[b]) /\ cred[b].refresh \in Nat
    BY <1>7, CredTypes, ConstantAssumption DEF Tick
  <2>2. Less(cred[b].refresh) = 0
    BY <2>1 DEF AgedCred
  <2>3. cred[b].refresh <= 1
    BY <2>1, <2>2 DEF Less
  <2> QED BY <2>1, <2>3 DEF AgedCred
<1>8. CASE UNCHANGED vars
  BY <1>2, <1>8 DEF vars
<1>9. ASSUME NEW b \in Bundle, Present(b) PROVE FadedInv'
  <2>1. SessionGet(b)
    BY <1>9 DEF Present
  <2> QED BY <1>1, <2>1, LookupEffect
<1> QED BY <1>3, <1>4, <1>5, <1>6, <1>7, <1>8, <1>9 DEF Next

LEMMA ChainStep == TypeOK /\ FadedInv /\ ChainInv /\ [Next]_vars => ChainInv'
<1> SUFFICES ASSUME TypeOK, FadedInv, ChainInv, [Next]_vars PROVE ChainInv'
  OBVIOUS
<1>1. FamilyMove
  BY FamilyMoves
<1>2. CASE Fades
  BY <1>2 DEF Fades, AllKeep, ChainInv
<1>3. ASSUME NEW t \in Task, NEW f \in Family, Starts(t, f) PROVE ChainInv'
  <2>1. \A b \in Bundle : f \notin cred'[b].fam
    BY <1>3 DEF Starts, FreeFamily
  <2>2. \A r \in Task : Carries(r, f)' => r = t
    BY <1>3 DEF Starts, FreeFamily, Alone, Carries
  <2>3. \A r \in Task, g \in Family \ {f} : Carries(r, g)' => Carries(r, g)
    BY <1>3 DEF Starts, Alone, Carries
  <2> QED BY <1>3, <2>1, <2>2, <2>3 DEF Starts, ChainInv
<1>4. ASSUME NEW t \in Task, NEW b \in Bundle, Taken(t, b) \/ Given(t, b)
      PROVE  ChainInv'
  <2>1. /\ \A c \in Bundle \ {b} : cred'[c].fam = cred[c].fam
        /\ \A r \in Task \ {t}, f \in Family : Carries(r, f)' = Carries(r, f)
    BY <1>4 DEF Taken, Given, Only, Alone, Carries
  <2> QED BY <1>4, <2>1 DEF Taken, Given, ChainInv
<1> QED BY <1>1, <1>2, <1>3, <1>4 DEF FamilyMove

LEMMA SoleStep == TypeOK /\ FadedInv /\ SoleInv /\ [Next]_vars => SoleInv'
<1> SUFFICES ASSUME TypeOK, FadedInv, SoleInv, [Next]_vars PROVE SoleInv'
  OBVIOUS
<1>1. FamilyMove
  BY FamilyMoves
<1>2. \A b \in Bundle : cred[b].fam \subseteq Family /\ cred'[b].fam \subseteq Family
  <2>1. TypeOK'
    BY TypeStep
  <2> QED BY <2>1, CredTypes DEF TypeOK, Cred
<1>3. CASE Fades
  BY <1>3 DEF Fades, AllKeep, SoleInv
<1>4. ASSUME NEW t \in Task, NEW f \in Family, Starts(t, f) PROVE SoleInv'
  <2>1. \A r \in Task \ {t}, g \in Family : Carries(r, g)' = Carries(r, g)
    BY <1>4 DEF Starts, Alone, Carries
  <2> QED BY <1>4, <2>1 DEF Starts, SoleInv
<1>5. ASSUME NEW t \in Task, NEW b \in Bundle, Taken(t, b) \/ Given(t, b)
      PROVE  SoleInv'
  <2>1. /\ \A c \in Bundle \ {b} : cred'[c].fam = cred[c].fam
        /\ \A r \in Task \ {t}, f \in Family : Carries(r, f)' = Carries(r, f)
    BY <1>5 DEF Taken, Given, Only, Alone, Carries
  <2> QED BY <1>2, <1>5, <2>1 DEF Taken, Given, SoleInv
<1> QED BY <1>1, <1>3, <1>4, <1>5 DEF FamilyMove

-----------------------------------------------------------------------------
(* Logouts.  How a step changes which bundles tasks have in hand and which *)
(* logouts were answered.                                                  *)

Drops(t) ==
  /\ Alone(t) /\ task'[t].op \notin {"session", "destroy"}
  /\ task'[t].bundle \subseteq task[t].bundle /\ task'[t].way \subseteq task[t].way
  /\ out' \subseteq out
Enters(t, b, w) ==
  /\ Alone(t) /\ task'[t].op \notin {"session", "destroy"}
  /\ Issued(b) /\ task'[t].bundle = {b} /\ task'[t].way = {w}
  /\ out' = out
Opens(t, b) ==
  /\ Alone(t) /\ task'[t].op = "session"
  /\ FreeBundle(b) /\ task'[t].bundle = {b} /\ task'[t].way = {}
  /\ out' = {o \in out : o[1] # b}
Marks(t) ==
  /\ Alone(t) /\ task[t].op = "blacklist" /\ task'[t].op = "destroy"
  /\ task'[t].bundle = task[t].bundle /\ task'[t].way = task[t].way
  /\ out' = out /\ cred' = cred
  /\ \E b \in task[t].bundle, w \in task[t].way : SetBlacklist(b, w)
Answers(t) ==
  /\ Alone(t) /\ task[t].op = "destroy" /\ task'[t] = Idle
  /\ out' = out \cup (task[t].bundle \X task[t].way)
BundleMove ==
  \/ task' = task /\ out' = out
  \/ \E t \in Task :
       \/ Drops(t) \/ Marks(t) \/ Answers(t)
       \/ \E b \in Bundle : Opens(t, b) \/ \E w \in Ways : Enters(t, b, w)

LEMMA BundleMoves == TypeOK /\ [Next]_vars => BundleMove
<1> SUFFICES ASSUME TypeOK, [Next]_vars PROVE BundleMove
  OBVIOUS
<1> USE DEF dbVars, redisVars, historyVars
<1>1. ASSUME NEW t \in Task, Drops(t) PROVE BundleMove
  BY <1>1 DEF BundleMove
<1>2. ASSUME NEW t \in Task, End(t), out' \subseteq out PROVE BundleMove
  BY <1>1, <1>2, IdleFields, TaskAlone DEF End, Drops
<1>3. ASSUME NEW t \in Task, NEW e \in Email, Register(t, e) \/ Login(t, e)
      PROVE  BundleMove
  BY <1>1, <1>3 DEF Register, Login, Job, TypeOK, Alone, Drops
<1>4. ASSUME NEW t \in Task, Insert(t) PROVE BundleMove
  <2>1. CASE End(t)
    BY <1>2, <1>4, <2>1 DEF Insert
  <2>2. ASSUME NEW e, NEW u, NEW f,
               task' = [task EXCEPT ![t] = Job("grant", {e}, {u}, {f}, {}, {})]
        PROVE  BundleMove
    BY <1>1, <1>4, <2>2 DEF Insert, Job, TypeOK, Alone, Drops
  <2> QED BY <1>4, <2>1, <2>2 DEF Insert
<1>5. ASSUME NEW t \in Task, Grant(t) PROVE BundleMove
  <2>1. PICK b \in Bundle :
          /\ FreeBundle(b) /\ out' = {o \in out : o[1] # b}
          /\ task' = [task EXCEPT ![t] =
               Job("session", task[t].email, task[t].user, task[t].fam, {b}, {})]
    BY <1>5 DEF Grant
  <2>2. Alone(t) /\ task'[t].op = "session" /\ task'[t].bundle = {b}
          /\ task'[t].way = {}
    BY <2>1 DEF Job, TypeOK, Alone
  <2> QED BY <2>1, <2>2 DEF BundleMove, Opens
<1>6. ASSUME NEW t \in Task, GrantSession(t) \/ Regrant(t) \/ DeleteRow(t) \/ Abort(t)
      PROVE  BundleMove
  BY <1>2, <1>6 DEF GrantSession, Regrant, DeleteRow, Abort
<1>7. ASSUME NEW t \in Task, NEW b \in Bundle, Rotate(t, b) PROVE BundleMove
  BY <1>1, <1>7 DEF Rotate, Job, TypeOK, Alone, Drops
<1>8. ASSUME NEW t \in Task, FindUser(t) PROVE BundleMove
  <2>1. CASE task' = [task EXCEPT ![t] =
               Job("regrant", {}, task[t].user, task[t].fam, {}, {})]
    BY <1>1, <1>8, <2>1 DEF FindUser, Job, TypeOK, Alone, Drops
  <2> QED BY <1>2, <1>8, <2>1 DEF FindUser
<1>9. ASSUME NEW t \in Task, NEW b \in Bundle, NEW w \in Ways,
             Logout(t, b, w) \/ DeleteAccount(t, b, w)
      PROVE  BundleMove
  <2>1. Enters(t, b, w)
    BY <1>9 DEF Logout, DeleteAccount, Job, TypeOK, Alone, Enters
  <2> QED BY <2>1 DEF BundleMove
<1>10. ASSUME NEW t \in Task, NEW o,
              task' = [task EXCEPT ![t].op = o], UNCHANGED out
       PROVE  /\ task'[t].op = o /\ Alone(t) /\ out' = out
              /\ task'[t].bundle = task[t].bundle /\ task'[t].way = task[t].way
  BY <1>10 DEF TypeOK, Jobs, Alone
<1>11. ASSUME NEW t \in Task, NEW R, DropRefresh(t, R) PROVE BundleMove
  <2>1. /\ task'[t].op = "blacklist" /\ Alone(t) /\ out' = out
        /\ task'[t].bundle = task[t].bundle /\ task'[t].way = task[t].way
    BY <1>11 DEF DropRefresh, TypeOK, Jobs, Alone
  <2>2. Drops(t)
    BY <2>1 DEF Drops
  <2> QED BY <1>1, <2>2
<1>12. ASSUME NEW t \in Task, DeleteBlacklist(t) \/ DeleteSession(t) PROVE BundleMove
  <2>1. Drops(t)
    BY <1>10, <1>12 DEF DeleteBlacklist, DeleteSession, Drops
  <2> QED BY <1>1, <2>1
<1>13. ASSUME NEW t \in Task, Blacklist(t) PROVE BundleMove
  <2>1. Marks(t)
    BY <1>10, <1>13 DEF Blacklist, Marks
  <2> QED BY <2>1 DEF BundleMove
<1>14. ASSUME NEW t \in Task, LogoutEnd(t) PROVE BundleMove
  BY <1>14, TaskAlone DEF LogoutEnd, End, Answers, BundleMove
<1>15. CASE Tick
  BY <1>15 DEF Tick, BundleMove
<1>16. CASE UNCHANGED vars
  BY <1>16 DEF vars, BundleMove
<1>17. CASE \E b \in Bundle : Present(b)
  BY <1>17 DEF Present, BundleMove
<1> QED
  BY <1>3, <1>4, <1>5, <1>6, <1>7, <1>8, <1>9, <1>11, <1>12, <1>13, <1>14, <1>15,
     <1>16, <1>17
  DEF Next, TaskStep

LEMMA FreshStep == TypeOK /\ FreshInv /\ OneInv /\ [Next]_vars => FreshInv' /\ OneInv'
<1> SUFFICES ASSUME TypeOK, FreshInv, OneInv, [Next]_vars PROVE FreshInv' /\ OneInv'
  OBVIOUS
<1>1. BundleMove
  BY BundleMoves
<1>2. CASE task' = task /\ out' = out
  BY <1>2 DEF FreshInv, OneInv
<1>3. ASSUME NEW t \in Task, Drops(t) PROVE FreshInv' /\ OneInv'
  BY <1>3 DEF Drops, Alone, FreshInv, OneInv
<1>4. ASSUME NEW t \in Task, NEW b \in Bundle, NEW w \in Ways, Enters(t, b, w)
      PROVE  FreshInv' /\ OneInv'
  BY <1>4 DEF Enters, Issued, Alone, FreshInv, OneInv
<1>5. ASSUME NEW t \in Task, NEW b \in Bundle, Opens(t, b) PROVE FreshInv' /\ OneInv'
  BY <1>5 DEF Opens, FreeBundle, Alone, FreshInv, OneInv
<1>6. ASSUME NEW t \in Task, Marks(t) PROVE FreshInv' /\ OneInv'
  BY <1>6 DEF Marks, Alone, FreshInv, OneInv
<1>7. ASSUME NEW t \in Task, Answers(t) PROVE FreshInv' /\ OneInv'
  BY <1>7, IdleFields DEF Answers, Alone, FreshInv, OneInv
<1> QED BY <1>1, <1>2, <1>3, <1>4, <1>5, <1>6, <1>7 DEF BundleMove

\* A logout in progress or answered was so before, or its entry is new.
LEMMA EndingFrom ==
  ASSUME TypeOK, FreshInv, OneInv, [Next]_vars, NEW b \in Bundle, NEW w \in Ways,
         Ending(b, w)'
  PROVE  Ending(b, w) \/ Covered(b, w)'
<1>1. BundleMove
  BY BundleMoves
<1>2. CASE task' = task /\ out' = out
  BY <1>2 DEF Ending
<1>3. ASSUME NEW t \in Task, Drops(t) PROVE Ending(b, w)
  BY <1>3 DEF Drops, Alone, Ending
<1>4. ASSUME NEW t \in Task, NEW c \in Bundle, NEW v \in Ways, Enters(t, c, v)
      PROVE  Ending(b, w)
  BY <1>4 DEF Enters, Alone, Ending
<1>5. ASSUME NEW t \in Task, NEW c \in Bundle, Opens(t, c) PROVE Ending(b, w)
  BY <1>5 DEF Opens, Alone, Ending
<1>6. ASSUME NEW t \in Task, Marks(t) PROVE Ending(b, w) \/ Covered(b, w)'
  <2>1. CASE b \in task[t].bundle /\ w \in task[t].way
    <3>1. SetBlacklist(b, w) /\ cred' = cred
      BY <1>6, <2>1 DEF Marks, OneInv
    <3> QED BY <3>1, CredTypes, ConstantAssumption DEF SetBlacklist, Covered, TypeOK
  <2>2. CASE ~(b \in task[t].bundle /\ w \in task[t].way)
    BY <1>6, <2>2 DEF Marks, Alone, Ending
  <2> QED BY <2>1, <2>2
<1>7. ASSUME NEW t \in Task, Answers(t) PROVE Ending(b, w)
  BY <1>7, IdleFields DEF Answers, Alone, Ending
<1> QED BY <1>1, <1>2, <1>3, <1>4, <1>5, <1>6, <1>7 DEF BundleMove

\* What an entry outlasts, it goes on to outlast, unless the bundle is a new
\* one, which nobody has logged out.
LEMMA CoverKept ==
  ASSUME TypeOK, FreshInv, [Next]_vars, NEW b \in Bundle, NEW w \in Ways,
         Covered(b, w), Ending(b, w)'
  PROVE  Covered(b, w)'
<1> USE DEF dbVars, redisVars, historyVars
<1>1. ASSUME UNCHANGED <<black, blank>>, cred'[b].jwt <= cred[b].jwt,
             cred'[b].session <= cred[b].session
      PROVE  Covered(b, w)'
  <2>1. /\ cred[b].jwt \in Int /\ cred[b].session \in Int /\ black[b] \in Int
        /\ blank \in Int /\ Leeway \in Int
    BY CredTypes, ConstantAssumption DEF TypeOK
  <2>2. cred'[b].jwt \in Int /\ cred'[b].session \in Int
    BY TypeStep, CredTypes, ConstantAssumption DEF TypeOK, Cred
  <2> QED BY <1>1, <2>1, <2>2 DEF Covered
<1>2. ASSUME UNCHANGED <<black, blank, cred>> PROVE Covered(b, w)'
  BY <1>2 DEF Covered
<1>3. ASSUME NEW t \in Task, NEW e \in Email, Register(t, e) \/ Login(t, e)
      PROVE  Covered(b, w)'
  BY <1>2, <1>3 DEF Register, Login
<1>4. ASSUME NEW t \in Task, Insert(t) \/ FindUser(t) \/ DeleteRow(t) PROVE Covered(b, w)'
  BY <1>2, <1>4 DEF Insert, FindUser, DeleteRow
<1>5. ASSUME NEW t \in Task, NEW c \in Bundle, NEW k,
             FreeBundle(c), cred' = [cred EXCEPT ![c] = k],
             UNCHANGED <<black, blank>>, out' = {o \in out : o[1] # c},
             Alone(t), task'[t].op # "destroy"
      PROVE  Covered(b, w)'
  <2>1. b # c
    BY <1>5 DEF FreeBundle, Alone, Ending
  <2> QED BY <1>5, <2>1 DEF Covered, TypeOK
<1>6. ASSUME NEW t \in Task, Grant(t) PROVE Covered(b, w)'
  <2>1. Alone(t) /\ task'[t].op # "destroy"
    BY <1>6 DEF Grant, Job, TypeOK, Alone
  <2> QED BY <1>5, <1>6, <2>1 DEF Grant
<1>7. ASSUME NEW t \in Task, Regrant(t) PROVE Covered(b, w)'
  <2>1. Alone(t) /\ task'[t].op # "destroy"
    BY <1>7, TaskAlone, IdleFields DEF Regrant, End
  <2> QED BY <1>5, <1>7, <2>1 DEF Regrant
<1>8. ASSUME NEW t \in Task, GrantSession(t) PROVE Covered(b, w)'
  <2>1. Alone(t) /\ task'[t].op # "destroy"
    BY <1>8, TaskAlone, IdleFields DEF GrantSession, End
  <2>2. b \notin task[t].bundle
    BY <1>8, <2>1 DEF GrantSession, Alone, FreshInv, Ending
  <2>3. cred'[b] = cred[b]
    BY <1>8, <2>2 DEF GrantSession, TypeOK
  <2> QED BY <1>8, <2>3 DEF GrantSession, Covered
<1>9. ASSUME NEW t \in Task, NEW c \in Bundle, Rotate(t, c) PROVE Covered(b, w)'
  <2>1. cred'[b].jwt = cred[b].jwt /\ cred'[b].session = cred[b].session
    BY <1>9 DEF Rotate, Spent, TypeOK, Cred
  <2> QED BY <1>9, <2>1 DEF Rotate, Covered
<1>10. ASSUME NEW t \in Task, NEW c \in Bundle, NEW v \in Ways,
              Logout(t, c, v) \/ DeleteAccount(t, c, v)
       PROVE  Covered(b, w)'
  <2>1. cred'[b].jwt = cred[b].jwt /\ cred'[b].session = cred[b].session
    BY <1>10, LookupEffect DEF Logout, DeleteAccount
  <2> QED BY <1>10, <2>1 DEF Logout, DeleteAccount, Covered
<1>11. ASSUME NEW t \in Task, NEW R, DropRefresh(t, R) PROVE Covered(b, w)'
  <2>1. cred'[b].jwt = cred[b].jwt /\ cred'[b].session = cred[b].session
    BY <1>11 DEF DropRefresh, Spent, TypeOK, Cred
  <2> QED BY <1>11, <2>1 DEF DropRefresh, Covered
<1>12. ASSUME NEW t \in Task, Blacklist(t) \/ DeleteBlacklist(t) PROVE Covered(b, w)'
  <2>1. cred' = cred
    BY <1>12 DEF Blacklist, DeleteBlacklist
  <2>2. black'[b] \in {black[b], JwtTTL} /\ blank' \in {blank, JwtTTL}
    BY <1>12 DEF Blacklist, DeleteBlacklist, SetBlacklist, TypeOK
  <2> QED BY <2>1, <2>2, CredTypes, ConstantAssumption DEF Covered, TypeOK
<1>13. ASSUME NEW t \in Task, LogoutEnd(t) \/ DeleteSession(t) PROVE Covered(b, w)'
  <2>1. cred'[b].jwt = cred[b].jwt /\ cred'[b].session \in {0, cred[b].session}
    BY <1>13, DestroyEffect DEF LogoutEnd, DeleteSession
  <2> QED BY <1>1, <1>13, <2>1, CredTypes, ConstantAssumption DEF LogoutEnd, DeleteSession
<1>14. ASSUME NEW t \in Task, Abort(t) PROVE Covered(b, w)'
  <2>1. /\ cred'[b].jwt \in {0, cred[b].jwt}
        /\ cred'[b].session \in {0, cred[b].session}
    BY <1>14 DEF Abort, NoCred, TypeOK, Cred
  <2> QED BY <1>1, <1>14, <2>1, CredTypes, ConstantAssumption DEF Abort
<1>15. CASE Tick
  <2>1. /\ cred'[b].jwt = Less(cred[b].jwt) /\ cred'[b].session = Less(cred[b].session)
        /\ black'[b] = Less(black[b]) /\ blank' = Less(blank)
    BY <1>15 DEF Tick, AgedCred
  <2> QED BY <2>1, CredTypes, ConstantAssumption DEF Less, Covered, TypeOK
<1>16. CASE UNCHANGED vars
  BY <1>2, <1>16 DEF vars
<1>17. ASSUME NEW c \in Bundle, Present(c) PROVE Covered(b, w)'
  <2>1. cred'[b].jwt = cred[b].jwt /\ cred'[b].session = cred[b].session
    BY <1>17, LookupEffect DEF Present
  <2> QED BY <1>17, <2>1 DEF Present, Covered
<1> QED
  BY <1>3, <1>4, <1>6, <1>7, <1>8, <1>9, <1>10, <1>11, <1>12, <1>13, <1>14, <1>15,
     <1>16, <1>17
  DEF Next, TaskStep

LEMMA CoverStep == TypeOK /\ CoverInv /\ [Next]_vars => CoverInv'
BY FreshStep, EndingFrom, CoverKept DEF CoverInv

-----------------------------------------------------------------------------
(* Registrations.                                                          *)

\* Requests that have no new row lose theirs or keep it, and rows go.
RowsFade ==
  /\ \A e \in Email : row'[e] \subseteq row[e]
  /\ drawn' = drawn /\ granted' \subseteq granted
  /\ \A t \in Task : Pending(t)' =>
       Pending(t) /\ task'[t].user = task[t].user /\ task'[t].email = task[t].email

RowsFadeByTask(t) ==
  /\ Alone(t) /\ \A e \in Email : row'[e] \subseteq row[e]
  /\ drawn' = drawn /\ granted' \subseteq granted
  /\ Pending(t)' =>
       Pending(t) /\ task'[t].user = task[t].user /\ task'[t].email = task[t].email

LEMMA RowsFading ==
  ASSUME NEW t \in Task, RowsFadeByTask(t)
  PROVE  RowsFade
BY DEF RowsFadeByTask, RowsFade, Pending, Alone

LEMMA RowsFadeStep ==
  ASSUME TypeOK, RowInv, RowsFade
  PROVE  RowInv'
<1>1. \A e \in Email : row'[e] \subseteq drawn'
  BY DEF RowInv, RowsFade
<1>2. ASSUME NEW t \in Task, Pending(t)'
      PROVE  /\ Pending(t) /\ task'[t].user = task[t].user
             /\ task'[t].email = task[t].email
  BY <1>2 DEF RowsFade
<1>3. ASSUME NEW t \in Task, Pending(t)'
      PROVE  /\ \E u \in drawn' : task'[t].user = {u}
             /\ \A r \in Task : Pending(r)' /\ task'[r].user = task'[t].user => r = t
  BY <1>2, <1>3 DEF RowInv, RowsFade
<1>4. ASSUME NEW t \in Task, Pending(t)', NEW e \in task'[t].email,
             task'[t].user \subseteq row'[e]
      PROVE  e \notin granted'
  <2>1. e \in task[t].email /\ Pending(t) /\ e \in Email
    BY <1>2, <1>4, JobTypes
  <2>2. task[t].user \subseteq row[e]
    BY <1>2, <1>4, <2>1 DEF RowsFade
  <2> QED BY <2>1, <2>2 DEF RowInv, RowsFade
<1> QED BY <1>1, <1>3, <1>4 DEF RowInv

LEMMA RowStep == TypeOK /\ RowInv /\ [Next]_vars => RowInv'
<1> SUFFICES ASSUME TypeOK, RowInv, [Next]_vars PROVE RowInv'
  OBVIOUS
<1> USE DEF dbVars, redisVars, historyVars
<1>1. ASSUME NEW t \in Task, RowsFadeByTask(t) PROVE RowInv'
  BY <1>1, RowsFading, RowsFadeStep
<1>2. ASSUME NEW t \in Task, End(t), UNCHANGED <<dbVars, granted>> PROVE RowInv'
  <2>1. RowsFadeByTask(t)
    BY <1>2, TaskAlone, IdleFields DEF End, RowsFadeByTask, Pending
  <2> QED BY <1>1, <2>1
<1>3. ASSUME NEW t \in Task, NEW e \in Email, Register(t, e) \/ Login(t, e)
      PROVE  RowInv'
  <2>1. RowsFadeByTask(t)
    BY <1>3 DEF Register, Login, Job, TypeOK, Alone, RowsFadeByTask, Pending
  <2> QED BY <1>1, <2>1
<1>4. ASSUME NEW t \in Task, Insert(t) PROVE RowInv'
  <2>1. CASE End(t) /\ UNCHANGED <<dbVars, granted>>
    BY <1>2, <2>1
  <2>2. ASSUME NEW e \in Email, NEW u \in Uid \ drawn, NEW f \in Family,
               row[e] = {}, row' = [row EXCEPT ![e] = {u}],
               drawn' = drawn \cup {u}, granted' = granted \ {e},
               task' = [task EXCEPT ![t] = Job("grant", {e}, {u}, {f}, {}, {})]
        PROVE  RowInv'
    <3>1. /\ Alone(t) /\ Pending(t)'
          /\ task'[t].email = {e} /\ task'[t].user = {u}
      BY <2>2 DEF Job, TypeOK, Alone, Pending
    <3>2. \A r \in Task \ {t} : Pending(r)' = Pending(r)
      BY <3>1 DEF Alone, Pending
    <3>3. row'[e] = {u} /\ \A g \in Email \ {e} : row'[g] = row[g]
      BY <2>2 DEF TypeOK
    <3>4. \A g \in Email : row'[g] \subseteq drawn'
      BY <2>2, <3>3 DEF RowInv
    <3>5. ASSUME NEW r \in Task \ {t}, Pending(r)
          PROVE  /\ \E v \in drawn' : task'[r].user = {v}
                 /\ task'[r].user # {u}
                 /\ \A g \in task'[r].email : task'[r].user \subseteq row'[g] => g \notin granted'
      <4>1. task'[r] = task[r] /\ task[r].email \subseteq Email
        BY <3>1, JobTypes DEF Alone
      <4>2. PICK v \in drawn : task[r].user = {v}
        BY <3>5 DEF RowInv
      <4>3. v # u
        BY <2>2
      <4>4. \A g \in task[r].email : task[r].user \subseteq row'[g] => g \notin granted'
        BY <2>2, <3>3, <3>5, <4>1, <4>2, <4>3 DEF RowInv
      <4> QED BY <2>2, <4>1, <4>2, <4>3, <4>4
    <3>6. /\ \E v \in drawn' : task'[t].user = {v}
          /\ \A r \in Task : Pending(r)' /\ task'[r].user = task'[t].user => r = t
          /\ \A g \in task'[t].email : g \notin granted'
      BY <2>2, <3>1, <3>2, <3>5
    <3>7. ASSUME NEW r \in Task \ {t}, NEW q \in Task, Pending(r)', Pending(q)',
                 task'[q].user = task'[r].user
          PROVE  q = r
      BY <3>1, <3>2, <3>5, <3>7 DEF RowInv, Alone
    <3> QED BY <3>2, <3>4, <3>5, <3>6, <3>7 DEF RowInv
  <2> QED BY <1>4, <2>1, <2>2, JobTypes DEF Insert
<1>5. ASSUME NEW t \in Task, Grant(t) PROVE RowInv'
  <2>1. RowsFadeByTask(t)
    BY <1>5 DEF Grant, Job, TypeOK, Alone, RowsFadeByTask, Pending
  <2> QED BY <1>1, <2>1
<1>6. ASSUME NEW t \in Task, GrantSession(t) PROVE RowInv'
  <2>1. Alone(t) /\ ~Pending(t)'
    BY <1>6, TaskAlone, IdleFields DEF GrantSession, End, Pending
  <2>2. UNCHANGED dbVars
    BY <1>6 DEF GrantSession
  <2>3. ASSUME NEW r \in Task \ {t}, Pending(r), NEW e \in task[r].email,
               task[r].user \subseteq row[e]
        PROVE  e \notin granted'
    <3>1. SUFFICES ASSUME e \in task[t].email, row[e] = task[t].user PROVE FALSE
      BY <1>6, <2>3 DEF GrantSession, RowInv
    <3>2. Pending(t)
      BY <1>6, <3>1 DEF GrantSession, Pending
    <3>3. task[r].user = task[t].user
      BY <2>3, <3>1, <3>2 DEF RowInv
    <3> QED BY <2>3, <3>2, <3>3 DEF RowInv
  <2> QED BY <2>1, <2>2, <2>3 DEF RowInv, Alone, Pending
<1>7. ASSUME NEW t \in Task, NEW b \in Bundle, Rotate(t, b) PROVE RowInv'
  <2>1. RowsFadeByTask(t)
    BY <1>7 DEF Rotate, Job, TypeOK, Alone, RowsFadeByTask, Pending
  <2> QED BY <1>1, <2>1
<1>8. ASSUME NEW t \in Task, FindUser(t) PROVE RowInv'
  <2>1. CASE task' = [task EXCEPT ![t] =
               Job("regrant", {}, task[t].user, task[t].fam, {}, {})]
    <3>1. RowsFadeByTask(t)
      BY <1>8, <2>1 DEF FindUser, Job, TypeOK, Alone, RowsFadeByTask, Pending
    <3> QED BY <1>1, <3>1
  <2> QED BY <1>2, <1>8, <2>1 DEF FindUser
<1>9. ASSUME NEW t \in Task, Regrant(t) \/ Abort(t) \/ LogoutEnd(t) PROVE RowInv'
  BY <1>2, <1>9 DEF Regrant, Abort, LogoutEnd
<1>10. ASSUME NEW t \in Task, NEW b \in Bundle, NEW w \in Ways,
              Logout(t, b, w) \/ DeleteAccount(t, b, w)
       PROVE  RowInv'
  <2>1. RowsFadeByTask(t)
    BY <1>10 DEF Logout, DeleteAccount, Job, TypeOK, Alone, RowsFadeByTask, Pending
  <2> QED BY <1>1, <2>1
<1>11. ASSUME NEW t \in Task, NEW o, o \notin {"grant", "session"},
              task' = [task EXCEPT ![t].op = o], UNCHANGED <<dbVars, granted>>
       PROVE  RowInv'
  <2>1. RowsFadeByTask(t)
    BY <1>11, OpAlone DEF RowsFadeByTask, Pending
  <2> QED BY <1>1, <2>1
<1>12. ASSUME NEW t \in Task, NEW R, DropRefresh(t, R) PROVE RowInv'
  <2>1. task'[t].op = "blacklist" /\ Alone(t)
    BY <1>12, OpAlone DEF DropRefresh
  <2>2. RowsFadeByTask(t)
    BY <1>12, <2>1 DEF DropRefresh, RowsFadeByTask, Pending
  <2> QED BY <1>1, <2>2
<1>13. ASSUME NEW t \in Task,
              Blacklist(t) \/ DeleteBlacklist(t) \/ DeleteSession(t)
       PROVE  RowInv'
  BY <1>11, <1>13 DEF Blacklist, DeleteBlacklist, DeleteSession
<1>14. ASSUME NEW t \in Task, DeleteRow(t) PROVE RowInv'
  <2>1. RowsFadeByTask(t)
    BY <1>14, TaskAlone, IdleFields DEF DeleteRow, End, RowsFadeByTask, Pending
  <2> QED BY <1>1, <2>1
<1>15. CASE Tick
  BY <1>15, RowsFadeStep DEF Tick, RowsFade, Pending
<1>16. CASE UNCHANGED vars
  BY <1>16, RowsFadeStep DEF vars, RowsFade, Pending
<1>17. CASE \E b \in Bundle : Present(b)
  BY <1>17, RowsFadeStep DEF Present, RowsFade, Pending
<1> QED
  BY <1>3, <1>4, <1>5, <1>6, <1>7, <1>8, <1>9, <1>10, <1>12, <1>13, <1>14, <1>15,
     <1>16, <1>17
  DEF Next, TaskStep

-----------------------------------------------------------------------------
\* Tokens, sessions, blacklist entries and requests stay within their types;
\* no lifetime exceeds what its handler sets (routes.rs, jwt.rs).
THEOREM TypeCorrect == Spec => []TypeOK
<1>1. Init => TypeOK
  <2>1. NoCred \in Cred
    BY ConstantAssumption DEF NoCred, Cred
  <2> QED BY <2>1, IdleType, ConstantAssumption DEF Init, TypeOK
<1> QED BY <1>1, TypeStep, PTL DEF Spec

LEMMA FamiliesHold == Spec => []FamInv
<1>1. Init => FamInv
  BY IdleFields DEF Init, FamInv, ChainInv, SoleInv, FadedInv, Carries, NoCred
<1>2. TypeOK /\ FamInv /\ [Next]_vars => FamInv'
  BY ChainStep, SoleStep, FadedStep DEF FamInv
<1> QED BY <1>1, <1>2, TypeCorrect, PTL DEF Spec

\* Token rotation never forks: a login and its refreshes have one usable
\* refresh token, or one request that is about to store it, however refreshes
\* of one token race (refresh_token_rotate).
THEOREM RotationNeverForks == Spec => []OneLivePerFamily
<1>1. ChainInv => OneLivePerFamily
  <2> SUFFICES ASSUME ChainInv, NEW f \in Family PROVE Cardinality(Holders(f)) <= 1
    BY DEF OneLivePerFamily
  <2>1. \A x, y \in Holders(f) : x = y
    BY DEF ChainInv, Holders, Carries
  <2>2. CASE Holders(f) = {}
    BY <2>2, FS_EmptySet
  <2>3. ASSUME NEW x \in Holders(f) PROVE Cardinality(Holders(f)) <= 1
    <3>1. Holders(f) = {x}
      BY <2>1
    <3> QED BY <3>1, FS_Singleton
  <2> QED BY <2>2, <2>3
<1>2. FamInv => ChainInv
  BY DEF FamInv
<1> QED BY <1>1, <1>2, FamiliesHold, PTL

-----------------------------------------------------------------------------
(* The refinement of Baton: a step loses tokens, or it begins a family or  *)
(* passes the one that the bundle or the task has.                         *)

\* Nobody has the family.
Nowhere(f) == /\ \A b \in Bundle : f \notin cred[b].fam
              /\ \A t \in Task : ~Carries(t, f)

\* Who has a family and in whose name, from the one place where it is.
At(f) ==
  /\ \A b \in Bundle :
       f \in cred[b].fam => Holders(f) = {b} /\ UsersOf(f) = cred[b].user
  /\ \A t \in Task :
       Carries(t, f) => Holders(f) = {t} /\ UsersOf(f) = task[t].user
  /\ Nowhere(f) => Holders(f) = {} /\ UsersOf(f) = {}
Placed == \A f \in Family : At(f)

LEMMA Places == ChainInv => Placed
<1> SUFFICES ASSUME ChainInv, NEW f \in Family
             PROVE  At(f)
  BY DEF Placed
<1> DEFINE B == {c \in Bundle : f \in cred[c].fam}
           T == {r \in Task : Carries(r, f)}
<1>1. /\ Holders(f) = B \cup T
      /\ UsersOf(f) = UNION ({cred[b].user : b \in B} \cup {task[t].user : t \in T})
  BY DEF Holders, UsersOf, Carries
<1>2. \A n : UNION {n} = n
  OBVIOUS
<1>3. ASSUME NEW b \in Bundle, f \in cred[b].fam
      PROVE  Holders(f) = {b} /\ UsersOf(f) = cred[b].user
  <2>1. B = {b} /\ T = {}
    BY <1>3 DEF ChainInv
  <2>2. {cred[c].user : c \in B} \cup {task[t].user : t \in T} = {cred[b].user}
    BY <2>1
  <2> HIDE DEF B, T
  <2> QED BY <1>1, <1>2, <2>1, <2>2
<1>4. ASSUME NEW t \in Task, Carries(t, f)
      PROVE  Holders(f) = {t} /\ UsersOf(f) = task[t].user
  <2>1. B = {} /\ T = {t}
    BY <1>4 DEF ChainInv
  <2>2. {cred[c].user : c \in B} \cup {task[r].user : r \in T} = {task[t].user}
    BY <2>1
  <2> HIDE DEF B, T
  <2> QED BY <1>1, <1>2, <2>1, <2>2
<1>5. ASSUME Nowhere(f) PROVE Holders(f) = {} /\ UsersOf(f) = {}
  <2>1. B = {} /\ T = {}
    BY <1>5 DEF Nowhere
  <2> HIDE DEF B, T
  <2> QED BY <1>1, <2>1
<1> QED BY <1>3, <1>4, <1>5 DEF At

\* A step of the families, as Baton sees it.
BatonStep == [Rotation!Next]_(Rotation!vars)

LEMMA PlacesStay ==
  ASSUME Placed, Placed', NEW f \in Family,
         \A b \in Bundle : f \in cred'[b].fam <=> f \in cred[b].fam,
         \A b \in Bundle : f \in cred[b].fam => cred'[b].user = cred[b].user,
         \A t \in Task : Carries(t, f)' <=> Carries(t, f),
         \A t \in Task : Carries(t, f) => task'[t].user = task[t].user
  PROVE  Holders(f)' = Holders(f) /\ UsersOf(f)' = UsersOf(f)
<1>0. At(f) /\ At(f)'
  BY DEF Placed
<1>1. CASE Nowhere(f)
  <2>1. Nowhere(f)'
    BY <1>1 DEF Nowhere
  <2> QED BY <1>0, <1>1, <2>1 DEF At
<1>2. ASSUME NEW b \in Bundle, f \in cred[b].fam
      PROVE  Holders(f)' = Holders(f) /\ UsersOf(f)' = UsersOf(f)
  <2>1. Holders(f) = {b} /\ UsersOf(f) = cred[b].user
    BY <1>0, <1>2 DEF At
  <2>2. f \in cred'[b].fam /\ cred'[b].user = cred[b].user
    BY <1>2
  <2>3. Holders(f)' = {b} /\ UsersOf(f)' = cred'[b].user
    BY <1>0, <2>2 DEF At
  <2> QED BY <2>1, <2>2, <2>3
<1>3. ASSUME NEW t \in Task, Carries(t, f)
      PROVE  Holders(f)' = Holders(f) /\ UsersOf(f)' = UsersOf(f)
  <2>1. Holders(f) = {t} /\ UsersOf(f) = task[t].user
    BY <1>0, <1>3 DEF At
  <2>2. Carries(t, f)' /\ task'[t].user = task[t].user
    BY <1>3
  <2>3. Holders(f)' = {t} /\ UsersOf(f)' = task'[t].user
    BY <1>0, <2>2 DEF At
  <2> QED BY <2>1, <2>2, <2>3
<1> QED BY <1>1, <1>2, <1>3 DEF Nowhere

LEMMA LoseRefines ==
  ASSUME Placed, Placed', Fades
  PROVE  BatonStep
<1> DEFINE X == {f \in Family : Holders(f)' = {}}
<1>1. ASSUME NEW f \in Family
      PROVE  IF f \in X THEN Holders(f)' = {} /\ UsersOf(f)' = {}
             ELSE Holders(f)' = Holders(f) /\ UsersOf(f)' = UsersOf(f)
  <2>0. At(f) /\ At(f)'
    BY DEF Placed
  <2>1. CASE Nowhere(f)'
    BY <2>0, <2>1 DEF At
  <2>2. ASSUME NEW b \in Bundle, f \in cred'[b].fam
        PROVE  /\ Holders(f)' = {b} /\ Holders(f) = {b}
               /\ UsersOf(f)' = UsersOf(f)
    BY <2>0, <2>2 DEF At, Fades, AllKeep
  <2>3. ASSUME NEW t \in Task, Carries(t, f)'
        PROVE  /\ Holders(f)' = {t} /\ Holders(f) = {t}
               /\ UsersOf(f)' = UsersOf(f)
    BY <2>0, <2>3 DEF At, Fades
  <2> QED BY <2>1, <2>2, <2>3 DEF Nowhere
<1>2. X \in SUBSET Family
  OBVIOUS
<1> HIDE DEF X
<1>3. Rotation!Lose(X)
  BY <1>1, <1>2 DEF Rotation!Lose
<1> QED BY <1>2, <1>3 DEF BatonStep, Rotation!Next

LEMMA BeginRefines ==
  ASSUME TypeOK', Placed, Placed', NEW t \in Task, NEW f \in Family, Starts(t, f)
  PROVE  BatonStep
<1>1. Nowhere(f)
  BY DEF Starts, FreeFamily, Nowhere, Carries
<1>2. Holders(f) = {} /\ UsersOf(f) = {}
  BY <1>1 DEF Placed, At
<1>3. Holders(f)' = {t} /\ UsersOf(f)' = task'[t].user
  BY DEF Placed, At, Starts
<1>4. ASSUME NEW g \in Family \ {f}
      PROVE  Holders(g)' = Holders(g) /\ UsersOf(g)' = UsersOf(g)
  BY <1>4, PlacesStay DEF Starts, Alone, Carries
<1>5. task'[t].user \in SUBSET Uid
  BY DEF TypeOK, Jobs
<1>6. Rotation!Begin(f, t, task'[t].user)
  BY <1>2, <1>3, <1>4 DEF Rotation!Begin
<1> QED BY <1>5, <1>6 DEF BatonStep, Rotation!Next

\* The one family that a bundle or a task has goes from g to h.
LEMMA PassRefines ==
  ASSUME NEW f \in Family, NEW t \in Task, NEW b \in Bundle, NEW g, NEW h,
         \/ g = t /\ h = b
         \/ g = b /\ h = t,
         Holders(f) = {g}, Holders(f)' = {h}, UsersOf(f)' = UsersOf(f),
         \A e \in Family \ {f} :
           Holders(e)' = Holders(e) /\ UsersOf(e)' = UsersOf(e)
  PROVE  BatonStep
<1> DEFINE w == <<g, h>>
<1>1. w \in (Task \X Bundle) \cup (Bundle \X Task)
  OBVIOUS
<1>2. Rotation!Pass(f, w[1], w[2])
  BY DEF Rotation!Pass
<1> HIDE DEF w
<1> QED BY <1>1, <1>2 DEF BatonStep, Rotation!Next

LEMMA StayRefines ==
  ASSUME \A f \in Family : Holders(f)' = Holders(f) /\ UsersOf(f)' = UsersOf(f)
  PROVE  BatonStep
BY DEF BatonStep, Rotation!vars

LEMMA TakenRefines ==
  ASSUME TypeOK, SoleInv, Placed, Placed', NEW t \in Task, NEW b \in Bundle, Taken(t, b)
  PROVE  BatonStep
<1>1. ASSUME NEW e \in Family, e \notin cred[b].fam
      PROVE  Holders(e)' = Holders(e) /\ UsersOf(e)' = UsersOf(e)
  BY <1>1, PlacesStay DEF Taken, Only, Alone, Carries
<1>2. ASSUME NEW f \in Family, f \in cred[b].fam PROVE BatonStep
  <2>1. /\ Holders(f) = {b} /\ Holders(f)' = {t}
        /\ UsersOf(f)' = UsersOf(f)
    BY <1>2 DEF Placed, At, Taken
  <2>2. \A e \in Family \ {f} : e \notin cred[b].fam
    BY <1>2 DEF SoleInv
  <2> QED BY <1>1, <2>1, <2>2, PassRefines
<1> QED BY <1>1, <1>2, StayRefines

LEMMA GivenRefines ==
  ASSUME TypeOK, SoleInv, Placed, Placed', NEW t \in Task, NEW b \in Bundle, Given(t, b)
  PROVE  BatonStep
<1>1. ASSUME NEW e \in Family, ~Carries(t, e)
      PROVE  Holders(e)' = Holders(e) /\ UsersOf(e)' = UsersOf(e)
  BY <1>1, PlacesStay DEF Given, Only, Alone, Carries
<1>2. ASSUME NEW f \in Family, Carries(t, f) PROVE BatonStep
  <2>1. /\ Holders(f) = {t} /\ Holders(f)' = {b}
        /\ UsersOf(f)' = UsersOf(f)
    BY <1>2 DEF Placed, At, Given
  <2>2. \A e \in Family \ {f} : ~Carries(t, e)
    BY <1>2 DEF SoleInv
  <2> QED BY <1>1, <2>1, <2>2, PassRefines
<1> QED BY <1>1, <1>2, StayRefines

LEMMA BatonSteps ==
  TypeOK /\ TypeOK' /\ FamInv /\ FamInv' /\ [Next]_vars => BatonStep
<1> SUFFICES ASSUME TypeOK, TypeOK', FamInv, FamInv', [Next]_vars PROVE BatonStep
  OBVIOUS
<1>1. Placed
  BY Places DEF FamInv
<1>2. ChainInv'
  BY DEF FamInv
<1>3. ChainInv' => Placed'
  BY Places, PTL
<1>4. FamilyMove
  BY FamilyMoves DEF FamInv
<1> QED
  BY <1>1, <1>2, <1>3, <1>4, LoseRefines, BeginRefines, TakenRefines, GivenRefines
  DEF FamilyMove, FamInv

\* The refresh tokens of a login are a Baton: each refresh uses up the token
\* it came with, a new one comes from a login or from the one used up, for the
\* same user, and there are never two (refresh_token_rotate).
THEOREM RotationImplementsBaton == Spec => RotationIsABaton
<1>1. Init => Rotation!Init
  <2> SUFFICES ASSUME Init, NEW f \in Family PROVE Holders(f) = {} /\ UsersOf(f) = {}
    BY DEF Rotation!Init
  <2>1. Nowhere(f) /\ ChainInv
    BY IdleFields DEF Init, Nowhere, ChainInv, Carries, NoCred
  <2> QED BY <2>1, Places DEF Placed, At
<1>2. TypeOK /\ TypeOK' /\ FamInv /\ FamInv' /\ [Next]_vars
        => [Rotation!Next]_(Rotation!vars)
  BY BatonSteps DEF BatonStep
<1> QED BY <1>1, <1>2, TypeCorrect, FamiliesHold, PTL
           DEF Spec, RotationIsABaton, Rotation!Spec

LEMMA CoverHolds == Spec => []CoverInv
<1>1. Init => CoverInv
  BY IdleFields DEF Init, CoverInv, FreshInv, OneInv, Ending
<1> QED BY <1>1, CoverStep, TypeCorrect, PTL DEF Spec

\* A logout holds: with lookups that fail closed, a JWT is refused until its
\* exp and a cookie for as long as Redis has its session, even if
\* session_destroy failed; only a cached copy may be accepted after that.
THEOREM LogoutsStick == Spec => []LogoutSticks
<1>1. TypeOK /\ CoverInv => LogoutSticks
  <2> SUFFICES ASSUME TypeOK, CoverInv, ~FailOpen, NEW b \in Bundle
               PROVE  /\ <<b, "bearer">> \in out /\ Accepts(b, "bearer") =>
                           cred[b].jwt <= Leeway
                      /\ <<b, "cookie">> \in out /\ Accepts(b, "cookie") =>
                           cred[b].session = 0
    BY DEF LogoutSticks
  <2>1. \A w \in Ways : <<b, w>> \in out => Covered(b, w)
    BY DEF CoverInv, Ending
  <2>2. ASSUME <<b, "bearer">> \in out, Accepts(b, "bearer")
        PROVE  cred[b].jwt <= Leeway
    <3>1. cred[b].jwt <= black[b] + Leeway
      BY <2>1, <2>2 DEF Ways, Covered
    <3>2. black[b] = 0
      BY <2>2, ConstantAssumption DEF Accepts, Blacklisted, TypeOK
    <3> QED BY <3>1, <3>2, ConstantAssumption
  <2>3. ASSUME <<b, "cookie">> \in out, Accepts(b, "cookie")
        PROVE  cred[b].session = 0
    <3>1. cred[b].session <= blank
      BY <2>1, <2>3 DEF Ways, Covered
    <3>2. blank = 0
      BY <2>3, ConstantAssumption DEF Accepts, Blacklisted, TypeOK
    <3> QED BY <3>1, <3>2, CredTypes, ConstantAssumption
  <2> QED BY <2>2, <2>3
<1> QED BY <1>1, CoverHolds, TypeCorrect, PTL

LEMMA RowsHold == Spec => []RowInv
<1>1. Init => RowInv
  BY IdleFields DEF Init, RowInv, Pending
<1> QED BY <1>1, RowStep, TypeCorrect, PTL DEF Spec

\* Of registrations that race for an address, one is answered 201 for a row:
\* the unique index decides, whatever the SELECT before it saw.
THEOREM RowsAreRegisteredOnce == Spec => RegisterOnce
<1> DEFINE Once ==
      \A t \in Task, e \in Email :
        GrantSession(t) /\ e \in task[t].email /\ row[e] = task[t].user
          => e \notin granted
<1>1. RowInv => Once
  BY DEF RowInv, Pending, GrantSession
<1>2. RowInv => [Once]_vars
  BY <1>1
<1> QED BY <1>2, RowsHold, PTL DEF RegisterOnce
=============================================================================
