----------------------------- MODULE AuthTokens -----------------------------
(***************************************************************************)
(* Accounts and credentials: register, login, refresh, logout and          *)
(* delete_account of backend/auth/src/routes.rs and the acceptance test of *)
(* auth_middleware.  Every successful grant is a bundle: an access token   *)
(* (JWT, valid by itself until it expires), a refresh token in Redis and,  *)
(* for register and login, a session in Redis.  Each handler is a task     *)
(* with one step per await.  A cookie is resolved through the in-process   *)
(* session cache, which may answer for a session that Redis has lost; of   *)
(* the copies that the processes keep the one that lives longest counts    *)
(* here, and module SessionStore has the caches one by one.  Time is       *)
(* counted in ticks and every lifetime is the number of ticks left.        *)
(***************************************************************************)
EXTENDS Integers, FiniteSets

CONSTANTS
  Email,      \* addresses
  Uid,        \* values of users.id, drawn fresh by the database
  Bundle,     \* grants; an id is reused only when nothing of it is left
  Family,     \* a login and all the refreshes that descend from it
  Task,       \* request tasks
  Mode,       \* AUTH_MODE: "bearer", "cookie" or "both"
  JwtTTL,     \* jwt_expiry: JWT, session and blacklist entry
  Leeway,     \* ticks a JWT is accepted past exp (jsonwebtoken's default)
  RefreshTTL, \* refresh_expiry
  CacheTTL,   \* SESSION_CACHE_TTL
  FailOpen    \* fail_open_on_redis_error

ASSUME ConstantAssumption ==
  /\ Mode \in {"bearer", "cookie", "both"}
  /\ JwtTTL \in Nat \ {0}
  /\ Leeway \in Nat
  /\ RefreshTTL \in Nat \ {0}
  /\ CacheTTL \in Nat
  /\ FailOpen \in BOOLEAN

VARIABLES
  row,      \* the users table: the ids of the rows with an address (0 or 1)
  drawn,    \* ids ever assigned
  cred,     \* what is left of each bundle
  black,    \* blacklist:<jti>, ticks left
  blank,    \* blacklist: with an empty jti, ticks left
  task,     \* the request tasks
  out,      \* history: bundle and way of each logout that returned 204
  deleted,  \* history: accounts whose deletion was committed
  granted   \* history: addresses whose current row a register answered 201

dbVars == <<row, drawn>>
redisVars == <<cred, black, blank>>
historyVars == <<out, deleted, granted>>
vars == <<row, drawn, cred, black, blank, task, out, deleted, granted>>
-----------------------------------------------------------------------------
Ways == {"bearer", "cookie"}

Cred == [user : SUBSET Uid, fam : SUBSET Family, jwt : 0..JwtTTL + Leeway,
         refresh : 0..RefreshTTL, session : 0..JwtTTL, cached : 0..CacheTTL]
NoCred == [user |-> {}, fam |-> {}, jwt |-> 0, refresh |-> 0, session |-> 0,
           cached |-> 0]

Ops == {"idle", "insert", "grant", "session", "find", "regrant",
        "logout", "blacklist", "destroy",
        "delete", "del_destroy", "del_row"}
Job(o, e, u, f, b, w) ==
  [op |-> o, email |-> e, user |-> u, fam |-> f, bundle |-> b, way |-> w]
Jobs == [op : Ops, email : SUBSET Email, user : SUBSET Uid,
         fam : SUBSET Family, bundle : SUBSET Bundle, way : SUBSET Ways]
Idle == Job("idle", {}, {}, {}, {}, {})

Users == UNION {row[e] : e \in Email}

FreeBundle(b) ==
  /\ cred[b].jwt = 0 /\ cred[b].refresh = 0 /\ cred[b].session = 0
  /\ cred[b].cached = 0 /\ black[b] = 0
  /\ \A t \in Task : b \notin task[t].bundle

FreeFamily(f) ==
  /\ \A b \in Bundle : f \notin cred[b].fam
  /\ \A t \in Task : f \notin task[t].fam

\* A client knows the tokens of a bundle once the grant was answered.
Issued(b) == \A t \in Task : task[t].op = "session" => b \notin task[t].bundle

\* extract_bearer, or cookie_auth_prepare and resolve_cookie_user: who the
\* request is.  A bearer token must be unexpired; a session must be in Redis
\* or in a process's cache (the CSRF pair sent along is taken to match) and
\* gives an empty jti.
Resolves(b, w) ==
  \/ w = "bearer" /\ Mode # "cookie" /\ cred[b].jwt > 0
  \/ /\ w = "cookie" /\ Mode # "bearer"
     /\ cred[b].session > 0 \/ cred[b].cached > 0

\* The blacklist entry auth_middleware asks Redis for.  The in-process copy
\* of the blacklist in front of it is never initialised and always misses.
Blacklisted(b, w) == IF w = "bearer" THEN black[b] > 0 ELSE blank > 0

\* auth_middleware lets the request through: the blacklist has no entry, or
\* the lookup fails and the service fails open.
Accepts(b, w) == Resolves(b, w) /\ (Blacklisted(b, w) => FailOpen)

\* session_get, on the way to the AuthUser of a cookie: a process that has no
\* copy of the session reads it from Redis and caches it.
SessionGet(b) ==
  /\ Mode # "bearer" /\ cred[b].session > 0
  /\ cred' = [cred EXCEPT ![b].cached = CacheTTL]

\* The lookup of a request that is let in; a hit leaves the cache as it is.
Lookup(b, w) ==
  \/ (w = "bearer" \/ cred[b].cached > 0) /\ UNCHANGED cred
  \/ w = "cookie" /\ SessionGet(b)

End(t) == task' = [task EXCEPT ![t] = Idle]
-----------------------------------------------------------------------------
Init ==
  /\ row = [e \in Email |-> {}]
  /\ drawn = {}
  /\ cred = [b \in Bundle |-> NoCred]
  /\ black = [b \in Bundle |-> 0]
  /\ blank = 0
  /\ task = [t \in Task |-> Idle]
  /\ out = {}
  /\ deleted = {}
  /\ granted = {}

\* register up to the SELECT: the address is not taken (else 409).
Register(t, e) ==
  /\ task[t].op = "idle"
  /\ row[e] = {}
  /\ task' = [task EXCEPT ![t] = Job("insert", {e}, {}, {}, {}, {})]
  /\ UNCHANGED <<dbVars, redisVars, historyVars>>

\* Mutant of Insert: an upsert, as in the OAuth callback, instead of a 409.
InsertUpsert(t) ==
  /\ task[t].op = "insert"
  /\ \E e \in task[t].email, u \in Uid, f \in Family :
       /\ IF row[e] = {} THEN u \notin drawn ELSE u \in row[e]
       /\ FreeFamily(f)
       /\ row' = [row EXCEPT ![e] = {u}]
       /\ drawn' = drawn \cup {u}
       /\ granted' = IF row[e] = {} THEN granted \ {e} ELSE granted
       /\ task' = [task EXCEPT ![t] = Job("grant", {e}, {u}, {f}, {}, {})]
  /\ UNCHANGED <<redisVars, out, deleted>>

\* INSERT: a unique violation ends in 409, else the row gets a fresh id.
Insert(t) ==
  /\ task[t].op = "insert"
  /\ \E e \in task[t].email :
       \/ /\ row[e] # {}
          /\ End(t)
          /\ UNCHANGED <<dbVars, granted>>
       \/ /\ row[e] = {}
          /\ \E u \in Uid \ drawn, f \in Family :
               /\ FreeFamily(f)
               /\ row' = [row EXCEPT ![e] = {u}]
               /\ drawn' = drawn \cup {u}
               /\ task' = [task EXCEPT ![t] = Job("grant", {e}, {u}, {f}, {}, {})]
          /\ granted' = granted \ {e}
  /\ UNCHANGED <<redisVars, out, deleted>>

\* login past the password check: the row was read and its hash matched.
\* (A missing row, a missing hash or a wrong password ends in 401.)
Login(t, e) ==
  /\ task[t].op = "idle"
  /\ row[e] # {}
  /\ \E f \in Family :
       /\ FreeFamily(f)
       /\ task' = [task EXCEPT ![t] = Job("grant", {}, row[e], {f}, {}, {})]
  /\ UNCHANGED <<dbVars, redisVars, historyVars>>

\* create_token and cache_set("refresh"): the bundle's JWT and refresh token.
NewCred(t) == [user |-> task[t].user, fam |-> task[t].fam,
               jwt |-> JwtTTL + Leeway, refresh |-> RefreshTTL, session |-> 0,
               cached |-> 0]

Grant(t) ==
  /\ task[t].op = "grant"
  /\ \E b \in Bundle :
       /\ FreeBundle(b)
       /\ cred' = [cred EXCEPT ![b] = NewCred(t)]
       /\ out' = {o \in out : o[1] # b}
       /\ task' = [task EXCEPT ![t] =
            Job("session", @.email, @.user, @.fam, {b}, {})]
  /\ UNCHANGED <<dbVars, black, blank, deleted, granted>>

\* session_create, and the answer: 201 for a register, 200 for a login.
GrantSession(t) ==
  /\ task[t].op = "session"
  /\ \E b \in task[t].bundle : cred' = [cred EXCEPT ![b].session = JwtTTL]
  /\ granted' = granted \cup {e \in task[t].email : row[e] = task[t].user}
  /\ End(t)
  /\ UNCHANGED <<dbVars, black, blank, out, deleted>>
-----------------------------------------------------------------------------
\* A bundle whose refresh token is gone.
Spent(c) == [c EXCEPT !.refresh = 0, !.fam = {}]

\* Mutant of Rotate: the token is read and not deleted.
RotateKeeping(t, b) ==
  /\ task[t].op = "idle"
  /\ Issued(b) /\ cred[b].refresh > 0
  /\ task' = [task EXCEPT ![t] =
       Job("find", {}, cred[b].user, cred[b].fam, {}, {})]
  /\ UNCHANGED <<dbVars, redisVars, historyVars>>

\* refresh: refresh_token_rotate reads and deletes the token in one script.
Rotate(t, b) ==
  /\ task[t].op = "idle"
  /\ Issued(b) /\ cred[b].refresh > 0
  /\ cred' = [cred EXCEPT ![b] = Spent(@)]
  /\ task' = [task EXCEPT ![t] =
       Job("find", {}, cred[b].user, cred[b].fam, {}, {})]
  /\ UNCHANGED <<dbVars, black, blank, historyVars>>

\* Mutant of FindUser: the user is not looked up.
FindAnyUser(t) ==
  /\ task[t].op = "find"
  /\ task' = [task EXCEPT ![t] = Job("regrant", {}, @.user, @.fam, {}, {})]
  /\ UNCHANGED <<dbVars, redisVars, historyVars>>

\* SELECT by id: no row ends in 401, and the token is spent.
FindUser(t) ==
  /\ task[t].op = "find"
  /\ IF task[t].user \subseteq Users
     THEN task' = [task EXCEPT ![t] =
            Job("regrant", {}, @.user, @.fam, {}, {})]
     ELSE End(t)
  /\ UNCHANGED <<dbVars, redisVars, historyVars>>

Regrant(t) ==
  /\ task[t].op = "regrant"
  /\ \E b \in Bundle :
       /\ FreeBundle(b)
       /\ cred' = [cred EXCEPT ![b] = NewCred(t)]
       /\ out' = {o \in out : o[1] # b}
  /\ End(t)
  /\ UNCHANGED <<dbVars, black, blank, deleted, granted>>
-----------------------------------------------------------------------------
\* Any other request with the cookie: session_get runs before the blacklist
\* is asked, so a request that is then refused fills the cache as well.
Present(b) ==
  /\ Issued(b) /\ SessionGet(b)
  /\ UNCHANGED <<dbVars, black, blank, task, historyVars>>

\* logout: auth_middleware lets the request in; what follows acts on the
\* AuthUser it found then.
Logout(t, b, w) ==
  /\ task[t].op = "idle"
  /\ Issued(b) /\ Accepts(b, w) /\ Lookup(b, w)
  /\ task' = [task EXCEPT ![t] = Job("logout", {}, {}, {}, {b}, {w})]
  /\ UNCHANGED <<dbVars, black, blank, historyVars>>

\* The body may name a refresh token (any), which is deleted first.
DropRefresh(t, R) ==
  /\ task[t].op = "logout"
  /\ \A b \in R : Issued(b)
  /\ cred' = [b \in Bundle |->
       IF b \in R THEN Spent(cred[b]) ELSE cred[b]]
  /\ task' = [task EXCEPT ![t].op = "blacklist"]
  /\ UNCHANGED <<dbVars, black, blank, historyVars>>

\* Mutants of SetBlacklist: the entry lives a tick too short, or as long as
\* a refresh token.
SetBlacklistShort(b, w) ==
  IF w = "bearer"
  THEN black' = [black EXCEPT ![b] = JwtTTL - 1] /\ UNCHANGED blank
  ELSE blank' = JwtTTL - 1 /\ UNCHANGED black

SetBlacklistLong(b, w) ==
  IF w = "bearer"
  THEN black' = [black EXCEPT ![b] = RefreshTTL] /\ UNCHANGED blank
  ELSE blank' = RefreshTTL /\ UNCHANGED black

\* cache_set("blacklist", jti): the jti of a cookie user is empty.
SetBlacklist(b, w) ==
  IF w = "bearer"
  THEN black' = [black EXCEPT ![b] = JwtTTL] /\ UNCHANGED blank
  ELSE blank' = JwtTTL /\ UNCHANGED black

Blacklist(t) ==
  /\ task[t].op = "blacklist"
  /\ \E b \in task[t].bundle, w \in task[t].way :
       /\ SetBlacklist(b, w)
       /\ task' = [task EXCEPT ![t].op = "destroy"]
  /\ UNCHANGED <<dbVars, cred, historyVars>>

\* session_destroy when the request came with a session cookie.  This process
\* forgets its copy; another keeps its own, and a session_get that read the
\* session before may cache it after.  A failure is only logged.
DestroySession(t) ==
  \/ \E b \in task[t].bundle :
       /\ "cookie" \in task[t].way
       /\ \E n \in {0, cred[b].cached} \cup {m \in {CacheTTL} : cred[b].session > 0} :
            cred' = [cred EXCEPT ![b].session = 0, ![b].cached = n]
  \/ UNCHANGED cred

\* ... and the answer, 204.
LogoutEnd(t) ==
  /\ task[t].op = "destroy"
  /\ DestroySession(t)
  /\ out' = out \cup (task[t].bundle \X task[t].way)
  /\ End(t)
  /\ UNCHANGED <<dbVars, black, blank, deleted, granted>>

\* delete_account: let in, then blacklist, then session_destroy, then rows.
DeleteAccount(t, b, w) ==
  /\ task[t].op = "idle"
  /\ Issued(b) /\ Accepts(b, w) /\ Lookup(b, w)
  /\ task' = [task EXCEPT ![t] = Job("delete", {}, cred[b].user, {}, {b}, {w})]
  /\ UNCHANGED <<dbVars, black, blank, historyVars>>

DeleteBlacklist(t) ==
  /\ task[t].op = "delete"
  /\ \E b \in task[t].bundle, w \in task[t].way : SetBlacklist(b, w)
  /\ task' = [task EXCEPT ![t].op = "del_destroy"]
  /\ UNCHANGED <<dbVars, cred, historyVars>>

DeleteSession(t) ==
  /\ task[t].op = "del_destroy"
  /\ DestroySession(t)
  /\ task' = [task EXCEPT ![t].op = "del_row"]
  /\ UNCHANGED <<dbVars, black, blank, historyVars>>

\* DELETE FROM notes and FROM users; no row left means 404.
DeleteRow(t) ==
  /\ task[t].op = "del_row"
  /\ row' = [e \in Email |-> row[e] \ task[t].user]
  /\ deleted' = deleted \cup (task[t].user \cap Users)
  /\ granted' = {e \in granted : row[e] \cap task[t].user = {}}
  /\ End(t)
  /\ UNCHANGED <<drawn, redisVars, out>>
-----------------------------------------------------------------------------
\* A command of the handler fails, or its client goes away: the task ends
\* where it is.  Tokens that were not handed out yet are known to nobody.
Abort(t) ==
  /\ task[t].op # "idle"
  /\ cred' = [b \in Bundle |->
       IF task[t].op = "session" /\ b \in task[t].bundle THEN NoCred ELSE cred[b]]
  /\ End(t)
  /\ UNCHANGED <<dbVars, black, blank, historyVars>>

Less(n) == IF n = 0 THEN 0 ELSE n - 1

\* A bundle of which nothing is left forgets its user.
AgedCred(c) ==
  [user |-> IF c.jwt <= 1 /\ c.refresh <= 1 /\ c.session <= 1 /\ c.cached <= 1
            THEN {} ELSE c.user,
   fam |-> IF c.refresh <= 1 THEN {} ELSE c.fam,
   jwt |-> Less(c.jwt), refresh |-> Less(c.refresh), session |-> Less(c.session),
   cached |-> Less(c.cached)]

Tick ==
  /\ cred' = [b \in Bundle |-> AgedCred(cred[b])]
  /\ black' = [b \in Bundle |-> Less(black[b])]
  /\ blank' = Less(blank)
  /\ UNCHANGED <<dbVars, task, historyVars>>

TaskStep(t) ==
  \/ Insert(t) \/ Grant(t) \/ GrantSession(t) \/ FindUser(t) \/ Regrant(t)
  \/ \E R \in {{}} \cup {{b} : b \in Bundle} : DropRefresh(t, R)
  \/ Blacklist(t) \/ LogoutEnd(t)
  \/ DeleteBlacklist(t) \/ DeleteSession(t) \/ DeleteRow(t)

Next ==
  \/ \E t \in Task, e \in Email : Register(t, e) \/ Login(t, e)
  \/ \E t \in Task, b \in Bundle : Rotate(t, b)
  \/ \E b \in Bundle : Present(b)
  \/ \E t \in Task, b \in Bundle, w \in Ways :
       Logout(t, b, w) \/ DeleteAccount(t, b, w)
  \/ \E t \in Task : TaskStep(t) \/ Abort(t)
  \/ Tick

Spec == Init /\ [][Next]_vars

\* Replies arrive (or the command fails) and clocks advance; clients owe
\* nothing.
Fairness ==
  /\ \A t \in Task : WF_vars(TaskStep(t) \/ Abort(t))
  /\ WF_vars(Tick)

FairSpec == Spec /\ Fairness
-----------------------------------------------------------------------------
\* Lifetimes never exceed what they are set to (a blacklist entry's is
\* jwt_expiry), and rows, bundles and tasks stay within their types.
TypeOK ==
  /\ row \in [Email -> SUBSET Uid]
  /\ drawn \in SUBSET Uid
  /\ cred \in [Bundle -> Cred]
  /\ black \in [Bundle -> 0..JwtTTL]
  /\ blank \in 0..JwtTTL
  /\ task \in [Task -> Jobs]
  /\ out \in SUBSET (Bundle \X Ways)
  /\ deleted \in SUBSET Uid
  /\ granted \in SUBSET Email

\* Of a login and its refreshes at most one refresh token is usable, counting
\* the requests that are about to create one: the token rotation never forks,
\* however refreshes of the same token race.
Holders(f) ==
  {b \in Bundle : f \in cred[b].fam}
    \cup {t \in Task : f \in task[t].fam /\ task[t].op \in {"grant", "find", "regrant"}}

OneLivePerFamily == \A f \in Family : Cardinality(Holders(f)) <= 1

\* A bundle that was logged out is not accepted the way it was logged out
\* while it would have lived: a JWT not before its exp and a cookie not while
\* Redis has its session, even when session_destroy failed, since the entry
\* that logout wrote lasts as long (when blacklist lookups fail closed).  What
\* is accepted later comes out of a session cache: a refused request fills it
\* too, so a cookie may come back for the rest of a SESSION_CACHE_TTL.
LogoutSticks ==
  ~FailOpen => \A b \in Bundle :
    /\ <<b, "bearer">> \in out /\ Accepts(b, "bearer") => cred[b].jwt <= Leeway
    /\ <<b, "cookie">> \in out /\ Accepts(b, "cookie") => cred[b].session = 0

\* Registrations racing for one address: the loser gets no account, and a row
\* is answered 201 by one register only (UNIQUE(email) decides, not the SELECT).
RegisterOnce ==
  [][\A t \in Task, e \in Email :
       GrantSession(t) /\ e \in task[t].email /\ row[e] = task[t].user
         => e \notin granted]_vars

\* Once an account is deleted, every credential of it eventually stops being
\* accepted, for good: refresh tokens that survived cannot renew them.
DeletedDrains ==
  \A u \in Uid :
    u \in deleted ~> [](\A b \in Bundle, w \in Ways :
                          u \in cred[b].user => ~Accepts(b, w))
=============================================================================
