---------------------------- MODULE OneTimeTokens ----------------------------
(***************************************************************************)
(* Password reset and OAuth login of backend/auth/src/routes.rs: tokens in *)
(* Redis that should be used once.  The OAuth state is read and deleted by *)
(* one GETDEL; the reset token is read by GET, and deleted after the new   *)
(* password was hashed and stored.  A handler is a task with a step for    *)
(* each await, the commands with which a reset destroys the sessions of    *)
(* its account included.  SessionStore has what is left out here: the set  *)
(* of a user's sessions outlives them, and processes cache them.           *)
(***************************************************************************)
EXTENDS Integers, FiniteSets

CONSTANTS
  Email,       \* addresses
  User,        \* account ids, drawn fresh by Uuid::new_v4
  AddressOf,   \* the address an id is drawn for
  Token,       \* reset tokens, drawn fresh
  State,       \* OAuth states, drawn fresh by CsrfToken::new_random
  Browser,     \* values of the cookie session=
  Task,        \* request tasks
  WithId,      \* the providers a client id is configured for
  WithSecret,  \* the providers a client secret is configured for
  ResetTTL,    \* RESET_TOKEN_TTL_SECS
  StateTTL,    \* the 600 s of oauth_csrf
  MaxSets,     \* bound: passwords an account is given
  MaxFailures  \* bound: commands whose reply is lost or that fail

\* OAuthProvider, and the ones that have a client.
Provider == {"google", "github"}
Configured == WithId \cap WithSecret

ASSUME TokenAssumption ==
  /\ AddressOf \in [User -> Email]
  /\ WithId \subseteq Provider /\ WithSecret \subseteq Provider
  /\ ResetTTL \in Nat \ {0} /\ StateTTL \in Nat \ {0}
  /\ MaxSets \in Nat \ {0} /\ MaxFailures \in Nat

VARIABLES
  users,     \* table users: provider ("none" without a row) and password
  drawn,     \* ids, tokens and states handed out so far
  reset,     \* reset:<token>       the account id and ticks left
  csrf,      \* oauth_csrf:<state>  provider, bound session and ticks left
  sess,      \* session:<id>         the live sessions, as their logins
  index,     \* user_sessions:<uid>  the live sessions in these sets
  temp,      \* ...:destroying       and in the sets they were renamed to
  task,      \* what each request task is doing
  failures,  \* failures so far
  spent,     \* history: reset tokens whose DEL has returned
  raced,     \* history: tasks that held a token when it was deleted
  swept,     \* history: the newest password a finished reset gave an account
  excused    \* history: logins a reset may miss

rowVars == <<users, drawn>>
keyVars == <<reset, csrf>>
sessVars == <<sess, index, temp>>
historyVars == <<spent, raced, swept, excused>>
vars == <<users, drawn, reset, csrf, sess, index, temp, task, failures, spent,
          raced, swept, excused>>
-----------------------------------------------------------------------------
\* A row of users.  Passwords are numbered: 0 is a NULL password_hash, 1 the
\* one of register, and every reset stores the next.
Row == [provider : Provider \cup {"local", "none"}, pw : 0..MaxSets]
NoRow == [provider |-> "none", pw |-> 0]
Exists(u) == users[u].provider # "none"
AccountOf(e) == {u \in User : Exists(u) /\ AddressOf[u] = e}

\* A login: the account, the password it had when the login read its row,
\* and the OAuth state it went through, if any.
Login == [user : User, pw : 0..MaxSets, via : SUBSET State]

Ops == {"idle", "forgot", "hash", "delete", "destroy", "members", "deltemp",
        "delkeys", "exchange", "userinfo", "emails", "upsert", "grant"}
TaskState == [op : Ops, user : SUBSET User, pw : 0..MaxSets,
              token : SUBSET Token, via : SUBSET State,
              provider : SUBSET Provider, email : SUBSET Email,
              found : SUBSET Login]
Idle == [op |-> "idle", user |-> {}, pw |-> 0, token |-> {}, via |-> {},
         provider |-> {}, email |-> {}, found |-> {}]
GrantTask(u, n, S) == [Idle EXCEPT !.op = "grant", !.user = {u}, !.pw = n,
                                   !.via = S]

NoReset == [user |-> {}, ttl |-> 0]
NoState == [provider |-> {}, bound |-> {}, ttl |-> 0]

Holding(k) == {t \in Task : task[t].op = "hash" /\ k \in task[t].token}
Granting(u) == {t \in Task : task[t].op = "grant" /\ task[t].user = {u}}
LoginOf(t) == {[user |-> u, pw |-> task[t].pw, via |-> task[t].via] :
                 u \in task[t].user}

Goto(t, o) == task' = [task EXCEPT ![t].op = o]
End(t) == task' = [task EXCEPT ![t] = Idle]

Init ==
  /\ users = [u \in User |-> NoRow]
  /\ drawn = {}
  /\ reset = [k \in Token |-> NoReset]
  /\ csrf = [s \in State |-> NoState]
  /\ sess = {} /\ index = {} /\ temp = {}
  /\ task = [t \in Task |-> Idle]
  /\ failures = 0
  /\ spent = {}
  /\ raced = [k \in Token |-> {}]
  /\ swept = [u \in User |-> 0]
  /\ excused = {}
-----------------------------------------------------------------------------
(* Accounts and password logins, as far as the tokens meet them.           *)

\* register: the INSERT, which the unique index on email may refuse.
Register(t, u) ==
  /\ task[t].op = "idle"
  /\ u \notin drawn /\ AccountOf(AddressOf[u]) = {}
  /\ users' = [users EXCEPT ![u] = [provider |-> "local", pw |-> 1]]
  /\ drawn' = drawn \cup {u}
  /\ task' = [task EXCEPT ![t] = GrantTask(u, 1, {})]
  /\ UNCHANGED <<keyVars, sessVars, failures, historyVars>>

\* login up to the verified password: an account without a hash is refused.
LoginRead(t, u) ==
  /\ task[t].op = "idle"
  /\ Exists(u) /\ users[u].pw > 0
  /\ task' = [task EXCEPT ![t] = GrantTask(u, users[u].pw, {})]
  /\ UNCHANGED <<rowVars, keyVars, sessVars, failures, historyVars>>

\* The end of register, login and oauth_callback: session_create, one script
\* for the session and the set.  A login that a reset has excused stays
\* excused as a session.
Grant(t) ==
  /\ task[t].op = "grant"
  /\ sess' = sess \cup LoginOf(t) /\ index' = index \cup LoginOf(t)
  /\ End(t)
  /\ UNCHANGED <<rowVars, keyVars, temp, failures, historyVars>>

\* A session reaches the end of its TTL, or logout or delete_account destroys
\* the one their request came with.
SessionEnds ==
  /\ \E x \in sess :
       sess' = sess \ {x} /\ index' = index \ {x} /\ temp' = temp \ {x}
  /\ UNCHANGED <<rowVars, keyVars, task, failures, historyVars>>

\* delete_account, after it has destroyed that session: the row goes.
DeleteUser(u) ==
  /\ Exists(u)
  /\ users' = [users EXCEPT ![u] = NoRow]
  /\ UNCHANGED <<drawn, keyVars, sessVars, task, failures, historyVars>>
-----------------------------------------------------------------------------
(* Password reset.                                                         *)

\* forgot_password: SELECT id by address, of an account of any provider.  An
\* unknown address is answered 202 as well and changes nothing.
ForgotRead(t, e) ==
  /\ task[t].op = "idle"
  /\ \E u \in AccountOf(e) :
       task' = [task EXCEPT ![t] = [Idle EXCEPT !.op = "forgot", !.user = {u}]]
  /\ UNCHANGED <<rowVars, keyVars, sessVars, failures, historyVars>>

\* Mutant of ForgotSet: the token lives a tick too long.
ForgotSetLong(t, k) ==
  /\ task[t].op = "forgot"
  /\ k \notin drawn
  /\ drawn' = drawn \cup {k}
  /\ reset' = [reset EXCEPT ![k] = [user |-> task[t].user,
                                    ttl |-> ResetTTL + 1]]
  /\ End(t)
  /\ UNCHANGED <<users, csrf, sessVars, failures, historyVars>>

\* cache_set of a new token.
ForgotSet(t, k) ==
  /\ task[t].op = "forgot"
  /\ k \notin drawn
  /\ drawn' = drawn \cup {k}
  /\ reset' = [reset EXCEPT ![k] = [user |-> task[t].user, ttl |-> ResetTTL]]
  /\ End(t)
  /\ UNCHANGED <<users, csrf, sessVars, failures, historyVars>>

\* reset_password: cache_get.  An absent token is answered 401.
ResetGet(t, k) ==
  /\ task[t].op = "idle"
  /\ reset[k].ttl > 0
  /\ task' = [task EXCEPT ![t] = [Idle EXCEPT !.op = "hash", !.token = {k},
                                              !.user = reset[k].user]]
  /\ UNCHANGED <<rowVars, keyVars, sessVars, failures, historyVars>>

\* The hash is computed and UPDATE ... WHERE id AND provider = 'local' runs.
\* The task remembers the password it stored, 0 when no row matched.
ResetUpdate(t) ==
  /\ task[t].op = "hash"
  /\ \E u \in task[t].user :
       LET n == IF users[u].provider = "local" THEN users[u].pw + 1 ELSE 0
       IN /\ n <= MaxSets
          /\ users' = IF n > 0 THEN [users EXCEPT ![u].pw = n] ELSE users
          /\ task' = [task EXCEPT ![t].op = "delete", ![t].pw = n]
  /\ UNCHANGED <<drawn, keyVars, sessVars, failures, historyVars>>

\* Mutant of ResetDelete: DEL is left out.
ResetDeleteSkipped(t) ==
  /\ task[t].op = "delete"
  /\ \E k \in task[t].token :
       /\ spent' = spent \cup {k}
       /\ raced' = [raced EXCEPT ![k] = @ \cup Holding(k)]
  /\ IF task[t].pw = 0 THEN End(t) ELSE Goto(t, "destroy")
  /\ UNCHANGED <<rowVars, keyVars, sessVars, failures, swept, excused>>

\* cache_delete returned; without a row the answer is 401.
ResetDelete(t) ==
  /\ task[t].op = "delete"
  /\ \E k \in task[t].token :
       /\ reset' = [reset EXCEPT ![k] = NoReset]
       /\ spent' = spent \cup {k}
       /\ raced' = [raced EXCEPT ![k] = @ \cup Holding(k)]
  /\ IF task[t].pw = 0 THEN End(t) ELSE Goto(t, "destroy")
  /\ UNCHANGED <<rowVars, csrf, sessVars, failures, swept, excused>>

Fail ==
  /\ failures < MaxFailures
  /\ failures' = failures + 1

\* cache_delete fails, before or after Redis ran it: the handler returns the
\* error, the password is changed and the sessions stay.
ResetDeleteFails(t) ==
  /\ Fail
  /\ task[t].op = "delete"
  /\ \E k \in task[t].token :
       reset' \in {reset, [reset EXCEPT ![k] = NoReset]}
  /\ End(t)
  /\ UNCHANGED <<rowVars, csrf, sessVars, historyVars>>

-----------------------------------------------------------------------------
(* session_destroy_all_for_user, with which a reset ends.  The four commands *)
(* of two resets of one account interleave, and the set is always renamed  *)
(* to the same temp key.                                                   *)

Of(u) == {x \in Login : x.user = u}
Sweeping(u) ==
  {t \in Task : /\ task[t].op \in {"members", "deltemp", "delkeys"}
                /\ task[t].user = {u}}

\* The sessions a destroy is about to delete.
Taken(t) ==
  IF task[t].op = "members"
  THEN UNION {temp \cap Of(u) : u \in task[t].user} ELSE task[t].found

\* The sessions of u that the next destroy will not find, or that one under
\* way has taken.
Loose(u) ==
  {x \in sess \cap Of(u) :
     x \notin index \/ \E t \in Sweeping(u) : x \in Taken(t)}

\* Logins that have read an older password and have no session yet.
InFlight(u, n) ==
  {x \in UNION {LoginOf(t) : t \in Granting(u)} : x.pw < n}

Excuse(S) == excused' = excused \cup S
Meets(t, u) == IF Sweeping(u) \ {t} = {} THEN {} ELSE Loose(u)
Answer200(t, u) ==
  /\ swept' = [swept EXCEPT ![u] = IF task[t].pw > @ THEN task[t].pw ELSE @]
  /\ End(t)

MoveIndex(u) ==
  /\ index' = index \ Of(u)
  /\ temp' = (temp \ Of(u)) \cup (index \cap Of(u))

\* RENAME.  The set may also hold nothing but ids of ended sessions.
Rename(t) ==
  /\ task[t].op = "destroy"
  /\ \E u \in task[t].user :
       /\ MoveIndex(u)
       /\ Excuse(InFlight(u, task[t].pw) \cup Meets(t, u))
  /\ Goto(t, "members")
  /\ UNCHANGED <<rowVars, keyVars, sess, failures, spent, raced, swept>>

\* Without a set RENAME is an error, which is taken for "no sessions".
RenameMissing(t) ==
  /\ task[t].op = "destroy"
  /\ \E u \in task[t].user :
       /\ index \cap Of(u) = {}
       /\ Excuse(InFlight(u, task[t].pw) \cup Meets(t, u))
       /\ Answer200(t, u)
  /\ UNCHANGED <<rowVars, keyVars, sessVars, failures, spent, raced>>

\* So is every other error, also when only the reply was lost.
RenameFails(t) ==
  /\ Fail
  /\ task[t].op = "destroy"
  /\ \E u \in task[t].user :
       /\ MoveIndex(u) \/ UNCHANGED <<index, temp>>
       /\ Excuse(InFlight(u, task[t].pw) \cup (sess \cap Of(u)))
       /\ Answer200(t, u)
  /\ UNCHANGED <<rowVars, keyVars, sess, spent, raced>>

Found(t, S) == task' = [task EXCEPT ![t].op = "deltemp", ![t].found = S]

\* SMEMBERS.
Members(t) ==
  /\ task[t].op = "members"
  /\ Found(t, Taken(t))
  /\ UNCHANGED <<rowVars, keyVars, sessVars, failures, historyVars>>

\* unwrap_or_default: an error is taken for an empty set.
MembersFails(t) ==
  /\ Fail
  /\ task[t].op = "members"
  /\ \E u \in task[t].user : Excuse(Loose(u))
  /\ Found(t, {})
  /\ UNCHANGED <<rowVars, keyVars, sessVars, spent, raced, swept>>

\* DEL of the temp key, whoever has filled it meanwhile.
DelTemp(t) ==
  /\ task[t].op = "deltemp"
  /\ \E u \in task[t].user : temp' = temp \ Of(u) /\ Excuse(Meets(t, u))
  /\ Goto(t, "delkeys")
  /\ UNCHANGED <<rowVars, keyVars, sess, index, failures, spent, raced, swept>>

\* Its error is dropped.
DelTempFails(t) ==
  /\ Fail
  /\ task[t].op = "deltemp"
  /\ Goto(t, "delkeys")
  /\ UNCHANGED <<rowVars, keyVars, sessVars, historyVars>>

\* Mutant of DelKeys: the ids are deleted without the prefix session:.
DelKeysBare(t) ==
  /\ task[t].op = "delkeys"
  /\ \E u \in task[t].user : Excuse(Meets(t, u)) /\ Answer200(t, u)
  /\ UNCHANGED <<rowVars, keyVars, sessVars, failures, spent, raced>>

\* DEL of the sessions that were found, and the answer 200.  A login as good
\* as one of them may have a session elsewhere: in the set since RENAME, in
\* the hands of another destroy, or where no destroy will find it.
DelKeys(t) ==
  /\ task[t].op = "delkeys"
  /\ \E u \in task[t].user :
       LET elsewhere == excused \cup UNION {Taken(r) : r \in Sweeping(u) \ {t}}
       IN \E S \in SUBSET (task[t].found \cap elsewhere) :
            /\ sess' = sess \ (task[t].found \ (index \cup S))
            /\ Excuse(Meets(t, u))
            /\ Answer200(t, u)
  /\ UNCHANGED <<rowVars, keyVars, index, temp, failures, spent, raced>>

\* Its error is logged, and the answer is 200 all the same.
DelKeysFails(t) ==
  /\ Fail
  /\ task[t].op = "delkeys"
  /\ \E u \in task[t].user : Excuse(Loose(u)) /\ Answer200(t, u)
  /\ UNCHANGED <<rowVars, keyVars, sessVars, spent, raced>>

\* The request is dropped between two of the commands, and nobody is told.
DropDestroy(t) ==
  /\ \E u \in task[t].user : t \in Sweeping(u) /\ Excuse(Loose(u))
  /\ End(t)
  /\ UNCHANGED <<rowVars, keyVars, sessVars, failures, spent, raced, swept>>
-----------------------------------------------------------------------------
(* OAuth.                                                                  *)

\* oauth_redirect: the state is stored with the provider and the session
\* cookie, if the browser sent one.
Redirect(s, p, B) ==
  /\ s \notin drawn /\ p \in Configured
  /\ drawn' = drawn \cup {s}
  /\ csrf' = [csrf EXCEPT ![s] = [provider |-> {p}, bound |-> B,
                                  ttl |-> StateTTL]]
  /\ UNCHANGED <<users, reset, sessVars, task, failures, historyVars>>

\* validate_oauth_state_match: the provider must be the stored one, and a
\* bound session must be the browser's.
Matches(s, p, B) == csrf[s].provider = {p} /\ csrf[s].bound \in {{}, B}

\* Mutant of CallbackGet: GET instead of GETDEL.
CallbackGetOnly(t, s, p, B) ==
  /\ task[t].op = "idle"
  /\ csrf[s].ttl > 0
  /\ task' = [task EXCEPT ![t] =
       IF Matches(s, p, B)
       THEN [Idle EXCEPT !.op = "exchange", !.via = {s}, !.provider = {p}]
       ELSE Idle]
  /\ UNCHANGED <<rowVars, keyVars, sessVars, failures, historyVars>>

\* oauth_callback: GETDEL; a state that does not match is used up as well.
CallbackGet(t, s, p, B) ==
  /\ task[t].op = "idle"
  /\ csrf[s].ttl > 0
  /\ csrf' = [csrf EXCEPT ![s] = NoState]
  /\ task' = [task EXCEPT ![t] =
       IF Matches(s, p, B)
       THEN [Idle EXCEPT !.op = "exchange", !.via = {s}, !.provider = {p}]
       ELSE Idle]
  /\ UNCHANGED <<rowVars, reset, sessVars, failures, historyVars>>

\* GETDEL ran and its reply was lost.
CallbackGetLost(s) ==
  /\ Fail
  /\ csrf[s].ttl > 0
  /\ csrf' = [csrf EXCEPT ![s] = NoState]
  /\ UNCHANGED <<rowVars, reset, sessVars, task, historyVars>>

\* exchange_code: the code for an access token.
ExchangeCode(t) ==
  /\ task[t].op = "exchange"
  /\ Goto(t, "userinfo")
  /\ UNCHANGED <<rowVars, keyVars, sessVars, failures, historyVars>>

Learn(t, e) == task' = [task EXCEPT ![t].op = "upsert", ![t].email = {e}]

\* fetch_google_user_info: always with an address.
FetchGoogle(t, e) ==
  /\ task[t].op = "userinfo" /\ task[t].provider = {"google"}
  /\ Learn(t, e)
  /\ UNCHANGED <<rowVars, keyVars, sessVars, failures, historyVars>>

\* fetch_github_user_info: the public address, or a second request for it.
FetchGithub(t, e) ==
  /\ task[t].op = "userinfo" /\ task[t].provider = {"github"}
  /\ Learn(t, e) \/ Goto(t, "emails")
  /\ UNCHANGED <<rowVars, keyVars, sessVars, failures, historyVars>>

\* fetch_github_primary_email.
FetchGithubEmail(t, e) ==
  /\ task[t].op = "emails"
  /\ Learn(t, e)
  /\ UNCHANGED <<rowVars, keyVars, sessVars, failures, historyVars>>

\* Mutant of Upsert: on conflict the provider is updated too.
UpsertProvider(t) ==
  /\ task[t].op = "upsert"
  /\ \E e \in task[t].email, p \in task[t].provider :
       \/ \E u \in AccountOf(e) :
            /\ users' = [users EXCEPT ![u].provider = p]
            /\ task' = [task EXCEPT ![t] = GrantTask(u, users[u].pw, @.via)]
            /\ UNCHANGED drawn
       \/ \E u \in User \ drawn :
            /\ AccountOf(e) = {} /\ AddressOf[u] = e
            /\ users' = [users EXCEPT ![u] = [provider |-> p, pw |-> 0]]
            /\ drawn' = drawn \cup {u}
            /\ task' = [task EXCEPT ![t] = GrantTask(u, 0, @.via)]
  /\ UNCHANGED <<keyVars, sessVars, failures, historyVars>>

\* INSERT ... ON CONFLICT (email) DO UPDATE SET name RETURNING id: the row of
\* an existing account keeps its provider and its password.
Upsert(t) ==
  /\ task[t].op = "upsert"
  /\ \E e \in task[t].email, p \in task[t].provider :
       \/ \E u \in AccountOf(e) :
            /\ task' = [task EXCEPT ![t] = GrantTask(u, users[u].pw, @.via)]
            /\ UNCHANGED rowVars
       \/ \E u \in User \ drawn :
            /\ AccountOf(e) = {} /\ AddressOf[u] = e
            /\ users' = [users EXCEPT ![u] = [provider |-> p, pw |-> 0]]
            /\ drawn' = drawn \cup {u}
            /\ task' = [task EXCEPT ![t] = GrantTask(u, 0, @.via)]
  /\ UNCHANGED <<keyVars, sessVars, failures, historyVars>>
-----------------------------------------------------------------------------
\* A handler ends early at an await: its command, query or request to the
\* provider fails, or the client goes away.
Abort(t) ==
  /\ task[t].op \notin {"idle", "members", "deltemp", "delkeys"}
  /\ End(t)
  /\ UNCHANGED <<rowVars, keyVars, sessVars, failures, historyVars>>

\* A key reaches the end of its TTL.
Aged(key, none) == IF key.ttl <= 1 THEN none ELSE [key EXCEPT !.ttl = @ - 1]

Tick ==
  /\ reset' = [k \in Token |-> Aged(reset[k], NoReset)]
  /\ csrf' = [s \in State |-> Aged(csrf[s], NoState)]
  /\ UNCHANGED <<rowVars, sessVars, task, failures, historyVars>>

Cookie == {{}} \cup {{b} : b \in Browser}

AccountStep ==
  \/ \E t \in Task, u \in User : Register(t, u) \/ LoginRead(t, u)
  \/ \E u \in User : DeleteUser(u)
  \/ \E t \in Task : Grant(t) \/ Abort(t)

ResetStep ==
  \/ \E t \in Task, e \in Email : ForgotRead(t, e)
  \/ \E t \in Task, k \in Token : ForgotSet(t, k) \/ ResetGet(t, k)
  \/ \E t \in Task : ResetUpdate(t) \/ ResetDelete(t) \/ ResetDeleteFails(t)

DestroyStep ==
  \E t \in Task :
    \/ Rename(t) \/ RenameMissing(t) \/ RenameFails(t)
    \/ Members(t) \/ MembersFails(t)
    \/ DelTemp(t) \/ DelTempFails(t)
    \/ DelKeys(t) \/ DelKeysFails(t) \/ DropDestroy(t)

OAuthStep ==
  \/ \E s \in State, p \in Provider, B \in Cookie : Redirect(s, p, B)
  \/ \E t \in Task, s \in State, p \in Provider, B \in Cookie :
       CallbackGet(t, s, p, B)
  \/ \E s \in State : CallbackGetLost(s)
  \/ \E t \in Task : ExchangeCode(t) \/ Upsert(t)
  \/ \E t \in Task, e \in Email :
       FetchGoogle(t, e) \/ FetchGithub(t, e) \/ FetchGithubEmail(t, e)

Next ==
  AccountStep \/ ResetStep \/ DestroyStep \/ OAuthStep \/ SessionEnds \/ Tick

Spec == Init /\ [][Next]_vars
-----------------------------------------------------------------------------
\* Rows, keys, tasks and histories stay within their types; no key outlives
\* the TTL it was stored with.
TypeOK ==
  /\ users \in [User -> Row]
  /\ drawn \in SUBSET (User \cup Token \cup State)
  /\ reset \in [Token -> [user : SUBSET User, ttl : 0..ResetTTL]]
  /\ csrf \in [State -> [provider : SUBSET Provider, bound : SUBSET Browser,
                         ttl : 0..StateTTL]]
  /\ sess \in SUBSET Login /\ index \in SUBSET Login /\ temp \in SUBSET Login
  /\ task \in [Task -> TaskState]
  /\ failures \in 0..MaxFailures
  /\ spent \in SUBSET Token
  /\ raced \in [Token -> SUBSET Task]
  /\ swept \in [User -> 0..MaxSets]
  /\ excused \in SUBSET Login

\* However callbacks race, one OAuth state lets one login through: at most
\* one task carries it or one session came from it (GETDEL).
StateOnce ==
  \A s \in State :
    Cardinality({t \in Task : s \in task[t].via}
                  \cup {x \in sess : s \in x.via}) <= 1

\* Once the DEL of reset_password has returned, only a request that had read
\* the token before that can still set a password with it.
SpentTokensAreDead == \A k \in spent : Holding(k) \subseteq raced[k]

\* An account has a password exactly if it was registered with one: OAuth
\* logins to its address, resets and their races never give an OAuth account
\* a password or turn a local account into one that cannot be reset.
PasswordMatchesProvider ==
  \A u \in User : (users[u].pw > 0) = (users[u].provider = "local")

\* When reset_password has answered 200, a session made with an older password
\* is alive only if its login had no session yet when the set was renamed; or
\* if another reset of the account was between its RENAME and its last DEL
\* (RENAME overwrites and DEL deletes what the other has not read); or if a
\* command of a destroy failed, or its request was dropped, and the session is
\* in no set any more.
ResetEndsOldLogins ==
  \A x \in sess : x.pw < swept[x.user] => x \in excused
=============================================================================
