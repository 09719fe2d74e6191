# Verification of FullStackHex

TLA+ models of the stateful parts of the FullStackHex backend, TLC runs over
small instances of them, and TLAPS proofs of their most important properties.
Every definition is translated from the Rust source; `PROJECT.json` maps each
one to the lines it models.

## 1. The system

The API is an Axum process (`src/backend/api`). Requests are handled by Tokio
tasks that run concurrently on several threads and may be dropped at any await
when the client goes away. Shared state lives in Redis (through
`src/backend/cache`), in PostgreSQL, and in a few statics of the process. Redis
executes each command, and each Lua script, atomically; between two commands of
one handler anything else may happen. Several API processes may share a Redis.

| Component | State | Operations | What is hard | Correct when |
|---|---|---|---|---|
| Session store, `cache/src/session.rs` | `session:<id>`, `user_sessions:<uid>`, `...:destroying` in Redis; `SESSION_CACHE` per process | create, get (cached), destroy, destroy all of a user, refresh | the cache is filled after an await; destroy-all is four commands with a shared temp key; best effort on failure | a destroyed session is gone, is found by resets until then, and is not served long from memory |
| Accounts and tokens, `auth/src/routes.rs`, `middleware.rs`, `jwt.rs` | table `users`, `refresh:<token>`, `blacklist:<jti>`, the JWTs clients hold | register, login, refresh, logout, delete_account, the middleware's check | check-then-insert, rotation races, three lifetimes that end at different times | one account per address, one refresh chain per login, a logout holds, a deleted account dies out |
| Rate limiter, `cache/src/rate_limit.rs` | sorted set `ratelimit:<key>` | check, count | the clock is read before the script is sent | at most `max_requests` per window |
| Login guard, `rate_limit.rs` and `login` | `backoff:<ip>:login` and two rate limits | check, increment | three scripts joined; attempts in flight together | blocks hold, are not prolonged, end |
| Live sockets, `api/src/live.rs`, `cache/src/pubsub.rs`, `api/src/main.rs` | semaphore, per-user map, atomic counter, shared subscriber, broadcast queues | upgrade, subscribe, publish, receive, shutdown, drop guards | every path out must give back what it took | permits conserved, quotas hold, listeners are counted, nobody waits for ever for the subscriber |
| One-time tokens, `auth/src/routes.rs`, `oauth.rs` | `oauth_csrf:<state>`, `reset:<token>`, rows of `users` | forgot, reset, OAuth redirect, callback | GETDEL for one, GET then DELETE for the other; requests to a provider in between; an UPSERT that meets accounts of other kinds | a state acts once, a spent token is dead, a reset ends the older logins, passwords match providers |
| Health, `api/src/health.rs` | caches of probe results behind RwLocks | health, one endpoint per service, traced request | double-checked locking around an await, dropped requests, hanging services | one probe at a time and only when needed, ok is recent, everyone is answered |
| Sidecar client, `py-sidecar/src/lib.rs` | socket file, attempts, timers | request, health | a retry of what may have run; timeouts and pauses add up | a call is bounded in time |
| Notes, `api/src/notes.rs` | table `notes` | list by keyset pages, create, get, update, delete | writes, late commits and deletions between two pages | no note is skipped or repeated, none outlives its account, the walk ends |
| Object storage, `storage/src` | the bucket and the multipart uploads at the server, presigned URLs | nine routes, `ensure_bucket` | a dropped handler whose request still arrives; upload ids in the path; names that three routes do not check | what was acknowledged is what is stored; a content gets outside its writer's keys only through an upload opened there |
| Browser client, `frontend/src/lib` (not modelled, but for the walk over pages) | WebSocket, reconnect timer, polling | connect, close, visibility | timers racing callbacks | one socket, polling only while offline |

The remaining parts (router, metrics, error mapping, migrations, password
hashing, CSRF and signature functions, deployment scripts) hold no state of
their own; `PROJECT.json` lists each with the reason it is left out.

The components interact through Redis, the database and the middleware: login
passes the login guard (which uses the rate limiter), creates tokens and a session;
`auth_middleware` and the WebSocket handshake read sessions through the session
store's cache; a password reset calls destroy-all; deleting an account takes its
notes along; the health endpoints call the sidecar client; handlers publish to
the live channel.

## 2. Modules

`SessionStore` (proofs in `SessionStoreProofs`, instances in `MCSession`).
Variables `sess`, `index`, `temp` are the Redis keys with their remaining TTL,
`cached` and `fresh` the in-process caches. A request is a `task` with a step
for each await: `GetBegin`, `GetReply`, `GetFill` for `session_get`; `Destroy`,
`DestroyEnd` for `session_destroy`; `Rename`/`RenameMissing`, `Members`,
`DelTemp`, `DelKeys`, `Purge` for `session_destroy_all_for_user`. `Create` and
`Refresh` are one command each. Failures that leave a trace are actions
(`DestroyLost`, `RenameLost`, `StepFail`, `Cancel`, `Restart`, `GetFail`); a
command that fails before it reaches Redis leaves none. `gone`, `revoked` and
`raced` are history.

`AuthTokens` (`AuthTokensProofs`, `MCAuth`). A grant is a bundle of a JWT, a refresh token and, for
register and login, a session. Each handler is a task with a step per await;
`Abort` ends it anywhere. `Accepts` is `auth_middleware`. A family is a login
with all refreshes that descend from it. A bundle or family is reused when
nothing of it is left, which keeps the model finite without bounding time.
A session is created and destroyed in one step each. A cookie is resolved through the
session cache: `cached` is the longest-lived copy any process has; `SessionGet`
fills it, for a request that is let in (`Lookup`) as for one that the blacklist
then refuses (`Present`), and `DestroySession` may leave the copy of another process
or let a `session_get` in flight store one. `SessionStore` has the caches one by one
and the sets of a user's sessions. `BLACKLIST_CACHE` in `middleware.rs` is a
`OnceLock` that nothing initialises, so the in-process blacklist always misses
and is not modelled.

`RateLimit` (`RateLimitProofs`, `MCRateLimit`), for one key. `Begin` reads the
clock, `Eval` runs the script with that reading up to `CmdTimeout` ticks later,
`Fail` loses it, `Count` is `rate_limit_count`. `log` remembers every admission
with the time it was executed.

`LoginGuard` (`RateLimitProofs` too, `MCLoginGuard`), for one IP and one address. Its
definitions do not share a name with those of `RateLimit` (`InitLogin`, `LoginSpec`),
because the proofs about the two halves of `rate_limit.rs` extend both. An attempt runs
three scripts in any order (`CheckBackoff`, `CheckLimit` twice), then `Joined`,
`Verify` and, after a wrong password, `Increment`. A rate limit is a row of
slots that are busy for a window.

`LiveSockets` (`LiveSocketsProofs`, `MCLive`). A connection goes through `Arrive`, `Acquire` (permit),
`CountUser` (quota), the upgrade (`Open` or `UpgradeFails`), `Subscribe` and the
select loop (`Recv`, `SendEnd`, `Leave`), and drops its guards in the order Rust
does (`DropUser`, `DropActive`, `DropPermit`). The shared subscriber starts
once, becomes ready or fails (`SubscriberReady`) and may end
(`SubscriberEnds`). `Shutdown` is `notify_waiters`: it wakes the sockets that
wait at that moment and no others; handshakes that arrived before it go on. The
model is one process, since the semaphore, the map and the counter are statics; a
published message may come from another process.

`SessionService` is the abstract specification of the session store: sessions
are opened once and end; a request asked to end sessions reports it only when
they are over and forgotten by its process; a process remembers only what it
read alive. `SessionRefinement` instantiates it over `SessionStore`: live is
what Redis holds, asked what a reset found when it began (or a destroy's
session after its script), reading the tasks between the reply of GET and the
fill, served the fresh cache entries. The commands in between (RENAME, SMEMBERS,
DEL and so on) are stutters or lapses of the service.

`OneTimeTokens` (`OneTimeTokensProofs`, `MCOneTime`). Rows of `users` hold a
provider and a numbered password (0 is NULL). `ForgotRead`, `ForgotSet` are
`forgot_password`; `ResetGet`, `ResetUpdate`, `ResetDelete` are `reset_password` up
to the destroy-all it ends with, whose commands are `Rename`/`RenameMissing`,
`Members`, `DelTemp` and `DelKeys`, on the set (`index`) and the temp key that two
resets of one account share. Each may fail (`ResetDeleteFails`, `RenameFails`,
`MembersFails`, `DelTempFails`, `DelKeysFails`), and the request may be dropped among them
(`DropDestroy`). `Redirect`, `CallbackGet`, `ExchangeCode`,
`FetchGoogle`, `FetchGithub`, `FetchGithubEmail`, `Upsert`, `Grant` the OAuth
login. `Register`, `LoginRead` and `DeleteUser` are the handlers of `AuthTokens` as
far as the tokens meet them: of `delete_account` that is the row, which goes in one
statement, and the session it destroys before (`SessionEnds`). `Abort` drops the other
handlers at any await. The caches of the processes stay with `SessionStore`. `spent`,
`raced`, `swept` and `excused` are history. Each UUID or random string is drawn
once.

`Baton` is the abstract specification of a token that works once: it begins in
one hand, passes from hand to hand along the ways there are, always in the name
it began in, may be lost at any time, and is never in two hands. Two parts of the
code implement it. `RotationRefinement` instantiates it over `AuthTokens`: the
baton is a login and all its refreshes, the hands are the requests about to store
a refresh token and the bundles whose token is in Redis, the name is the user; a
token passes from a bundle only to a request (the script of
`refresh_token_rotate`) and from that request only to a new bundle.
`OAuthRefinement` instantiates it over `OneTimeTokens`: an OAuth state begins in
Redis, passes to the callback whose GETDEL returned it, and from that callback to
the session it creates. A reset token is no baton: it is read by GET and deleted
after the password was stored, so two requests can have it (hazards,
routes.rs:646), and `SpentTokensAreDead` says what holds instead.

`Dependencies` is a call to a service with its attempts, timers and pauses
(`BeginCall`, `Execute`, `Deliver`, `Disconnect`, `TimeOut`, `Wake`); the
service is external and may be well, failing, silent, refusing or absent at any
moment. `HealthCache` (`HealthCacheProofs`, `MCHealth`) extends it: `Ask` queues for the read lock,
`ReadCheck` and `WriteCheck` are the two looks of the double-checked lock,
`Store` caches a probe, `Trace` is the request that passes the cache, `Cancel`
drops a request. A Tokio `RwLock` is fair, so a lock is a queue whose head holds
it; readers look for one step and need not overlap.

`ObjectStorage` (`ObjectStorageProofs`, `MCStorage`). A name is one of `Checked` if
`validate_storage_key` lets it through; `upload_part`, `complete_multipart` and
`abort_multipart` do not call it and take any name. `KeyOf`, any function, is the
key that a prefix and a name lead to once the URL is parsed; `Reach` is where a
user's checked names lead. A handler is named as in `routes.rs` and ends with
sending a request; the server executes, refuses or, after `Drop`, executes for
nobody; `Acknowledge` and `Report` are the answers. A completion may be answered
200 with an error in its body, which the client takes for success (`ErrorInBody`). A content stands for its ETag. `settled` is
history: what an object must be after an acknowledged write that nothing raced
with.

`NotesPages` (`NotesPagesProofs`, `MCNotes`). Rows carry `created_at`; `CreateBegin` takes the time,
`CreateCommit` makes the row visible. `list_notes`, `encode_cursor`,
`decode_cursor` and the clamp of `per_page` are operators; a page is the set of the
matching rows that have fewer than `limit` before them (`Newest`), since only which
rows are on it and which is last (`Oldest`) matters to the walk; `Start` and `NextPage`
are a client that walks the pages, from the top, from any cursor or from
garbage. `DeleteNotes` and `DeleteUser` are the two statements of
`delete_account`, the second with the cascade of the foreign key.

Operators that differ from a definition by a plausible bug stand before it
("Mutant of ..."); they are used only to show that a property would notice.

## 3. Runs

| Run | Expect | Properties | Shows |
|---|---|---|---|
| session_clean | pass | TypeOK, IndexComplete, OnlyRacedFillsSurvive, ImplementsService | no failures, one reset per user at a time, one process: the store implements `SessionService` |
| session_faults | pass | StaleBounded, CacheBounded | two processes, any single failure, overlapping resets, refreshes, cache at its cap |
| session_rename | violation | IndexComplete | two overlapping resets lose sessions from every index |
| auth_safe | pass | TypeOK, LogoutSticks, RotationIsABaton, RegisterOnce | races of all handlers, tokens and cookies, failures at each await, session caches that outlive the session: the refresh tokens of a login implement `Baton` |
| auth_drain | pass | DeletedDrains | a deleted account's credentials die out, bearer mode, failing open |
| rate_window | pass | TypeOK, Limited, ResetIsEnough | delayed, lost, reordered scripts |
| guard_bound | pass | LoginTypeOK, OvershootBounded, BlockEnds | racing attempts, blocks that end |
| onetime_tokens | pass | TypeOK, SpentTokensAreDead, PasswordMatchesProvider, ResetEndsOldLogins, StateIsABaton | racing resets (command by command), callbacks, logins and deletions, one failure anywhere: an OAuth state implements `Baton` |
| health_cache | pass | TypeOK, CallBounded, ProbesAreNeeded, OkIsRecent, Answered | two requests, a service that changes at any moment, dropped requests |
| storage_objects | pass | TypeOK, AckedWritesHold, ForeignNeedsUpload | two users, an unchecked name that leads to the other's key, handlers dropped while the server still executes |
| notes_pages | pass | TypeOK, WalkExact, ListedIsReadable, NoOrphans, WalkEnds | a walk over pages beside creations, updates, deletions |
| live_sockets | pass | TypeOK, PermitsConserved, QuotaHolds, ListenersAreCounted, SubscribeAnswers | racing connections, failed upgrades, subscriber failures, shutdown |

The violation run checks what a comment says; `PROJECT.json` quotes the line
under "findings".

### What the properties had to concede

Several properties are weaker than one would first write them, because of what
the code does:

- A get in flight can bring a destroyed session back into the cache, and every
  process has a cache of its own (`OnlyRacedFillsSurvive` needs one process and
  excepts raced fills, `StaleBounded` bounds the rest).
- A delayed script makes the rate window shorter by the command timeout
  (`Limited`); `reset_at` is a minute late, never early (`ResetIsEnough`).
- A logged-out JWT is accepted again in the leeway after its exp, and a logout
  ends only the credential it was made with (`LogoutSticks`).
- A logged-out cookie is refused while Redis has its session, also when
  `session_destroy` failed. After that it may come back: a request that is
  refused late in the session's life has filled the cache before the blacklist was
  asked, the blacklist entry ends with the session, and the copy is accepted for the rest
  of a SESSION_CACHE_TTL (middleware.rs:314; `LogoutSticks` says only that what is
  accepted is not in Redis).
- Requests that overlap with one reset token can each set a password
  (`SpentTokensAreDead` excepts those that had read it); older reset tokens of
  the account survive a reset.
- A reset answered 200 may leave sessions of an older password
  (`ResetEndsOldLogins` excepts them): of a login that had no session yet at the
  RENAME; of an account another reset of which was between its RENAME and its last
  DEL, since the second RENAME overwrites or the DEL removes a set that the other has
  not read; and sessions that a failed command or a dropped request has left in no
  set. A failed RENAME is answered 200 like a missing set (session.rs:126).
- A failure of `cache_delete` (routes.rs:671) leaves the password changed, the
  sessions alive and the token unspent: it may be used again.
- A part of a dropped request may arrive late and replace the part the user was
  told of (`AckedWritesHold` speaks of writes that nothing raced with); a lost
  reply of `create_multipart` leaves an open upload that nobody can name. A
  completion answered 200 promises nothing if the body may hold an error, as
  `ErrorInBody` does.
- Users are not kept apart by their prefixes. The three routes of an open upload do
  not check names (storage/routes.rs:194-242), and `Url::join` resolves dot segments
  and drops tabs and newlines (client.rs:14-22). So whoever sends another's upload id
  with a name that leads to its key acts on that upload; what holds is that a
  content reaches a key outside its writer's `Reach` only where `init_multipart` has opened
  an upload (`ForeignNeedsUpload`). `Reach` is where checked names lead: that they stay
  below the prefix is not claimed. A name with `?` or `#`, which would end the path,
  is some name with some key here.
- An ok is recent when the cache is read (`OkIsRecent`); `/health` joins several
  probes and may report it later. `BlockEnds` says that a block ends, not after how long.
  A process without sockets does not publish (live.rs:78), also when another process has
  listeners; `ListenersAreCounted` is about one process. `DeletedDrains` is about
  bearer tokens: sessions of other logins last for their TTL.

Where the code differs from a comment or document and no property could hold,
the model does what the code does:

- A cookie user's jti is empty, so one cookie logout or deletion writes
  `blacklist:` with nothing after it, and `auth_middleware` then refuses every
  cookie session for the lifetime of a JWT (routes.rs:491, middleware.rs:193 and
  321; variable `blank` of `AuthTokens`).
- `delete_account` destroys the session of its own request only; routes.rs:828
  and docs/AUTH.md:36 speak of all sessions (`DeletedDrains` says what is left).
- The lifetimes `backoff_increment` gives the counter are one step off the tiers
  of the check (rate_limit.rs:217 against 132 and docs/AUTH.md:69; `LoginGuard`).
  A blocked login attempt still uses up its rate limits, because the checks are
  joined (routes.rs:319).
- A failed WebSocket upgrade leaves the user counted, since the guard is made in
  the callback that never runs (live.rs:211 and 243; `UpgradeFails`, `leaks`).
- `list` of the storage client does not look at the HTTP status
  (client.rs:227) and returns keys with their prefix.

Seen while reading and outside the models: `maintenance_middleware` wraps only
the routes added before it, so `/auth`, `/storage` and `/notes` are not covered
(middleware.rs:4 and docs/ARCHITECTURE.md:145 say otherwise);
`dev_user_middleware` runs outside the `Extension` it reads, so `DEV_USER_ID` has no
effect; the storage routes build a `reqwest` client without the timeout of the
configured one (api/src/lib.rs:384); the list of providers looks at client ids only.

### Bounds

- Sessions: in `session_clean` three ids of two users (so that a reset of one
  user is seen not to touch the other), in `session_faults` two ids and two
  processes with a task each; TTLs of one or two ticks let keys, index and
  cache expire in every order relative to each other. `MaxFailures` = 1: one
  failure anywhere; `MaxResets` limits overlapping resets of one user, 1 in
  `session_clean` and 2 elsewhere. `MaxCached` = 1 or 2 makes the cap matter.
- Tokens: one address, one account id, two tasks, two bundles: two handlers race on
  one bundle or on two. `JwtTTL` = 1 < `RefreshTTL` = 2, `Leeway` = 1: every order of
  expiry occurs. `CacheTTL` = 2: a copy outlives the session and the blacklist entry.
  One family suffices: families do not interact. That an address is
  registered again after a deletion is left to the theorems, since with a second
  account id the state space is too large; `auth_drain` keeps to bearer tokens for
  the same reason.
- Rate limit: window 3, two admissions, delay 1, `MaxTime` 11: more than two
  windows, so that entries leave the window and the key expires.
- Guard: steps 2, 4, 5 instead of 5, 10, 20; two attempts; no attempt starts
  past `MaxCount` = 5, so all three tiers are reached.
- Sockets: three connections for two permits, quota 1, queue of one message,
  one failed upgrade (`MaxLeaks`); a connection is reused when it is over.
- One-time tokens: one account, one reset token, one state, one browser cookie, two
  tasks, both providers, keys of one tick. Two tasks are what most races need: two
  resets with one token, command by command, two callbacks with one state, a reset
  beside a login. `MaxSets` = 3 passwords: the first and two resets. One failure
  anywhere. A login that races two resets, and an address that is registered again,
  are left to the theorems.
- Health: two requests for one service (caches do not interact), up to two
  retries, pauses and timeouts of one tick, an ok cached for one tick and an
  error for two, so that the two lifetimes differ. The pauses are all one tick: that
  they double up to `BackoffMax` is left to the theorem `CallsAreBounded`.
- Storage: two users with a content and a key each, a checked name that leads each to
  his own key and an unchecked one that leads both to the first user's, one upload
  with one part (so the order of parts is exercised by the theorems only), two
  requests, one URL at a time, one process.
- Notes: three notes of two users, two values of `created_at` (so that times are
  equal and differ), `per_page` 0, 1 and 3 around the clamp to 1..2, one client:
  walks do not influence each other.

Symmetry exchanges only values nothing distinguishes: sessions of one user, tasks,
requests; in `session_faults` a task together with its process. No run that
checks liveness uses it.

`CHECK_DEADLOCK FALSE` is set for the live run only: after `Shutdown` no
connection is accepted and the system really stops.

### Fairness

`auth_drain`, `guard_bound`, `health_cache`, `notes_pages` and `live_sockets` use
`FairSpec` (`FairLoginSpec` in `LoginGuard`). It says that a task whose command was
answered, failed or timed out is polled again (Tokio's scheduler, and `default_command_timeout`), that clocks advance,
and that connecting the subscriber ends one way or the other
(`connection_timeout`). Clients, events, signals and the message stream owe
nothing, and neither do the services that `HealthCache` calls: `Answered` rests on
timers alone (WF of `Tick`) and on the fair lock (WF of each task's steps). In
`NotesPages` the fairness is the client's: it follows `next_cursor` while
`has_more` is true, which is what a walk means.

## 4. Proofs

Proved by TLAPS for every value of the constants, from the named assumptions of
the modules only (constants are naturals, functions have their domains).

`SessionStoreProofs`:
- `TypeCorrect`: `Spec => []TypeOK`.
- `StaleServiceBounded`: `Spec => []StaleBounded`. The inductive invariant
  `StaleInv` adds that a session which is live or was never created has
  `gone` = 0 and that a get carrying a dead session has waited at least as long
  as the session is gone; so when it fills the cache, at most the command
  timeout has passed, and the entry lives a cache TTL more.
- `ResetsAreComplete`: with `OrderlyResets` (one reset per user at a time, no
  failures, no refresh) `Spec => [](IndexComplete /\ DestroyIsFinal)`. `ResetInv`
  says that only one task resets a user, that a live session is in the index
  with at least its own TTL or in the hands of that task, and that what a
  returned call revoked is dead. Each hypothesis is needed: the run
  `session_rename` shows it for overlapping resets.
- `DestroyedSessionsAreNotServed`: with `OneProcess` too,
  `Spec => []OnlyRacedFillsSurvive`, by `QuietInv`: a revoked session that was
  not raced is in no cache and no get carries it.
- `CacheStaysBounded`: `Spec => []CacheBounded`.

`RateLimitProofs`: `AdmissionsAreLimited`, `Spec => []Limited`. `WindowInv` says
that readings are at most `CmdTimeout` old, admissions are ordered by execution
time, and whatever was admitted less than a window before, by its score, is
still in the set (`Kept`), also across the key's expiry (`Outlived`). If `Max`
requests had been admitted in the stretch, all were in the set when the next
script ran, and it would have refused. `ResetsSuffice`, `Spec => []ResetIsEnough`:
`ResetInv` says that the set never holds more than `Max` members (`Small`) and
that until somebody is admitted the member whose reset time a refusal named is
still in the set, or a place is free (`Promised`), whichever scripts prune in
between.

`AuthTokensProofs`: `TypeCorrect`, `RotationImplementsBaton`, `RotationNeverForks`,
`LogoutsStick`, `RowsAreRegisteredOnce`. Each has an inductive invariant over the part
of the state it is about. `FamInv` is three: a family is with one bundle or with one
task that is about to make one, never both (`ChainInv`); a bundle or a task has one
family (`SoleInv`); a bundle whose refresh token is gone has none (`FadedInv`), so that
a reused bundle takes no old family along. The steps of the 19 actions fall into four
kinds (`FamilyMoves`): families are lost, one starts, a task takes what a bundle has,
a bundle gets what a task has. `Placed` turns where a family is into the hand and the
name of `Baton`, and each kind of step is then `Lose`, `Begin` or `Pass`. That a
family never has two holders (`RotationNeverForks`, about `OneLivePerFamily`) follows
from `ChainInv` alone. `CoverInv`: from the moment a logout has
written its blacklist entry, the entry lasts as long as the JWT, its leeway aside, or
as the session in Redis, whether or not it was destroyed; copies in caches are not
covered. A session that is only now created belongs to a bundle nobody has logged out (`FreshInv`),
and a request comes with one credential (`OneInv`). `RowInv`: a register that has
its row and no answer yet is the only one with that account id, and its row was
not answered 201 before.

About `LoginGuard`, also in `RateLimitProofs`: `LoginTypeCorrect`, `BlocksHold`. A failure is counted after its
attempt passed the check, so a bound on the counter alone is not inductive: in
`Counted` the failures and the attempts in progress together are bounded, since
`Increment` trades one for the other. `OvershootBounded` is that trade for the
attempts that passed below a block; the key's last second is the exception
(`late`).

`ObjectStorageProofs`: `TypeCorrect`, `ForeignContentNeedsUpload`, `AcknowledgedWritesStay`.
For `ForeignNeedsUpload`, with any `KeyOf`, `ApartInv` says that the key of a PUT
is one that its writer's checked names lead to (`GoodReqs`), and so is that of a
presigned URL (`OwnUrls`); an upload keeps the key it was drawn for, and
only a completion takes contents from it. `Assemble` sorts parts by number; that it returns contents of those
parts only rests on `EveryPlaceIsTaken` (a finite set of numbers has a member of
each rank). For `AckedWritesHold`, `WriteInv` says that a request marked alone is
the only write to its key under way, that what it did is still there when its
answer comes, and that a key that is settled has no write under way: a write
that could disturb a settled key unsettles it when it is sent.

`SessionStoreProofs` again: `StoreImplementsService`,
`OrderlyResets /\ Spec => ImplementsService`. Each action of the store is shown to
be a step of the service or a stutter, with one lemma per action. `ResetInv`
gives that a finished reset has ended everything it was asked to, `ReadInv` that
a get holds the one session it was called for.
That a reported end is final (`DestroyIsFinal`, part of `ResetsAreComplete`) is
what the service's `Report` and `Open` say together.

`LiveSocketsProofs`: `TypeCorrect`, `PermitsAreConserved`, `QuotasHold`,
`CounterIsExact`. `SocketInv` ties each counter to the cardinality of the set of
connections it counts; every step moves at most one connection into or out of a
set, so that a counter and its set change by the same one. A failed upgrade
leaves the user's count above its set, which is why the quota is an inequality
there and an equality for permits and listeners.

`OneTimeTokensProofs`: `TypeCorrect`, `OAuthImplementsBaton`, `StatesActOnce`,
`SpentTokensStayDead`, `PasswordsMatch`, `OldLoginsEnd`. `PasswordMatchesProvider` is inductive
as it stands. For the others `TokenInv` adds six parts to the types: names in use
were drawn, so a fresh one is in no key, task or session (`DrawnInv`); a state is
in one place, its key, a task or a session (`StateInv`), and a reset or login is
for one account (`OneInv`); a spent token has no
key and is held only by those that raced (`SpentInv`); a reset reports no
password newer than the row's (`RowInv`); and `OldInv`, which follows the logins
with an older password from command to command of overlapping resets. After a RENAME
such a session is in the hands of a destroy (`HeldFor`), not in the set (`ListedFor`),
and not to be created any more (`FlightFor`), unless it is excused; a session is in the set,
excused, or in the hands of a destroy (`KnownFor`); and once a reset has answered,
what is left of them is excused (`EndedFor`). For the refinement, `StateMoves` sorts the
steps by what they do to the states (some lapse, one is stored, one is taken by GETDEL,
a grant opens a session with one), and `ViaInv` adds that a callback has one state and
an idle task none, so that taking or granting moves one baton and drops no other.

`NotesPagesProofs`: `TypeCorrect`, `WalksAreExact`, `ListsAreReadable`,
`NotesHaveOwners`. `PageFacts` says what a page is without its ranks: every
matching row that is not on it comes after every row that is, and if there are
more rows the page is not empty and its cursor is the key of its last row. So the
cursor separates what the walk has seen from what it has left (`CursorInv`), and a
row that is listable all the time, whose key does not change, is on one side or
the other (`ExactInv`). A row that is committed late carries an older time and may
be missed; `stable` does not ask for it. That a finite set of rows has a last one
is well-foundedness of the strict subset order, stated about sets of sets.

`HealthCacheProofs`: `TypeCorrect`, `CallsAreBounded`, `ProbesAreSingle`,
`OksAreRecent`, with `HealthInv`.
- The pauses are a recursive function of the number of retries (`Pauses`, `Pow2`).
  That such a function exists and that `Pauses` adds up and grows is proved from
  the well-foundedness of `<` on the naturals as a statement about sets
  (`LeastMember`, `RuleHasFunction`, `PausesAddUp`, `PausesGrow`): the library's
  induction theorems cannot be used. `GoodCall` bounds a call's time by the
  attempts and pauses it has had, with what its timer shows of the current one.
- `QueueInv`: a lock's queue names each task that is to read, write or probe once,
  and a task that probes is its head. Two probers would both be the head. A task
  may leave the queue from any place when its request is dropped (`Leaving`).
- `StaleInv`: while somebody probes, the cache is stale; time keeps it stale, and
  the one who could refresh it is the one who stops probing by that.
- `OkInv`: an answer that says ok was true when it was given and is no older than
  the timer of its attempt, so the entry made from it is at most a timeout old when
  it is stamped, and both age together.

Only model-checked: all liveness (`DeletedDrains`, `BlockEnds`, `Answered`, `WalkEnds`,
`SubscribeAnswers`), which the prover cannot do. Every safety property of the
passing runs and all three refinements are theorems. `StoreImplementsService`,
`ResetsAreComplete` and `DestroyedSessionsAreNotServed` assume `OrderlyResets` (and
the last `OneProcess`), and the run `session_rename` shows why. The others assume
nothing more than the modules do, but several name exceptions in their own statement,
history variables among them (`raced`, `excused`, `late`, `stable`), or speak of one
process; "What the properties had to concede" lists them.

## 5. Not modelled

The router, metrics, error mapping, configuration, pool and migrations hold no
state that a request changes. The Python service is one of the services of
`Dependencies`; its HMAC check is a function of one request. Password hashing,
CSRF comparison, JWT and S3 signatures are computations of libraries or on
strings. The buffered variants of the storage client and
`cache_invalidate_pattern` have no caller. The gauge beside the counter of
sockets is a metric. The browser client's timers (`frontend/src/lib/live.ts`)
are outside the backend.

## 6. Plan

What could be added:

1. Proofs of stronger statements: `StoreImplementsService` without `OrderlyResets`, for
   users whose resets do not overlap, and an abstract health service that
   `HealthCache` implements.
2. `LiveClient`: reconnect, backoff and polling of `frontend/src/lib/live.ts`
   against `LiveSockets`.
3. `SessionService` in place of the sessions of `AuthTokens`, whose caches are one
   number, and of `OneTimeTokens`, which has the sets and no caches.
4. Several processes in `LiveSockets`, each with a counter of its own, around one channel.
