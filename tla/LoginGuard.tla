----------------------------- MODULE LoginGuard -----------------------------
(***************************************************************************)
(* The checks in front of the password in `login' (backend/auth/src/       *)
(* routes.rs), for one IP and one address: the progressive backoff of      *)
(* backend/cache/src/rate_limit.rs and two rate limits.  The three scripts *)
(* are awaited together (tokio::join!), so they all run, in any order and  *)
(* interleaved with other attempts.  A rate limit is a row of slots, each  *)
(* busy until its admission leaves the window (module RateLimit has the    *)
(* details).  Lifetimes are ticks left; one tick is one second.            *)
(***************************************************************************)
EXTENDS Integers, FiniteSets

CONSTANTS
  Attempt,     \* login requests in progress
  Step1, Step2, Step3,      \* 5, 10 and 20 failures
  Track, Block1, Block2, Block3,  \* 60, 60, 300 and 1800 s
  Slot,        \* Slot[k]: the slots of rate limit k
  LimitWindow, \* the window of both limits
  MaxCount     \* bound: no attempt starts once this many failures are counted

Limit == {"email", "ip"}

ASSUME GuardAssumption ==
  /\ Step1 \in Nat /\ Step2 \in Nat /\ Step3 \in Nat /\ MaxCount \in Nat
  /\ 1 < Step1 /\ Step1 < Step2 /\ Step2 < Step3
  /\ Track \in Nat \ {0} /\ Block1 \in Nat \ {0}
  /\ Block2 \in Nat \ {0} /\ Block3 \in Nat \ {0}
  /\ LimitWindow \in Nat \ {0}
  /\ IsFiniteSet(Attempt)

VARIABLES
  count,  \* the value of backoff:<ip>:login; 0 when the key does not exist
  ttl,    \* ticks until the key expires
  busy,   \* busy[k][s]: ticks until slot s of limit k is free
  att,    \* the attempts
  late    \* history: the key let an attempt pass in its last second

loginVars == <<count, ttl, busy, att, late>>
-----------------------------------------------------------------------------
Scripts == {"backoff"} \cup Limit
Pc == {"idle", "join", "verify", "failed"}

\* left: scripts still to run; no: those that refused.
Job(p, l, n) == [pc |-> p, left |-> l, no |-> n]
Jobs == [pc : Pc, left : SUBSET Scripts, no : SUBSET Scripts]
Idle == Job("idle", {}, {})

\* backoff_params: how long the block is for a number of failures.
backoff_params(n) ==
  IF n >= Step3 THEN Block3
  ELSE IF n >= Step2 THEN Block2
  ELSE IF n >= Step1 THEN Block1 ELSE Track

\* The TTL backoff_increment's script sets for the new count.
IncrementTTL(n) ==
  IF n = 1 THEN backoff_params(1)
  ELSE IF n < Step1 THEN backoff_params(Step1)
  ELSE IF n < Step2 THEN backoff_params(Step2) ELSE backoff_params(Step3)

\* Redis rounds TTL to seconds: in the last second the reply may be 0.
TTLReplies == IF ttl = 1 THEN {0, 1} ELSE {ttl}
-----------------------------------------------------------------------------
InitLogin ==
  /\ count = 0 /\ ttl = 0
  /\ busy = [k \in Limit |-> [s \in Slot[k] |-> 0]]
  /\ att = [a \in Attempt |-> Idle]
  /\ late = FALSE

BeginLogin(a) ==
  /\ att[a].pc = "idle"
  /\ count < MaxCount
  /\ att' = [att EXCEPT ![a] = Job("join", Scripts, {})]
  /\ UNCHANGED <<count, ttl, busy, late>>

\* Mutants of CheckBackoff: the first step is off by one; an attempt that is
\* turned away prolongs the block.
CheckBackoffLate(a) ==
  /\ "backoff" \in att[a].left
  /\ att' = [att EXCEPT ![a].left = @ \ {"backoff"},
                        ![a].no = IF count > Step1 THEN @ \cup {"backoff"} ELSE @]
  /\ UNCHANGED <<count, ttl, busy, late>>

CheckBackoffProlonging(a) ==
  /\ "backoff" \in att[a].left
  /\ att' = [att EXCEPT ![a].left = @ \ {"backoff"},
                        ![a].no = IF count >= Step1 THEN @ \cup {"backoff"} ELSE @]
  /\ ttl' = IF count >= Step1 THEN IncrementTTL(count) ELSE ttl
  /\ UNCHANGED <<count, busy, late>>

\* backoff_check.  The branch for a key without TTL is never taken.
CheckBackoff(a) ==
  /\ "backoff" \in att[a].left
  /\ \E r \in TTLReplies :
       LET blocked == count >= Step1 /\ r > 0 IN
       /\ att' = [att EXCEPT ![a].left = @ \ {"backoff"},
                             ![a].no = IF blocked THEN @ \cup {"backoff"} ELSE @]
       /\ late' = (late \/ (count >= Step1 /\ ~blocked))
  /\ UNCHANGED <<count, ttl, busy>>

\* check_rate_limit for one of the two keys.
CheckLimit(a, k) ==
  /\ k \in att[a].left
  /\ IF \A s \in Slot[k] : busy[k][s] > 0
     THEN /\ att' = [att EXCEPT ![a].left = @ \ {k}, ![a].no = @ \cup {k}]
          /\ UNCHANGED busy
     ELSE /\ att' = [att EXCEPT ![a].left = @ \ {k}]
          /\ LET free == CHOOSE s \in Slot[k] : busy[k][s] = 0
             IN busy' = [busy EXCEPT ![k][free] = LimitWindow]
  /\ UNCHANGED <<count, ttl, late>>

\* All three have answered: a refusal ends in 429 (or 500), else the row is
\* read and the password verified.
Joined(a) ==
  /\ att[a].pc = "join" /\ att[a].left = {}
  /\ att' = [att EXCEPT ![a] = IF @.no = {} THEN Job("verify", {}, {}) ELSE Idle]
  /\ UNCHANGED <<count, ttl, busy, late>>

\* The password is right, which leaves the counter alone, or it is wrong or
\* there is no such user.
Verify(a) ==
  /\ att[a].pc = "verify"
  /\ att' = [att EXCEPT ![a] = Idle] \/ att' = [att EXCEPT ![a].pc = "failed"]
  /\ UNCHANGED <<count, ttl, busy, late>>

\* Mutant of Increment: no EXPIRE.
IncrementForever(a) ==
  /\ att[a].pc = "failed"
  /\ count' = count + 1
  /\ att' = [att EXCEPT ![a] = Idle]
  /\ UNCHANGED <<ttl, busy, late>>

\* backoff_increment: INCR and EXPIRE in one script, then 401.
Increment(a) ==
  /\ att[a].pc = "failed"
  /\ count' = count + 1
  /\ ttl' = IncrementTTL(count + 1)
  /\ att' = [att EXCEPT ![a] = Idle]
  /\ UNCHANGED <<busy, late>>

\* A command fails or the client leaves: the attempt ends (a failing
\* increment is only logged).
Abort(a) ==
  /\ att[a].pc # "idle"
  /\ att' = [att EXCEPT ![a] = Idle]
  /\ UNCHANGED <<count, ttl, busy, late>>

Less(n) == IF n = 0 THEN 0 ELSE n - 1

TickLogin ==
  /\ ttl' = Less(ttl)
  /\ count' = IF ttl <= 1 THEN 0 ELSE count
  /\ late' = (late /\ ttl > 1)
  /\ busy' = [k \in Limit |-> [s \in Slot[k] |-> Less(busy[k][s])]]
  /\ UNCHANGED att

Step(a) ==
  \/ CheckBackoff(a)
  \/ \E k \in Limit : CheckLimit(a, k)
  \/ Joined(a) \/ Verify(a) \/ Increment(a)

NextLogin ==
  \/ \E a \in Attempt : BeginLogin(a) \/ Step(a) \/ Abort(a)
  \/ TickLogin

LoginSpec == InitLogin /\ [][NextLogin]_loginVars

\* Attempts in progress get their replies or fail, and time passes.
FairLoginSpec ==
  /\ LoginSpec
  /\ WF_loginVars(TickLogin)
  /\ \A a \in Attempt : WF_loginVars(Step(a) \/ Abort(a))
-----------------------------------------------------------------------------
\* The backoff key exists exactly while it has time left: INCR and EXPIRE are
\* one script, so a counter without TTL (a block for ever) cannot arise.
LoginTypeOK ==
  /\ count \in 0..MaxCount + Cardinality(Attempt)
  /\ ttl \in Nat
  /\ count > 0 <=> ttl > 0
  /\ DOMAIN busy = Limit
  /\ \A k \in Limit : busy[k] \in [Slot[k] -> 0..LimitWindow]
  /\ att \in [Attempt -> Jobs]
  /\ late \in BOOLEAN

\* Failures counted past the first step come only from attempts that were
\* already under way when the block began, or that got in during a block's
\* last second: a block is never eaten into by a later attempt.
Passed == {a \in Attempt :
  \/ att[a].pc \in {"verify", "failed"}
  \/ att[a].pc = "join" /\ "backoff" \notin att[a].left \cup att[a].no}

OvershootBounded ==
  ~late => count + Cardinality(Passed) <= Step1 - 1 + Cardinality(Attempt)

\* A block ends: attempts it turns away cannot prolong it.
BlockEnds == count >= Step1 ~> ttl <= 1
=============================================================================
