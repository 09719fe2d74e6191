---------------------------- MODULE Dependencies ----------------------------
(***************************************************************************)
(* Calls from the API to what it depends on.  The Python sidecar is called *)
(* by the client of backend/py-sidecar/src/lib.rs: a connection over a     *)
(* Unix socket per attempt, a timeout per attempt, retries with growing    *)
(* pauses.  The probes of PostgreSQL (db::health_check) and Redis (ping)   *)
(* are calls of one attempt.  Time is counted in ticks.                    *)
(***************************************************************************)
EXTENDS Integers, FiniteSets

CONSTANTS
  Task,         \* request tasks
  Service,      \* what can be called
  StatusOf,     \* the states each service can be in
  Timeout,      \* timeout of one attempt, for each service
  MaxRetries,   \* max_retries of the sidecar client
  BackoffBase,  \* BACKOFF_BASE_MS
  BackoffMax    \* MAX_BACKOFF_MS

\* What a service does with an attempt: answer well; answer with a status of
\* 400 or more, or with something that is no answer; accept and be silent;
\* refuse the connection; not be there (no socket file).
Status == {"ok", "bad", "hung", "refusing", "absent"}

ASSUME DependencyAssumption ==
  /\ StatusOf \in [Service -> SUBSET Status]
  /\ Timeout \in [Service -> Nat \ {0}]
  /\ MaxRetries \in Nat
  /\ BackoffBase \in Nat \ {0} /\ BackoffMax \in Nat \ {0}

VARIABLES
  server,  \* the state each service is in
  call     \* the call each task makes to each service

callVars == <<server, call>>
-----------------------------------------------------------------------------
\* A call: "sent" waits for the service, "replied" has an answer on its way,
\* "sleep" pauses before the next attempt, "ok" and "error" are results.
\* elapsed, a history, is how long the call has taken.
CallState ==
  [pc : {"none", "sent", "replied", "sleep", "ok", "error"},
   retries : 0..MaxRetries, attempt : Nat,
   timer : Nat, elapsed : Nat, reply : {"ok", "bad"}]
NoCall == [pc |-> "none", retries |-> 0, attempt |-> 0, timer |-> 0,
           elapsed |-> 0, reply |-> "bad"]

\* Powers of two.
Pow2[n \in Nat] == IF n = 0 THEN 1 ELSE 2 * Pow2[n - 1]

\* Before attempt n = 1, 2, ...: the base, doubled each time, up to a maximum.
backoff_for_attempt(n) ==
  LET raw == BackoffBase * Pow2[n - 1]
  IN IF raw < BackoffMax THEN raw ELSE BackoffMax

InitCalls ==
  /\ server \in [Service -> Status] /\ \A s \in Service : server[s] \in StatusOf[s]
  /\ call = [t \in Task |-> [s \in Service |-> NoCall]]

SetCall(t, s, c) == call' = [call EXCEPT ![t][s] = c]

\* do_request_inner up to the first attempt: a missing socket is an error at
\* once.
BeginCall(t, s, r) ==
  SetCall(t, s, [NoCall EXCEPT !.pc = IF server[s] = "absent" THEN "error"
                                                             ELSE "sent",
                               !.retries = r])

\* Mutant of Retried: one attempt too many.
RetriedOnceMore(c) ==
  IF c.attempt <= c.retries
  THEN [c EXCEPT !.pc = "sleep", !.attempt = @ + 1, !.timer = 0,
                 !.reply = "bad"]
  ELSE [c EXCEPT !.pc = "error"]

\* A failed attempt: pause and try again, or report the last error.
Retried(c) ==
  IF c.attempt < c.retries
  THEN [c EXCEPT !.pc = "sleep", !.attempt = @ + 1, !.timer = 0,
                 !.reply = "bad"]
  ELSE [c EXCEPT !.pc = "error"]
-----------------------------------------------------------------------------
\* The service handles the request.
Execute(t, s) ==
  /\ call[t][s].pc = "sent" /\ server[s] \in {"ok", "bad"}
  /\ SetCall(t, s, [call[t][s] EXCEPT !.pc = "replied", !.reply = server[s]])
  /\ UNCHANGED server

\* The answer is read and parsed; an HTTP error or an invalid answer is not
\* retried.
Deliver(t, s) ==
  /\ call[t][s].pc = "replied"
  /\ SetCall(t, s, [call[t][s] EXCEPT
       !.pc = IF call[t][s].reply = "ok" THEN "ok" ELSE "error"])
  /\ UNCHANGED server

\* ConnectionFailed: on connecting, or while the answer is read although the
\* request was handled.
Disconnect(t, s) ==
  /\ call[t][s].pc \in {"sent", "replied"}
  /\ server[s] \in {"refusing", "absent"}
  /\ SetCall(t, s, Retried(call[t][s]))
  /\ UNCHANGED server

\* Mutant of TimeOut: only reading the answer is under the timeout.
TimeOutReading(t, s) ==
  /\ call[t][s].pc = "replied"
  /\ call[t][s].timer = Timeout[s]
  /\ SetCall(t, s, Retried(call[t][s]))
  /\ UNCHANGED server

\* tokio::time::timeout gives the attempt up.
TimeOut(t, s) ==
  /\ call[t][s].pc \in {"sent", "replied"}
  /\ call[t][s].timer = Timeout[s]
  /\ SetCall(t, s, Retried(call[t][s]))
  /\ UNCHANGED server

\* The pause is over: the next attempt.
Wake(t, s) ==
  /\ call[t][s].pc = "sleep"
  /\ call[t][s].timer = backoff_for_attempt(call[t][s].attempt)
  /\ SetCall(t, s, [call[t][s] EXCEPT !.pc = "sent", !.timer = 0])
  /\ UNCHANGED server

CallStep(t, s) ==
  Deliver(t, s) \/ Disconnect(t, s) \/ TimeOut(t, s) \/ Wake(t, s)

\* A service starts, stops, hangs, recovers.
Change(s) ==
  /\ \E x \in StatusOf[s] \ {server[s]} : server' = [server EXCEPT ![s] = x]
  /\ UNCHANGED call

Running(c) == c.pc # "none"
Limit(s, c) == IF c.pc = "sleep" THEN backoff_for_attempt(c.attempt) ELSE Timeout[s]

\* One tick for the calls.  Timers fire when they are due, and a result is
\* taken before the timeout of its attempt would have been up.
TickCalls ==
  /\ \A t \in Task, s \in Service :
       Running(call[t][s]) => call[t][s].timer < Limit(s, call[t][s])
  /\ call' = [t \in Task |-> [s \in Service |->
       IF Running(call[t][s])
       THEN [call[t][s] EXCEPT !.timer = @ + 1, !.elapsed = @ + 1]
       ELSE call[t][s]]]
  /\ UNCHANGED server
-----------------------------------------------------------------------------
\* A call to a service takes no longer than its attempts' timeouts and the
\* pauses between them, whatever the service does meanwhile; a call without
\* retries (health_quick) takes one timeout.
Pauses[n \in Nat] ==
  IF n = 0 THEN 0 ELSE Pauses[n - 1] + backoff_for_attempt(n)

CallBound(s, r) == (r + 1) * Timeout[s] + Pauses[r]

CallBounded ==
  \A t \in Task, s \in Service :
    call[t][s].elapsed <= CallBound(s, call[t][s].retries)
=============================================================================
