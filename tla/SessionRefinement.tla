------------------------- MODULE SessionRefinement -------------------------
(***************************************************************************)
(* SessionStore implements SessionService: how the store's keys, caches    *)
(* and tasks show the service's state.                                     *)
(***************************************************************************)
EXTENDS SessionStore

\* A reset is asked to end the sessions it found live when it began, a
\* destroy its session once its script has run.
Asked(t) == IF task[t].op = "uncache" THEN task[t].sid ELSE task[t].snap
askedNow == [t \in Task |-> Asked(t)]

liveNow == {s \in Sid : Live(s)}

Filling(t, p, s) == task[t].op = "fill" /\ At[t] = p /\ s \in task[t].sid
readNow == {q \in Proc \X Sid : \E t \in Task : Filling(t, q[1], q[2])}

servedNow == {q \in Proc \X Sid : CacheHit(q[1], q[2])}

Service == INSTANCE SessionService WITH
  used    <- created,
  live    <- liveNow,
  asked   <- askedNow,
  ended   <- revoked,
  reading <- readNow,
  served  <- servedNow

\* Without two resets of one user at a time and without failures, the store
\* keeps the service's promise: it reports the end of sessions only when they
\* are gone from Redis and from the reporting process's memory, no session
\* comes back, and a cache is filled only with what was read alive.
ImplementsService == Service!Spec
=============================================================================
