--------------------------- MODULE OAuthRefinement ---------------------------
(***************************************************************************)
(* The state of an OAuth login is a Baton: Redis has it, then the callback *)
(* that GETDEL gave it to, then the session which that callback creates.   *)
(***************************************************************************)
EXTENDS OneTimeTokens

InRedis == <<"redis">>
Callbacks == {"task"} \X Task
Sessions == {"session"} \X Login

HandsOf(s) ==
  {k \in {InRedis} : csrf[s].ttl > 0}
    \cup {h \in Callbacks : s \in task[h[2]].via}
    \cup ({"session"} \X {x \in sess : s \in x.via})

OAuth == INSTANCE Baton WITH
  Thing <- State,
  First <- {InRedis},
  Way   <- ({InRedis} \X Callbacks) \cup (Callbacks \X Sessions),
  Name  <- {{}},
  hand  <- [s \in State |-> HandsOf(s)],
  name  <- [s \in State |-> {}]

\* One OAuth state lets one login through: it is in Redis, with one callback
\* or in one session; a callback has it only from Redis, which has it no more,
\* and a session only from its callback (oauth_callback, GETDEL).
StateIsABaton == OAuth!Spec
=============================================================================
