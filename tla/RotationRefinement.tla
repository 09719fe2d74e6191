-------------------------- MODULE RotationRefinement --------------------------
(***************************************************************************)
(* The refresh tokens of one login are a Baton: a request has it, then a   *)
(* bundle in Redis, then the request that rotates it, and so on.           *)
(***************************************************************************)
EXTENDS AuthTokens

\* The tasks that will put the family into a new bundle.
Carries(t, f) == f \in task[t].fam /\ task[t].op \in {"grant", "find", "regrant"}

\* Whose login it is, as whoever has the family says.
UsersOf(f) ==
  UNION ({cred[b].user : b \in {c \in Bundle : f \in cred[c].fam}}
           \cup {task[t].user : t \in {r \in Task : Carries(r, f)}})

Rotation == INSTANCE Baton WITH
  Thing <- Family,
  First <- Task,
  Way   <- (Task \X Bundle) \cup (Bundle \X Task),
  Name  <- SUBSET Uid,
  hand  <- [f \in Family |-> Holders(f)],
  name  <- [f \in Family |-> UsersOf(f)]

\* Of a login and its refreshes at most one refresh token is usable, counting
\* the requests about to create one; each refresh uses up the token it came
\* with, a new one comes only from a login or from the one used up, and all
\* are for the user who logged in (refresh_token_rotate).
RotationIsABaton == Rotation!Spec
=============================================================================
