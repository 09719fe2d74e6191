--------------------------- MODULE SessionService ---------------------------
(***************************************************************************)
(* What the session store promises its callers, without Redis keys, TTLs,  *)
(* index sets or the order of commands: sessions are opened once, end and  *)
(* never come back; a destroy is reported done only when every session it  *)
(* was asked to end is over and forgotten by the process that reports it;  *)
(* a process remembers a session only after having read it while it lived. *)
(***************************************************************************)
CONSTANTS
  User, Sid, Owner,  \* accounts, session ids and whose they are
  Proc, Task, At     \* processes, requests and where they run

VARIABLES
  used,      \* ids opened so far
  live,      \* sessions in force
  asked,     \* the sessions each request has been asked to end
  ended,     \* sessions whose end was reported
  reading,   \* sessions a process has read and not remembered yet
  served     \* sessions a process answers from memory

vars == <<used, live, asked, ended, reading, served>>

Init ==
  /\ used = {}
  /\ live = {}
  /\ asked = [t \in Task |-> {}]
  /\ ended = {}
  /\ reading = {}
  /\ served = {}

Open(s) ==
  /\ s \notin used
  /\ used' = used \cup {s}
  /\ live' = live \cup {s}
  /\ UNCHANGED <<asked, ended, reading, served>>

\* Sessions expire or are destroyed, memories fade, readers and requests give
\* up: each may happen at any time, none of it needs to.
Lapse ==
  /\ live' \subseteq live
  /\ reading' \subseteq reading
  /\ served' \subseteq served
  /\ \E T \in SUBSET Task :
       asked' = [t \in Task |-> IF t \in T THEN {} ELSE asked[t]]
  /\ UNCHANGED <<used, ended>>

\* A request to end one session, or all sessions the user has at this moment.
Ask(t, S) ==
  /\ asked' = [asked EXCEPT ![t] = S]
  /\ live' \subseteq live
  /\ UNCHANGED <<used, ended, reading, served>>

AskForUser(t, u) == Ask(t, {s \in live : Owner[s] = u})

\* The request returns Ok.
Report(t) ==
  /\ asked[t] \cap live = {}
  /\ ended' = ended \cup asked[t]
  /\ served' \subseteq served \ ({At[t]} \X asked[t])
  /\ asked' = [asked EXCEPT ![t] = {}]
  /\ UNCHANGED <<used, live, reading>>

Read(p, s) ==
  /\ s \in live
  /\ reading' = reading \cup {<<p, s>>}
  /\ UNCHANGED <<used, live, asked, ended, served>>

\* What was read is remembered, perhaps instead of other sessions.
Remember(p, s) ==
  /\ <<p, s>> \in reading
  /\ reading' \in {reading, reading \ {<<p, s>>}}
  /\ served' \subseteq served \cup {<<p, s>>}
  /\ UNCHANGED <<used, live, asked, ended>>

Next ==
  \/ \E s \in Sid : Open(s)
  \/ Lapse
  \/ \E t \in Task, s \in used : Ask(t, {s})
  \/ \E t \in Task, u \in User : AskForUser(t, u)
  \/ \E t \in Task : Report(t)
  \/ \E p \in Proc, s \in Sid : Read(p, s) \/ Remember(p, s)

Spec == Init /\ [][Next]_vars
=============================================================================
