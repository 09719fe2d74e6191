----------------------------- MODULE LiveSockets -----------------------------
(***************************************************************************)
(* The /live WebSocket endpoint: validate_ws_connection, ws_handler and    *)
(* handle_socket of backend/api/src/live.rs, the shared subscriber of      *)
(* backend/cache/src/pubsub.rs and the shutdown signal of main.rs.  Tasks  *)
(* run on several threads, so every access to shared state is a step: the  *)
(* semaphore, the per-user map, the atomic counter.  Drop                  *)
(* guards run in reverse order of declaration when a socket task ends.     *)
(***************************************************************************)
EXTENDS Integers, FiniteSets

CONSTANTS
  Conn,        \* connection attempts; one is reused when it is over
  User,        \* user ids
  AuthOn,      \* auth is configured: every connection has a user
  MaxConn,     \* WS_MAX_CONNECTIONS, permits of the semaphore
  PerUserMax,  \* WS_PER_USER_MAX
  Cap,         \* capacity of the broadcast channel
  MaxLeaks     \* bound: upgrades that fail

ASSUME SocketAssumption ==
  /\ AuthOn \in BOOLEAN
  /\ MaxConn \in Nat /\ PerUserMax \in Nat /\ MaxLeaks \in Nat
  /\ Cap \in Nat \ {0}
  /\ IsFiniteSet(Conn)

VARIABLES
  permits,  \* connection_permits: what the semaphore has left
  users,    \* user_connections
  active,   \* ACTIVE_WS_CONNECTIONS
  conn,     \* the connections
  queue,    \* queue[c]: messages waiting in c's broadcast receiver
  ready,    \* the shared subscriber: what its watch channel shows
  alive,    \* the shared subscriber's task forwards messages
  stopping, \* notify_waiters was called
  leaks     \* number of failed upgrades so far

shared == <<permits, users, active>>
pubsub == <<ready, alive>>
vars == <<permits, users, active, conn, queue, ready, alive, stopping, leaks>>
-----------------------------------------------------------------------------
Pc == {"idle", "asking", "counting", "upgrading", "subscribing", "waiting",
       "sending", "closing", "leaving", "uncounted", "dropping"}

\* Where a task holds a permit, is in the per-user map, is counted as
\* active, has a receiver.
Holding == {c \in Conn : conn[c].pc \notin {"idle", "asking"}}
Mapped == {c \in Conn : conn[c].pc \notin
             {"idle", "asking", "counting", "uncounted", "dropping"}}
Counted == {c \in Conn : conn[c].pc \notin
              {"idle", "asking", "counting", "upgrading", "dropping"}}
Listening == {c \in Conn : conn[c].pc \in {"waiting", "sending"}}

Idle == [pc |-> "idle", user |-> {}]
Goto(c, p) == conn' = [conn EXCEPT ![c].pc = p]

Callers == IF AuthOn THEN {{u} : u \in User} ELSE {{}}
-----------------------------------------------------------------------------
Init ==
  /\ permits = MaxConn
  /\ users = [u \in User |-> 0]
  /\ active = 0
  /\ conn = [c \in Conn |-> Idle]
  /\ queue = [c \in Conn |-> 0]
  /\ ready = "none" /\ alive = FALSE
  /\ stopping = FALSE
  /\ leaks = 0

\* A handshake arrives: a stopping server accepts no more of them.
Arrive(c, U) ==
  /\ conn[c].pc = "idle"
  /\ ~stopping
  /\ conn' = [conn EXCEPT ![c] = [pc |-> "asking", user |-> U]]
  /\ UNCHANGED <<shared, queue, pubsub, stopping, leaks>>

\* validate_ws_connection up to try_acquire_owned; without a permit, 503.
\* (Origin, token and session were checked.)  Graceful shutdown lets the
\* handshakes that are under way go on.
Acquire(c) ==
  /\ conn[c].pc = "asking"
  /\ IF permits > 0
     THEN permits' = permits - 1 /\ Goto(c, "counting")
     ELSE conn' = [conn EXCEPT ![c] = Idle] /\ UNCHANGED permits
  /\ UNCHANGED <<users, active, queue, pubsub, stopping, leaks>>

\* Mutant of CountUser: one too many.
CountUserOneMore(c) ==
  /\ conn[c].pc = "counting"
  /\ IF \E u \in conn[c].user : users[u] > PerUserMax
     THEN /\ permits' = permits + 1
          /\ conn' = [conn EXCEPT ![c] = Idle]
          /\ UNCHANGED users
     ELSE /\ users' = [u \in User |-> IF u \in conn[c].user THEN users[u] + 1 ELSE users[u]]
          /\ Goto(c, "upgrading")
          /\ UNCHANGED permits
  /\ UNCHANGED <<active, queue, pubsub, stopping, leaks>>

\* The quota check and the increment, under one lock; over the quota the
\* permit is dropped with the 429.
CountUser(c) ==
  /\ conn[c].pc = "counting"
  /\ IF \E u \in conn[c].user : users[u] >= PerUserMax
     THEN /\ permits' = permits + 1
          /\ conn' = [conn EXCEPT ![c] = Idle]
          /\ UNCHANGED users
     ELSE /\ users' = [u \in User |-> IF u \in conn[c].user THEN users[u] + 1 ELSE users[u]]
          /\ Goto(c, "upgrading")
          /\ UNCHANGED permits
  /\ UNCHANGED <<active, queue, pubsub, stopping, leaks>>

\* Mutant of UpgradeFails: the permit is lost as well.
UpgradeFailsHolding(c) ==
  /\ conn[c].pc = "upgrading"
  /\ leaks < MaxLeaks
  /\ leaks' = leaks + 1
  /\ conn' = [conn EXCEPT ![c] = Idle]
  /\ UNCHANGED <<permits, users, active, queue, pubsub, stopping>>

\* The client goes away before the upgrade: on_upgrade's closure is dropped
\* with the permit, and no WsUserGuard was made.
UpgradeFails(c) ==
  /\ conn[c].pc = "upgrading"
  /\ leaks < MaxLeaks
  /\ leaks' = leaks + 1
  /\ permits' = permits + 1
  /\ conn' = [conn EXCEPT ![c] = Idle]
  /\ UNCHANGED <<users, active, queue, pubsub, stopping>>

\* Mutant of Open: the socket is not counted.
OpenUncounted(c) ==
  /\ conn[c].pc = "upgrading"
  /\ Goto(c, "subscribing")
  /\ UNCHANGED <<permits, users, active, queue, pubsub, stopping, leaks>>

\* handle_socket starts: fetch_add (the gauge beside it is left out).
Open(c) ==
  /\ conn[c].pc = "upgrading"
  /\ active' = active + 1
  /\ Goto(c, "subscribing")
  /\ UNCHANGED <<permits, users, queue, pubsub, stopping, leaks>>

-----------------------------------------------------------------------------
\* subscribe: the first call starts the shared subscriber; then the watch
\* channel is awaited and read.
StartSubscriber(c) ==
  /\ conn[c].pc = "subscribing"
  /\ ready = "none"
  /\ ready' = "pending"
  /\ UNCHANGED <<shared, conn, queue, alive, stopping, leaks>>

Subscribe(c) ==
  /\ conn[c].pc = "subscribing"
  /\ \/ ready = "ok" /\ Goto(c, "waiting")
     \/ ready = "err" /\ Goto(c, "leaving")
  /\ queue' = [queue EXCEPT ![c] = 0]
  /\ UNCHANGED <<shared, pubsub, stopping, leaks>>

\* Mutant of SubscriberReady: a failure is retried and not told to anyone.
SubscriberRetries ==
  /\ ready = "pending"
  /\ \/ ready' = "ok" /\ alive' = TRUE
     \/ ready' = "none" /\ UNCHANGED alive
  /\ UNCHANGED <<shared, conn, queue, stopping, leaks>>

\* run_subscriber: connected and subscribed, or the error is sent.
SubscriberReady ==
  /\ ready = "pending"
  /\ \/ ready' = "ok" /\ alive' = TRUE
     \/ ready' = "err" /\ UNCHANGED alive
  /\ UNCHANGED <<shared, conn, queue, stopping, leaks>>

\* The message stream fails: the loop ends and the result, Ok, is sent again.
SubscriberEnds ==
  /\ alive
  /\ alive' = FALSE
  /\ ready' = "ok"
  /\ UNCHANGED <<shared, conn, queue, stopping, leaks>>

\* Mutant of Publish: the channel has no capacity limit.
PublishUnbounded ==
  /\ active > 0
  /\ alive
  /\ queue' = [c \in Conn |-> IF c \in Listening THEN queue[c] + 1 ELSE queue[c]]
  /\ UNCHANGED <<shared, conn, pubsub, stopping, leaks>>

\* broadcast_event, published here or by another process, and forwarded to
\* every receiver (a full one loses its oldest message).  This process skips
\* it when it has nobody connected, and then has no receiver either; another
\* process goes by its own counter.
Publish ==
  /\ active > 0
  /\ alive
  /\ queue' = [c \in Conn |->
       IF c \in Listening /\ queue[c] < Cap THEN queue[c] + 1 ELSE queue[c]]
  /\ UNCHANGED <<shared, conn, pubsub, stopping, leaks>>
-----------------------------------------------------------------------------
\* The select! loop: a message is taken and sent (or dropped after 100 ms).
Recv(c) ==
  /\ conn[c].pc = "waiting"
  /\ queue[c] > 0
  /\ queue' = [queue EXCEPT ![c] = @ - 1]
  /\ Goto(c, "sending")
  /\ UNCHANGED <<shared, pubsub, stopping, leaks>>

SendEnd(c) ==
  /\ conn[c].pc = "sending"
  /\ Goto(c, "waiting") \/ Goto(c, "leaving")
  /\ UNCHANGED <<shared, queue, pubsub, stopping, leaks>>

\* Idle timeout, or the client closes or breaks the protocol.
Leave(c) ==
  /\ conn[c].pc = "waiting"
  /\ Goto(c, "leaving")
  /\ UNCHANGED <<shared, queue, pubsub, stopping, leaks>>

\* SIGTERM: notify_waiters wakes the tasks that wait at this moment.
Shutdown ==
  /\ ~stopping
  /\ stopping' = TRUE
  /\ conn' = [c \in Conn |->
       IF conn[c].pc = "waiting" THEN [conn[c] EXCEPT !.pc = "closing"] ELSE conn[c]]
  /\ UNCHANGED <<shared, queue, pubsub, leaks>>

Close(c) ==
  /\ conn[c].pc = "closing"
  /\ Goto(c, "leaving")
  /\ UNCHANGED <<shared, queue, pubsub, stopping, leaks>>

\* The guards: WsUserGuard, WsGuard (fetch_sub), and last the permit.
DropUser(c) ==
  /\ conn[c].pc = "leaving"
  /\ users' = [u \in User |->
       IF u \in conn[c].user /\ users[u] > 0 THEN users[u] - 1 ELSE users[u]]
  /\ Goto(c, "uncounted")
  /\ UNCHANGED <<permits, active, queue, pubsub, stopping, leaks>>

DropActive(c) ==
  /\ conn[c].pc = "uncounted"
  /\ active' = active - 1
  /\ Goto(c, "dropping")
  /\ UNCHANGED <<permits, users, queue, pubsub, stopping, leaks>>

DropPermit(c) ==
  /\ conn[c].pc = "dropping"
  /\ permits' = permits + 1
  /\ conn' = [conn EXCEPT ![c] = Idle]
  /\ UNCHANGED <<users, active, queue, pubsub, stopping, leaks>>

SocketStep(c) ==
  \/ Acquire(c) \/ CountUser(c) \/ Open(c) \/ StartSubscriber(c) \/ Subscribe(c)
  \/ SendEnd(c) \/ Close(c) \/ DropUser(c) \/ DropActive(c) \/ DropPermit(c)

Next ==
  \/ \E c \in Conn :
       \/ \E U \in Callers : Arrive(c, U)
       \/ UpgradeFails(c) \/ SocketStep(c) \/ Recv(c) \/ Leave(c)
  \/ SubscriberReady \/ SubscriberEnds \/ Publish
  \/ Shutdown

Spec == Init /\ [][Next]_vars

\* Tasks that can run do; connecting to Redis ends one way or the other.
\* Clients, events and signals owe nothing.
FairSpec ==
  Spec /\ WF_vars(SubscriberReady) /\ \A c \in Conn : WF_vars(SocketStep(c))
-----------------------------------------------------------------------------
\* Permits stay within the semaphore, counters never go below zero, and a
\* receiver never holds more than the channel's capacity.
TypeOK ==
  /\ permits \in 0..MaxConn
  /\ users \in [User -> Nat]
  /\ active \in Nat
  /\ conn \in [Conn -> [pc : Pc, user : SUBSET User]]
  /\ queue \in [Conn -> 0..Cap]
  /\ ready \in {"none", "pending", "ok", "err"}
  /\ alive \in BOOLEAN
  /\ stopping \in BOOLEAN
  /\ leaks \in 0..MaxLeaks

\* Every permit is in the semaphore or with exactly one connection, on every
\* path out of the handler.
PermitsConserved == permits + Cardinality(Holding) = MaxConn

\* However requests race, no user ever has more sockets than the quota; and the
\* map never counts fewer than there are, nor more than failed upgrades (whose
\* guard was never made) explain: every other path gives the place back.
Sockets(u) == {c \in Mapped : u \in conn[c].user}
QuotaHolds ==
  \A u \in User : /\ users[u] <= PerUserMax
                  /\ Cardinality(Sockets(u)) <= users[u]
                  /\ users[u] <= Cardinality(Sockets(u)) + leaks

\* broadcast_event skips publishing when the counter is zero: no socket of this
\* process can be listening then, whatever comes between a socket's steps.
\* (Sockets of another process have a counter of their own and may listen.)
ListenersAreCounted == active = Cardinality(Counted)

\* A socket that waits for the shared subscriber is answered, also when the
\* connection to Redis fails.
SubscribeAnswers ==
  \A c \in Conn : conn[c].pc = "subscribing" ~> conn[c].pc # "subscribing"
=============================================================================
