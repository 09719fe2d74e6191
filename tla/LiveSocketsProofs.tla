------------------------- MODULE LiveSocketsProofs -------------------------
(***************************************************************************)
(* What LiveSockets promises, for every number of connections, users and   *)
(* permits: types, conservation of the permits, the users' quotas and the  *)
(* count of the sockets.  Each counter is the cardinality of a set of      *)
(* connections, and a step moves one connection into or out of the sets.   *)
(***************************************************************************)
EXTENDS LiveSockets, FiniteSetTheorems, TLAPS

One(b) == IF b THEN 1 ELSE 0

ConnType == conn \in [Conn -> [pc : Pc, user : SUBSET User]]

\* The inductive invariant.  The parts need each other: a permit is not given
\* back twice because each is with one connection, and the map's counter does
\* not stop at zero because it counts the socket that leaves.
SocketInv ==
  /\ TypeOK
  /\ PermitsConserved
  /\ QuotaHolds
  /\ ListenersAreCounted

-----------------------------------------------------------------------------
\* A set that changes in one element changes its size by at most one.
LEMMA CardinalityMove ==
  ASSUME NEW S, NEW T, NEW c, IsFiniteSet(S), IsFiniteSet(T),
         S \ {c} = T \ {c}
  PROVE  /\ Cardinality(S) \in Nat
         /\ Cardinality(T) \in Nat
         /\ Cardinality(T) = Cardinality(S) + One(c \in T) - One(c \in S)
<1>1. Cardinality(S) \in Nat /\ Cardinality(T) \in Nat
  BY FS_CardinalityType
<1>2. /\ c \in S => Cardinality(S \ {c}) = Cardinality(S) - 1
      /\ c \in T => Cardinality(T \ {c}) = Cardinality(T) - 1
  BY FS_RemoveElement
<1>3. /\ c \notin S => Cardinality(S \ {c}) = Cardinality(S)
      /\ c \notin T => Cardinality(T \ {c}) = Cardinality(T)
  <2>1. /\ c \notin S => S \ {c} = S
        /\ c \notin T => T \ {c} = T
    OBVIOUS
  <2> QED BY <2>1, Zenon
<1>4. Cardinality(S \ {c}) = Cardinality(T \ {c})
  OBVIOUS
<1>6. CASE c \in S
  <2>1. CASE c \in T
    BY <1>1, <1>2, <1>4, <1>6, <2>1 DEF One
  <2>2. CASE c \notin T
    BY <1>1, <1>2, <1>3, <1>4, <1>6, <2>2 DEF One
  <2> QED BY <2>1, <2>2
<1>7. CASE c \notin S
  <2>1. CASE c \in T
    BY <1>1, <1>2, <1>3, <1>4, <1>7, <2>1 DEF One
  <2>2. CASE c \notin T
    BY <1>1, <1>3, <1>4, <1>7, <2>2 DEF One
  <2> QED BY <2>1, <2>2
<1> QED BY <1>6, <1>7

\* Sets of connections are finite.
LEMMA SetsAreFinite ==
  /\ IsFiniteSet(Holding) /\ IsFiniteSet(Counted)
  /\ \A u \in User : IsFiniteSet(Sockets(u))
<1>1. /\ Holding \subseteq Conn /\ Counted \subseteq Conn
      /\ \A u \in User : Sockets(u) \subseteq Conn
  BY DEF Holding, Counted, Sockets, Mapped
<1> QED BY <1>1, SocketAssumption, FS_Subset

LEMMA SetsStayFinite ==
  /\ IsFiniteSet(Holding') /\ IsFiniteSet(Counted')
  /\ \A u \in User : IsFiniteSet(Sockets(u)')
<1>1. /\ Holding' \subseteq Conn /\ Counted' \subseteq Conn
      /\ \A u \in User : Sockets(u)' \subseteq Conn
  BY DEF Holding, Counted, Sockets, Mapped
<1> QED BY <1>1, SocketAssumption, FS_Subset

\* A step of one connection moves that connection only.
LEMMA OneMoves ==
  ASSUME NEW c \in Conn, \A d \in Conn \ {c} : conn'[d] = conn[d]
  PROVE  /\ Cardinality(Holding') =
              Cardinality(Holding) + One(c \in Holding') - One(c \in Holding)
         /\ Cardinality(Counted') =
              Cardinality(Counted) + One(c \in Counted') - One(c \in Counted)
         /\ \A u \in User :
              Cardinality(Sockets(u)') = Cardinality(Sockets(u))
                + One(c \in Sockets(u)') - One(c \in Sockets(u))
<1>1. Holding' \ {c} = Holding \ {c}
  BY DEF Holding
<1>2. Counted' \ {c} = Counted \ {c}
  BY DEF Counted
<1>3. \A u \in User : Sockets(u)' \ {c} = Sockets(u) \ {c}
  BY DEF Sockets, Mapped
<1> QED BY <1>1, <1>2, <1>3, SetsAreFinite, SetsStayFinite, CardinalityMove

\* A step that moves no connection between the sets leaves their sizes.
LEMMA NothingMoves ==
  ASSUME conn' = conn
  PROVE  Holding' = Holding /\ Counted' = Counted
         /\ \A u \in User : Sockets(u)' = Sockets(u)
BY DEF Holding, Counted, Sockets, Mapped

LEMMA CardinalitiesAreNat ==
  /\ Cardinality(Holding) \in Nat /\ Cardinality(Counted) \in Nat
  /\ \A u \in User : Cardinality(Sockets(u)) \in Nat
BY SetsAreFinite, FS_CardinalityType

LEMMA CardinalitiesStayNat ==
  /\ Cardinality(Holding') \in Nat /\ Cardinality(Counted') \in Nat
  /\ \A u \in User : Cardinality(Sockets(u)') \in Nat
BY SetsStayFinite, FS_CardinalityType
-----------------------------------------------------------------------------
LEMMA SocketInvInit == Init => SocketInv
<1> SUFFICES ASSUME Init PROVE SocketInv
  OBVIOUS
<1>1. /\ Holding = {} /\ Counted = {}
      /\ \A u \in User : Sockets(u) = {}
  BY DEF Init, Holding, Counted, Sockets, Mapped, Idle
<1>2. Cardinality({}) = 0
  BY FS_EmptySet
<1>3. TypeOK
  <2>1. alive \in BOOLEAN /\ stopping \in BOOLEAN
    BY Zenon DEF Init
  <2>2. /\ permits \in 0..MaxConn /\ users \in [User -> Nat] /\ active \in Nat
        /\ queue \in [Conn -> 0..Cap] /\ leaks \in 0..MaxLeaks
    BY SocketAssumption DEF Init
  <2>3. conn \in [Conn -> [pc : Pc, user : SUBSET User]]
    BY DEF Init, Idle, Pc
  <2>4. ready \in {"none", "pending", "ok", "err"}
    BY DEF Init
  <2> QED BY <2>1, <2>2, <2>3, <2>4 DEF TypeOK
<1>4. PermitsConserved
  BY <1>1, <1>2, SocketAssumption DEF Init, PermitsConserved
<1>5. ListenersAreCounted
  BY <1>1, <1>2 DEF Init, ListenersAreCounted
<1>6. QuotaHolds
  BY <1>1, <1>2, SocketAssumption DEF Init, QuotaHolds
<1> QED BY <1>3, <1>4, <1>5, <1>6 DEF SocketInv

\* What the counters say of a connection that is in their set.
LEMMA CountersInBounds ==
  ASSUME SocketInv
  PROVE  /\ permits \in Nat /\ active \in Nat /\ leaks \in Nat
         /\ \A u \in User : users[u] \in Nat
         /\ \A u \in User : /\ users[u] <= PerUserMax
                            /\ Cardinality(Sockets(u)) <= users[u]
                            /\ users[u] <= Cardinality(Sockets(u)) + leaks
         /\ permits + Cardinality(Holding) = MaxConn
         /\ active = Cardinality(Counted)
BY DEF SocketInv, TypeOK, QuotaHolds, PermitsConserved,
       ListenersAreCounted

\* What a step that moves a connection has to keep.
LEMMA SocketInvFrom ==
  ASSUME SocketInv, TypeOK',
         permits' + Cardinality(Holding') = MaxConn,
         active' = Cardinality(Counted'),
         \A u \in User : /\ users'[u] <= PerUserMax
                         /\ Cardinality(Sockets(u)') <= users'[u]
                         /\ users'[u] <= Cardinality(Sockets(u)') + leaks'
  PROVE  SocketInv'
BY DEF SocketInv, PermitsConserved, ListenersAreCounted, QuotaHolds

\* A step inside handle_socket that drops no guard changes no counter.
LEMMA SocketInvStay ==
  ASSUME SocketInv, TypeOK', UNCHANGED <<shared, leaks>>,
         Holding' = Holding, Counted' = Counted,
         \A u \in User : Sockets(u)' = Sockets(u)
  PROVE  SocketInv'
<1>1. UNCHANGED <<permits, users, active, leaks>>
  BY DEF shared
<1> QED BY <1>1, CountersInBounds, SocketInvFrom

\* Goto changes one program counter.
LEMMA GotoType ==
  ASSUME ConnType, NEW c \in Conn, NEW p \in Pc, Goto(c, p)
  PROVE  /\ ConnType'
         /\ conn'[c].pc = p /\ conn'[c].user = conn[c].user
         /\ \A d \in Conn \ {c} : conn'[d] = conn[d]
BY DEF ConnType, Goto

\* The connection is over.
LEMMA IdleType ==
  ASSUME ConnType, NEW c \in Conn, conn' = [conn EXCEPT ![c] = Idle]
  PROVE  /\ ConnType'
         /\ conn'[c].pc = "idle" /\ conn'[c].user = {}
         /\ \A d \in Conn \ {c} : conn'[d] = conn[d]
BY DEF ConnType, Idle, Pc

\* A move between two steps of handle_socket leaves the sets as they are.
Inside == {"subscribing", "waiting", "sending", "closing", "leaving"}

LEMMA InsideStays ==
  ASSUME ConnType, NEW c \in Conn, NEW p \in Inside, conn[c].pc \in Inside,
         Goto(c, p)
  PROVE  /\ ConnType' /\ Holding' = Holding /\ Counted' = Counted
         /\ \A u \in User : Sockets(u)' = Sockets(u)
<1>1. p \in Pc
  BY DEF Inside, Pc
<1>2. /\ ConnType'
      /\ conn'[c].pc = p /\ conn'[c].user = conn[c].user
      /\ \A d \in Conn \ {c} : conn'[d] = conn[d]
  BY <1>1, GotoType
<1>3. Holding' = Holding
  BY <1>2 DEF Holding, Inside
<1>4. Counted' = Counted
  BY <1>2 DEF Counted, Inside
<1>5. \A u \in User : Sockets(u)' = Sockets(u)
  BY <1>2 DEF Sockets, Mapped, Inside
<1> QED BY <1>2, <1>3, <1>4, <1>5
-----------------------------------------------------------------------------
(* One lemma for each action that moves a connection into or out of a set. *)

\* A connection that has no permit yet is in none of the sets.
LEMMA OutsideStays ==
  ASSUME ConnType, ConnType', NEW c \in Conn,
         conn[c].pc \in {"idle", "asking"}, conn'[c].pc \in {"idle", "asking"},
         \A d \in Conn \ {c} : conn'[d] = conn[d]
  PROVE  /\ Holding' = Holding /\ Counted' = Counted
         /\ \A u \in User : Sockets(u)' = Sockets(u)
<1>1. Holding' = Holding
  BY DEF Holding
<1>2. Counted' = Counted
  BY DEF Counted
<1>3. \A u \in User : Sockets(u)' = Sockets(u)
  BY DEF Sockets, Mapped
<1> QED BY <1>1, <1>2, <1>3

\* A handshake arrives.
LEMMA ArriveKeeps ==
  ASSUME SocketInv, NEW c \in Conn, NEW U \in Callers, Arrive(c, U)
  PROVE  SocketInv'
<1>1. ConnType /\ U \in SUBSET User
  BY DEF SocketInv, TypeOK, ConnType, Callers
<1>2. /\ ConnType'
      /\ conn[c].pc = "idle" /\ conn'[c].pc = "asking"
      /\ \A d \in Conn \ {c} : conn'[d] = conn[d]
  BY <1>1 DEF Arrive, ConnType, Pc
<1>3. TypeOK'
  BY <1>2 DEF SocketInv, TypeOK, ConnType, Arrive, shared, pubsub
<1> QED BY <1>1, <1>2, <1>3, OutsideStays, SocketInvStay DEF Arrive

\* validate_ws_connection takes a permit, or answers 503.
LEMMA AcquireKeeps ==
  ASSUME SocketInv, NEW c \in Conn, Acquire(c)
  PROVE  SocketInv'
<1>0. ConnType /\ conn[c].pc = "asking"
  BY DEF SocketInv, TypeOK, ConnType, Acquire
<1>1. CASE ~(permits > 0)
  <2>1. conn' = [conn EXCEPT ![c] = Idle] /\ UNCHANGED permits
    BY <1>1 DEF Acquire
  <2>2. /\ ConnType' /\ conn'[c].pc = "idle"
        /\ \A d \in Conn \ {c} : conn'[d] = conn[d]
    BY <1>0, <2>1, IdleType
  <2>3. TypeOK'
    BY <2>1, <2>2 DEF SocketInv, TypeOK, ConnType, Acquire, pubsub
  <2>4. UNCHANGED <<shared, leaks>>
    BY <2>1 DEF Acquire, shared
  <2> QED BY <1>0, <2>2, <2>3, <2>4, OutsideStays, SocketInvStay
<1>2. CASE permits > 0
  <2>1. permits' = permits - 1 /\ Goto(c, "counting")
    BY <1>2 DEF Acquire
  <2>2. /\ ConnType' /\ conn'[c].pc = "counting"
        /\ \A d \in Conn \ {c} : conn'[d] = conn[d]
    BY <1>0, <2>1, GotoType DEF Pc
  <2>3. /\ c \notin Holding /\ c \in Holding'
        /\ c \notin Counted /\ c \notin Counted'
        /\ \A u \in User : c \notin Sockets(u) /\ c \notin Sockets(u)'
    BY <1>0, <2>2 DEF Holding, Counted, Sockets, Mapped
  <2>4. /\ Cardinality(Holding') = Cardinality(Holding) + 1
        /\ Cardinality(Counted') = Cardinality(Counted)
        /\ \A u \in User : Cardinality(Sockets(u)') = Cardinality(Sockets(u))
    BY <2>2, <2>3, OneMoves, CardinalitiesAreNat DEF One
  <2>5. TypeOK'
    BY <1>2, <2>1, <2>2, SocketAssumption DEF SocketInv, TypeOK, ConnType, Acquire, pubsub
  <2>6. permits' + Cardinality(Holding') = MaxConn
    BY <2>1, <2>4, CountersInBounds, CardinalitiesAreNat, SocketAssumption
  <2> QED BY <2>4, <2>5, <2>6, CountersInBounds, SocketInvFrom DEF Acquire
<1> QED BY <1>1, <1>2

\* The user is counted, or the permit is given back with the 429.
LEMMA CountUserKeeps ==
  ASSUME SocketInv, NEW c \in Conn, CountUser(c)
  PROVE  SocketInv'
<1>1. ConnType /\ conn[c].pc = "counting"
  BY DEF SocketInv, TypeOK, ConnType, CountUser
<1>2. /\ c \in Holding /\ c \notin Counted
      /\ \A u \in User : c \notin Sockets(u)
  BY <1>1 DEF Holding, Counted, Sockets, Mapped
<1>3. CASE \E u \in conn[c].user : users[u] >= PerUserMax
  <2>1. /\ permits' = permits + 1 /\ users' = users
        /\ conn' = [conn EXCEPT ![c] = Idle]
    BY <1>3 DEF CountUser
  <2>2. /\ ConnType' /\ conn'[c].pc = "idle"
        /\ \A d \in Conn \ {c} : conn'[d] = conn[d]
    BY <1>1, <2>1, IdleType
  <2>3. /\ c \notin Holding' /\ c \notin Counted'
        /\ \A u \in User : c \notin Sockets(u)'
    BY <2>2 DEF Holding, Counted, Sockets, Mapped
  <2>4. /\ Cardinality(Holding') = Cardinality(Holding) - 1
        /\ Cardinality(Counted') = Cardinality(Counted)
        /\ \A u \in User : Cardinality(Sockets(u)') = Cardinality(Sockets(u))
    BY <1>2, <2>2, <2>3, OneMoves, CardinalitiesAreNat DEF One
  <2>5. permits' + Cardinality(Holding') = MaxConn
    BY <2>1, <2>4, CountersInBounds, CardinalitiesAreNat, SocketAssumption
  <2>6. permits' \in 0..MaxConn
    BY <2>1, <2>5, CountersInBounds, CardinalitiesStayNat, SocketAssumption
  <2>7. TypeOK'
    BY <2>1, <2>2, <2>6 DEF SocketInv, TypeOK, ConnType, CountUser, pubsub
  <2> QED
    BY <2>1, <2>4, <2>5, <2>7, CountersInBounds, SocketInvFrom DEF CountUser
<1>4. CASE ~ \E u \in conn[c].user : users[u] >= PerUserMax
  <2>1. /\ permits' = permits /\ Goto(c, "upgrading")
        /\ users' = [u \in User |-> IF u \in conn[c].user THEN users[u] + 1
                                                          ELSE users[u]]
    BY <1>4 DEF CountUser
  <2>2. /\ ConnType' /\ conn'[c].pc = "upgrading"
        /\ conn'[c].user = conn[c].user
        /\ \A d \in Conn \ {c} : conn'[d] = conn[d]
    BY <1>1, <2>1, GotoType DEF Pc
  <2>3. /\ c \in Holding' /\ c \notin Counted'
        /\ \A u \in User : c \in Sockets(u)' <=> u \in conn[c].user
    BY <2>2 DEF Holding, Counted, Sockets, Mapped
  <2>4. /\ Cardinality(Holding') = Cardinality(Holding)
        /\ Cardinality(Counted') = Cardinality(Counted)
    BY <1>2, <2>2, <2>3, OneMoves, CardinalitiesAreNat DEF One
  <2>5. ASSUME NEW u \in User
        PROVE  /\ users'[u] \in Nat
               /\ users'[u] <= PerUserMax
               /\ Cardinality(Sockets(u)') <= users'[u]
               /\ users'[u] <= Cardinality(Sockets(u)') + leaks
    <3>1. Cardinality(Sockets(u)') =
            Cardinality(Sockets(u)) + One(u \in conn[c].user)
      BY <1>2, <2>2, <2>3, OneMoves, CardinalitiesAreNat DEF One
    <3>2. users'[u] = users[u] + One(u \in conn[c].user)
      BY <2>1, CountersInBounds DEF One
    <3>3. u \in conn[c].user => users[u] < PerUserMax
      BY <1>4, CountersInBounds, SocketAssumption
    <3> QED BY <3>1, <3>2, <3>3, CountersInBounds, CardinalitiesAreNat,
               SocketAssumption DEF One
  <2>6. users' \in [User -> Nat]
    BY <2>1, <2>5
  <2>7. TypeOK'
    BY <2>1, <2>2, <2>6 DEF SocketInv, TypeOK, ConnType, CountUser, pubsub
  <2> QED
    BY <2>1, <2>4, <2>5, <2>7, CountersInBounds, SocketInvFrom DEF CountUser
<1> QED BY <1>3, <1>4

\* A failed upgrade gives the permit back, and not the place in the quota.
LEMMA UpgradeFailsKeeps ==
  ASSUME SocketInv, NEW c \in Conn, UpgradeFails(c)
  PROVE  SocketInv'
<1>1. ConnType /\ conn[c].pc = "upgrading"
  BY DEF SocketInv, TypeOK, ConnType, UpgradeFails
<1>2. /\ ConnType' /\ conn'[c].pc = "idle"
      /\ \A d \in Conn \ {c} : conn'[d] = conn[d]
  BY <1>1, IdleType DEF UpgradeFails
<1>3. /\ c \in Holding /\ c \notin Holding'
      /\ c \notin Counted /\ c \notin Counted'
      /\ \A u \in User : c \notin Sockets(u)'
  BY <1>1, <1>2 DEF Holding, Counted, Sockets, Mapped
<1>4. /\ Cardinality(Holding') = Cardinality(Holding) - 1
      /\ Cardinality(Counted') = Cardinality(Counted)
      /\ \A u \in User : Cardinality(Sockets(u)') =
                           Cardinality(Sockets(u)) - One(c \in Sockets(u))
  BY <1>2, <1>3, OneMoves, CardinalitiesAreNat DEF One
<1>5. permits' + Cardinality(Holding') = MaxConn
  BY <1>4, CountersInBounds, CardinalitiesAreNat, SocketAssumption
     DEF UpgradeFails
<1>6. permits' \in 0..MaxConn
  BY <1>5, CountersInBounds, CardinalitiesStayNat, SocketAssumption
     DEF UpgradeFails
<1>7. leaks' \in 0..MaxLeaks
  BY CountersInBounds, SocketAssumption DEF UpgradeFails
<1>8. TypeOK'
  BY <1>2, <1>6, <1>7 DEF SocketInv, TypeOK, ConnType, UpgradeFails, pubsub
<1>9. \A u \in User : /\ users'[u] <= PerUserMax
                      /\ Cardinality(Sockets(u)') <= users'[u]
                      /\ users'[u] <= Cardinality(Sockets(u)') + leaks'
  BY <1>4, CountersInBounds, CardinalitiesAreNat DEF UpgradeFails, One
<1> QED BY <1>4, <1>5, <1>8, <1>9, CountersInBounds, SocketInvFrom
           DEF UpgradeFails

\* handle_socket starts and counts the socket.
LEMMA OpenKeeps ==
  ASSUME SocketInv, NEW c \in Conn, Open(c)
  PROVE  SocketInv'
<1>1. ConnType /\ conn[c].pc = "upgrading"
  BY DEF SocketInv, TypeOK, ConnType, Open
<1>2. /\ ConnType' /\ conn'[c].pc = "subscribing"
      /\ conn'[c].user = conn[c].user
      /\ \A d \in Conn \ {c} : conn'[d] = conn[d]
  BY <1>1, GotoType DEF Open, Pc
<1>3. /\ c \in Holding /\ c \in Holding'
      /\ c \notin Counted /\ c \in Counted'
      /\ \A u \in User : c \in Sockets(u)' <=> c \in Sockets(u)
  BY <1>1, <1>2 DEF Holding, Counted, Sockets, Mapped
<1>4. /\ Cardinality(Holding') = Cardinality(Holding)
      /\ Cardinality(Counted') = Cardinality(Counted) + 1
      /\ \A u \in User : Cardinality(Sockets(u)') = Cardinality(Sockets(u))
  BY <1>2, <1>3, OneMoves, CardinalitiesAreNat DEF One
<1>5. TypeOK'
  BY <1>2, CountersInBounds DEF SocketInv, TypeOK, ConnType, Open, pubsub
<1> QED BY <1>4, <1>5, CountersInBounds, SocketInvFrom DEF Open

\* WsUserGuard takes the socket out of the map, which counted it.
LEMMA DropUserKeeps ==
  ASSUME SocketInv, NEW c \in Conn, DropUser(c)
  PROVE  SocketInv'
<1>1. ConnType /\ conn[c].pc = "leaving"
  BY DEF SocketInv, TypeOK, ConnType, DropUser
<1>2. /\ ConnType' /\ conn'[c].pc = "uncounted"
      /\ \A d \in Conn \ {c} : conn'[d] = conn[d]
  BY <1>1, GotoType DEF DropUser, Pc
<1>3. /\ c \in Holding /\ c \in Holding'
      /\ c \in Counted /\ c \in Counted'
      /\ \A u \in User : c \notin Sockets(u)'
      /\ \A u \in User : c \in Sockets(u) <=> u \in conn[c].user
  BY <1>1, <1>2 DEF Holding, Counted, Sockets, Mapped
<1>4. /\ Cardinality(Holding') = Cardinality(Holding)
      /\ Cardinality(Counted') = Cardinality(Counted)
  BY <1>2, <1>3, OneMoves, CardinalitiesAreNat DEF One
<1>5. ASSUME NEW u \in User
      PROVE  /\ users'[u] \in Nat
             /\ users'[u] <= PerUserMax
             /\ Cardinality(Sockets(u)') <= users'[u]
             /\ users'[u] <= Cardinality(Sockets(u)') + leaks
  <2>1. Cardinality(Sockets(u)') =
          Cardinality(Sockets(u)) - One(u \in conn[c].user)
    BY <1>2, <1>3, OneMoves, CardinalitiesAreNat DEF One
  <2>2. Cardinality(Sockets(u)') \in Nat
    BY CardinalitiesStayNat
  <2>3. users'[u] = users[u] - One(u \in conn[c].user)
    BY <2>1, <2>2, CountersInBounds, CardinalitiesAreNat DEF One, DropUser
  <2> QED BY <2>1, <2>2, <2>3, CountersInBounds, CardinalitiesAreNat,
             SocketAssumption DEF One
<1>6. users' \in [User -> Nat]
  BY <1>5 DEF DropUser
<1>7. TypeOK'
  BY <1>2, <1>6 DEF SocketInv, TypeOK, ConnType, DropUser, pubsub
<1> QED BY <1>4, <1>5, <1>7, CountersInBounds, SocketInvFrom DEF DropUser

\* WsGuard counts the socket down.
LEMMA DropActiveKeeps ==
  ASSUME SocketInv, NEW c \in Conn, DropActive(c)
  PROVE  SocketInv'
<1>1. ConnType /\ conn[c].pc = "uncounted"
  BY DEF SocketInv, TypeOK, ConnType, DropActive
<1>2. /\ ConnType' /\ conn'[c].pc = "dropping"
      /\ \A d \in Conn \ {c} : conn'[d] = conn[d]
  BY <1>1, GotoType DEF DropActive, Pc
<1>3. /\ c \in Holding /\ c \in Holding'
      /\ c \in Counted /\ c \notin Counted'
      /\ \A u \in User : c \notin Sockets(u)' /\ c \notin Sockets(u)
  BY <1>1, <1>2 DEF Holding, Counted, Sockets, Mapped
<1>4. /\ Cardinality(Holding') = Cardinality(Holding)
      /\ Cardinality(Counted') = Cardinality(Counted) - 1
      /\ \A u \in User : Cardinality(Sockets(u)') = Cardinality(Sockets(u))
  BY <1>2, <1>3, OneMoves, CardinalitiesAreNat DEF One
<1>5. active' = Cardinality(Counted') /\ active' \in Nat
  BY <1>4, CountersInBounds, CardinalitiesStayNat DEF DropActive
<1>6. TypeOK'
  BY <1>2, <1>5 DEF SocketInv, TypeOK, ConnType, DropActive, pubsub
<1> QED BY <1>4, <1>5, <1>6, CountersInBounds, SocketInvFrom DEF DropActive

\* Last the permit is given back.
LEMMA DropPermitKeeps ==
  ASSUME SocketInv, NEW c \in Conn, DropPermit(c)
  PROVE  SocketInv'
<1>1. ConnType /\ conn[c].pc = "dropping"
  BY DEF SocketInv, TypeOK, ConnType, DropPermit
<1>2. /\ ConnType' /\ conn'[c].pc = "idle"
      /\ \A d \in Conn \ {c} : conn'[d] = conn[d]
  BY <1>1, IdleType DEF DropPermit
<1>3. /\ c \in Holding /\ c \notin Holding'
      /\ c \notin Counted /\ c \notin Counted'
      /\ \A u \in User : c \notin Sockets(u)' /\ c \notin Sockets(u)
  BY <1>1, <1>2 DEF Holding, Counted, Sockets, Mapped
<1>4. /\ Cardinality(Holding') = Cardinality(Holding) - 1
      /\ Cardinality(Counted') = Cardinality(Counted)
      /\ \A u \in User : Cardinality(Sockets(u)') = Cardinality(Sockets(u))
  BY <1>2, <1>3, OneMoves, CardinalitiesAreNat DEF One
<1>5. permits' + Cardinality(Holding') = MaxConn
  BY <1>4, CountersInBounds, CardinalitiesAreNat, SocketAssumption
     DEF DropPermit
<1>6. permits' \in 0..MaxConn
  BY <1>5, CountersInBounds, CardinalitiesStayNat, SocketAssumption
     DEF DropPermit
<1>7. TypeOK'
  BY <1>2, <1>6 DEF SocketInv, TypeOK, ConnType, DropPermit, pubsub
<1> QED BY <1>4, <1>5, <1>7, CountersInBounds, SocketInvFrom DEF DropPermit
-----------------------------------------------------------------------------
\* The steps inside the select! loop, and waiting for the subscriber.
LEMMA InsideKeeps ==
  ASSUME SocketInv, NEW c \in Conn,
         Subscribe(c) \/ Recv(c) \/ SendEnd(c) \/ Leave(c) \/ Close(c)
  PROVE  SocketInv'
<1>1. ConnType /\ conn[c].pc \in Inside
  BY DEF SocketInv, TypeOK, ConnType, Inside, Subscribe, Recv, SendEnd, Leave,
         Close
<1>2. PICK p \in Inside : Goto(c, p)
  BY DEF Inside, Subscribe, Recv, SendEnd, Leave, Close
<1>3. /\ ConnType' /\ Holding' = Holding /\ Counted' = Counted
      /\ \A u \in User : Sockets(u)' = Sockets(u)
  BY <1>1, <1>2, InsideStays
<1>4. UNCHANGED <<permits, users, active, ready, alive, stopping, leaks>>
  BY DEF Subscribe, Recv, SendEnd, Leave, Close, shared, pubsub
<1>5. queue' \in [Conn -> 0..Cap]
  BY SocketAssumption
     DEF SocketInv, TypeOK, Subscribe, Recv, SendEnd, Leave, Close
<1>6. TypeOK'
  BY <1>3, <1>4, <1>5 DEF SocketInv, TypeOK, ConnType
<1> QED BY <1>3, <1>4, <1>6, SocketInvStay DEF shared

\* What the subscriber and the publishers do concerns no connection's place.
LEMMA SubscriberKeeps ==
  ASSUME SocketInv,
         \/ \E c \in Conn : StartSubscriber(c)
         \/ SubscriberReady \/ SubscriberEnds \/ Publish
  PROVE  SocketInv'
<1>1. UNCHANGED <<permits, users, active, conn, stopping, leaks>>
  BY DEF StartSubscriber, SubscriberReady, SubscriberEnds, Publish, shared
<1>2. ready' \in {"none", "pending", "ok", "err"}
  BY DEF SocketInv, TypeOK, StartSubscriber, SubscriberReady, SubscriberEnds,
         Publish, pubsub
<1>3. alive' \in BOOLEAN
  <2>1. alive \in BOOLEAN
    BY DEF SocketInv, TypeOK
  <2>2. alive' \in {TRUE, FALSE} \/ alive' = alive
    BY Zenon DEF StartSubscriber, SubscriberReady, SubscriberEnds, Publish,
                 pubsub
  <2> QED BY <2>1, <2>2
<1>4. queue' \in [Conn -> 0..Cap]
  <2>1. CASE Publish
    BY <2>1, SocketAssumption DEF SocketInv, TypeOK, Publish
  <2>2. CASE ~Publish
    BY <2>2 DEF SocketInv, TypeOK, StartSubscriber, SubscriberReady,
                SubscriberEnds
  <2> QED BY <2>1, <2>2
<1>5. TypeOK'
  BY <1>1, <1>2, <1>3, <1>4 DEF SocketInv, TypeOK
<1> QED BY <1>1, <1>5, NothingMoves, SocketInvStay DEF shared

\* notify_waiters moves sockets that wait, inside handle_socket.
LEMMA ShutdownKeeps ==
  ASSUME SocketInv, Shutdown
  PROVE  SocketInv'
<1>1. ConnType
  BY DEF SocketInv, TypeOK, ConnType
<1>2. ConnType'
  BY <1>1 DEF ConnType, Shutdown, Pc
<1>3. \A c \in Conn :
        /\ conn'[c].user = conn[c].user
        /\ conn'[c].pc = IF conn[c].pc = "waiting" THEN "closing"
                                                   ELSE conn[c].pc
  BY <1>1 DEF ConnType, Shutdown
<1>4. Holding' = Holding
  BY <1>3 DEF Holding
<1>5. Counted' = Counted
  BY <1>3 DEF Counted
<1>6. \A u \in User : Sockets(u)' = Sockets(u)
  BY <1>3 DEF Sockets, Mapped
<1>7. UNCHANGED <<permits, users, active, queue, ready, alive, leaks>>
      /\ stopping' = TRUE
  BY DEF Shutdown, shared, pubsub
<1>8. TypeOK'
  BY <1>2, <1>7 DEF SocketInv, TypeOK, ConnType
<1> QED BY <1>4, <1>5, <1>6, <1>7, <1>8, SocketInvStay DEF shared

\* Every step keeps the invariant.
LEMMA SocketInvNext == SocketInv /\ [Next]_vars => SocketInv'
<1> SUFFICES ASSUME SocketInv, [Next]_vars PROVE SocketInv'
  OBVIOUS
<1>1. CASE \E c \in Conn : \E U \in Callers : Arrive(c, U)
  BY <1>1, ArriveKeeps
<1>12. CASE \E c \in Conn : Acquire(c)
  BY <1>12, AcquireKeeps
<1>2. CASE \E c \in Conn : UpgradeFails(c)
  BY <1>2, UpgradeFailsKeeps
<1>3. CASE \E c \in Conn : CountUser(c)
  BY <1>3, CountUserKeeps
<1>4. CASE \E c \in Conn : Open(c)
  BY <1>4, OpenKeeps
<1>5. CASE \E c \in Conn : DropUser(c)
  BY <1>5, DropUserKeeps
<1>6. CASE \E c \in Conn : DropActive(c)
  BY <1>6, DropActiveKeeps
<1>7. CASE \E c \in Conn : DropPermit(c)
  BY <1>7, DropPermitKeeps
<1>8. CASE \E c \in Conn : \/ Subscribe(c) \/ Recv(c) \/ SendEnd(c)
                           \/ Leave(c) \/ Close(c)
  BY <1>8, InsideKeeps
<1>9. CASE \/ \E c \in Conn : StartSubscriber(c)
           \/ SubscriberReady \/ SubscriberEnds \/ Publish
  BY <1>9, SubscriberKeeps
<1>10. CASE Shutdown
  BY <1>10, ShutdownKeeps
<1>11. CASE UNCHANGED vars
  <2>1. TypeOK'
    BY <1>11 DEF SocketInv, TypeOK, vars
  <2> QED BY <1>11, <2>1, NothingMoves, SocketInvStay DEF vars, shared
<1> QED BY <1>1, <1>2, <1>3, <1>4, <1>5, <1>6, <1>7, <1>8, <1>9, <1>10, <1>11, <1>12
           DEF Next, SocketStep

LEMMA SocketInvAlways == Spec => []SocketInv
BY SocketInvInit, SocketInvNext, PTL DEF Spec
-----------------------------------------------------------------------------
\* The counters of live.rs stay within their types: the semaphore never holds
\* more permits than it was made with, and fetch_sub never goes below zero.
THEOREM TypeCorrect == Spec => []TypeOK
<1>1. SocketInv => TypeOK
  BY DEF SocketInv
<1> QED BY <1>1, SocketInvAlways, PTL

\* No path out of validate_ws_connection or handle_socket loses a permit or
\* gives one back twice.
THEOREM PermitsAreConserved == Spec => []PermitsConserved
<1>1. SocketInv => PermitsConserved
  BY DEF SocketInv
<1> QED BY <1>1, SocketInvAlways, PTL

\* However many connections race, user_connections never lets a user have
\* more sockets than the quota, and is wrong by failed upgrades only.
THEOREM QuotasHold == Spec => []QuotaHolds
<1>1. SocketInv => QuotaHolds
  BY DEF SocketInv
<1> QED BY <1>1, SocketInvAlways, PTL

\* ACTIVE_WS_CONNECTIONS is exact, so that broadcast_event skips only when no
\* socket of its process listens.
THEOREM CounterIsExact == Spec => []ListenersAreCounted
<1>1. SocketInv => ListenersAreCounted
  BY DEF SocketInv
<1> QED BY <1>1, SocketInvAlways, PTL
=============================================================================
