-------------------------- MODULE HealthCacheProofs --------------------------
(***************************************************************************)
(* Proofs about the health endpoints: calls end in time (theorem           *)
(* CallsAreBounded), probes are made one at a time and only when needed    *)
(* (ProbesAreSingle), and an ok is recent (OksAreRecent).                  *)
(***************************************************************************)
EXTENDS HealthCache, FiniteSetTheorems, SequenceTheorems, WellFoundedInduction, TLAPS

-----------------------------------------------------------------------------
(* Functions defined by recursion on Nat.                                  *)

\* A set of naturals has a least member.
LEMMA LeastMember ==
  ASSUME NEW T, T \subseteq Nat, T # {}
  PROVE  \E x \in T : \A y \in T : x <= y
  <1>1. PICK x \in T : \A y \in T : <<y, x>> \notin OpToRel(<, Nat)
    BY NatLessThanWellFounded, WFMin
  <1>2. \A y \in T : ~(y < x)
    BY <1>1 DEF OpToRel
  <1> QED BY <1>2

\* g follows the rule h from z, up to n.
Follows(g, z, h, n) ==
  g[0] = z /\ \A i \in 1..n : g[i] = h[i][g[i - 1]]

\* Two functions that follow a rule agree.
LEMMA RuleIsUnique ==
  ASSUME NEW z, NEW h, NEW n \in Nat, NEW f, NEW g,
         Follows(f, z, h, n), Follows(g, z, h, n)
  PROVE  \A i \in 0..n : f[i] = g[i]
  <1> DEFINE T == {i \in 0..n : f[i] # g[i]}
  <1> SUFFICES ASSUME T # {} PROVE FALSE
    OBVIOUS
  <1>1. PICK m \in T : \A i \in T : m <= i
    <2>1. T \subseteq Nat
      OBVIOUS
    <2> QED BY <2>1, LeastMember
  <1>2. m # 0 /\ m \in 1..n /\ m - 1 \in 0..n
    BY DEF Follows
  <1>3. m - 1 \notin T
    BY <1>1, <1>2
  <1> QED BY <1>1, <1>2, <1>3 DEF Follows

\* A rule has a function that follows it everywhere.
LEMMA RuleHasFunction ==
  ASSUME NEW S, NEW z \in S, NEW h \in [Nat -> [S -> S]]
  PROVE  \E f \in [Nat -> S] : \A n \in Nat : Follows(f, z, h, n)
  <1> DEFINE T == {n \in Nat : ~ \E g \in [0..n -> S] : Follows(g, z, h, n)}
  <1>1. T = {}
    <2> SUFFICES ASSUME T # {} PROVE FALSE
      OBVIOUS
    <2>1. PICK m \in T : \A i \in T : m <= i
      BY LeastMember
    <2>2. CASE m = 0
      <3>1. [i \in 0..0 |-> z] \in [0..0 -> S] /\ Follows([i \in 0..0 |-> z], z, h, 0)
        BY DEF Follows
      <3> QED BY <2>2, <3>1
    <2>3. CASE m # 0
      <3>1. m - 1 \in Nat /\ m - 1 \notin T
        BY <2>1, <2>3
      <3>2. PICK g \in [0..(m - 1) -> S] : Follows(g, z, h, m - 1)
        BY <3>1
      <3>3. PICK e : e = [i \in 0..m |-> IF i = m THEN h[m][g[m - 1]] ELSE g[i]]
        OBVIOUS
      <3>4. h[m] \in [S -> S] /\ g[m - 1] \in S
        BY <3>1, <3>2
      <3>5. e \in [0..m -> S]
        BY <3>2, <3>3, <3>4
      <3>6. e[0] = z
        BY <2>3, <3>1, <3>2, <3>3 DEF Follows
      <3>7. \A i \in 1..m : e[i] = h[i][e[i - 1]]
        <4> SUFFICES ASSUME NEW i \in 1..m PROVE e[i] = h[i][e[i - 1]]
          OBVIOUS
        <4>1. e[i - 1] = g[i - 1]
          BY <3>1, <3>3
        <4>2. CASE i = m
          BY <3>3, <4>1, <4>2
        <4>3. CASE i # m
          BY <3>1, <3>2, <3>3, <4>1, <4>3 DEF Follows
        <4> QED BY <4>2, <4>3
      <3> QED BY <3>5, <3>6, <3>7 DEF Follows
    <2> QED BY <2>2, <2>3
  <1> DEFINE G(n) == CHOOSE g \in [0..n -> S] : Follows(g, z, h, n)
  <1>2. ASSUME NEW n \in Nat PROVE G(n) \in [0..n -> S] /\ Follows(G(n), z, h, n)
    <2>1. \E g \in [0..n -> S] : Follows(g, z, h, n)
      BY <1>1
    <2> QED BY <2>1
  <1> HIDE DEF T, G
  <1>3. PICK f : f = [n \in Nat |-> G(n)[n]]
    OBVIOUS
  <1>4. f \in [Nat -> S]
    BY <1>2, <1>3
  <1>5. f[0] = z
    BY <1>2, <1>3 DEF Follows
  <1>6. ASSUME NEW i \in Nat, i # 0 PROVE f[i] = h[i][f[i - 1]]
    <2>1. i - 1 \in Nat /\ i - 1 \in 0..(i - 1) /\ i \in 1..i
      BY <1>6
    <2>2. Follows(G(i), z, h, i) /\ Follows(G(i - 1), z, h, i - 1)
      BY <1>2, <2>1
    <2>3. Follows(G(i), z, h, i - 1)
      BY <2>1, <2>2 DEF Follows
    <2>4. G(i)[i - 1] = G(i - 1)[i - 1]
      BY <2>1, <2>2, <2>3, RuleIsUnique
    <2>5. G(i)[i] = h[i][G(i)[i - 1]]
      BY <2>1, <2>2 DEF Follows
    <2> QED BY <1>3, <2>1, <2>4, <2>5
  <1> QED BY <1>4, <1>5, <1>6 DEF Follows

\* Powers of two are what their definition says.
LEMMA PowersOfTwo ==
  /\ Pow2 \in [Nat -> Nat]
  /\ Pow2[0] = 1
  /\ \A n \in Nat \ {0} : Pow2[n] = 2 * Pow2[n - 1]
  <1> DEFINE h == [n \in Nat |-> [x \in Nat |-> 2 * x]]
             F(f) == [n \in Nat |-> IF n = 0 THEN 1 ELSE 2 * f[n - 1]]
  <1>1. h \in [Nat -> [Nat -> Nat]]
    OBVIOUS
  <1>2. PICK f \in [Nat -> Nat] : \A n \in Nat : Follows(f, 1, h, n)
    <2> HIDE DEF h
    <2> QED BY <1>1, RuleHasFunction
  <1>3. f = F(f)
    <2>1. ASSUME NEW n \in Nat PROVE f[n] = F(f)[n]
      <3>0. n # 0 => n \in 1..n /\ n - 1 \in Nat
        OBVIOUS
      <3>1. Follows(f, 1, h, n) /\ (n # 0 => n \in 1..n /\ f[n - 1] \in Nat)
        <4> HIDE DEF h
        <4> QED BY <3>0, <1>2
      <3>2. CASE n = 0
        BY <3>1, <3>2 DEF Follows
      <3>3. CASE n # 0
        <4>1. f[n] = h[n][f[n - 1]]
          BY <3>1, <3>3 DEF Follows
        <4> QED BY <3>1, <3>3, <4>1
      <3> QED BY <3>2, <3>3
    <2> QED BY <2>1
  <1>4. Pow2 = F(Pow2)
    BY <1>3 DEF Pow2
  <1>5. \A n \in Nat : Pow2[n] = f[n]
    <2> DEFINE T == {n \in Nat : Pow2[n] # f[n]}
    <2> SUFFICES ASSUME T # {} PROVE FALSE
      OBVIOUS
    <2>1. PICK m \in T : \A i \in T : m <= i
      BY LeastMember
    <2>2. Pow2[m] = IF m = 0 THEN 1 ELSE 2 * Pow2[m - 1]
      BY <1>4
    <2>3. f[m] = IF m = 0 THEN 1 ELSE 2 * f[m - 1]
      BY <1>3
    <2>4. m # 0 => m - 1 \in Nat /\ m - 1 \notin T
      BY <2>1
    <2> QED BY <2>2, <2>3, <2>4
  <1>6. Pow2 = f
    BY <1>2, <1>4, <1>5
  <1> QED BY <1>2, <1>3, <1>6

\* A pause is a time.
LEMMA PauseTypes ==
  ASSUME NEW n \in Nat \ {0}
  PROVE  backoff_for_attempt(n) \in Nat
  <1>1. Pow2[n - 1] \in Nat
    BY PowersOfTwo
  <1>2. BackoffBase * Pow2[n - 1] \in Nat
    BY <1>1, DependencyAssumption
  <1> QED BY <1>2, DependencyAssumption DEF backoff_for_attempt

\* So are the pauses of a call together.
LEMMA PausesAddUp ==
  /\ Pauses \in [Nat -> Nat]
  /\ Pauses[0] = 0
  /\ \A n \in Nat \ {0} : Pauses[n] = Pauses[n - 1] + backoff_for_attempt(n)
  <1> DEFINE h == [n \in Nat |-> [x \in Nat |-> IF n = 0 THEN x ELSE x + backoff_for_attempt(n)]]
             F(f) == [n \in Nat |-> IF n = 0 THEN 0 ELSE f[n - 1] + backoff_for_attempt(n)]
  <1>1. h \in [Nat -> [Nat -> Nat]]
    <2> SUFFICES ASSUME NEW n \in Nat, NEW x \in Nat
                 PROVE  (IF n = 0 THEN x ELSE x + backoff_for_attempt(n)) \in Nat
      OBVIOUS
    <2> QED BY PauseTypes
  <1>2. PICK f \in [Nat -> Nat] : \A n \in Nat : Follows(f, 0, h, n)
    <2> HIDE DEF h
    <2> QED BY <1>1, RuleHasFunction
  <1>3. f = F(f)
    <2>1. ASSUME NEW n \in Nat PROVE f[n] = F(f)[n]
      <3>1. Follows(f, 0, h, n) /\ (n # 0 => n \in 1..n /\ f[n - 1] \in Nat)
        BY <1>2
      <3> QED BY <3>1 DEF Follows
    <2> QED BY <2>1
  <1>4. Pauses = F(Pauses)
    BY <1>3 DEF Pauses
  <1>5. \A n \in Nat : Pauses[n] = f[n]
    <2> DEFINE T == {n \in Nat : Pauses[n] # f[n]}
    <2> SUFFICES ASSUME T # {} PROVE FALSE
      OBVIOUS
    <2>1. PICK m \in T : \A i \in T : m <= i
      BY LeastMember
    <2>2. Pauses[m] = IF m = 0 THEN 0 ELSE Pauses[m - 1] + backoff_for_attempt(m)
      BY <1>4
    <2>3. f[m] = IF m = 0 THEN 0 ELSE f[m - 1] + backoff_for_attempt(m)
      BY <1>3
    <2>4. m # 0 => m - 1 \in Nat /\ m - 1 \notin T
      BY <2>1
    <2> QED BY <2>2, <2>3, <2>4
  <1>6. Pauses = f
    BY <1>2, <1>4, <1>5
  <1> QED BY <1>2, <1>3, <1>6

\* More attempts pause no less.
LEMMA PausesGrow ==
  ASSUME NEW m \in Nat, NEW n \in Nat, m <= n
  PROVE  Pauses[m] <= Pauses[n]
  <1> DEFINE T == {i \in Nat : m <= i /\ ~(Pauses[m] <= Pauses[i])}
  <1> SUFFICES ASSUME T # {} PROVE FALSE
    OBVIOUS
  <1>1. PICK k \in T : \A i \in T : k <= i
    BY LeastMember
  <1>2. \A i \in Nat : Pauses[i] \in Nat
    BY PausesAddUp
  <1>3. k # m
    BY <1>2
  <1>4. k - 1 \in Nat /\ k # 0 /\ m <= k - 1 /\ k - 1 \notin T
    BY <1>1, <1>3
  <1>5. Pauses[k] = Pauses[k - 1] + backoff_for_attempt(k) /\ backoff_for_attempt(k) \in Nat
    BY <1>4, PausesAddUp, PauseTypes
  <1>6. Pauses[m] <= Pauses[k - 1]
    BY <1>4
  <1> QED BY <1>2, <1>4, <1>5, <1>6
-----------------------------------------------------------------------------
(* Calls.                                                                  *)

Under == {"sent", "replied", "ok", "error"}

\* How long a call has taken, by its attempts and pauses so far.
GoodCall(s, c) ==
  /\ c \in CallState
  /\ c.attempt <= c.retries
  /\ c.pc = "none" => c.elapsed = 0
  /\ c.pc = "sleep" =>
       /\ c.attempt # 0
       /\ c.timer <= backoff_for_attempt(c.attempt)
       /\ c.elapsed <= c.attempt * Timeout[s] + Pauses[c.attempt - 1] + c.timer
  /\ c.pc \in Under =>
       /\ c.timer <= Timeout[s]
       /\ c.elapsed <= c.attempt * Timeout[s] + Pauses[c.attempt] + c.timer

CallsInv ==
  /\ call \in [Task -> [Service -> CallState]]
  /\ \A t \in Task, s \in Service : GoodCall(s, call[t][s])

\* The fields of a call are numbers.
LEMMA CallTypes ==
  ASSUME NEW c \in CallState
  PROVE  /\ c.pc \in {"none", "sleep"} \cup Under
         /\ c.retries \in 0..MaxRetries /\ c.retries \in Nat /\ c.attempt \in Nat
         /\ c.timer \in Nat /\ c.elapsed \in Nat /\ c.reply \in {"ok", "bad"}
  BY DependencyAssumption DEF CallState, Under

\* Products of naturals.
LEMMA Products ==
  ASSUME NEW a \in Nat, NEW b \in Nat, NEW x \in Nat
  PROVE  /\ a * x \in Nat
         /\ (a + 1) * x = a * x + x
         /\ a <= b => a * x <= b * x
  OBVIOUS

\* Every service has a timeout.
LEMMA Timeouts ==
  ASSUME NEW s \in Service
  PROVE  Timeout[s] \in Nat \ {0}
  BY DependencyAssumption

\* A good call is within its bound.
LEMMA GoodIsBounded ==
  ASSUME NEW s \in Service, NEW c, GoodCall(s, c)
  PROVE  c.elapsed <= CallBound(s, c.retries)
  <1> DEFINE a == c.attempt
             r == c.retries
             T == Timeout[s]
  <1>1. /\ a \in Nat /\ r \in Nat /\ a <= r /\ c.timer \in Nat /\ c.elapsed \in Nat
        /\ c.pc \in {"none", "sleep"} \cup Under /\ T \in Nat
    BY CallTypes, Timeouts DEF GoodCall
  <1>2. /\ a * T \in Nat /\ r * T \in Nat /\ a * T <= r * T
        /\ (r + 1) * T = r * T + T
    BY <1>1, Products
  <1>3. Pauses[a] \in Nat /\ Pauses[r] \in Nat /\ Pauses[a] <= Pauses[r]
    BY <1>1, PausesAddUp, PausesGrow
  <1>4. CASE c.pc = "none"
    BY <1>1, <1>2, <1>3, <1>4 DEF GoodCall, CallBound
  <1>5. CASE c.pc = "sleep"
    <2>1. /\ a # 0 /\ c.timer <= backoff_for_attempt(a)
          /\ c.elapsed <= a * T + Pauses[a - 1] + c.timer
      BY <1>5 DEF GoodCall
    <2>2. Pauses[a] = Pauses[a - 1] + backoff_for_attempt(a) /\ Pauses[a - 1] \in Nat
          /\ backoff_for_attempt(a) \in Nat
      BY <1>1, <2>1, PausesAddUp, PauseTypes
    <2> HIDE DEF a, r, T
    <2>3. c.elapsed <= a * T + Pauses[a]
      BY <1>1, <1>2, <2>1, <2>2
    <2>4. c.elapsed <= (r + 1) * T + Pauses[r]
      BY <1>1, <1>2, <1>3, <2>3
    <2> QED BY <2>4 DEF CallBound, a, r, T
  <1>6. CASE c.pc \in Under
    <2>1. c.timer <= T /\ c.elapsed <= a * T + Pauses[a] + c.timer
      BY <1>6 DEF GoodCall
    <2> HIDE DEF a, r, T
    <2>2. c.elapsed <= (r + 1) * T + Pauses[r]
      BY <1>1, <1>2, <1>3, <2>1
    <2> QED BY <2>2 DEF CallBound, a, r, T
  <1> QED BY <1>1, <1>4, <1>5, <1>6

\* No call, and the start of one.
LEMMA NewCalls ==
  ASSUME NEW s \in Service, NEW r \in 0..MaxRetries, NEW p \in {"sent", "error"}
  PROVE  GoodCall(s, NoCall) /\ GoodCall(s, [NoCall EXCEPT !.pc = p, !.retries = r])
  <1>1. 0 * Timeout[s] \in Nat /\ Timeout[s] \in Nat /\ Pauses[0] = 0
    BY Products, Timeouts, PausesAddUp
  <1>2. 0 * Timeout[s] + Pauses[0] + 0 \in Nat
    BY <1>1
  <1>3. /\ NoCall \in CallState /\ NoCall.pc = "none" /\ NoCall.attempt = 0
        /\ NoCall.retries = 0 /\ NoCall.elapsed = 0 /\ NoCall.timer = 0
    BY DependencyAssumption DEF NoCall, CallState
  <1>4. GoodCall(s, NoCall)
    BY <1>3 DEF GoodCall, Under
  <1>5. PICK d : d = [NoCall EXCEPT !.pc = p, !.retries = r]
    OBVIOUS
  <1>6. /\ d \in CallState /\ d.pc = p /\ d.attempt = 0
        /\ d.retries = r /\ d.elapsed = 0 /\ d.timer = 0
    BY <1>3, <1>5 DEF CallState
  <1>7. GoodCall(s, d)
    <2>1. d.attempt <= d.retries /\ d.timer <= Timeout[s] /\ d.pc # "none" /\ d.pc # "sleep"
      BY <1>1, <1>6, DependencyAssumption
    <2>2. d.elapsed <= d.attempt * Timeout[s] + Pauses[d.attempt] + d.timer
      BY <1>2, <1>6
    <2> QED BY <1>6, <2>1, <2>2 DEF GoodCall
  <1> QED BY <1>4, <1>5, <1>7

\* An attempt has failed.
LEMMA RetriedIsGood ==
  ASSUME NEW s \in Service, NEW c, GoodCall(s, c), c.pc \in {"sent", "replied"}
  PROVE  GoodCall(s, Retried(c))
  <1>1. /\ c \in CallState /\ c.pc \in Under /\ c.attempt \in Nat /\ c.retries \in 0..MaxRetries
        /\ c.timer \in Nat /\ c.elapsed \in Nat /\ c.attempt <= c.retries /\ c.retries \in Nat
        /\ c.timer <= Timeout[s] /\ Timeout[s] \in Nat
        /\ c.elapsed <= c.attempt * Timeout[s] + Pauses[c.attempt] + c.timer
    BY CallTypes, Timeouts DEF GoodCall, Under
  <1>2. CASE c.attempt < c.retries
    <2>0. PICK n \in Nat : n = c.attempt + 1
      BY <1>1
    <2>1. PICK d : d = [c EXCEPT !.pc = "sleep", !.attempt = n, !.timer = 0, !.reply = "bad"]
      OBVIOUS
    <2>2. /\ d \in CallState /\ d.pc = "sleep" /\ d.attempt = n /\ d.timer = 0
          /\ d.retries = c.retries /\ d.elapsed = c.elapsed
      BY <1>1, <2>1 DEF CallState
    <2>3. /\ c.attempt * Timeout[s] \in Nat /\ Pauses[c.attempt] \in Nat
          /\ (c.attempt + 1) * Timeout[s] = c.attempt * Timeout[s] + Timeout[s]
      BY <1>1, Products, PausesAddUp
    <2>4. /\ d.attempt <= d.retries /\ d.attempt # 0 /\ d.attempt - 1 = c.attempt
          /\ backoff_for_attempt(d.attempt) \in Nat /\ 0 <= backoff_for_attempt(d.attempt)
      BY <1>1, <1>2, <2>0, <2>2, PauseTypes
    <2>5. d.elapsed <= (c.attempt + 1) * Timeout[s] + Pauses[c.attempt] + 0
      BY <1>1, <2>2, <2>3
    <2>6. GoodCall(s, d)
      BY <2>0, <2>2, <2>4, <2>5 DEF GoodCall, Under
    <2>7. Retried(c) = d
      BY <1>2, <2>0, <2>1 DEF Retried
    <2> QED BY <2>6, <2>7
  <1>3. CASE ~(c.attempt < c.retries)
    <2>1. PICK d : d = [c EXCEPT !.pc = "error"]
      OBVIOUS
    <2>2. /\ d \in CallState /\ d.pc = "error" /\ d.attempt = c.attempt /\ d.timer = c.timer
          /\ d.retries = c.retries /\ d.elapsed = c.elapsed
      BY <1>1, <2>1 DEF CallState
    <2>3. GoodCall(s, d)
      BY <1>1, <2>2 DEF GoodCall, Under
    <2> QED BY <1>3, <2>1, <2>3 DEF Retried
  <1> QED BY <1>2, <1>3

\* A reply, and a result.
LEMMA MovedIsGood ==
  ASSUME NEW s \in Service, NEW c, GoodCall(s, c), c.pc \in {"sent", "replied"},
         NEW d \in CallState, d.pc \in Under, d.attempt = c.attempt, d.retries = c.retries,
         d.timer = c.timer, d.elapsed = c.elapsed
  PROVE  GoodCall(s, d)
  BY DEF GoodCall, Under

\* The pause is over.
LEMMA WokenIsGood ==
  ASSUME NEW s \in Service, NEW c, GoodCall(s, c), c.pc = "sleep",
         c.timer = backoff_for_attempt(c.attempt)
  PROVE  GoodCall(s, [c EXCEPT !.pc = "sent", !.timer = 0])
  <1>1. PICK d : d = [c EXCEPT !.pc = "sent", !.timer = 0]
    OBVIOUS
  <1>2. /\ c \in CallState /\ c.attempt \in Nat /\ c.attempt <= c.retries /\ c.elapsed \in Nat
        /\ Timeout[s] \in Nat /\ c.attempt # 0
        /\ c.elapsed <= c.attempt * Timeout[s] + Pauses[c.attempt - 1] + c.timer
    BY CallTypes, Timeouts DEF GoodCall
  <1>3. /\ d \in CallState /\ d.pc = "sent" /\ d.attempt = c.attempt /\ d.timer = 0
        /\ d.retries = c.retries /\ d.elapsed = c.elapsed
    BY <1>1, <1>2 DEF CallState
  <1>4. /\ Pauses[c.attempt] = Pauses[c.attempt - 1] + backoff_for_attempt(c.attempt)
        /\ Pauses[c.attempt - 1] \in Nat /\ backoff_for_attempt(c.attempt) \in Nat
        /\ c.attempt * Timeout[s] \in Nat
    BY <1>2, PausesAddUp, PauseTypes, Products
  <1>5. d.elapsed <= c.attempt * Timeout[s] + Pauses[c.attempt] + 0
    BY <1>2, <1>3, <1>4
  <1>6. GoodCall(s, d)
    BY <1>2, <1>3, <1>5 DEF GoodCall, Under
  <1> QED BY <1>1, <1>6

\* A tick before the timer is due.
LEMMA TickedIsGood ==
  ASSUME NEW s \in Service, NEW c, GoodCall(s, c), Running(c), c.timer < Limit(s, c)
  PROVE  GoodCall(s, [c EXCEPT !.timer = @ + 1, !.elapsed = @ + 1])
  <1>2. /\ c \in CallState /\ c.attempt \in Nat /\ c.timer \in Nat /\ c.elapsed \in Nat
        /\ Timeout[s] \in Nat /\ c.pc \in {"sleep"} \cup Under
    BY CallTypes, Timeouts DEF GoodCall, Running
  <1>0. PICK m \in Nat, n \in Nat : m = c.timer + 1 /\ n = c.elapsed + 1
    BY <1>2
  <1>1. PICK d : d = [c EXCEPT !.timer = m, !.elapsed = n]
    OBVIOUS
  <1>3. /\ d \in CallState /\ d.pc = c.pc /\ d.attempt = c.attempt /\ d.timer = m
        /\ d.retries = c.retries /\ d.elapsed = n
    BY <1>1, <1>2 DEF CallState
  <1>4. ASSUME c.pc = "sleep" PROVE GoodCall(s, d)
    <2>1. /\ c.attempt # 0 /\ c.timer < backoff_for_attempt(c.attempt)
          /\ c.elapsed <= c.attempt * Timeout[s] + Pauses[c.attempt - 1] + c.timer
      BY <1>4 DEF GoodCall, Limit
    <2>2. /\ c.attempt * Timeout[s] \in Nat /\ Pauses[c.attempt - 1] \in Nat
          /\ backoff_for_attempt(c.attempt) \in Nat
      BY <1>2, <2>1, Products, PausesAddUp, PauseTypes
    <2>3. /\ d.timer <= backoff_for_attempt(c.attempt)
          /\ d.elapsed <= c.attempt * Timeout[s] + Pauses[c.attempt - 1] + d.timer
      BY <1>0, <1>2, <1>3, <2>1, <2>2
    <2> QED BY <1>3, <1>4, <2>1, <2>3 DEF GoodCall, Under
  <1>5. ASSUME c.pc \in Under PROVE GoodCall(s, d)
    <2>1. /\ c.timer < Timeout[s]
          /\ c.elapsed <= c.attempt * Timeout[s] + Pauses[c.attempt] + c.timer
      BY <1>5 DEF GoodCall, Limit, Under
    <2>2. c.attempt * Timeout[s] \in Nat /\ Pauses[c.attempt] \in Nat
      BY <1>2, Products, PausesAddUp
    <2>3. /\ d.timer <= Timeout[s]
          /\ d.elapsed <= c.attempt * Timeout[s] + Pauses[c.attempt] + d.timer
      BY <1>0, <1>2, <1>3, <2>1, <2>2
    <2> QED BY <1>3, <1>5, <2>1, <2>3 DEF GoodCall, Under
  <1>6. GoodCall(s, d)
    BY <1>2, <1>4, <1>5
  <1> QED BY <1>0, <1>1, <1>6
-----------------------------------------------------------------------------
(* Queues.                                                                 *)

\* Elements, heads and places.
LEMMA RangeOf ==
  ASSUME NEW q \in Seq(Task)
  PROVE  /\ Range(q) = {q[i] : i \in 1..Len(q)} /\ Len(q) \in Nat /\ DOMAIN q = 1..Len(q)
         /\ \A i \in 1..Len(q) : q[i] \in Task
         /\ q # <<>> => Len(q) # 0 /\ Head(q) = q[1]
         /\ q = <<>> <=> Len(q) = 0
  BY LenProperties, ElementOfSeq, HeadTailProperties, EmptySeq DEF Range

\* Joining a queue at its end.
LEMMA Joining ==
  ASSUME NEW q \in Seq(Task), IsInjective(q), NEW t \in Task, t \notin Range(q)
  PROVE  /\ Append(q, t) \in Seq(Task) /\ IsInjective(Append(q, t))
         /\ Range(Append(q, t)) = Range(q) \cup {t}
         /\ Append(q, t) # <<>>
         /\ Head(Append(q, t)) = IF q = <<>> THEN t ELSE Head(q)
  <1> DEFINE p == Append(q, t)
             n == Len(q)
  <1>1. /\ p \in Seq(Task) /\ p # <<>> /\ Len(p) = n + 1 /\ n \in Nat
        /\ \A i \in 1..n : p[i] = q[i]
        /\ p[n + 1] = t
    BY AppendProperties
  <1>2. \A i \in 1..n : q[i] # t
    BY RangeOf
  <1>3. DOMAIN p = 1..(n + 1) /\ Range(p) = {p[i] : i \in 1..(n + 1)}
    BY <1>1, RangeOf
  <1>4. \A i, j \in 1..n : q[i] = q[j] => i = j
    BY RangeOf DEF IsInjective
  <1> HIDE DEF p, n
  <1>5. IsInjective(p)
    <2> SUFFICES ASSUME NEW i \in 1..(n + 1), NEW j \in 1..(n + 1), p[i] = p[j] PROVE i = j
      BY <1>3 DEF IsInjective
    <2>1. (i \in 1..n \/ i = n + 1) /\ (j \in 1..n \/ j = n + 1)
      BY <1>1
    <2> QED BY <1>1, <1>2, <1>4, <2>1
  <1>6. Range(p) = Range(q) \cup {t}
    <2>1. Range(q) = {q[i] : i \in 1..n}
      BY RangeOf DEF n
    <2>2. 1..(n + 1) = 1..n \cup {n + 1}
      BY <1>1
    <2> QED BY <1>1, <1>3, <2>1, <2>2
  <1>7. Head(p) = p[1]
    BY <1>1, RangeOf
  <1>8. Head(p) = IF q = <<>> THEN t ELSE Head(q)
    BY <1>1, <1>7, RangeOf DEF n
  <1> QED BY <1>1, <1>5, <1>6, <1>8 DEF p

\* Leaving a queue from any place.
LEMMA Leaving ==
  ASSUME NEW q \in Seq(Task), IsInjective(q), NEW t \in Task
  PROVE  /\ Without(q, t) \in Seq(Task) /\ IsInjective(Without(q, t))
         /\ Range(Without(q, t)) = Range(q) \ {t}
         /\ q # <<>> /\ Head(q) # t => Without(q, t) # <<>> /\ Head(Without(q, t)) = Head(q)
  <1>1. CASE t \notin Range(q)
    BY <1>1 DEF Without
  <1>2. CASE t \in Range(q)
    <2> DEFINE n == Len(q)
    <2>1. n \in Nat /\ DOMAIN q = 1..n /\ \A i \in 1..n : q[i] \in Task
      BY RangeOf
    <2>2. PICK k \in 1..n : k = (CHOOSE i \in DOMAIN q : q[i] = t) /\ q[k] = t
      <3>1. \E i \in DOMAIN q : q[i] = t
        BY <1>2 DEF Range
      <3> QED BY <2>1, <3>1
    <2>3. Without(q, t) = RemoveAt(q, k)
      BY <1>2, <2>2 DEF Without
    <2> HIDE DEF n
    <2> DEFINE a == SubSeq(q, 1, k - 1)
               b == SubSeq(q, k + 1, n)
               p == a \o b
    <2>4. /\ a \in Seq(Task) /\ Len(a) = k - 1
          /\ \A i \in 1..(k - 1) : a[i] = q[i]
      BY <2>1, SubSeqProperties
    <2>5. /\ b \in Seq(Task) /\ Len(b) = n - k
          /\ \A i \in 1..(n - k) : b[i] = q[k + i]
      <3>1. \A i \in (k + 1)..n : q[i] \in Task
        BY <2>1
      <3>2. /\ b \in Seq(Task) /\ Len(b) = IF k + 1 <= n THEN n - (k + 1) + 1 ELSE 0
            /\ \A i \in 1..(n - (k + 1) + 1) : b[i] = q[(k + 1) + i - 1]
        BY <2>1, <3>1, SubSeqProperties
      <3> HIDE DEF b
      <3> QED BY <2>1, <3>2
    <2> HIDE DEF a, b
    <2>6. /\ p \in Seq(Task) /\ Len(p) = n - 1
          /\ \A i \in 1..(n - 1) : p[i] = IF i <= k - 1 THEN a[i] ELSE b[i - (k - 1)]
      <3>1. /\ p \in Seq(Task) /\ Len(p) = Len(a) + Len(b)
            /\ \A i \in 1..(Len(a) + Len(b)) :
                 p[i] = IF i <= Len(a) THEN a[i] ELSE b[i - Len(a)]
        BY <2>4, <2>5, ConcatProperties
      <3>2. Len(a) + Len(b) = n - 1
        BY <2>1, <2>4, <2>5
      <3> HIDE DEF p
      <3> QED BY <2>4, <3>1, <3>2
    <2> HIDE DEF p
    <2>7. \A i \in 1..(n - 1) : p[i] = IF i < k THEN q[i] ELSE q[i + 1]
      BY <2>1, <2>4, <2>5, <2>6
    <2>8. Without(q, t) = p
      BY <2>3 DEF RemoveAt, p, a, b, n
    <2>9. \A i, j \in 1..n : q[i] = q[j] => i = j
      BY <2>1 DEF IsInjective
    <2>10. DOMAIN p = 1..(n - 1) /\ Range(p) = {p[i] : i \in 1..(n - 1)}
      BY <2>6, RangeOf
    <2>11. IsInjective(p)
      BY <2>1, <2>7, <2>9, <2>10 DEF IsInjective
    <2>12. Range(p) = Range(q) \ {t}
      <3>1. Range(q) = {q[i] : i \in 1..n}
        BY RangeOf DEF n
      <3>2. ASSUME NEW i \in 1..(n - 1) PROVE p[i] \in Range(q) /\ p[i] # t
        <4>1. PICK j \in 1..n : j # k /\ p[i] = q[j]
          <5>1. CASE i < k
            BY <2>1, <2>7, <5>1
          <5>2. CASE ~(i < k)
            <6>1. i + 1 \in 1..n /\ i + 1 # k /\ p[i] = q[i + 1]
              BY <2>1, <2>7, <5>2
            <6> QED BY <6>1
          <5> QED BY <5>1, <5>2
        <4> QED BY <2>2, <2>9, <3>1, <4>1
      <3>3. ASSUME NEW i \in 1..n, q[i] # t PROVE \E j \in 1..(n - 1) : p[j] = q[i]
        <4>1. CASE i < k
          <5>1. i \in 1..(n - 1) /\ p[i] = q[i]
            BY <2>1, <2>7, <4>1
          <5> QED BY <5>1
        <4>2. CASE ~(i < k)
          <5>1. i # k /\ i - 1 \in 1..(n - 1) /\ ~(i - 1 < k) /\ (i - 1) + 1 = i
            BY <2>1, <2>2, <3>3, <4>2
          <5>2. p[i - 1] = q[i]
            BY <2>7, <5>1
          <5> QED BY <5>1, <5>2
        <4> QED BY <4>1, <4>2
      <3> QED BY <2>10, <3>1, <3>2, <3>3
    <2>13. ASSUME q # <<>>, Head(q) # t PROVE p # <<>> /\ Head(p) = Head(q)
      <3>0. Head(q) = q[1] /\ k # 1
        BY <2>2, <2>13, RangeOf
      <3>1. Head(q) = q[1] /\ k # 1 /\ n - 1 # 0 /\ n # 0
        BY <2>1, <2>2, <3>0
      <3>2. p # <<>> /\ Head(p) = p[1]
        BY <2>6, <3>1, RangeOf
      <3>3. 1 \in 1..(n - 1) /\ 1 < k
        BY <2>1, <2>2, <3>1
      <3>4. p[1] = q[1]
        BY <2>7, <3>3
      <3> QED BY <3>1, <3>2, <3>4
    <2> QED BY <2>6, <2>8, <2>11, <2>12, <2>13
  <1> QED BY <1>1, <1>2
-----------------------------------------------------------------------------
(* The invariant.                                                          *)

Types ==
  /\ server \in [Service -> Status]
  /\ cache \in [Service -> CacheEntry]
  /\ job \in [Task -> [Service -> Jobs]]
  /\ okAgo \in [Service -> Nat] /\ \A s \in Service : okAgo[s] <= LongAgo(s)
  /\ queue \in [Service -> Seq(Task)]

InQueue == {"read", "write", "probe"}
Waiting(s) == {t \in Task : job[t][s] \in InQueue}

\* The prober has the lock.
QueueInv(s) ==
  /\ IsInjective(queue[s])
  /\ Range(queue[s]) = Waiting(s)
  /\ \A t \in Task : job[t][s] = "probe" => Has(t, s)

StaleInv(s) == (\E t \in Task : job[t][s] = "probe") => ~health_cache_fresh(s)

\* An answer that says ok, on its way or delivered.
SaysOk(c) == (c.pc = "replied" /\ c.reply = "ok") \/ c.pc = "ok"

\* The service was well when it gave the answer, which has travelled for no
\* longer than the timer shows; then the cache entry ages.
OkInv(s) ==
  /\ server[s] = "ok" => okAgo[s] = 0
  /\ \A t \in Task : SaysOk(call[t][s]) => okAgo[s] <= call[t][s].timer
  /\ cache[s].val = "ok" /\ cache[s].age < OkTTL => okAgo[s] <= Timeout[s] + cache[s].age

HealthInv ==
  Types /\ CallsInv /\ \A s \in Service : QueueInv(s) /\ StaleInv(s) /\ OkInv(s)

\* Initially no request is under way and no cache is filled.
LEMMA HealthInit == Init => HealthInv
  <1> SUFFICES ASSUME Init PROVE HealthInv
    OBVIOUS
  <1>1. \A s \in Service : LongAgo(s) \in Nat
    BY Timeouts, HealthAssumption DEF LongAgo
  <1>2. CallsInv
    <2>1. \A s \in Service : GoodCall(s, NoCall)
      <3>1. 0 \in 0..MaxRetries
        BY DependencyAssumption
      <3> QED BY <3>1, NewCalls
    <2>2. call = [t \in Task |-> [s \in Service |-> NoCall]]
      BY DEF Init, InitCalls
    <2>3. NoCall \in CallState
      BY DependencyAssumption DEF NoCall, CallState
    <2> QED BY <2>1, <2>2, <2>3 DEF CallsInv
  <1>3. Types
    <2>1. server \in [Service -> Status]
      BY DEF Init, InitCalls
    <2>2. cache \in [Service -> CacheEntry]
      BY HealthAssumption DEF Init, CacheEntry
    <2>3. job \in [Task -> [Service -> Jobs]]
      BY DEF Init, NoJobs, Jobs
    <2>4. okAgo \in [Service -> Nat] /\ \A s \in Service : okAgo[s] <= LongAgo(s)
      BY <1>1 DEF Init
    <2>5. queue \in [Service -> Seq(Task)]
      BY EmptySeq DEF Init
    <2> QED BY <2>1, <2>2, <2>3, <2>4, <2>5 DEF Types
  <1>4. ASSUME NEW s \in Service PROVE QueueInv(s) /\ StaleInv(s) /\ OkInv(s)
    <2>1. \A t \in Task : job[t][s] = "none" /\ call[t][s] = NoCall
      BY DEF Init, InitCalls, NoJobs
    <2>2. queue[s] = <<>> /\ cache[s].val = "none" /\ (server[s] = "ok" => okAgo[s] = 0)
      BY DEF Init
    <2>3. IsInjective(queue[s]) /\ Range(queue[s]) = {}
      BY <2>2, EmptySeq, RangeOf DEF IsInjective, Range
    <2> QED BY <2>1, <2>2, <2>3
        DEF QueueInv, StaleInv, OkInv, Waiting, InQueue, SaysOk, NoCall
  <1> QED BY <1>2, <1>3, <1>4 DEF HealthInv
-----------------------------------------------------------------------------
(* What the steps of one task on one service do.                           *)

\* A task's job about a service.
LEMMA JobTypes ==
  ASSUME Types, NEW t \in Task, NEW s \in Service
  PROVE  job[t][s] \in Jobs
  BY DEF Types

\* One job is set.
LEMMA JobSet ==
  ASSUME Types, NEW t \in Task, NEW s \in Service, NEW j \in Jobs, SetJob(t, s, j)
  PROVE  /\ job' \in [Task -> [Service -> Jobs]]
         /\ job'[t][s] = j
         /\ \A r \in Task, x \in Service : r # t \/ x # s => job'[r][x] = job[r][x]
  BY DEF Types, SetJob

\* One call is set to a good one.
LEMMA CallSet ==
  ASSUME CallsInv, NEW t \in Task, NEW s \in Service, NEW c, SetCall(t, s, c), GoodCall(s, c)
  PROVE  /\ CallsInv'
         /\ call'[t][s] = c
         /\ \A r \in Task, x \in Service : r # t \/ x # s => call'[r][x] = call[r][x]
  <1>1. c \in CallState
    BY DEF GoodCall
  <1>2. /\ call' \in [Task -> [Service -> CallState]]
        /\ call'[t][s] = c
        /\ \A r \in Task, x \in Service : r # t \/ x # s => call'[r][x] = call[r][x]
    BY <1>1 DEF CallsInv, SetCall
  <1>3. ASSUME NEW r \in Task, NEW x \in Service PROVE GoodCall(x, call'[r][x])
    BY <1>2 DEF CallsInv
  <1>4. CallsInv'
    <2>1. \A r \in Task, x \in Service : GoodCall(x, call[r][x])'
      BY <1>3 DEF GoodCall, CallState, Under, backoff_for_attempt
    <2> QED BY <1>2, <2>1 DEF CallsInv
  <1> QED BY <1>2, <1>4

\* A queue nobody joins or leaves.
LEMMA QueueStays ==
  ASSUME NEW s \in Service, QueueInv(s), queue'[s] = queue[s],
         \A t \in Task : job[t][s] \in InQueue <=> job'[t][s] \in InQueue,
         \A t \in Task : job'[t][s] = "probe" => job[t][s] = "probe" \/ Has(t, s)
  PROVE  QueueInv(s)'
  BY DEF QueueInv, Waiting, Has

\* t joins the queue.
LEMMA QueueGrows ==
  ASSUME Types, NEW s \in Service, QueueInv(s), NEW t \in Task, job[t][s] \notin InQueue,
         queue'[s] = Append(queue[s], t), job'[t][s] = "read",
         \A r \in Task \ {t} : job'[r][s] = job[r][s]
  PROVE  QueueInv(s)'
  <1>1. /\ queue[s] \in Seq(Task) /\ IsInjective(queue[s]) /\ t \notin Range(queue[s])
        /\ Range(queue[s]) = Waiting(s)
    BY DEF Types, QueueInv, Waiting
  <1>2. /\ IsInjective(queue'[s]) /\ Range(queue'[s]) = Range(queue[s]) \cup {t}
        /\ queue'[s] # <<>>
        /\ Head(queue'[s]) = IF queue[s] = <<>> THEN t ELSE Head(queue[s])
    BY <1>1, Joining
  <1>3. Waiting(s)' = Waiting(s) \cup {t}
    BY DEF Waiting, InQueue
  <1>4. ASSUME NEW r \in Task, job'[r][s] = "probe" PROVE Has(r, s)'
    <2>1. job[r][s] = "probe"
      BY <1>4
    <2> QED BY <1>2, <2>1 DEF QueueInv, Has
  <1> QED BY <1>1, <1>2, <1>3, <1>4 DEF QueueInv

\* t leaves the queue, or is not in it.
LEMMA QueueShrinks ==
  ASSUME Types, NEW s \in Service, QueueInv(s), NEW t \in Task,
         queue'[s] = Without(queue[s], t), job'[t][s] \notin InQueue,
         \A r \in Task \ {t} : job'[r][s] = job[r][s]
  PROVE  QueueInv(s)'
  <1>1. queue[s] \in Seq(Task) /\ IsInjective(queue[s]) /\ Range(queue[s]) = Waiting(s)
    BY DEF Types, QueueInv
  <1>2. /\ IsInjective(queue'[s]) /\ Range(queue'[s]) = Range(queue[s]) \ {t}
        /\ queue[s] # <<>> /\ Head(queue[s]) # t =>
             queue'[s] # <<>> /\ Head(queue'[s]) = Head(queue[s])
    BY <1>1, Leaving
  <1>3. Waiting(s)' = Waiting(s) \ {t}
    BY DEF Waiting
  <1>4. ASSUME NEW r \in Task, job'[r][s] = "probe" PROVE Has(r, s)'
    <2>1. r # t /\ job[r][s] = "probe"
      BY <1>4 DEF InQueue
    <2> QED BY <1>2, <2>1 DEF QueueInv, Has
  <1> QED BY <1>1, <1>2, <1>3, <1>4 DEF QueueInv

\* The head goes back to the end, for the write lock.
LEMMA QueueTurns ==
  ASSUME Types, NEW s \in Service, QueueInv(s), NEW t \in Task, Has(t, s),
         job[t][s] = "read", job'[t][s] = "write",
         queue'[s] = Append(Tail(queue[s]), t),
         \A r \in Task \ {t} : job'[r][s] = job[r][s]
  PROVE  QueueInv(s)' /\ queue'[s] \in Seq(Task)
  <1> DEFINE q == queue[s]
             p == Tail(q)
  <1>1. /\ q \in Seq(Task) /\ IsInjective(q) /\ Range(q) = Waiting(s)
        /\ q # <<>> /\ Head(q) = t
    BY DEF Types, QueueInv, Has
  <1>2. /\ p \in Seq(Task) /\ Len(p) = Len(q) - 1 /\ Len(q) \in Nat
        /\ \A i \in 1..Len(p) : p[i] = q[i + 1]
    BY <1>1, HeadTailProperties, LenProperties
  <1>3. /\ DOMAIN p = 1..Len(p) /\ DOMAIN q = 1..Len(q) /\ q[1] = t /\ Len(q) # 0
        /\ Range(p) = {p[i] : i \in 1..Len(p)} /\ Range(q) = {q[i] : i \in 1..Len(q)}
    BY <1>1, <1>2, RangeOf
  <1>4. \A i, j \in 1..Len(q) : q[i] = q[j] => i = j
    BY <1>1, <1>3 DEF IsInjective
  <1> HIDE DEF p, q
  <1>5. IsInjective(p)
    BY <1>2, <1>3, <1>4 DEF IsInjective
  <1>6. Range(p) = Range(q) \ {t}
    <2>1. ASSUME NEW i \in 1..Len(p) PROVE p[i] \in Range(q) /\ p[i] # t
      <3>1. i + 1 \in 1..Len(q) /\ i + 1 # 1 /\ 1 \in 1..Len(q) /\ p[i] = q[i + 1]
        BY <1>2, <1>3
      <3> QED BY <1>3, <1>4, <3>1
    <2>2. ASSUME NEW i \in 1..Len(q), q[i] # t PROVE q[i] \in Range(p)
      <3>1. i # 1
        BY <1>3, <2>2
      <3>2. i - 1 \in 1..Len(p) /\ (i - 1) + 1 = i
        BY <1>2, <3>1
      <3>3. p[i - 1] = q[i]
        BY <1>2, <3>2
      <3> QED BY <1>3, <3>2, <3>3
    <2>3. \A e \in Range(p) : e \in Range(q) \ {t}
      BY <1>3, <2>1
    <2>4. \A e \in Range(q) \ {t} : e \in Range(p)
      <3> SUFFICES ASSUME NEW e \in Range(q), e # t PROVE e \in Range(p)
        OBVIOUS
      <3>1. PICK i \in 1..Len(q) : e = q[i]
        BY <1>3
      <3> QED BY <2>2, <3>1
    <2> QED BY <2>3, <2>4
  <1>7. /\ Append(p, t) \in Seq(Task) /\ IsInjective(Append(p, t))
        /\ Range(Append(p, t)) = Range(p) \cup {t}
    BY <1>2, <1>5, <1>6, Joining
  <1>8. queue'[s] = Append(p, t)
    BY DEF p, q
  <1>9. Waiting(s)' = Waiting(s) /\ t \in Waiting(s)
    BY DEF Waiting, InQueue
  <1>10. Range(Append(p, t)) = Waiting(s)'
    BY <1>1, <1>6, <1>7, <1>9
  <1>11. ASSUME NEW r \in Task, job'[r][s] = "probe" PROVE FALSE
    <2>1. r # t /\ job[r][s] = "probe" /\ Has(r, s)
      BY <1>11 DEF QueueInv
    <2> QED BY <2>1 DEF Has
  <1> QED BY <1>7, <1>8, <1>10, <1>11 DEF QueueInv

\* What a service's jobs, calls, cache and lock did not take part in.
LEMMA Untouched ==
  ASSUME NEW x \in Service, QueueInv(x), StaleInv(x), OkInv(x),
         queue'[x] = queue[x], cache'[x] = cache[x],
         server'[x] = server[x], okAgo'[x] = okAgo[x],
         \A r \in Task : job'[r][x] = job[r][x] /\ call'[r][x] = call[r][x]
  PROVE  QueueInv(x)' /\ StaleInv(x)' /\ OkInv(x)'
  <1>1. QueueInv(x)'
    BY QueueStays
  <1>2. StaleInv(x)'
    BY DEF StaleInv, health_cache_fresh
  <1>3. OkInv(x)'
    BY DEF OkInv, SaysOk
  <1> QED BY <1>1, <1>2, <1>3

\* A new prober has seen that the cache is stale.
LEMMA StaleStays ==
  ASSUME NEW s \in Service, StaleInv(s), cache'[s] = cache[s],
         \A r \in Task : job'[r][s] = "probe" =>
                           job[r][s] = "probe" \/ ~health_cache_fresh(s)
  PROVE  StaleInv(s)'
  BY DEF StaleInv, health_cache_fresh

\* No answer says ok that did not, unless the service is well.
LEMMA OkStays ==
  ASSUME NEW s \in Service, OkInv(s), cache'[s] = cache[s],
         server'[s] = server[s], okAgo'[s] = okAgo[s],
         \A r \in Task : SaysOk(call'[r][s]) => okAgo[s] <= call'[r][s].timer
  PROVE  OkInv(s)'
  BY DEF OkInv, SaysOk

\* The invariant after a step of one task about one service.
LEMMA OneService ==
  ASSUME HealthInv, NEW s \in Service, Types', CallsInv',
         QueueInv(s)', StaleInv(s)', OkInv(s)',
         \A x \in Service \ {s} :
           /\ queue'[x] = queue[x] /\ cache'[x] = cache[x]
           /\ server'[x] = server[x] /\ okAgo'[x] = okAgo[x]
           /\ \A r \in Task : job'[r][x] = job[r][x] /\ call'[r][x] = call[r][x]
  PROVE  HealthInv'
  <1>1. \A x \in Service \ {s} : QueueInv(x)' /\ StaleInv(x)' /\ OkInv(x)'
    BY Untouched DEF HealthInv
  <1> QED BY <1>1 DEF HealthInv
-----------------------------------------------------------------------------
(* The steps.                                                              *)

\* A request joins the queues of the caches it wants.
LEMMA AskStep ==
  ASSUME HealthInv, NEW t \in Task, NEW S \in SUBSET Service, Ask(t, S)
  PROVE  HealthInv'
  <1>1. /\ Types /\ job[t] = NoJobs /\ server' = server /\ call' = call
        /\ cache' = cache /\ okAgo' = okAgo
        /\ queue \in [Service -> Seq(Task)]
    BY DEF HealthInv, Types, Ask, Idle, callVars
  <1>2. /\ job' \in [Task -> [Service -> Jobs]]
        /\ \A x \in Service : job'[t][x] = IF x \in S THEN "read" ELSE "none"
        /\ \A r \in Task \ {t} : job'[r] = job[r]
        /\ \A x \in Service : job[t][x] = "none"
    BY <1>1 DEF Types, Ask, Jobs, NoJobs
  <1>3. \A x \in Service :
          queue'[x] = IF x \in S THEN Append(queue[x], t) ELSE queue[x]
    BY DEF Ask
  <1>4. queue' \in [Service -> Seq(Task)]
    <2>1. \A x \in Service : Append(queue[x], t) \in Seq(Task)
      BY <1>1, AppendProperties
    <2> QED BY <1>1, <2>1 DEF Ask
  <1>5. Types'
    BY <1>1, <1>2, <1>4 DEF Types, LongAgo
  <1>6. CallsInv'
    BY <1>1 DEF HealthInv, CallsInv, GoodCall
  <1>7. ASSUME NEW x \in Service PROVE QueueInv(x)' /\ StaleInv(x)' /\ OkInv(x)'
    <2>0. QueueInv(x) /\ StaleInv(x) /\ OkInv(x)
      BY DEF HealthInv
    <2>1. QueueInv(x)'
      <3>1. CASE x \in S
        BY <1>1, <1>2, <1>3, <2>0, <3>1, QueueGrows DEF InQueue
      <3>2. CASE x \notin S
        BY <1>1, <1>2, <1>3, <2>0, <3>2, QueueStays DEF InQueue
      <3> QED BY <3>1, <3>2
    <2>2. \A r \in Task : job'[r][x] = "probe" => job[r][x] = "probe"
      BY <1>2
    <2>3. StaleInv(x)'
      BY <1>1, <2>0, <2>2, StaleStays
    <2>4. OkInv(x)'
      BY <1>1, <2>0 DEF OkInv
    <2> QED BY <2>1, <2>3, <2>4
  <1> QED BY <1>5, <1>6, <1>7 DEF HealthInv

\* The typing of a step that sets one job and the queue of one service.
LEMMA TypesStay ==
  ASSUME Types, NEW s \in Service, server' = server, cache' = cache, okAgo' = okAgo,
         job' \in [Task -> [Service -> Jobs]],
         NEW q \in Seq(Task), queue' = [queue EXCEPT ![s] = q]
  PROVE  Types' /\ queue'[s] = q /\ \A x \in Service \ {s} : queue'[x] = queue[x]
  <1>1. /\ queue' \in [Service -> Seq(Task)] /\ queue'[s] = q
        /\ \A x \in Service \ {s} : queue'[x] = queue[x]
    BY DEF Types
  <1> QED BY <1>1 DEF Types, LongAgo

\* Leaving with the job done, without a word about the cache.
LEMMA DoneStep ==
  ASSUME HealthInv, NEW t \in Task, NEW s \in Service,
         SetJob(t, s, "done"), Leave(t, s), UNCHANGED <<server, call, cache, okAgo>>
  PROVE  HealthInv'
  <1>1. /\ Types /\ CallsInv /\ QueueInv(s) /\ StaleInv(s) /\ OkInv(s)
        /\ "done" \in Jobs /\ "done" \notin InQueue /\ "done" # "probe"
    BY DEF HealthInv, Jobs, InQueue
  <1>2. /\ job' \in [Task -> [Service -> Jobs]]
        /\ job'[t][s] = "done"
        /\ \A r \in Task, x \in Service : r # t \/ x # s => job'[r][x] = job[r][x]
    BY <1>1, JobSet
  <1>3. PICK q \in Seq(Task) : q = Without(queue[s], t)
    BY <1>1, Leaving DEF Types, QueueInv
  <1>4. queue' = [queue EXCEPT ![s] = q]
    BY <1>3 DEF Leave
  <1>5. Types' /\ queue'[s] = q /\ \A x \in Service \ {s} : queue'[x] = queue[x]
    BY <1>1, <1>2, <1>4, TypesStay
  <1>6. QueueInv(s)'
    BY <1>1, <1>2, <1>3, <1>5, QueueShrinks
  <1>7. StaleInv(s)'
    BY <1>1, <1>2, StaleStays
  <1>8. OkInv(s)' /\ CallsInv'
    BY <1>1 DEF OkInv, CallsInv, GoodCall
  <1> QED BY <1>2, <1>5, <1>6, <1>7, <1>8, OneService

\* The fast path, or back to the end of the queue for the write lock.
LEMMA ReadCheckStep ==
  ASSUME HealthInv, NEW t \in Task, NEW s \in Service, ReadCheck(t, s)
  PROVE  HealthInv'
  <1>1. CASE health_cache_fresh(s)
    <2>1. SetJob(t, s, "done") /\ Leave(t, s) /\ UNCHANGED <<server, call, cache, okAgo>>
      BY <1>1 DEF ReadCheck, callVars
    <2> QED BY <2>1, DoneStep
  <1>2. CASE ~health_cache_fresh(s)
    <2>1. /\ Types /\ CallsInv /\ QueueInv(s) /\ StaleInv(s) /\ OkInv(s)
          /\ "write" \in Jobs /\ job[t][s] = "read" /\ Has(t, s)
          /\ SetJob(t, s, "write")
          /\ server' = server /\ call' = call /\ cache' = cache /\ okAgo' = okAgo
      BY <1>2 DEF HealthInv, Jobs, ReadCheck, callVars
    <2>2. /\ job' \in [Task -> [Service -> Jobs]]
          /\ job'[t][s] = "write"
          /\ \A r \in Task, x \in Service : r # t \/ x # s => job'[r][x] = job[r][x]
      BY <2>1, JobSet
    <2>3. /\ queue'[s] = Append(Tail(queue[s]), t)
          /\ queue' = [queue EXCEPT ![s] = Append(Tail(queue[s]), t)]
      BY <1>2, <2>1 DEF ReadCheck, Types
    <2>4. QueueInv(s)' /\ queue'[s] \in Seq(Task)
      BY <2>1, <2>2, <2>3, QueueTurns
    <2>5. Types' /\ \A x \in Service \ {s} : queue'[x] = queue[x]
      BY <2>1, <2>2, <2>3, <2>4, TypesStay
    <2>6. StaleInv(s)'
      BY <2>1, <2>2, StaleStays
    <2>7. OkInv(s)' /\ CallsInv'
      BY <2>1 DEF OkInv, CallsInv, GoodCall
    <2> QED BY <2>1, <2>2, <2>4, <2>5, <2>6, <2>7, OneService
  <1> QED BY <1>1, <1>2

\* A call begins; whatever its start, it does not say ok.
LEMMA BeginIsGood ==
  ASSUME HealthInv, NEW t \in Task, NEW s \in Service, NEW r \in 0..MaxRetries,
         BeginCall(t, s, r)
  PROVE  /\ CallsInv' /\ ~SaysOk(call'[t][s])
         /\ \A u \in Task, x \in Service : u # t \/ x # s => call'[u][x] = call[u][x]
  <1>1. PICK p \in {"sent", "error"} :
          p = IF server[s] = "absent" THEN "error" ELSE "sent"
    OBVIOUS
  <1>2. PICK c : c = [NoCall EXCEPT !.pc = p, !.retries = r]
    OBVIOUS
  <1>3. GoodCall(s, c)
    BY <1>2, NewCalls
  <1>4. SetCall(t, s, c)
    BY <1>1, <1>2 DEF BeginCall
  <1>5. CallsInv
    BY DEF HealthInv
  <1>6. /\ CallsInv' /\ call'[t][s] = c
        /\ \A u \in Task, x \in Service : u # t \/ x # s => call'[u][x] = call[u][x]
    BY <1>3, <1>4, <1>5, CallSet
  <1>7. ~SaysOk(c)
    BY <1>2 DEF SaysOk, NoCall
  <1> QED BY <1>6, <1>7

\* The second look: only a stale cache is probed for, by the head of the queue.
LEMMA WriteCheckStep ==
  ASSUME HealthInv, NEW t \in Task, NEW s \in Service, WriteCheck(t, s)
  PROVE  HealthInv'
  <1>1. CASE SetJob(t, s, "done") /\ Leave(t, s) /\ UNCHANGED call
    <2>1. UNCHANGED <<server, call, cache, okAgo>>
      BY <1>1 DEF WriteCheck
    <2> QED BY <1>1, <2>1, DoneStep
  <1>2. CASE /\ ~health_cache_fresh(s)
             /\ SetJob(t, s, "probe") /\ BeginCall(t, s, 0) /\ UNCHANGED queue
    <2>1. /\ Types /\ QueueInv(s) /\ StaleInv(s) /\ OkInv(s)
          /\ "probe" \in Jobs /\ job[t][s] = "write" /\ Has(t, s)
          /\ server' = server /\ cache' = cache /\ okAgo' = okAgo
          /\ 0 \in 0..MaxRetries
      BY DependencyAssumption DEF HealthInv, Jobs, WriteCheck
    <2>2. /\ job' \in [Task -> [Service -> Jobs]]
          /\ job'[t][s] = "probe"
          /\ \A r \in Task, x \in Service : r # t \/ x # s => job'[r][x] = job[r][x]
      BY <1>2, <2>1, JobSet
    <2>3. /\ CallsInv' /\ ~SaysOk(call'[t][s])
          /\ \A r \in Task, x \in Service : r # t \/ x # s => call'[r][x] = call[r][x]
      BY <1>2, <2>1, BeginIsGood
    <2>4. Types'
      BY <1>2, <2>1, <2>2 DEF Types, LongAgo
    <2>5. QueueInv(s)'
      <3>1. \A r \in Task : job[r][s] \in InQueue <=> job'[r][s] \in InQueue
        BY <2>1, <2>2 DEF InQueue
      <3>2. \A r \in Task : job'[r][s] = "probe" => job[r][s] = "probe" \/ Has(r, s)
        BY <2>1, <2>2
      <3> QED BY <1>2, <2>1, <3>1, <3>2, QueueStays
    <2>6. StaleInv(s)'
      BY <1>2, <2>1, <2>2, StaleStays
    <2>7. \A r \in Task : SaysOk(call'[r][s]) => okAgo[s] <= call'[r][s].timer
      BY <2>1, <2>3 DEF OkInv
    <2>8. OkInv(s)'
      BY <2>1, <2>7, OkStays
    <2> QED BY <1>2, <2>1, <2>2, <2>3, <2>4, <2>5, <2>6, <2>8, OneService
  <1> QED BY <1>1, <1>2 DEF WriteCheck

\* The result is stored: nobody probes any more, and an ok is as old as the
\* answer, which was within the timeout.
LEMMA StoreStep ==
  ASSUME HealthInv, NEW t \in Task, NEW s \in Service, Store(t, s)
  PROVE  HealthInv'
  <1> DEFINE c == call[t][s]
  <1>1. /\ Types /\ CallsInv /\ QueueInv(s) /\ OkInv(s)
        /\ "done" \in Jobs /\ "done" \notin InQueue
        /\ job[t][s] = "probe" /\ c.pc \in {"ok", "error"}
        /\ server' = server /\ okAgo' = okAgo
        /\ SetJob(t, s, "done") /\ Leave(t, s) /\ SetCall(t, s, NoCall)
        /\ GoodCall(s, NoCall) /\ GoodCall(s, c)
        /\ Timeout[s] \in Nat
    <2>1. 0 \in 0..MaxRetries
      BY DependencyAssumption
    <2> QED BY <2>1, NewCalls, Timeouts DEF HealthInv, CallsInv, Jobs, InQueue, Store
  <1>2. /\ job' \in [Task -> [Service -> Jobs]]
        /\ job'[t][s] = "done"
        /\ \A r \in Task, x \in Service : r # t \/ x # s => job'[r][x] = job[r][x]
    BY <1>1, JobSet
  <1>3. /\ CallsInv' /\ call'[t][s] = NoCall
        /\ \A r \in Task, x \in Service : r # t \/ x # s => call'[r][x] = call[r][x]
    BY <1>1, CallSet
  <1>4. PICK v \in {"ok", "error"} : v = c.pc
    BY <1>1
  <1>5. /\ cache' = [cache EXCEPT ![s] = [val |-> v, age |-> 0]]
        /\ [val |-> v, age |-> 0] \in CacheEntry
    BY <1>4, HealthAssumption DEF Store, CacheEntry
  <1>6. /\ cache' \in [Service -> CacheEntry] /\ cache'[s] = [val |-> v, age |-> 0]
        /\ \A x \in Service \ {s} : cache'[x] = cache[x]
    BY <1>1, <1>5 DEF Types
  <1>7. PICK q \in Seq(Task) : q = Without(queue[s], t)
    BY <1>1, Leaving DEF Types, QueueInv
  <1>8. queue' = [queue EXCEPT ![s] = q]
    BY <1>1, <1>7 DEF Leave
  <1>9. /\ queue' \in [Service -> Seq(Task)] /\ queue'[s] = q
        /\ \A x \in Service \ {s} : queue'[x] = queue[x]
    BY <1>1, <1>8 DEF Types
  <1>10. Types'
    BY <1>1, <1>2, <1>6, <1>9 DEF Types, LongAgo
  <1>11. QueueInv(s)'
    BY <1>1, <1>2, <1>7, <1>9, QueueShrinks
  <1>12. StaleInv(s)'
    <2>1. \A r \in Task : job[r][s] = "probe" => r = t
      BY <1>1 DEF QueueInv, Has
    <2>2. \A r \in Task : job'[r][s] # "probe"
      BY <1>2, <2>1
    <2> QED BY <2>2 DEF StaleInv
  <1>13. OkInv(s)'
    <2>1. server[s] = "ok" => okAgo[s] = 0
      BY <1>1 DEF OkInv
    <2>2. \A r \in Task : SaysOk(call'[r][s]) => okAgo[s] <= call'[r][s].timer
      BY <1>1, <1>3 DEF OkInv, SaysOk, NoCall
    <2>3. v = "ok" => okAgo[s] <= Timeout[s] + 0
      <3>1. SUFFICES ASSUME v = "ok" PROVE okAgo[s] <= Timeout[s] + 0
        OBVIOUS
      <3>2. SaysOk(c) /\ c.pc \in Under
        BY <1>4, <3>1 DEF SaysOk, Under
      <3>3. okAgo[s] <= c.timer /\ c.timer <= Timeout[s] /\ c.timer \in Nat /\ okAgo[s] \in Nat
        BY <1>1, <3>2, CallTypes DEF OkInv, GoodCall, Types
      <3> HIDE DEF c
      <3> QED BY <1>1, <3>3
    <2>4. cache'[s].val = v /\ cache'[s].age = 0
      BY <1>6
    <2> QED BY <1>1, <2>1, <2>2, <2>3, <2>4 DEF OkInv, SaysOk
  <1> QED BY <1>1, <1>2, <1>3, <1>6, <1>9, <1>10, <1>11, <1>12, <1>13, OneService

\* A step about a call alone: the jobs outside the queue may change too.
LEMMA CallOnlyStep ==
  ASSUME HealthInv, NEW t \in Task, NEW s \in Service,
         CallsInv', SaysOk(call'[t][s]) => okAgo[s] <= call'[t][s].timer,
         \A r \in Task, x \in Service : r # t \/ x # s => call'[r][x] = call[r][x],
         job' \in [Task -> [Service -> Jobs]],
         \A r \in Task, x \in Service : r # t \/ x # s => job'[r][x] = job[r][x],
         job'[t][s] = job[t][s] \/ (job[t][s] \notin InQueue /\ job'[t][s] \notin InQueue),
         server' = server, cache' = cache, okAgo' = okAgo, queue' = queue
  PROVE  HealthInv'
  <1>1. Types /\ QueueInv(s) /\ StaleInv(s) /\ OkInv(s)
    BY DEF HealthInv
  <1>2. Types'
    BY <1>1 DEF Types, LongAgo
  <1>3. /\ \A r \in Task : job[r][s] \in InQueue <=> job'[r][s] \in InQueue
        /\ \A r \in Task : job'[r][s] = "probe" => job[r][s] = "probe"
    BY DEF InQueue
  <1>4. QueueInv(s)' /\ StaleInv(s)'
    BY <1>1, <1>3, QueueStays, StaleStays
  <1>5. \A r \in Task : SaysOk(call'[r][s]) => okAgo[s] <= call'[r][s].timer
    BY <1>1 DEF OkInv
  <1>6. OkInv(s)'
    BY <1>1, <1>5, OkStays
  <1> QED BY <1>2, <1>4, <1>6, OneService

\* A traced request calls past the cache.
LEMMA TraceStep ==
  ASSUME HealthInv, NEW t \in Task, NEW s \in Service, Trace(t, s)
  PROVE  HealthInv'
  <1>1. /\ Types /\ "traced" \in Jobs /\ job[t][s] = "none" /\ SetJob(t, s, "traced")
        /\ BeginCall(t, s, MaxRetries) /\ MaxRetries \in 0..MaxRetries
        /\ server' = server /\ cache' = cache /\ okAgo' = okAgo /\ queue' = queue
    BY DependencyAssumption DEF HealthInv, Jobs, Trace, Idle, NoJobs
  <1>2. /\ CallsInv' /\ ~SaysOk(call'[t][s])
        /\ \A r \in Task, x \in Service : r # t \/ x # s => call'[r][x] = call[r][x]
    BY <1>1, BeginIsGood
  <1>3. /\ job' \in [Task -> [Service -> Jobs]] /\ job'[t][s] = "traced"
        /\ \A r \in Task, x \in Service : r # t \/ x # s => job'[r][x] = job[r][x]
    BY <1>1, JobSet
  <1>4. job[t][s] \notin InQueue /\ job'[t][s] \notin InQueue
    BY <1>1, <1>3 DEF InQueue
  <1> QED BY <1>1, <1>2, <1>3, <1>4, CallOnlyStep

\* A traced request has its result.
LEMMA TraceEndStep ==
  ASSUME HealthInv, NEW t \in Task, NEW s \in Service, TraceEnd(t, s)
  PROVE  HealthInv'
  <1>1. /\ Types /\ CallsInv /\ "done" \in Jobs /\ job[t][s] = "traced"
        /\ SetJob(t, s, "done") /\ SetCall(t, s, NoCall)
        /\ server' = server /\ cache' = cache /\ okAgo' = okAgo /\ queue' = queue
    BY DEF HealthInv, Jobs, TraceEnd
  <1>2. GoodCall(s, NoCall) /\ ~SaysOk(NoCall)
    <2>1. 0 \in 0..MaxRetries
      BY DependencyAssumption
    <2> QED BY <2>1, NewCalls DEF SaysOk, NoCall
  <1>3. /\ CallsInv' /\ call'[t][s] = NoCall
        /\ \A r \in Task, x \in Service : r # t \/ x # s => call'[r][x] = call[r][x]
    BY <1>1, <1>2, CallSet
  <1>4. /\ job' \in [Task -> [Service -> Jobs]] /\ job'[t][s] = "done"
        /\ \A r \in Task, x \in Service : r # t \/ x # s => job'[r][x] = job[r][x]
    BY <1>1, JobSet
  <1>5. job[t][s] \notin InQueue /\ job'[t][s] \notin InQueue
    BY <1>1, <1>4 DEF InQueue
  <1> QED BY <1>1, <1>2, <1>3, <1>4, <1>5, CallOnlyStep

\* The answer is sent; no job of the task was in a queue.
LEMMA AnswerStep ==
  ASSUME HealthInv, NEW t \in Task, Answer(t)
  PROVE  HealthInv'
  <1>1. /\ Types /\ server' = server /\ call' = call /\ cache' = cache
        /\ okAgo' = okAgo /\ queue' = queue
    BY DEF HealthInv, Answer, callVars
  <1>2. /\ job' \in [Task -> [Service -> Jobs]]
        /\ \A x \in Service : job'[t][x] = "none" /\ job[t][x] \notin InQueue
        /\ \A r \in Task \ {t} : job'[r] = job[r]
    BY <1>1 DEF Types, Answer, Jobs, NoJobs, InQueue
  <1>3. Types' /\ CallsInv'
    BY <1>1, <1>2 DEF HealthInv, Types, LongAgo, CallsInv, GoodCall
  <1>4. ASSUME NEW x \in Service PROVE QueueInv(x)' /\ StaleInv(x)' /\ OkInv(x)'
    <2>1. QueueInv(x) /\ StaleInv(x) /\ OkInv(x)
      BY DEF HealthInv
    <2>2. /\ \A r \in Task : job[r][x] \in InQueue <=> job'[r][x] \in InQueue
          /\ \A r \in Task : job'[r][x] = "probe" => job[r][x] = "probe"
      BY <1>2 DEF InQueue
    <2>3. OkInv(x)'
      BY <1>1, <2>1 DEF OkInv
    <2> QED BY <1>1, <2>1, <2>2, <2>3, QueueStays, StaleStays
  <1> QED BY <1>3, <1>4 DEF HealthInv

\* A dropped request leaves every queue and ends its calls.
LEMMA CancelStep ==
  ASSUME HealthInv, NEW t \in Task, Cancel(t)
  PROVE  HealthInv'
  <1>1. /\ Types /\ CallsInv /\ server' = server /\ cache' = cache /\ okAgo' = okAgo
    BY DEF HealthInv, Cancel
  <1>2. /\ job' \in [Task -> [Service -> Jobs]]
        /\ \A x \in Service : job'[t][x] = "none"
        /\ \A r \in Task \ {t} : job'[r] = job[r]
    BY <1>1 DEF Types, Cancel, Jobs, NoJobs
  <1>3. /\ \A x \in Service : call'[t][x] = NoCall
        /\ \A r \in Task \ {t} : call'[r] = call[r]
        /\ NoCall \in CallState
        /\ call' \in [Task -> [Service -> CallState]]
    <2>1. NoCall \in CallState
      BY DependencyAssumption DEF NoCall, CallState
    <2> QED BY <1>1, <2>1 DEF Cancel, CallsInv
  <1>4. ASSUME NEW x \in Service
        PROVE  /\ queue'[x] = Without(queue[x], t) /\ queue'[x] \in Seq(Task)
               /\ QueueInv(x)' /\ StaleInv(x)' /\ OkInv(x)'
    <2>1. QueueInv(x) /\ StaleInv(x) /\ OkInv(x) /\ queue[x] \in Seq(Task)
      BY <1>1 DEF HealthInv, Types
    <2>2. queue'[x] = Without(queue[x], t)
      BY DEF Cancel
    <2>3. queue'[x] \in Seq(Task)
      BY <2>1, <2>2, Leaving DEF QueueInv
    <2>4. "none" \notin InQueue
      BY DEF InQueue
    <2>5. QueueInv(x)'
      BY <1>1, <1>2, <2>1, <2>2, <2>4, QueueShrinks
    <2>6. StaleInv(x)'
      BY <1>1, <1>2, <2>1, StaleStays
    <2>7. \A r \in Task : SaysOk(call'[r][x]) => okAgo[x] <= call'[r][x].timer
      BY <1>3, <2>1 DEF OkInv, SaysOk, NoCall
    <2>8. OkInv(x)'
      BY <1>1, <2>1, <2>7, OkStays
    <2> QED BY <2>2, <2>3, <2>5, <2>6, <2>8
  <1>5. queue' \in [Service -> Seq(Task)]
    <2>1. queue' = [x \in Service |-> Without(queue[x], t)]
      BY DEF Cancel
    <2> QED BY <1>4, <2>1
  <1>6. Types'
    BY <1>1, <1>2, <1>5 DEF Types, LongAgo
  <1>7. CallsInv'
    <2>1. \A x \in Service : GoodCall(x, NoCall)
      <3>1. 0 \in 0..MaxRetries
        BY DependencyAssumption
      <3> QED BY <3>1, NewCalls
    <2>2. \A r \in Task, x \in Service : GoodCall(x, call'[r][x])
      BY <1>1, <1>3, <2>1 DEF CallsInv
    <2>3. \A r \in Task, x \in Service : GoodCall(x, call[r][x])'
      BY <2>2 DEF GoodCall
    <2> QED BY <1>3, <2>3 DEF CallsInv
  <1> QED BY <1>4, <1>6, <1>7 DEF HealthInv

\* A call moves on and everything else stays.
LEMMA CallMoves ==
  ASSUME HealthInv, NEW t \in Task, NEW s \in Service, NEW c,
         SetCall(t, s, c), GoodCall(s, c), SaysOk(c) => okAgo[s] <= c.timer,
         UNCHANGED <<server, healthVars, okAgo>>
  PROVE  HealthInv'
  <1>1. /\ Types /\ CallsInv /\ job' = job /\ server' = server /\ cache' = cache
        /\ okAgo' = okAgo /\ queue' = queue
    BY DEF HealthInv, healthVars
  <1>2. /\ CallsInv' /\ call'[t][s] = c
        /\ \A r \in Task, x \in Service : r # t \/ x # s => call'[r][x] = call[r][x]
    BY <1>1, CallSet
  <1>3. job' \in [Task -> [Service -> Jobs]]
    BY <1>1 DEF Types
  <1> QED BY <1>1, <1>2, <1>3, CallOnlyStep

\* A failed attempt does not say ok.
LEMMA RetriedIsSilent ==
  ASSUME NEW c \in CallState, c.pc \in {"sent", "replied"}
  PROVE  ~SaysOk(Retried(c))
  <1>1. CASE c.attempt < c.retries
    BY <1>1 DEF Retried, SaysOk, CallState
  <1>2. CASE ~(c.attempt < c.retries)
    BY <1>2 DEF Retried, SaysOk, CallState
  <1> QED BY <1>1, <1>2

\* The service answers as it is: ok only when okAgo is zero.
LEMMA ServeStep ==
  ASSUME HealthInv, NEW t \in Task, NEW s \in Service, Serve(t, s)
  PROVE  HealthInv'
  <1> DEFINE c == call[t][s]
  <1>1. /\ GoodCall(s, c) /\ c \in CallState /\ c.pc = "sent"
        /\ server[s] \in {"ok", "bad"} /\ server' = server
        /\ UNCHANGED <<server, healthVars, okAgo>>
    BY DEF HealthInv, CallsInv, Serve, Execute
  <1>2. PICK d : d = [c EXCEPT !.pc = "replied", !.reply = server[s]]
    OBVIOUS
  <1>3. /\ d \in CallState /\ d.pc = "replied" /\ d.reply = server[s]
        /\ d.attempt = c.attempt /\ d.retries = c.retries
        /\ d.timer = c.timer /\ d.elapsed = c.elapsed
    BY <1>1, <1>2 DEF CallState
  <1>4. SetCall(t, s, d)
    BY <1>2 DEF Serve, Execute
  <1>5. GoodCall(s, d)
    BY <1>1, <1>3, MovedIsGood DEF Under
  <1>6. SaysOk(d) => okAgo[s] <= d.timer
    <2>1. SaysOk(d) => okAgo[s] = 0
      BY <1>3 DEF SaysOk, HealthInv, OkInv
    <2>2. d.timer \in Nat
      BY <1>3, CallTypes
    <2> QED BY <2>1, <2>2
  <1> QED BY <1>1, <1>4, <1>5, <1>6, CallMoves

\* The client's side of a call.
LEMMA CallStepsStep ==
  ASSUME HealthInv, NEW t \in Task, NEW s \in Service, CallSteps(t, s)
  PROVE  HealthInv'
  <1> DEFINE c == call[t][s]
  <1>1. /\ GoodCall(s, c) /\ c \in CallState /\ UNCHANGED <<healthVars, okAgo>>
        /\ (SaysOk(c) => okAgo[s] <= c.timer)
    BY DEF HealthInv, CallsInv, CallSteps, OkInv
  <1>2. CASE Deliver(t, s)
    <2>1. PICK p \in {"ok", "error"} : p = IF c.reply = "ok" THEN "ok" ELSE "error"
      OBVIOUS
    <2>2. PICK d : d = [c EXCEPT !.pc = p]
      OBVIOUS
    <2>3. /\ d \in CallState /\ d.pc = p /\ d.attempt = c.attempt /\ d.retries = c.retries
          /\ d.timer = c.timer /\ d.elapsed = c.elapsed
      BY <1>1, <2>2 DEF CallState
    <2>4. c.pc = "replied" /\ SetCall(t, s, d) /\ UNCHANGED server
      BY <1>2, <2>1, <2>2 DEF Deliver
    <2>5. GoodCall(s, d)
      BY <1>1, <2>3, <2>4, MovedIsGood DEF Under
    <2>6. SaysOk(d) => okAgo[s] <= d.timer
      BY <1>1, <2>1, <2>3, <2>4 DEF SaysOk
    <2> QED BY <1>1, <2>4, <2>5, <2>6, CallMoves
  <1>3. CASE Disconnect(t, s) \/ TimeOut(t, s)
    <2>1. c.pc \in {"sent", "replied"} /\ SetCall(t, s, Retried(c)) /\ UNCHANGED server
      BY <1>3 DEF Disconnect, TimeOut
    <2>2. GoodCall(s, Retried(c)) /\ ~SaysOk(Retried(c))
      BY <1>1, <2>1, RetriedIsGood, RetriedIsSilent
    <2> QED BY <1>1, <2>1, <2>2, CallMoves
  <1>4. CASE Wake(t, s)
    <2>1. PICK d : d = [c EXCEPT !.pc = "sent", !.timer = 0]
      OBVIOUS
    <2>2. /\ c.pc = "sleep" /\ c.timer = backoff_for_attempt(c.attempt)
          /\ SetCall(t, s, d) /\ UNCHANGED server
      BY <1>4, <2>1 DEF Wake
    <2>3. GoodCall(s, d)
      BY <1>1, <2>1, <2>2, WokenIsGood
    <2>4. ~SaysOk(d)
      BY <1>1, <2>1 DEF SaysOk, CallState
    <2> QED BY <1>1, <2>2, <2>3, <2>4, CallMoves
  <1> QED BY <1>2, <1>3, <1>4 DEF CallSteps, CallStep

\* A service changes: one that recovers is well now, one that fails was just well.
LEMMA ChangeStep ==
  ASSUME HealthInv, NEW s \in Service, ChangeService(s)
  PROVE  HealthInv'
  <1>1. /\ Types /\ CallsInv /\ QueueInv(s) /\ StaleInv(s) /\ OkInv(s)
        /\ queue' = queue /\ cache' = cache /\ job' = job /\ call' = call
    BY DEF HealthInv, ChangeService, Change, healthVars
  <1>2. PICK y \in Status : y # server[s] /\ server' = [server EXCEPT ![s] = y]
    BY DependencyAssumption DEF ChangeService, Change
  <1>3. okAgo' = [okAgo EXCEPT ![s] = IF server'[s] = "ok" THEN 0 ELSE @]
    BY DEF ChangeService
  <1>4. /\ server' \in [Service -> Status] /\ server'[s] = y
        /\ \A x \in Service \ {s} : server'[x] = server[x]
        /\ okAgo' \in [Service -> Nat]
        /\ okAgo'[s] = IF y = "ok" THEN 0 ELSE okAgo[s]
        /\ \A x \in Service \ {s} : okAgo'[x] = okAgo[x]
    BY <1>1, <1>2, <1>3 DEF Types
  <1>5. okAgo[s] \in Nat /\ LongAgo(s) \in Nat /\ Timeout[s] \in Nat
    BY <1>1, Timeouts, HealthAssumption DEF Types, LongAgo
  <1>6. okAgo'[s] \in Nat /\ okAgo'[s] <= okAgo[s] /\ (okAgo'[s] = okAgo[s] \/ okAgo'[s] = 0)
    BY <1>4, <1>5
  <1>7. Types'
    <2>1. \A x \in Service : okAgo'[x] <= LongAgo(x)
      <3>1. okAgo[s] <= LongAgo(s)
        BY <1>1 DEF Types
      <3>2. okAgo'[s] <= LongAgo(s)
        BY <1>5, <1>6, <3>1
      <3> QED BY <1>1, <1>4, <3>2 DEF Types
    <2> QED BY <1>1, <1>4, <2>1 DEF Types, LongAgo
  <1>8. CallsInv'
    BY <1>1 DEF CallsInv, GoodCall
  <1>9. QueueInv(s)' /\ StaleInv(s)'
    BY <1>1, QueueStays, StaleStays
  <1>10. OkInv(s)'
    <2>1. server'[s] = "ok" => okAgo'[s] = 0
      BY <1>2, <1>4 DEF OkInv
    <2>2. ASSUME NEW r \in Task, SaysOk(call[r][s]) PROVE okAgo'[s] <= call[r][s].timer
      <3>1. okAgo[s] <= call[r][s].timer /\ call[r][s].timer \in Nat
        BY <1>1, <2>2, CallTypes DEF OkInv, CallsInv
      <3> QED BY <1>5, <1>6, <3>1
    <2>3. ASSUME cache[s].val = "ok", cache[s].age < OkTTL
          PROVE  okAgo'[s] <= Timeout[s] + cache[s].age
      <3>1. okAgo[s] <= Timeout[s] + cache[s].age /\ cache[s].age \in Nat
        BY <1>1, <2>3, HealthAssumption DEF OkInv, Types, CacheEntry
      <3> QED BY <1>5, <1>6, <3>1
    <2> QED BY <1>1, <2>1, <2>2, <2>3 DEF OkInv, SaysOk
  <1> QED BY <1>1, <1>4, <1>7, <1>8, <1>9, <1>10, OneService

\* A tick: answers on their way, cache entries and the service's last good
\* moment age together, and a stale entry stays stale.
LEMMA TickStep ==
  ASSUME HealthInv, Tick
  PROVE  HealthInv'
  <1>1. /\ Types /\ CallsInv /\ queue' = queue /\ job' = job /\ server' = server
    BY DEF HealthInv, Tick, TickCalls
  <1> DEFINE max == OkTTL + ErrTTL
  <1>2. OkTTL \in Nat /\ ErrTTL \in Nat /\ max \in Nat /\ OkTTL <= max /\ ErrTTL <= max
    BY HealthAssumption
  <1>3. ASSUME NEW x \in Service
        PROVE  /\ cache'[x] \in CacheEntry /\ cache'[x].val = cache[x].val
               /\ cache[x].age \in Nat
               /\ cache[x].val # "none" =>
                    cache'[x].age = IF cache[x].age < max THEN cache[x].age + 1 ELSE max
    <2>1. cache[x] \in CacheEntry
      BY <1>1 DEF Types
    <2>2. cache[x].age \in 0..max /\ cache[x].age \in Nat
      BY <1>2, <2>1 DEF CacheEntry
    <2>3. PICK n \in 0..max :
            /\ n = AtMost(cache[x].age + 1, max)
            /\ n = IF cache[x].age < max THEN cache[x].age + 1 ELSE max
      BY <1>2, <2>2 DEF AtMost
    <2>4. cache'[x] = IF cache[x].val = "none" THEN cache[x]
                      ELSE [cache[x] EXCEPT !.age = n]
      BY <2>3 DEF Tick
    <2> HIDE DEF max
    <2>5. CASE cache[x].val = "none"
      BY <2>1, <2>2, <2>4, <2>5
    <2>6. CASE cache[x].val # "none"
      <3>1. [cache[x] EXCEPT !.age = n] \in CacheEntry
        BY <2>1, <2>3 DEF CacheEntry, max
      <3>2. [cache[x] EXCEPT !.age = n].val = cache[x].val
            /\ [cache[x] EXCEPT !.age = n].age = n
        BY <2>1 DEF CacheEntry
      <3> QED BY <2>2, <2>3, <2>4, <2>6, <3>1, <3>2
    <2> QED BY <2>5, <2>6
  <1>4. cache' \in [Service -> CacheEntry]
    <2>1. DOMAIN cache' = Service /\ cache' = [x \in Service |-> cache'[x]]
      BY DEF Tick
    <2> QED BY <1>3, <2>1
  <1>5. ASSUME NEW x \in Service
        PROVE  /\ okAgo'[x] \in Nat /\ okAgo'[x] <= LongAgo(x)
               /\ okAgo'[x] <= okAgo[x] + 1 /\ okAgo[x] \in Nat
               /\ server[x] = "ok" => okAgo'[x] = 0
    <2>1. okAgo[x] \in Nat /\ LongAgo(x) \in Nat /\ okAgo[x] <= LongAgo(x)
      BY <1>1, Timeouts, HealthAssumption DEF Types, LongAgo
    <2>2. okAgo'[x] = IF server[x] = "ok" THEN 0
                      ELSE IF okAgo[x] + 1 < LongAgo(x) THEN okAgo[x] + 1 ELSE LongAgo(x)
      BY DEF Tick, AtMost
    <2> QED BY <2>1, <2>2
  <1>6. okAgo' \in [Service -> Nat]
    <2>1. okAgo' = [x \in Service |-> okAgo'[x]]
      BY DEF Tick
    <2> QED BY <1>5, <2>1
  <1>7. Types'
    BY <1>1, <1>4, <1>5, <1>6 DEF Types, LongAgo
  <1>8. ASSUME NEW r \in Task, NEW x \in Service
        PROVE  /\ GoodCall(x, call'[r][x]) /\ call'[r][x] \in CallState
               /\ SaysOk(call'[r][x]) =>
                    SaysOk(call[r][x]) /\ call'[r][x].timer = call[r][x].timer + 1
    <2>1. GoodCall(x, call[r][x]) /\ call[r][x] \in CallState
      BY <1>1 DEF CallsInv
    <2>2. CASE Running(call[r][x])
      <3>1. call[r][x].timer < Limit(x, call[r][x])
        BY <2>2 DEF Tick, TickCalls
      <3>2. PICK d : d = [call[r][x] EXCEPT !.timer = @ + 1, !.elapsed = @ + 1]
        OBVIOUS
      <3>3. call'[r][x] = d
        BY <2>2, <3>2 DEF Tick, TickCalls
      <3>4. GoodCall(x, d)
        BY <2>1, <2>2, <3>1, <3>2, TickedIsGood
      <3>5. d \in CallState
        BY <3>4 DEF GoodCall
      <3>6. d.pc = call[r][x].pc /\ d.reply = call[r][x].reply
            /\ d.timer = call[r][x].timer + 1
        BY <2>1, <3>2 DEF CallState
      <3> QED BY <3>3, <3>4, <3>5, <3>6 DEF SaysOk
    <2>3. CASE ~Running(call[r][x])
      <3>1. call'[r][x] = call[r][x]
        BY <2>3 DEF Tick, TickCalls
      <3>2. ~SaysOk(call[r][x])
        BY <2>3 DEF Running, SaysOk
      <3> QED BY <2>1, <3>1, <3>2
    <2> QED BY <2>2, <2>3
  <1>9. CallsInv'
    <2>1. call' \in [Task -> [Service -> CallState]]
      <3>1. \A r \in Task : call'[r] \in [Service -> CallState]
        <4> SUFFICES ASSUME NEW r \in Task PROVE call'[r] \in [Service -> CallState]
          OBVIOUS
        <4>1. call'[r] = [x \in Service |-> call'[r][x]]
          BY DEF Tick, TickCalls
        <4> QED BY <1>8, <4>1
      <3>2. call' = [r \in Task |-> call'[r]]
        BY DEF Tick, TickCalls
      <3> QED BY <3>1, <3>2
    <2>2. \A r \in Task, x \in Service : GoodCall(x, call[r][x])'
      BY <1>8 DEF GoodCall
    <2> QED BY <2>1, <2>2 DEF CallsInv
  <1>10. ASSUME NEW x \in Service PROVE QueueInv(x)' /\ StaleInv(x)' /\ OkInv(x)'
    <2>1. QueueInv(x) /\ StaleInv(x) /\ OkInv(x)
      BY DEF HealthInv
    <2>2. QueueInv(x)'
      BY <1>1, <2>1, QueueStays
    <2>3. StaleInv(x)'
      <3>1. ~health_cache_fresh(x) => ~health_cache_fresh(x)'
        <4> SUFFICES ASSUME health_cache_fresh(x)' PROVE health_cache_fresh(x)
          OBVIOUS
        <4> DEFINE limit == IF cache[x].val = "ok" THEN OkTTL ELSE ErrTTL
        <4>1. cache'[x].val # "none" /\ cache'[x].age < limit
          BY <1>3 DEF health_cache_fresh
        <4>2. cache[x].val # "none" /\ limit \in Nat /\ limit <= max /\ cache[x].age \in Nat
          BY <1>2, <1>3, <4>1
        <4>3. cache'[x].age = IF cache[x].age < max THEN cache[x].age + 1 ELSE max
          BY <1>3, <4>2
        <4> HIDE DEF limit, max
        <4>4. cache[x].age < limit
          BY <1>2, <4>1, <4>2, <4>3
        <4> QED BY <4>2, <4>4 DEF health_cache_fresh, limit
      <3> QED BY <1>1, <2>1, <3>1 DEF StaleInv
    <2>4. OkInv(x)'
      <3>1. server'[x] = "ok" => okAgo'[x] = 0
        BY <1>1, <1>5
      <3>2. ASSUME NEW r \in Task, SaysOk(call'[r][x]) PROVE okAgo'[x] <= call'[r][x].timer
        <4>1. SaysOk(call[r][x]) /\ call'[r][x].timer = call[r][x].timer + 1
          BY <1>8, <3>2
        <4>2. okAgo[x] <= call[r][x].timer /\ call[r][x].timer \in Nat
          BY <1>1, <2>1, <4>1, CallTypes DEF OkInv, CallsInv
        <4> QED BY <1>5, <4>1, <4>2
      <3>3. ASSUME cache'[x].val = "ok", cache'[x].age < OkTTL
            PROVE  okAgo'[x] <= Timeout[x] + cache'[x].age
        <4>1. /\ cache[x].val = "ok" /\ cache[x].age \in Nat
              /\ cache'[x].age = IF cache[x].age < max THEN cache[x].age + 1 ELSE max
          BY <1>3, <3>3
        <4> HIDE DEF max
        <4>2. cache[x].age < OkTTL /\ cache'[x].age = cache[x].age + 1
          BY <1>2, <3>3, <4>1
        <4>3. okAgo[x] <= Timeout[x] + cache[x].age /\ Timeout[x] \in Nat
          BY <2>1, <4>1, <4>2, Timeouts DEF OkInv
        <4> QED BY <1>5, <4>1, <4>2, <4>3
      <3> QED BY <3>1, <3>2, <3>3 DEF OkInv, SaysOk
    <2> QED BY <2>2, <2>3, <2>4
  <1> QED BY <1>7, <1>9, <1>10 DEF HealthInv
-----------------------------------------------------------------------------
\* Every step keeps the invariant.
LEMMA HealthStep == HealthInv /\ [Next]_vars => HealthInv'
  <1> SUFFICES ASSUME HealthInv, [Next]_vars PROVE HealthInv'
    OBVIOUS
  <1>1. ASSUME NEW t \in Task, NEW s \in Service, Trace(t, s) \/ Serve(t, s)
        PROVE  HealthInv'
    BY <1>1, TraceStep, ServeStep
  <1>2. ASSUME NEW t \in Task, NEW S \in {Service} \cup {{s} : s \in Service}, Ask(t, S)
        PROVE  HealthInv'
    <2>1. S \in SUBSET Service
      OBVIOUS
    <2> QED BY <1>2, <2>1, AskStep
  <1>3. ASSUME NEW t \in Task, Step(t) \/ Cancel(t) PROVE HealthInv'
    BY <1>3, AnswerStep, ReadCheckStep, WriteCheckStep, StoreStep, TraceEndStep,
       CallStepsStep, CancelStep DEF Step
  <1>4. ASSUME NEW s \in Service, ChangeService(s) PROVE HealthInv'
    BY <1>4, ChangeStep
  <1>5. CASE UNCHANGED vars
    BY <1>5 DEF vars, HealthInv, Types, CallsInv, GoodCall, QueueInv, StaleInv, OkInv,
         Waiting, Has, SaysOk, health_cache_fresh, LongAgo
  <1> QED BY <1>1, <1>2, <1>3, <1>4, <1>5, TickStep DEF Next

\* The invariant holds in every reachable state.
LEMMA HealthAlways == Spec => []HealthInv
  BY HealthInit, HealthStep, PTL DEF Spec

\* What is kept about the calls, the caches and the locks is well formed: a
\* task waits at most once for a lock, and exactly while it is about to read,
\* write or probe (health_postgres, health_redis, health_python and health).
THEOREM TypeCorrect == Spec => []TypeOK
  <1>1. HealthInv => TypeOK
    BY DEF HealthInv, Types, CallsInv, QueueInv, TypeOK, Waiting, InQueue
  <1> QED BY <1>1, HealthAlways, PTL

\* A call ends within the timeouts of its attempts and the pauses between
\* them (PythonSidecar::do_request_inner, backoff_for_attempt), for every
\* timeout, number of retries and backoff.
THEOREM CallsAreBounded == Spec => []CallBounded
  <1>1. HealthInv => CallBounded
    BY GoodIsBounded DEF HealthInv, CallsInv, CallBounded
  <1> QED BY <1>1, HealthAlways, PTL

\* However many requests come, one of them probes a service at a time, and
\* none while the cached result is fresh (the second look under the write
\* lock).
THEOREM ProbesAreSingle == Spec => []ProbesAreNeeded
  <1>1. HealthInv => ProbesAreNeeded
    <2> SUFFICES ASSUME HealthInv, NEW s \in Service
                 PROVE  /\ Cardinality(Probing(s)) <= 1
                        /\ Probing(s) # {} => ~health_cache_fresh(s)
      BY DEF ProbesAreNeeded
    <2>1. \A t, r \in Probing(s) : t = r
      BY DEF HealthInv, QueueInv, Has, Probing
    <2>2. Cardinality(Probing(s)) <= 1
      <3>1. CASE Probing(s) = {}
        BY <3>1, FS_EmptySet
      <3>2. CASE Probing(s) # {}
        <4>1. PICK t \in Probing(s) : Probing(s) = {t}
          BY <2>1, <3>2
        <4>2. Cardinality(Probing(s)) = 1
          BY <4>1, FS_Singleton
        <4> QED BY <4>2
      <3> QED BY <3>1, <3>2
    <2>3. Probing(s) # {} => ~health_cache_fresh(s)
      BY DEF HealthInv, StaleInv, Probing
    <2> QED BY <2>2, <2>3
  <1> QED BY <1>1, HealthAlways, PTL

\* An ok taken from the cache is no older than a probe's timeout and the
\* cache's lifetime (HEALTH_CACHE_TTL), although the entry is stamped when the
\* answer arrives and not when the service gave it.
THEOREM OksAreRecent == Spec => []OkIsRecent
  <1>1. HealthInv => OkIsRecent
    <2> SUFFICES ASSUME HealthInv, NEW s \in Service,
                        health_cache_fresh(s), cache[s].val = "ok"
                 PROVE  okAgo[s] <= Timeout[s] + OkTTL - 1
      BY DEF OkIsRecent
    <2>1. /\ cache[s].age < OkTTL /\ cache[s].age \in Nat /\ okAgo[s] \in Nat
          /\ OkTTL \in Nat /\ Timeout[s] \in Nat
      BY Timeouts, HealthAssumption DEF HealthInv, Types, CacheEntry, health_cache_fresh
    <2>2. okAgo[s] <= Timeout[s] + cache[s].age
      BY <2>1 DEF HealthInv, OkInv
    <2> QED BY <2>1, <2>2
  <1> QED BY <1>1, HealthAlways, PTL
=============================================================================
