--------------------------- MODULE RateLimitProofs ---------------------------
(***************************************************************************)
(* Proofs about backend/cache/src/rate_limit.rs: the sliding window, and   *)
(* (from LoginGuard on) the backoff and how login uses both.               *)
(*                                                                         *)
(* The sliding window limits admissions (theorem                           *)
(* AdmissionsAreLimited).  The set in Redis is not the window: scripts     *)
(* arrive late and out of order, so it may have lost members that a late   *)
(* script's own window still holds.  What survives is that a member is     *)
(* only ever removed a full window after its score (Kept), and scores are  *)
(* at most CmdTimeout behind the admission (Scored).                       *)
(***************************************************************************)
EXTENDS RateLimit, LoginGuard, FiniteSetTheorems, SequenceTheorems, TLAPS

\* A reading in progress is at most CmdTimeout old.
Recent ==
  \A t \in Task : \A now \in read[t] : now <= clock /\ clock - now <= CmdTimeout

Scored == \A i \in 1..Len(log) : log[i].at <= log[i].score + CmdTimeout

Kept == \A i \in (1..Len(log)) \ zset : log[i].score + Window <= clock

Ordered == \A i, j \in 1..Len(log) : i <= j => log[i].at <= log[j].at

\* The key is refreshed by every admission.
Outlived == \A i \in 1..Len(log) : log[i].at + Window + Buffer <= expires

WindowInv == TypeOK /\ Recent /\ Scored /\ Kept /\ Ordered /\ Outlived /\ Limited

\* Initially nothing was admitted.
LEMMA WindowInit == Init => WindowInv
  BY RateAssumption
  DEF Init, WindowInv, TypeOK, Recent, Scored, Kept, Ordered, Outlived, Limited

\* A finite set that holds m..n has at least n - m + 1 members.
LEMMA IntervalInside ==
  ASSUME NEW S, IsFiniteSet(S), NEW m \in Int, NEW n \in Int, m <= n, m..n \subseteq S
  PROVE  n - m + 1 <= Cardinality(S)
  <1>1. Cardinality(m..n) = n - m + 1 /\ IsFiniteSet(m..n)
    BY FS_Interval
  <1>2. Cardinality(m..n) <= Cardinality(S)
    BY FS_Subset
  <1>3. Cardinality(S) \in Nat
    BY FS_CardinalityType
  <1> QED BY <1>1, <1>2, <1>3

\* The log holds times.
LEMMA LogTypes ==
  ASSUME WindowInv
  PROVE  /\ clock \in Nat /\ expires \in Nat /\ Len(log) \in Nat
         /\ \A i \in 1..Len(log) :
              /\ log[i].score \in Nat /\ log[i].at \in Nat
              /\ log[i].score <= log[i].at /\ log[i].at <= clock
  <1>1. /\ log \in Seq([score : Nat, at : Nat]) /\ clock \in Nat /\ expires \in Nat
        /\ \A i \in 1..Len(log) : log[i].score <= log[i].at /\ log[i].at <= clock
    BY DEF WindowInv, TypeOK
  <1>2. Len(log) \in Nat
    BY <1>1
  <1>3. \A i \in 1..Len(log) : log[i] \in [score : Nat, at : Nat]
    BY <1>1, ElementOfSeq
  <1> QED BY <1>1, <1>2, <1>3

\* What ZREMRANGEBYSCORE leaves is finite and holds whatever is not a window
\* older than the real clock.
LEMMA InWindowKeeps ==
  ASSUME WindowInv, NEW now \in Nat, now <= clock
  PROVE  /\ InWindow(now) \subseteq zset
         /\ IsFiniteSet(InWindow(now))
         /\ \A i \in 1..Len(log) :
              log[i].score + Window > clock => i \in InWindow(now)
         /\ \A i \in (1..Len(log)) \ InWindow(now) : log[i].score + Window <= clock
  <1>1. InWindow(now) \subseteq zset /\ zset \subseteq 1..Len(log)
    BY DEF WindowInv, TypeOK, InWindow
  <1>2. IsFiniteSet(1..Len(log))
    BY FS_Interval DEF WindowInv, TypeOK
  <1>3. IsFiniteSet(InWindow(now))
    BY <1>1, <1>2, FS_Subset
  <1>4. ASSUME NEW i \in 1..Len(log), i \notin InWindow(now)
        PROVE  log[i].score + Window <= clock
    <2>1. CASE i \notin zset
      BY <1>4, <2>1 DEF WindowInv, Kept
    <2>2. CASE i \in zset
      BY <1>4, <2>2, RateAssumption, LogTypes DEF InWindow
    <2> QED BY <2>1, <2>2
  <1> QED BY <1>1, <1>3, <1>4, LogTypes, RateAssumption

\* An admission keeps the invariant: if Max others were admitted in the
\* stretch, all of them were still in the set and the script refused.
LEMMA AdmitKeeps ==
  ASSUME WindowInv, NEW t \in Task, NEW now \in read[t], Admit(now),
         read' = [read EXCEPT ![t] = {}], UNCHANGED clock
  PROVE  WindowInv'
  <1> DEFINE n == Len(log) + 1
             e == [score |-> now, at |-> clock]
  <1>1. /\ now \in Nat /\ now <= clock /\ clock - now <= CmdTimeout
        /\ clock \in Nat /\ clock' = clock /\ CmdTimeout \in Nat
        /\ Window \in Nat /\ Max \in Nat \ {0} /\ Buffer \in Nat
    BY RateAssumption DEF WindowInv, TypeOK, Recent
  <1>2. /\ log' = Append(log, e) /\ zset' = InWindow(now) \cup {n}
        /\ expires' = clock + Window + Buffer /\ told' = told
    BY DEF Admit
  <1>3. /\ log \in Seq([score : Nat, at : Nat]) /\ Len(log) \in Nat
        /\ e \in [score : Nat, at : Nat]
    BY <1>1 DEF WindowInv, TypeOK
  <1>4. /\ Len(log') = n /\ log'[n] = e
        /\ \A i \in 1..Len(log) : log'[i] = log[i]
        /\ log' \in Seq([score : Nat, at : Nat])
    BY <1>2, <1>3
  <1>5. 1..n = (1..Len(log)) \cup {n} /\ n \notin 1..Len(log) /\ n \in Nat
    BY <1>3
  <1>6. \A i \in 1..Len(log) :
          /\ log[i].score \in Nat /\ log[i].at \in Nat
          /\ log[i].score <= log[i].at /\ log[i].at <= clock
          /\ log[i].at <= log[i].score + CmdTimeout
          /\ log[i].at + Window + Buffer <= expires
    BY LogTypes DEF WindowInv, Scored, Outlived
  <1>7. /\ log'[n].score = now /\ log'[n].at = clock
         /\ \A i \in 1..Len(log) : log'[i].score = log[i].score /\ log'[i].at = log[i].at
    <2>1. e.score = now /\ e.at = clock
      OBVIOUS
    <2> HIDE DEF e, n
    <2> QED BY <1>4, <2>1
  <1> HIDE DEF n, e
  <1>8. /\ InWindow(now) \subseteq zset
        /\ IsFiniteSet(InWindow(now))
        /\ \A i \in 1..Len(log) :
             log[i].score + Window > clock => i \in InWindow(now)
        /\ \A i \in (1..Len(log)) \ InWindow(now) : log[i].score + Window <= clock
    BY <1>1, InWindowKeeps
  <1>9. TypeOK'
    <2>1. zset' \subseteq 1..n
      BY <1>2, <1>5, <1>8 DEF WindowInv, TypeOK
    <2>2. ASSUME NEW i \in 1..n
          PROVE  log'[i].score <= log'[i].at /\ log'[i].at <= clock
      <3>1. CASE i = n
        BY <3>1, <1>1, <1>7
      <3>2. CASE i \in 1..Len(log)
        BY <3>2, <1>6, <1>7
      <3> QED BY <3>1, <3>2, <1>5
    <2>3. expires' \in Nat
      BY <1>1, <1>2
    <2>4. read' \in [Task -> SUBSET Nat] /\ told' \in SUBSET [at : Nat, reset : Nat]
      BY <1>2 DEF WindowInv, TypeOK
    <2> QED BY <1>1, <1>4, <2>1, <2>2, <2>3, <2>4 DEF TypeOK
  <1>10. Recent'
    BY <1>1 DEF WindowInv, TypeOK, Recent
  <1>11. Scored'
    <2> SUFFICES ASSUME NEW i \in 1..n
                 PROVE  log'[i].at <= log'[i].score + CmdTimeout
      BY <1>4 DEF Scored
    <2>1. CASE i = n
      BY <2>1, <1>1, <1>7
    <2>2. CASE i \in 1..Len(log)
      BY <2>2, <1>6, <1>7
    <2> QED BY <2>1, <2>2, <1>5
  <1>12. Ordered'
    <2> SUFFICES ASSUME NEW i \in 1..n, NEW j \in 1..n, i <= j
                 PROVE  log'[i].at <= log'[j].at
      BY <1>4 DEF Ordered
    <2>1. CASE j = n
      <3>1. CASE i = n
        BY <2>1, <3>1, <1>1, <1>7
      <3>2. CASE i \in 1..Len(log)
        BY <2>1, <3>2, <1>6, <1>7
      <3> QED BY <3>1, <3>2, <1>5
    <2>2. CASE j \in 1..Len(log)
      <3>1. i \in 1..Len(log)
        BY <2>2, <1>3, <1>5
      <3> QED BY <2>2, <3>1, <1>7 DEF WindowInv, Ordered
    <2> QED BY <1>5, <2>1, <2>2
  <1>13. Outlived'
    <2> SUFFICES ASSUME NEW i \in 1..n
                 PROVE  log'[i].at + Window + Buffer <= clock + Window + Buffer
      BY <1>2, <1>4 DEF Outlived
    <2>1. CASE i = n
      BY <2>1, <1>1, <1>7
    <2>2. CASE i \in 1..Len(log)
      <3>1. log'[i].at = log[i].at /\ log[i].at \in Nat /\ log[i].at <= clock
        BY <2>2, <1>6, <1>7
      <3> QED BY <3>1, <1>1
    <2> QED BY <2>1, <2>2, <1>5
  <1>14. Kept'
    <2> SUFFICES ASSUME NEW i \in 1..n, i \notin zset'
                 PROVE  log'[i].score + Window <= clock
      BY <1>1, <1>4 DEF Kept
    <2> QED BY <1>2, <1>5, <1>7, <1>8
  <1>15. ASSUME NEW i \in 1..Len(log), clock - log[i].at < Window - CmdTimeout
         PROVE  n - i < Max
    <2>1. ASSUME NEW k \in i..Len(log) PROVE k \in InWindow(now)
      <3>1. k \in 1..Len(log) /\ log[i].at <= log[k].at
        <4>1. k \in 1..Len(log) /\ i <= k
          BY <1>3
        <4> QED BY <4>1 DEF WindowInv, Ordered
      <3>2. /\ log[k].at \in Nat /\ log[k].score \in Nat /\ log[i].at \in Nat
            /\ log[k].at <= log[k].score + CmdTimeout
        BY <3>1, <1>6
      <3>3. log[k].score + Window > clock
        <4>1. PICK a \in Nat, b \in Nat, s \in Nat :
                a = log[i].at /\ b = log[k].at /\ s = log[k].score
          BY <3>2
        <4>2. a <= b /\ b <= s + CmdTimeout /\ clock - a < Window - CmdTimeout
          BY <3>1, <3>2, <1>15, <4>1
        <4>3. s + Window > clock
          BY <4>2, <1>1
        <4> QED BY <4>1, <4>3
      <3> QED BY <3>1, <3>3, <1>8
    <2>2. Len(log) - i + 1 <= Cardinality(InWindow(now))
      <3>1. i \in Int /\ Len(log) \in Int /\ i <= Len(log)
        BY <1>3
      <3>2. i..Len(log) \subseteq InWindow(now)
        BY <2>1
      <3>3. IsFiniteSet(InWindow(now))
        BY <1>8
      <3> QED BY <3>1, <3>2, <3>3, IntervalInside
    <2>3. Cardinality(InWindow(now)) < Max /\ Cardinality(InWindow(now)) \in Nat
      BY <1>8, FS_CardinalityType DEF Admit
    <2> QED BY <2>2, <2>3, <1>1, <1>3 DEF n
  <1>16. Limited'
    <2> SUFFICES ASSUME NEW i \in 1..n, NEW j \in 1..n, i <= j,
                        log'[j].at - log'[i].at < Window - CmdTimeout
                 PROVE  j - i < Max
      BY <1>4 DEF Limited
    <2>1. CASE j = n /\ i = n
      BY <2>1, <1>1, <1>5
    <2>2. CASE j = n /\ i \in 1..Len(log)
      BY <2>2, <1>7, <1>15
    <2>3. CASE j \in 1..Len(log)
      <3>1. i \in 1..Len(log)
        BY <2>3, <1>3, <1>5
      <3> QED BY <2>3, <3>1, <1>7 DEF WindowInv, Limited
    <2> QED BY <1>5, <2>1, <2>2, <2>3
  <1> QED BY <1>9, <1>10, <1>11, <1>12, <1>13, <1>14, <1>16 DEF WindowInv

\* Dropping what has left a reader's window keeps the invariant: the rest of
\* a refused check, and rate_limit_count.
LEMMA PruneKeeps ==
  ASSUME WindowInv, NEW t \in Task, NEW now \in read[t], zset' = InWindow(now),
         told' \in SUBSET [at : Nat, reset : Nat],
         read' = [read EXCEPT ![t] = {}], UNCHANGED <<clock, expires, log>>
  PROVE  WindowInv'
  <1>1. now \in Nat /\ now <= clock
    BY DEF WindowInv, TypeOK, Recent
  <1>2. /\ InWindow(now) \subseteq zset
        /\ \A i \in (1..Len(log)) \ InWindow(now) : log[i].score + Window <= clock
    BY <1>1, InWindowKeeps
  <1>3. TypeOK'
    BY <1>2 DEF WindowInv, TypeOK
  <1>4. Recent'
    BY DEF WindowInv, TypeOK, Recent
  <1>5. Kept'
    BY <1>2 DEF Kept
  <1>6. Scored' /\ Ordered' /\ Outlived' /\ Limited'
    BY DEF WindowInv, Scored, Ordered, Outlived, Limited
  <1> QED BY <1>3, <1>4, <1>5, <1>6 DEF WindowInv

\* Time keeps the invariant: an expired key is a window past every admission.
LEMMA TickKeeps == WindowInv /\ Tick => WindowInv'
  <1> SUFFICES ASSUME WindowInv, Tick PROVE WindowInv'
    OBVIOUS
  <1>1. /\ clock' = clock + 1 /\ clock \in Nat /\ log' = log /\ read' = read
        /\ expires' = expires /\ told' = told /\ zset' \subseteq zset
    BY DEF Tick, WindowInv, TypeOK
  <1>2. TypeOK'
    <2>1. \A i \in 1..Len(log) : log[i].score <= log[i].at /\ log[i].at <= clock + 1
      BY <1>1, LogTypes
    <2>2. zset' \in SUBSET (1..Len(log))
      BY <1>1 DEF WindowInv, TypeOK
    <2> QED BY <1>1, <2>1, <2>2 DEF WindowInv, TypeOK
  <1>3. Recent'
    <2> SUFFICES ASSUME NEW t \in Task, NEW now \in read'[t]
                 PROVE  now <= clock' /\ clock' - now <= CmdTimeout
      BY DEF Recent
    <2>1. now \in Nat /\ now <= clock /\ clock - now < CmdTimeout
      BY <1>1 DEF Tick, WindowInv, TypeOK, Recent
    <2> QED BY <1>1, <2>1, RateAssumption
  <1>4. Kept'
    <2> SUFFICES ASSUME NEW i \in 1..Len(log), i \notin zset'
                 PROVE  log[i].score + Window <= clock + 1
      BY <1>1 DEF Kept
    <2>1. /\ log[i].score \in Nat /\ log[i].at \in Nat /\ log[i].score <= log[i].at
          /\ log[i].at + Window + Buffer <= expires /\ expires \in Nat
      BY LogTypes DEF WindowInv, Outlived
    <2>2. CASE i \notin zset
      BY <1>1, <2>1, <2>2, RateAssumption DEF WindowInv, Kept
    <2>3. CASE expires <= clock + 1
      BY <1>1, <2>1, <2>3, RateAssumption
    <2> QED BY <2>2, <2>3 DEF Tick
  <1>5. Scored' /\ Ordered' /\ Outlived' /\ Limited'
    BY <1>1 DEF WindowInv, Scored, Ordered, Outlived, Limited
  <1> QED BY <1>2, <1>3, <1>4, <1>5 DEF WindowInv

\* Every step keeps the invariant.
LEMMA WindowStep == WindowInv /\ [Next]_vars => WindowInv'
  <1> SUFFICES ASSUME WindowInv, [Next]_vars PROVE WindowInv'
    OBVIOUS
  <1>1. ASSUME NEW t \in Task, Begin(t) PROVE WindowInv'
    BY <1>1, RateAssumption
    DEF Begin, WindowInv, TypeOK, Recent, Scored, Kept, Ordered, Outlived, Limited
  <1>2. ASSUME NEW t \in Task, Eval(t) PROVE WindowInv'
    <2>1. PICK now \in read[t] : Admit(now) \/ Refuse(now)
      BY <1>2 DEF Eval
    <2>2. read' = [read EXCEPT ![t] = {}] /\ UNCHANGED clock
      BY <1>2 DEF Eval
    <2>3. CASE Admit(now)
      BY <2>2, <2>3, AdmitKeeps
    <2>4. CASE Refuse(now)
      <3>1. Oldest(InWindow(now)) \subseteq 1..Len(log)
        BY DEF Oldest, InWindow, WindowInv, TypeOK
      <3>2. told' \in SUBSET [at : Nat, reset : Nat]
        BY <2>4, <3>1, RateAssumption, LogTypes DEF Refuse, ResetAt
      <3> QED BY <2>2, <2>4, <3>2, PruneKeeps DEF Refuse
    <2> QED BY <2>1, <2>3, <2>4
  <1>3. ASSUME NEW t \in Task, Fail(t) PROVE WindowInv'
    BY <1>3
    DEF Fail, WindowInv, TypeOK, Recent, Scored, Kept, Ordered, Outlived, Limited
  <1>4. ASSUME NEW t \in Task, Count(t) PROVE WindowInv'
    <2>1. told' \in SUBSET [at : Nat, reset : Nat]
      BY <1>4 DEF Count, WindowInv, TypeOK
    <2> QED BY <1>4, <2>1, PruneKeeps DEF Count
  <1>5. CASE Tick
    BY <1>5, TickKeeps
  <1>6. CASE UNCHANGED vars
    BY <1>6
    DEF vars, WindowInv, TypeOK, Recent, Scored, Kept, Ordered, Outlived, Limited
  <1> QED BY <1>1, <1>2, <1>3, <1>4, <1>5, <1>6 DEF Next

LEMMA WindowAlways == Spec => []WindowInv
  BY WindowInit, WindowStep, PTL DEF Spec

\* The invariant, with what the reset_at of a refusal promises: the set never
\* holds more than Max, and until somebody is admitted the member the refusal
\* named is either still there or has left a place.
Small == IsFiniteSet(zset) /\ Cardinality(zset) <= Max

Undisturbed(r) == \A i \in 1..Len(log) : log[i].at < r.at

Place(r) ==
  \E i \in 1..Len(log) : r.reset = ResetAt(i) /\ (i \in zset \/ Cardinality(zset) < Max)

Promised == \A r \in told : r.at <= clock /\ (Undisturbed(r) => Place(r))

ResetInv == Small /\ Promised

\* Nobody was refused yet.
LEMMA ResetInit == Init => ResetInv
  <1> SUFFICES ASSUME Init PROVE ResetInv
    OBVIOUS
  <1>1. IsFiniteSet({}) /\ Cardinality({}) = 0
    BY FS_EmptySet
  <1> QED BY <1>1, RateAssumption DEF Init, ResetInv, Small, Promised

\* A promise outlives whatever leaves the log alone and removes members: the
\* named member stays, or its place is free.
LEMMA ShrinkKeeps ==
  ASSUME WindowInv, ResetInv, zset' \subseteq zset, log' = log, clock' \in Nat,
         clock <= clock', told' = told
  PROVE  ResetInv'
  <1>1. /\ IsFiniteSet(zset') /\ Cardinality(zset') <= Cardinality(zset)
        /\ Cardinality(zset') \in Nat /\ Cardinality(zset) \in Nat /\ Max \in Nat
        /\ Cardinality(zset) <= Max
    BY FS_Subset, FS_CardinalityType, RateAssumption DEF ResetInv, Small
  <1>2. Small'
    BY <1>1 DEF Small
  <1>3. ASSUME NEW r \in told, Undisturbed(r)' PROVE Place(r)'
    <2>1. PICK i \in 1..Len(log) :
            r.reset = ResetAt(i) /\ (i \in zset \/ Cardinality(zset) < Max)
      BY <1>3 DEF ResetInv, Promised, Undisturbed, Place
    <2>2. i \in zset' \/ Cardinality(zset') < Max
      <3>1. CASE i \in zset /\ i \notin zset'
        <4>1. Cardinality(zset \ {i}) = Cardinality(zset) - 1 /\ IsFiniteSet(zset \ {i})
          BY <3>1, FS_RemoveElement DEF ResetInv, Small
        <4>2. Cardinality(zset') <= Cardinality(zset \ {i})
          BY <3>1, <4>1, FS_Subset
        <4> QED BY <1>1, <4>1, <4>2
      <3>2. CASE Cardinality(zset) < Max
        BY <1>1, <3>2
      <3> QED BY <2>1, <3>1, <3>2
    <2> QED BY <2>1, <2>2 DEF Place, ResetAt
  <1>4. \A r \in told : r.at <= clock'
    BY DEF ResetInv, Promised, WindowInv, TypeOK
  <1> QED BY <1>2, <1>3, <1>4 DEF ResetInv, Promised

\* An admission fills at most the last place and disturbs every promise.
LEMMA AdmitResets ==
  ASSUME WindowInv, ResetInv, NEW now \in Nat, now <= clock, Admit(now), clock' = clock
  PROVE  ResetInv'
  <1> DEFINE n == Len(log) + 1
             e == [score |-> now, at |-> clock]
  <1>1. /\ log' = Append(log, e) /\ zset' = InWindow(now) \cup {n} /\ told' = told
        /\ Cardinality(InWindow(now)) < Max
    BY DEF Admit
  <1>2. log \in Seq([score : Nat, at : Nat]) /\ Len(log) \in Nat /\ clock \in Nat
    BY DEF WindowInv, TypeOK
  <1>3. Len(log') = n /\ log'[n].at = clock /\ n \in 1..n
    BY <1>1, <1>2
  <1>4. IsFiniteSet(InWindow(now)) /\ InWindow(now) \subseteq 1..Len(log)
    BY InWindowKeeps DEF WindowInv, TypeOK
  <1>5. n \notin InWindow(now)
    BY <1>2, <1>4
  <1>6. /\ IsFiniteSet(zset') /\ Cardinality(zset') = Cardinality(InWindow(now)) + 1
    BY <1>1, <1>4, <1>5, FS_AddElement
  <1>7. Small'
    BY <1>1, <1>4, <1>6, FS_CardinalityType, RateAssumption DEF Small
  <1>8. ASSUME NEW r \in told PROVE r.at <= clock /\ ~Undisturbed(r)'
    <2>1. r.at <= clock /\ r.at \in Nat
      BY DEF ResetInv, Promised, WindowInv, TypeOK
    <2>2. ~(log'[n].at < r.at)
      BY <1>2, <1>3, <2>1
    <2> QED BY <1>3, <2>1, <2>2 DEF Undisturbed
  <1> QED BY <1>1, <1>7, <1>8 DEF ResetInv, Promised

\* A refusal names a member of the set.
LEMMA RefuseResets ==
  ASSUME WindowInv, ResetInv, NEW now \in Nat, now <= clock, Refuse(now), clock' = clock
  PROVE  ResetInv'
  <1>1. /\ zset' = InWindow(now) /\ log' = log
        /\ told' = {[at |-> clock, reset |-> ResetAt(i)] : i \in Oldest(InWindow(now))}
    BY DEF Refuse
  <1>2. InWindow(now) \subseteq zset /\ zset \subseteq 1..Len(log) /\ clock \in Nat
    BY InWindowKeeps DEF WindowInv, TypeOK
  <1>3. Small'
    <2>1. /\ IsFiniteSet(zset') /\ Cardinality(zset') <= Cardinality(zset)
          /\ Cardinality(zset') \in Nat /\ Cardinality(zset) \in Nat /\ Max \in Nat
          /\ Cardinality(zset) <= Max
      BY <1>1, <1>2, FS_Subset, FS_CardinalityType, RateAssumption DEF ResetInv, Small
    <2> QED BY <2>1 DEF Small
  <1>4. ASSUME NEW r \in told' PROVE r.at <= clock /\ Place(r)'
    <2>1. PICK i \in Oldest(InWindow(now)) : r = [at |-> clock, reset |-> ResetAt(i)]
      BY <1>1
    <2>2. i \in zset' /\ i \in 1..Len(log)
      BY <1>1, <1>2 DEF Oldest
    <2>3. r.at <= clock /\ r.reset = ResetAt(i)
      BY <1>2, <2>1
    <2> QED BY <1>1, <2>2, <2>3 DEF Place, ResetAt
  <1> QED BY <1>1, <1>3, <1>4 DEF ResetInv, Promised

\* Every step keeps what refusals promised.
LEMMA ResetStep == WindowInv /\ ResetInv /\ [Next]_vars => ResetInv'
  <1> SUFFICES ASSUME WindowInv, ResetInv, [Next]_vars PROVE ResetInv'
    OBVIOUS
  <1>1. ASSUME NEW t \in Task, NEW now \in read[t] PROVE now \in Nat /\ now <= clock
    BY DEF WindowInv, TypeOK, Recent
  <1>2. clock \in Nat
    BY DEF WindowInv, TypeOK
  <1>3. ASSUME NEW t \in Task, Begin(t) \/ Fail(t) PROVE ResetInv'
    BY <1>2, <1>3, ShrinkKeeps DEF Begin, Fail
  <1>4. ASSUME NEW t \in Task, Eval(t) PROVE ResetInv'
    <2>1. PICK now \in read[t] : Admit(now) \/ Refuse(now)
      BY <1>4 DEF Eval
    <2>2. now \in Nat /\ now <= clock /\ clock' = clock
      BY <1>1, <1>4 DEF Eval
    <2> QED BY <2>1, <2>2, AdmitResets, RefuseResets
  <1>5. ASSUME NEW t \in Task, Count(t) PROVE ResetInv'
    <2>1. PICK now \in read[t] : zset' = InWindow(now)
      BY <1>5 DEF Count
    <2>2. zset' \subseteq zset
      BY <2>1 DEF InWindow
    <2> QED BY <1>2, <1>5, <2>2, ShrinkKeeps DEF Count
  <1>6. CASE Tick
    <2>1. /\ zset' \subseteq zset /\ log' = log /\ told' = told
          /\ clock' \in Nat /\ clock <= clock'
      BY <1>2, <1>6 DEF Tick
    <2> QED BY <2>1, ShrinkKeeps
  <1>7. CASE UNCHANGED vars
    BY <1>2, <1>7, ShrinkKeeps DEF vars
  <1> QED BY <1>3, <1>4, <1>5, <1>6, <1>7 DEF Next

\* At its reset_at the member a refusal named is out of every window, so that
\* fewer than Max are left.
LEMMA PromiseKept == WindowInv /\ ResetInv => ResetIsEnough
  <1> SUFFICES ASSUME WindowInv, ResetInv, NEW r \in told, clock >= r.reset,
                      \A i \in 1..Len(log) : log[i].at < r.at
               PROVE  Cardinality(InWindow(clock)) < Max
    BY DEF ResetIsEnough
  <1>1. PICK i \in 1..Len(log) :
          r.reset = ResetAt(i) /\ (i \in zset \/ Cardinality(zset) < Max)
    BY DEF ResetInv, Promised, Undisturbed, Place
  <1>2. /\ log[i].score \in Nat /\ clock \in Nat
        /\ log[i].score + Window + Buffer <= clock
    BY <1>1, LogTypes DEF ResetAt
  <1>3. InWindow(clock) \subseteq zset \ {i}
    BY <1>2, RateAssumption DEF InWindow
  <1>4. /\ IsFiniteSet(zset) /\ Cardinality(zset) <= Max /\ Cardinality(zset) \in Nat
        /\ Max \in Nat
    BY FS_CardinalityType, RateAssumption DEF ResetInv, Small
  <1>5. /\ IsFiniteSet(zset \ {i})
        /\ Cardinality(InWindow(clock)) <= Cardinality(zset \ {i})
        /\ Cardinality(InWindow(clock)) \in Nat
    BY <1>3, <1>4, FS_Subset, FS_CardinalityType
  <1>6. CASE i \in zset
    <2>1. Cardinality(zset \ {i}) = Cardinality(zset) - 1
      BY <1>4, <1>6, FS_RemoveElement
    <2> QED BY <1>4, <1>5, <2>1
  <1>7. CASE i \notin zset
    <2>1. zset \ {i} = zset
      BY <1>7
    <2>2. Cardinality(InWindow(clock)) <= Cardinality(zset)
      BY <1>5, <2>1
    <2>3. Cardinality(zset) < Max
      BY <1>1, <1>7
    <2> QED BY <1>4, <1>5, <2>2, <2>3
  <1> QED BY <1>6, <1>7

-----------------------------------------------------------------------------
\* Every reachable state of the limiter is well typed, and no admission is
\* scored or executed in the future.
THEOREM TypeCorrect == Spec => []TypeOK
  <1>1. WindowInv => TypeOK
    BY DEF WindowInv
  <1> QED BY WindowAlways, <1>1, PTL

\* rate_limit_check admits at most max_requests in any stretch shorter than
\* the window less the command timeout, for any number of requests, however
\* their scripts are delayed, reordered or lost.
THEOREM AdmissionsAreLimited == Spec => []Limited
  <1>1. WindowInv => Limited
    BY DEF WindowInv
  <1> QED BY WindowAlways, <1>1, PTL

\* A client that rate_limit_check refused and that waits until the reset_at it
\* was given finds room if nobody was admitted meanwhile, for any window,
\* maximum and number of requests, although counters and late scripts prune
\* the set with other clock readings.
THEOREM ResetsSuffice == Spec => []ResetIsEnough
  <1>1. WindowInv /\ ResetInv => ResetIsEnough
    BY PromiseKept
  <1>2. Spec => []ResetInv
    BY WindowAlways, ResetInit, ResetStep, PTL DEF Spec
  <1> QED BY WindowAlways, <1>1, <1>2, PTL
-----------------------------------------------------------------------------
(***************************************************************************)
(* The login guard: its types, and the bound on the failures a block can   *)
(* be overshot by (theorem BlocksHold).  An attempt that has passed the    *)
(* backoff check is a failure that may still be counted: the failures and  *)
(* these attempts together never exceed what they were when the last       *)
(* attempt passed, unless the key's last second let it pass.               *)
(***************************************************************************)
\* Scripts are left only while an attempt waits for them, and the password is
\* looked at only when none refused.
Shape ==
  \A a \in Attempt :
    /\ att[a].left # {} => att[a].pc = "join"
    /\ att[a].pc \in {"verify", "failed"} => att[a].no = {}

Active == {a \in Attempt : att[a].pc # "idle"}

\* An attempt in progress is a failure that may still be counted.
Counted == count + Cardinality(Active) <= MaxCount + Cardinality(Attempt)

GuardInv == LoginTypeOK /\ Shape /\ Counted /\ OvershootBounded

-----------------------------------------------------------------------------
\* Sets of attempts are finite and no larger than Attempt.
LEMMA AttemptSets ==
  ASSUME NEW S, S \subseteq Attempt
  PROVE  /\ IsFiniteSet(S) /\ Cardinality(S) \in Nat
         /\ Cardinality(S) <= Cardinality(Attempt) /\ Cardinality(Attempt) \in Nat
  BY GuardAssumption, FS_Subset, FS_CardinalityType

\* A set of attempts that loses members does not grow.
LEMMA Shrinks ==
  ASSUME NEW S, NEW T, S \subseteq Attempt, T \subseteq S
  PROVE  Cardinality(T) <= Cardinality(S) /\ Cardinality(T) \in Nat /\ Cardinality(S) \in Nat
  BY AttemptSets, FS_Subset

\* One member fewer.
LEMMA Leaves ==
  ASSUME NEW S, NEW T, S \subseteq Attempt, NEW a \in S, T \subseteq S \ {a}
  PROVE  Cardinality(T) + 1 <= Cardinality(S) /\ Cardinality(T) \in Nat /\ Cardinality(S) \in Nat
  <1>1. IsFiniteSet(S) /\ Cardinality(S) \in Nat
    BY AttemptSets
  <1>2. Cardinality(S \ {a}) = Cardinality(S) - 1 /\ IsFiniteSet(S \ {a})
    BY <1>1, FS_RemoveElement
  <1>3. Cardinality(T) <= Cardinality(S \ {a}) /\ Cardinality(T) \in Nat
    BY <1>2, FS_Subset, FS_CardinalityType
  <1> QED BY <1>1, <1>2, <1>3

\* The lifetimes the code sets are positive.
LEMMA Lifetimes ==
  \A n \in Nat : IncrementTTL(n) \in Nat \ {0}
  BY GuardAssumption DEF IncrementTTL, backoff_params

\* The counts of attempts that a step moves, as numbers.
LEMMA Numbers ==
  ASSUME LoginTypeOK
  PROVE  /\ count \in Nat /\ ttl \in Nat /\ MaxCount \in Nat /\ Step1 \in Nat /\ Step1 > 1
         /\ Passed \subseteq Attempt /\ Active \subseteq Attempt
         /\ Cardinality(Passed) \in Nat /\ Cardinality(Active) \in Nat
         /\ Cardinality(Attempt) \in Nat
         /\ Cardinality(Passed) <= Cardinality(Attempt)
         /\ Cardinality(Active) <= Cardinality(Attempt)
  <1>1. Passed \subseteq Attempt /\ Active \subseteq Attempt
    BY DEF Passed, Active
  <1> QED BY <1>1, AttemptSets, GuardAssumption DEF LoginTypeOK

\* A step of one attempt that leaves the counter alone and passes no check
\* keeps the bounds.
LEMMA QuietKeeps ==
  ASSUME GuardInv, LoginTypeOK', UNCHANGED count, late => late',
         Passed' \subseteq Passed, Active' \subseteq Active
  PROVE  Counted' /\ OvershootBounded'
  <1>1. /\ Cardinality(Passed') <= Cardinality(Passed)
        /\ Cardinality(Active') <= Cardinality(Active)
        /\ Cardinality(Passed') \in Nat /\ Cardinality(Active') \in Nat
    BY Numbers, Shrinks DEF GuardInv
  <1>2. /\ count \in Nat /\ MaxCount \in Nat /\ Step1 \in Nat
        /\ Cardinality(Passed) \in Nat /\ Cardinality(Active) \in Nat
        /\ Cardinality(Attempt) \in Nat
    BY Numbers DEF GuardInv
  <1> QED BY <1>1, <1>2 DEF GuardInv, Counted, OvershootBounded
-----------------------------------------------------------------------------
\* Initially nobody has failed and nothing is under way.
LEMMA GuardInit == InitLogin => GuardInv
  <1> SUFFICES ASSUME InitLogin PROVE GuardInv
    OBVIOUS
  <1>1. Idle \in Jobs /\ Idle.pc = "idle" /\ Idle.left = {} /\ Idle.no = {}
    BY DEF Idle, Job, Jobs, Pc
  <1>2. Cardinality(Attempt) \in Nat /\ MaxCount \in Nat /\ Step1 \in Nat /\ Step1 > 1
    BY GuardAssumption, FS_CardinalityType
  <1>3. LoginTypeOK
    <2>1. busy = [k \in Limit |-> [s \in Slot[k] |-> 0]] /\ 0 \in 0..LimitWindow
      BY GuardAssumption DEF InitLogin
    <2>2. DOMAIN busy = Limit /\ \A k \in Limit : busy[k] \in [Slot[k] -> 0..LimitWindow]
      BY <2>1
    <2>3. att \in [Attempt -> Jobs]
      BY <1>1 DEF InitLogin
    <2>4. 0 \in 0..MaxCount + Cardinality(Attempt)
      BY <1>2
    <2>5. count = 0 /\ ttl = 0
      BY DEF InitLogin
    <2>6. late \in BOOLEAN
      BY DEF InitLogin
    <2> QED BY <2>2, <2>3, <2>4, <2>5, <2>6 DEF LoginTypeOK
  <1>4. Active = {} /\ Passed = {}
    BY <1>1 DEF InitLogin, Active, Passed
  <1>5. Cardinality({}) = 0
    BY FS_EmptySet
  <1>6. Shape
    BY <1>1 DEF InitLogin, Shape
  <1>7. Counted /\ OvershootBounded
    BY <1>2, <1>4, <1>5 DEF InitLogin, Counted, OvershootBounded
  <1> QED BY <1>3, <1>6, <1>7 DEF GuardInv

LEMMA BeginLoginKeeps ==
  ASSUME GuardInv, NEW a \in Attempt, BeginLogin(a)
  PROVE  GuardInv'
  <1> DEFINE j == Job("join", Scripts, {})
  <1>1. /\ j \in Jobs /\ j.pc = "join" /\ j.left = Scripts /\ j.no = {}
        /\ "backoff" \in Scripts
    BY DEF Job, Jobs, Pc, Scripts
  <1>2. /\ att' = [att EXCEPT ![a] = j] /\ att[a].pc = "idle" /\ count < MaxCount
        /\ UNCHANGED <<count, ttl, busy, late>> /\ att \in [Attempt -> Jobs]
    BY DEF BeginLogin, GuardInv, LoginTypeOK
  <1>3. att' \in [Attempt -> Jobs] /\ att'[a] = j /\ \A b \in Attempt \ {a} : att'[b] = att[b]
    BY <1>1, <1>2
  <1> HIDE DEF j
  <1>4. LoginTypeOK'
    BY <1>2, <1>3 DEF GuardInv, LoginTypeOK
  <1>5. Shape'
    BY <1>1, <1>3 DEF GuardInv, Shape
  <1>6. Passed' \subseteq Passed
    BY <1>1, <1>3 DEF Passed
  <1>7. OvershootBounded'
    <2>1. Cardinality(Passed') <= Cardinality(Passed) /\ Cardinality(Passed') \in Nat
      BY <1>6, Numbers, Shrinks DEF GuardInv
    <2> QED BY <1>2, <2>1, Numbers DEF GuardInv, OvershootBounded
  <1>8. Counted'
    <2>1. Cardinality(Active') <= Cardinality(Attempt) /\ Cardinality(Active') \in Nat
      BY <1>4, AttemptSets DEF Active
    <2> QED BY <1>2, <2>1, Numbers DEF GuardInv, Counted
  <1> QED BY <1>4, <1>5, <1>7, <1>8 DEF GuardInv

\* The backoff check: an attempt passes below the first step, or in the key's
\* last second, which late records.
LEMMA CheckBackoffKeeps ==
  ASSUME GuardInv, NEW a \in Attempt, CheckBackoff(a)
  PROVE  GuardInv'
  <1>1. PICK r \in TTLReplies :
          LET blocked == count >= Step1 /\ r > 0 IN
          /\ att' = [att EXCEPT ![a].left = @ \ {"backoff"},
                                ![a].no = IF blocked THEN @ \cup {"backoff"} ELSE @]
          /\ late' = (late \/ (count >= Step1 /\ ~blocked))
    BY DEF CheckBackoff
  <1> DEFINE blocked == count >= Step1 /\ r > 0
  <1>2. /\ "backoff" \in att[a].left /\ UNCHANGED <<count, ttl, busy>>
        /\ att \in [Attempt -> Jobs]
    BY DEF CheckBackoff, GuardInv, LoginTypeOK
  <1>3. att[a] \in Jobs /\ att[a].pc = "join"
    BY <1>2 DEF GuardInv, Shape
  <1>4. /\ DOMAIN att' = Attempt /\ att'[a].pc = "join"
        /\ att'[a].left = att[a].left \ {"backoff"}
        /\ att'[a].no = IF blocked THEN att[a].no \cup {"backoff"} ELSE att[a].no
        /\ \A b \in Attempt \ {a} : att'[b] = att[b]
        /\ att'[a] \in Jobs /\ att' = [b \in Attempt |-> att'[b]]
    BY <1>1, <1>2, <1>3 DEF Jobs, Scripts
  <1>5. late' = (late \/ (count >= Step1 /\ ~blocked)) /\ late \in BOOLEAN /\ late' \in BOOLEAN
    BY <1>1 DEF GuardInv, LoginTypeOK
  <1> HIDE DEF blocked
  <1>6. LoginTypeOK'
    <2>1. att' \in [Attempt -> Jobs]
      BY <1>2, <1>4
    <2> QED BY <1>2, <1>5, <2>1 DEF GuardInv, LoginTypeOK
  <1>7. Shape'
    BY <1>4 DEF GuardInv, Shape
  <1>8. Active' = Active
    BY <1>3, <1>4 DEF Active
  <1>9. Counted'
    BY <1>2, <1>8 DEF GuardInv, Counted
  <1>10. CASE count < Step1
    <2>1. Cardinality(Passed') <= Cardinality(Attempt) /\ Cardinality(Passed') \in Nat
      BY AttemptSets DEF Passed
    <2>2. OvershootBounded'
      BY <1>2, <1>10, <2>1, Numbers DEF GuardInv, OvershootBounded
    <2> QED BY <1>6, <1>7, <1>9, <2>2 DEF GuardInv
  <1>11. CASE count >= Step1 /\ blocked
    <2>1. Passed' \subseteq Passed
      BY <1>4, <1>11 DEF Passed
    <2>2. OvershootBounded'
      BY <1>2, <1>5, <1>6, <1>8, <2>1, QuietKeeps
    <2> QED BY <1>6, <1>7, <1>9, <2>2 DEF GuardInv
  <1>12. CASE count >= Step1 /\ ~blocked
    <2>1. OvershootBounded'
      BY <1>5, <1>12 DEF OvershootBounded
    <2> QED BY <1>6, <1>7, <1>9, <2>1 DEF GuardInv
  <1> QED BY <1>10, <1>11, <1>12, Numbers DEF GuardInv

\* A rate limit's slots stay within the window.
LEMMA BusyTypes ==
  ASSUME LoginTypeOK, NEW a \in Attempt, NEW k \in Limit, CheckLimit(a, k)
  PROVE  DOMAIN busy' = Limit /\ \A m \in Limit : busy'[m] \in [Slot[m] -> 0..LimitWindow]
  <1>1. /\ DOMAIN busy = Limit /\ \A m \in Limit : busy[m] \in [Slot[m] -> 0..LimitWindow]
        /\ LimitWindow \in Nat /\ LimitWindow \in 0..LimitWindow
    BY GuardAssumption DEF LoginTypeOK
  <1>2. CASE \A s \in Slot[k] : busy[k][s] > 0
    BY <1>1, <1>2 DEF CheckLimit
  <1>3. CASE ~ \A s \in Slot[k] : busy[k][s] > 0
    <2> DEFINE f == CHOOSE s \in Slot[k] : busy[k][s] = 0
    <2>1. busy' = [busy EXCEPT ![k][f] = LimitWindow]
      BY <1>3 DEF CheckLimit
    <2>2. DOMAIN busy' = Limit
      BY <1>1, <2>1
    <2>3. /\ busy'[k] = [busy[k] EXCEPT ![f] = LimitWindow]
          /\ \A m \in Limit \ {k} : busy'[m] = busy[m]
      BY <1>1, <2>1
    <2>4. busy'[k] \in [Slot[k] -> 0..LimitWindow]
      BY <1>1, <2>3
    <2> QED BY <1>1, <2>2, <2>3, <2>4
  <1> QED BY <1>2, <1>3

\* A rate limit's answer passes no backoff check.
LEMMA CheckLimitKeeps ==
  ASSUME GuardInv, NEW a \in Attempt, NEW k \in Limit, CheckLimit(a, k)
  PROVE  GuardInv'
  <1>1. /\ k \in att[a].left /\ UNCHANGED <<count, ttl, late>> /\ k \in Scripts
        /\ k # "backoff" /\ att \in [Attempt -> Jobs]
    BY DEF CheckLimit, GuardInv, LoginTypeOK, Scripts, Limit
  <1>2. att[a] \in Jobs /\ att[a].pc = "join"
    BY <1>1 DEF GuardInv, Shape
  <1>3. /\ DOMAIN att' = Attempt /\ att'[a].pc = "join"
        /\ att'[a].left = att[a].left \ {k}
        /\ att'[a].no \in {att[a].no, att[a].no \cup {k}}
        /\ \A b \in Attempt \ {a} : att'[b] = att[b]
        /\ att'[a] \in Jobs /\ att' = [b \in Attempt |-> att'[b]]
    <2>1. CASE \A s \in Slot[k] : busy[k][s] > 0
      <3>1. att' = [att EXCEPT ![a].left = @ \ {k}, ![a].no = @ \cup {k}]
        BY <2>1 DEF CheckLimit
      <3> QED BY <3>1, <1>1, <1>2 DEF Jobs
    <2>2. CASE ~ \A s \in Slot[k] : busy[k][s] > 0
      <3>1. att' = [att EXCEPT ![a].left = @ \ {k}]
        BY <2>2 DEF CheckLimit
      <3> QED BY <3>1, <1>1, <1>2 DEF Jobs
    <2> QED BY <2>1, <2>2
  <1>4. LoginTypeOK'
    <2>1. att' \in [Attempt -> Jobs]
      BY <1>1, <1>3
    <2>2. DOMAIN busy' = Limit /\ \A m \in Limit : busy'[m] \in [Slot[m] -> 0..LimitWindow]
      BY BusyTypes DEF GuardInv
    <2> QED BY <1>1, <2>1, <2>2 DEF GuardInv, LoginTypeOK
  <1>5. Shape'
    BY <1>3 DEF GuardInv, Shape
  <1>6. Active' \subseteq Active /\ Passed' \subseteq Passed
    BY <1>1, <1>2, <1>3 DEF Active, Passed
  <1> QED BY <1>1, <1>4, <1>5, <1>6, QuietKeeps DEF GuardInv

\* An attempt that ends frees its place in every count.
LEMMA EndKeeps ==
  ASSUME GuardInv, NEW a \in Attempt, att' = [att EXCEPT ![a] = Idle],
         UNCHANGED <<count, ttl, busy, late>>
  PROVE  GuardInv'
  <1>1. Idle \in Jobs /\ Idle.pc = "idle" /\ Idle.left = {} /\ Idle.no = {}
    BY DEF Idle, Job, Jobs, Pc
  <1>2. att' \in [Attempt -> Jobs] /\ att'[a] = Idle /\ \A b \in Attempt \ {a} : att'[b] = att[b]
    BY <1>1 DEF GuardInv, LoginTypeOK
  <1>3. LoginTypeOK'
    BY <1>2 DEF GuardInv, LoginTypeOK
  <1>4. Shape'
    BY <1>1, <1>2 DEF GuardInv, Shape
  <1>5. Active' \subseteq Active /\ Passed' \subseteq Passed
    BY <1>1, <1>2 DEF Active, Passed
  <1> QED BY <1>3, <1>4, <1>5, QuietKeeps DEF GuardInv

\* An attempt all of whose scripts let it pass goes on to the password.
LEMMA JoinedKeeps ==
  ASSUME GuardInv, NEW a \in Attempt, Joined(a)
  PROVE  GuardInv'
  <1>1. /\ att[a].pc = "join" /\ att[a].left = {} /\ UNCHANGED <<count, ttl, busy, late>>
        /\ att \in [Attempt -> Jobs]
    BY DEF Joined, GuardInv, LoginTypeOK
  <1>2. CASE att[a].no # {}
    <2>1. att' = [att EXCEPT ![a] = Idle]
      BY <1>2 DEF Joined
    <2> QED BY <1>1, <2>1, EndKeeps
  <1>3. CASE att[a].no = {}
    <2> DEFINE j == Job("verify", {}, {})
    <2>1. j \in Jobs /\ j.pc = "verify" /\ j.left = {} /\ j.no = {}
      BY DEF Job, Jobs, Pc
    <2>2. att' = [att EXCEPT ![a] = j]
      BY <1>3 DEF Joined
    <2>3. att' \in [Attempt -> Jobs] /\ att'[a] = j /\ \A b \in Attempt \ {a} : att'[b] = att[b]
      BY <1>1, <2>1, <2>2
    <2> HIDE DEF j
    <2>4. LoginTypeOK'
      BY <1>1, <2>3 DEF GuardInv, LoginTypeOK
    <2>5. Shape'
      BY <2>1, <2>3 DEF GuardInv, Shape
    <2>6. Active' \subseteq Active /\ Passed' \subseteq Passed
      BY <1>1, <1>3, <2>1, <2>3 DEF Active, Passed
    <2> QED BY <1>1, <2>4, <2>5, <2>6, QuietKeeps DEF GuardInv
  <1> QED BY <1>2, <1>3

\* The password is right or wrong.
LEMMA VerifyKeeps ==
  ASSUME GuardInv, NEW a \in Attempt, Verify(a)
  PROVE  GuardInv'
  <1>1. /\ att[a].pc = "verify" /\ UNCHANGED <<count, ttl, busy, late>>
        /\ att \in [Attempt -> Jobs] /\ att[a] \in Jobs
    BY DEF Verify, GuardInv, LoginTypeOK
  <1>2. CASE att' = [att EXCEPT ![a] = Idle]
    BY <1>1, <1>2, EndKeeps
  <1>3. CASE att' = [att EXCEPT ![a].pc = "failed"]
    <2>1. /\ att'[a].pc = "failed" /\ att'[a].left = att[a].left /\ att'[a].no = att[a].no
          /\ att'[a] \in Jobs /\ \A b \in Attempt \ {a} : att'[b] = att[b]
          /\ att' \in [Attempt -> Jobs]
      BY <1>1, <1>3 DEF Jobs, Pc
    <2>2. LoginTypeOK'
      BY <1>1, <2>1 DEF GuardInv, LoginTypeOK
    <2>3. Shape'
      BY <1>1, <2>1 DEF GuardInv, Shape
    <2>4. Active' \subseteq Active /\ Passed' \subseteq Passed
      BY <1>1, <2>1 DEF Active, Passed
    <2> QED BY <1>1, <2>2, <2>3, <2>4, QuietKeeps DEF GuardInv
  <1> QED BY <1>2, <1>3 DEF Verify

\* A failure is counted: the attempt trades its place for it.
LEMMA IncrementKeeps ==
  ASSUME GuardInv, NEW a \in Attempt, Increment(a)
  PROVE  GuardInv'
  <1>1. /\ att[a].pc = "failed" /\ count' = count + 1 /\ ttl' = IncrementTTL(count + 1)
        /\ att' = [att EXCEPT ![a] = Idle] /\ UNCHANGED <<busy, late>>
        /\ count \in Nat
    BY Numbers DEF Increment, GuardInv
  <1>2. Idle \in Jobs /\ Idle.pc = "idle" /\ Idle.left = {} /\ Idle.no = {}
    BY DEF Idle, Job, Jobs, Pc
  <1>3. att' \in [Attempt -> Jobs] /\ att'[a] = Idle /\ \A b \in Attempt \ {a} : att'[b] = att[b]
    BY <1>1, <1>2 DEF GuardInv, LoginTypeOK
  <1>4. ttl' \in Nat \ {0}
    BY <1>1, Lifetimes
  <1>5. a \in Active /\ a \in Passed
    BY <1>1 DEF Active, Passed
  <1>6. Active' \subseteq Active \ {a} /\ Passed' \subseteq Passed \ {a}
    BY <1>2, <1>3 DEF Active, Passed
  <1>7. /\ Cardinality(Active') + 1 <= Cardinality(Active) /\ Cardinality(Active') \in Nat
        /\ Cardinality(Passed') + 1 <= Cardinality(Passed) /\ Cardinality(Passed') \in Nat
    BY <1>5, <1>6, Numbers, Leaves DEF GuardInv
  <1>8. Counted' /\ OvershootBounded'
    BY <1>1, <1>7, Numbers DEF GuardInv, Counted, OvershootBounded
  <1>9. count' \in 0..MaxCount + Cardinality(Attempt)
    BY <1>1, <1>7, <1>8, Numbers DEF GuardInv, Counted
  <1>10. LoginTypeOK'
    BY <1>1, <1>3, <1>4, <1>9 DEF GuardInv, LoginTypeOK
  <1>11. Shape'
    BY <1>2, <1>3 DEF GuardInv, Shape
  <1> QED BY <1>8, <1>10, <1>11 DEF GuardInv

\* Time passes; the counter goes with its key.
LEMMA TickLoginKeeps ==
  ASSUME GuardInv, TickLogin
  PROVE  GuardInv'
  <1>1. /\ ttl' = Less(ttl) /\ att' = att
        /\ count' = IF ttl <= 1 THEN 0 ELSE count
        /\ late' = (late /\ ttl > 1)
        /\ busy' = [k \in Limit |-> [s \in Slot[k] |-> Less(busy[k][s])]]
    BY DEF TickLogin
  <1>2. /\ count \in Nat /\ ttl \in Nat /\ late \in BOOLEAN
        /\ \A k \in Limit : busy[k] \in [Slot[k] -> 0..LimitWindow]
        /\ count > 0 <=> ttl > 0
        /\ count \in 0..MaxCount + Cardinality(Attempt)
    BY Numbers DEF GuardInv, LoginTypeOK
  <1>3. Passed' = Passed /\ Active' = Active
    BY <1>1 DEF Passed, Active
  <1>4. LoginTypeOK'
    <2>1. \A n \in 0..LimitWindow : Less(n) \in 0..LimitWindow
      BY GuardAssumption DEF Less
    <2>2. \A k \in Limit : busy'[k] \in [Slot[k] -> 0..LimitWindow]
      BY <1>1, <1>2, <2>1
    <2>3. ttl' \in Nat /\ (count' > 0 <=> ttl' > 0)
      BY <1>1, <1>2 DEF Less
    <2>4. count' \in 0..MaxCount + Cardinality(Attempt)
      BY <1>1, <1>2, Numbers DEF GuardInv
    <2>5. DOMAIN busy' = Limit /\ late' \in BOOLEAN
      BY <1>1, <1>2
    <2> QED BY <1>1, <2>2, <2>3, <2>4, <2>5 DEF GuardInv, LoginTypeOK
  <1>5. Shape'
    BY <1>1 DEF GuardInv, Shape
  <1>6. Counted' /\ OvershootBounded'
    <2>1. CASE ttl <= 1
      BY <1>1, <1>3, <2>1, Numbers DEF GuardInv, Counted, OvershootBounded
    <2>2. CASE ~(ttl <= 1)
      BY <1>1, <1>2, <1>3, <2>2, Numbers DEF GuardInv, Counted, OvershootBounded
    <2> QED BY <2>1, <2>2
  <1> QED BY <1>4, <1>5, <1>6 DEF GuardInv

\* Every step keeps the invariant.
LEMMA GuardStep == GuardInv /\ [NextLogin]_loginVars => GuardInv'
  <1> SUFFICES ASSUME GuardInv, [NextLogin]_loginVars PROVE GuardInv'
    OBVIOUS
  <1>1. CASE UNCHANGED loginVars
    BY <1>1 DEF loginVars, GuardInv, LoginTypeOK, Shape, Counted, OvershootBounded,
                Active, Passed
  <1>2. ASSUME NEW a \in Attempt, BeginLogin(a) PROVE GuardInv'
    BY <1>2, BeginLoginKeeps
  <1>3. ASSUME NEW a \in Attempt, Step(a) PROVE GuardInv'
    BY <1>3, CheckBackoffKeeps, CheckLimitKeeps, JoinedKeeps, VerifyKeeps, IncrementKeeps
    DEF Step
  <1>4. ASSUME NEW a \in Attempt, Abort(a) PROVE GuardInv'
    BY <1>4, EndKeeps DEF Abort
  <1>5. CASE TickLogin
    BY <1>5, TickLoginKeeps
  <1> QED BY <1>1, <1>2, <1>3, <1>4, <1>5 DEF NextLogin

LEMMA GuardAlways == LoginSpec => []GuardInv
  BY GuardInit, GuardStep, PTL DEF LoginSpec

\* Every reachable state of the guard is well typed: INCR and EXPIRE being one
\* script, a failure counter never outlives its TTL, and aborted attempts
\* leave nothing behind that counts.
THEOREM LoginTypeCorrect == LoginSpec => []LoginTypeOK
  <1>1. GuardInv => LoginTypeOK
    BY DEF GuardInv
  <1> QED BY GuardAlways, <1>1, PTL

\* login's block holds: for any number of concurrent attempts, in any order
\* of their scripts, no more failures are counted past the first step than
\* attempts were under way, except for those that pass in a key's last second.
THEOREM BlocksHold == LoginSpec => []OvershootBounded
  <1>1. GuardInv => OvershootBounded
    BY DEF GuardInv
  <1> QED BY GuardAlways, <1>1, PTL
=============================================================================
