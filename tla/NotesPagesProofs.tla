-------------------------- MODULE NotesPagesProofs --------------------------
(***************************************************************************)
(* Proofs about the list of notes: a walk over its pages is exact whatever *)
(* happens to the table meanwhile (WalksAreExact), what it shows can be    *)
(* opened (ListsAreReadable), and no note outlives its account             *)
(* (NotesHaveOwners).  The first rests on two things: a page is everything *)
(* above its last row (PageFacts), and a row that has been visible keeps   *)
(* its place, so that a cursor separates what was seen from what is left   *)
(* (CursorInv).                                                            *)
(***************************************************************************)
EXTENDS NotesPages, FiniteSetTheorems, WellFoundedInduction, TLAPS

\* A row that has been visible.
Placed(n) == notes[n].state \in {"present", "deleted"}

\* A walk that has not begun has seen nothing.
IdleInv(w) == w.state = "idle" => w.seen = {}

\* What a walk has seen, and what it must see, are rows of its user.
SeenInv(w) == \A n \in w.seen : Placed(n) /\ w.user \subseteq notes[n].user_id

StableInv(w) == \A n \in w.stable : Present(n) /\ w.user \subseteq notes[n].user_id

\* The cursor is above what is left to see, and not above what was seen.
CursorInv(w) ==
  w.state = "open" =>
    /\ w.cursor \in (0..MaxTime) \X Note
    /\ \A n \in w.seen : ~Less(Key(n), w.cursor)
    /\ \A n \in w.stable : n \in w.seen \/ Less(Key(n), w.cursor)

ExactInv(w) == w.ordered /\ (w.state = "done" => w.stable \subseteq w.seen)

WalkInv(w) == IdleInv(w) /\ SeenInv(w) /\ StableInv(w) /\ CursorInv(w) /\ ExactInv(w)

\* created_at is taken before the row is visible.
Past == \A n \in Note : notes[n].created_at <= now

PagesInv == TypeOK /\ Past /\ NoOrphans /\ \A r \in Reader : WalkInv(walk[r])

-----------------------------------------------------------------------------
(* The order of the list.                                                  *)

\* Less is a strict total order on positions.
LEMMA LessOrder ==
  ASSUME NEW a \in Nat \X Nat, NEW b \in Nat \X Nat
  PROVE  /\ ~Less(a, a)
         /\ a = b \/ Less(a, b) \/ Less(b, a)
         /\ Less(a, b) => ~Less(b, a)
         /\ \A c \in Nat \X Nat : Less(a, b) /\ Less(b, c) => Less(a, c)
         /\ \A c \in Nat \X Nat : Less(a, b) /\ ~Less(c, b) => Less(a, c)
  BY DEF Less

\* The types of a row.
LEMMA RowTypes ==
  ASSUME TypeOK, NEW n \in Note
  PROVE  /\ n \in Nat
         /\ notes[n] \in Row
         /\ notes[n].state \in {"none", "inserting", "present", "deleted"}
         /\ notes[n].user_id \in SUBSET User
         /\ notes[n].created_at \in 0..MaxTime /\ notes[n].updated_at \in 0..MaxTime
         /\ notes[n].created_at \in Nat
  BY ConstantAssumption DEF TypeOK, Row

\* Notes have positions of their own.
LEMMA KeyTypes ==
  ASSUME TypeOK, NEW n \in Note
  PROVE  /\ Key(n) \in (0..MaxTime) \X Note /\ Key(n) \in Nat \X Nat
         /\ Key(n)[1] = notes[n].created_at /\ Key(n)[2] = n
         /\ encode_cursor(Key(n)[1], n) = Key(n)
  BY RowTypes DEF Key, encode_cursor

\* The keys of two notes are one before the other.
LEMMA NotesDiffer ==
  ASSUME TypeOK, NEW m \in Note, NEW n \in Note, m # n
  PROVE  Less(Key(m), Key(n)) \/ Less(Key(n), Key(m))
  BY KeyTypes, LessOrder

\* Sets of notes are finite.
LEMMA NoteSets ==
  ASSUME NEW S, S \subseteq Note
  PROVE  IsFiniteSet(S) /\ Cardinality(S) \in Nat
  BY ConstantAssumption, FS_Subset, FS_CardinalityType

\* A family of sets of notes has a member that includes no other.
LEMMA Minimal ==
  ASSUME NEW F, F \subseteq SUBSET Note, F # {}
  PROVE  \E X \in F : \A Y \in F : Y \subseteq X => Y = X
  <1>1. IsWellFoundedOn(StrictSubsetOrdering(Note), FiniteSubsetsOf(Note))
    BY FS_StrictSubsetOrderingWellFounded
  <1>2. F \subseteq FiniteSubsetsOf(Note)
    BY NoteSets DEF FiniteSubsetsOf
  <1>3. PICK X \in F : \A Y \in F : <<Y, X>> \notin StrictSubsetOrdering(Note)
    BY <1>1, <1>2, WFMin
  <1> QED BY <1>3 DEF StrictSubsetOrdering

\* A set of notes has a newest one and an oldest one.
LEMMA NewestExists ==
  ASSUME TypeOK, NEW S, S \subseteq Note, S # {}
  PROVE  \E n \in S : Before(S, n) = {}
  <1>0. PICK F : F = {Before(S, n) : n \in S}
    OBVIOUS
  <1>1. PICK X \in F : \A Y \in F : Y \subseteq X => Y = X
    <2>1. F \subseteq SUBSET Note /\ F # {}
      BY <1>0 DEF Before
    <2> QED BY <2>1, Minimal
  <1>2. PICK n \in S : X = Before(S, n)
    BY <1>0
  <1>3. ASSUME NEW m \in Before(S, n) PROVE FALSE
    <2>1. m \in S /\ m \in Note /\ n \in Note /\ Less(Key(n), Key(m))
      BY DEF Before
    <2>2. Before(S, m) \subseteq Before(S, n)
      BY <2>1, KeyTypes, LessOrder DEF Before
    <2>3. m \notin Before(S, m)
      BY <2>1, KeyTypes, LessOrder DEF Before
    <2>4. Before(S, m) \in F
      BY <1>0, <2>1
    <2> QED BY <1>1, <1>2, <1>3, <2>2, <2>3, <2>4
  <1> QED BY <1>3

\* A nonempty set of notes has a last one.
LEMMA OldestExists ==
  ASSUME TypeOK, NEW S, S \subseteq Note, S # {}
  PROVE  Oldest(S) \in S /\ \A m \in S \ {Oldest(S)} : Less(Key(Oldest(S)), Key(m))
  <1> DEFINE after(n) == {m \in S : Less(Key(m), Key(n))}
  <1>0. PICK F : F = {after(n) : n \in S}
    OBVIOUS
  <1>1. PICK X \in F : \A Y \in F : Y \subseteq X => Y = X
    <2>1. F \subseteq SUBSET Note /\ F # {}
      BY <1>0
    <2> QED BY <2>1, Minimal
  <1>2. PICK n \in S : X = after(n)
    BY <1>0
  <1>3. ASSUME NEW m \in S, Less(Key(m), Key(n)) PROVE FALSE
    <2>1. m \in Note /\ n \in Note /\ m \in after(n)
      BY <1>3
    <2>2. after(m) \subseteq after(n)
      BY <1>3, <2>1, KeyTypes, LessOrder
    <2>3. m \notin after(m)
      BY <2>1, KeyTypes, LessOrder
    <2>4. after(m) \in F
      BY <1>0
    <2> QED BY <1>1, <1>2, <2>1, <2>2, <2>3, <2>4
  <1>4. \A m \in S \ {n} : Less(Key(n), Key(m))
    BY <1>3, NotesDiffer
  <1> QED BY <1>4 DEF Oldest

-----------------------------------------------------------------------------
(* Pages.                                                                  *)

\* A row before one of the first k is one of them.
LEMMA NewestIsOnTop ==
  ASSUME TypeOK, NEW ids, ids \subseteq Note, NEW k \in Nat,
         NEW n \in Newest(ids, k), NEW m \in ids, Less(Key(n), Key(m))
  PROVE  m \in Newest(ids, k)
  <1>1. n \in ids /\ n \in Note /\ m \in Note /\ Cardinality(Before(ids, n)) < k
    BY DEF Newest
  <1>2. Before(ids, m) \subseteq Before(ids, n)
    BY <1>1, KeyTypes, LessOrder DEF Before
  <1>3. Before(ids, n) \subseteq Note /\ Before(ids, m) \subseteq Note
    BY DEF Before
  <1>4. Cardinality(Before(ids, m)) <= Cardinality(Before(ids, n))
    BY <1>2, <1>3, NoteSets, FS_Subset
  <1>5. Cardinality(Before(ids, m)) \in Nat /\ Cardinality(Before(ids, n)) \in Nat
    BY <1>3, NoteSets
  <1> QED BY <1>1, <1>4, <1>5 DEF Newest

\* If LIMIT k did not find k rows, it found them all.
LEMMA NewestIsAll ==
  ASSUME TypeOK, NEW ids, ids \subseteq Note, NEW k \in Nat,
         Cardinality(Newest(ids, k)) < k
  PROVE  Newest(ids, k) = ids
  <1> DEFINE top == Newest(ids, k)
  <1>1. top \subseteq ids
    BY DEF Newest
  <1>2. ASSUME ids \ top # {} PROVE FALSE
    <2>1. PICK n \in ids \ top : Before(ids \ top, n) = {}
      BY <1>2, NewestExists
    <2>2. Before(ids, n) \subseteq top
      BY <2>1 DEF Before
    <2>3. top \subseteq Note /\ Before(ids, n) \subseteq Note
      BY <1>1, <2>2
    <2>4. /\ Cardinality(Before(ids, n)) <= Cardinality(top)
          /\ Cardinality(Before(ids, n)) \in Nat /\ Cardinality(top) \in Nat
      BY <2>2, <2>3, NoteSets, FS_Subset
    <2>5. Cardinality(Before(ids, n)) < k
      BY <2>4
    <2> QED BY <2>1, <2>5 DEF Newest
  <1> QED BY <1>1, <1>2

\* All of at most k rows are the first k.
LEMMA FewAreNewest ==
  ASSUME TypeOK, NEW ids, ids \subseteq Note, NEW k \in Nat, Cardinality(ids) <= k
  PROVE  Newest(ids, k) = ids
  <1>1. ASSUME NEW n \in ids PROVE Cardinality(Before(ids, n)) < k
    <2>1. Before(ids, n) \subseteq ids \ {n}
      BY KeyTypes, LessOrder DEF Before
    <2>2. IsFiniteSet(ids) /\ Cardinality(ids) \in Nat
      BY NoteSets
    <2>3. IsFiniteSet(ids \ {n}) /\ Cardinality(ids \ {n}) = Cardinality(ids) - 1
      BY <2>2, FS_RemoveElement
    <2>4. Cardinality(Before(ids, n)) <= Cardinality(ids \ {n})
      BY <2>1, <2>3, FS_Subset
    <2>5. Cardinality(Before(ids, n)) \in Nat
      BY <2>1, NoteSets
    <2> QED BY <2>2, <2>3, <2>4, <2>5
  <1> QED BY <1>1 DEF Newest

\* The clamp.
LEMMA Limits ==
  ASSUME NEW p \in PerPage
  PROVE  limit_of(p) \in Nat \ {0}
  BY ConstantAssumption DEF limit_of

\* What a request finds is its user's, and below its cursor.
LEMMA MatchingRows ==
  ASSUME TypeOK, NEW u, NEW cursor
  PROVE  /\ Matching(u, cursor) \subseteq Note
         /\ \A n \in Matching(u, cursor) : Present(n) /\ u \in notes[n].user_id
         /\ cursor \in (0..MaxTime) \X Note =>
              \A n \in Note :
                n \in Matching(u, cursor)
                  <=> Present(n) /\ u \in notes[n].user_id /\ Less(Key(n), cursor)
  <1>1. ASSUME cursor \in (0..MaxTime) \X Note PROVE decode_cursor(cursor) = {cursor}
    <2>1. PICK a \in 0..MaxTime, n \in Note : cursor = <<a, n>>
      BY <1>1
    <2> QED BY <2>1 DEF decode_cursor
  <1> QED BY <1>1 DEF Matching

\* A page holds everything at or above its last row, and everything if it
\* says that there is no more.
LEMMA PageFacts ==
  ASSUME TypeOK, NEW u, NEW cursor, NEW p \in PerPage,
         NEW page, page = list_notes(u, cursor, p),
         NEW ids, ids = Matching(u, cursor)
  PROVE  /\ page.items \subseteq ids
         /\ page.has_more \in BOOLEAN
         /\ page.next_cursor \in CursorText
         /\ ~page.has_more => page.items = ids
         /\ page.has_more => \E n \in page.items :
              /\ page.next_cursor = Key(n)
              /\ \A m \in page.items : ~Less(Key(m), Key(n))
              /\ \A m \in ids \ page.items : Less(Key(m), Key(n))
  <1> DEFINE limit == limit_of(p)
             rows  == Newest(ids, limit + 1)
             items == Newest(rows, limit)
             more  == Cardinality(rows) > limit
  <1>1. limit \in Nat \ {0} /\ ids \subseteq Note
    BY Limits, MatchingRows
  <1>2. rows \subseteq ids /\ items \subseteq rows /\ rows \subseteq Note /\ items \subseteq Note
    BY <1>1 DEF Newest
  <1>3. Cardinality(rows) \in Nat
    BY <1>2, NoteSets
  <1>4. /\ page.items = items /\ page.has_more = more
        /\ page.next_cursor = IF more /\ items # {}
                              THEN encode_cursor(Key(Oldest(items))[1], Oldest(items))
                              ELSE <<>>
    BY DEF list_notes
  <1> HIDE DEF limit, rows, items, more
  <1>5. more \in BOOLEAN
    BY DEF more
  <1>6. ASSUME ~more PROVE items = ids
    <2>1. Cardinality(rows) < limit + 1 /\ limit + 1 \in Nat /\ Cardinality(rows) <= limit
      BY <1>1, <1>3, <1>6 DEF more
    <2>2. rows = ids
      BY <1>1, <2>1, NewestIsAll DEF rows
    <2> QED BY <1>1, <1>2, <2>1, <2>2, FewAreNewest DEF items
  <1>7. ASSUME more PROVE items # {}
    <2>1. rows # {}
      BY <1>1, <1>3, <1>7, FS_EmptySet DEF more
    <2>2. PICK n \in rows : Before(rows, n) = {}
      BY <1>2, <2>1, NewestExists
    <2>3. Cardinality(Before(rows, n)) < limit
      BY <1>1, <2>2, FS_EmptySet
    <2> QED BY <2>3 DEF items, Newest
  <1>8. ASSUME NEW n \in items, NEW m \in ids \ items PROVE Less(Key(m), Key(n))
    <2>1. n \in rows /\ n \in ids /\ m # n /\ m \in Note /\ n \in Note
      BY <1>1, <1>2
    <2>2. ASSUME Less(Key(n), Key(m)) PROVE FALSE
      <3>1. m \in rows
        BY <1>1, <2>1, <2>2, NewestIsOnTop DEF rows
      <3>2. m \in items
        BY <1>1, <1>2, <3>1, <2>2, NewestIsOnTop DEF items
      <3> QED BY <3>2
    <2> QED BY <2>1, <2>2, NotesDiffer
  <1>9. ASSUME more
        PROVE  /\ Oldest(items) \in items
               /\ encode_cursor(Key(Oldest(items))[1], Oldest(items)) = Key(Oldest(items))
               /\ Key(Oldest(items)) \in (0..MaxTime) \X Note
               /\ \A m \in items : ~Less(Key(m), Key(Oldest(items)))
    <2>1. /\ Oldest(items) \in items
          /\ \A m \in items \ {Oldest(items)} : Less(Key(Oldest(items)), Key(m))
      BY <1>2, <1>7, <1>9, OldestExists
    <2> QED BY <1>2, <2>1, KeyTypes, LessOrder
  <1>10. page.next_cursor \in CursorText
    BY <1>4, <1>9 DEF CursorText
  <1>11. more => page.next_cursor = Key(Oldest(items))
    BY <1>4, <1>7, <1>9
  <1> QED BY <1>2, <1>4, <1>5, <1>6, <1>8, <1>9, <1>10, <1>11

-----------------------------------------------------------------------------
(* Steps.                                                                  *)

\* Initially there are no notes and nobody reads.
LEMMA PagesInit == Init => PagesInv
  <1> SUFFICES ASSUME Init PROVE PagesInv
    OBVIOUS
  <1>1. NoRow \in Row /\ NoWalk \in Walk
    BY ConstantAssumption DEF NoRow, Row, NoWalk, Walk, CursorText
  <1>2. TypeOK
    BY <1>1, ConstantAssumption DEF Init, TypeOK, NoRow
  <1>3. NoOrphans
    BY DEF Init, NoOrphans, Present, NoRow
  <1>4. Past
    BY DEF Init, Past, NoRow
  <1>5. \A r \in Reader : WalkInv(walk[r])
    BY DEF Init, WalkInv, IdleInv, SeenInv, StableInv, CursorInv, ExactInv, NoWalk
  <1> QED BY <1>2, <1>3, <1>4, <1>5 DEF PagesInv

\* The types of a walk.
LEMMA WalkTypes ==
  ASSUME TypeOK, NEW r \in Reader
  PROVE  /\ walk[r] \in Walk
         /\ walk[r].state \in {"idle", "open", "done"} /\ walk[r].user \in SUBSET User
         /\ walk[r].cursor \in CursorText /\ walk[r].seen \in SUBSET Note
         /\ walk[r].ordered \in BOOLEAN /\ walk[r].stable \in SUBSET Note
  BY DEF TypeOK, Walk

\* Rows that were visible keep their owner and place: the only thing that
\* walks rely on.
RowsKeep ==
  \A n \in Note : Placed(n) =>
    /\ Placed(n)'
    /\ notes'[n].user_id = notes[n].user_id
    /\ notes'[n].created_at = notes[n].created_at

\* Then a walk stays well, also when notes it had to show are gone.
LEMMA WalkKeeps ==
  ASSUME PagesInv, RowsKeep, NEW r \in Reader, NEW S, S \subseteq walk[r].stable,
         walk'[r] = [walk[r] EXCEPT !.stable = S], \A n \in S : Present(n)'
  PROVE  walk'[r] \in Walk /\ WalkInv(walk[r])'
  <1> DEFINE w == walk[r]
             v == walk'[r]
  <1>1. /\ w \in Walk /\ w.seen \subseteq Note /\ w.stable \subseteq Note
        /\ WalkInv(w)
    BY WalkTypes DEF PagesInv
  <1>2. /\ v.state = w.state /\ v.user = w.user /\ v.cursor = w.cursor
        /\ v.seen = w.seen /\ v.ordered = w.ordered /\ v.stable = S
        /\ v \in Walk
    BY <1>1 DEF Walk
  <1>3. IdleInv(w)'
    BY <1>1, <1>2 DEF WalkInv, IdleInv
  <1>4. \A n \in Note : Placed(n) => Key(n)' = Key(n)
    BY DEF RowsKeep, Key
  <1>5. SeenInv(w)'
    BY <1>1, <1>2 DEF WalkInv, SeenInv, RowsKeep
  <1>6. StableInv(w)'
    BY <1>1, <1>2 DEF WalkInv, StableInv, RowsKeep, Present, Placed
  <1>7. CursorInv(w)'
    <2> SUFFICES ASSUME v.state = "open"
                 PROVE  /\ v.cursor \in (0..MaxTime) \X Note
                        /\ \A n \in v.seen : ~Less(Key(n)', v.cursor)
                        /\ \A n \in v.stable : n \in v.seen \/ Less(Key(n)', v.cursor)
      BY DEF CursorInv
    <2>1. /\ w.cursor \in (0..MaxTime) \X Note
          /\ \A n \in w.seen : ~Less(Key(n), w.cursor)
          /\ \A n \in w.stable : n \in w.seen \/ Less(Key(n), w.cursor)
      BY <1>1, <1>2 DEF WalkInv, CursorInv
    <2>2. \A n \in w.seen \cup w.stable : n \in Note /\ Placed(n)
      BY <1>1 DEF WalkInv, SeenInv, StableInv, Present, Placed
    <2> QED BY <1>2, <1>4, <2>1, <2>2
  <1>8. ExactInv(w)'
    BY <1>1, <1>2 DEF WalkInv, ExactInv
  <1> QED BY <1>1, <1>2, <1>3, <1>5, <1>6, <1>7, <1>8 DEF WalkInv

\* A page goes on below what was seen and above what is left.
LEMMA FetchKeeps ==
  ASSUME PagesInv, UNCHANGED notes, NEW r \in Reader, NEW u \in User,
         NEW cursor \in CursorText, NEW p \in PerPage, NEW stable, stable \subseteq Note,
         Fetch(r, u, cursor, p, stable),
         \A n \in walk[r].seen : Placed(n) /\ u \in notes[n].user_id,
         \A n \in Matching(u, cursor), m \in walk[r].seen : Less(Key(n), Key(m)),
         \A n \in stable : /\ Present(n) /\ u \in notes[n].user_id
                           /\ n \in walk[r].seen \/ n \in Matching(u, cursor)
  PROVE  walk' \in [Reader -> Walk] /\ \A q \in Reader : WalkInv(walk[q])'
  <1> DEFINE w == walk[r]
             ids == Matching(u, cursor)
  <1>0. TypeOK
    BY DEF PagesInv
  <1>1. PICK page : page = list_notes(u, cursor, p)
    OBVIOUS
  <1>2. PICK v : v = [state |-> IF page.has_more THEN "open" ELSE "done", user |-> {u},
                      cursor |-> page.next_cursor, seen |-> w.seen \cup page.items,
                      ordered |-> w.ordered /\ Descends(w.seen, page.items),
                      stable |-> stable]
    OBVIOUS
  <1>3. walk' = [walk EXCEPT ![r] = v]
    BY <1>1, <1>2 DEF Fetch
  <1>4. /\ page.items \subseteq ids
        /\ page.has_more \in BOOLEAN
        /\ page.next_cursor \in CursorText
        /\ ~page.has_more => page.items = ids
        /\ page.has_more => \E n \in page.items :
             /\ page.next_cursor = Key(n)
             /\ \A m \in page.items : ~Less(Key(m), Key(n))
             /\ \A m \in ids \ page.items : Less(Key(m), Key(n))
    BY <1>0, <1>1, PageFacts
  <1>5. ids \subseteq Note /\ \A n \in ids : Present(n) /\ u \in notes[n].user_id
    BY <1>0, MatchingRows
  <1>6. /\ w \in Walk /\ w.seen \subseteq Note /\ w.ordered \in BOOLEAN /\ WalkInv(w)
    BY <1>0, WalkTypes DEF PagesInv
  <1>7. /\ v.state = IF page.has_more THEN "open" ELSE "done"
        /\ v.user = {u} /\ v.cursor = page.next_cursor /\ v.seen = w.seen \cup page.items
        /\ v.stable = stable
        /\ v.ordered = (w.ordered /\ Descends(w.seen, page.items))
    BY <1>2
  <1>8. w.ordered /\ Descends(w.seen, page.items)
    <2>1. w.ordered
      BY <1>6 DEF WalkInv, ExactInv
    <2> QED BY <2>1, <1>4 DEF Descends
  <1>9. v \in Walk
    BY <1>2, <1>4, <1>5, <1>6, <1>8 DEF Walk
  <1> HIDE DEF ids
  <1>10. SeenInv(v)
    BY <1>4, <1>5, <1>6, <1>7 DEF SeenInv, Placed, Present
  <1>11. StableInv(v)
    BY <1>7 DEF StableInv
  <1>12. ASSUME page.has_more PROVE CursorInv(v)
    <2>1. PICK n \in page.items : /\ page.next_cursor = Key(n)
                                  /\ \A m \in page.items : ~Less(Key(m), Key(n))
                                  /\ \A m \in ids \ page.items : Less(Key(m), Key(n))
      BY <1>4, <1>12
    <2>2. n \in ids /\ n \in Note /\ v.cursor = Key(n)
      BY <1>4, <1>5, <1>7, <2>1
    <2>3. Key(n) \in (0..MaxTime) \X Note
      BY <1>0, <2>2, KeyTypes
    <2>4. ASSUME NEW m \in w.seen PROVE ~Less(Key(m), Key(n))
      <3>1. Less(Key(n), Key(m)) /\ m \in Note
        BY <1>6, <2>2 DEF ids
      <3> QED BY <1>0, <2>2, <3>1, KeyTypes, LessOrder
    <2>5. \A m \in v.seen : ~Less(Key(m), Key(n))
      BY <1>7, <2>1, <2>4
    <2>6. \A m \in v.stable : m \in v.seen \/ Less(Key(m), Key(n))
      BY <1>7, <2>1 DEF ids
    <2> QED BY <2>2, <2>3, <2>5, <2>6 DEF CursorInv
  <1>13. WalkInv(v)
    <2>1. IdleInv(v)
      BY <1>7 DEF IdleInv
    <2>2. CursorInv(v)
      BY <1>4, <1>7, <1>12 DEF CursorInv
    <2>3. v.state = "done" => v.stable \subseteq v.seen
      BY <1>4, <1>7 DEF ids
    <2>4. ExactInv(v)
      BY <1>7, <1>8, <2>3 DEF ExactInv
    <2> QED BY <1>10, <1>11, <2>1, <2>2, <2>4 DEF WalkInv
  <1>14. ASSUME NEW q \in Reader PROVE walk'[q] \in Walk /\ WalkInv(walk[q])'
    <2>1. walk'[q] = v \/ walk'[q] = walk[q]
      BY <1>0, <1>3 DEF TypeOK
    <2>2. \A x : WalkInv(x) => WalkInv(x)'
      BY DEF WalkInv, IdleInv, SeenInv, StableInv, CursorInv, ExactInv, Placed, Present, Key
    <2>3. walk[q] \in Walk /\ WalkInv(walk[q])
      BY <1>0, WalkTypes DEF PagesInv
    <2> QED BY <1>9, <1>13, <2>1, <2>2, <2>3
  <1>15. walk' \in [Reader -> Walk]
    BY <1>0, <1>3, <1>9 DEF TypeOK
  <1> QED BY <1>14, <1>15

\* A step of one row that was not visible, or only changes its updated_at.
LEMMA RowStep ==
  ASSUME PagesInv, NEW n \in Note, NEW row \in Row, notes' = [notes EXCEPT ![n] = row],
         row.created_at <= row.updated_at, row.created_at <= now,
         row.state = "present" => row.user_id \subseteq account,
         Placed(n) => /\ row.user_id = notes[n].user_id
                      /\ row.created_at = notes[n].created_at
                      /\ row.state = notes[n].state,
         UNCHANGED <<now, account, walk>>
  PROVE  PagesInv'
  <1>0. TypeOK /\ NoOrphans /\ Past
    BY DEF PagesInv
  <1>1. /\ notes'[n] = row /\ notes' \in [Note -> Row]
        /\ \A m \in Note \ {n} : notes'[m] = notes[m]
    BY <1>0 DEF TypeOK
  <1>2. TypeOK'
    BY <1>0, <1>1 DEF TypeOK
  <1>3. NoOrphans'
    BY <1>0, <1>1 DEF NoOrphans, Present
  <1>4. RowsKeep
    BY <1>1 DEF RowsKeep, Placed
  <1>5. \A m \in Note : Present(m) => Present(m)'
    BY <1>1 DEF Present, Placed
  <1>6. ASSUME NEW r \in Reader PROVE WalkInv(walk[r])'
    <2>1. walk[r] = [walk[r] EXCEPT !.stable = walk[r].stable]
      BY <1>0, WalkTypes DEF Walk
    <2>2. \A m \in walk[r].stable : Present(m)'
      BY <1>0, <1>5, WalkTypes DEF PagesInv, WalkInv, StableInv
    <2> QED BY <1>4, <2>1, <2>2, WalkKeeps
  <1>7. Past'
    BY <1>0, <1>1 DEF Past
  <1> QED BY <1>2, <1>3, <1>6, <1>7 DEF PagesInv

\* Rows of ids are deleted, and accounts only with their visible rows.
LEMMA RemoveStep ==
  ASSUME PagesInv, NEW ids, ids \subseteq Note, \A n \in ids : Present(n), RemoveRows(ids),
         account' \subseteq account,
         \A n \in Note \ ids : Present(n) => notes[n].user_id \subseteq account',
         UNCHANGED now
  PROVE  PagesInv'
  <1>0. TypeOK /\ NoOrphans /\ Past
    BY DEF PagesInv
  <1>1. ASSUME NEW n \in Note
        PROVE  /\ notes'[n] \in Row
               /\ notes'[n].user_id = notes[n].user_id
               /\ notes'[n].created_at = notes[n].created_at
               /\ notes'[n].updated_at = notes[n].updated_at
               /\ notes'[n].state = IF n \in ids THEN "deleted" ELSE notes[n].state
    BY <1>0, RowTypes DEF RemoveRows, Row
  <1>2. notes' \in [Note -> Row]
    <2>1. notes' = [n \in Note |-> notes'[n]]
      BY DEF RemoveRows
    <2> QED BY <1>1, <2>1
  <1>3. RowsKeep
    BY <1>1 DEF RowsKeep, Placed
  <1>4. ASSUME NEW r \in Reader PROVE walk'[r] \in Walk /\ WalkInv(walk[r])'
    <2> DEFINE S == walk[r].stable \ ids
    <2>1. walk'[r] = [walk[r] EXCEPT !.stable = S]
      BY DEF RemoveRows
    <2>2. walk[r].stable \subseteq Note /\ \A n \in walk[r].stable : Present(n)
      BY <1>0, WalkTypes DEF PagesInv, WalkInv, StableInv
    <2>3. \A n \in S : Present(n)'
      BY <1>1, <2>2 DEF Present
    <2> QED BY <1>3, <2>1, <2>3, WalkKeeps
  <1>5. walk' \in [Reader -> Walk]
    <2>1. walk' = [r \in Reader |-> walk'[r]]
      BY DEF RemoveRows
    <2> QED BY <1>4, <2>1
  <1>6. \A n \in Note : notes'[n].created_at <= notes'[n].updated_at
    BY <1>0, <1>1 DEF TypeOK
  <1>7. TypeOK'
    BY <1>0, <1>2, <1>5, <1>6 DEF TypeOK
  <1>8. NoOrphans'
    BY <1>1 DEF NoOrphans, Present
  <1>9. Past'
    BY <1>0, <1>1 DEF Past
  <1> QED BY <1>4, <1>7, <1>8, <1>9 DEF PagesInv

\* Every step keeps the invariant.
LEMMA PagesStep ==
  ASSUME PagesInv, [Next]_vars
  PROVE  PagesInv'
  <1>0. TypeOK /\ NoOrphans /\ Past /\ now \in 0..MaxTime /\ now \in Nat
    BY ConstantAssumption DEF PagesInv, TypeOK
  <1>1. ASSUME NEW u \in User, NEW n \in Note, CreateBegin(u, n) PROVE PagesInv'
    <2>1. PICK row : row = [state |-> "inserting", user_id |-> {u}, created_at |-> now,
                            updated_at |-> now]
      OBVIOUS
    <2>2. row \in Row /\ row.created_at = now /\ row.updated_at = now /\ row.state # "present"
      BY <1>0, <2>1 DEF Row
    <2>3. ~Placed(n) /\ notes' = [notes EXCEPT ![n] = row] /\ UNCHANGED <<now, account, walk>>
      BY <1>1, <2>1 DEF CreateBegin, Placed
    <2>4. row.created_at <= row.updated_at /\ row.created_at <= now
      BY <1>0, <2>2
    <2> QED BY <2>2, <2>3, <2>4, RowStep
  <1>2. ASSUME NEW n \in Note, CreateCommit(n) \/ CreateFail(n) PROVE PagesInv'
    <2>0. PICK x \in {"present", "deleted"} :
            /\ notes' = [notes EXCEPT ![n].state = x]
            /\ x = "present" => notes[n].user_id \subseteq account
      BY <1>2 DEF CreateCommit, CreateFail
    <2>1. PICK row : /\ row = [notes[n] EXCEPT !.state = x]
                     /\ notes' = [notes EXCEPT ![n] = row]
      BY <2>0
    <2>2. notes[n] \in Row /\ notes[n].created_at <= notes[n].updated_at
      BY <1>0, RowTypes DEF TypeOK
    <2>3. /\ row \in Row /\ row.state = x /\ row.user_id = notes[n].user_id
          /\ row.created_at = notes[n].created_at /\ row.updated_at = notes[n].updated_at
      BY <2>1, <2>2 DEF Row
    <2>4. ~Placed(n) /\ UNCHANGED <<now, account, walk>> /\ notes[n].created_at <= now
      BY <1>0, <1>2 DEF CreateCommit, CreateFail, Placed, Past
    <2> QED BY <2>0, <2>1, <2>2, <2>3, <2>4, RowStep
  <1>3. ASSUME NEW u \in User, NEW n \in Note, update_note(u, n) PROVE PagesInv'
    <2>1. PICK row : /\ row = [notes[n] EXCEPT !.updated_at = now]
                     /\ notes' = [notes EXCEPT ![n] = row]
      BY <1>3 DEF update_note
    <2>2. notes[n] \in Row /\ Present(n) /\ notes[n].created_at <= now
      BY <1>0, <1>3, RowTypes DEF update_note, get_note, Past
    <2>3. /\ row \in Row /\ row.state = notes[n].state /\ row.user_id = notes[n].user_id
          /\ row.created_at = notes[n].created_at /\ row.updated_at = now
      BY <1>0, <2>1, <2>2 DEF Row
    <2>4. notes[n].user_id \subseteq account
      BY <1>0, <2>2 DEF NoOrphans
    <2>5. UNCHANGED <<now, account, walk>>
      BY <1>3 DEF update_note
    <2> QED BY <2>1, <2>2, <2>3, <2>4, <2>5, RowStep
  <1>4. ASSUME NEW u \in User, NEW n \in Note, delete_note(u, n) PROVE PagesInv'
    <2>1. Present(n) /\ RemoveRows({n}) /\ UNCHANGED <<now, account>>
      BY <1>4 DEF delete_note, get_note
    <2> QED BY <1>0, <2>1, RemoveStep DEF NoOrphans
  <1>5. ASSUME NEW u \in User, DeleteNotes(u) PROVE PagesInv'
    <2>1. RemoveRows(NotesOf(u)) /\ UNCHANGED <<now, account>>
      BY <1>5 DEF DeleteNotes
    <2>2. NotesOf(u) \subseteq Note /\ \A n \in NotesOf(u) : Present(n)
      BY DEF NotesOf
    <2> QED BY <1>0, <2>1, <2>2, RemoveStep DEF NoOrphans
  <1>6. ASSUME NEW u \in User, DeleteUser(u) PROVE PagesInv'
    <2>1. RemoveRows(NotesOf(u)) /\ account' = account \ {u} /\ UNCHANGED now
      BY <1>6 DEF DeleteUser
    <2>2. NotesOf(u) \subseteq Note /\ \A n \in NotesOf(u) : Present(n)
      BY DEF NotesOf
    <2>3. \A n \in Note \ NotesOf(u) : Present(n) => notes[n].user_id \subseteq account'
      BY <1>0, <2>1 DEF NotesOf, NoOrphans
    <2> QED BY <2>1, <2>2, <2>3, RemoveStep
  <1>7. ASSUME NEW r \in Reader, NEW u \in User, NEW cursor \in CursorText,
               NEW p \in PerPage, Start(r, u, cursor, p)
        PROVE  PagesInv'
    <2>1. walk[r].seen = {}
      BY <1>7 DEF Start, PagesInv, WalkInv, IdleInv
    <2>2. /\ Matching(u, cursor) \subseteq Note
          /\ \A n \in Matching(u, cursor) : Present(n) /\ u \in notes[n].user_id
      BY <1>0, MatchingRows
    <2>3. /\ Fetch(r, u, cursor, p, Matching(u, cursor))
          /\ UNCHANGED <<now, account, notes>>
      BY <1>7 DEF Start
    <2>4. walk' \in [Reader -> Walk] /\ \A q \in Reader : WalkInv(walk[q])'
      BY <2>1, <2>2, <2>3, FetchKeeps
    <2> QED BY <1>0, <2>3, <2>4 DEF PagesInv, TypeOK, Past, NoOrphans, Present
  <1>8. ASSUME NEW r \in Reader, NextPage(r) PROVE PagesInv'
    <2>1. PICK u \in walk[r].user, p \in PerPage :
            Fetch(r, u, walk[r].cursor, p, walk[r].stable)
      BY <1>8 DEF NextPage
    <2>2. walk[r].state = "open" /\ UNCHANGED <<now, account, notes>>
      BY <1>8 DEF NextPage
    <2>3. /\ u \in User /\ walk[r].cursor \in CursorText /\ walk[r].stable \subseteq Note
          /\ walk[r].seen \subseteq Note
      BY <1>0, WalkTypes
    <2>4. WalkInv(walk[r])
      BY DEF PagesInv
    <2>5. /\ walk[r].cursor \in (0..MaxTime) \X Note
          /\ \A n \in walk[r].seen : ~Less(Key(n), walk[r].cursor)
          /\ \A n \in walk[r].stable : n \in walk[r].seen \/ Less(Key(n), walk[r].cursor)
      BY <2>2, <2>4 DEF WalkInv, CursorInv
    <2>6. /\ \A n \in walk[r].seen : Placed(n) /\ u \in notes[n].user_id
          /\ \A n \in walk[r].stable : Present(n) /\ u \in notes[n].user_id
      BY <2>1, <2>4 DEF WalkInv, SeenInv, StableInv
    <2>7. \A n \in Note : n \in Matching(u, walk[r].cursor)
            <=> Present(n) /\ u \in notes[n].user_id /\ Less(Key(n), walk[r].cursor)
      BY <1>0, <2>5, MatchingRows
    <2>8. \A n \in Matching(u, walk[r].cursor), m \in walk[r].seen : Less(Key(n), Key(m))
      <3>1. walk[r].cursor \in Nat \X Nat
        <4>1. PICK a \in 0..MaxTime, n \in Note : walk[r].cursor = <<a, n>>
          BY <2>5
        <4> QED BY <4>1, ConstantAssumption
      <3>2. Matching(u, walk[r].cursor) \subseteq Note
        BY <1>0, MatchingRows
      <3> QED BY <1>0, <2>3, <2>5, <2>7, <3>1, <3>2, KeyTypes, LessOrder
    <2>9. \A n \in walk[r].stable :
            n \in walk[r].seen \/ n \in Matching(u, walk[r].cursor)
      BY <2>3, <2>5, <2>6, <2>7
    <2>10. walk' \in [Reader -> Walk] /\ \A q \in Reader : WalkInv(walk[q])'
      BY <2>1, <2>2, <2>3, <2>6, <2>8, <2>9, FetchKeeps
    <2> QED BY <1>0, <2>2, <2>10 DEF PagesInv, TypeOK, Past, NoOrphans, Present
  <1>9. ASSUME NEW r \in Reader, Close(r) PROVE PagesInv'
    <2>1. walk' = [walk EXCEPT ![r] = NoWalk] /\ UNCHANGED <<now, account, notes>>
      BY <1>9 DEF Close
    <2>2. NoWalk \in Walk
      BY DEF NoWalk, Walk, CursorText
    <2>3. WalkInv(NoWalk)'
      BY DEF WalkInv, IdleInv, SeenInv, StableInv, CursorInv, ExactInv, NoWalk
    <2>4. ASSUME NEW q \in Reader PROVE WalkInv(walk[q])'
      <3>1. walk'[q] = NoWalk \/ walk'[q] = walk[q]
        BY <1>0, <2>1 DEF TypeOK
      <3>2. \A x : WalkInv(x) => WalkInv(x)'
        BY <2>1 DEF WalkInv, IdleInv, SeenInv, StableInv, CursorInv, ExactInv, Placed,
                    Present, Key
      <3> QED BY <2>3, <3>1, <3>2 DEF PagesInv
    <2> QED BY <1>0, <2>1, <2>2, <2>4 DEF PagesInv, TypeOK, Past, NoOrphans, Present
  <1>10. CASE Tick
    <2>1. now' \in 0..MaxTime /\ now <= now' /\ UNCHANGED <<account, notes, walk>>
      BY <1>0, <1>10, ConstantAssumption DEF Tick
    <2>2. Past'
      BY <1>0, <2>1, RowTypes DEF Past
    <2>3. \A x : WalkInv(x) => WalkInv(x)'
      BY <2>1 DEF WalkInv, IdleInv, SeenInv, StableInv, CursorInv, ExactInv, Placed,
                  Present, Key
    <2> QED BY <1>0, <2>1, <2>2, <2>3 DEF PagesInv, TypeOK, NoOrphans, Present
  <1>11. CASE UNCHANGED vars
    <2>1. \A x : WalkInv(x) => WalkInv(x)'
      BY <1>11 DEF vars, WalkInv, IdleInv, SeenInv, StableInv, CursorInv, ExactInv,
                   Placed, Present, Key
    <2> QED BY <1>11, <2>1 DEF vars, PagesInv, TypeOK, Past, NoOrphans, Present
  <1> QED BY <1>1, <1>2, <1>3, <1>4, <1>5, <1>6, <1>7, <1>8, <1>9, <1>10, <1>11 DEF Next

\* The invariant holds in every reachable state.
LEMMA PagesAlways == Spec => []PagesInv
  BY PagesInit, PagesStep, PTL DEF Spec

-----------------------------------------------------------------------------
\* Rows and walks are well typed in every reachable state.
THEOREM TypeCorrect == Spec => []TypeOK
  <1>1. PagesInv => TypeOK
    BY DEF PagesInv
  <1> QED BY <1>1, PagesAlways, PTL

\* The pages of a walk repeat nothing, go on downwards and miss no note that
\* was there all the time, whatever requests change between them.
THEOREM WalksAreExact == Spec => []WalkExact
  <1>1. PagesInv => WalkExact
    BY DEF PagesInv, WalkInv, ExactInv, WalkExact
  <1> QED BY <1>1, PagesAlways, PTL

\* What a list shows, get_note finds for the same user.
THEOREM ListsAreReadable == Spec => []ListedIsReadable
  <1>1. PagesInv => ListedIsReadable
    <2> SUFFICES ASSUME PagesInv, NEW r \in Reader, NEW u \in walk[r].user,
                        NEW n \in walk[r].seen, Present(n)
                 PROVE  get_note(u, n) # {}
      BY DEF ListedIsReadable
    <2>1. u \in notes[n].user_id
      BY DEF PagesInv, WalkInv, SeenInv
    <2> QED BY <2>1 DEF get_note
  <1> QED BY <1>1, PagesAlways, PTL

\* No visible note is without its account.
THEOREM NotesHaveOwners == Spec => []NoOrphans
  <1>1. PagesInv => NoOrphans
    BY DEF PagesInv
  <1> QED BY <1>1, PagesAlways, PTL
=============================================================================
