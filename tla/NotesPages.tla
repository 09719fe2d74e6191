----------------------------- MODULE NotesPages -----------------------------
(***************************************************************************)
(* The notes of backend/api/src/notes.rs: the rows of table notes, the CRUD *)
(* handlers, account deletion, and clients that walk the keyset-paginated  *)
(* list while other requests change it.  A statement is atomic, except     *)
(* that an INSERT takes its created_at (NOW()) before its row is visible.  *)
(* A request that fails in the database or in validation changes nothing.  *)
(***************************************************************************)
EXTENDS Integers, FiniteSets, Sequences

CONSTANTS
  User,        \* accounts
  Note,        \* note ids (gen_random_uuid), ordered as integers
  Reader,      \* clients that walk the list
  PerPage,     \* per_page values that clients send
  MaxPerPage,  \* the upper end of the clamp
  MaxTime      \* bound: the latest created_at

ASSUME ConstantAssumption ==
  /\ IsFiniteSet(User) /\ IsFiniteSet(Note) /\ Note \subseteq Nat
  /\ PerPage \subseteq Int
  /\ MaxPerPage \in Nat \ {0}
  /\ MaxTime \in Nat

VARIABLES
  now,      \* the database clock
  account,  \* users with a row in table users
  notes,    \* table notes, with ids not drawn yet and rows deleted
  walk      \* what each client has fetched

vars == <<now, account, notes, walk>>
-----------------------------------------------------------------------------
Row == [state : {"none", "inserting", "present", "deleted"},
        user_id : SUBSET User, created_at : 0..MaxTime, updated_at : 0..MaxTime]
NoRow == [state |-> "none", user_id |-> {}, created_at |-> 0, updated_at |-> 0]

Present(n) == notes[n].state = "present"

\* SELECT ... WHERE id = $1 AND user_id = $2, as get, update and delete ask.
get_note(u, n) == {r \in {notes[n]} : Present(n) /\ u \in r.user_id}

\* A cursor is the text of <<micros, id>>; a text without two parts is
\* garbage (<<>> here), which counts as no cursor.
CursorText == {<<>>} \cup ((0..MaxTime) \X Note)

\* Mutant of encode_cursor: the time is rounded up to a coarser unit.
encode_cursor_rounded(created_at, id) == <<created_at + (created_at % 2), id>>

encode_cursor(created_at, id) == <<created_at, id>>
decode_cursor(cursor) == {c \in {cursor} : Len(c) = 2}

\* Mutant of limit_of: the lower end of the clamp is missing.
limit_unclamped(per_page) == IF per_page > MaxPerPage THEN MaxPerPage ELSE per_page

limit_of(per_page) ==
  CASE per_page < 1 -> 1
    [] per_page > MaxPerPage -> MaxPerPage
    [] OTHER -> per_page

\* The order of (created_at, id).
Key(n) == <<notes[n].created_at, n>>
Less(a, b) == a[1] < b[1] \/ (a[1] = b[1] /\ a[2] < b[2])

\* Mutants of Matching: every user's rows; created_at compared alone.
MatchingAll(u, cursor) ==
  {n \in Note : Present(n) /\ \A c \in decode_cursor(cursor) : Less(Key(n), c)}

MatchingByTime(u, cursor) ==
  {n \in Note : /\ Present(n) /\ u \in notes[n].user_id
                /\ \A c \in decode_cursor(cursor) : notes[n].created_at < c[1]}

\* The WHERE clause of list_notes.
Matching(u, cursor) ==
  {n \in Note : /\ Present(n) /\ u \in notes[n].user_id
                /\ \A c \in decode_cursor(cursor) : Less(Key(n), c)}

\* ORDER BY created_at DESC, id DESC: the rows that come before n.
Before(ids, n) == {m \in ids : Less(Key(n), Key(m))}

\* LIMIT: the first k rows, which have fewer than k before them.
Newest(ids, k) == {n \in ids : Cardinality(Before(ids, n)) < k}

\* The last row.
Oldest(ids) == CHOOSE n \in ids : \A m \in ids \ {n} : Less(Key(n), Key(m))

\* list_notes: the newest limit + 1 matching rows are fetched, the extra one
\* only says that there are more.
list_notes(u, cursor, per_page) ==
  LET limit == limit_of(per_page)
      rows  == Newest(Matching(u, cursor), limit + 1)
      items == Newest(rows, limit)
      more  == Cardinality(rows) > limit
  IN [items |-> items, has_more |-> more,
      next_cursor |-> IF more /\ items # {}
                      THEN encode_cursor(Key(Oldest(items))[1], Oldest(items))
                      ELSE <<>>]

\* A client's walk: whose, the cursor it will send, the ids fetched, whether
\* each page was older than those before it, and the history of the notes that
\* were listable when it began and still are.
Walk == [state : {"idle", "open", "done"}, user : SUBSET User,
         cursor : CursorText, seen : SUBSET Note, ordered : BOOLEAN,
         stable : SUBSET Note]
NoWalk == [state |-> "idle", user |-> {}, cursor |-> <<>>, seen |-> {},
           ordered |-> TRUE, stable |-> {}]

\* Do these items go on below everything a walk has seen?
Descends(seen, items) == \A n \in items, m \in seen : Less(Key(n), Key(m))
-----------------------------------------------------------------------------
Init ==
  /\ now = 0
  /\ account = User
  /\ notes = [n \in Note |-> NoRow]
  /\ walk = [r \in Reader |-> NoWalk]

\* create_note up to the statement's start: the row's time is taken.
CreateBegin(u, n) ==
  /\ notes[n].state = "none"
  /\ notes' = [notes EXCEPT ![n] =
       [state |-> "inserting", user_id |-> {u}, created_at |-> now,
        updated_at |-> now]]
  /\ UNCHANGED <<now, account, walk>>

\* The row becomes visible, if its user still exists.
CreateCommit(n) ==
  /\ notes[n].state = "inserting"
  /\ notes[n].user_id \subseteq account
  /\ notes' = [notes EXCEPT ![n].state = "present"]
  /\ UNCHANGED <<now, account, walk>>

\* The statement fails, on the foreign key or otherwise.
CreateFail(n) ==
  /\ notes[n].state = "inserting"
  /\ notes' = [notes EXCEPT ![n].state = "deleted"]
  /\ UNCHANGED <<now, account, walk>>

update_note(u, n) ==
  /\ get_note(u, n) # {}
  /\ notes' = [notes EXCEPT ![n].updated_at = now]
  /\ UNCHANGED <<now, account, walk>>

\* Rows leave the table, and the walks' obligations with them.
RemoveRows(ids) ==
  /\ notes' = [n \in Note |->
       IF n \in ids THEN [notes[n] EXCEPT !.state = "deleted"] ELSE notes[n]]
  /\ walk' = [r \in Reader |-> [walk[r] EXCEPT !.stable = @ \ ids]]

delete_note(u, n) ==
  /\ get_note(u, n) # {}
  /\ RemoveRows({n})
  /\ UNCHANGED <<now, account>>

NotesOf(u) == {n \in Note : Present(n) /\ u \in notes[n].user_id}

\* delete_account deletes the notes, then (or never) the user's row.
DeleteNotes(u) ==
  /\ u \in account
  /\ NotesOf(u) # {}
  /\ RemoveRows(NotesOf(u))
  /\ UNCHANGED <<now, account>>

\* Mutant of DeleteUser: no ON DELETE CASCADE for a note created since.
DeleteUserAlone(u) ==
  /\ u \in account
  /\ account' = account \ {u}
  /\ UNCHANGED <<now, notes, walk>>

\* The user's row goes and takes notes created in between along.
DeleteUser(u) ==
  /\ u \in account
  /\ account' = account \ {u}
  /\ RemoveRows(NotesOf(u))
  /\ UNCHANGED now
-----------------------------------------------------------------------------
(* Clients.  The request and its answer are one step: the client sends the *)
(* next cursor only after it has the answer, and a lost answer is fetched  *)
(* again with the same cursor.                                             *)

Fetch(r, u, cursor, per_page, stable) ==
  LET page == list_notes(u, cursor, per_page)
  IN walk' = [walk EXCEPT ![r] =
       [state |-> IF page.has_more THEN "open" ELSE "done", user |-> {u},
        cursor |-> page.next_cursor, seen |-> @.seen \cup page.items,
        ordered |-> @.ordered /\ Descends(@.seen, page.items),
        stable |-> stable]]

\* A first page, from the top, from a garbage cursor, or from any position.
Start(r, u, cursor, per_page) ==
  /\ walk[r].state = "idle"
  /\ Fetch(r, u, cursor, per_page, Matching(u, cursor))
  /\ UNCHANGED <<now, account, notes>>

NextPage(r) ==
  /\ walk[r].state = "open"
  /\ \E u \in walk[r].user, per_page \in PerPage :
       Fetch(r, u, walk[r].cursor, per_page, walk[r].stable)
  /\ UNCHANGED <<now, account, notes>>

Close(r) ==
  /\ walk[r].state = "done"
  /\ walk' = [walk EXCEPT ![r] = NoWalk]
  /\ UNCHANGED <<now, account, notes>>

Tick ==
  /\ now < MaxTime
  /\ now' = now + 1
  /\ UNCHANGED <<account, notes, walk>>

Next ==
  \/ \E u \in User, n \in Note :
       CreateBegin(u, n) \/ update_note(u, n) \/ delete_note(u, n)
  \/ \E n \in Note : CreateCommit(n) \/ CreateFail(n)
  \/ \E u \in User : DeleteNotes(u) \/ DeleteUser(u)
  \/ \E r \in Reader, u \in User, cursor \in CursorText, p \in PerPage :
       Start(r, u, cursor, p)
  \/ \E r \in Reader : NextPage(r) \/ Close(r)
  \/ Tick

Spec == Init /\ [][Next]_vars

\* A client goes on to follow next_cursor while has_more is true.
Fairness == \A r \in Reader : WF_vars(NextPage(r))

FairSpec == Spec /\ Fairness
-----------------------------------------------------------------------------
\* Rows and walks stay within their types, and no row is changed before it
\* was created.
TypeOK ==
  /\ now \in 0..MaxTime
  /\ account \subseteq User
  /\ notes \in [Note -> Row]
  /\ \A n \in Note : notes[n].created_at <= notes[n].updated_at
  /\ walk \in [Reader -> Walk]

\* The pages of a walk are one list, newest first, in which no note comes
\* twice, and when the last page is reached it has every note that was there
\* from the first request on, whatever was created, changed or deleted in
\* between (the cursor's own note included), also when times are equal.
WalkExact ==
  \A r \in Reader :
    /\ walk[r].ordered
    /\ walk[r].state = "done" => walk[r].stable \subseteq walk[r].seen

\* What a list shows, its reader may open: list_notes and get_note agree on
\* whose note it is, also for a cursor that came from somebody else's list.
ListedIsReadable ==
  \A r \in Reader, u \in User :
    u \in walk[r].user =>
      \A n \in walk[r].seen : Present(n) => get_note(u, n) # {}

\* No note outlives its account, although create_note may commit between the
\* two DELETEs of delete_account.
NoOrphans == \A n \in Note : Present(n) => notes[n].user_id \subseteq account

\* A client that follows next_cursor reaches the end, whatever per_page it asks.
WalkEnds == \A r \in Reader : walk[r].state = "open" ~> walk[r].state = "done"
=============================================================================
