------------------------- MODULE ObjectStorageProofs -------------------------
(***************************************************************************)
(* Proofs that what another user wrote needs an opened upload              *)
(* (ForeignContentNeedsUpload) and that what was acknowledged stays        *)
(* (AcknowledgedWritesStay).  The first follows the contents from the      *)
(* request to the object: a put carries them only where its writer's       *)
(* checked names lead, and a completion needs an upload of its key.  The   *)
(* second needs who else writes a key: a write is alone only while it is   *)
(* the only one under way (AloneIsAlone), and a settled key has none       *)
(* (SettledIsQuiet).                                                       *)
(***************************************************************************)
EXTENDS ObjectStorage, FiniteSetTheorems, TLAPS

\* A put writes where checked names lead its writer; a part has a content,
\* and a completion what its list stands for.
GoodReq(q) ==
  /\ q.op = "put" => \A d \in Range(q.body), k \in q.key : k \in Reach(WriterOf[d])
  /\ q.op = "part" => q.body # <<>>
  /\ q.op = "complete" => q.body = Assemble(q.parts)

GoodReqs == \A r \in Req : GoodReq(req[r])

\* So does a presigned URL.
OwnUrls == \A l \in urls : l.key \in Reach(l.user)

ApartInv == TypeOK /\ GoodReqs /\ OwnUrls /\ ForeignNeedsUpload

\* A request that is alone on a key is the only write to it under way.
AloneIsAlone ==
  \A r \in Req, k \in Key : req[r].alone /\ r \in Busy(k) => Busy(k) = {r}

\* What it did is still there when its answer arrives.
DoneIsThere ==
  \A r \in Req : \A k \in req[r].key :
    req[r].pc = "done" /\ req[r].op \in Writes /\ req[r].alone => bucket[k] = Promise(r)

SettledIsQuiet == \A k \in Key : settled[k] # {} => Busy(k) = {}

WriteInv == AloneIsAlone /\ DoneIsThere /\ SettledIsQuiet /\ AckedWritesHold

-----------------------------------------------------------------------------
(* Lists of parts.                                                         *)

\* In a finite set of numbers every place up to its size is somebody's.
LEMMA EveryPlaceIsTaken ==
  ASSUME NEW L, L \subseteq Nat, IsFiniteSet(L)
  PROVE  \A i \in 1..Cardinality(L) : \E p \in L : Cardinality({q \in L : q <= p}) = i
  <1> DEFINE below(p) == {q \in L : q <= p}
             rank == [p \in L |-> Cardinality(below(p))]
             n == Cardinality(L)
  <1>1. n \in Nat /\ IsFiniteSet(1..n) /\ Cardinality(1..n) = n
    BY FS_CardinalityType, FS_Interval
  <1>2. ASSUME NEW p \in L
        PROVE  IsFiniteSet(below(p)) /\ Cardinality(below(p)) \in 1..n
    <2>1. IsFiniteSet(below(p)) /\ Cardinality(below(p)) <= n
      BY FS_Subset
    <2>2. Cardinality(below(p)) \in Nat /\ p \in below(p)
      BY <2>1, FS_CardinalityType
    <2>3. Cardinality(below(p)) # 0
      BY <2>1, <2>2, FS_EmptySet
    <2> QED BY <1>1, <2>1, <2>2, <2>3
  <1>3. ASSUME NEW p \in L, NEW q \in L, p < q
        PROVE  Cardinality(below(p)) < Cardinality(below(q))
    <2>0. p \in Nat /\ q \in Nat
      OBVIOUS
    <2>1. below(p) \subseteq below(q) /\ q \in below(q) /\ q \notin below(p)
      <3>1. ASSUME NEW x \in L, x <= p PROVE x <= q
        BY <1>3, <2>0, <3>1
      <3>2. q <= q /\ ~(q <= p)
        BY <1>3, <2>0
      <3> QED BY <3>1, <3>2
    <2>2. Cardinality(below(p)) <= Cardinality(below(q)) /\ Cardinality(below(p)) # Cardinality(below(q))
      BY <1>2, <2>1, FS_Subset
    <2> QED BY <1>2, <2>2
  <1> HIDE DEF below, n
  <1>4. rank \in Injection(L, 1..n)
    <2>1. rank \in [L -> 1..n]
      BY <1>2
    <2>2. ASSUME NEW p \in L, NEW q \in L, rank[p] = rank[q] PROVE p = q
      <3>1. ~(p < q) /\ ~(q < p)
        BY <1>2, <1>3, <2>2
      <3> QED BY <3>1
    <2> QED BY <2>1, <2>2 DEF Injection, IsInjective
  <1>5. rank \in Surjection(L, 1..n)
    BY <1>1, <1>4, FS_Injection DEF n
  <1>6. ASSUME NEW i \in 1..n PROVE \E p \in L : Cardinality(below(p)) = i
    BY <1>5, <1>6 DEF Surjection
  <1> QED BY <1>6 DEF below, n

\* What a body may be.
LEMMA ContentTypes ==
  /\ <<>> \in Contents /\ Range(<<>>) = {}
  /\ \A d \in Data : <<d>> \in Contents /\ Range(<<d>>) = {d} /\ <<d>> # <<>>
  /\ \A c \in Contents : Range(c) \subseteq Data /\ (c # <<>> => c[1] \in Range(c))
  <1>1. MaxPart \in Nat \ {0}
    BY StorageAssumption
  <1>2. <<>> \in [1..0 -> Data] /\ 0 \in 0..MaxPart
    BY <1>1
  <1>3. \A d \in Data : <<d>> \in [1..1 -> Data] /\ 1 \in 0..MaxPart
    BY <1>1
  <1>4. \A d \in Data : Range(<<d>>) = {d} /\ <<d>> # <<>>
    BY DEF Range
  <1>5. Range(<<>>) = {}
    BY DEF Range
  <1>6. ASSUME NEW c \in Contents
        PROVE  Range(c) \subseteq Data /\ (c # <<>> => c[1] \in Range(c))
    <2>1. PICK n \in 0..MaxPart : c \in [1..n -> Data]
      BY DEF Contents
    <2>2. Range(c) \subseteq Data
      BY <2>1 DEF Range
    <2>3. CASE n = 0
      BY <2>1, <2>2, <2>3
    <2>4. CASE n # 0
      <3>1. 1 \in DOMAIN c
        BY <1>1, <2>1, <2>4
      <3> QED BY <2>2, <3>1 DEF Range
    <2> QED BY <2>3, <2>4
  <1> QED BY <1>2, <1>3, <1>4, <1>5, <1>6 DEF Contents

\* A list of parts stands for contents made of these parts.
LEMMA AssembleParts ==
  ASSUME NEW parts \in [Part -> SUBSET Data]
  PROVE  /\ Assemble(parts) \in Contents
         /\ \A d \in Range(Assemble(parts)) : \E p \in Part : d \in parts[p]
  <1> DEFINE listed == {p \in Part : parts[p] # {}}
             nth(i) == CHOOSE p \in listed : Cardinality({q \in listed : q <= p}) = i
             n == Cardinality(listed)
             c == [i \in 1..n |-> CHOOSE d \in parts[nth(i)] : TRUE]
  <1>1. MaxPart \in Nat /\ Part \subseteq Nat /\ IsFiniteSet(Part) /\ Cardinality(Part) = MaxPart
    BY StorageAssumption, FS_Interval DEF Part
  <1>2. listed \subseteq Part /\ listed \subseteq Nat /\ IsFiniteSet(listed) /\ n \in Nat /\ n <= MaxPart
    BY <1>1, FS_Subset, FS_CardinalityType
  <1>3. \A i \in 1..n : nth(i) \in listed
    <2> SUFFICES ASSUME NEW i \in 1..n PROVE nth(i) \in listed
      OBVIOUS
    <2>1. \E p \in listed : Cardinality({q \in listed : q <= p}) = i
      BY <1>2, EveryPlaceIsTaken
    <2> QED BY <2>1
  <1>4. ASSUME NEW i \in 1..n
        PROVE  c[i] \in Data /\ nth(i) \in Part /\ c[i] \in parts[nth(i)]
    BY <1>2, <1>3
  <1>5. Assemble(parts) = c
    BY DEF Assemble
  <1> HIDE DEF nth, n
  <1>6. DOMAIN c = 1..n /\ c = [i \in 1..n |-> c[i]]
    OBVIOUS
  <1> HIDE DEF c
  <1>7. c \in [1..n -> Data] /\ n \in 0..MaxPart
    BY <1>1, <1>2, <1>4, <1>6
  <1>8. \A d \in Range(c) : \E p \in Part : d \in parts[p]
    BY <1>4, <1>6 DEF Range
  <1> QED BY <1>5, <1>7, <1>8 DEF Contents

-----------------------------------------------------------------------------
(* Requests.                                                               *)

\* A request that is not under way.
LEMMA NoRequest ==
  /\ NoReq \in Request /\ GoodReq(NoReq) /\ NoReq.pc = "idle" /\ NoReq.op = "get"
  /\ NoReq.key = {} /\ NoReq.body = <<>> /\ NoReq.parts = NoParts
  /\ NoReq.alone = FALSE /\ NoReq.upload = {} /\ NoReq.part = {}
  /\ NoParts \in [Part -> SUBSET Data]
  <1>1. NoParts \in [Part -> SUBSET Data]
    BY DEF NoParts
  <1>2. NoReq \in Request
    BY <1>1, ContentTypes DEF NoReq, Request, Ops
  <1>3. GoodReq(NoReq)
    BY ContentTypes DEF NoReq, GoodReq
  <1> QED BY <1>1, <1>2, <1>3 DEF NoReq

\* A step that moves a request along changes neither whose it is nor what it
\* writes.
Same(q, c) ==
  /\ q \in Request /\ c \in Request
  /\ c.op = q.op /\ c.key = q.key /\ c.body = q.body
  /\ c.parts = q.parts

\* GoodReq depends on nothing else.
LEMMA SameGood ==
  ASSUME NEW q, NEW c, Same(q, c), GoodReq(q)
  PROVE  GoodReq(c)
  BY DEF Same, GoodReq

\* Requests with another state, answer or attribute.
LEMMA NewPc ==
  ASSUME NEW q \in Request, NEW p \in {"idle", "sent", "done", "refused"},
         NEW c, c = [q EXCEPT !.pc = p]
  PROVE  Same(q, c) /\ c.pc = p /\ c.alone = q.alone
  BY DEF Same, Request

LEMMA NewAlone ==
  ASSUME NEW q \in Request, NEW b \in BOOLEAN, NEW c, c = [q EXCEPT !.alone = b]
  PROVE  Same(q, c) /\ c.pc = q.pc /\ c.alone = b
  BY DEF Same, Request

LEMMA NewOrphan ==
  ASSUME NEW q \in Request, NEW c, c = [q EXCEPT !.orphan = TRUE]
  PROVE  Same(q, c) /\ c.pc = q.pc /\ c.alone = q.alone
  BY DEF Same, Request

LEMMA NewUpload ==
  ASSUME NEW q \in Request, NEW x \in Upload,
         NEW c, c = [q EXCEPT !.pc = "done", !.upload = {x}]
  PROVE  Same(q, c) /\ c.pc = "done" /\ c.alone = q.alone
  BY DEF Same, Request

\* The key a name leads to is a key of the bucket, and in reach if the name
\* is checked.
LEMMA UserKeys ==
  ASSUME NEW u \in User, NEW n \in Name
  PROVE  /\ user_key(u, n) \in Key /\ Path(u, n) \subseteq Key
         /\ n \in Checked => \A k \in Path(u, n) : k \in Reach(u)
  <1>1. <<u, n>> \in User \X Name
    OBVIOUS
  <1>2. user_key(u, n) \in Key
    BY <1>1, StorageAssumption DEF user_key
  <1>3. n \in Checked => user_key(u, n) \in Reach(u)
    BY DEF Reach
  <1> QED BY <1>2, <1>3 DEF Path

\* A request about some keys, with the attributes that its handler adds.
Asks(c, op, K, body) ==
  /\ c \in Request /\ c.pc = "sent" /\ c.op = op /\ c.key = K
  /\ c.body = body

LEMMA CallAsks ==
  ASSUME NEW op \in Ops, NEW K, K \subseteq Key
  PROVE  Asks(Call(op, K), op, K, <<>>)
  <1>1. NoParts \in [Part -> SUBSET Data] /\ <<>> \in Contents
    BY NoRequest, ContentTypes
  <1>2. Call(op, K) \in Request
    BY <1>1 DEF Call, Request
  <1> QED BY <1>2 DEF Asks, Call

LEMMA AddUpload ==
  ASSUME NEW q, NEW S \in SUBSET Upload, NEW c, c = [q EXCEPT !.upload = S],
         NEW op, NEW K, NEW body, Asks(q, op, K, body)
  PROVE  Asks(c, op, K, body) /\ c.parts = q.parts
  BY DEF Asks, Request

LEMMA AddBody ==
  ASSUME NEW q, NEW b \in Contents, NEW c, c = [q EXCEPT !.body = b],
         NEW op, NEW K, NEW body, Asks(q, op, K, body)
  PROVE  Asks(c, op, K, b) /\ c.parts = q.parts
  BY DEF Asks, Request

LEMMA AddPart ==
  ASSUME NEW q, NEW S \in SUBSET Part, NEW c, c = [q EXCEPT !.part = S],
         NEW op, NEW K, NEW body, Asks(q, op, K, body)
  PROVE  Asks(c, op, K, body)
  BY DEF Asks, Request

LEMMA AddParts ==
  ASSUME NEW q, NEW ps \in [Part -> SUBSET Data], NEW c, c = [q EXCEPT !.parts = ps],
         NEW op, NEW K, NEW body, Asks(q, op, K, body)
  PROVE  Asks(c, op, K, body) /\ c.parts = ps
  BY DEF Asks, Request

\* Such a request is good if its keys are in reach of who writes the body.
LEMMA AskGood ==
  ASSUME NEW c, NEW op, NEW K, NEW body, Asks(c, op, K, body),
         op = "put" => \A d \in Range(body), k \in K : k \in Reach(WriterOf[d]),
         op = "part" => body # <<>>, op = "complete" => body = Assemble(c.parts)
  PROVE  GoodReq(c)
  BY DEF Asks, GoodReq

-----------------------------------------------------------------------------
StorageInv == ApartInv /\ WriteInv

\* No request, no object.
LEMMA StorageInit == Init => StorageInv
  <1> SUFFICES ASSUME Init PROVE StorageInv
    OBVIOUS
  <1>1. /\ boot = [p \in Proc |-> "head"] /\ exists = FALSE
        /\ bucket = [k \in Key |-> <<>>] /\ uploads = [x \in Upload |-> Closed]
        /\ drawn = [x \in Upload |-> {}] /\ urls = {} /\ req = [r \in Req |-> NoReq] /\ settled = [k \in Key |-> {<<>>}]
    BY DEF Init
  <1>2. /\ Closed \in [key : SUBSET Key, parts : [Part -> SUBSET Data]]
        /\ Closed.key = {} /\ Closed.parts = NoParts
    BY NoRequest DEF Closed
  <1>3. TypeOK
    <2>1. exists \in BOOLEAN
      BY <1>1
    <2>2. /\ boot \in [Proc -> {"head", "put", "ready"}]
          /\ bucket \in [Key -> Contents]
          /\ uploads \in [Upload -> [key : SUBSET Key, parts : [Part -> SUBSET Data]]]
          /\ settled \in [Key -> SUBSET Contents]
      BY <1>1, <1>2, ContentTypes
    <2>3. drawn \in [Upload -> SUBSET Key] /\ req \in [Req -> Request]
      BY <1>1, NoRequest
    <2>4. /\ \A x \in Upload : uploads[x].key = {} => uploads[x].parts = NoParts
          /\ \A x \in Upload : uploads[x].key \subseteq drawn[x]
      BY <1>1, <1>2
    <2> QED BY <1>1, <2>1, <2>2, <2>3, <2>4 DEF TypeOK
  <1>4. GoodReqs
    BY <1>1, NoRequest DEF GoodReqs
  <1>5. OwnUrls
    BY <1>1 DEF OwnUrls
  <1>6. ForeignNeedsUpload /\ AckedWritesHold
    BY <1>1, ContentTypes DEF ForeignNeedsUpload, AckedWritesHold
  <1>7. \A k \in Key : Busy(k) = {}
    BY <1>1, NoRequest DEF Busy
  <1>8. AloneIsAlone /\ DoneIsThere /\ SettledIsQuiet
    BY <1>1, <1>7, NoRequest DEF AloneIsAlone, DoneIsThere, SettledIsQuiet
  <1> QED BY <1>3, <1>4, <1>5, <1>6, <1>8 DEF StorageInv, ApartInv, WriteInv

\* Sending a request makes no write to another key alone and takes every
\* promise about its own keys back.
LEMMA SendKeeps ==
  ASSUME StorageInv, NEW r \in Req, NEW c, c \in Request, GoodReq(c), c.pc = "sent",
         Send(r, c), OwnUrls',
         urls' \in SUBSET [user : User, key : Key, method : {"put", "get"}]
  PROVE  StorageInv'
  <1> DEFINE write == c.op \in Writes
             alone == write /\ \A k \in c.key : Busy(k) = {}
  <1>1. /\ req[r].pc = "idle" /\ req \in [Req -> Request]
        /\ UNCHANGED <<boot, exists, bucket, uploads, drawn>>
        /\ settled' = [k \in Key |-> IF write /\ k \in c.key THEN {} ELSE settled[k]]
    BY DEF Send, serverVars, StorageInv, ApartInv, TypeOK
  <1>2. req' = [q \in Req |->
          IF q = r THEN [c EXCEPT !.alone = alone]
          ELSE IF write /\ \E k \in c.key : q \in Busy(k)
               THEN [req[q] EXCEPT !.alone = FALSE] ELSE req[q]]
    BY DEF Send
  <1>3. alone \in BOOLEAN
    BY Zenon
  <1> HIDE DEF alone
  <1>4. /\ req'[r] = [c EXCEPT !.alone = alone]
        /\ \A q \in Req \ {r} :
             IF write /\ \E k \in c.key : q \in Busy(k)
             THEN req'[q] = [req[q] EXCEPT !.alone = FALSE] ELSE req'[q] = req[q]
        /\ req' = [q \in Req |-> req'[q]]
    BY <1>2
  <1>5. /\ Same(c, req'[r]) /\ req'[r].pc = "sent" /\ req'[r].alone = alone
    BY <1>3, <1>4, NewAlone
  <1>6. ASSUME NEW q \in Req \ {r}
        PROVE  /\ Same(req[q], req'[q]) /\ req'[q].pc = req[q].pc
               /\ req'[q].alone => req[q].alone /\ ~(write /\ \E k \in c.key : q \in Busy(k))
    <2>1. req[q] \in Request
      BY <1>1
    <2>2. CASE write /\ \E k \in c.key : q \in Busy(k)
      <3>1. req'[q] = [req[q] EXCEPT !.alone = FALSE] /\ FALSE \in BOOLEAN
        BY <1>4, <2>2
      <3>2. Same(req[q], req'[q]) /\ req'[q].pc = req[q].pc
        BY <2>1, <3>1, NewAlone
      <3>3. req'[q].alone = FALSE
        BY <2>1, <3>1, NewAlone
      <3> QED BY <3>2, <3>3
    <2>3. CASE ~(write /\ \E k \in c.key : q \in Busy(k))
      BY <1>4, <2>1, <2>3 DEF Same
    <2> QED BY <2>2, <2>3
  <1>7. req' \in [Req -> Request]
    BY <1>4, <1>5, <1>6 DEF Same
  <1>8. GoodReqs'
    BY <1>1, <1>5, <1>6, SameGood DEF GoodReqs, StorageInv, ApartInv
  <1>9. TypeOK'
    BY <1>1, <1>7 DEF TypeOK, StorageInv, ApartInv
  <1>10. ForeignNeedsUpload'
    BY <1>1 DEF ForeignNeedsUpload, Opened, StorageInv, ApartInv
  <1>11. ASSUME NEW k \in Key
         PROVE  /\ r \notin Busy(k)
                /\ Busy(k)' = IF write /\ k \in c.key THEN Busy(k) \cup {r} ELSE Busy(k)
    BY <1>1, <1>5, <1>6 DEF Busy, Same
  <1>12. AloneIsAlone'
    <2> SUFFICES ASSUME NEW q \in Req, NEW k \in Key, req'[q].alone, q \in Busy(k)'
                 PROVE  Busy(k)' = {q}
      BY DEF AloneIsAlone
    <2>1. CASE q = r
      <3>1. write /\ k \in c.key
        BY <1>11, <2>1
      <3>2. Busy(k) = {}
        BY <1>5, <2>1, <3>1 DEF alone
      <3> QED BY <1>11, <2>1, <3>1, <3>2
    <2>2. CASE q # r
      <3>1. q \in Busy(k)
        BY <1>11, <2>2
      <3>2. req[q].alone /\ ~(write /\ k \in c.key)
        BY <1>6, <2>2, <3>1
      <3> QED BY <1>11, <3>1, <3>2 DEF AloneIsAlone, StorageInv, WriteInv
    <2> QED BY <2>1, <2>2
  <1>13. DoneIsThere'
    <2> SUFFICES ASSUME NEW q \in Req, NEW k \in req'[q].key, req'[q].pc = "done",
                        req'[q].op \in Writes, req'[q].alone
                 PROVE  bucket'[k] = Promise(q)'
      BY DEF DoneIsThere
    <2>1. q # r
      BY <1>5
    <2>2. Same(req[q], req'[q]) /\ req[q].pc = "done" /\ req[q].alone
      BY <1>6, <2>1
    <2>3. bucket[k] = Promise(q) /\ Promise(q)' = Promise(q)
      BY <2>2 DEF Same, DoneIsThere, StorageInv, WriteInv, Promise
    <2> QED BY <1>1, <2>3
  <1>14. SettledIsQuiet'
    BY <1>1, <1>11 DEF SettledIsQuiet, StorageInv, WriteInv
  <1>15. AckedWritesHold'
    BY <1>1 DEF AckedWritesHold, StorageInv, WriteInv
  <1> QED BY <1>8, <1>9, <1>10, <1>12, <1>13, <1>14, <1>15 DEF StorageInv, ApartInv, WriteInv

-----------------------------------------------------------------------------
(* The handlers.                                                           *)

\* The request a handler sends, with the URLs left alone.
LEMMA HandlerKeeps ==
  ASSUME StorageInv, NEW r \in Req, NEW c, NEW op, NEW K, NEW body,
         Asks(c, op, K, body), Send(r, c), UNCHANGED urls,
         op = "put" => \A d \in Range(body), k \in K : k \in Reach(WriterOf[d]),
         op = "part" => body # <<>>, op = "complete" => body = Assemble(c.parts)
  PROVE  StorageInv'
  <1>1. GoodReq(c)
    BY AskGood
  <1>2. OwnUrls' /\ urls' \in SUBSET [user : User, key : Key, method : {"put", "get"}]
    BY DEF OwnUrls, StorageInv, ApartInv, TypeOK
  <1>3. c \in Request /\ c.pc = "sent"
    BY DEF Asks
  <1> QED BY <1>1, <1>2, <1>3, SendKeeps

\* An upload goes where a checked name of the writer leads.
LEMMA uploadKeeps ==
  ASSUME StorageInv, NEW r \in Req, NEW u \in User, NEW n \in Name, NEW d \in Data,
         upload(r, u, n, d)
  PROVE  StorageInv'
  <1> DEFINE q == Call("put", Path(u, n))
             b == <<d>>
             c == [q EXCEPT !.body = b]
  <1>1. Asks(q, "put", Path(u, n), <<>>)
    BY CallAsks, UserKeys DEF Ops
  <1>2. Send(r, c) /\ UNCHANGED urls /\ WriterOf[d] = u /\ n \in Checked
    BY DEF upload
  <1>3. b \in Contents /\ Range(b) = {d}
    BY ContentTypes
  <1> HIDE DEF q, b
  <1>4. Asks(c, "put", Path(u, n), b)
    BY <1>1, <1>3, AddBody
  <1> HIDE DEF c
  <1>5. \A e \in Range(b), k \in Path(u, n) : k \in Reach(WriterOf[e])
    BY <1>2, <1>3, UserKeys
  <1> QED BY <1>2, <1>4, <1>5, HandlerKeeps

\* download, delete, list and init_multipart send nothing else.
LEMMA CallKeeps ==
  ASSUME StorageInv, NEW r \in Req, NEW K, K \subseteq Key,
         NEW op \in {"get", "delete", "create", "list"},
         Send(r, Call(op, K)), UNCHANGED urls
  PROVE  StorageInv'
  <1>1. Asks(Call(op, K), op, K, <<>>)
    BY CallAsks DEF Ops
  <1> QED BY <1>1, HandlerKeeps

LEMMA listKeeps ==
  ASSUME StorageInv, NEW r \in Req, NEW u \in User, list(r, u)
  PROVE  StorageInv'
  BY CallKeeps DEF list

LEMMA upload_partKeeps ==
  ASSUME StorageInv, NEW r \in Req, NEW u \in User, NEW n \in Name, NEW x \in Upload,
         NEW p \in Part, NEW d \in Data, upload_part(r, u, n, x, p, d)
  PROVE  StorageInv'
  <1> DEFINE q == Call("part", Path(u, n))
             q1 == [q EXCEPT !.upload = {x}]
             q2 == [q1 EXCEPT !.part = {p}]
             b == <<d>>
             c == [q2 EXCEPT !.body = b]
  <1>1. Asks(q, "part", Path(u, n), <<>>)
    BY CallAsks, UserKeys DEF Ops
  <1>2. Send(r, c) /\ UNCHANGED urls
    BY DEF upload_part
  <1>3. b \in Contents /\ b # <<>>
    BY ContentTypes
  <1> HIDE DEF q, b
  <1>4. Asks(q1, "part", Path(u, n), <<>>)
    BY <1>1, {x} \in SUBSET Upload, AddUpload
  <1> HIDE DEF q1
  <1>5. Asks(q2, "part", Path(u, n), <<>>)
    BY <1>4, {p} \in SUBSET Part, AddPart
  <1> HIDE DEF q2
  <1>6. Asks(c, "part", Path(u, n), b)
    BY <1>3, <1>5, AddBody
  <1> HIDE DEF c
  <1> QED BY <1>2, <1>3, <1>6, HandlerKeeps

\* Whatever parts a body lists, the request stands for what they make.
LEMMA complete_multipartKeeps ==
  ASSUME StorageInv, NEW r \in Req, NEW u \in User, NEW n \in Name, NEW x \in Upload,
         NEW l \in Lists, complete_multipart(r, u, n, x, l)
  PROVE  StorageInv'
  <1> DEFINE q == Call("complete", Path(u, n))
             q1 == [q EXCEPT !.upload = {x}]
             q2 == [q1 EXCEPT !.parts = l]
             c == [q2 EXCEPT !.body = Assemble(l)]
  <1>1. Asks(q, "complete", Path(u, n), <<>>)
    BY CallAsks, UserKeys DEF Ops
  <1>2. Send(r, c) /\ UNCHANGED urls
    BY DEF complete_multipart
  <1>3. l \in [Part -> SUBSET Data]
    BY DEF Lists
  <1> HIDE DEF q
  <1>4. Assemble(l) \in Contents
    BY <1>3, AssembleParts
  <1>5. Asks(q1, "complete", Path(u, n), <<>>)
    BY <1>1, AddUpload
  <1> HIDE DEF q1
  <1>6. Asks(q2, "complete", Path(u, n), <<>>) /\ q2.parts = l
    BY <1>3, <1>5, AddParts
  <1> HIDE DEF q2
  <1>7. Asks(c, "complete", Path(u, n), Assemble(l)) /\ c.parts = l
    BY <1>4, <1>6, AddBody
  <1> HIDE DEF c
  <1> QED BY <1>2, <1>7, HandlerKeeps

LEMMA abort_multipartKeeps ==
  ASSUME StorageInv, NEW r \in Req, NEW u \in User, NEW n \in Name, NEW x \in Upload,
         abort_multipart(r, u, n, x)
  PROVE  StorageInv'
  <1> DEFINE q == Call("abort", Path(u, n))
             c == [q EXCEPT !.upload = {x}]
  <1>1. Asks(q, "abort", Path(u, n), <<>>)
    BY CallAsks, UserKeys DEF Ops
  <1>2. Send(r, c) /\ UNCHANGED urls
    BY DEF abort_multipart
  <1> HIDE DEF q
  <1>3. Asks(c, "abort", Path(u, n), <<>>)
    BY <1>1, {x} \in SUBSET Upload, AddUpload
  <1> HIDE DEF c
  <1> QED BY <1>2, <1>3, HandlerKeeps

LEMMA UsePresignedKeeps ==
  ASSUME StorageInv, NEW r \in Req, NEW l \in urls, NEW d \in Data, UsePresigned(r, l, d)
  PROVE  StorageInv'
  <1> DEFINE b == IF l.method = "put" THEN <<d>> ELSE <<>>
             q == Call(l.method, {l.key})
             c == [q EXCEPT !.body = b]
  <1>1. Send(r, c) /\ UNCHANGED urls /\ WriterOf[d] = l.user
    BY DEF UsePresigned
  <1>2. l.key \in Key /\ l.key \in Reach(l.user) /\ l.method \in {"put", "get"}
    BY DEF StorageInv, ApartInv, TypeOK, OwnUrls
  <1>3. b \in Contents /\ \A e \in Range(b) : WriterOf[e] = l.user
    BY <1>1, ContentTypes
  <1>4. Asks(q, l.method, {l.key}, <<>>)
    BY <1>2, CallAsks DEF Ops
  <1> HIDE DEF q, b
  <1>5. Asks(c, l.method, {l.key}, b)
    BY <1>3, <1>4, AddBody
  <1> HIDE DEF c
  <1>6. l.method # "part" /\ l.method # "complete"
    BY <1>2
  <1>7. \A e \in Range(b), k \in {l.key} : k \in Reach(WriterOf[e])
    BY <1>2, <1>3
  <1> QED BY <1>1, <1>5, <1>6, <1>7, HandlerKeeps

\* What touches neither requests nor the server keeps the invariant.
LEMMA StillKeeps ==
  ASSUME StorageInv, UNCHANGED <<bucket, uploads, drawn, req, settled>>,
         boot' \in [Proc -> {"head", "put", "ready"}], exists' \in BOOLEAN,
         OwnUrls', urls' \in SUBSET [user : User, key : Key, method : {"put", "get"}]
  PROVE  StorageInv'
  <1>1. TypeOK'
    BY DEF StorageInv, ApartInv, TypeOK
  <1>2. GoodReqs' /\ ForeignNeedsUpload'
    BY DEF StorageInv, ApartInv, GoodReqs, ForeignNeedsUpload, Opened
  <1>3. WriteInv'
    BY DEF StorageInv, WriteInv, AloneIsAlone, DoneIsThere, SettledIsQuiet,
           AckedWritesHold, Busy, Promise
  <1> QED BY <1>1, <1>2, <1>3 DEF StorageInv, ApartInv

LEMMA BootKeeps ==
  ASSUME StorageInv, Boot
  PROVE  StorageInv'
  <1>1. PICK p \in Proc : BucketExists(p) \/ CreateBucket(p) \/ EnsureFails(p)
    BY DEF Boot
  <1>2. /\ UNCHANGED <<bucket, uploads, drawn, req, settled, urls>>
        /\ exists' \in BOOLEAN /\ boot' \in [Proc -> {"head", "put", "ready"}]
    <2>1. boot \in [Proc -> {"head", "put", "ready"}] /\ exists \in BOOLEAN
      BY DEF StorageInv, ApartInv, TypeOK
    <2>2. UNCHANGED <<bucket, uploads, drawn, req, settled, urls>>
      BY <1>1 DEF BucketExists, CreateBucket, EnsureFails, serverVars
    <2>3. exists' = exists \/ exists' = TRUE
      BY <1>1 DEF BucketExists, CreateBucket, EnsureFails, serverVars
    <2>4. boot' \in [Proc -> {"head", "put", "ready"}]
      BY <1>1, <2>1 DEF BucketExists, CreateBucket, EnsureFails
    <2> QED BY <2>1, <2>2, <2>3, <2>4
  <1>3. OwnUrls' /\ urls' \in SUBSET [user : User, key : Key, method : {"put", "get"}]
    BY <1>2 DEF OwnUrls, StorageInv, ApartInv, TypeOK
  <1> QED BY <1>2, <1>3, StillKeeps

\* A URL is made for a key in reach of the user who asks for it, and expires.
LEMMA UrlsKeep ==
  ASSUME StorageInv,
         (\E u \in User, n \in Name, m \in {"put", "get"} : presign(u, n, m)) \/ UrlExpires
  PROVE  StorageInv'
  <1>1. /\ UNCHANGED <<bucket, uploads, drawn, req, settled, boot, exists>>
        /\ urls \in SUBSET [user : User, key : Key, method : {"put", "get"}]
        /\ boot \in [Proc -> {"head", "put", "ready"}] /\ exists \in BOOLEAN
    BY DEF presign, UrlExpires, serverVars, StorageInv, ApartInv, TypeOK
  <1>2. OwnUrls' /\ urls' \in SUBSET [user : User, key : Key, method : {"put", "get"}]
    <2>1. CASE UrlExpires
      BY <1>1, <2>1 DEF UrlExpires, OwnUrls, StorageInv, ApartInv
    <2>2. ASSUME NEW u \in User, NEW n \in Name, NEW m \in {"put", "get"}, presign(u, n, m)
          PROVE  OwnUrls' /\ urls' \in SUBSET [user : User, key : Key, method : {"put", "get"}]
      <3> DEFINE l == [user |-> u, key |-> user_key(u, n), method |-> m]
      <3>1. urls' = urls \cup {l} /\ n \in Checked
        BY <2>2 DEF presign
      <3>2. l \in [user : User, key : Key, method : {"put", "get"}] /\ l.key \in Reach(l.user)
        BY <3>1, UserKeys DEF Path
      <3> QED BY <1>1, <3>1, <3>2 DEF OwnUrls, StorageInv, ApartInv
    <2> QED BY <2>1, <2>2
  <1> QED BY <1>1, <1>2, StillKeeps

LEMMA HandlersKeep ==
  ASSUME StorageInv, Handlers
  PROVE  StorageInv'
  <1>1. ASSUME NEW r \in Req, NEW u \in User, NEW n \in Name,
               \/ download(r, u, n) \/ delete(r, u, n) \/ init_multipart(r, u, n)
        PROVE  StorageInv'
    BY <1>1, UserKeys, CallKeeps DEF download, delete, init_multipart
  <1>2. ASSUME NEW r \in Req, NEW u \in User, NEW n \in Name, NEW x \in Upload,
               MultipartRequest(r, u, n, x)
        PROVE  StorageInv'
    BY <1>2, upload_partKeeps, complete_multipartKeeps, abort_multipartKeeps DEF MultipartRequest
  <1> QED BY <1>1, <1>2, listKeeps, uploadKeeps, UsePresignedKeeps, UrlsKeep DEF Handlers

-----------------------------------------------------------------------------
(* The server and the answers.                                             *)

\* A request that moves along keeps its place among the writes.
LEMMA MoveKeeps ==
  ASSUME StorageInv, NEW r \in Req, NEW c, Same(req[r], c), GoodReq(c),
         c.alone = req[r].alone, c.pc # "idle", req[r].pc # "idle",
         req' = [req EXCEPT ![r] = c]
  PROVE  /\ req' \in [Req -> Request] /\ GoodReqs' /\ AloneIsAlone'
         /\ \A k \in Key : Busy(k)' = Busy(k)
         /\ req'[r] = c /\ \A q \in Req \ {r} : req'[q] = req[q]
  <1>1. req \in [Req -> Request] /\ GoodReqs
    BY DEF StorageInv, ApartInv, TypeOK
  <1>2. /\ req'[r] = c /\ \A q \in Req \ {r} : req'[q] = req[q]
        /\ req' \in [Req -> Request]
    BY <1>1 DEF Same
  <1>3. GoodReqs'
    BY <1>1, <1>2 DEF GoodReqs
  <1>4. \A k \in Key : Busy(k)' = Busy(k)
    BY <1>2 DEF Busy, Same
  <1>5. AloneIsAlone'
    <2> SUFFICES ASSUME NEW q \in Req, NEW k \in Key, req'[q].alone, q \in Busy(k)'
                 PROVE  Busy(k)' = {q}
      BY DEF AloneIsAlone
    <2>1. req[q].alone /\ q \in Busy(k)
      BY <1>2, <1>4
    <2> QED BY <1>4, <2>1 DEF AloneIsAlone, StorageInv, WriteInv
  <1> QED BY <1>2, <1>3, <1>4, <1>5

\* What a promise is about moves along with the request.
LEMMA PromiseSame ==
  ASSUME NEW r \in Req, Same(req[r], req'[r])
  PROVE  Promise(r)' = Promise(r)
  BY DEF Same, Promise

\* The uploads at the server are in order.
UploadsInv ==
  /\ uploads \in [Upload -> [key : SUBSET Key, parts : [Part -> SUBSET Data]]]
  /\ drawn \in [Upload -> SUBSET Key]
  /\ \A x \in Upload : uploads[x].key = {} => uploads[x].parts = NoParts
  /\ \A x \in Upload : uploads[x].key \subseteq drawn[x]

\* No upload id is forgotten.
DrawnStays == \A x \in Upload : drawn[x] \subseteq drawn'[x]

\* Steps of the server that write no object.
LEMMA ServerKeeps ==
  ASSUME StorageInv, NEW r \in Req, NEW c, Same(req[r], c), GoodReq(c),
         c.alone = req[r].alone, c.pc # "idle", req[r].pc # "idle",
         req' = [req EXCEPT ![r] = c],
         req[r].op \in Writes => c.pc # "done" \/ req[r].pc = "done",
         UploadsInv', DrawnStays, UNCHANGED <<boot, exists, bucket, urls, settled>>
  PROVE  StorageInv'
  <1>1. /\ req' \in [Req -> Request] /\ GoodReqs' /\ AloneIsAlone'
        /\ \A k \in Key : Busy(k)' = Busy(k)
        /\ req'[r] = c /\ \A q \in Req \ {r} : req'[q] = req[q]
    BY MoveKeeps
  <1>2. TypeOK'
    BY <1>1 DEF StorageInv, ApartInv, TypeOK, UploadsInv
  <1>3. OwnUrls' /\ ForeignNeedsUpload'
    BY DEF StorageInv, ApartInv, OwnUrls, ForeignNeedsUpload, Opened, DrawnStays
  <1>4. DoneIsThere'
    <2> SUFFICES ASSUME NEW q \in Req, NEW k \in req'[q].key, req'[q].pc = "done",
                        req'[q].op \in Writes, req'[q].alone
                 PROVE  bucket'[k] = Promise(q)'
      BY DEF DoneIsThere
    <2>1. Same(req[q], req'[q])
      <3>1. req[q] \in Request
        BY DEF StorageInv, ApartInv, TypeOK
      <3>2. CASE q = r
        BY <1>1, <3>2
      <3>3. CASE q # r
        BY <1>1, <3>1, <3>3 DEF Same
      <3> QED BY <3>2, <3>3
    <2>2. /\ req[q].pc = "done" /\ req[q].op \in Writes /\ req[q].alone /\ k \in req[q].key
      <3>1. CASE q = r
        BY <1>1, <2>1, <3>1 DEF Same
      <3>2. CASE q # r
        BY <1>1, <3>2
      <3> QED BY <3>1, <3>2
    <2>3. bucket[k] = Promise(q)
      BY <2>2 DEF DoneIsThere, StorageInv, WriteInv
    <2> QED BY <2>1, <2>3, PromiseSame
  <1>5. SettledIsQuiet' /\ AckedWritesHold'
    BY <1>1 DEF SettledIsQuiet, AckedWritesHold, StorageInv, WriteInv
  <1> QED BY <1>1, <1>2, <1>3, <1>4, <1>5 DEF StorageInv, ApartInv, WriteInv

\* A write of what the request promises: its keys are nobody else's while it
\* is alone, and settled by nobody.
LEMMA WriteKeeps ==
  ASSUME StorageInv, NEW r \in Req, req[r].pc = "sent", req[r].op \in Writes,
         SetObject(r, Promise(r)), Done(r), UploadsInv', DrawnStays,
         req[r].op = "complete" => \A k \in req[r].key : Opened(k),
         UNCHANGED <<boot, exists, urls, settled>>
  PROVE  StorageInv'
  <1> DEFINE c == [req[r] EXCEPT !.pc = "done"]
             w == Promise(r)
  <1>1. req \in [Req -> Request] /\ req[r] \in Request /\ bucket \in [Key -> Contents]
        /\ GoodReq(req[r])
    BY DEF StorageInv, ApartInv, TypeOK, GoodReqs
  <1>2. Same(req[r], c) /\ c.pc = "done" /\ c.alone = req[r].alone
    BY <1>1, NewPc
  <1>3. req' = [req EXCEPT ![r] = c]
    BY <1>1 DEF Done
  <1> HIDE DEF c
  <1>4. GoodReq(c)
    BY <1>1, <1>2, SameGood
  <1>5. /\ req' \in [Req -> Request] /\ GoodReqs' /\ AloneIsAlone'
        /\ \A k \in Key : Busy(k)' = Busy(k)
        /\ req'[r] = c /\ \A q \in Req \ {r} : req'[q] = req[q]
    BY <1>2, <1>3, <1>4, MoveKeeps
  <1>6. /\ w \in Contents
        /\ \A d \in Range(w), k \in req[r].key : k \in Reach(WriterOf[d]) \/ Opened(k)
    <2>1. req[r].body \in Contents /\ <<>> \in Contents /\ Range(<<>>) = {}
      BY <1>1, ContentTypes DEF Request
    <2>2. CASE req[r].op = "delete"
      BY <2>1, <2>2 DEF Promise
    <2>3. CASE req[r].op = "put"
      BY <1>1, <2>1, <2>3 DEF Promise, GoodReq
    <2>4. CASE req[r].op = "complete"
      BY <2>1, <2>4 DEF Promise
    <2> QED BY <2>2, <2>3, <2>4 DEF Writes
  <1>7. /\ \A k \in req[r].key : k \in Key /\ bucket'[k] = w
        /\ \A k \in Key \ req[r].key : bucket'[k] = bucket[k]
        /\ bucket' = [k \in Key |-> bucket'[k]]
    BY <1>1 DEF SetObject, Request
  <1> HIDE DEF w
  <1>8. bucket' \in [Key -> Contents]
    BY <1>1, <1>6, <1>7
  <1>9. TypeOK'
    BY <1>5, <1>8 DEF StorageInv, ApartInv, TypeOK, UploadsInv
  <1>10. ForeignNeedsUpload'
    <2> SUFFICES ASSUME NEW k \in Key, NEW d \in Range(bucket'[k])
                 PROVE  k \in Reach(WriterOf[d]) \/ Opened(k)
      <3>1. \A j \in Key : Opened(j) => Opened(j)'
        BY DEF Opened, DrawnStays
      <3> QED BY <3>1 DEF ForeignNeedsUpload, Reach, user_key
    <2>1. CASE k \in req[r].key
      BY <1>6, <1>7, <2>1
    <2>2. CASE k \notin req[r].key
      BY <1>7, <2>2 DEF ForeignNeedsUpload, StorageInv, ApartInv
    <2> QED BY <2>1, <2>2
  <1>11. OwnUrls'
    BY DEF StorageInv, ApartInv, OwnUrls, UploadsInv
  <1>12. \A k \in req[r].key : k \in Key /\ r \in Busy(k)
    BY <1>7 DEF Busy
  <1>13. DoneIsThere'
    <2> SUFFICES ASSUME NEW q \in Req, NEW k \in req'[q].key, req'[q].pc = "done",
                        req'[q].op \in Writes, req'[q].alone
                 PROVE  bucket'[k] = Promise(q)'
      BY DEF DoneIsThere
    <2>1. CASE q = r
      <3>1. k \in req[r].key
        BY <1>2, <1>5, <2>1 DEF Same
      <3>2. Promise(r)' = w
        BY <1>2, <1>5, PromiseSame DEF w
      <3> QED BY <1>7, <2>1, <3>1, <3>2
    <2>2. CASE q # r
      <3>1. req'[q] = req[q] /\ req[q] \in Request
        BY <1>1, <1>5, <2>2
      <3>2. k \in Key /\ q \in Busy(k)
        BY <3>1 DEF Busy, Request
      <3>3. Busy(k) = {q}
        BY <3>1, <3>2 DEF AloneIsAlone, StorageInv, WriteInv
      <3>4. k \notin req[r].key
        BY <1>12, <2>2, <3>3
      <3>5. bucket[k] = Promise(q)
        BY <3>1 DEF DoneIsThere, StorageInv, WriteInv
      <3>6. Promise(q)' = Promise(q)
        BY <3>1 DEF Promise
      <3> QED BY <1>7, <3>2, <3>4, <3>5, <3>6
    <2> QED BY <2>1, <2>2
  <1>14. SettledIsQuiet'
    BY <1>5 DEF SettledIsQuiet, StorageInv, WriteInv
  <1>15. AckedWritesHold'
    <2> SUFFICES ASSUME NEW k \in Key, settled[k] # {} PROVE bucket'[k] \in settled[k]
      BY DEF AckedWritesHold
    <2>1. k \notin req[r].key
      BY <1>12 DEF SettledIsQuiet, StorageInv, WriteInv
    <2> QED BY <1>7, <2>1 DEF AckedWritesHold, StorageInv, WriteInv
  <1> QED BY <1>5, <1>9, <1>10, <1>11, <1>13, <1>14, <1>15 DEF StorageInv, ApartInv, WriteInv

\* The server's uploads after a step that leaves them alone, or closes one.
LEMMA UploadsStill ==
  ASSUME StorageInv, UNCHANGED <<uploads, drawn>>
  PROVE  UploadsInv' /\ DrawnStays
  BY DEF UploadsInv, DrawnStays, StorageInv, ApartInv, TypeOK

LEMMA UploadsClose ==
  ASSUME StorageInv, NEW x \in Upload, uploads' = [uploads EXCEPT ![x] = Closed],
         UNCHANGED drawn
  PROVE  UploadsInv' /\ DrawnStays
  <1>1. /\ Closed \in [key : SUBSET Key, parts : [Part -> SUBSET Data]]
        /\ Closed.key = {} /\ Closed.parts = NoParts
    BY NoRequest DEF Closed
  <1>2. uploads \in [Upload -> [key : SUBSET Key, parts : [Part -> SUBSET Data]]]
    BY DEF StorageInv, ApartInv, TypeOK
  <1>3. /\ uploads'[x] = Closed /\ \A y \in Upload \ {x} : uploads'[y] = uploads[y]
        /\ uploads' \in [Upload -> [key : SUBSET Key, parts : [Part -> SUBSET Data]]]
    BY <1>1, <1>2
  <1> QED BY <1>1, <1>3 DEF UploadsInv, DrawnStays, StorageInv, ApartInv, TypeOK

\* What holds of a request that the server has.
LEMMA AtServer ==
  ASSUME StorageInv, NEW r \in Req
  PROVE  /\ req[r] \in Request /\ GoodReq(req[r]) /\ req \in [Req -> Request]
         /\ bucket \in [Key -> Contents]
         /\ uploads \in [Upload -> [key : SUBSET Key, parts : [Part -> SUBSET Data]]]
         /\ drawn \in [Upload -> SUBSET Key]
  BY DEF StorageInv, ApartInv, TypeOK, GoodReqs

\* The server has done something for the request that writes no object, or
\* refused it.
LEMMA DoneKeeps ==
  ASSUME StorageInv, NEW r \in Req, NEW p \in {"done", "refused"}, req[r].pc = "sent",
         req' = [req EXCEPT ![r].pc = p], p = "done" => req[r].op \notin Writes,
         UploadsInv', DrawnStays, UNCHANGED <<boot, exists, bucket, urls, settled>>
  PROVE  StorageInv'
  <1> DEFINE c == [req[r] EXCEPT !.pc = p]
  <1>1. Same(req[r], c) /\ c.pc = p /\ c.alone = req[r].alone
    BY AtServer, NewPc
  <1>2. req' = [req EXCEPT ![r] = c]
    BY AtServer
  <1> HIDE DEF c
  <1>3. GoodReq(c)
    BY <1>1, AtServer, SameGood
  <1> QED BY <1>1, <1>2, <1>3, ServerKeeps

\* download and list change nothing at the server.
LEMMA FindKeeps ==
  ASSUME StorageInv, NEW r \in Req, Get(r) \/ List(r)
  PROVE  StorageInv'
  <1>1. /\ req[r].pc = "sent" /\ req[r].op \in {"get", "list"} /\ Done(r)
        /\ UNCHANGED <<boot, exists, bucket, urls, settled, uploads, drawn>>
    BY DEF Get, List, Executes, serverVars
  <1>2. UploadsInv' /\ DrawnStays /\ req[r].op \notin Writes
    BY <1>1, UploadsStill DEF Writes
  <1> QED BY <1>1, <1>2, DoneKeeps DEF Done

\* An answer that hides an error promises nothing.
LEMMA ErrorInBodyKeeps ==
  ASSUME StorageInv, NEW r \in Req, ErrorInBody(r)
  PROVE  StorageInv'
  <1> DEFINE b == [req[r] EXCEPT !.pc = "done"]
             c == [b EXCEPT !.alone = FALSE]
  <1>1. /\ req[r].pc = "sent" /\ req[r].op = "complete"
        /\ UNCHANGED <<boot, exists, bucket, uploads, drawn, urls, settled>>
    BY DEF ErrorInBody, Executes, serverVars
  <1>2. req' = [req EXCEPT ![r] = c]
    BY AtServer DEF ErrorInBody
  <1>3. Same(req[r], c) /\ c.pc = "done" /\ c.alone = FALSE
    <2>1. Same(req[r], b) /\ b.pc = "done"
      BY AtServer, NewPc
    <2>2. b \in Request
      BY <2>1 DEF Same
    <2> HIDE DEF b
    <2>3. Same(b, c) /\ c.pc = b.pc /\ c.alone = FALSE
      BY <2>2, NewAlone
    <2> HIDE DEF c
    <2> QED BY <2>1, <2>3 DEF Same
  <1> HIDE DEF c
  <1>4. /\ req'[r] = c /\ \A q \in Req \ {r} : req'[q] = req[q]
        /\ req' \in [Req -> Request]
    BY <1>2, <1>3, AtServer DEF Same
  <1>5. GoodReqs'
    BY <1>3, <1>4, AtServer, SameGood DEF GoodReqs
  <1>6. \A k \in Key : Busy(k)' = Busy(k)
    BY <1>1, <1>3, <1>4 DEF Busy, Same
  <1>7. TypeOK'
    BY <1>1, <1>4 DEF StorageInv, ApartInv, TypeOK
  <1>8. OwnUrls' /\ ForeignNeedsUpload'
    BY <1>1 DEF StorageInv, ApartInv, OwnUrls, ForeignNeedsUpload, Opened
  <1>9. AloneIsAlone'
    <2> SUFFICES ASSUME NEW q \in Req, NEW k \in Key, req'[q].alone, q \in Busy(k)'
                 PROVE  Busy(k)' = {q}
      BY DEF AloneIsAlone
    <2>1. q # r
      BY <1>3, <1>4
    <2> QED BY <1>4, <1>6, <2>1 DEF AloneIsAlone, StorageInv, WriteInv
  <1>10. DoneIsThere'
    <2> SUFFICES ASSUME NEW q \in Req, NEW k \in req'[q].key, req'[q].pc = "done",
                        req'[q].op \in Writes, req'[q].alone
                 PROVE  bucket'[k] = Promise(q)'
      BY DEF DoneIsThere
    <2>1. q # r
      BY <1>3, <1>4
    <2>2. req'[q] = req[q]
      BY <1>4, <2>1
    <2> QED BY <1>1, <2>2 DEF DoneIsThere, StorageInv, WriteInv, Promise
  <1>11. SettledIsQuiet' /\ AckedWritesHold'
    BY <1>1, <1>6 DEF SettledIsQuiet, AckedWritesHold, StorageInv, WriteInv
  <1> QED BY <1>5, <1>7, <1>8, <1>9, <1>10, <1>11 DEF StorageInv, ApartInv, WriteInv

\* A new upload belongs to the key it was asked for.
LEMMA CreateUploadKeeps ==
  ASSUME StorageInv, NEW r \in Req, NEW x \in Upload, CreateUpload(r, x)
  PROVE  StorageInv'
  <1> DEFINE q == req[r]
             c == [q EXCEPT !.pc = "done", !.upload = {x}]
             new == [key |-> req[r].key, parts |-> NoParts]
  <1>1. Same(req[r], c) /\ c.pc = "done" /\ c.alone = req[r].alone
    <2>1. q \in Request
      BY AtServer
    <2>2. c = [q EXCEPT !.pc = "done", !.upload = {x}]
      OBVIOUS
    <2>3. Same(q, c) /\ c.pc = "done" /\ c.alone = q.alone
      <3> HIDE DEF q, c
      <3> QED BY <2>1, <2>2, NewUpload
    <2> QED BY <2>3
  <1>2. req' = [req EXCEPT ![r] = c]
    BY AtServer DEF CreateUpload
  <1> HIDE DEF c
  <1>3. GoodReq(c)
    BY <1>1, AtServer, SameGood
  <1>4. /\ req[r].pc = "sent" /\ req[r].op = "create"
        /\ UNCHANGED <<boot, exists, bucket, urls, settled>>
        /\ drawn[x] = {} /\ drawn' = [drawn EXCEPT ![x] = req[r].key]
        /\ uploads' = [uploads EXCEPT ![x] = new]
    BY DEF CreateUpload, Executes
  <1>5. UploadsInv' /\ DrawnStays
    <2>1. /\ new \in [key : SUBSET Key, parts : [Part -> SUBSET Data]]
          /\ new.parts = NoParts /\ new.key = req[r].key /\ req[r].key \in SUBSET Key
      BY AtServer, NoRequest DEF Request, NoParts
    <2> HIDE DEF new
    <2>2. /\ uploads'[x] = new /\ \A y \in Upload \ {x} : uploads'[y] = uploads[y]
          /\ uploads' \in [Upload -> [key : SUBSET Key, parts : [Part -> SUBSET Data]]]
      BY <1>4, <2>1, AtServer
    <2>3. /\ drawn' \in [Upload -> SUBSET Key] /\ drawn'[x] = req[r].key
          /\ \A y \in Upload \ {x} : drawn'[y] = drawn[y]
      BY <1>4, <2>1, AtServer
    <2>4. DrawnStays
      BY <1>4, <2>3 DEF DrawnStays
    <2> QED BY <2>1, <2>2, <2>3, <2>4 DEF UploadsInv, StorageInv, ApartInv, TypeOK
  <1>6. req[r].op \notin Writes
    BY <1>4 DEF Writes
  <1> QED BY <1>1, <1>2, <1>3, <1>4, <1>5, <1>6, ServerKeeps

\* A part goes to an upload of the key its request names.
LEMMA PutPartKeeps ==
  ASSUME StorageInv, NEW r \in Req, PutPart(r)
  PROVE  StorageInv'
  <1>1. PICK x \in Upload, p \in req[r].part :
          /\ Open(r, x)
          /\ uploads' = [uploads EXCEPT ![x].parts[p] = {req[r].body[1]}]
    BY DEF PutPart
  <1>2. /\ req[r].pc = "sent" /\ req[r].op = "part" /\ Done(r) /\ drawn' = drawn
        /\ UNCHANGED <<boot, exists, bucket, urls, settled>>
    BY DEF PutPart, Executes
  <1> DEFINE d == req[r].body[1]
             old == uploads[x]
             new == [old EXCEPT !.parts = [old.parts EXCEPT ![p] = {d}]]
  <1>3. p \in Part /\ req[r].body \in Contents /\ req[r].body # <<>>
    BY <1>2, AtServer DEF Request, GoodReq
  <1>4. d \in Data
    <2>1. d \in Range(req[r].body) /\ Range(req[r].body) \subseteq Data
      BY <1>3, ContentTypes
    <2> HIDE DEF d
    <2> QED BY <2>1
  <1>5. old.key = req[r].key /\ old.key # {}
    BY <1>1 DEF Open
  <1>6. uploads' = [uploads EXCEPT ![x] = new]
    <2>1. uploads' = [uploads EXCEPT ![x].parts[p] = {d}]
      BY <1>1
    <2>2. uploads \in [Upload -> [key : SUBSET Key, parts : [Part -> SUBSET Data]]]
      BY AtServer
    <2> HIDE DEF d
    <2> QED BY <2>1, <2>2
  <1> HIDE DEF d
  <1>7. new.key = old.key /\ new \in [key : SUBSET Key, parts : [Part -> SUBSET Data]]
    BY <1>3, <1>4, AtServer
  <1> HIDE DEF new
  <1>8. /\ uploads'[x] = new /\ \A y \in Upload \ {x} : uploads'[y] = uploads[y]
        /\ uploads' \in [Upload -> [key : SUBSET Key, parts : [Part -> SUBSET Data]]]
    BY <1>6, <1>7, AtServer
  <1>9. UploadsInv' /\ DrawnStays
    BY <1>2, <1>5, <1>7, <1>8 DEF UploadsInv, DrawnStays, StorageInv, ApartInv, TypeOK
  <1>10. req[r].op \notin Writes
    BY <1>2 DEF Writes
  <1> QED BY <1>2, <1>9, <1>10, DoneKeeps DEF Done

\* Put, delete and complete write what they promise.
LEMMA WritesKeep ==
  ASSUME StorageInv, NEW r \in Req, Put(r) \/ Delete(r) \/ Complete(r)
  PROVE  StorageInv'
  <1>1. /\ req[r].pc = "sent" /\ req[r].op \in {"put", "delete", "complete"} /\ Done(r)
        /\ UNCHANGED <<boot, exists, urls, settled>>
    BY DEF Put, Delete, Complete, Executes
  <1>2. /\ SetObject(r, Promise(r)) /\ UploadsInv' /\ DrawnStays
        /\ req[r].op = "complete" => \A k \in req[r].key : Opened(k)
    <2>1. CASE Put(r)
      <3>1. req[r].op = "put" /\ SetObject(r, req[r].body) /\ UNCHANGED <<uploads, drawn>>
        BY <2>1 DEF Put, Executes
      <3> QED BY <3>1, UploadsStill DEF Promise
    <2>2. CASE Delete(r)
      <3>1. req[r].op = "delete" /\ SetObject(r, <<>>) /\ UNCHANGED <<uploads, drawn>>
        BY <2>2 DEF Delete, Executes
      <3> QED BY <3>1, UploadsStill DEF Promise
    <2>3. CASE Complete(r)
      <3>1. req[r].op = "complete" /\ drawn' = drawn
        BY <2>3 DEF Complete, Executes
      <3>2. PICK x \in Upload :
              /\ Open(r, x)
              /\ \E c \in Matching(x, req[r].parts) : SetObject(r, c)
              /\ uploads' = [uploads EXCEPT ![x] = Closed]
        BY <2>3 DEF Complete
      <3>3. PICK c \in Matching(x, req[r].parts) : SetObject(r, c)
        BY <3>2
      <3>4. c = Assemble(req[r].parts)
        <4>1. Matching(x, req[r].parts) \subseteq {Assemble(req[r].parts)}
          BY Zenon DEF Matching
        <4> QED BY <3>3, <4>1
      <3>5. c = req[r].body
        BY <3>1, <3>4, AtServer DEF GoodReq
      <3>6. \A k \in req[r].key : k \in drawn[x]
        BY <3>2 DEF Open, StorageInv, ApartInv, TypeOK
      <3> QED BY <3>1, <3>2, <3>3, <3>5, <3>6, UploadsClose DEF Promise, Opened
    <2> QED BY <2>1, <2>2, <2>3
  <1> QED BY <1>1, <1>2, WriteKeeps DEF Writes

LEMMA ServerSteps ==
  ASSUME StorageInv, Server
  PROVE  StorageInv'
  <1>1. PICK r \in Req :
          \/ Put(r) \/ Get(r) \/ Delete(r) \/ List(r) \/ PutPart(r) \/ Complete(r)
          \/ ErrorInBody(r) \/ AbortUpload(r) \/ Refuse(r)
          \/ \E x \in Upload : CreateUpload(r, x)
    BY DEF Server
  <1>2. CASE AbortUpload(r)
    <2>1. /\ req[r].pc = "sent" /\ req[r].op = "abort" /\ Done(r) /\ drawn' = drawn
          /\ UNCHANGED <<boot, exists, bucket, urls, settled>>
      BY <1>2 DEF AbortUpload, Executes
    <2>2. PICK x \in Upload : uploads' = [uploads EXCEPT ![x] = Closed]
      BY <1>2 DEF AbortUpload
    <2>3. UploadsInv' /\ DrawnStays /\ req[r].op \notin Writes
      BY <2>1, <2>2, UploadsClose DEF Writes
    <2> QED BY <2>1, <2>3, DoneKeeps DEF Done
  <1>3. CASE Refuse(r)
    <2>1. /\ req[r].pc = "sent" /\ req' = [req EXCEPT ![r].pc = "refused"]
          /\ UNCHANGED <<boot, exists, bucket, uploads, drawn, urls, settled>>
      BY <1>3 DEF Refuse, serverVars
    <2>2. UploadsInv' /\ DrawnStays
      BY <2>1, UploadsStill
    <2> QED BY <2>1, <2>2, DoneKeeps
  <1> QED BY <1>1, <1>2, <1>3, WritesKeep, FindKeeps, PutPartKeeps,
          CreateUploadKeeps, ErrorInBodyKeeps

\* The end of a request takes it out of every count.
LEMMA EndKeeps ==
  ASSUME StorageInv, NEW r \in Req, End(r)
  PROVE  /\ req' \in [Req -> Request] /\ GoodReqs' /\ AloneIsAlone' /\ req'[r] = NoReq
         /\ \A k \in Key : Busy(k)' = Busy(k) \ {r}
         /\ \A q \in Req \ {r} : req'[q] = req[q]
  <1>1. req \in [Req -> Request] /\ GoodReqs
    BY DEF StorageInv, ApartInv, TypeOK
  <1>2. /\ req'[r] = NoReq /\ \A q \in Req \ {r} : req'[q] = req[q]
        /\ req' \in [Req -> Request]
    BY <1>1, NoRequest DEF End
  <1>3. GoodReqs'
    BY <1>1, <1>2, NoRequest DEF GoodReqs
  <1>4. \A k \in Key : Busy(k)' = Busy(k) \ {r}
    BY <1>2, NoRequest DEF Busy
  <1>5. AloneIsAlone'
    <2> SUFFICES ASSUME NEW q \in Req, NEW k \in Key, req'[q].alone, q \in Busy(k)'
                 PROVE  Busy(k)' = {q}
      BY DEF AloneIsAlone
    <2>1. q # r /\ q \in Busy(k)
      BY <1>4
    <2>2. Busy(k) = {q}
      BY <1>2, <2>1 DEF AloneIsAlone, StorageInv, WriteInv
    <2> QED BY <1>4, <2>1, <2>2
  <1> QED BY <1>2, <1>3, <1>4, <1>5

\* Nothing that was done is undone by the end of another request.
LEMMA DoneStays ==
  ASSUME StorageInv, NEW r \in Req, End(r), UNCHANGED bucket
  PROVE  DoneIsThere'
  <1> SUFFICES ASSUME NEW q \in Req, NEW k \in req'[q].key, req'[q].pc = "done",
                      req'[q].op \in Writes, req'[q].alone
               PROVE  bucket'[k] = Promise(q)'
    BY DEF DoneIsThere
  <1>1. q # r
    BY EndKeeps, NoRequest
  <1>2. req'[q] = req[q]
    BY <1>1, EndKeeps
  <1> QED BY <1>2 DEF DoneIsThere, StorageInv, WriteInv, Promise

\* A request that ends without success leaves everything else alone.
LEMMA ForgetKeeps ==
  ASSUME StorageInv, NEW r \in Req, End(r), UNCHANGED <<boot, serverVars, urls, settled>>
  PROVE  StorageInv'
  <1>1. UNCHANGED <<boot, exists, bucket, uploads, drawn, urls, settled>>
    BY DEF serverVars
  <1>2. TypeOK'
    BY <1>1, EndKeeps DEF StorageInv, ApartInv, TypeOK
  <1>3. OwnUrls' /\ ForeignNeedsUpload'
    BY <1>1 DEF StorageInv, ApartInv, OwnUrls, ForeignNeedsUpload, Opened
  <1>4. SettledIsQuiet' /\ AckedWritesHold'
    BY <1>1, EndKeeps DEF SettledIsQuiet, AckedWritesHold, StorageInv, WriteInv
  <1> QED BY <1>1, <1>2, <1>3, <1>4, EndKeeps, DoneStays DEF StorageInv, ApartInv, WriteInv

\* An acknowledged write that was alone settles its keys, for nobody else is
\* writing them.
LEMMA AcknowledgeKeeps ==
  ASSUME StorageInv, NEW r \in Req, Acknowledge(r)
  PROVE  StorageInv'
  <1>1. /\ req[r].pc = "done" /\ End(r)
        /\ UNCHANGED <<boot, exists, bucket, uploads, drawn, urls>>
    BY DEF Acknowledge, serverVars
  <1> DEFINE settles(k) == req[r].op \in Writes /\ req[r].alone /\ k \in req[r].key
  <1>2. settled' = [k \in Key |-> IF settles(k) THEN {Promise(r)} ELSE settled[k]]
    BY DEF Acknowledge
  <1>3. /\ req[r] \in Request /\ GoodReq(req[r])
        /\ settled \in [Key -> SUBSET Contents]
    BY DEF StorageInv, ApartInv, TypeOK, GoodReqs
  <1>4. Promise(r) \in Contents
    BY <1>3, ContentTypes DEF Promise, Request
  <1>5. settled' \in [Key -> SUBSET Contents]
    BY <1>2, <1>3, <1>4
  <1> HIDE DEF settles
  <1>6. TypeOK'
    BY <1>1, <1>5, EndKeeps DEF StorageInv, ApartInv, TypeOK
  <1>7. OwnUrls' /\ ForeignNeedsUpload'
    BY <1>1 DEF StorageInv, ApartInv, OwnUrls, ForeignNeedsUpload, Opened
  <1>8. SettledIsQuiet' /\ AckedWritesHold'
    <2> SUFFICES ASSUME NEW k \in Key, settled'[k] # {}
                 PROVE  Busy(k)' = {} /\ bucket'[k] \in settled'[k]
      BY DEF SettledIsQuiet, AckedWritesHold
    <2>1. CASE settles(k)
      <3>1. r \in Busy(k) /\ req[r].alone
        BY <1>1, <2>1 DEF settles, Busy
      <3>2. Busy(k) = {r}
        BY <3>1 DEF AloneIsAlone, StorageInv, WriteInv
      <3>3. bucket[k] = Promise(r)
        BY <1>1, <2>1 DEF settles, DoneIsThere, StorageInv, WriteInv
      <3> QED BY <1>1, <1>2, <2>1, <3>2, <3>3, EndKeeps
    <2>2. CASE ~settles(k)
      <3>1. settled'[k] = settled[k]
        BY <1>2, <2>2
      <3>2. Busy(k) = {} /\ bucket[k] \in settled[k]
        BY <3>1 DEF SettledIsQuiet, AckedWritesHold, StorageInv, WriteInv
      <3> QED BY <1>1, <3>1, <3>2, EndKeeps
    <2> QED BY <2>1, <2>2
  <1> QED BY <1>1, <1>6, <1>7, <1>8, EndKeeps, DoneStays
          DEF StorageInv, ApartInv, WriteInv

LEMMA AnswersKeep ==
  ASSUME StorageInv, Answers
  PROVE  StorageInv'
  <1>1. PICK r \in Req : Acknowledge(r) \/ Report(r) \/ Drop(r)
    BY DEF Answers
  <1>2. CASE Report(r)
    BY <1>2, ForgetKeeps DEF Report
  <1>3. CASE Drop(r)
    <2>1. UNCHANGED <<boot, serverVars, urls, settled>> /\ req[r].pc \in {"sent", "done"}
      BY <1>3 DEF Drop
    <2>2. CASE End(r)
      BY <2>1, <2>2, ForgetKeeps
    <2>3. CASE ~End(r)
      <3> DEFINE c == [req[r] EXCEPT !.orphan = TRUE]
      <3>1. /\ req[r].pc = "sent" /\ req' = [req EXCEPT ![r] = c]
            /\ UNCHANGED <<boot, exists, bucket, uploads, drawn, urls, settled>>
        BY <1>3, <2>1, <2>3, AtServer DEF Drop, serverVars
      <3>2. Same(req[r], c) /\ c.pc = req[r].pc /\ c.alone = req[r].alone
        BY AtServer, NewOrphan
      <3> HIDE DEF c
      <3>3. GoodReq(c)
        BY <3>2, AtServer, SameGood
      <3>4. UploadsInv' /\ DrawnStays
        BY <3>1, UploadsStill
      <3> QED BY <3>1, <3>2, <3>3, <3>4, ServerKeeps
    <2> QED BY <2>2, <2>3
  <1> QED BY <1>1, <1>2, <1>3, AcknowledgeKeeps

\* Every step keeps the invariant.
LEMMA StorageStep == StorageInv /\ [Next]_vars => StorageInv'
  <1> SUFFICES ASSUME StorageInv, [Next]_vars PROVE StorageInv'
    OBVIOUS
  <1>1. CASE UNCHANGED vars
    <2>1. /\ UNCHANGED <<bucket, uploads, drawn, req, settled, boot, exists, urls>>
          /\ boot' \in [Proc -> {"head", "put", "ready"}]
          /\ urls' \in SUBSET [user : User, key : Key, method : {"put", "get"}]
      BY <1>1 DEF vars, serverVars, StorageInv, ApartInv, TypeOK
    <2>2. exists' \in BOOLEAN
      BY <2>1 DEF StorageInv, ApartInv, TypeOK
    <2>3. OwnUrls'
      BY <2>1 DEF OwnUrls, StorageInv, ApartInv
    <2> QED BY <2>1, <2>2, <2>3, StillKeeps
  <1> QED BY <1>1, BootKeeps, HandlersKeep, ServerSteps, AnswersKeep DEF Next

LEMMA StorageAlways == Spec => []StorageInv
  BY StorageInit, StorageStep, PTL DEF Spec

-----------------------------------------------------------------------------
\* Every reachable state of the storage endpoints and their server is well
\* typed.
THEOREM TypeCorrect == Spec => []TypeOK
  <1>1. StorageInv => TypeOK
    BY DEF StorageInv, ApartInv
  <1> QED BY StorageAlways, <1>1, PTL

\* Whatever names and upload ids requests carry, and wherever names lead: a
\* content gets to a key that no checked name of its writer leads to only if
\* init_multipart has opened an upload there.
THEOREM ForeignContentNeedsUpload == Spec => []ForeignNeedsUpload
  <1>1. StorageInv => ForeignNeedsUpload
    BY DEF StorageInv, ApartInv
  <1> QED BY StorageAlways, <1>1, PTL

\* A key holds what the last acknowledged upload, completion or deletion left
\* there if no other write to it was under way: no orphaned request, late
\* part or second completion changes it afterwards.
THEOREM AcknowledgedWritesStay == Spec => []AckedWritesHold
  <1>1. StorageInv => AckedWritesHold
    BY DEF StorageInv, WriteInv
  <1> QED BY StorageAlways, <1>1, PTL
=============================================================================
