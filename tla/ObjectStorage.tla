--------------------------- MODULE ObjectStorage ---------------------------
(***************************************************************************)
(* The storage endpoints of backend/storage/src: routes.rs maps a user's   *)
(* name to a key of the bucket, client.rs signs a request and sends it to  *)
(* an S3 server.  A request is sent, executed (or refused) by the server   *)
(* and answered; when the API's client goes away the handler is dropped    *)
(* and the server may still execute what it has received.  The server is   *)
(* external; it is modelled by what the client expects of it.              *)
(***************************************************************************)
EXTENDS Integers, Sequences, FiniteSets, Functions

CONSTANTS
  User,      \* authenticated users
  Name,      \* object names users choose
  Checked,   \* the names validate_storage_key lets through
  Key,       \* keys of the bucket
  KeyOf,     \* the key build_object_url makes of a user's prefix and a name
  Data,      \* contents of an upload or of a part; an ETag stands for one
  WriterOf,  \* the user who sends a content
  Upload,    \* upload ids, drawn fresh by the server
  MaxPart,   \* bound: part numbers
  Req,       \* requests under way
  MaxUrls,   \* bound: presigned URLs at a time
  Proc       \* API processes that start up

ASSUME StorageAssumption ==
  /\ Checked \subseteq Name
  /\ KeyOf \in [User \X Name -> Key]
  /\ WriterOf \in [Data -> User]
  /\ MaxPart \in Nat \ {0} /\ MaxUrls \in Nat

VARIABLES
  boot,     \* how far each process is in router()
  exists,   \* whether the bucket exists
  bucket,   \* key -> contents, <<>> without an object
  uploads,  \* upload id -> its key and its parts, at the server
  drawn,    \* upload ids handed out, each with the key it was made for
  urls,     \* presigned URLs that have not expired
  req,      \* the requests under way
  settled   \* history: what the object must be after an undisturbed write

serverVars == <<exists, bucket, uploads, drawn>>
vars == <<boot, exists, bucket, uploads, drawn, urls, req, settled>>
-----------------------------------------------------------------------------
Part == 1..MaxPart
Contents == UNION {[1..n -> Data] : n \in 0..MaxPart}
NoParts == [p \in Part |-> {}]
Closed == [key |-> {}, parts |-> NoParts]

\* The key is joined to the endpoint as a URL path, and the server sees what
\* the URL parser makes of it (it resolves dot segments): a name may lead to
\* any key, also to one without the user's prefix.
user_key(u, n) == KeyOf[<<u, n>>]

\* Where the names that are checked lead a user.
Reach(u) == {user_key(u, n) : n \in Checked}

\* A request: nobody waits for an orphan's answer any more; alone says that
\* no other write to its key was under way since it was sent.
Ops == {"put", "get", "delete", "list", "create", "part", "complete", "abort"}
Writes == {"put", "delete", "complete"}
Request ==
  [pc : {"idle", "sent", "done", "refused"}, op : Ops, key : SUBSET Key, upload : SUBSET Upload, part : SUBSET Part,
   body : Contents, parts : [Part -> SUBSET Data], orphan : BOOLEAN,
   alone : BOOLEAN]
NoReq == [pc |-> "idle", op |-> "get", key |-> {}, upload |-> {},
          part |-> {}, body |-> <<>>, parts |-> NoParts, orphan |-> FALSE,
          alone |-> FALSE]

Ready == \E p \in Proc : boot[p] = "ready"
Busy(k) == {r \in Req : req[r].pc # "idle" /\ req[r].op \in Writes /\ k \in req[r].key}

\* The contents a list of parts stands for, in the order of their numbers.
Assemble(parts) ==
  LET listed == {p \in Part : parts[p] # {}}
      nth(i) == CHOOSE p \in listed : Cardinality({q \in listed : q <= p}) = i
  IN [i \in 1..Cardinality(listed) |-> CHOOSE d \in parts[nth(i)] : TRUE]
-----------------------------------------------------------------------------
Init ==
  /\ boot = [p \in Proc |-> "head"]
  /\ exists = FALSE
  /\ bucket = [k \in Key |-> <<>>]
  /\ uploads = [x \in Upload |-> Closed]
  /\ drawn = [x \in Upload |-> {}]
  /\ urls = {}
  /\ req = [r \in Req |-> NoReq]
  /\ settled = [k \in Key |-> {<<>>}]

\* ensure_bucket: HEAD; a failed HEAD is a warning, an answer other than
\* success means that the bucket is not there.
BucketExists(p) ==
  /\ boot[p] = "head"
  /\ boot' = [boot EXCEPT ![p] = IF exists THEN "ready" ELSE "put"]
  /\ UNCHANGED <<serverVars, urls, req, settled>>

\* PUT of the bucket, which another process may have created meanwhile.
CreateBucket(p) ==
  /\ boot[p] = "put"
  /\ exists' = TRUE
  /\ boot' = [boot EXCEPT ![p] = "ready"]
  /\ UNCHANGED <<bucket, uploads, drawn, urls, req, settled>>

\* Either fails, or auto_create_bucket is off: the process starts all the
\* same, perhaps without a bucket.
EnsureFails(p) ==
  /\ boot[p] \in {"head", "put"}
  /\ boot' = [boot EXCEPT ![p] = "ready"]
  /\ UNCHANGED <<serverVars, urls, req, settled>>
-----------------------------------------------------------------------------
(* The handlers up to the await of the server's answer.                    *)

Send(r, c) ==
  LET write == c.op \in Writes
      alone == write /\ \A k \in c.key : Busy(k) = {}
  IN /\ Ready /\ req[r].pc = "idle"
     /\ req' = [q \in Req |->
          IF q = r THEN [c EXCEPT !.alone = alone]
          ELSE IF write /\ \E k \in c.key : q \in Busy(k)
               THEN [req[q] EXCEPT !.alone = FALSE] ELSE req[q]]
     /\ settled' = [k \in Key |-> IF write /\ k \in c.key THEN {} ELSE settled[k]]
     /\ UNCHANGED <<boot, serverVars>>

\* A request about the keys K.
Call(op, K) ==
  [pc |-> "sent", op |-> op, key |-> K, upload |-> {}, part |-> {},
   body |-> <<>>, parts |-> NoParts, orphan |-> FALSE, alone |-> FALSE]

Path(u, n) == {user_key(u, n)}

\* Mutant of upload: the name is not checked.
upload_unchecked(r, u, n, d) ==
  /\ WriterOf[d] = u
  /\ Send(r, [Call("put", Path(u, n)) EXCEPT !.body = <<d>>])
  /\ UNCHANGED urls

\* A name that validate_storage_key refuses is answered 400.
upload(r, u, n, d) ==
  /\ n \in Checked /\ WriterOf[d] = u
  /\ Send(r, [Call("put", Path(u, n)) EXCEPT !.body = <<d>>])
  /\ UNCHANGED urls

download(r, u, n) ==
  n \in Checked /\ Send(r, Call("get", Path(u, n))) /\ UNCHANGED urls

delete(r, u, n) ==
  n \in Checked /\ Send(r, Call("delete", Path(u, n))) /\ UNCHANGED urls

\* The prefix goes into the query and names no key.
list(r, u) == Send(r, Call("list", {})) /\ UNCHANGED urls

init_multipart(r, u, n) ==
  n \in Checked /\ Send(r, Call("create", Path(u, n))) /\ UNCHANGED urls

\* Mutant of upload_part: part numbers counted from the next one.
upload_part_off(r, u, n, x, p, d) ==
  /\ WriterOf[d] = u
  /\ Send(r, [Call("part", Path(u, n)) EXCEPT
                 !.upload = {x}, !.part = {p + 1}, !.body = <<d>>])
  /\ UNCHANGED urls

\* The path names any upload id and part number, and any name: this handler
\* and the next two do not check it.
upload_part(r, u, n, x, p, d) ==
  /\ WriterOf[d] = u
  /\ Send(r, [Call("part", Path(u, n)) EXCEPT
                 !.upload = {x}, !.part = {p}, !.body = <<d>>])
  /\ UNCHANGED urls

\* The body lists parts with any ETags, at most one for a number.
complete_multipart(r, u, n, x, l) ==
  /\ Send(r, [Call("complete", Path(u, n)) EXCEPT
                 !.upload = {x}, !.parts = l, !.body = Assemble(l)])
  /\ UNCHANGED urls

abort_multipart(r, u, n, x) ==
  /\ Send(r, [Call("abort", Path(u, n)) EXCEPT !.upload = {x}])
  /\ UNCHANGED urls

\* presign computes a URL for one key and one method and calls nobody.
presign(u, n, m) ==
  /\ Ready /\ n \in Checked /\ Cardinality(urls) < MaxUrls
  /\ urls' = urls \cup {[user |-> u, key |-> user_key(u, n), method |-> m]}
  /\ UNCHANGED <<boot, serverVars, req, settled>>

\* Its holder, who acts for the user, sends the request without the API.
UsePresigned(r, l, d) ==
  /\ l \in urls
  /\ WriterOf[d] = l.user
  /\ Send(r, [Call(l.method, {l.key}) EXCEPT
                 !.body = IF l.method = "put" THEN <<d>> ELSE <<>>])
  /\ UNCHANGED urls

UrlExpires ==
  /\ \E l \in urls : urls' = urls \ {l}
  /\ UNCHANGED <<boot, serverVars, req, settled>>
-----------------------------------------------------------------------------
(* The server.                                                             *)

Done(r) == req' = [req EXCEPT ![r].pc = "done"]
Executes(r, op) == req[r].pc = "sent" /\ req[r].op = op /\ exists

SetObject(r, c) ==
  bucket' = [k \in Key |-> IF k \in req[r].key THEN c ELSE bucket[k]]

Put(r) ==
  /\ Executes(r, "put")
  /\ SetObject(r, req[r].body) /\ Done(r)
  /\ UNCHANGED <<boot, exists, uploads, drawn, urls, settled>>

Get(r) ==
  /\ Executes(r, "get")
  /\ \E k \in req[r].key : bucket[k] # <<>>
  /\ Done(r)
  /\ UNCHANGED <<boot, serverVars, urls, settled>>

Delete(r) ==
  /\ Executes(r, "delete")
  /\ SetObject(r, <<>>) /\ Done(r)
  /\ UNCHANGED <<boot, exists, uploads, drawn, urls, settled>>

List(r) ==
  /\ Executes(r, "list")
  /\ Done(r)
  /\ UNCHANGED <<boot, serverVars, urls, settled>>

CreateUpload(r, x) ==
  /\ Executes(r, "create") /\ drawn[x] = {}
  /\ drawn' = [drawn EXCEPT ![x] = req[r].key]
  /\ uploads' = [uploads EXCEPT ![x] = [key |-> req[r].key, parts |-> NoParts]]
  /\ req' = [req EXCEPT ![r].pc = "done", ![r].upload = {x}]
  /\ UNCHANGED <<boot, exists, bucket, urls, settled>>

\* An upload id counts only together with the key it was made for.
Open(r, x) == x \in req[r].upload /\ uploads[x].key # {} /\ uploads[x].key = req[r].key

PutPart(r) ==
  /\ Executes(r, "part")
  /\ \E x \in Upload, p \in req[r].part :
       /\ Open(r, x)
       /\ uploads' = [uploads EXCEPT ![x].parts[p] = {req[r].body[1]}]
  /\ Done(r)
  /\ UNCHANGED <<boot, exists, bucket, drawn, urls, settled>>

\* Mutant of Matching: the ETags are left out of the XML, so that the server
\* takes the parts it has under the listed numbers.
MatchingNumbers(x, parts) ==
  LET have == [p \in Part |-> IF parts[p] = {} THEN {} ELSE uploads[x].parts[p]]
  IN IF \A p \in Part : parts[p] # {} => have[p] # {} THEN {Assemble(have)} ELSE {}

\* build_complete_multipart_xml names each part with its ETag: the server
\* makes the object of these parts if it still has all of them.
Matching(x, parts) ==
  IF \A p \in Part : parts[p] \subseteq uploads[x].parts[p]
  THEN {Assemble(parts)} ELSE {}

Complete(r) ==
  /\ Executes(r, "complete")
  /\ \E x \in Upload :
       /\ Open(r, x)
       /\ req[r].body # <<>>
       /\ \E c \in Matching(x, req[r].parts) : SetObject(r, c)
       /\ uploads' = [uploads EXCEPT ![x] = Closed]
  /\ Done(r)
  /\ UNCHANGED <<boot, exists, drawn, urls, settled>>

\* S3 may answer a completion 200 and say in the body that it failed, which
\* complete_multipart_upload does not read.
ErrorInBody(r) ==
  /\ Executes(r, "complete")
  /\ req' = [req EXCEPT ![r].pc = "done", ![r].alone = FALSE]
  /\ UNCHANGED <<boot, serverVars, urls, settled>>

AbortUpload(r) ==
  /\ Executes(r, "abort")
  /\ \E x \in Upload : Open(r, x) /\ uploads' = [uploads EXCEPT ![x] = Closed]
  /\ Done(r)
  /\ UNCHANGED <<boot, exists, bucket, drawn, urls, settled>>

\* The server answers with an error, for a reason of the request or its own.
Refuse(r) ==
  /\ req[r].pc = "sent"
  /\ req' = [req EXCEPT ![r].pc = "refused"]
  /\ UNCHANGED <<boot, serverVars, urls, settled>>
-----------------------------------------------------------------------------
(* The handlers after the await.                                           *)

End(r) == req' = [req EXCEPT ![r] = NoReq]

\* What an acknowledged write to a key promises, if it was undisturbed.
Promise(r) == IF req[r].op = "delete" THEN <<>> ELSE req[r].body

\* Success is reported; the user learns an upload id or an ETag (of his own
\* content, so that he could compute it).
Acknowledge(r) ==
  /\ req[r].pc = "done" /\ ~req[r].orphan
  /\ settled' = [k \in Key |->
       IF req[r].op \in Writes /\ req[r].alone /\ k \in req[r].key
       THEN {Promise(r)} ELSE settled[k]]
  /\ End(r)
  /\ UNCHANGED <<boot, serverVars, urls>>

\* An error is reported: 503, or 404 for a download.  list does not look at
\* the status and reports an empty list.
Report(r) ==
  /\ req[r].pc = "refused" \/ (req[r].pc = "done" /\ req[r].orphan)
  /\ End(r)
  /\ UNCHANGED <<boot, serverVars, urls, settled>>

\* The handler is dropped, or the connection to the server breaks: what was
\* sent and not executed may still be.
Drop(r) ==
  /\ req[r].pc \in {"sent", "done"} /\ ~req[r].orphan
  /\ IF req[r].pc = "sent" /\ req[r].op \notin {"get", "list"}
     THEN req' = [req EXCEPT ![r].orphan = TRUE]
     ELSE End(r)
  /\ UNCHANGED <<boot, serverVars, urls, settled>>
-----------------------------------------------------------------------------
Boot == \E p \in Proc : BucketExists(p) \/ CreateBucket(p) \/ EnsureFails(p)

\* The lists a body may hold: an ETag or none for each part number.
Lists == [Part -> {{}} \cup {{d} : d \in Data}]

\* A multipart request for an upload id that was handed out, to whomever.
MultipartRequest(r, u, n, x) ==
  \/ abort_multipart(r, u, n, x)
  \/ \E l \in Lists : complete_multipart(r, u, n, x, l)
  \/ \E p \in Part, d \in Data : upload_part(r, u, n, x, p, d)

Handlers ==
  \/ \E r \in Req, u \in User, n \in Name :
       \/ download(r, u, n) \/ delete(r, u, n) \/ list(r, u) \/ init_multipart(r, u, n)
       \/ \E d \in Data : upload(r, u, n, d)
       \/ \E x \in Upload : drawn[x] # {} /\ MultipartRequest(r, u, n, x)
  \/ \E u \in User, n \in Name, m \in {"put", "get"} : presign(u, n, m)
  \/ \E r \in Req, l \in urls, d \in Data : UsePresigned(r, l, d)
  \/ UrlExpires

Server ==
  \E r \in Req :
    \/ Put(r) \/ Get(r) \/ Delete(r) \/ List(r) \/ PutPart(r) \/ Complete(r)
    \/ ErrorInBody(r) \/ AbortUpload(r) \/ Refuse(r)
    \/ \E x \in Upload : CreateUpload(r, x)

Answers == \E r \in Req : Acknowledge(r) \/ Report(r) \/ Drop(r)

Next == Boot \/ Handlers \/ Server \/ Answers

Spec == Init /\ [][Next]_vars
-----------------------------------------------------------------------------
\* Requests, uploads, objects and histories stay within their types; a
\* closed upload keeps no parts, and an open one has the key it was drawn for.
TypeOK ==
  /\ boot \in [Proc -> {"head", "put", "ready"}]
  /\ exists \in BOOLEAN
  /\ bucket \in [Key -> Contents]
  /\ uploads \in [Upload -> [key : SUBSET Key, parts : [Part -> SUBSET Data]]]
  /\ drawn \in [Upload -> SUBSET Key]
  /\ urls \in SUBSET [user : User, key : Key, method : {"put", "get"}]
  /\ req \in [Req -> Request]
  /\ settled \in [Key -> SUBSET Contents]
  /\ \A x \in Upload : uploads[x].key = {} => uploads[x].parts = NoParts
  /\ \A x \in Upload : uploads[x].key \subseteq drawn[x]

\* An object is what the last acknowledged upload, completion or deletion
\* made of it, unless another write to its key was under way: parts that
\* arrive late, twice or for a finished upload never change it.  A completion
\* whose answer hides an error promises nothing.
AckedWritesHold ==
  \A k \in Key : settled[k] # {} => bucket[k] \in settled[k]

\* Another user's content gets to a key only through an upload that
\* init_multipart has opened there: whatever names and upload ids requests
\* carry, a content is in an object its writer's checked names lead to, or in
\* one that a multipart upload was opened for.
Opened(k) == \E x \in Upload : k \in drawn[x]
ForeignNeedsUpload ==
  \A k \in Key : \A d \in Range(bucket[k]) : k \in Reach(WriterOf[d]) \/ Opened(k)
=============================================================================
