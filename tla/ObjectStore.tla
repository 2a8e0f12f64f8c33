------------------------------ MODULE ObjectStore ------------------------------
(***************************************************************************)
(* RequestHandlerAPI::handleRequest (src/src/request_handler/              *)
(* request_handler_api.cc) over CRUDHandler and FileStorage (src/src/api/).*)
(* Each action is one whole call of handleRequest for one request, down   *)
(* to the files it creates, overwrites or removes.                        *)
(*                                                                         *)
(* Strings are sequences of one-character strings, so that find_last_of,  *)
(* substr, the digit test, lexical_cast and the path concatenation of     *)
(* getPath are the code's own.  The directory tree is the set of files,   *)
(* keyed by the path the kernel resolves a string to: consecutive '/' name *)
(* the same directory.                                                     *)
(***************************************************************************)
EXTENDS Naturals, SequencesExt, Functions, TLC, Decimal

CONSTANTS
  Prefix,     \* prefix_: the trimmed location path of the APIHandler block
  Root,       \* base_path_: the "root" of the block
  Data,       \* request bodies
  MaxId,      \* bound on the ids POST allocates
  Requests,   \* requests [verb, target, body] clients send
  NoRequest,  \* req before the first request
  NoReply,    \* reply before the first request
  BadCast     \* boost::bad_lexical_cast

\* The dispatcher hands the handler only targets that start with its prefix,
\* so the "!success" branches after removePrefix are not reached.
ASSUME \A r \in Requests : IsPrefix(Prefix, r.target)

VARIABLES
  files,      \* the regular files under Root: resolved path -> contents
  req,        \* history: the last request
  reply       \* the response handleRequest filled: [status, body]

vars == <<files, req, reply>>

Slash == <<"/">>

-----------------------------------------------------------------------------
(* Strings and paths                                                        *)

\* The directories a path names: its segments between runs of '/'.
RECURSIVE FsPath(_)
FsPath(s) ==
  LET j == SelectInSeq(s, LAMBDA c : c = "/") IN
  IF s = <<>> THEN <<>>
  ELSE IF j = 1 THEN FsPath(Tail(s))
  ELSE IF j = 0 THEN <<s>>
  ELSE <<SubSeq(s, 1, j - 1)>> \o FsPath(SubSeq(s, j, Len(s)))

\* removePrefix: the target with prefix_ cut off.
RemovePrefix(t) == SubSeq(t, Len(Prefix) + 1, Len(t))

\* find_last_of('/'), 1-based, 0 for npos.
LastSlash(s) == SelectLastInSeq(s, LAMBDA c : c = "/")

\* substr(0, find_last_of('/')) and substr(find_last_of('/') + 1).
EntityPart(s) == IF LastSlash(s) = 0 THEN s ELSE SubSeq(s, 1, LastSlash(s) - 1)
IdPart(s) == SubSeq(s, LastSlash(s) + 1, Len(s))

\* std::isdigit(id_str[0]); id_str[0] of an empty string is '\0'.
IsDigitStart(s) == s # <<>> /\ s[1] \in Digits

LexicalCast(s) == IF IsNumeral(s) THEN NumeralValue(s) ELSE BadCast

-----------------------------------------------------------------------------
(* FileStorage and CRUDHandler                                              *)

\* FileStorage::getPath: base_path_ << entity << "/" << id.
GetPath(entity, id) == FsPath(Root \o entity \o Slash \o Numeral(id))

\* CRUDHandler::exists.
Exists(entity, id) == GetPath(entity, id) \in DOMAIN files

\* Mutant of GetNextId: the scan starts at id 0.
GetNextIdFromZero(entity) == Min({i \in 0..MaxId + 1 : ~Exists(entity, i)})

\* Mutant of GetNextId: one past the largest id in use, so freed ids are
\* never reused.
GetNextIdAfterLast(entity) ==
  1 + Max({0} \cup {i \in 1..MaxId : Exists(entity, i)})

\* CRUDHandler::getNextId: the first id from 1 whose path does not exist.
GetNextId(entity) == Min({i \in 1..MaxId + 1 : ~Exists(entity, i)})

\* FileStorage::write: create the parent directories, truncate and write.
WriteFile(entity, id, data) == (GetPath(entity, id) :> data) @@ files

\* FileStorage::remove.
RemoveFile(entity, id) == Restrict(files, DOMAIN files \ {GetPath(entity, id)})

\* Mutant of ListIds: the loop body runs before its first exists check.
ListIdsDoWhile(entityId) ==
  [j \in 1..Max({1, GetNextId(entityId) - 1}) |-> j]

\* The list loop of the GET branch: ids from 1 while exists(entity_id, id).
ListIds(entityId) ==
  LET n == Min({i \in 1..MaxId + 1 : ~Exists(entityId, i)}) IN [j \in 1..n - 1 |-> j]

Respond(r, status, body) ==
  /\ req' = r
  /\ reply' = [status |-> status, body |-> body]

-----------------------------------------------------------------------------

Init ==
  /\ files = [p \in {} |-> NoReply]
  /\ req = NoRequest
  /\ reply = NoReply

\* POST: the entity is the last path segment; CRUDHandler::create.
Post(r) ==
  LET entity == IdPart(r.target)
      id     == GetNextId(entity)
  IN /\ r.verb = "POST"
     /\ id <= MaxId
     /\ files' = WriteFile(entity, id, r.body)
     /\ Respond(r, 200, [id |-> id])

\* GET whose last segment does not start with a digit: the list loop.
GetList(r) ==
  LET entityId == RemovePrefix(r.target) IN
  /\ r.verb = "GET"
  /\ ~IsDigitStart(IdPart(entityId))
  /\ Respond(r, 200, [ids |-> ListIds(entityId)])
  /\ UNCHANGED files

\* GET whose last segment starts with a digit: cast, exists, read.
GetItem(r) ==
  LET entityId == RemovePrefix(r.target)
      entity   == EntityPart(entityId)
      id       == LexicalCast(IdPart(entityId))
  IN /\ r.verb = "GET"
     /\ IsDigitStart(IdPart(entityId))
     /\ \/ /\ id = BadCast
           /\ Respond(r, 404, [text |-> "Invalid Request: retrieve failed"])
        \/ /\ id # BadCast /\ ~Exists(entity, id)
           /\ Respond(r, 404, [text |-> "Invalid Request: file not found"])
        \/ /\ id # BadCast /\ Exists(entity, id)
           /\ Respond(r, 200, files[GetPath(entity, id)])
     /\ UNCHANGED files

\* PUT: cast, then CRUDHandler::update (exists, then write).
Put(r) ==
  LET entityId == RemovePrefix(r.target)
      entity   == EntityPart(entityId)
      id       == LexicalCast(IdPart(entityId))
  IN /\ r.verb = "PUT"
     /\ \/ /\ id = BadCast
           /\ Respond(r, 404, [text |-> "Invalid Request"])
           /\ UNCHANGED files
        \/ /\ id # BadCast /\ ~Exists(entity, id)
           /\ Respond(r, 404, [text |-> "Invalid Request"])
           /\ UNCHANGED files
        \/ /\ id # BadCast /\ Exists(entity, id)
           /\ files' = WriteFile(entity, id, r.body)
           /\ Respond(r, 200, [text |-> ""])

\* DELETE: cast, then CRUDHandler::delete_ (exists, then remove).
Delete(r) ==
  LET entityId == RemovePrefix(r.target)
      entity   == EntityPart(entityId)
      id       == LexicalCast(IdPart(entityId))
  IN /\ r.verb = "DELETE"
     /\ \/ /\ id = BadCast
           /\ Respond(r, 400, [text |-> "Invalid Request: entity_id could not be parsed"])
           /\ UNCHANGED files
        \/ /\ id # BadCast /\ ~Exists(entity, id)
           /\ Respond(r, 404, [text |-> "Invalid Request: entity id does not exist"])
           /\ UNCHANGED files
        \/ /\ id # BadCast /\ Exists(entity, id)
           /\ files' = RemoveFile(entity, id)
           /\ Respond(r, 200, [text |-> "successfully deleted"])

\* Any other verb.
Unsupported(r) ==
  /\ r.verb \notin {"POST", "GET", "PUT", "DELETE"}
  /\ Respond(r, 400, [text |-> "{\"error\": \"Unsupported HTTP method\"}"])
  /\ UNCHANGED files

Next ==
  \E r \in Requests :
    Post(r) \/ GetList(r) \/ GetItem(r) \/ Put(r) \/ Delete(r) \/ Unsupported(r)

Spec == Init /\ [][Next]_vars

-----------------------------------------------------------------------------
(* Properties                                                               *)

\* The entities POST can create: the last segments of POST targets.
Entities == {IdPart(r.target) : r \in {r \in Requests : r.verb = "POST"}}

TypeOK ==
  /\ DOMAIN files \subseteq {GetPath(e, i) : e \in Entities, i \in 1..MaxId}
  /\ \A p \in DOMAIN files : files[p] \in Data
  /\ req \in Requests \cup {NoRequest}
  /\ reply = NoReply \/ reply \in [status : {200, 400, 404}, body : Any]

\* The store as the spec sees it: the record (e, i) is the file POST wrote
\* for entity e and id i.
Keys == [entity : Entities, id : 1..MaxId]

KeyPath == [k \in Keys |-> GetPath(k.entity, k.id)]

AbsStore ==
  [k \in {k \in Keys : KeyPath[k] \in DOMAIN files} |-> files[KeyPath[k]]]

Abs == INSTANCE ObjectStoreAbstract WITH store <- AbsStore

\* handleRequest implements the object store of spec 3 and 4.4: every
\* request gets the status and body the spec gives it, POST takes the
\* smallest free id, and a record written by POST is the one GET, PUT and
\* DELETE of that entity and id address.
AbstractSpec == Abs!Spec

\* The list loop of GET reports only ids stored for the entity, in
\* ascending order, whatever POST and DELETE did before.
ListSound ==
  (req # NoRequest /\ req.verb = "GET" /\ Abs!EntityOnly(req.target))
    => LET ids == reply.body.ids IN
       \A j \in DOMAIN ids :
         /\ [entity |-> Abs!EntityOf(req.target), id |-> ids[j]] \in DOMAIN AbsStore
         /\ j > 1 => ids[j - 1] < ids[j]

=============================================================================
