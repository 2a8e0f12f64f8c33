-------------------------- MODULE ObjectStoreAbstract --------------------------
(***************************************************************************)
(* What the object-store API promises (spec.md, sections 3 and 4.4): a    *)
(* map from (entity, id) to an opaque body, addressed by targets of the   *)
(* form {prefix}/{entity} and {prefix}/{entity}/{id}.  POST takes the     *)
(* smallest positive id not in use, GET on an entity lists its ids in     *)
(* ascending order, GET, PUT and DELETE on an id read, overwrite and      *)
(* remove, with the statuses and messages the spec enumerates.            *)
(*                                                                         *)
(* Each request is one step: the request and the reply it gets are        *)
(* recorded in req and reply.                                             *)
(***************************************************************************)
EXTENDS Naturals, FiniteSets, SequencesExt, Decimal

CONSTANTS
  Prefix,     \* the prefix the API is registered at
  Data,       \* request bodies
  MaxId,      \* bound on the ids of one entity
  Requests,   \* requests [verb, target, body] clients send
  NoRequest,  \* req before the first request
  NoReply     \* reply before the first request

VARIABLES
  store,      \* the records: a function from [entity, id] to a body
  req,        \* the last request
  reply       \* the reply it got: [status, body]

vars == <<store, req, reply>>

-----------------------------------------------------------------------------
(* The spec's reading of a target                                           *)

Under(t) == SubSeq(t, Len(Prefix) + 1, Len(t))

SlashesOf(s) == {i \in DOMAIN s : s[i] = "/"}

\* "{prefix}/{entity}": one segment after the prefix.
EntityOnly(t) ==
  LET r == Under(t) IN r # <<>> /\ SlashesOf(r) = {1} /\ Len(r) > 1

\* "{prefix}/{entity}/{id}": two nonempty segments after the prefix.
WithId(t) ==
  LET r == Under(t) IN
  /\ r # <<>> /\ r[1] = "/"
  /\ Cardinality(SlashesOf(r)) = 2
  /\ \E j \in SlashesOf(r) : j > 2 /\ j < Len(r)

EntityOf(t) ==
  LET r == Under(t)
      j == IF WithId(t) THEN Max(SlashesOf(r)) ELSE Len(r) + 1
  IN SubSeq(r, 2, j - 1)

IdSegOf(t) == LET r == Under(t) IN SubSeq(r, Max(SlashesOf(r)) + 1, Len(r))

Key(t) == [entity |-> EntityOf(t), id |-> NumeralValue(IdSegOf(t))]

IdsOf(e) == {k.id : k \in {k \in DOMAIN store : k.entity = e}}

SmallestUnused(e) == Min({i \in 1..MaxId + 1 : i \notin IdsOf(e)})

Answer(r, status, body) ==
  /\ req' = r
  /\ reply' = [status |-> status, body |-> body]

-----------------------------------------------------------------------------

Init ==
  /\ store = [k \in {} |-> NoReply]
  /\ req = NoRequest
  /\ reply = NoReply

Create(r) ==
  LET e == EntityOf(r.target) IN
  /\ r.verb = "POST" /\ EntityOnly(r.target)
  /\ SmallestUnused(e) <= MaxId
  /\ store' = ([entity |-> e, id |-> SmallestUnused(e)] :> r.body) @@ store
  /\ Answer(r, 200, [id |-> SmallestUnused(e)])

List(r) ==
  /\ r.verb = "GET" /\ EntityOnly(r.target)
  /\ Answer(r, 200, [ids |-> SetToSortSeq(IdsOf(EntityOf(r.target)), <)])
  /\ UNCHANGED store

Read(r) ==
  /\ r.verb = "GET" /\ WithId(r.target)
  /\ \/ /\ ~IsNumeral(IdSegOf(r.target))
        /\ Answer(r, 404, [text |-> "Invalid Request: retrieve failed"])
     \/ /\ IsNumeral(IdSegOf(r.target)) /\ Key(r.target) \notin DOMAIN store
        /\ Answer(r, 404, [text |-> "Invalid Request: file not found"])
     \/ /\ IsNumeral(IdSegOf(r.target)) /\ Key(r.target) \in DOMAIN store
        /\ Answer(r, 200, store[Key(r.target)])
  /\ UNCHANGED store

Update(r) ==
  /\ r.verb = "PUT" /\ WithId(r.target)
  /\ \/ /\ ~IsNumeral(IdSegOf(r.target)) \/ Key(r.target) \notin DOMAIN store
        /\ Answer(r, 404, [text |-> "Invalid Request"])
        /\ UNCHANGED store
     \/ /\ IsNumeral(IdSegOf(r.target)) /\ Key(r.target) \in DOMAIN store
        /\ store' = [store EXCEPT ![Key(r.target)] = r.body]
        /\ Answer(r, 200, [text |-> ""])

Delete(r) ==
  /\ r.verb = "DELETE" /\ WithId(r.target)
  /\ \/ /\ ~IsNumeral(IdSegOf(r.target))
        /\ Answer(r, 400, [text |-> "Invalid Request: entity_id could not be parsed"])
        /\ UNCHANGED store
     \/ /\ IsNumeral(IdSegOf(r.target)) /\ Key(r.target) \notin DOMAIN store
        /\ Answer(r, 404, [text |-> "Invalid Request: entity id does not exist"])
        /\ UNCHANGED store
     \/ /\ IsNumeral(IdSegOf(r.target)) /\ Key(r.target) \in DOMAIN store
        /\ store' = [k \in DOMAIN store \ {Key(r.target)} |-> store[k]]
        /\ Answer(r, 200, [text |-> "successfully deleted"])

Unsupported(r) ==
  /\ r.verb \notin {"POST", "GET", "PUT", "DELETE"}
  /\ Answer(r, 400, [text |-> "{\"error\": \"Unsupported HTTP method\"}"])
  /\ UNCHANGED store

\* Some request is served: req' names it.
Next ==
  \E r \in Requests :
    /\ req' = r
    /\ Create(r) \/ List(r) \/ Read(r) \/ Update(r) \/ Delete(r) \/ Unsupported(r)

Spec == Init /\ [][Next]_vars

=============================================================================
