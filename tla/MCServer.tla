------------------------------ MODULE MCServer ------------------------------
(***************************************************************************)
(* Server with two connections and the route table of                      *)
(*   location /p APIHandler { root /d/; }   location /s SleepHandler {}   *)
(*   location /h HealthHandler {}          location /x EchoHandler {}     *)
(* plus the "/" fallback.  A client asks the object store (create, list,   *)
(* read, delete of entity e), sleeps, checks health, echoes, misses every  *)
(* prefix but "/", or sends the asterisk-form target "*".                  *)
(***************************************************************************)
EXTENDS Server, Sequences, TLC

CONSTANTS c1, c2, d1

MCConns == {c1, c2}
\* "" is a POST without a body, the only one the session completes.
MCData  == {"", d1}

MCPrefix == <<"/", "p">>
MCRoot   == <<"/", "d", "/">>

E  == <<"/", "p", "/", "e">>
E1 == E \o <<"/", "1">>

\* The fallback is Dispatcher's Fallback: the 404 handler at "/".
MCRoutes ==
  (<<"/">> :> [type |-> "404Handler", loc |-> 0, root |-> <<"/">>])
  @@ (MCPrefix :> [type |-> "APIHandler", loc |-> 1, root |-> MCRoot])
  @@ (<<"/", "s">> :> [type |-> "SleepHandler", loc |-> 2, root |-> <<"/">>])
  @@ (<<"/", "h">> :> [type |-> "HealthHandler", loc |-> 3, root |-> <<"/">>])
  @@ (<<"/", "x">> :> [type |-> "EchoHandler", loc |-> 4, root |-> <<"/">>])

MCApiRequests ==
  {[verb |-> "POST", target |-> E, body |-> ""],
   [verb |-> "POST", target |-> E, body |-> d1],
   [verb |-> "GET", target |-> E, body |-> ""],
   [verb |-> "GET", target |-> E1, body |-> ""],
   [verb |-> "DELETE", target |-> E1, body |-> ""]}

MCConnRequests ==
  MCApiRequests \cup
  {[verb |-> "GET", target |-> t, body |-> ""] :
     t \in {<<"/", "s">>, <<"/", "h">>, <<"/", "x">>, <<"/", "z">>, <<"*">>}}

\* The object store's list loop reports only stored ids, in ascending
\* order, when its requests interleave with those of other connections.
ListSound == OS!ListSound


==============================================================================
