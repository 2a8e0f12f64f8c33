------------------------------ MODULE Dispatcher ------------------------------
(***************************************************************************)
(* RequestHandlerDispatcher of src/src/request_handler_dispatcher.cc: the  *)
(* route table built from the location blocks of the config, then         *)
(* getRequestHandler resolving request targets by longest literal prefix. *)
(*                                                                         *)
(* Strings are sequences of characters over a small alphabet, so that     *)
(* trailing-slash trimming and prefix tests are the code's own.  The      *)
(* config is the sequence of location blocks of the first "server" block; *)
(* the parser that builds it is not part of src/.                         *)
(***************************************************************************)
EXTENDS Naturals, SequencesExt

CONSTANTS
  Paths,      \* location paths that can appear in the config
  Types,      \* handler type names that can appear in the config
  Roots,      \* "root" values of a location block
  NoRoot,     \* a location block without a "root" statement
  MaxLocs,    \* bound on the number of location blocks
  Targets,    \* request targets that are resolved
  NoHandler   \* the null shared_ptr

KnownTypes == {"StaticHandler", "EchoHandler", "APIHandler",
               "HealthHandler", "SleepHandler"}

Slash == <<"/">>

Location == [path : Paths, type : Types, root : Roots \cup {NoRoot}]

VARIABLES
  config,       \* the location blocks, in config order
  next,         \* the block initRequestHandlers registers next
  handlers,     \* handlers_: prefix -> handler
  ready,        \* the constructor has returned
  lastTarget,   \* the target of the last getRequestHandler call
  lastHandler   \* and its result

vars == <<config, next, handlers, ready, lastTarget, lastHandler>>

-----------------------------------------------------------------------------

\* Mutant of TrimSlashes: the loop condition length() > 0 also pops a lone "/".
RECURSIVE TrimSlashesToEmpty(_)
TrimSlashesToEmpty(s) ==
  IF Len(s) > 0 /\ Last(s) = "/" THEN TrimSlashesToEmpty(Front(s)) ELSE s

\* while (uri.length() > 1 && uri.back() == '/') uri.pop_back();
RECURSIVE TrimSlashes(_)
TrimSlashes(s) ==
  IF Len(s) > 1 /\ Last(s) = "/" THEN TrimSlashes(Front(s)) ELSE s

\* The handler registerPath makes for a block: its type, the index of the
\* block (the handler's identity) and, for StaticHandler and APIHandler,
\* the root (the last "root" statement, "/" when there is none).
MakeHandler(loc, i) ==
  [type |-> loc.type,
   loc  |-> i,
   root |-> IF loc.type \in {"StaticHandler", "APIHandler"} /\ loc.root # NoRoot
              THEN loc.root ELSE Slash]

\* The RequestHandler404 that initRequestHandlers adds at "/".
Fallback == [type |-> "404Handler", loc |-> 0, root |-> Slash]

\* Mutant of GetRequestHandler: the last matching prefix in map order wins.
GetRequestHandlerAnyMatch(t) ==
  LET uri == TrimSlashes(t)
      Match(k, acc) == IF IsPrefix(k, uri) THEN handlers[k] ELSE acc
  IN FoldSet(Match, NoHandler, DOMAIN handlers)

\* getRequestHandler: scan every entry, keep the matching prefix longer
\* than the best so far (matched_prefix starts empty).  No two keys of one
\* length match the same uri, so the order of the scan does not matter.
GetRequestHandler(t) ==
  LET uri == TrimSlashes(t)
      Match(k, acc) ==
        IF IsPrefix(k, uri) /\ Len(k) > Len(acc.prefix)
          THEN [prefix |-> k, handler |-> handlers[k]] ELSE acc
  IN FoldSet(Match, [prefix |-> <<>>, handler |-> NoHandler],
             DOMAIN handlers).handler

-----------------------------------------------------------------------------

Init ==
  /\ config \in BoundedSeq(Location, MaxLocs)
  /\ next = 1
  /\ handlers = [p \in {} |-> Fallback]
  /\ ready = FALSE
  /\ lastTarget = <<>>
  /\ lastHandler = NoHandler

\* registerPath returns true: the trimmed path is new and the type known.
RegisterPath ==
  LET loc == config[next]
      p   == TrimSlashes(loc.path)
  IN /\ ~ready
     /\ next <= Len(config)
     /\ p \notin DOMAIN handlers
     /\ loc.type \in KnownTypes
     /\ handlers' = handlers @@ (p :> MakeHandler(loc, next))
     /\ next' = next + 1
     /\ UNCHANGED <<config, ready, lastTarget, lastHandler>>

\* registerPath returns false: the trimmed path is taken or the type unknown.
RegisterRejected ==
  LET loc == config[next] IN
  /\ ~ready
  /\ next <= Len(config)
  /\ TrimSlashes(loc.path) \in DOMAIN handlers \/ loc.type \notin KnownTypes
  /\ next' = next + 1
  /\ UNCHANGED <<config, handlers, ready, lastTarget, lastHandler>>

\* End of initRequestHandlers: "/" gets a RequestHandler404 if unbound.
FinishInit ==
  /\ ~ready
  /\ next > Len(config)
  /\ handlers' = IF Slash \in DOMAIN handlers THEN handlers
                 ELSE handlers @@ (Slash :> Fallback)
  /\ ready' = TRUE
  /\ UNCHANGED <<config, next, lastTarget, lastHandler>>

\* A session calls getRequestHandler with a request target.
Resolve(t) ==
  /\ ready
  /\ lastTarget' = t
  /\ lastHandler' = GetRequestHandler(t)
  /\ UNCHANGED <<config, next, handlers, ready>>

Next ==
  \/ RegisterPath
  \/ RegisterRejected
  \/ FinishInit
  \/ \E t \in Targets : Resolve(t)

Spec == Init /\ [][Next]_vars

-----------------------------------------------------------------------------
(* Properties                                                               *)

TypeOK ==
  /\ config \in BoundedSeq(Location, MaxLocs)
  /\ next \in 1..MaxLocs + 1
  /\ DOMAIN handlers \subseteq {q \in UNION {Prefixes(p) : p \in Paths} : q # <<>>}
  /\ ready \in BOOLEAN
  /\ lastTarget \in Targets \cup {<<>>}

\* spec 3 and 4.1, written from the config rather than from handlers_:
\* a prefix is a location path with its trailing slashes stripped ("/"
\* stays "/"); the first block of a known type binds it; "/" falls back to
\* NotFound; a target resolves to the binding whose prefix is the longest
\* literal prefix of the stripped target.
Stripped(s) ==
  SubSeq(s, 1, Min({i \in 1..Len(s) : \A j \in i + 1..Len(s) : s[j] = "/"}))

Binds(i) ==
  /\ config[i].type \in KnownTypes
  /\ ~\E j \in 1..i - 1 : /\ config[j].type \in KnownTypes
                          /\ Stripped(config[j].path) = Stripped(config[i].path)

Bindings ==
  LET configured == {[prefix |-> Stripped(config[i].path), loc |-> i] :
                       i \in {i \in 1..Len(config) : Binds(i)}}
  IN IF \E b \in configured : b.prefix = Slash THEN configured
     ELSE configured \cup {[prefix |-> Slash, loc |-> 0]}

SpecResolve(t) ==
  LET matching == {b \in Bindings : IsPrefix(b.prefix, Stripped(t))}
  IN CHOOSE b \in matching : \A o \in matching : Len(o.prefix) <= Len(b.prefix)

\* Every origin-form target (one starting with "/") resolves to the handler
\* of the longest configured prefix, first registration winning, and to
\* the NotFound fallback when only "/" matches.
ResolvesToLongestPrefix ==
  (ready /\ lastTarget # <<>> /\ Head(lastTarget) = "/")
    => /\ lastHandler # NoHandler
       /\ lastHandler.loc = SpecResolve(lastTarget).loc

=============================================================================
