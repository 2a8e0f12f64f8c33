-------------------------------- MODULE Server --------------------------------
(***************************************************************************)
(* The whole process: main() of server_main.cc (Bootstrap), then one      *)
(* io_service thread that runs the read callbacks of every connection one *)
(* at a time.  A callback resolves the target with the dispatcher's       *)
(* getRequestHandler (Dispatcher) over the route table of the config and  *)
(* runs the handler inline: the object store (ObjectStore), Echo, Health, *)
(* the "/" fallback, or Sleep, whose sleep_for holds the thread for 5 s.  *)
(*                                                                         *)
(* The parse, expiry and credential steps of a read callback are the      *)
(* Session module's; here every complete request is an authorised one.    *)
(* A storage call that throws inside a noexcept handleRequest ends the    *)
(* process through std::terminate.                                        *)
(***************************************************************************)
EXTENDS Naturals

CONSTANTS
  Conns,         \* the client connections
  ConnRequests,  \* requests [verb, target, body] a client may send
  Routes,        \* handlers_ after initRequestHandlers: prefix -> handler
  SleepTime,     \* the seconds RequestHandlerSleep sleeps
  Version,       \* the request's HTTP version as Beast stores it (11)
  FsCanFail,     \* whether a create_directories or remove may throw
  None,          \* the reactor thread is free
  NoHandler,     \* the null shared_ptr
  \* ObjectStore:
  Prefix, Root, Data, MaxId, Requests, NoRequest, NoReply, BadCast,
  \* Bootstrap:
  Argcs, Timers, Elapsed

VARIABLES
  phase, argc, config, authTime, exitCode,   \* main()
  files, osReq, osReply,                     \* the object store's directory
  conn,       \* each connection: idle, reading, stalled, ready, sleeping,
              \* writing, done
  request,    \* the request each client sends
  response,   \* response_ of each session
  busy,       \* the connection whose handler holds the thread, or None
  sleepLeft,  \* seconds left of the running sleep_for
  aborted     \* std::terminate has ended the process

bootVars == <<phase, argc, config, authTime, exitCode>>
osVars   == <<files, osReq, osReply>>
srvVars  == <<conn, request, response, busy, sleepLeft, aborted>>
vars     == <<bootVars, osVars, srvVars>>

B  == INSTANCE Bootstrap
OS == INSTANCE ObjectStore WITH req <- osReq, reply <- osReply
D  == INSTANCE Dispatcher
        WITH Paths <- {}, Types <- {}, Roots <- {}, NoRoot <- None, MaxLocs <- 0,
             Targets <- {}, config <- <<>>, next <- 1, handlers <- Routes,
             ready <- TRUE, lastTarget <- <<>>, lastHandler <- NoHandler

-----------------------------------------------------------------------------

Running == phase = "running" /\ ~aborted

\* The read completion of c is queued and the thread is free to run it.
Runnable(c) == Running /\ busy = None /\ conn[c] = "ready"

Handler(c) == D!GetRequestHandler(request[c].target)

\* RequestHandlerEcho::requestToString: method, target, "HTTP/" major "."
\* minor, the headers and the body; the headers are left out here.
RequestToString(r) ==
  [method |-> r.verb, target |-> r.target,
   version |-> <<Version \div 10, Version % 10>>, body |-> r.body]

\* RequestHandlerHealth::handleRequest.
HealthReply == [status |-> 200, body |-> [text |-> "OK"]]

\* RequestHandlerEcho::handleRequest: the request printed back.
EchoReply(r) == [status |-> 200, body |-> [echo |-> RequestToString(r)]]

\* RequestHandler404::handleRequest, the handler of the "/" fallback.
NotFoundReply == [status |-> 404, body |-> [text |-> "Invalid request type, Handler not found"]]

\* handler->handleRequest for a handler without a side effect.
SimpleReply(h, r) ==
  CASE h.type = "HealthHandler" -> HealthReply
    [] h.type = "EchoHandler"   -> EchoReply(r)
    [] h.type = "404Handler"    -> NotFoundReply

SleepReply == [status |-> 200, body |-> [text |-> "Processed after a delay"]]

\* RequestHandlerAPI::handleRequest for r.
ApiStep(r) ==
  OS!Post(r) \/ OS!GetList(r) \/ OS!GetItem(r) \/ OS!Put(r) \/ OS!Delete(r) \/ OS!Unsupported(r)

\* r reaches FileStorage::write (create_directories) or ::remove.
Mutates(r) ==
  LET entityId == OS!RemovePrefix(r.target)
      id       == OS!LexicalCast(OS!IdPart(entityId))
  IN \/ r.verb = "POST" /\ OS!GetNextId(OS!IdPart(r.target)) <= MaxId
     \/ /\ r.verb \in {"PUT", "DELETE"} /\ id # BadCast
        /\ OS!Exists(OS!EntityPart(entityId), id)

Respond(c, resp) ==
  /\ response' = [response EXCEPT ![c] = resp]
  /\ conn' = [conn EXCEPT ![c] = "writing"]

-----------------------------------------------------------------------------

Init ==
  /\ B!Init /\ OS!Init
  /\ conn = [c \in Conns |-> "idle"]
  /\ request \in [Conns -> ConnRequests]
  /\ response = [c \in Conns |-> NoReply]
  /\ busy = None
  /\ sleepLeft = 0
  /\ aborted = FALSE

\* A step of main() before io_service.run(), or SIGINT at any time.
Boot == ~aborted /\ B!Next /\ UNCHANGED <<osVars, srvVars>>

\* handle_accept and session::start: the session reads.
Connect(c) ==
  /\ Running /\ conn[c] = "idle"
  /\ conn' = [conn EXCEPT ![c] = "reading"]
  /\ UNCHANGED <<bootVars, osVars, request, response, busy, sleepLeft, aborted>>

\* A request whose body is not empty carries a Content-Length.
HasBody(r) == r.body # ""

\* The client's request has arrived.  A fresh non-eager parser parses only
\* its header, so a request with a body is never done and the callback
\* re-arms the read for good (stalled); one without is complete and its
\* completion is queued.
Send(c) ==
  /\ conn[c] = "reading"
  /\ conn' = [conn EXCEPT ![c] = IF HasBody(request[c]) THEN "stalled" ELSE "ready"]
  /\ UNCHANGED <<bootVars, osVars, request, response, busy, sleepLeft, aborted>>

\* handle_read_callback of a complete request, run when the thread is free:
\* getRequestHandler, then the handler inline, then handle_write.
Dispatch(c) ==
  LET h == Handler(c)
      r == request[c]
  IN /\ Runnable(c)
     /\ \/ /\ h = NoHandler
           /\ Respond(c, [status |-> 404, body |-> [text |-> "Not Found"]])
           /\ UNCHANGED <<osVars, busy, sleepLeft>>
        \/ /\ h # NoHandler /\ h.type \in {"HealthHandler", "EchoHandler", "404Handler"}
           /\ Respond(c, SimpleReply(h, r))
           /\ UNCHANGED <<osVars, busy, sleepLeft>>
        \/ /\ h # NoHandler /\ h.type = "APIHandler"
           /\ ApiStep(r)
           /\ Respond(c, osReply')
           /\ UNCHANGED <<busy, sleepLeft>>
        \/ /\ h # NoHandler /\ h.type = "SleepHandler"
           /\ busy' = c /\ sleepLeft' = SleepTime
           /\ conn' = [conn EXCEPT ![c] = "sleeping"]
           /\ UNCHANGED <<osVars, response>>
     /\ UNCHANGED <<bootVars, request, aborted>>

\* create_directories or remove throws filesystem_error inside the noexcept
\* handleRequest: std::terminate, before any file changes.
StorageFailure(c) ==
  /\ FsCanFail
  /\ Runnable(c)
  /\ Handler(c) # NoHandler /\ Handler(c).type = "APIHandler"
  /\ Mutates(request[c])
  /\ aborted' = TRUE
  /\ UNCHANGED <<bootVars, osVars, conn, request, response, busy, sleepLeft>>

\* A second of sleep_for passes; the thread runs nothing else.
Tick ==
  /\ Running /\ busy # None /\ sleepLeft > 0
  /\ sleepLeft' = sleepLeft - 1
  /\ UNCHANGED <<bootVars, osVars, conn, request, response, busy, aborted>>

\* Mutant of SleepDone: the thread is not handed back after the sleep.
SleepDoneKeepBusy(c) ==
  /\ Running /\ busy = c /\ sleepLeft = 0
  /\ Respond(c, SleepReply)
  /\ UNCHANGED <<bootVars, osVars, request, busy, sleepLeft, aborted>>

\* sleep_for returns: the sleep handler fills its response, the callback
\* calls handle_write and gives the thread back.
SleepDone(c) ==
  /\ Running /\ busy = c /\ sleepLeft = 0
  /\ Respond(c, SleepReply)
  /\ busy' = None
  /\ UNCHANGED <<bootVars, osVars, request, sleepLeft, aborted>>

\* handle_write_callback: the response is sent and the socket shut down.
WriteDone(c) ==
  /\ Running /\ busy = None /\ conn[c] = "writing"
  /\ conn' = [conn EXCEPT ![c] = "done"]
  /\ UNCHANGED <<bootVars, osVars, request, response, busy, sleepLeft, aborted>>

Next ==
  \/ Boot
  \/ Tick
  \/ \E c \in Conns :
       Connect(c) \/ Send(c) \/ Dispatch(c) \/ StorageFailure(c)
       \/ SleepDone(c) \/ WriteDone(c)

\* The one thread runs every queued completion in turn and sleep_for
\* returns.  Weak fairness suffices: each client sends one request, so once
\* the sleeps are over the thread stays free and a queued completion stays
\* runnable.  Clients, startup and signals get no fairness.
\* Weak fairness of Dispatch(c), with ENABLED Dispatch(c) written out as
\* Runnable(c): some branch of the callback is enabled whenever it holds.
Fairness ==
  /\ \A c \in Conns :
       /\ <>[]Runnable(c) => []<><<Dispatch(c)>>_vars
       /\ WF_vars(SleepDone(c)) /\ WF_vars(WriteDone(c))
  /\ WF_vars(Tick)

Spec == Init /\ [][Next]_vars /\ Fairness

-----------------------------------------------------------------------------
(* Properties                                                               *)

AnsweredUnlessProcessEnds ==
  \A c \in Conns : conn[c] = "ready" ~> (conn[c] = "done" \/ phase = "exited" \/ aborted)

=============================================================================
