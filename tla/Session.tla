------------------------------- MODULE Session -------------------------------
(***************************************************************************)
(* The accept loop of src/src/server.cc and the per-connection state       *)
(* machine of src/src/session.cc, run by one io_service thread.  Every     *)
(* completion handler runs to completion before the next one starts, so   *)
(* each action below is one whole handler.                                  *)
(*                                                                         *)
(* A client's bytes are abstracted to chunks, one per TCP segment:         *)
(*   "head"  request line and some header fields, no blank line yet        *)
(*   "end"   the rest of the header, up to the blank line                  *)
(*   "body"  the body announced by Content-Length                          *)
(*   "junk"  bytes that are not HTTP                                        *)
(*   "next"  bytes after the first message (a pipelined request)           *)
(* One async_read_some commits one or more of the segments that arrived.   *)
(* The dispatcher and the handlers are abstracted to the status they       *)
(* return; the module Dispatcher refines that step.                        *)
(***************************************************************************)
EXTENDS Naturals, SequencesExt

CONSTANTS
  NumConns,      \* connections clients open: bounds the sessions
  AuthTime,      \* auth_time_, the "timer" of the config, in seconds
  MaxTime,       \* bound on steady_clock, in whole seconds
  Credentials,   \* credentials_: a function from user names to passwords
  AuthHeaders,   \* decoded Authorization headers a client may send
  NoHeader,      \* a request without an Authorization header
  NoColon,       \* "user" of a decoded header that has no ':'
  HandlerStatus  \* statuses the dispatcher and handlers can answer with

ASSUME NumConns \in Nat \ {0}
ASSUME AuthTime \in Nat /\ MaxTime \in Nat
ASSUME NoHeader \notin AuthHeaders
ASSUME HandlerStatus \cap {400, 401, 500} = {}

Conns == 1..NumConns

\* The request shapes a client sends, as the segments it is split into.
Messages == {<<"end">>, <<"head", "end">>, <<"end", "body">>, <<"junk">>}
Streams  == {m \o x : m \in Messages, x \in {<<>>, <<"next">>}}

VARIABLES
  now,           \* steady_clock::now(), whole seconds
  pending,       \* the session waiting in acceptor_.async_accept
  lastAuth,      \* last_auth_time_ of each session
  acceptedAt,    \* history: when the connection of a session was accepted
  stream,        \* the bytes the client of a connection will send
  header,        \* its Authorization header
  sent,          \* segments the client has sent
  rcvd,          \* segments committed to buffer_
  clientClosed,  \* the client has closed or reset the connection
  readPending,   \* an async_read_some is in flight
  writes,        \* http::async_write operations in flight
  shut,          \* socket_.shutdown(shutdown_both) was called
  responses      \* history: the status of every response handed to async_write

vars == <<now, pending, lastAuth, acceptedAt, stream, header, sent, rcvd,
          clientClosed, readPending, writes, shut, responses>>

-----------------------------------------------------------------------------
(* Helpers                                                                  *)

Connected(c) == stream[c] # <<>>

\* The outcome of one request_parser::put over the first k segments of s.
\* A fresh parser reads buffer_ from its start on every callback.  Beast
\* reports a header without its blank line as the error need_more.  The
\* parser is not eager, so put returns once the header is parsed: a header
\* announcing a body leaves is_done() false whatever of the body arrived.
Parse(s, k) ==
  LET buf == SubSeq(s, 1, k) IN
  IF Contains(buf, "junk") THEN "error"
  ELSE IF ~Contains(buf, "end") THEN "need_more"
  ELSE IF Contains(s, "body") THEN "partial"
  ELSE "done"

\* session::authenticate: "Basic " scheme, a ':' in the decoded value,
\* a known user and an equal password.
Authenticate(h) ==
  /\ h.scheme = "Basic"
  /\ h.user # NoColon
  /\ h.user \in DOMAIN Credentials
  /\ Credentials[h.user] = h.pass

\* handle_read_callback finds an Authorization header and authenticate
\* accepts it.
Authorized(c) == header[c] # NoHeader /\ Authenticate(header[c])

\* session::is_session_expired: whole seconds since last_auth_time_ > auth_time_.
Expired(c) == now - lastAuth[c] > AuthTime

\* session::handle_write: hand response_ with this status to async_write.
StartWrite(c, status) ==
  /\ writes' = [writes EXCEPT ![c] = @ + 1]
  /\ responses' = [responses EXCEPT ![c] = Append(@, status)]

ArmRead(c) == readPending' = [readPending EXCEPT ![c] = TRUE]
NoRead(c)  == readPending' = [readPending EXCEPT ![c] = FALSE]

-----------------------------------------------------------------------------
(* Server and clients                                                       *)

Init ==
  /\ now = 0
  /\ pending = 1
  /\ lastAuth = [c \in Conns |-> 0]
  /\ acceptedAt = [c \in Conns |-> 0]
  /\ stream = [c \in Conns |-> <<>>]
  /\ header = [c \in Conns |-> NoHeader]
  /\ sent = [c \in Conns |-> 0]
  /\ rcvd = [c \in Conns |-> 0]
  /\ clientClosed = [c \in Conns |-> FALSE]
  /\ readPending = [c \in Conns |-> FALSE]
  /\ writes = [c \in Conns |-> 0]
  /\ shut = [c \in Conns |-> FALSE]
  /\ responses = [c \in Conns |-> <<>>]

\* The clock advances one second.
Tick ==
  /\ now < MaxTime
  /\ now' = now + 1
  /\ UNCHANGED <<pending, lastAuth, acceptedAt, stream, header, sent, rcvd,
                 clientClosed, readPending, writes, shut, responses>>

\* server::start_accept: a new session is constructed, and its constructor
\* sets last_auth_time_ to now, before any client has connected.
StartAccept(c) ==
  /\ pending' = c + 1
  /\ lastAuth' = IF c + 1 \in Conns
                   THEN [lastAuth EXCEPT ![c + 1] = now] ELSE lastAuth

\* server::handle_accept without error: session::start issues the first read,
\* then start_accept constructs the next session.
Accept(s, h) ==
  LET c == pending IN
  /\ c \in Conns
  /\ stream' = [stream EXCEPT ![c] = s]
  /\ header' = [header EXCEPT ![c] = h]
  /\ acceptedAt' = [acceptedAt EXCEPT ![c] = now]
  /\ ArmRead(c)
  /\ StartAccept(c)
  /\ UNCHANGED <<now, sent, rcvd, clientClosed, writes, shut, responses>>

\* server::handle_accept with an error: the session is dropped unstarted.
AcceptError ==
  LET c == pending IN
  /\ c \in Conns
  /\ StartAccept(c)
  /\ UNCHANGED <<now, acceptedAt, stream, header, sent, rcvd, clientClosed,
                 readPending, writes, shut, responses>>

\* The client sends its next segment.
ClientSend(c) ==
  /\ Connected(c)
  /\ ~clientClosed[c]
  /\ sent[c] < Len(stream[c])
  /\ sent' = [sent EXCEPT ![c] = @ + 1]
  /\ UNCHANGED <<now, pending, lastAuth, acceptedAt, stream, header, rcvd,
                 clientClosed, readPending, writes, shut, responses>>

\* The client closes or resets the connection, at any time.
ClientClose(c) ==
  /\ Connected(c)
  /\ ~clientClosed[c]
  /\ clientClosed' = [clientClosed EXCEPT ![c] = TRUE]
  /\ UNCHANGED <<now, pending, lastAuth, acceptedAt, stream, header, sent,
                 rcvd, readPending, writes, shut, responses>>

-----------------------------------------------------------------------------
(* session::handle_read_callback without error, after buffer_.commit of     *)
(* the segments up to k.  Its branches, in the order the code tests them.   *)

\* put() failed, or needs more of the header: 400 "Bad request".
BadRequest(c, k) ==
  /\ Parse(stream[c], k) \in {"error", "need_more"}
  /\ StartWrite(c, 400)
  /\ NoRead(c)
  /\ UNCHANGED lastAuth

\* put left the message unfinished: read again.
MoreData(c, k) ==
  /\ Parse(stream[c], k) = "partial"
  /\ ArmRead(c)
  /\ UNCHANGED <<lastAuth, writes, responses>>

\* is_session_expired: restart the window, re-arm a read, and
\* send_unauthorized_response starts a write of 401.
ExpiredReject(c, k) ==
  /\ Parse(stream[c], k) = "done"
  /\ Expired(c)
  /\ lastAuth' = [lastAuth EXCEPT ![c] = now]
  /\ ArmRead(c)
  /\ StartWrite(c, 401)

\* No Authorization header, or session::authenticate fails: 401.
Unauthorized(c, k) ==
  /\ Parse(stream[c], k) = "done"
  /\ ~Expired(c)
  /\ ~Authorized(c)
  /\ StartWrite(c, 401)
  /\ NoRead(c)
  /\ UNCHANGED lastAuth

\* authenticate slides the window to now; getRequestHandler and the
\* handler (or the "Not Found" of a missing handler) produce the response.
Serve(c, k) ==
  /\ Parse(stream[c], k) = "done"
  /\ ~Expired(c)
  /\ Authorized(c)
  /\ lastAuth' = [lastAuth EXCEPT ![c] = now]
  /\ \E status \in HandlerStatus : StartWrite(c, status)
  /\ NoRead(c)

\* catch (...): an exception thrown while the parsed request is handled
\* (std::bad_alloc from the header or string copies): 500.
InternalError(c, k) ==
  /\ Parse(stream[c], k) = "done"
  /\ StartWrite(c, 500)
  /\ NoRead(c)
  /\ UNCHANGED lastAuth

ReadDone(c, k) ==
  /\ readPending[c]
  /\ ~shut[c]
  /\ rcvd[c] < k /\ k <= sent[c]
  /\ rcvd' = [rcvd EXCEPT ![c] = k]
  /\ \/ BadRequest(c, k)
     \/ MoreData(c, k)
     \/ ExpiredReject(c, k)
     \/ Unauthorized(c, k)
     \/ Serve(c, k)
     \/ InternalError(c, k)
  /\ UNCHANGED <<now, pending, acceptedAt, stream, header, sent, clientClosed,
                 shut>>

\* handle_read_callback with an error (end of stream after the client closed
\* or after our own shutdown): it logs and returns, issuing nothing.
ReadFail(c) ==
  /\ readPending[c]
  /\ \/ shut[c]
     \/ clientClosed[c] /\ rcvd[c] = sent[c]
  /\ NoRead(c)
  /\ UNCHANGED <<now, pending, lastAuth, acceptedAt, stream, header, sent,
                 rcvd, clientClosed, writes, shut, responses>>

\* Mutant of WriteDone: the completion is taken without a write in flight.
WriteDoneUnguarded(c) ==
  /\ writes' = [writes EXCEPT ![c] = @ - 1]
  /\ shut' = [shut EXCEPT ![c] = TRUE]
  /\ UNCHANGED <<now, pending, lastAuth, acceptedAt, stream, header, sent,
                 rcvd, clientClosed, readPending, responses>>

\* Mutant of WriteDone: the socket is never shut down.
WriteDoneNoShutdown(c) ==
  /\ writes[c] > 0
  /\ writes' = [writes EXCEPT ![c] = @ - 1]
  /\ UNCHANGED <<now, pending, lastAuth, acceptedAt, stream, header, sent,
                 rcvd, clientClosed, readPending, shut, responses>>

\* handle_write_callback without error: graceful shutdown of both directions.
WriteDone(c) ==
  /\ writes[c] > 0
  /\ writes' = [writes EXCEPT ![c] = @ - 1]
  /\ shut' = [shut EXCEPT ![c] = TRUE]
  /\ UNCHANGED <<now, pending, lastAuth, acceptedAt, stream, header, sent,
                 rcvd, clientClosed, readPending, responses>>

\* handle_write_callback with an error (the client reset): log only.
WriteFail(c) ==
  /\ writes[c] > 0
  /\ clientClosed[c]
  /\ writes' = [writes EXCEPT ![c] = @ - 1]
  /\ UNCHANGED <<now, pending, lastAuth, acceptedAt, stream, header, sent,
                 rcvd, clientClosed, readPending, shut, responses>>

Next ==
  \/ Tick
  \/ \E s \in Streams, h \in AuthHeaders \cup {NoHeader} : Accept(s, h)
  \/ AcceptError
  \/ \E c \in Conns :
       \/ ClientSend(c)
       \/ ClientClose(c)
       \/ \E k \in 1..Len(stream[c]) : ReadDone(c, k)
       \/ ReadFail(c)
       \/ WriteDone(c)
       \/ WriteFail(c)

\* io_service::run keeps dispatching completed operations: every completion
\* handler whose operation can complete eventually runs.  Clients and the
\* clock are not assumed to make progress.
Fairness ==
  \A c \in Conns :
    /\ WF_vars(\E k \in 1..Len(stream[c]) : ReadDone(c, k))
    /\ WF_vars(ReadFail(c))
    /\ WF_vars(WriteDone(c))

Spec == Init /\ [][Next]_vars /\ Fairness

-----------------------------------------------------------------------------
(* Properties                                                               *)

TypeOK ==
  /\ now \in 0..MaxTime
  /\ pending \in 1..NumConns + 1
  /\ lastAuth \in [Conns -> 0..MaxTime]
  /\ acceptedAt \in [Conns -> 0..MaxTime]
  /\ stream \in [Conns -> Streams \cup {<<>>}]
  /\ header \in [Conns -> AuthHeaders \cup {NoHeader}]
  /\ sent \in [Conns -> 0..3]
  /\ rcvd \in [Conns -> 0..3]
  /\ clientClosed \in [Conns -> BOOLEAN]
  /\ readPending \in [Conns -> BOOLEAN]
  /\ writes \in [Conns -> Nat]
  /\ shut \in [Conns -> BOOLEAN]
  /\ responses \in [Conns -> Seq(HandlerStatus \cup {400, 401, 500})]

\* A write of this status was started by the step.
Wrote(c, status) ==
  /\ Len(responses'[c]) > Len(responses[c])
  /\ Last(responses'[c]) = status

\* spec 4.2: Basic credentials of a user in the credential store, with
\* that user's password.
ValidCredentials(h) ==
  /\ h # NoHeader
  /\ h.scheme = "Basic"
  /\ h.user \in DOMAIN Credentials
  /\ h.pass = Credentials[h.user]

Responded(c) == responses[c] # <<>>
AllSent(c)   == Connected(c) /\ sent[c] = Len(stream[c])

\* A request with no body is complete once its header is.
Bodiless(c) == ~Contains(stream[c], "body")

\* A session whose client has sent a whole request without a body is
\* eventually released: no read or write of it stays in flight, including
\* the read the expiry branch re-arms, which only the shutdown in
\* handle_write_callback ends.
SessionReleased ==
  \A c \in Conns : (AllSent(c) /\ Bodiless(c)) ~> (~readPending[c] /\ writes[c] = 0)

-----------------------------------------------------------------------------
(* Properties the spec states and the code breaks (violation runs)          *)

\* spec 4.2 and 8: a request with valid credentials inside the timeout
\* window succeeds.  A 401 to valid credentials is only justified when the
\* connection was accepted more than auth_time_ seconds ago; the session
\* constructor, run by start_accept before the client connects, starts the
\* window early.
FreshConnectionAuthorized ==
  [][\A c \in Conns :
       (Wrote(c, 401) /\ ValidCredentials(header[c])) => now - acceptedAt[c] > AuthTime
    ]_vars

\* spec 4.3: a client that has sent its whole request, a body included,
\* eventually gets a response.  The callback re-arms the read while
\* is_done() is false (line 139), and the non-eager parser never gets
\* past the header of a request with a Content-Length body.
ResponseEventuallyWritten ==
  \A c \in Conns : AllSent(c) ~> Responded(c)

\* At most one async_write is in flight on a socket, and response_ is not
\* reassigned while one is.
WriteExclusive ==
  \A c \in Conns : writes[c] <= 1

\* spec 4.3 and 7: a 400 is the answer to a malformed message; an
\* incomplete one re-arms another read.
BadRequestOnlyForMalformed ==
  \A c \in Conns : Contains(responses[c], 400) => Contains(stream[c], "junk")

=============================================================================
