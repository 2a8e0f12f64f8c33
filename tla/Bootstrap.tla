------------------------------- MODULE Bootstrap -------------------------------
(***************************************************************************)
(* main() of src/src/server_main.cc: the argument check, the config load, *)
(* the port and timer checks, then io_service.run(); SIGINT ends the      *)
(* process from any point after the handler is installed.                 *)
(*                                                                         *)
(* The config getters live in config_parser.cc, outside src/: as spec 6   *)
(* describes them, they return the integer the config holds, or -1 when   *)
(* it is missing.  The timer is stored in a short (server_main.cc:54), and *)
(* every session compares whole elapsed seconds with that short.          *)
(***************************************************************************)
EXTENDS Integers

CONSTANTS
  Argcs,     \* argc values the process may be started with
  Timers,    \* "timer" values a config may hold (int)
  Elapsed    \* whole seconds since a session's last authentication

NoTimer == -1

VARIABLES
  phase,     \* how far main() has got
  argc,      \* the argument count
  config,    \* [parses, port, timer]: what the config file holds
  authTime,  \* the short auth_time handed to the server
  exitCode   \* main's return value or exit()'s argument

vars == <<phase, argc, config, authTime, exitCode>>

\* int -> short on a two's-complement target (C++20, and GCC before it).
ToShort(n) == ((n + 32768) % 65536) - 32768

\* config.get_auth_time(): the integer of the "timer" statement, or -1.
GetAuthTime == config.timer

\* session::is_session_expired for a session of this server.
SessionExpired(elapsed) == elapsed > authTime

Exit(code) == phase' = "exited" /\ exitCode' = code

-----------------------------------------------------------------------------

\* sigaction installs signalHandler first thing in main.
Init ==
  /\ phase = "start"
  /\ argc \in Argcs
  /\ config \in [parses : BOOLEAN, port : {8080, -1}, timer : Timers \cup {NoTimer}]
  /\ authTime = 0
  /\ exitCode = 0

Usage ==
  /\ phase = "start"
  /\ \/ argc # 2 /\ Exit(1)
     \/ argc = 2 /\ phase' = "args" /\ UNCHANGED exitCode
  /\ UNCHANGED <<argc, config, authTime>>

ParseConfig ==
  /\ phase = "args"
  /\ \/ ~config.parses /\ Exit(-1)
     \/ config.parses /\ phase' = "parsed" /\ UNCHANGED exitCode
  /\ UNCHANGED <<argc, config, authTime>>

CheckPort ==
  /\ phase = "parsed"
  /\ \/ config.port = -1 /\ Exit(-1)
     \/ config.port # -1 /\ phase' = "port" /\ UNCHANGED exitCode
  /\ UNCHANGED <<argc, config, authTime>>

\* auth_time = get_auth_time() stores the int in a short and compares the
\* short with -1; then the server is built and io_service.run() starts.
CheckAuthTime ==
  /\ phase = "port"
  /\ authTime' = ToShort(GetAuthTime)
  /\ \/ ToShort(GetAuthTime) = -1 /\ Exit(-1)
     \/ ToShort(GetAuthTime) # -1 /\ phase' = "running" /\ UNCHANGED exitCode
  /\ UNCHANGED <<argc, config>>

\* signalHandler: exit(1) on SIGINT.
Interrupt ==
  /\ phase # "exited"
  /\ Exit(1)
  /\ UNCHANGED <<argc, config, authTime>>

Next == Usage \/ ParseConfig \/ CheckPort \/ CheckAuthTime \/ Interrupt

Spec == Init /\ [][Next]_vars

-----------------------------------------------------------------------------
(* Properties                                                               *)

\* spec 8: once the server runs, a request arriving more than "timer"
\* seconds after the last success is rejected as expired and one arriving
\* within it is not: the short the sessions compare with behaves as the
\* configured timer for every elapsed time.
WindowHonoured ==
  phase = "running" =>
    \A e \in Elapsed : SessionExpired(e) = (e > config.timer)

=============================================================================
