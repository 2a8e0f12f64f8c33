---------------------------- MODULE MCDispatcher ----------------------------
(* Instantiates Dispatcher for TLC: paths that differ by trailing slashes  *)
(* or share a literal prefix, and every target of up to three characters.  *)
EXTENDS Dispatcher

MCPaths == {<<"/">>, <<"/", "a">>, <<"/", "a", "/">>, <<"/", "a", "b">>}

MCRoots == {<<"/", "d">>}

\* Origin-form targets of one to three characters, and the asterisk-form.
MCTargets ==
  {s \in BoundedSeq({"/", "a", "b"}, 3) : s # <<>> /\ Head(s) = "/"}
    \cup {<<"*">>}

=============================================================================
