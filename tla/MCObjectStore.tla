----------------------------- MODULE MCObjectStore -----------------------------
(***************************************************************************)
(* ObjectStore with the API at "/p", two entities "e" and "f", ids up to   *)
(* MaxId, and targets built the way clients write them.                     *)
(***************************************************************************)
EXTENDS ObjectStore

CONSTANTS d1, d2

MCData == {d1, d2}

MCPrefix == <<"/", "p">>

\* "root /d/;" as in the repository's configs, and "root /d;".
RootWithSlash == <<"/", "d", "/">>
RootNoSlash   == <<"/", "d">>

Ent == {<<"e">>, <<"f">>}

\* {prefix}/{entity} and {prefix}/{entity}/{id}
TargetOf(e)      == MCPrefix \o Slash \o e
ItemOf(e, idSeg) == MCPrefix \o Slash \o e \o Slash \o idSeg

\* id segments: two ids, a numeral with a leading zero, one that starts
\* with a digit but is no numeral, and one that is no numeral at all.
NumericIds == {<<"1">>, <<"2">>, <<"0", "1">>, <<"1", "x">>}
Word       == <<"x">>

Creates == [verb : {"POST"}, target : {TargetOf(e) : e \in Ent}, body : MCData]

Items(verbs, segs) ==
  [verb : verbs, target : {ItemOf(e, i) : e \in Ent, i \in segs}, body : {""}]

Puts == [verb : {"PUT"}, target : {ItemOf(<<"e">>, i) : i \in {<<"1">>, Word}},
         body : MCData]

Other == [verb : {"PATCH"}, target : {TargetOf(<<"e">>)}, body : {""}]

Lists == [verb : {"GET"}, target : {TargetOf(e) : e \in Ent}, body : {""}]

\* Every request shape but the entity list and a GET of a non-numeric id.
MCRequestsCore ==
  Creates \cup Items({"GET"}, NumericIds) \cup Items({"DELETE"}, NumericIds \cup {Word})
  \cup Puts \cup Other

MCRequestsList == MCRequestsCore \cup Lists

\* The refinement's requests: those of MCRequestsCore without DELETE on f,
\* and the list of f.  f's ids are then 1..n with no gap, the case the
\* list loop gets right; a list with a gap is MCRequestsList's.
MCRequestsRefine ==
  (MCRequestsCore \ Items({"DELETE"}, NumericIds \cup {Word}))
  \cup [verb : {"DELETE"}, target : {ItemOf(<<"e">>, i) : i \in NumericIds \cup {Word}}, body : {""}]
  \cup [verb : {"GET"}, target : {TargetOf(<<"f">>)}, body : {""}]

MCRequestsWordGet == MCRequestsCore \cup Items({"GET"}, {Word})

MCRequestsAll == MCRequestsList \cup MCRequestsWordGet

=============================================================================
