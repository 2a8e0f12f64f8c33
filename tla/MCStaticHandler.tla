---------------------------- MODULE MCStaticHandler ----------------------------
(***************************************************************************)
(* StaticHandler at "/p" with "root /d/;", run from /v/b: the root is /v/d.*)
(* /v/d may hold a file f.gif and a path g, which may hold h; /v/s lies    *)
(* beside the root.                                                        *)
(***************************************************************************)
EXTENDS StaticHandler

Sl     == <<"/">>
Dot    == <<".">>
DotDot == <<".", ".">>

V == <<"v">>
B == <<"b">>
D == <<"d">>
S == <<"s">>
G == <<"g">>
H == <<"h">>
X == <<"x">>
F == <<"f", ".", "g", "i", "f">>

MCPrefix == <<"/", "p">>
MCRoot   == <<"/", "d", "/">>
MCCwd    == <<V, B>>

MCFixedDirs == {<<V>>, <<V, B>>}
MCNodes     == {<<V, D>>, <<V, D, F>>, <<V, D, G>>, <<V, D, G, H>>, <<V, S>>}

\* {prefix}/{path} for the paths below.
Under(segs) == MCPrefix \o Sl \o segs

MCTargets ==
  { Under(F), Under(G), Under(G \o Sl), Under(G \o Sl \o H), Under(H),
    Under(Dot \o Sl \o F), Under(X \o Sl \o DotDot \o Sl \o F),
    Under(G \o Sl \o DotDot \o Sl \o F), Under(DotDot \o Sl \o S),
    MCPrefix, MCPrefix \o Sl }

=============================================================================
