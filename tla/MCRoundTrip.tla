---------------------------- MODULE MCRoundTrip ----------------------------
(* Files for module RoundTrip: g lies inside the path of f, so that only   *)
(* one of them can be restored.                                            *)
EXTENDS RoundTrip

CONSTANTS f, g, x, y, z

\* x and y have the same size, z is empty.
MCSize == [c \in Content |-> IF c = z THEN 0 ELSE 1]
MCBefore == [h \in File |-> IF h = g THEN {f} ELSE {}]
MCInitial == [h \in File |-> IF h = f THEN z ELSE x]
MCUnder == [h \in File |-> IF h = g THEN f ELSE Absent]
=============================================================================
