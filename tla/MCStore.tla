------------------------------ MODULE MCStore ------------------------------
(* Objects for module Store: two trees that share one of two files.        *)
EXTENDS Store

CONSTANTS d1, d2, e1, e2

MCData == {d1, d2}
MCEntries == {e1, e2}
MCRefs == [e \in MCEntries |-> IF e = e1 THEN {d1} ELSE {d1, d2}]

\* A smaller choice, for the runs with everything at once.
MCOneEntry == {e1}
MCOneRef == [e \in MCOneEntry |-> {d1}]
MCOneData == {d1}
=============================================================================
