---------------------------- MODULE MCWebCache ----------------------------
(* A store for module WebCache: a backup of one file, and one in which the *)
(* path of that file is a directory.                                       *)
EXTENDS WebCache

CONSTANTS d1, e1, e2, n1, n2, tag, p

MCRefs == [e \in Entries |-> {d1}]
MCAt == [e \in Entries |-> [q \in Path |-> IF e = e1 THEN d1 ELSE "dir"]]

To(n, q, s) == [name |-> n, path |-> q, slash |-> s]
MCUrls == {To(n1, Root, FALSE), To(n1, Root, TRUE), To(n1, p, FALSE),
           To(tag, p, FALSE), To(tag, p, TRUE), To(Dir, Root, TRUE)}

\* No name is the beginning of another one.
MCPrefixFree == [n \in Names |-> {}]

MCTwoUrls == {To(n, q, FALSE) : n \in {n1, n2}, q \in {Root, p}}

\* n2 is n1 with something appended, as "(1)" is to the second backup made in
\* one second.
MCSuffixed == [n \in Names |-> IF n = n1 THEN {n2} ELSE {}]
=============================================================================
