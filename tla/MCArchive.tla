----------------------------- MODULE MCArchive -----------------------------
(* Inputs for module Archive: a directory of two files, a directory whose  *)
(* only file has the relative path of a file of the first one, and the     *)
(* .toArchive file itself.                                                 *)
EXTENDS Archive

CONSTANTS a, b, c, list     \* the files
CONSTANTS pa, pb, plist     \* the relative paths

MCFile == {a, b, c, list}
MCRelPath == {pa, pb, plist}
MCKind == <<"dir", "dir", "file">>
MCTree == <<{a, b}, {c}, {list}>>
MCRel == [f \in MCFile |->
            CASE f = a -> pa [] f = b -> pb [] f = c -> pa [] f = list -> plist]

\* The run that also checks liveness has the directory of two files, and the
\* file with the same relative path as one of them.
MCKindTwo == <<"dir", "file">>
MCTreeTwo == <<{a, b}, {c}>>
MCFileTwo == {a, b, c}
MCRelTwo == [f \in MCFileTwo |-> IF f = b THEN pb ELSE pa]
MCRelPathTwo == {pa, pb}
=============================================================================
