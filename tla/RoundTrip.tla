----------------------------- MODULE RoundTrip -----------------------------
(***************************************************************************)
(* From the user's files into the store and back: the archives of module   *)
(* HashCache and the restore of module Restore, with the objects and the   *)
(* backups between them.                                                   *)
(***************************************************************************)
EXTENDS HashCache

CONSTANT Under     \* as in Restore

VARIABLES dest, res

INSTANCE Restore

archiving == <<disk, now, cacheFile, arc, changes, hasty>>
vars == <<archiving, cas, backups, faults, dest, res>>

\* The variables of both components are well-formed.
TypeOK == HashCacheTypeOK /\ RestoreTypeOK

Init == HashCacheInit /\ RestoreInit

\* A restore and an archive meet only in the objects, where module Store has
\* them side by side; here they take turns.
Next == \/ res.pc = "idle" /\ HashCacheNext /\ UNCHANGED <<dest, res>>
        \/ /\ \A a \in Archivers : arc[a].pc = "idle"
           /\ RestoreNext /\ UNCHANGED archiving
        \/ \E h \in Content : Rot(h) /\ UNCHANGED <<dest, res>>

Spec == Init /\ [][Next]_vars

-----------------------------------------------------------------------------
(* Properties *)

\* The size and the time of a file stand for its content: unless the file
\* changed twice within a second, the hash an archive has for it is that of a
\* content it had between its stat and its hash, in that very archive, however
\* old the cache entry is and whatever happened to the cache file.  The one
\* exception is an empty file as old as the epoch, which a cache entry that was
\* never filled already matches.
HashIsTrue ==
    \A a \in Archivers, f \in File :
        LET i == arc[a].item[f] IN
        i.stage \in {"hashed", "done"} /\ f \notin hasty
          => i.sha1 \in i.was \/ (i.sha1 = NoHash /\ i.stamp = Zero)

\* What was archived comes back: when restore reports no error, it counted and
\* wrote every file that info lists for the backup, and one whose object was
\* intact has a content it had when it was archived: also when earlier restores,
\* complete or not, have left files in the directory.
RestoreGivesBack ==
    [][End /\ ~res.failed =>
         /\ res.count = Cardinality(Listed(res.tree))
         /\ \A f \in Listed(res.tree) : dest[f] # Absent
         /\ \A f \in res.intact \ hasty : dest[f] \in res.tree[f].was]_vars
=============================================================================
