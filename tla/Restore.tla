------------------------------ MODULE Restore ------------------------------
(***************************************************************************)
(* dumbcas restore (restore.go): one backup is written into a directory    *)
(* that may hold files already, among them what an earlier restore wrote.  *)
(*                                                                         *)
(* A backup is a tree of Entry records: here, the function from its files  *)
(* to their hashes and sizes.  Under[f] = g says that the path of f lies   *)
(* inside the path of g, so that g is a file and a directory of the tree   *)
(* when both are in it.  The module has no specification of its own: see   *)
(* module RoundTrip.                                                       *)
(***************************************************************************)
EXTENDS Naturals

CONSTANTS
    File, Content, Size, NoHash, Absent, Torn,  \* as in HashCache
    Under,      \* Under[f]: the file whose path is a directory of f's, or Absent
    MaxFaults

VARIABLES
    cas, backups, faults,   \* as in HashCache
    dest,       \* content of the files in the output directory
    res         \* the restore

\* intact, which the code does not have, is the files written from an object
\* whose content was what its name says.
NoRestore == [pc |-> "idle", tree |-> [f \in File |-> Absent], todo |-> {}, count |-> 0,
              failed |-> FALSE, intact |-> {}]

RestoreState ==
    [pc : {"idle", "run"},
     tree : [File -> [sha1 : Content \cup {NoHash}, size : Nat, was : SUBSET Content] \cup {Absent}],
     todo : SUBSET File, count : Nat, failed : BOOLEAN, intact : SUBSET File]

\* dest and res are well-formed.
RestoreTypeOK == dest \in [File -> Content \cup {Absent, Torn}] /\ res \in RestoreState

RestoreInit == dest = [f \in File |-> Absent] /\ res = NoRestore

-----------------------------------------------------------------------------
\* printEntry of info.go: the files of a backup that it lists and counts.
Listed(tree) == {f \in File : tree[f] # Absent /\ tree[f].sha1 # NoHash}

\* The node and its entry are loaded.
Start(tree) ==
    /\ res.pc = "idle" /\ tree \in backups
    /\ res' = [NoRestore EXCEPT !.pc = "run", !.tree = tree,
                                !.todo = {f \in File : tree[f] # Absent}]
    /\ UNCHANGED <<cas, backups, faults, dest>>

\* restoreEntry handles the file of an entry before its children, and the
\* children in the order of the map.
Turn(f) == res.pc = "run" /\ f \in res.todo /\ Under[f] \notin res.todo

\* cas.Open finds the object.
CanOpen(f) == cas[res.tree[f].sha1] # Absent

\* MkdirAll of the parent, and the creation of the file with O_EXCL: no parent is
\* a file, and the file is not there, nor a directory of that name.
CanCreate(f) == /\ Under[f] \in File => dest[Under[f]] = Absent
                /\ dest[f] = Absent
                /\ ~\E g \in File : Under[g] = f /\ dest[g] # Absent

\* An entry without hash is no file, and no error.
SkipEntry(f) ==
    /\ Turn(f) /\ res.tree[f].sha1 = NoHash
    /\ res' = [res EXCEPT !.todo = @ \ {f}]
    /\ UNCHANGED <<cas, backups, faults, dest>>

\* Mutant: a file that cannot be restored is logged only.
LogsOnly(f) ==
    /\ Turn(f) /\ res.tree[f].sha1 # NoHash
    /\ res' = [res EXCEPT !.todo = @ \ {f}]
    /\ UNCHANGED <<cas, backups, faults, dest>>

\* The error is kept if it is the first one, and the next file is next.  Each of
\* the calls may also fail for a reason of its own: the files that were written
\* are never closed, and the descriptors may run out.
CannotRestore(f) ==
    /\ Turn(f) /\ res.tree[f].sha1 # NoHash
    /\ res' = [res EXCEPT !.todo = @ \ {f}, !.failed = TRUE]
    /\ UNCHANGED <<cas, backups, faults, dest>>

\* The object is copied, and its length, not its hash, compared with the entry.
RestoreFile(f) ==
    /\ Turn(f) /\ res.tree[f].sha1 # NoHash /\ CanOpen(f) /\ CanCreate(f)
    /\ LET c == cas[res.tree[f].sha1] IN
          /\ dest' = [dest EXCEPT ![f] = c]
          /\ \E same \in IF c = Torn THEN BOOLEAN ELSE {Size[c] = res.tree[f].size} :
                res' = [res EXCEPT !.todo = @ \ {f},
                                   !.count = IF same THEN @ + 1 ELSE @,
                                   !.failed = @ \/ ~same,
                                   !.intact = IF c = res.tree[f].sha1 THEN @ \cup {f} ELSE @]
    /\ UNCHANGED <<cas, backups, faults>>

\* The copy fails half way.
CopyFails(f) ==
    /\ Turn(f) /\ res.tree[f].sha1 # NoHash /\ CanOpen(f) /\ CanCreate(f)
    /\ dest' = [dest EXCEPT ![f] = Torn]
    /\ res' = [res EXCEPT !.todo = @ \ {f}, !.failed = TRUE]
    /\ UNCHANGED <<cas, backups, faults>>

End ==
    /\ res.pc = "run" /\ res.todo = {}
    /\ res' = NoRestore
    /\ UNCHANGED <<cas, backups, faults, dest>>

\* The restore dies, perhaps while it writes a file.
KillRestore ==
    /\ res.pc = "run" /\ faults < MaxFaults
    /\ faults' = faults + 1
    /\ res' = NoRestore
    /\ \/ UNCHANGED dest
       \/ \E f \in res.todo : /\ Turn(f) /\ res.tree[f].sha1 # NoHash
                              /\ CanOpen(f) /\ CanCreate(f)
                              /\ dest' = [dest EXCEPT ![f] = Torn]
    /\ UNCHANGED <<cas, backups>>

-----------------------------------------------------------------------------
RestoreNext ==
    \/ \E tree \in backups : Start(tree)
    \/ \E f \in File : SkipEntry(f) \/ CannotRestore(f) \/ RestoreFile(f) \/ CopyFails(f)
    \/ End \/ KillRestore
=============================================================================
