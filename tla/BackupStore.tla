---------------------------- MODULE BackupStore ----------------------------
(***************************************************************************)
(* What a dumbcas root promises, without files, processes or trash: a set  *)
(* of objects and a set of backups, each of which names a tree.  A backup  *)
(* is recorded only when everything it refers to is there, and nothing a   *)
(* backup refers to ever goes away.  memoryCasTable and memoryNodesTable   *)
(* (dumbcaslib/cas.go, nodes.go) are this store with atomic operations.    *)
(***************************************************************************)
CONSTANTS Data, Entries, Refs, Names, Absent

VARIABLES objects, backups

Closure(e) == {e} \cup Refs[e]
Needed == UNION {Closure(backups[n]) : n \in {m \in Names : backups[m] # Absent}}

Init == objects = {} /\ backups = [n \in Names |-> Absent]

\* CasTable.AddEntry
Put(h) == objects' = objects \cup {h} /\ UNCHANGED backups

\* NodesTable.AddEntry
Record(n, e) ==
    /\ backups[n] = Absent /\ Closure(e) \subseteq objects
    /\ backups' = [backups EXCEPT ![n] = e]
    /\ UNCHANGED objects

\* The user deletes the node.
Forget(n) == backups' = [backups EXCEPT ![n] = Absent] /\ UNCHANGED objects

\* CasTable.Remove, as gc uses it
Collect(h) ==
    /\ h \notin Needed
    /\ objects' = objects \ {h}
    /\ UNCHANGED backups

Next ==
    \/ \E h \in Data \cup Entries : Put(h) \/ Collect(h)
    \/ \E n \in Names : Forget(n) \/ \E e \in Entries : Record(n, e)

Spec == Init /\ [][Next]_<<objects, backups>>
=============================================================================
