---------------------------- MODULE StoreProofs ----------------------------
(* Theorems about module Store, for all its constants. *)
EXTENDS Store, TLAPS

\* Giving the open file of a process its content keeps a table a table.
LEMMA FillType ==
    ASSUME NEW S, NEW T, NEW f \in [S -> T], NEW a, NEW v \in T
    PROVE  Fill(f, a, v) \in [S -> T]
BY DEF Fill

\* What opening a path leads to is a path.
LEMMA TargetType ==
    ASSUME TypeOK, NEW p \in Path
    PROVE  Target(p) \in Path
BY DEF TypeOK, Target, Path

\* Visiting something changes the visiting command's bookkeeping only.
LEMMA VisitedType ==
    ASSUME TypeOK, NEW c \in Cmd, NEW x \in Hash \cup Path, NEW k \in {0, 1}
    PROVE  /\ Visited(c, x, k) \in [Cmd -> CmdState]
           /\ \A d \in Cmd \ {c} : Visited(c, x, k)[d] = cmd[d]
           /\ Visited(c, x, k)[c].pc = cmd[c].pc
           /\ Visited(c, x, k)[c].due = cmd[c].due \ {x}
<1> DEFINE new == [cmd[c] EXCEPT !.due = @ \ {x}, !.vis = @ \cup {x}, !.fds = @ + k]
<1>1. cmd[c] \in CmdState
  BY DEF TypeOK
<1>2. cmd[c].due \ {x} \in SUBSET (Hash \cup Path) /\ cmd[c].vis \cup {x} \in SUBSET (Hash \cup Path)
  BY <1>1 DEF CmdState
<1>3. cmd[c].fds + k \in Nat
  BY <1>1 DEF CmdState
<1>4. new \in CmdState /\ new.pc = cmd[c].pc /\ new.due = cmd[c].due \ {x}
  BY <1>1, <1>2, <1>3 DEF CmdState
<1>5. Visited(c, x, k) = [cmd EXCEPT ![c] = new]
  BY <1>1 DEF Visited, TypeOK, CmdState
<1>6. QED
  BY <1>4, <1>5 DEF TypeOK

\* The state of a command that is not running has its type.
LEMMA NoCmdType == NoCmd \in CmdState
BY DEF NoCmd, CmdState

\* The same for an archive process that has not started or has ended.
LEMMA NoArchiveType == NoArchive \in ArchiveState
BY DEF NoArchive, ArchiveState

\* An empty root directory, with nothing running, has the types.
LEMMA InitType == Init => TypeOK
<1> SUFFICES ASSUME Init PROVE TypeOK
  OBVIOUS
<1>1. ar \in [Archivers -> ArchiveState] /\ cmd \in [Cmd -> CmdState]
  BY NoCmdType, NoArchiveType DEF Init
<1>2. QED
  BY <1>1 DEF Init, TypeOK

\* A fault keeps the types of what it changes.
LEMMA FaultType ==
    ASSUME TypeOK, NEW kind, Fault(kind)
    PROVE  /\ used' \in SUBSET Names /\ runs' \in Nat /\ faults' \in Nat
           /\ fscked' \in BOOLEAN /\ calm' \in BOOLEAN
<1>1. faults' \in Nat
  BY DEF TypeOK, Fault
<1>2. used' \in SUBSET Names /\ runs' \in Nat
  BY DEF TypeOK, Fault
<1>3. fscked' \in BOOLEAN /\ calm' \in BOOLEAN
  BY Zenon DEF TypeOK, Fault, NoCommand
<1>4. QED
  BY <1>1, <1>2, <1>3

\* Setting the fsck bit, or failing to, leaves it a Boolean.
LEMMA BitType ==
    ASSUME TypeOK, NEW c, SetFsckBit \/ TrySetFsckBit(c)
    PROVE  needFsck' \in BOOLEAN
BY Zenon DEF TypeOK, SetFsckBit, TrySetFsckBit

\* Every step of an archive process keeps the types.
LEMMA ArchiveType ==
    ASSUME TypeOK, NEW a \in Archivers, Archive(a)
    PROVE  TypeOK'
<1> USE DEF disk, gcState, ghost
<1>0. ar[a] \in ArchiveState
  BY DEF TypeOK
<1>1. ASSUME NEW e \in Entries, ArchiveStart(a, e) PROVE TypeOK'
  <2>1. Refs[e] \cup {e} \in SUBSET Hash
    BY ValuesAssumption DEF Hash
  <2>2. [NoArchive EXCEPT !.pc = "add", !.ent = e, !.todo = Refs[e] \cup {e}] \in ArchiveState
    BY <2>1 DEF NoArchive, ArchiveState
  <2>3. ar' \in [Archivers -> ArchiveState]
    BY <1>1, <2>2 DEF ArchiveStart, TypeOK
  <2>4. QED
    BY <1>1, <2>3 DEF ArchiveStart, TypeOK
<1>2. ASSUME NEW h \in Hash, AddEntry(a, h) PROVE TypeOK'
  <2>1. ar' \in [Archivers -> ArchiveState]
    BY <1>2 DEF AddEntry, TypeOK, ArchiveState
  <2>2. cas' \in [Hash -> Content \cup {Absent}]
    BY <1>2 DEF AddEntry, TypeOK, Content
  <2>3. QED
    BY <1>2, <2>1, <2>2 DEF AddEntry, TypeOK
<1>3. ASSUME NEW h \in Hash, AddFails(a, h) PROVE TypeOK'
  <2>1. [ar[a] EXCEPT !.todo = @ \ {h}] \in ArchiveState
    BY <1>0 DEF ArchiveState
  <2>2. ar' \in [Archivers -> ArchiveState]
    BY <1>3, <2>1, NoArchiveType DEF AddFails, TypeOK
  <2>3. QED
    BY <1>3, <2>2, FaultType DEF AddFails, TypeOK
<1>4. ASSUME NEW v \in Content \cup {Absent}, Copied(a, v)
      PROVE  cas' \in [Hash -> Content \cup {Absent}] /\ trash' \in [Hash -> Content \cup {Absent}]
  BY <1>4, FillType DEF Copied, TypeOK
<1>5. CASE CopyEnds(a)
  <2>1. ar[a].cur \in Content \cup {Absent}
    BY <1>0 DEF ArchiveState, Content
  <2>2. cas' \in [Hash -> Content \cup {Absent}] /\ trash' \in [Hash -> Content \cup {Absent}]
    BY <1>4, <1>5, <2>1 DEF CopyEnds
  <2>3. ar' \in [Archivers -> ArchiveState]
    BY <1>0, <1>5 DEF CopyEnds, TypeOK, ArchiveState
  <2>4. QED
    BY <1>5, <2>2, <2>3 DEF CopyEnds, Copied, TypeOK
<1>6. CASE CopyOfChangedFile(a)
  <2>1. cas' \in [Hash -> Content \cup {Absent}] /\ trash' \in [Hash -> Content \cup {Absent}]
    BY <1>4, <1>6 DEF CopyOfChangedFile, Content
  <2>2. ar' \in [Archivers -> ArchiveState]
    BY <1>0, <1>6 DEF CopyOfChangedFile, TypeOK, ArchiveState
  <2>3. QED
    BY <1>6, <2>1, <2>2, FaultType DEF CopyOfChangedFile, Copied, TypeOK
<1>7. CASE CopyFails(a)
  <2>1. cas' \in [Hash -> Content \cup {Absent}] /\ trash' \in [Hash -> Content \cup {Absent}]
    BY <1>4, <1>7 DEF CopyFails, Content
  <2>2. [ar[a] EXCEPT !.pc = "add"] \in ArchiveState
    BY <1>0 DEF ArchiveState
  <2>3. ar' \in [Archivers -> ArchiveState]
    BY <1>7, <2>2, NoArchiveType DEF CopyFails, TypeOK
  <2>4. QED
    BY <1>7, <2>1, <2>3, FaultType DEF CopyFails, Copied, TypeOK
<1>8. ASSUME NEW n \in Names, NodeCreate(a, n) PROVE TypeOK'
  <2>1. nodes' \in [Path -> NodeContent \cup {Absent}]
    BY <1>8 DEF NodeCreate, TypeOK, NodeContent
  <2>2. ar' \in [Archivers -> ArchiveState]
    BY <1>0, <1>8 DEF NodeCreate, TypeOK, ArchiveState
  <2>3. QED
    BY <1>8, <2>1, <2>2 DEF NodeCreate, TypeOK
<1>9. ar[a].ent \in NodeContent \cup {Absent} /\ ar[a].name \in NodeContent \cup {Absent}
  BY <1>0 DEF ArchiveState, NodeContent
<1>10. CASE NodeWrite(a)
  <2>1. nodes' \in [Path -> NodeContent \cup {Absent}]
    BY <1>9, <1>10, FillType DEF NodeWrite, TypeOK
  <2>2. ar' \in [Archivers -> ArchiveState]
    BY <1>0, <1>10 DEF NodeWrite, TypeOK, ArchiveState
  <2>3. QED
    BY <1>10, <2>1, <2>2 DEF NodeWrite, TypeOK
<1>11. CASE Untag(a)
  <2>1. ar' \in [Archivers -> ArchiveState]
    BY <1>0, <1>11 DEF Untag, TypeOK, ArchiveState
  <2>2. QED
    BY <1>11, <2>1 DEF Untag, TypeOK
<1>12. CASE LinkTag(a)
  <2>1. nodes' \in [Path -> NodeContent \cup {Absent}]
    BY <1>9, <1>12 DEF LinkTag, TypeOK
  <2>2. ar' \in [Archivers -> ArchiveState]
    BY <1>12, NoArchiveType DEF LinkTag, TypeOK
  <2>3. QED
    BY <1>12, <2>1, <2>2 DEF LinkTag, TypeOK
<1>13. CASE OpenTag(a)
  <2>1. nodes' \in [Path -> NodeContent \cup {Absent}]
    BY <1>13 DEF OpenTag, TypeOK, NodeContent
  <2>2. ar' \in [Archivers -> ArchiveState]
    BY <1>0, <1>13 DEF OpenTag, TypeOK, ArchiveState
  <2>3. QED
    BY <1>13, <2>1, <2>2 DEF OpenTag, TypeOK
<1>14. CASE RewriteTag(a)
  <2>1. nodes' \in [Path -> NodeContent \cup {Absent}]
    BY <1>9, <1>14, FillType DEF RewriteTag, TypeOK
  <2>2. ar' \in [Archivers -> ArchiveState]
    BY <1>14, NoArchiveType DEF RewriteTag, TypeOK
  <2>3. QED
    BY <1>14, <2>1, <2>2 DEF RewriteTag, TypeOK
<1>15. QED
  BY <1>1, <1>2, <1>3, <1>5, <1>6, <1>7, <1>8, <1>10, <1>11, <1>12, <1>13, <1>14 DEF Archive

\* Every step gc and fsck share keeps the types.
LEMMA EnumerateType ==
    ASSUME TypeOK, NEW c \in Cmd, Enumerate(c)
    PROVE  TypeOK'
<1> USE DEF disk, gcState, ghost
<1>0. cmd[c] \in CmdState
  BY DEF TypeOK
<1>1. CASE Parse(c)
  <2>1. cmd' \in [Cmd -> CmdState]
    BY <1>0, <1>1 DEF Parse, TypeOK, CmdState
  <2>2. runs' \in Nat
    BY <1>1 DEF Parse, TypeOK
  <2>3. old' \in SUBSET Names /\ gcResult' \in {"none", "ok", "failed"}
    BY <1>1 DEF Parse, TypeOK
  <2>4. QED
    BY <1>1, <2>1, <2>2, <2>3, Zenon DEF Parse, TypeOK
<1>2. CASE ListCas(c)
  <2>1. Stored \in SUBSET (Hash \cup Path) /\ needFsck \in BOOLEAN
    BY DEF Stored, TypeOK
  <2>2. cmd' \in [Cmd -> CmdState]
    BY <1>0, <1>2, <2>1 DEF ListCas, TypeOK, CmdState
  <2>3. QED
    BY <1>2, <2>2 DEF ListCas, TypeOK
<1>3. CASE TrashBit(c)
  <2>1. cmd' \in [Cmd -> CmdState]
    BY <1>0, <1>3 DEF TrashBit, TypeOK, CmdState
  <2>2. QED
    BY <1>3, <2>1 DEF TrashBit, TypeOK
<1>4. CASE SetBitAgain(c)
  <2>1. cmd' \in [Cmd -> CmdState]
    BY <1>0, <1>4 DEF SetBitAgain, TypeOK, CmdState
  <2>2. QED
    BY <1>4, <2>1, BitType DEF SetBitAgain, TypeOK
<1>5. CASE Missed(c)
  <2>1. cmd' \in [Cmd -> CmdState]
    BY <1>0, <1>5 DEF Missed, TypeOK, CmdState
  <2>2. QED
    BY <1>5, <2>1 DEF Missed, TypeOK
<1>6. CASE ListNodes(c)
  <2>1. NodeFiles \in SUBSET (Hash \cup Path)
    BY DEF NodeFiles
  <2>2. cmd' \in [Cmd -> CmdState]
    BY <1>0, <1>6, <2>1 DEF ListNodes, TypeOK, CmdState
  <2>3. QED
    BY <1>6, <2>2 DEF ListNodes, TypeOK
<1>7. CASE WalkCutShort(c)
  <2>1. [cmd[c] EXCEPT !.due = {}] \in CmdState
    BY <1>0 DEF CmdState
  <2>2. cmd' \in [Cmd -> CmdState]
    BY <1>7, <2>1, NoCmdType DEF WalkCutShort, GcReturns, TypeOK, Cmd
  <2>3. QED
    BY <1>7, <2>2 DEF WalkCutShort, GcReturns, TypeOK
<1>8. QED
  BY <1>1, <1>2, <1>3, <1>4, <1>5, <1>6, <1>7 DEF Enumerate
\* Every step of gc keeps the types.
LEMMA GcType ==
    ASSUME TypeOK, Gc
    PROVE  TypeOK'
<1> USE DEF disk, gcState, ghost
<1>0. cmd["gc"] \in CmdState /\ "gc" \in Cmd
  BY DEF TypeOK, Cmd
<1>1. ASSUME NEW h \in Hash, GcSeesObject(h) PROVE TypeOK'
  <2>1. cmd' \in [Cmd -> CmdState]
    BY <1>0, <1>1, VisitedType DEF GcSeesObject
  <2>2. QED
    BY <1>1, <2>1 DEF GcSeesObject, TypeOK
<1>2. ASSUME NEW h \in Hash, GcRemoves(h) PROVE TypeOK'
  <2>1. CASE cas[h] # Absent
    <3>1. cas' \in [Hash -> Content \cup {Absent}] /\ trash' \in [Hash -> Content \cup {Absent}]
      BY <1>2, <2>1 DEF GcRemoves, MoveToTrash, TypeOK
    <3>2. entries' \in SUBSET Hash
      BY <1>2, <2>1 DEF GcRemoves, MoveToTrash, TypeOK
    <3>3. QED
      BY <1>2, <2>1, <3>1, <3>2 DEF GcRemoves, TypeOK
  <2>2. CASE cas[h] = Absent
    <3>1. cmd' \in [Cmd -> CmdState]
      BY <1>2, <2>2, NoCmdType DEF GcRemoves, GcReturns, TypeOK
    <3>2. QED
      BY <1>2, <2>2, <3>1, BitType DEF GcRemoves, GcReturns, TypeOK
  <2>3. QED
    BY <2>1, <2>2
<1>3. ASSUME NEW p \in Path, GcReadsNode(p) PROVE TypeOK'
  <2>1. cmd' \in [Cmd -> CmdState]
    BY <1>0, <1>3, VisitedType DEF GcReadsNode
  <2>2. EntryOf(p) \in Entries /\ Refs[EntryOf(p)] \in SUBSET Data
    BY <1>3, ValuesAssumption DEF GcReadsNode, Loads, Readable
  <2>3. tagged' \in SUBSET Hash
    BY <1>3, <2>2 DEF GcReadsNode, TypeOK, Hash
  <2>4. QED
    BY <1>3, <2>1, <2>3 DEF GcReadsNode, TypeOK
<1>4. ASSUME NEW p \in Path, GcMeetsBadNode(p) PROVE TypeOK'
  <2>1. cmd' \in [Cmd -> CmdState]
    BY <1>4, NoCmdType DEF GcMeetsBadNode, GcReturns, TypeOK
  <2>2. QED
    BY <1>4, <2>1, BitType DEF GcMeetsBadNode, GcReturns, TypeOK
<1>5. CASE GcNodesDone
  <2>1. cmd' \in [Cmd -> CmdState]
    BY <1>0, <1>5 DEF GcNodesDone, TypeOK, CmdState
  <2>2. QED
    BY <1>5, <2>1 DEF GcNodesDone, TypeOK
<1>6. CASE GcEnds
  <2>1. cmd' \in [Cmd -> CmdState]
    BY <1>6, NoCmdType DEF GcEnds, GcReturns, TypeOK
  <2>2. QED
    BY <1>6, <2>1 DEF GcEnds, GcReturns, TypeOK
<1>7. QED
  BY <1>1, <1>2, <1>3, <1>4, <1>5, <1>6 DEF Gc

\* Every step of fsck keeps the types.
LEMMA FsckType ==
    ASSUME TypeOK, Fsck
    PROVE  TypeOK'
<1> USE DEF disk, gcState, ghost
<1>0. cmd["fsck"] \in CmdState /\ "fsck" \in Cmd
  BY DEF TypeOK, Cmd
<1>1. ASSUME NEW h \in Hash, FsckChecksObject(h) PROVE TypeOK'
  <2> DEFINE seen == Visited("fsck", h, 1)
  <2>1. seen \in [Cmd -> CmdState]
    BY <1>0, VisitedType
  <2>2. [seen["fsck"] EXCEPT !.pc = "trash"] \in CmdState
    BY <1>0, <2>1 DEF CmdState
  <2>3. [seen EXCEPT !["fsck"].pc = "trash"] \in [Cmd -> CmdState]
    BY <2>1, <2>2
  <2>4. cmd' \in [Cmd -> CmdState]
    BY <1>1, <2>1, <2>3 DEF FsckChecksObject
  <2>5. QED
    BY <1>1, <2>4 DEF FsckChecksObject, TypeOK
<1>2. ASSUME NEW h \in Hash, FsckCannotOpen(h) PROVE TypeOK'
  <2>1. cmd' \in [Cmd -> CmdState]
    BY <1>2, NoCmdType DEF FsckCannotOpen, FsckAborts, TypeOK
  <2>2. QED
    BY <1>2, <2>1 DEF FsckCannotOpen, TypeOK
<1>3. ASSUME NEW h \in Hash, FsckSkipsPrefix(h) PROVE TypeOK'
  <2>1. cmd' \in [Cmd -> CmdState]
    BY <1>0, <1>3, VisitedType DEF FsckSkipsPrefix
  <2>2. QED
    BY <1>3, <2>1, BitType DEF FsckSkipsPrefix, TypeOK
<1>4. ASSUME NEW p \in Path, FsckKeepsNode(p) PROVE TypeOK'
  <2>1. cmd' \in [Cmd -> CmdState]
    BY <1>0, <1>4, VisitedType DEF FsckKeepsNode
  <2>2. QED
    BY <1>4, <2>1 DEF FsckKeepsNode, TypeOK
<1>5. ASSUME NEW p \in Path, FsckTrashesNode(p) PROVE TypeOK'
  <2>1. cmd' \in [Cmd -> CmdState]
    BY <1>0, <1>5, VisitedType DEF FsckTrashesNode
  <2>2. nodes' \in [Path -> NodeContent \cup {Absent}]
    BY <1>5 DEF FsckTrashesNode, TypeOK
  <2>3. QED
    BY <1>5, <2>1, <2>2 DEF FsckTrashesNode, TypeOK
<1>6. CASE FsckTrashesObject
  <2>1. cas' \in [Hash -> Content \cup {Absent}] /\ trash' \in [Hash -> Content \cup {Absent}]
    BY <1>6 DEF FsckTrashesObject, MoveToTrash, TypeOK
  <2>2. cmd' \in [Cmd -> CmdState]
    <3>1. [cmd["fsck"] EXCEPT !.pc = "cas"] \in CmdState
      BY <1>0 DEF CmdState
    <3>2. QED
      BY <1>6, <3>1, NoCmdType DEF FsckTrashesObject, FsckAborts, TypeOK
  <2>3. QED
    BY <1>6, <2>1, <2>2 DEF FsckTrashesObject, TypeOK
<1>7. CASE FsckEnds
  <2>1. cmd' \in [Cmd -> CmdState]
    BY <1>7, NoCmdType DEF FsckEnds, TypeOK
  <2>2. QED
    BY <1>7, <2>1 DEF FsckEnds, TypeOK
<1>8. QED
  BY <1>1, <1>2, <1>3, <1>4, <1>5, <1>6, <1>7 DEF Fsck

\* Deletion, readers and faults keep the types.
LEMMA EnvironmentType ==
    ASSUME TypeOK, Environment
    PROVE  TypeOK'
<1> USE DEF disk, gcState, ghost
<1>1. ASSUME NEW n \in Names, DeleteNode(n) PROVE TypeOK'
  BY <1>1 DEF DeleteNode, TypeOK
<1>2. ASSUME NEW p \in Path, ReaderSetsBit(p) PROVE TypeOK'
  BY <1>2, BitType DEF ReaderSetsBit, TypeOK
<1>3. ASSUME NEW p \in Path, CorruptNode(p) PROVE TypeOK'
  <2>1. nodes' \in [Path -> NodeContent \cup {Absent}]
    BY <1>3 DEF CorruptNode, TypeOK, NodeContent
  <2>2. QED
    BY <1>3, <2>1, FaultType DEF CorruptNode, TypeOK
<1>4. ASSUME NEW a \in Archivers, ArchiveKilled(a) PROVE TypeOK'
  <2>1. cas' \in [Hash -> Content \cup {Absent}] /\ trash' \in [Hash -> Content \cup {Absent}]
    BY <1>4, FillType DEF ArchiveKilled, TypeOK, Content
  <2>2. nodes' \in [Path -> NodeContent \cup {Absent}]
    BY <1>4, FillType DEF ArchiveKilled, TypeOK, NodeContent
  <2>3. ar' \in [Archivers -> ArchiveState]
    BY <1>4, NoArchiveType DEF ArchiveKilled, TypeOK
  <2>4. QED
    BY <1>4, <2>1, <2>2, <2>3, FaultType DEF ArchiveKilled, TypeOK
<1>5. ASSUME NEW c \in Cmd, CommandKilled(c) PROVE TypeOK'
  <2>1. cmd' \in [Cmd -> CmdState]
    BY <1>5, NoCmdType DEF CommandKilled, GcReturns, FsckAborts, TypeOK
  <2>2. QED
    BY <1>5, <2>1, FaultType DEF CommandKilled, GcReturns, TypeOK
<1>6. ASSUME NEW h \in Hash, CorruptObject(h) PROVE TypeOK'
  <2>1. cas' \in [Hash -> Content \cup {Absent}]
    BY <1>6 DEF CorruptObject, TypeOK, Content
  <2>2. QED
    BY <1>6, <2>1, FaultType DEF CorruptObject, TypeOK
<1>7. QED
  BY <1>1, <1>2, <1>3, <1>4, <1>5, <1>6 DEF Environment

\* The type invariant of the store: whatever archive, gc, fsck, the user and
\* the faults do, and however many of them there are.
THEOREM TypeCorrect == Spec => []TypeOK
<1>1. TypeOK /\ [Next]_vars => TypeOK'
  <2> SUFFICES ASSUME TypeOK, [Next]_vars PROVE TypeOK'
    OBVIOUS
  <2>1. CASE UNCHANGED vars
    BY <2>1 DEF vars, disk, gcState, ghost, TypeOK
  <2>2. CASE Rest
    BY <2>2 DEF Rest, vars, disk, gcState, ghost, TypeOK
  <2>3. QED
    BY <2>1, <2>2, ArchiveType, EnumerateType, GcType, FsckType, EnvironmentType DEF Next
<1>2. QED
  BY <1>1, InitType, PTL DEF Spec
-----------------------------------------------------------------------------
(* gc and the backups that were there when it started *)

\* A step that leaves gc alone keeps GcInv if the names in use are recorded and
\* the old nodes are, at most, deleted.
LEMMA GcInvKept ==
    ASSUME TypeOK, GcInv, used \subseteq used', old' \subseteq old,
           UNCHANGED tagged, cmd'["gc"] = cmd["gc"],
           \A n \in Names : nodes'[<<0, n>>] # Absent => nodes[<<0, n>>] # Absent \/ n \in used',
           nodes'[<<0, Tag>>] \in Names => nodes'[<<0, Tag>>] \in used',
           \A a \in Archivers : ar'[a].name # Absent => ar'[a].name \in used',
           \A n \in old' : /\ nodes'[<<0, n>>] \notin Archivers
                           /\ nodes'[<<0, n>>] \in Entries => nodes'[<<0, n>>] = nodes[<<0, n>>]
    PROVE  GcInv'
<1>1. \A n \in Names : nodes'[<<0, n>>] # Absent => n \in used'
  BY DEF GcInv
<1>2. \A n \in old' : n \in used' /\ nodes'[<<0, n>>] \notin Archivers
  BY DEF GcInv
<1>3. ASSUME cmd'["gc"].pc \in {"nodes", "remove"}, NEW n \in old', nodes'[<<0, n>>] \in Entries
      PROVE  \/ <<0, n>> \in cmd'["gc"].due
             \/ Closure(nodes'[<<0, n>>]) \subseteq tagged'
  BY <1>3 DEF GcInv
<1>4. cmd'["gc"].pc = "remove" => cmd'["gc"].due = {}
  BY DEF GcInv
<1>5. QED
  BY <1>1, <1>2, <1>3, <1>4 DEF GcInv

\* The special case of a step that changes no node.
LEMMA GcInvFrame ==
    ASSUME TypeOK, GcInv, UNCHANGED <<nodes, used, old, tagged>>, cmd'["gc"] = cmd["gc"],
           \A a \in Archivers : ar'[a].name \in {ar[a].name, Absent}
    PROVE  GcInv'
<1>1. nodes'[<<0, Tag>>] \in Names => nodes'[<<0, Tag>>] \in used'
  BY DEF GcInv
<1>2. \A a \in Archivers : ar'[a].name # Absent => ar'[a].name \in used'
  BY DEF GcInv
<1>3. \A n \in old' : nodes'[<<0, n>>] \notin Archivers
  BY DEF GcInv
<1>4. QED
  BY <1>1, <1>2, <1>3, GcInvKept

\* Every way gc returns forgets the old nodes.
LEMMA GcReturnsInv ==
    ASSUME TypeOK, GcInv, NEW r, GcReturns(r), UNCHANGED <<nodes, used, ar>>
    PROVE  GcInv'
<1>1. cmd'["gc"].pc = "idle" /\ old' = {}
  BY DEF GcReturns, NoCmd, TypeOK, Cmd
<1>2. QED
  BY <1>1 DEF GcInv

\* Writing the content of an open file changes no old node, and no name.
LEMMA FillKeepsNodes ==
    ASSUME TypeOK, GcInv, NEW a \in Archivers, NEW v \in Entries \cup {Absent, Torn},
           nodes' = Fill(nodes, a, v)
    PROVE  /\ \A n \in Names : nodes'[<<0, n>>] # Absent => nodes[<<0, n>>] # Absent
           /\ nodes'[<<0, Tag>>] \in Names => nodes'[<<0, Tag>>] \in used
           /\ \A n \in old : nodes'[<<0, n>>] = nodes[<<0, n>>]
<1>1. \A n \in Names \cup {Tag} : <<0, n>> \in Path
  BY BoundsAssumption DEF Path
<1>2. \A n \in Names \cup {Tag} :
        nodes'[<<0, n>>] = IF nodes[<<0, n>>] = a THEN v ELSE nodes[<<0, n>>]
  BY <1>1 DEF Fill, TypeOK
<1>3. a # Absent /\ v \notin Names
  BY ValuesAssumption DEF Hash
<1>4. old \subseteq Names
  BY DEF TypeOK
<1>5. QED
  BY <1>2, <1>3, <1>4 DEF GcInv
\* archive keeps GcInv: it takes names that were never used, and when it
\* rewrites the node a tag links to, that node is no longer an old one.
LEMMA ArchiveGcInv ==
    ASSUME TypeOK, GcInv, NEW a \in Archivers, Archive(a)
    PROVE  GcInv'
<1> USE DEF disk, gcState, ghost
<1>0. /\ \A n \in Names \cup {Tag} : <<0, n>> \in Path
      /\ ar \in [Archivers -> ArchiveState] /\ nodes \in [Path -> NodeContent \cup {Absent}]
      /\ ar[a] \in ArchiveState
      /\ ar[a].ent \in Entries \cup {Absent, Torn} /\ ar[a].name \in Names \cup {Absent}
      /\ a # Absent /\ a \notin Names /\ a \notin Entries
      /\ old \subseteq Names /\ Tag \notin Names
  BY SMTT(30), BoundsAssumption, ValuesAssumption DEF Path, TypeOK, ArchiveState, Hash
<1>1. ASSUME NEW e \in Entries, ArchiveStart(a, e) PROVE GcInv'
  <2>1. \A b \in Archivers : ar'[b].name \in {ar[b].name, Absent}
    BY <1>0, <1>1 DEF ArchiveStart, NoArchive
  <2>2. QED
    BY <1>1, <2>1, GcInvFrame DEF ArchiveStart
<1>2. ASSUME NEW h \in Hash, AddEntry(a, h) PROVE GcInv'
  <2>1. \A b \in Archivers : ar'[b].name = ar[b].name
    <3>1. CASE cas[h] # Absent
      <4>1. \A b \in Archivers \ {a} : ar'[b] = ar[b]
        BY <1>0, <1>2, <3>1 DEF AddEntry
      <4>2. ar'[a].name = ar[a].name
        BY <1>0, <1>2, <3>1 DEF AddEntry, ArchiveState
      <4>3. QED
        BY <4>1, <4>2
    <3>2. CASE cas[h] = Absent
      <4>1. \A b \in Archivers \ {a} : ar'[b] = ar[b]
        BY <1>0, <1>2, <3>2 DEF AddEntry
      <4>2. ar'[a].name = ar[a].name
        BY <1>0, <1>2, <3>2 DEF AddEntry, ArchiveState
      <4>3. QED
        BY <4>1, <4>2
    <3>3. QED
      BY <3>1, <3>2
  <2>2. QED
    BY <1>2, <2>1, GcInvFrame DEF AddEntry
<1>3. ASSUME NEW h \in Hash, AddFails(a, h) PROVE GcInv'
  <2>1. \A b \in Archivers : ar'[b].name \in {ar[b].name, Absent}
    BY <1>0, <1>3 DEF AddFails, NoArchive, ArchiveState
  <2>2. QED
    BY <1>3, <2>1, GcInvFrame DEF AddFails, Fault
<1>4. CASE CopyEnds(a) \/ CopyOfChangedFile(a) \/ CopyFails(a)
  <2>1. \A b \in Archivers : ar'[b].name \in {ar[b].name, Absent}
    BY <1>0, <1>4 DEF CopyEnds, CopyOfChangedFile, CopyFails, NoArchive, ArchiveState
  <2>2. QED
    BY <1>4, <2>1, GcInvFrame DEF CopyEnds, CopyOfChangedFile, CopyFails, Copied, Fault
<1>5. ASSUME NEW n \in Names, NodeCreate(a, n) PROVE GcInv'
  <2>1. /\ \A m \in Names \cup {Tag} : m # n => nodes'[<<0, m>>] = nodes[<<0, m>>]
        /\ nodes'[<<0, n>>] = a
    BY <1>0, <1>5 DEF NodeCreate
  <2>2. /\ \A b \in Archivers \ {a} : ar'[b] = ar[b]
        /\ ar'[a].name = n
    BY <1>0, <1>5 DEF NodeCreate, ArchiveState
  <2>3. used' = used \cup {n} /\ n \notin old /\ UNCHANGED <<old, tagged, cmd>>
    BY <1>5 DEF NodeCreate, GcInv
  <2>4. \A b \in Archivers : ar'[b].name # Absent => ar'[b].name \in used'
    BY <2>2, <2>3 DEF GcInv
  <2>5. nodes'[<<0, Tag>>] \in Names => nodes'[<<0, Tag>>] \in used'
    BY <1>0, <2>1, <2>3 DEF GcInv
  <2>6. \A m \in old' : nodes'[<<0, m>>] = nodes[<<0, m>>] /\ nodes'[<<0, m>>] \notin Archivers
    BY <1>0, <2>1, <2>3 DEF GcInv
  <2>7. QED
    BY <2>1, <2>3, <2>4, <2>5, <2>6, GcInvKept
<1>6. CASE NodeWrite(a) \/ RewriteTag(a)
  <2>1. \A b \in Archivers : ar'[b].name \in {ar[b].name, Absent}
    BY <1>0, <1>6 DEF NodeWrite, RewriteTag, NoArchive, ArchiveState
  <2>2. \A b \in Archivers : ar'[b].name # Absent => ar'[b].name \in used
    BY <2>1 DEF GcInv
  <2>3. nodes' = Fill(nodes, a, ar[a].ent) /\ UNCHANGED <<used, old, tagged, cmd>>
    BY <1>6 DEF NodeWrite, RewriteTag
  <2>4. \A m \in old' : nodes'[<<0, m>>] = nodes[<<0, m>>] /\ nodes'[<<0, m>>] \notin Archivers
    BY <1>0, <2>3, FillKeepsNodes DEF GcInv
  <2>5. QED
    BY <1>0, <2>2, <2>3, <2>4, FillKeepsNodes, GcInvKept
<1>7. CASE Untag(a) \/ LinkTag(a)
  <2>1. \A b \in Archivers : ar'[b].name \in {ar[b].name, Absent}
    <3>1. ar' = [ar EXCEPT ![a].pc = "link"] \/ ar' = [ar EXCEPT ![a] = NoArchive]
      BY Zenon, <1>7 DEF Untag, LinkTag
    <3>2. QED
      BY <1>0, <3>1 DEF NoArchive, ArchiveState
  <2>2. \A b \in Archivers : ar'[b].name # Absent => ar'[b].name \in used
    BY <2>1 DEF GcInv
  <2>3. /\ \A n \in Names : nodes'[<<0, n>>] = nodes[<<0, n>>]
        /\ nodes'[<<0, Tag>>] \in {Absent, ar[a].name}
    BY <1>0, <1>7 DEF Untag, LinkTag
  <2>4. nodes'[<<0, Tag>>] \in Names => nodes'[<<0, Tag>>] \in used
    BY <2>3, ValuesAssumption DEF GcInv
  <2>5. UNCHANGED <<used, old, tagged, cmd>>
    BY <1>7 DEF Untag, LinkTag
  <2>6. \A m \in old' : nodes'[<<0, m>>] = nodes[<<0, m>>] /\ nodes'[<<0, m>>] \notin Archivers
    BY <1>0, <2>3, <2>5 DEF GcInv
  <2>7. QED
    BY <2>2, <2>3, <2>4, <2>5, <2>6, GcInvKept
<1>8. CASE OpenTag(a)
  <2> DEFINE t == nodes[<<0, Tag>>]
  <2>1. \A b \in Archivers : ar'[b].name \in {ar[b].name, Absent}
    BY <1>0, <1>8 DEF OpenTag, ArchiveState
  <2>2. \A b \in Archivers : ar'[b].name # Absent => ar'[b].name \in used
    BY <2>1 DEF GcInv
  <2>3. UNCHANGED <<used, tagged, cmd>> /\ old' = old \ {t}
    BY <1>8 DEF OpenTag
  <2>4. CASE t \in Names
    <3>1. Target(<<0, Tag>>) = <<0, t>> /\ <<0, t>> \in Path
      BY <1>0, <2>4 DEF Target
    <3>2. /\ \A m \in Names \cup {Tag} : m # t => nodes'[<<0, m>>] = nodes[<<0, m>>]
          /\ nodes'[<<0, t>>] = a
      BY <1>0, <1>8, <3>1 DEF OpenTag
    <3>3. t \in used
      BY <2>4 DEF GcInv
    <3>4. nodes'[<<0, Tag>>] \in Names => nodes'[<<0, Tag>>] \in used
      BY <1>0, <2>4, <3>2, <3>3
    <3>5. \A m \in old' : nodes'[<<0, m>>] = nodes[<<0, m>>] /\ nodes'[<<0, m>>] \notin Archivers
      BY <1>0, <2>3, <3>2 DEF GcInv
    <3>6. \A m \in Names : nodes'[<<0, m>>] # Absent => nodes[<<0, m>>] # Absent \/ m \in used'
      BY <2>3, <3>2, <3>3
    <3>7. QED
      BY <2>2, <2>3, <3>4, <3>5, <3>6, GcInvKept
  <2>5. CASE t \notin Names
    <3>1. Target(<<0, Tag>>) = <<0, Tag>>
      BY <2>5 DEF Target
    <3>2. /\ \A m \in Names : nodes'[<<0, m>>] = nodes[<<0, m>>]
          /\ nodes'[<<0, Tag>>] = a
      BY <1>0, <1>8, <3>1 DEF OpenTag
    <3>3. \A m \in old' : nodes'[<<0, m>>] = nodes[<<0, m>>] /\ nodes'[<<0, m>>] \notin Archivers
      BY <1>0, <2>3, <3>2 DEF GcInv
    <3>4. nodes'[<<0, Tag>>] \notin Names
      BY <1>0, <3>2
    <3>5. QED
      BY <2>2, <2>3, <3>2, <3>3, <3>4, GcInvKept
  <2>6. QED
    BY <2>4, <2>5
<1>9. QED
  BY <1>1, <1>2, <1>3, <1>4, <1>5, <1>6, <1>7, <1>8 DEF Archive
\* So do the steps gc and fsck share: gc's listing of the nodes has all the old
\* ones, and what it misses is no node any more.
LEMMA EnumerateGcInv ==
    ASSUME TypeOK, GcInv, NEW c \in Cmd, Enumerate(c)
    PROVE  GcInv'
<1> USE DEF disk, gcState, ghost
<1>0. /\ cmd \in [Cmd -> CmdState] /\ "gc" \in Cmd /\ cmd["gc"] \in CmdState
      /\ Entries \cap Archivers = {} /\ Absent \notin Entries
      /\ old \subseteq Names /\ \A n \in Names : <<0, n>> \in Path
  BY ValuesAssumption, BoundsAssumption DEF TypeOK, Hash, Cmd, Path
<1>1. CASE c # "gc"
  <2>1. cmd'["gc"] = cmd["gc"]
    BY <1>0, <1>1 DEF Enumerate, Parse, ListCas, TrashBit, SetBitAgain, Missed, ListNodes,
                      WalkCutShort
  <2>2. UNCHANGED <<nodes, used, old, tagged, ar>>
    BY <1>1 DEF Enumerate, Parse, ListCas, TrashBit, SetBitAgain, Missed, ListNodes,
                WalkCutShort, TrySetFsckBit, SetFsckBit
  <2>3. QED
    BY <2>1, <2>2, GcInvFrame
<1>2. CASE c = "gc" /\ Parse(c)
  <2>1. cmd'["gc"].pc = "list" /\ UNCHANGED <<nodes, used, ar>>
        /\ old' = {n \in Names : nodes[<<0, n>>] \in Entries}
    BY <1>0, <1>2 DEF Parse, CmdState
  <2>2. \A n \in old' : n \in used' /\ nodes'[<<0, n>>] \notin Archivers
    BY <1>0, <2>1 DEF GcInv
  <2>3. QED
    BY <2>1, <2>2 DEF GcInv
<1>3. CASE c = "gc" /\ (ListCas(c) \/ TrashBit(c) \/ SetBitAgain(c))
  <2>1. cmd'["gc"].pc \in {"cas", "setbit"}
    BY <1>0, <1>3 DEF ListCas, TrashBit, SetBitAgain, CmdState
  <2>2. UNCHANGED <<nodes, used, old, ar>>
    BY <1>3 DEF ListCas, TrashBit, SetBitAgain, TrySetFsckBit, SetFsckBit
  <2>3. QED
    BY <2>1, <2>2 DEF GcInv
<1>4. CASE c = "gc" /\ ListNodes(c)
  <2>1. cmd'["gc"].pc = "nodes" /\ cmd'["gc"].due = NodeFiles
    BY <1>0, <1>4 DEF ListNodes, CmdState
  <2>2. UNCHANGED <<nodes, used, old, tagged, ar>>
    BY <1>4 DEF ListNodes
  <2>3. \A n \in old : nodes[<<0, n>>] \in Entries => <<0, n>> \in NodeFiles
    BY <1>0 DEF NodeFiles
  <2>4. QED
    BY <2>1, <2>2, <2>3 DEF GcInv
<1>5. CASE c = "gc" /\ Missed(c)
  <2>1. UNCHANGED <<nodes, used, old, tagged, ar>>
    BY <1>5 DEF Missed
  <2>2. CASE cmd["gc"].pc = "cas"
    <3>1. cmd'["gc"].pc = "cas"
      BY <1>0, <1>5, <2>2 DEF Missed, CmdState
    <3>2. QED
      BY <2>1, <3>1 DEF GcInv
  <2>3. CASE cmd["gc"].pc = "nodes"
    <3>1. PICK p \in cmd["gc"].due \ NodeFiles : cmd' = [cmd EXCEPT !["gc"].due = @ \ {p}]
      BY <1>5, <2>3 DEF Missed
    <3>2. cmd'["gc"].pc = "nodes" /\ cmd'["gc"].due = cmd["gc"].due \ {p}
      BY <1>0, <2>3, <3>1 DEF CmdState
    <3>3. \A n \in old : nodes[<<0, n>>] \in Entries => <<0, n>> # p
      BY <1>0, <3>1 DEF NodeFiles
    <3>4. QED
      BY <2>1, <2>3, <3>2, <3>3 DEF GcInv
  <2>4. QED
    BY <1>5, <2>2, <2>3 DEF Missed
<1>6. CASE c = "gc" /\ WalkCutShort(c)
  BY <1>6, GcReturnsInv DEF WalkCutShort
<1>7. QED
  BY <1>1, <1>2, <1>3, <1>4, <1>5, <1>6 DEF Enumerate

\* gc itself: a node is no longer due only once its objects are tagged.
LEMMA GcGcInv ==
    ASSUME TypeOK, GcInv, Gc
    PROVE  GcInv'
<1> USE DEF disk, gcState, ghost
<1>0. cmd \in [Cmd -> CmdState] /\ "gc" \in Cmd /\ cmd["gc"] \in CmdState
  BY DEF TypeOK, Cmd
<1>1. ASSUME NEW h \in Hash, GcSeesObject(h) PROVE GcInv'
  <2>1. cmd'["gc"].pc = "cas" /\ UNCHANGED <<nodes, used, old, ar>>
    BY <1>0, <1>1, VisitedType DEF GcSeesObject
  <2>2. QED
    BY <2>1 DEF GcInv
<1>2. ASSUME NEW h \in Hash, GcRemoves(h) PROVE GcInv'
  <2>1. CASE cas[h] # Absent
    BY <1>2, <2>1, GcInvFrame DEF GcRemoves
  <2>2. CASE cas[h] = Absent
    BY <1>2, <2>2, GcReturnsInv DEF GcRemoves, TrySetFsckBit, SetFsckBit
  <2>3. QED
    BY <2>1, <2>2
<1>3. ASSUME NEW p \in Path, GcReadsNode(p) PROVE GcInv'
  <2>1. /\ cmd["gc"].pc = "nodes" /\ cmd'["gc"].pc = "nodes"
        /\ cmd'["gc"].due = cmd["gc"].due \ {p}
    BY <1>0, <1>3, VisitedType DEF GcReadsNode
  <2>2. UNCHANGED <<nodes, used, old, ar>> /\ tagged \subseteq tagged'
    BY <1>3 DEF GcReadsNode
  <2>3. ASSUME NEW n \in old, nodes[<<0, n>>] \in Entries, p = <<0, n>>
        PROVE  Closure(nodes[<<0, n>>]) \subseteq tagged'
    <3>1. EntryOf(p) = nodes[<<0, n>>]
      BY <2>3, ValuesAssumption DEF EntryOf, Target, Hash
    <3>2. QED
      BY <1>3, <3>1 DEF GcReadsNode, Closure
  <2>4. ASSUME NEW n \in old', nodes'[<<0, n>>] \in Entries
        PROVE  \/ <<0, n>> \in cmd'["gc"].due
               \/ Closure(nodes'[<<0, n>>]) \subseteq tagged'
    <3>1. CASE p = <<0, n>>
      BY <2>2, <2>3, <2>4, <3>1
    <3>2. CASE p # <<0, n>>
      <4>1. <<0, n>> \in cmd["gc"].due \/ Closure(nodes[<<0, n>>]) \subseteq tagged
        BY <2>1, <2>2, <2>4 DEF GcInv
      <4>2. QED
        BY <2>1, <2>2, <3>2, <4>1
    <3>3. QED
      BY <3>1, <3>2
  <2>5. QED
    BY <2>1, <2>2, <2>4 DEF GcInv
<1>4. ASSUME NEW p \in Path, GcMeetsBadNode(p) PROVE GcInv'
  BY <1>4, GcReturnsInv DEF GcMeetsBadNode, TrySetFsckBit, SetFsckBit
<1>5. CASE GcNodesDone
  <2>1. /\ cmd["gc"].pc = "nodes" /\ cmd["gc"].due = {}
        /\ cmd'["gc"].pc = "remove" /\ cmd'["gc"].due = {}
    BY <1>0, <1>5 DEF GcNodesDone, CmdState
  <2>2. UNCHANGED <<nodes, used, old, tagged, ar>>
    BY <1>5 DEF GcNodesDone
  <2>3. QED
    BY <2>1, <2>2 DEF GcInv
<1>6. CASE GcEnds
  BY <1>6, GcReturnsInv DEF GcEnds
<1>7. QED
  BY <1>1, <1>2, <1>3, <1>4, <1>5, <1>6 DEF Gc
\* fsck moves nodes away, into the trash, and brings none back.
LEMMA FsckGcInv ==
    ASSUME TypeOK, GcInv, Fsck
    PROVE  GcInv'
<1> USE DEF disk, gcState, ghost
<1>0. /\ cmd \in [Cmd -> CmdState] /\ "gc" \in Cmd /\ "fsck" \in Cmd
      /\ old \subseteq Names /\ \A n \in Names \cup {Tag} : <<0, n>> \in Path
      /\ Absent \notin Archivers /\ Absent \notin Entries /\ Absent \notin Names
  BY ValuesAssumption, BoundsAssumption DEF TypeOK, Cmd, Path, Hash
<1>1. ASSUME NEW h \in Hash, FsckChecksObject(h) \/ FsckCannotOpen(h) \/ FsckSkipsPrefix(h)
      PROVE  GcInv'
  <2>1. cmd'["gc"] = cmd["gc"]
    BY <1>0, <1>1, VisitedType DEF FsckChecksObject, FsckCannotOpen, FsckSkipsPrefix, FsckAborts
  <2>2. UNCHANGED <<nodes, used, old, tagged, ar>>
    BY <1>1 DEF FsckChecksObject, FsckCannotOpen, FsckSkipsPrefix, TrySetFsckBit, SetFsckBit
  <2>3. QED
    BY <2>1, <2>2, GcInvFrame
<1>2. ASSUME NEW p \in Path, FsckKeepsNode(p) PROVE GcInv'
  <2>1. cmd'["gc"] = cmd["gc"]
    BY <1>0, <1>2, VisitedType DEF FsckKeepsNode
  <2>2. QED
    BY <1>2, <2>1, GcInvFrame DEF FsckKeepsNode
<1>3. ASSUME NEW p \in Path, FsckTrashesNode(p) PROVE GcInv'
  <2>1. cmd'["gc"] = cmd["gc"] /\ UNCHANGED <<used, old, tagged, ar>>
    BY <1>0, <1>3, VisitedType DEF FsckTrashesNode
  <2>2. \A n \in Names \cup {Tag} : nodes'[<<0, n>>] \in {nodes[<<0, n>>], Absent}
    <3>1. \A n \in Names \cup {Tag} : <<p[1] + 1, p[2]>> # <<0, n>>
      BY DEF Path
    <3>2. QED
      BY <1>0, <1>3, <3>1 DEF FsckTrashesNode, TypeOK
  <2>3. nodes'[<<0, Tag>>] \in Names => nodes'[<<0, Tag>>] \in used'
    BY <1>0, <2>1, <2>2 DEF GcInv
  <2>4. \A a \in Archivers : ar'[a].name # Absent => ar'[a].name \in used'
    BY <2>1 DEF GcInv
  <2>5. \A n \in old' : /\ nodes'[<<0, n>>] \notin Archivers
                        /\ nodes'[<<0, n>>] \in Entries => nodes'[<<0, n>>] = nodes[<<0, n>>]
    BY <1>0, <2>1, <2>2 DEF GcInv
  <2>6. QED
    BY <2>1, <2>2, <2>3, <2>4, <2>5, GcInvKept
<1>4. CASE FsckTrashesObject \/ FsckEnds
  <2>1. cmd'["gc"] = cmd["gc"]
    BY <1>0, <1>4 DEF FsckTrashesObject, FsckEnds, FsckAborts
  <2>2. UNCHANGED <<nodes, used, old, tagged, ar>>
    BY <1>4 DEF FsckTrashesObject, FsckEnds
  <2>3. QED
    BY <2>1, <2>2, GcInvFrame
<1>5. QED
  BY <1>1, <1>2, <1>3, <1>4 DEF Fsck

\* So do deletion and corruption; a killed archive leaves a node without content.
LEMMA EnvironmentGcInv ==
    ASSUME TypeOK, GcInv, Environment
    PROVE  GcInv'
<1> USE DEF disk, gcState, ghost
<1>0. /\ cmd \in [Cmd -> CmdState] /\ "gc" \in Cmd /\ "fsck" \in Cmd
      /\ old \subseteq Names /\ \A n \in Names \cup {Tag} : <<0, n>> \in Path
      /\ {Absent, Torn} \cap (Archivers \cup Entries \cup Names) = {}
      /\ ar \in [Archivers -> ArchiveState]
  BY SMTT(30), ValuesAssumption, BoundsAssumption DEF TypeOK, Cmd, Path, Hash
<1>1. ASSUME NEW q \in Path, NEW v \in {Absent, Torn}, nodes[q] # Absent,
             nodes' = [nodes EXCEPT ![q] = v], UNCHANGED <<used, old, tagged, ar, cmd>>
      PROVE  GcInv'
  <2>1. \A n \in Names \cup {Tag} :
           \/ nodes'[<<0, n>>] = nodes[<<0, n>>]
           \/ nodes'[<<0, n>>] \in {Absent, Torn} /\ nodes[<<0, n>>] # Absent
    BY <1>0, <1>1 DEF TypeOK
  <2>2. nodes'[<<0, Tag>>] \in Names => nodes'[<<0, Tag>>] \in used'
    BY SMTT(30), <1>0, <1>1, <2>1 DEF GcInv
  <2>3. \A a \in Archivers : ar'[a].name # Absent => ar'[a].name \in used'
    BY <1>1 DEF GcInv
  <2>4. \A n \in old' : /\ nodes'[<<0, n>>] \notin Archivers
                        /\ nodes'[<<0, n>>] \in Entries => nodes'[<<0, n>>] = nodes[<<0, n>>]
    BY <1>0, <1>1, <2>1 DEF GcInv
  <2>5. QED
    BY <1>1, <2>1, <2>2, <2>3, <2>4, GcInvKept
<1>2. ASSUME NEW n \in Names, DeleteNode(n) PROVE GcInv'
  BY <1>0, <1>1, <1>2 DEF DeleteNode
<1>3. ASSUME NEW p \in Path, ReaderSetsBit(p) PROVE GcInv'
  BY <1>3, GcInvFrame DEF ReaderSetsBit, SetFsckBit
<1>4. ASSUME NEW p \in Path, CorruptNode(p) PROVE GcInv'
  BY <1>0, <1>1, <1>4 DEF CorruptNode, Fault
<1>5. ASSUME NEW a \in Archivers, ArchiveKilled(a) PROVE GcInv'
  <2>1. \A b \in Archivers : ar'[b].name \in {ar[b].name, Absent}
    BY <1>0, <1>5 DEF ArchiveKilled, NoArchive
  <2>2. \A b \in Archivers : ar'[b].name # Absent => ar'[b].name \in used
    BY <2>1 DEF GcInv
  <2>3. nodes' = Fill(nodes, a, Torn) /\ UNCHANGED <<used, old, tagged, cmd>>
    BY <1>5 DEF ArchiveKilled, Fault
  <2>4. \A m \in old' : nodes'[<<0, m>>] = nodes[<<0, m>>] /\ nodes'[<<0, m>>] \notin Archivers
    BY <2>3, FillKeepsNodes DEF GcInv
  <2>5. QED
    BY <2>2, <2>3, <2>4, FillKeepsNodes, GcInvKept
<1>6. ASSUME NEW c \in Cmd, CommandKilled(c) PROVE GcInv'
  <2>1. CASE c = "gc"
    BY <1>6, <2>1, GcReturnsInv DEF CommandKilled, Fault
  <2>2. CASE c # "gc"
    <3>1. cmd'["gc"] = cmd["gc"]
      BY <1>0, <1>6, <2>2 DEF CommandKilled, FsckAborts
    <3>2. QED
      BY <1>6, <2>2, <3>1, GcInvFrame DEF CommandKilled, Fault
  <2>3. QED
    BY <2>1, <2>2
<1>7. ASSUME NEW h \in Hash, CorruptObject(h) PROVE GcInv'
  BY <1>7, GcInvFrame DEF CorruptObject, Fault
<1>8. QED
  BY <1>2, <1>3, <1>4, <1>5, <1>6, <1>7 DEF Environment

\* In the first state nothing was taken, listed or tagged.
LEMMA InitGcInv == Init => GcInv
<1> SUFFICES ASSUME Init PROVE GcInv
  OBVIOUS
<1>1. \A n \in Names \cup {Tag} : nodes[<<0, n>>] = Absent
  BY BoundsAssumption DEF Init, Path
<1>2. (\A a \in Archivers : ar[a].name = Absent) /\ cmd["gc"].pc = "idle" /\ old = {}
  BY DEF Init, NoArchive, NoCmd, Cmd
<1>3. QED
  BY <1>1, <1>2, ValuesAssumption DEF GcInv

\* GcInv is an invariant of the store.
THEOREM GcInvariant == Spec => []GcInv
<1>1. TypeOK /\ GcInv /\ [Next]_vars => GcInv'
  <2> SUFFICES ASSUME TypeOK, GcInv, [Next]_vars PROVE GcInv'
    OBVIOUS
  <2>1. CASE UNCHANGED vars
    BY <2>1, GcInvFrame DEF vars, disk, gcState, ghost
  <2>2. CASE Rest
    BY <2>2, GcInvFrame DEF Rest, vars, disk, gcState, ghost
  <2>3. QED
    BY <2>1, <2>2, ArchiveGcInv, EnumerateGcInv, GcGcInv, FsckGcInv, EnvironmentGcInv DEF Next
<1>2. QED
  BY <1>1, InitGcInv, TypeCorrect, PTL DEF Spec
\* Only gc's last loop takes an object out of both gc's map and cas/, and it
\* takes no tagged one.
LEMMA OnlyGcRemoves ==
    ASSUME TypeOK, [Next]_vars,
           NEW h \in entries \ entries', cas[h] # Absent, cas'[h] = Absent
    PROVE  cmd["gc"].pc = "remove" /\ h \notin tagged
<1> USE DEF disk, gcState, ghost
<1>1. ASSUME NEW a \in Archivers, Archive(a) PROVE FALSE
  BY <1>1 DEF Archive, ArchiveStart, AddEntry, AddFails, CopyEnds, CopyOfChangedFile, CopyFails,
              Copied, NodeCreate, NodeWrite, Untag, LinkTag, OpenTag, RewriteTag
<1>2. ASSUME NEW c \in Cmd, Enumerate(c) PROVE FALSE
  BY <1>2 DEF Enumerate, Parse, ListCas, TrashBit, SetBitAgain, Missed, ListNodes, WalkCutShort
<1>3. CASE Fsck
  BY <1>3 DEF Fsck, FsckChecksObject, FsckCannotOpen, FsckSkipsPrefix, FsckKeepsNode,
              FsckTrashesNode, FsckTrashesObject, FsckEnds
<1>4. CASE Environment
  BY <1>4 DEF Environment, DeleteNode, ReaderSetsBit, ArchiveKilled, CommandKilled,
              CorruptObject, CorruptNode
<1>5. CASE Gc
  <2>1. ASSUME NEW g \in Hash, GcRemoves(g) PROVE cmd["gc"].pc = "remove" /\ h \notin tagged
    BY <2>1 DEF GcRemoves, MoveToTrash, TypeOK
  <2>2. QED
    BY <1>5, <2>1 DEF Gc, GcSeesObject, GcReadsNode, GcMeetsBadNode, GcNodesDone, GcEnds
<1>6. CASE Rest \/ UNCHANGED vars
  BY <1>6 DEF Rest, vars
<1>7. QED
  BY <1>1, <1>2, <1>3, <1>4, <1>5, <1>6 DEF Next

\* With archive, gc, fsck, deletion and faults interleaved in any way, gc never
\* takes an object from a backup recorded before gc started and still there.
THEOREM OldBackupsAreKept == Spec => GcKeepsOldBackups
<1> DEFINE Keeps ==
      \A h \in entries \ entries' : cas[h] # Absent /\ cas'[h] = Absent =>
          \A n \in old : nodes[<<0, n>>] \in Entries => h \notin Closure(nodes[<<0, n>>])
<1>1. TypeOK /\ GcInv /\ [Next]_vars => [Keeps]_vars
  <2> SUFFICES ASSUME TypeOK, GcInv, [Next]_vars,
                      NEW h \in entries \ entries', cas[h] # Absent, cas'[h] = Absent,
                      NEW n \in old, nodes[<<0, n>>] \in Entries
               PROVE  h \notin Closure(nodes[<<0, n>>])
    OBVIOUS
  <2>1. cmd["gc"].pc = "remove" /\ h \notin tagged
    BY OnlyGcRemoves
  <2>2. Closure(nodes[<<0, n>>]) \subseteq tagged
    BY <2>1 DEF GcInv
  <2>3. QED
    BY <2>1, <2>2
<1>2. QED
  BY <1>1, TypeCorrect, GcInvariant, PTL DEF Spec, GcKeepsOldBackups
=============================================================================
