----------------------- MODULE StoreRefinementProofs -----------------------
(***************************************************************************)
(* Module Store implements module BackupStore when gc and fsck run alone   *)
(* and there is no fault; and then gc never fails.                         *)
(***************************************************************************)
EXTENDS StoreSoloProofs

\* Archives may overlap, gc and fsck run alone, and there is no fault.
Orderly == Overlap # "all" /\ Faults = {}

\* The objects of BackupStore.
Objects == {h \in Hash : cas[h] = h \/ cas[h] \in Archivers}

-----------------------------------------------------------------------------
(* Who writes to nodes/ *)

\* An archive that is writing a node or a tag has one file open under nodes/, and the
\* others have none.
OpenInv ==
    \A p, q \in Path : nodes[p] \in Archivers =>
        /\ ar[nodes[p]].pc \in {"write", "rewrite"}
        /\ nodes[q] = nodes[p] => q = p

\* A step of archive a keeps OpenInv if afterwards a has no file open under nodes/.
LEMMA OpenClosed ==
    ASSUME OpenInv, NEW a \in Archivers, \A b \in Archivers \ {a} : ar'[b] = ar[b],
           \A p \in Path : nodes'[p] \in Archivers => nodes'[p] = nodes[p] /\ nodes[p] # a
    PROVE  OpenInv'
BY DEF OpenInv

\* And if it opens a single file there.
LEMMA OpenOpened ==
    ASSUME TypeOK, OpenInv, NEW a \in Archivers, \A b \in Archivers \ {a} : ar'[b] = ar[b],
           ar[a].pc \notin {"write", "rewrite"}, ar'[a].pc \in {"write", "rewrite"},
           NEW t \in Path, nodes' = [nodes EXCEPT ![t] = a]
    PROVE  OpenInv'
<1>1. \A p \in Path : nodes'[p] = IF p = t THEN a ELSE nodes[p]
  BY DEF TypeOK
<1>2. \A p \in Path : nodes[p] # a
  BY DEF OpenInv
<1>3. QED
  BY <1>1, <1>2 DEF OpenInv

\* OpenInv is kept with everything running at once.
LEMMA OpenStep ==
    ASSUME TypeOK, OpenInv, [Next]_vars
    PROVE  OpenInv'
<1> USE DEF disk, gcState, ghost
<1>0. /\ nodes \in [Path -> NodeContent \cup {Absent}] /\ ar \in [Archivers -> ArchiveState]
      /\ {Absent, Torn} \cap Archivers = {} /\ Entries \cap Archivers = {}
      /\ Names \cap Archivers = {}
      /\ \A n \in Names \cup {Tag} : <<0, n>> \in Path
  BY Basics, ValuesAssumption DEF TypeOK, Hash
<1>1. ASSUME UNCHANGED ar, \A p \in Path : nodes'[p] \in Archivers => nodes'[p] = nodes[p]
      PROVE  OpenInv'
  BY <1>1 DEF OpenInv
<1>2. ASSUME UNCHANGED ar, NEW t, NEW v, v \notin Archivers, nodes' = [nodes EXCEPT ![t] = v]
      PROVE  OpenInv'
  BY <1>0, <1>1, <1>2
<1>3. ASSUME NEW a \in Archivers, \A b \in Archivers \ {a} : ar'[b] = ar[b],
             NEW v, v \notin Archivers, nodes' = Fill(nodes, a, v)
      PROVE  OpenInv'
  <2>1. \A p \in Path : nodes'[p] = IF nodes[p] = a THEN v ELSE nodes[p]
    BY <1>0, <1>3 DEF Fill
  <2>2. QED
    BY <1>3, <2>1, OpenClosed
<1>4. ASSUME NEW a \in Archivers, \A b \in Archivers \ {a} : ar'[b] = ar[b],
             ar[a].pc \notin {"write", "rewrite"},
             \A p \in Path : nodes'[p] \in Archivers => nodes'[p] = nodes[p]
      PROVE  OpenInv'
  <2>1. \A p \in Path : nodes[p] # a
    BY <1>4 DEF OpenInv
  <2>2. QED
    BY <1>4, <2>1, OpenClosed
<1>5. ASSUME NEW a \in Archivers, Archive(a) PROVE OpenInv'
  <2>0. (\A b \in Archivers \ {a} : ar'[b] = ar[b]) /\ ar[a] \in ArchiveState
    BY <1>0, <1>5, ArchiveFrame
  <2>1. ASSUME NEW n \in Names, NodeCreate(a, n) PROVE OpenInv'
    <3>1. ar[a].pc = "node" /\ ar'[a].pc = "write" /\ nodes' = [nodes EXCEPT ![<<0, n>>] = a]
      BY <1>0, <2>0, <2>1 DEF NodeCreate, ArchiveState
    <3>2. QED
      BY <1>0, <2>0, <3>1, OpenOpened
  <2>2. CASE OpenTag(a)
    <3>1. ar[a].pc = "link" /\ ar'[a].pc = "rewrite"
          /\ nodes' = [nodes EXCEPT ![Target(<<0, Tag>>)] = a]
      BY <1>0, <2>0, <2>2 DEF OpenTag, ArchiveState
    <3>2. PICK t \in Path : t = Target(<<0, Tag>>)
      BY <1>0, TargetType
    <3>3. QED
      BY <2>0, <3>1, <3>2, OpenOpened
  <2>3. CASE NodeWrite(a) \/ RewriteTag(a)
    <3>1. nodes' = Fill(nodes, a, ar[a].ent)
      BY <2>3 DEF NodeWrite, RewriteTag
    <3>2. ar[a].ent \notin Archivers
      BY <1>0, <2>0 DEF ArchiveState
    <3>3. QED
      BY <1>3, <2>0, <3>1, <3>2
  <2>4. CASE Untag(a)
    <3>1. ar[a].pc = "untag" /\ nodes' = [nodes EXCEPT ![<<0, Tag>>] = Absent]
      BY <2>4 DEF Untag
    <3>2. QED
      BY <1>0, <1>4, <2>0, <3>1
  <2>5. CASE LinkTag(a)
    <3>1. ar[a].pc = "link" /\ nodes' = [nodes EXCEPT ![<<0, Tag>>] = ar[a].name]
      BY <2>5 DEF LinkTag
    <3>2. ar[a].name \notin Archivers
      BY <1>0, <2>0 DEF ArchiveState
    <3>3. QED
      BY <1>0, <1>4, <2>0, <3>1, <3>2
  <2>6. ASSUME \/ \E e \in Entries : ArchiveStart(a, e)
               \/ \E h \in Hash : AddEntry(a, h) \/ AddFails(a, h)
               \/ CopyEnds(a) \/ CopyOfChangedFile(a) \/ CopyFails(a)
        PROVE  UNCHANGED nodes /\ ar[a].pc \in {"idle", "add", "copy"}
    BY <2>6 DEF ArchiveStart, AddEntry, AddFails, CopyEnds, CopyOfChangedFile, CopyFails, Copied
  <2>7. QED
    BY <1>4, <1>5, <2>0, <2>1, <2>2, <2>3, <2>4, <2>5, <2>6 DEF Archive
<1>6. ASSUME NEW a \in Archivers, ArchiveKilled(a) PROVE OpenInv'
  <2>1. (\A b \in Archivers \ {a} : ar'[b] = ar[b]) /\ nodes' = Fill(nodes, a, Torn)
    BY <1>0, <1>6 DEF ArchiveKilled
  <2>2. QED
    BY <1>0, <1>3, <2>1
<1>7. ASSUME NEW c \in Cmd, Enumerate(c) PROVE UNCHANGED <<nodes, ar>>
  BY <1>7 DEF Enumerate, Parse, ListCas, TrashBit, SetBitAgain, Missed, ListNodes, WalkCutShort
<1>8. Gc => UNCHANGED <<nodes, ar>>
  BY DEF Gc, GcSeesObject, GcReadsNode, GcMeetsBadNode, GcNodesDone, GcRemoves, GcEnds
<1>9. ASSUME NEW p \in Path, FsckTrashesNode(p) PROVE OpenInv'
  <2>1. UNCHANGED ar
    BY <1>9 DEF FsckTrashesNode
  <2>2. CASE nodes' = nodes
    BY <1>1, <2>1, <2>2
  <2>3. CASE nodes' # nodes
    <3>1. p[1] \in 0..MaxDepth /\ p[2] \in Names \cup {Tag} /\ p = <<p[1], p[2]>>
      BY DEF Path
    <3>2. p[1] # MaxDepth
          /\ nodes' = [nodes EXCEPT ![p] = Absent, ![<<p[1] + 1, p[2]>>] = nodes[p]]
      BY <1>9, <2>3 DEF FsckTrashesNode
    <3>3. PICK t \in Path : t = <<p[1] + 1, p[2]>> /\ t # p
      BY <3>1, <3>2, BoundsAssumption DEF Path
    <3>4. \A q \in Path : nodes'[q] = IF q = t THEN nodes[p] ELSE IF q = p THEN Absent ELSE nodes[q]
      BY <1>0, <3>2, <3>3
    <3>5. QED
      BY <1>0, <2>1, <3>3, <3>4 DEF OpenInv
  <2>4. QED
    BY <2>2, <2>3
<1>10. CASE Fsck
  <2>1. UNCHANGED <<nodes, ar>> \/ \E p \in Path : FsckTrashesNode(p)
    BY <1>10 DEF Fsck, FsckChecksObject, FsckCannotOpen, FsckSkipsPrefix, FsckKeepsNode,
                 FsckTrashesObject, FsckEnds
  <2>2. QED
    BY <1>1, <1>9, <2>1
<1>11. CASE Environment
  <2>1. \/ UNCHANGED <<nodes, ar>> \/ \E a \in Archivers : ArchiveKilled(a)
        \/ UNCHANGED ar /\ \E t, v : v \in {Absent, Torn} /\ nodes' = [nodes EXCEPT ![t] = v]
    BY <1>11 DEF Environment, DeleteNode, ReaderSetsBit, CommandKilled, CorruptObject, CorruptNode
  <2>2. QED
    BY <1>0, <1>1, <1>2, <1>6, <2>1
<1>12. QED
  BY <1>1, <1>5, <1>7, <1>8, <1>10, <1>11 DEF Next, Rest, vars

-----------------------------------------------------------------------------
(* What the archives and the nodes rest on *)

\* What an archive has done so far: it stores its tree last, and has nothing left to
\* store when it makes the node.
Steady(r) == r.pc # "idle" =>
    /\ r.ent \in Entries /\ r.todo \subseteq Closure(r.ent)
    /\ r.pc = "add" => r.ent \in r.todo
    /\ r.pc = "copy" => IF r.cur = r.ent THEN r.todo = {} ELSE r.ent \in r.todo
    /\ r.pc \notin {"add", "copy"} => r.todo = {}

\* Each archive is in such a state and no object is corrupted; what an archive has
\* stored is there; every entry that a file under nodes/ names is there with all it
\* refers to.
BackedInv ==
    /\ \A a \in Archivers : Steady(ar[a])
    /\ \A h \in Hash : cas[h] # Torn
    /\ \A a \in Archivers : ar[a].pc # "idle" => Closure(ar[a].ent) \ ar[a].todo \subseteq Objects
    /\ \A p \in Path : nodes[p] \in Entries => Closure(nodes[p]) \subseteq Objects

\* Without faults there are fewer steps.
LEMMA FaultFree ==
    ASSUME Faults = {}
    PROVE  /\ \A a \in Archivers : \A h \in Hash : ~AddFails(a, h)
           /\ \A a \in Archivers : ~CopyOfChangedFile(a) /\ ~CopyFails(a) /\ ~ArchiveKilled(a)
           /\ \A c \in Cmd : ~CommandKilled(c)
           /\ \A h \in Hash : ~CorruptObject(h)
           /\ \A p \in Path : ~CorruptNode(p)
<1>1. \A kind : ~Fault(kind)
  BY DEF Fault
<1>2. QED
  BY <1>1 DEF AddFails, CopyOfChangedFile, CopyFails, ArchiveKilled, CommandKilled,
              CorruptObject, CorruptNode

\* An object appears when an archive creates its file, and disappears only when gc
\* moves it, and then no archive runs and no node leads to it.
LEMMA ObjectsStep ==
    ASSUME TypeOK, Idle, Alone, GcInv, MarkInv, WritersInv, BadInv, Orderly, [Next]_vars
    PROVE  \/ Objects' = Objects /\ UNCHANGED cas
           \/ Objects' = Objects /\ UNCHANGED nodes
           \/ \E a \in Archivers, h \in Hash : /\ AddEntry(a, h) /\ cas[h] = Absent
                                               /\ Objects' = Objects \cup {h} /\ UNCHANGED nodes
           \/ \E h \in Hash : /\ Objects' = Objects \ {h} /\ h \notin Referenced
                              /\ \A a \in Archivers : ar[a].pc = "idle"
                              /\ UNCHANGED <<nodes, ar>>
<1> USE DEF disk, gcState, ghost
<1>0. /\ cas \in [Hash -> Content \cup {Absent}] /\ Hash \cap Archivers = {}
      /\ Absent \notin Hash /\ Absent \notin Archivers /\ Cmd = {"gc", "fsck"}
      /\ Overlap # "all" /\ Faults = {}
  BY ValuesAssumption DEF TypeOK, Cmd, Orderly
<1>1. ASSUME UNCHANGED cas PROVE Objects' = Objects
  BY <1>1 DEF Objects
<1>2. ASSUME NEW a \in Archivers, NEW h \in Hash, AddEntry(a, h), cas[h] = Absent
      PROVE  Objects' = Objects \cup {h} /\ UNCHANGED nodes
  <2>1. cas' = [cas EXCEPT ![h] = a] /\ UNCHANGED nodes
    BY <1>2 DEF AddEntry
  <2>2. QED
    BY <1>0, <2>1 DEF Objects
<1>3. ASSUME NEW a \in Archivers, CopyEnds(a) PROVE Objects' = Objects /\ UNCHANGED nodes
  <2>1. cas' = Fill(cas, a, ar[a].cur) /\ UNCHANGED nodes
    BY <1>3 DEF CopyEnds, Copied
  <2>2. \A x \in Hash : cas'[x] = IF cas[x] = a THEN ar[a].cur ELSE cas[x]
    BY <1>0, <2>1 DEF Fill
  <2>3. \A x \in Hash : cas[x] = a => ar[a].cur = x
    BY DEF WritersInv
  <2>4. QED
    BY <2>1, <2>2, <2>3 DEF Objects
<1>4. ASSUME NEW a \in Archivers, Archive(a)
      PROVE  \/ UNCHANGED cas \/ CopyEnds(a)
             \/ \E h \in Hash : AddEntry(a, h) /\ cas[h] = Absent
  <2>1. ASSUME NEW h \in Hash, AddEntry(a, h), cas[h] # Absent PROVE UNCHANGED cas
    BY <2>1 DEF AddEntry
  <2>2. QED
    BY <1>0, <1>4, <2>1, FaultFree DEF Archive, ArchiveStart, NodeCreate, NodeWrite, Untag, LinkTag,
                                       OpenTag, RewriteTag
<1>5. ASSUME NEW h \in Hash, GcRemoves(h), ~UNCHANGED cas
      PROVE  /\ Objects' = Objects \ {h} /\ h \notin Referenced
             /\ \A a \in Archivers : ar[a].pc = "idle"
             /\ UNCHANGED <<nodes, ar>>
  <2>1. /\ cas' = [cas EXCEPT ![h] = Absent] /\ UNCHANGED <<nodes, ar>>
        /\ cmd["gc"].pc = "remove" /\ h \notin tagged
    BY <1>5 DEF GcRemoves, MoveToTrash
  <2>2. Objects' = Objects \ {h}
    BY <1>0, <2>1 DEF Objects
  <2>3. \A p \in Path : Readable(p) => Closure(EntryOf(p)) \subseteq tagged
    BY <2>1 DEF GcInv, MarkInv
  <2>4. h \notin Referenced
    BY <2>1, <2>3 DEF Referenced
  <2>5. \A a \in Archivers : ar[a].pc = "idle"
    BY <1>0, <2>1 DEF Alone, NoCommand
  <2>6. QED
    BY <2>1, <2>2, <2>4, <2>5
<1>6. Gc => UNCHANGED cas \/ \E h \in Hash : GcRemoves(h)
  BY DEF Gc, GcSeesObject, GcReadsNode, GcMeetsBadNode, GcNodesDone, GcEnds
<1>7. ASSUME FsckTrashesObject, ~UNCHANGED cas PROVE Objects' = Objects /\ UNCHANGED nodes
  <2>1. cas' = [cas EXCEPT ![bad] = Absent] /\ UNCHANGED nodes /\ cmd["fsck"].pc = "trash"
    BY <1>7 DEF FsckTrashesObject, MoveToTrash
  <2>2. \A a \in Archivers : ar[a].pc = "idle"
    BY <1>0, <2>1 DEF Alone, NoCommand
  <2>3. bad \in Hash /\ cas[bad] # bad /\ cas[bad] \notin Archivers
    BY <2>1, <2>2 DEF BadInv, WritersInv
  <2>4. QED
    BY <1>0, <2>1, <2>3 DEF Objects
<1>8. Fsck => UNCHANGED cas \/ FsckTrashesObject
  BY DEF Fsck, FsckChecksObject, FsckCannotOpen, FsckSkipsPrefix, FsckKeepsNode,
         FsckTrashesNode, FsckEnds
<1>9. ASSUME NEW c \in Cmd, Enumerate(c) PROVE UNCHANGED cas
  BY <1>9 DEF Enumerate, Parse, ListCas, TrashBit, SetBitAgain, Missed, ListNodes, WalkCutShort
<1>10. Environment => UNCHANGED cas
  BY <1>0, FaultFree DEF Environment, DeleteNode, ReaderSetsBit
<1>11. CASE \E a \in Archivers : Archive(a)
  BY <1>1, <1>2, <1>3, <1>4, <1>11
<1>12. CASE Gc
  BY <1>1, <1>5, <1>6, <1>12
<1>13. CASE Fsck
  BY <1>1, <1>7, <1>8, <1>13
<1>14. QED
  BY <1>1, <1>9, <1>10, <1>11, <1>12, <1>13 DEF Next, Rest, vars

\* An archive goes through its states in order.
LEMMA SteadyStep ==
    ASSUME TypeOK, WritersInv, Faults = {}, [Next]_vars, \A a \in Archivers : Steady(ar[a])
    PROVE  \A a \in Archivers : Steady(ar'[a])
<1> USE DEF disk, gcState, ghost
<1>0. /\ ar \in [Archivers -> ArchiveState] /\ Steady(NoArchive)
      /\ Absent \notin Hash /\ Refs \in [Entries -> SUBSET Data] /\ Cmd = {"gc", "fsck"}
  BY ValuesAssumption DEF TypeOK, Steady, NoArchive, Cmd
<1>1. ASSUME NEW a \in Archivers, Archive(a) PROVE Steady(ar'[a])
  <2>0. ar[a] \in ArchiveState /\ Steady(ar[a])
    BY <1>0
  <2>1. ASSUME NEW e \in Entries, ArchiveStart(a, e) PROVE Steady(ar'[a])
    <3>1. /\ ar'[a].pc = "add" /\ ar'[a].ent = e /\ ar'[a].todo = Refs[e] \cup {e}
      BY <1>0, <2>1 DEF ArchiveStart, NoArchive
    <3>2. QED
      BY <3>1 DEF Steady, Closure
  <2>2. ASSUME NEW h \in Hash, AddEntry(a, h) PROVE Steady(ar'[a])
    <3>1. /\ ar[a].pc = "add" /\ h \in ar[a].todo
          /\ h = ar[a].ent => ar[a].todo = {h}
      BY <2>2 DEF AddEntry
    <3>2. CASE cas[h] # Absent
      <4>1. /\ ar'[a].ent = ar[a].ent /\ ar'[a].todo = ar[a].todo \ {h}
            /\ ar'[a].pc = IF h = ar[a].ent THEN "node" ELSE "add"
        BY <1>0, <2>0, <2>2, <3>2 DEF AddEntry, ArchiveState
      <4>2. QED
        BY <2>0, <3>1, <4>1 DEF Steady
    <3>3. CASE cas[h] = Absent
      <4>1. /\ ar'[a].ent = ar[a].ent /\ ar'[a].todo = ar[a].todo \ {h}
            /\ ar'[a].pc = "copy" /\ ar'[a].cur = h
        BY <1>0, <2>0, <2>2, <3>3 DEF AddEntry, ArchiveState
      <4>2. QED
        BY <2>0, <3>1, <4>1 DEF Steady
    <3>4. QED
      BY <3>2, <3>3
  <2>3. CASE CopyEnds(a)
    <3>1. /\ ar[a].pc = "copy" /\ ar'[a].ent = ar[a].ent /\ ar'[a].todo = ar[a].todo
          /\ ar'[a].pc = IF ar[a].cur = ar[a].ent THEN "node" ELSE "add"
      BY <1>0, <2>0, <2>3 DEF CopyEnds, Copied, ArchiveState
    <3>2. QED
      BY <2>0, <3>1 DEF Steady
  <2>4. ASSUME NEW n \in Names, NodeCreate(a, n) PROVE Steady(ar'[a])
    <3>1. /\ ar[a].pc = "node" /\ ar'[a].ent = ar[a].ent /\ ar'[a].todo = ar[a].todo
          /\ ar'[a].pc = "write"
      BY <1>0, <2>0, <2>4 DEF NodeCreate, ArchiveState
    <3>2. QED
      BY <2>0, <3>1 DEF Steady
  <2>5. CASE NodeWrite(a) \/ Untag(a) \/ OpenTag(a)
    <3>1. ar[a].pc \in {"write", "untag", "link"}
      BY <2>5 DEF NodeWrite, Untag, OpenTag
    <3>2. PICK l \in {"untag", "link", "rewrite"} : ar' = [ar EXCEPT ![a].pc = l]
      BY <2>5 DEF NodeWrite, Untag, OpenTag
    <3>3. ar'[a].ent = ar[a].ent /\ ar'[a].todo = ar[a].todo /\ ar'[a].pc = l
      BY <1>0, <2>0, <3>2 DEF ArchiveState
    <3>4. QED
      BY <2>0, <3>1, <3>3 DEF Steady
  <2>6. CASE LinkTag(a) \/ RewriteTag(a)
    BY <1>0, <2>6 DEF LinkTag, RewriteTag
  <2>7. QED
    BY <1>1, <2>1, <2>2, <2>3, <2>4, <2>5, <2>6, FaultFree DEF Archive
<1>2. ASSUME NEW a \in Archivers, Archive(a) PROVE \A b \in Archivers : Steady(ar'[b])
  <2>1. \A b \in Archivers \ {a} : ar'[b] = ar[b]
    BY <1>2, ArchiveFrame
  <2>2. QED
    BY <1>1, <1>2, <2>1
<1>3. CASE ~\E a \in Archivers : Archive(a)
  <2>1. UNCHANGED ar
    BY <1>3, FaultFree, NobodyElseWrites
  <2>2. QED
    BY <2>1
<1>4. QED
  BY <1>2, <1>3

\* Without faults no object is ever corrupted.
LEMMA NothingTorn ==
    ASSUME TypeOK, WritersInv, Faults = {}, [Next]_vars, \A h \in Hash : cas[h] # Torn
    PROVE  \A h \in Hash : cas'[h] # Torn
<1> USE DEF disk, gcState, ghost
<1>0. /\ cas \in [Hash -> Content \cup {Absent}] /\ Torn \notin Hash /\ Torn \notin Archivers
      /\ Torn # Absent
  BY ValuesAssumption DEF TypeOK
<1>1. ASSUME NEW a \in Archivers, Archive(a) PROVE \A h \in Hash : cas'[h] # Torn
  <2>1. ASSUME NEW h \in Hash, AddEntry(a, h)
        PROVE  UNCHANGED cas \/ cas' = [cas EXCEPT ![h] = a]
    BY <2>1 DEF AddEntry
  <2>2. ASSUME CopyEnds(a) PROVE ar[a].cur \in Hash /\ cas' = Fill(cas, a, ar[a].cur)
    BY <2>2 DEF CopyEnds, Copied, WritersInv
  <2>3. ASSUME CopyEnds(a) PROVE \A h \in Hash : cas'[h] # Torn
    BY <1>0, <2>2, <2>3 DEF Fill
  <2>4. \/ UNCHANGED cas \/ CopyEnds(a) \/ \E h \in Hash : AddEntry(a, h)
    BY <1>1, FaultFree DEF Archive, ArchiveStart, NodeCreate, NodeWrite, Untag, LinkTag,
                           OpenTag, RewriteTag
  <2>5. QED
    BY <1>0, <2>1, <2>3, <2>4
<1>2. ASSUME NEW c \in Cmd, Enumerate(c) PROVE UNCHANGED cas
  BY <1>2 DEF Enumerate, Parse, ListCas, TrashBit, SetBitAgain, Missed, ListNodes, WalkCutShort
<1>3. Gc => UNCHANGED cas \/ \E h \in Hash : cas' = [cas EXCEPT ![h] = Absent]
  BY DEF Gc, GcSeesObject, GcReadsNode, GcMeetsBadNode, GcNodesDone, GcEnds, GcRemoves, MoveToTrash
<1>4. Fsck => UNCHANGED cas \/ cas' = [cas EXCEPT ![bad] = Absent]
  BY DEF Fsck, FsckChecksObject, FsckCannotOpen, FsckSkipsPrefix, FsckKeepsNode,
         FsckTrashesNode, FsckEnds, FsckTrashesObject, MoveToTrash
<1>5. Environment => UNCHANGED cas
  BY FaultFree DEF Environment, DeleteNode, ReaderSetsBit
<1>6. QED
  BY <1>0, <1>1, <1>2, <1>3, <1>4, <1>5 DEF Next, Rest, vars

\* What an archive has stored so far stays there.
LEMMA StoredStep ==
    ASSUME TypeOK, Idle, Alone, GcInv, MarkInv, WritersInv, BadInv, Orderly, BackedInv, [Next]_vars
    PROVE  \A a \in Archivers : ar'[a].pc # "idle" =>
               Closure(ar'[a].ent) \ ar'[a].todo \subseteq Objects'
<1> USE DEF disk, gcState, ghost
<1>0. /\ ar \in [Archivers -> ArchiveState] /\ cas \in [Hash -> Content \cup {Absent}]
      /\ NoArchive.pc = "idle"
  BY DEF TypeOK, NoArchive
<1>1. ASSUME NEW a \in Archivers, Archive(a)
      PROVE  /\ Objects \subseteq Objects'
             /\ ar'[a].pc # "idle" => Closure(ar'[a].ent) \ ar'[a].todo \subseteq Objects'
  <2>0. ar[a] \in ArchiveState /\ Objects \subseteq Objects'
    <3>1. CASE ar[a].pc # "idle"
      BY <1>0, <3>1, ObjectsStep DEF Objects
    <3>2. CASE ar[a].pc = "idle"
      <4>1. UNCHANGED cas
        BY <1>1, <3>2, FaultFree DEF Archive, Orderly, ArchiveStart, AddEntry, CopyEnds, Copied,
                                     NodeCreate, NodeWrite, Untag, LinkTag, OpenTag, RewriteTag
      <4>2. QED
        BY <1>0, <4>1 DEF Objects
    <3>3. QED
      BY <3>1, <3>2
  <2>1. ASSUME NEW e \in Entries, ArchiveStart(a, e)
        PROVE  Closure(ar'[a].ent) \ ar'[a].todo = {}
    BY <1>0, <2>1 DEF ArchiveStart, NoArchive, Closure
  <2>2. ASSUME NEW h \in Hash, AddEntry(a, h)
        PROVE  Closure(ar'[a].ent) \ ar'[a].todo \subseteq Objects'
    <3>1. /\ ar'[a].ent = ar[a].ent /\ ar'[a].todo = ar[a].todo \ {h} /\ ar[a].pc # "idle"
      BY <1>0, <2>0, <2>2 DEF AddEntry, ArchiveState
    <3>2. h \in Objects'
      <4>1. CASE cas[h] = Absent
        BY <1>0, <2>2, <4>1 DEF AddEntry, Objects
      <4>2. CASE cas[h] # Absent
        <5>1. cas[h] = h \/ cas[h] \in Archivers
          BY <1>0, <4>2 DEF BackedInv, WritersInv, Content
        <5>2. QED
          BY <2>0, <5>1 DEF Objects
      <4>3. QED
        BY <4>1, <4>2
    <3>3. Closure(ar[a].ent) \ ar[a].todo \subseteq Objects
      BY <3>1 DEF BackedInv
    <3>4. QED
      BY <2>0, <3>1, <3>2, <3>3
  <2>3. ASSUME CopyEnds(a) \/ (\E n \in Names : NodeCreate(a, n)) \/ NodeWrite(a)
               \/ Untag(a) \/ OpenTag(a)
        PROVE  ar'[a].ent = ar[a].ent /\ ar'[a].todo = ar[a].todo /\ ar[a].pc # "idle"
    <3>1. ar[a].pc # "idle"
      BY <2>3 DEF CopyEnds, Copied, NodeCreate, NodeWrite, Untag, OpenTag
    <3>2. ASSUME NEW n \in Names, NodeCreate(a, n)
          PROVE  ar'[a].ent = ar[a].ent /\ ar'[a].todo = ar[a].todo
      BY <1>0, <2>0, <3>2 DEF NodeCreate, ArchiveState
    <3>3. ASSUME NEW l, ar' = [ar EXCEPT ![a].pc = l]
          PROVE  ar'[a].ent = ar[a].ent /\ ar'[a].todo = ar[a].todo
      BY <1>0, <2>0, <3>3 DEF ArchiveState
    <3>4. CASE CopyEnds(a)
      BY <3>1, <3>3, <3>4 DEF CopyEnds
    <3>5. CASE NodeWrite(a) \/ Untag(a) \/ OpenTag(a)
      BY <3>1, <3>3, <3>5 DEF NodeWrite, Untag, OpenTag
    <3>6. QED
      BY <2>3, <3>1, <3>2, <3>4, <3>5
  <2>4. ASSUME LinkTag(a) \/ RewriteTag(a) PROVE ar'[a].pc = "idle"
    BY <1>0, <2>4 DEF LinkTag, RewriteTag
  <2>5. ASSUME ar'[a].ent = ar[a].ent, ar'[a].todo = ar[a].todo, ar[a].pc # "idle"
        PROVE  Closure(ar'[a].ent) \ ar'[a].todo \subseteq Objects'
    BY <2>0, <2>5 DEF BackedInv
  <2>6. QED
    BY <1>1, <2>0, <2>1, <2>2, <2>3, <2>4, <2>5, FaultFree DEF Archive, Orderly
<1>2. ASSUME NEW a \in Archivers, Archive(a), NEW b \in Archivers \ {a}, ar'[b].pc # "idle"
      PROVE  Closure(ar'[b].ent) \ ar'[b].todo \subseteq Objects'
  <2>1. ar'[b] = ar[b]
    BY <1>2, ArchiveFrame
  <2>2. QED
    BY <1>1, <1>2, <2>1 DEF BackedInv
<1>3. ASSUME ~\E a \in Archivers : Archive(a), NEW a \in Archivers, ar'[a].pc # "idle"
      PROVE  Closure(ar'[a].ent) \ ar'[a].todo \subseteq Objects'
  <2>1. UNCHANGED ar
    BY <1>3, FaultFree, NobodyElseWrites DEF Orderly
  <2>2. Objects \subseteq Objects'
    BY <1>3, <2>1, ObjectsStep
  <2>3. QED
    BY <1>3, <2>1, <2>2 DEF BackedInv
<1>4. QED
  BY <1>1, <1>2, <1>3

\* What the files under nodes/ may say after a step that they did not say before.
LEMMA NodesStep ==
    ASSUME TypeOK, Faults = {}, [Next]_vars
    PROVE  \/ UNCHANGED nodes
           \/ \E a \in Archivers : /\ ar[a].pc \in {"write", "rewrite"} /\ Archive(a)
                                   /\ nodes' = Fill(nodes, a, ar[a].ent) /\ UNCHANGED cas
           \/ \E a \in Archivers, n \in Names :
                  /\ NodeCreate(a, n) /\ UNCHANGED cas
                  /\ nodes' = [nodes EXCEPT ![<<0, n>>] = a]
           \/ \E a \in Archivers, t \in Path :
                  /\ OpenTag(a) /\ UNCHANGED cas
                  /\ t = Target(<<0, Tag>>) /\ nodes' = [nodes EXCEPT ![t] = a]
           \/ \E a \in Archivers :
                  /\ Untag(a) /\ UNCHANGED cas
                  /\ nodes' = [nodes EXCEPT ![<<0, Tag>>] = Absent]
           \/ \E a \in Archivers :
                  /\ LinkTag(a) /\ UNCHANGED cas
                  /\ nodes' = [nodes EXCEPT ![<<0, Tag>>] = ar[a].name]
           \/ \E n \in Names :
                  /\ DeleteNode(n) /\ UNCHANGED cas
                  /\ nodes' = [nodes EXCEPT ![<<0, n>>] = Absent]
           \/ \E p, t \in Path :
                  /\ FsckTrashesNode(p) /\ UNCHANGED cas /\ t = <<p[1] + 1, p[2]>> /\ t # p
                  /\ \A q \in Path : nodes'[q] = IF q = t THEN nodes[p]
                                                 ELSE IF q = p THEN Absent ELSE nodes[q]
<1> USE DEF disk, gcState, ghost
<1>0. nodes \in [Path -> NodeContent \cup {Absent}] /\ <<0, Tag>> \in Path
  BY Basics DEF TypeOK
<1>1. ASSUME NEW a \in Archivers, Archive(a)
      PROVE  \/ UNCHANGED nodes
             \/ NodeWrite(a) \/ RewriteTag(a) \/ Untag(a) \/ LinkTag(a) \/ OpenTag(a)
             \/ \E n \in Names : NodeCreate(a, n)
  BY <1>1, FaultFree DEF Archive, ArchiveStart, AddEntry, CopyEnds, Copied
<1>2. ASSUME NEW a \in Archivers, NodeWrite(a) \/ RewriteTag(a)
      PROVE  /\ ar[a].pc \in {"write", "rewrite"} /\ Archive(a)
             /\ nodes' = Fill(nodes, a, ar[a].ent) /\ UNCHANGED cas
  BY <1>2 DEF NodeWrite, RewriteTag, Archive
<1>3. ASSUME NEW a \in Archivers, NEW n \in Names, NodeCreate(a, n)
      PROVE  UNCHANGED cas /\ nodes' = [nodes EXCEPT ![<<0, n>>] = a]
  BY <1>3 DEF NodeCreate
<1>4. ASSUME NEW a \in Archivers, OpenTag(a)
      PROVE  \E t \in Path : UNCHANGED cas /\ t = Target(<<0, Tag>>)
                             /\ nodes' = [nodes EXCEPT ![t] = a]
  <2>1. PICK t \in Path : t = Target(<<0, Tag>>)
    BY <1>0, TargetType
  <2>2. QED
    BY <1>4, <2>1 DEF OpenTag
<1>5. ASSUME NEW a \in Archivers, Untag(a)
      PROVE  UNCHANGED cas /\ nodes' = [nodes EXCEPT ![<<0, Tag>>] = Absent]
  BY <1>5 DEF Untag
<1>6. ASSUME NEW a \in Archivers, LinkTag(a)
      PROVE  UNCHANGED cas /\ nodes' = [nodes EXCEPT ![<<0, Tag>>] = ar[a].name]
  BY <1>6 DEF LinkTag
<1>7. ASSUME NEW c \in Cmd, Enumerate(c) PROVE UNCHANGED nodes
  BY <1>7 DEF Enumerate, Parse, ListCas, TrashBit, SetBitAgain, Missed, ListNodes, WalkCutShort
<1>8. Gc => UNCHANGED nodes
  BY DEF Gc, GcSeesObject, GcReadsNode, GcMeetsBadNode, GcNodesDone, GcRemoves, GcEnds
<1>9. Fsck => UNCHANGED nodes \/ \E p \in Path : FsckTrashesNode(p)
  BY DEF Fsck, FsckChecksObject, FsckCannotOpen, FsckSkipsPrefix, FsckKeepsNode,
         FsckTrashesObject, FsckEnds
<1>10. ASSUME NEW p \in Path, FsckTrashesNode(p), nodes' # nodes
       PROVE  \E t \in Path :
                  /\ UNCHANGED cas /\ t = <<p[1] + 1, p[2]>> /\ t # p
                  /\ \A q \in Path : nodes'[q] = IF q = t THEN nodes[p]
                                                 ELSE IF q = p THEN Absent ELSE nodes[q]
  <2>1. p[1] \in 0..MaxDepth /\ p[2] \in Names \cup {Tag} /\ p = <<p[1], p[2]>>
    BY DEF Path
  <2>2. /\ p[1] # MaxDepth /\ UNCHANGED cas
        /\ nodes' = [nodes EXCEPT ![p] = Absent, ![<<p[1] + 1, p[2]>>] = nodes[p]]
    BY <1>10 DEF FsckTrashesNode
  <2>3. PICK t \in Path : t = <<p[1] + 1, p[2]>> /\ t # p
    BY <2>1, <2>2, BoundsAssumption DEF Path
  <2>4. \A q \in Path : nodes'[q] = IF q = t THEN nodes[p] ELSE IF q = p THEN Absent ELSE nodes[q]
    BY <1>0, <2>2, <2>3
  <2>5. QED
    BY <2>2, <2>3, <2>4
<1>11. Environment => UNCHANGED nodes \/ \E n \in Names : DeleteNode(n)
  BY FaultFree DEF Environment, ReaderSetsBit
<1>12. ASSUME NEW n \in Names, DeleteNode(n)
       PROVE  UNCHANGED cas /\ nodes' = [nodes EXCEPT ![<<0, n>>] = Absent]
  BY <1>12 DEF DeleteNode
<1>13. CASE UNCHANGED nodes
  BY <1>13
<1>14. CASE \E a \in Archivers : Archive(a)
  BY SMTT(30), <1>1, <1>2, <1>3, <1>4, <1>5, <1>6, <1>14
<1>15. CASE Fsck
  BY SMTT(30), <1>9, <1>10, <1>13, <1>15
<1>16. CASE Environment
  BY <1>11, <1>12, <1>16
<1>17. QED
  BY <1>7, <1>8, <1>13, <1>14, <1>15, <1>16 DEF Next, Rest, vars

\* A file that names an entry leads to it.
LEMMA NamesItself ==
    ASSUME NEW p \in Path, nodes[p] \in Entries
    PROVE  Readable(p) /\ EntryOf(p) = nodes[p] /\ Closure(nodes[p]) \subseteq Referenced
<1>1. nodes[p] \notin Names
  BY ValuesAssumption DEF Hash
<1>2. Readable(p) /\ EntryOf(p) = nodes[p]
  BY <1>1 DEF Readable, EntryOf, Target
<1>3. QED
  BY <1>2, ReferencedBy

\* A step keeps every entry that a file names, with all it refers to.
LEMMA BackedStep ==
    ASSUME TypeOK, Idle, Alone, GcInv, MarkInv, WritersInv, BadInv, Orderly, BackedInv, [Next]_vars
    PROVE  BackedInv'
<1>0. /\ nodes \in [Path -> NodeContent \cup {Absent}] /\ ar \in [Archivers -> ArchiveState]
      /\ Absent \notin Entries /\ Entries \cap Archivers = {} /\ Entries \cap Names = {}
      /\ \A n \in Names \cup {Tag} : <<0, n>> \in Path
  BY Basics, ValuesAssumption DEF TypeOK, Hash
<1>1. \A a \in Archivers : Steady(ar'[a])
  BY SteadyStep DEF BackedInv, Orderly
<1>2. \A h \in Hash : cas'[h] # Torn
  BY NothingTorn DEF BackedInv, Orderly
<1>3. \A p \in Path : nodes[p] \in Entries =>
          Closure(nodes[p]) \subseteq Objects /\ Closure(nodes[p]) \subseteq Referenced
  BY NamesItself DEF BackedInv
<1>4. CASE UNCHANGED nodes
  BY <1>3, <1>4, ObjectsStep, <1>1, <1>2, StoredStep DEF BackedInv
<1>5. ASSUME UNCHANGED cas,
             \A p \in Path : nodes'[p] \in Entries =>
                 \/ \E q \in Path : nodes'[p] = nodes[q]
                 \/ \E a \in Archivers : /\ ar[a].pc \in {"write", "rewrite"}
                                         /\ nodes'[p] = ar[a].ent
      PROVE  BackedInv'
  <2>1. Objects' = Objects
    BY <1>5 DEF Objects
  <2>2. ASSUME NEW a \in Archivers, ar[a].pc \in {"write", "rewrite"}
        PROVE  Closure(ar[a].ent) \subseteq Objects
    <3>1. ar[a].todo = {} /\ Closure(ar[a].ent) \ ar[a].todo \subseteq Objects
      BY <2>2 DEF BackedInv, Steady
    <3>2. QED
      BY <3>1
  <2>3. \A p \in Path : nodes'[p] \in Entries => Closure(nodes'[p]) \subseteq Objects'
    BY <1>3, <1>5, <2>1, <2>2
  <2>4. QED
    BY <1>1, <1>2, <2>3, StoredStep DEF BackedInv
<1>6. ASSUME NEW a \in Archivers, ar[a].pc \in {"write", "rewrite"},
             nodes' = Fill(nodes, a, ar[a].ent), UNCHANGED cas
      PROVE  BackedInv'
  <2>1. \A p \in Path : nodes'[p] = nodes[p] \/ nodes'[p] = ar[a].ent
    BY <1>0, <1>6 DEF Fill
  <2>2. QED
    BY <1>5, <1>6, <2>1
<1>7. ASSUME NEW t, NEW v, v \notin Entries, nodes' = [nodes EXCEPT ![t] = v], UNCHANGED cas
      PROVE  BackedInv'
  <2>1. \A p \in Path : nodes'[p] = nodes[p] \/ nodes'[p] = v
    BY <1>0, <1>7
  <2>2. QED
    BY <1>5, <1>7, <2>1
<1>8. ASSUME NEW p \in Path, NEW t \in Path, UNCHANGED cas,
             \A q \in Path : nodes'[q] = IF q = t THEN nodes[p]
                                         ELSE IF q = p THEN Absent ELSE nodes[q]
      PROVE  BackedInv'
  BY <1>0, <1>5, <1>8
<1>9. \A a \in Archivers : ar[a].name \notin Entries
  BY <1>0 DEF ArchiveState
<1>10. QED
  BY <1>0, <1>4, <1>6, <1>7, <1>8, <1>9, NodesStep DEF Orderly

\* At the start nothing is stored, recorded or running.
LEMMA InitBacked == Init => OpenInv /\ BackedInv
<1> SUFFICES ASSUME Init PROVE OpenInv /\ BackedInv
  OBVIOUS
<1>1. /\ \A h \in Hash : cas[h] = Absent
      /\ \A p \in Path : nodes[p] = Absent
      /\ \A a \in Archivers : ar[a].pc = "idle"
  BY DEF Init, NoArchive
<1>2. Absent \notin Archivers /\ Absent \notin Entries /\ Absent # Torn
  BY ValuesAssumption DEF Hash
<1>3. QED
  BY <1>1, <1>2 DEF OpenInv, BackedInv, Steady

\* When archives overlap only with each other and there is no fault, what the
\* archives have stored and what the nodes name is there.
LEMMA OrderlyInvariant ==
    Orderly => (Spec => [](TypeOK /\ Idle /\ Alone /\ GcInv /\ MarkInv /\ WritersInv /\ BadInv
                           /\ OpenInv /\ BackedInv))
<1> SUFFICES ASSUME Orderly
             PROVE  Spec => [](TypeOK /\ Idle /\ Alone /\ GcInv /\ MarkInv /\ WritersInv /\ BadInv
                               /\ OpenInv /\ BackedInv)
  OBVIOUS
<1>1. Overlap # "all"
  BY DEF Orderly
<1>2. Spec => [](TypeOK /\ Idle /\ Alone /\ GcInv /\ MarkInv)
  BY <1>1, SoloInvariant
<1>3. Spec => []WritersInv
  BY FsckInvariant
<1>4. Spec => []BadInv
  BY <1>1, FsckInvariant
<1>5. TypeOK /\ Idle /\ Alone /\ GcInv /\ MarkInv /\ WritersInv /\ BadInv /\ OpenInv /\ BackedInv
      /\ [Next]_vars => OpenInv' /\ BackedInv'
  BY OpenStep, BackedStep
<1>6. QED
  BY <1>2, <1>3, <1>4, <1>5, InitBacked, PTL DEF Spec

\* When gc and fsck run alone and there is no fault, every node leads to objects that
\* are intact or that an archive is writing.
THEOREM NodesAreBacked == Orderly => (Spec => []RecordedIsBacked)
<1> SUFFICES ASSUME Orderly PROVE Spec => []RecordedIsBacked
  OBVIOUS
<1>1. TypeOK /\ BackedInv => RecordedIsBacked
  <2> SUFFICES ASSUME TypeOK, BackedInv, NEW n \in Names, nodes[<<0, n>>] \in Entries,
                      NEW h \in Closure(nodes[<<0, n>>])
               PROVE  cas[h] = h \/ cas[h] \in Archivers
    BY DEF RecordedIsBacked
  <2>1. <<0, n>> \in Path
    BY Basics
  <2>2. h \in Objects
    BY <2>1 DEF BackedInv
  <2>3. QED
    BY <2>2 DEF Objects
<1>2. QED
  BY <1>1, OrderlyInvariant, PTL

-----------------------------------------------------------------------------
(* The refinement *)

\* The backups of BackupStore.
Backups == [n \in Names |-> IF nodes[<<0, n>>] \in Entries THEN nodes[<<0, n>>] ELSE Absent]

\* The steps of BackupStore, in terms of the root directory.  A new object is put.
LEMMA PutMaps ==
    ASSUME NEW h \in Hash, Objects' = Objects \cup {h}, Backups' = Backups
    PROVE  Backup!Next
BY DEF Backup!Next, Backup!Put, Objects, Backups, Hash

\* gc may collect what no node leads to.
LEMMA CollectMaps ==
    ASSUME TypeOK, NEW h \in Hash, h \notin Referenced, Objects' = Objects \ {h}, Backups' = Backups
    PROVE  Backup!Next
<1>1. ASSUME NEW n \in Names, Backups[n] # Absent
      PROVE  nodes[<<0, n>>] \in Entries /\ Backups[n] = nodes[<<0, n>>]
  BY <1>1 DEF Backups
<1>2. ASSUME NEW n \in Names, Backups[n] # Absent PROVE h \notin Closure(Backups[n])
  BY <1>1, <1>2, Basics, NamesItself
<1>3. h \notin Backup!Needed
  BY <1>2 DEF Backup!Needed, Backup!Closure, Closure, Backups
<1>4. Backup!Collect(h)
  BY <1>3 DEF Backup!Collect, Objects, Backups
<1>5. QED
  BY <1>4 DEF Backup!Next, Hash

\* One node changes: one backup does.
LEMMA OneBackup ==
    ASSUME NEW n \in Names, \A m \in Names \ {n} : nodes'[<<0, m>>] = nodes[<<0, m>>]
    PROVE  Backups' = [Backups EXCEPT ![n] = IF nodes'[<<0, n>>] \in Entries
                                             THEN nodes'[<<0, n>>] ELSE Absent]
<1> DEFINE V == IF nodes'[<<0, n>>] \in Entries THEN nodes'[<<0, n>>] ELSE Absent
<1>1. ASSUME NEW m \in Names PROVE Backups'[m] = IF m = n THEN V ELSE Backups[m]
  <2>1. CASE m = n
    BY <2>1 DEF Backups
  <2>2. CASE m # n
    <3>1. nodes'[<<0, m>>] = nodes[<<0, m>>]
      BY <2>2
    <3>2. QED
      BY <2>2, <3>1 DEF Backups
  <2>3. QED
    BY <2>1, <2>2
<1>2. /\ Backups' = [m \in Names |-> Backups'[m]]
      /\ Backups = [m \in Names |-> Backups[m]]
  BY DEF Backups
<1> HIDE DEF V
<1>3. Backups' = [Backups EXCEPT ![n] = V]
  BY <1>1, <1>2
<1>4. QED
  BY <1>3 DEF V

\* A node that names no entry any more is a backup forgotten.
LEMMA ForgetMaps ==
    ASSUME NEW n \in Names, Objects' = Objects, nodes'[<<0, n>>] \notin Entries,
           \A m \in Names \ {n} : nodes'[<<0, m>>] = nodes[<<0, m>>]
    PROVE  Backup!Next
<1>1. Backups' = [Backups EXCEPT ![n] = Absent]
  BY OneBackup
<1>2. Backup!Forget(n)
  BY <1>1 DEF Backup!Forget, Objects, Backups
<1>3. QED
  BY <1>2 DEF Backup!Next

\* A node that comes to name an entry that is there with all it refers to is a backup
\* recorded.
LEMMA RecordMaps ==
    ASSUME NEW n \in Names, NEW e \in Entries, Objects' = Objects, Closure(e) \subseteq Objects,
           nodes[<<0, n>>] \notin Entries, nodes'[<<0, n>>] = e,
           \A m \in Names \ {n} : nodes'[<<0, m>>] = nodes[<<0, m>>]
    PROVE  Backup!Next
<1>1. Backups' = [Backups EXCEPT ![n] = e] /\ Backups[n] = Absent
  BY OneBackup DEF Backups
<1>2. Backup!Closure(e) \subseteq Objects
  BY DEF Backup!Closure, Closure
<1>3. Backup!Record(n, e)
  BY <1>1, <1>2 DEF Backup!Record, Objects, Backups
<1>4. QED
  BY <1>3 DEF Backup!Next

\* An archive that closes the file it has open under nodes/ records its backup there.
LEMMA CloseMaps ==
    ASSUME TypeOK, OpenInv, BackedInv, NEW a \in Archivers, ar[a].pc \in {"write", "rewrite"},
           nodes' = Fill(nodes, a, ar[a].ent), UNCHANGED cas
    PROVE  Backup!Next \/ UNCHANGED <<Objects, Backups>>
<1>0. /\ nodes \in [Path -> NodeContent \cup {Absent}] /\ Entries \cap Archivers = {}
      /\ \A n \in Names \cup {Tag} : <<0, n>> \in Path
  BY Basics, ValuesAssumption DEF TypeOK, Hash
<1>1. \A p \in Path : nodes'[p] = IF nodes[p] = a THEN ar[a].ent ELSE nodes[p]
  BY <1>0 DEF Fill
<1>2. Objects' = Objects
  BY DEF Objects
<1>3. ar[a].ent \in Entries /\ ar[a].todo = {} /\ Closure(ar[a].ent) \ ar[a].todo \subseteq Objects
  BY DEF BackedInv, Steady
<1>4. CASE \E n \in Names : nodes[<<0, n>>] = a
  <2>1. PICK n \in Names : nodes[<<0, n>>] = a
    BY <1>4
  <2>2. \A m \in Names \ {n} : <<0, m>> # <<0, n>>
    OBVIOUS
  <2>3. \A m \in Names \ {n} : nodes[<<0, m>>] # a
    BY <1>0, <2>1, <2>2 DEF OpenInv
  <2>4. /\ nodes'[<<0, n>>] = ar[a].ent /\ nodes[<<0, n>>] \notin Entries
        /\ \A m \in Names \ {n} : nodes'[<<0, m>>] = nodes[<<0, m>>]
    BY <1>0, <1>1, <2>1, <2>3
  <2>5. Closure(ar[a].ent) \subseteq Objects
    BY <1>3
  <2>6. QED
    BY <1>2, <1>3, <2>4, <2>5, RecordMaps
<1>5. CASE ~\E n \in Names : nodes[<<0, n>>] = a
  BY <1>0, <1>1, <1>2, <1>5 DEF Backups
<1>6. QED
  BY <1>4, <1>5

\* Every step of the commands is a step of BackupStore, or changes nothing it sees.
LEMMA RefinementStep ==
    ASSUME TypeOK, Idle, Alone, GcInv, MarkInv, WritersInv, BadInv, OpenInv, BackedInv, Orderly,
           [Next]_vars
    PROVE  Backup!Next \/ UNCHANGED <<Objects, Backups>>
<1>0. /\ nodes \in [Path -> NodeContent \cup {Absent}] /\ ar \in [Archivers -> ArchiveState]
      /\ Absent \notin Entries /\ Entries \cap Archivers = {} /\ Entries \cap Names = {}
      /\ \A n \in Names \cup {Tag} : <<0, n>> \in Path
  BY Basics, ValuesAssumption DEF TypeOK, Hash
<1>1. CASE UNCHANGED nodes
  <2>1. Backups' = Backups
    BY <1>1 DEF Backups
  <2>2. QED
    BY <2>1, ObjectsStep, PutMaps, CollectMaps
<1>2. ASSUME UNCHANGED cas PROVE Objects' = Objects
  BY <1>2 DEF Objects
<1>3. ASSUME NEW t \in Path, NEW v, v \notin Entries, UNCHANGED cas,
             \A q \in Path : q = t \/ q[1] # 0 \/ nodes'[q] = nodes[q], nodes'[t] = v
      PROVE  Backup!Next \/ UNCHANGED <<Objects, Backups>>
  <2>1. CASE \E n \in Names : t = <<0, n>>
    <3>1. PICK n \in Names : t = <<0, n>>
      BY <2>1
    <3>2. \A m \in Names \ {n} : <<0, m>> # t /\ <<0, m>>[1] = 0
      BY <3>1
    <3>3. \A m \in Names \ {n} : nodes'[<<0, m>>] = nodes[<<0, m>>]
      BY <1>0, <1>3, <3>2
    <3>4. QED
      BY <1>2, <1>3, <3>1, <3>3, ForgetMaps
  <2>2. CASE ~\E n \in Names : t = <<0, n>>
    <3>1. \A m \in Names : <<0, m>> # t /\ <<0, m>>[1] = 0
      BY <2>2
    <3>2. \A m \in Names : nodes'[<<0, m>>] = nodes[<<0, m>>]
      BY <1>0, <1>3, <3>1
    <3>3. QED
      BY <1>2, <1>3, <3>2 DEF Backups
  <2>3. QED
    BY <2>1, <2>2
<1>4. ASSUME NEW t \in Path, NEW v, v \notin Entries, UNCHANGED cas, nodes' = [nodes EXCEPT ![t] = v]
      PROVE  Backup!Next \/ UNCHANGED <<Objects, Backups>>
  BY <1>0, <1>3, <1>4
<1>5. ASSUME NEW p \in Path, NEW t \in Path, UNCHANGED cas, t = <<p[1] + 1, p[2]>>, t # p,
             \A q \in Path : nodes'[q] = IF q = t THEN nodes[p]
                                         ELSE IF q = p THEN Absent ELSE nodes[q]
      PROVE  Backup!Next \/ UNCHANGED <<Objects, Backups>>
  <2>1. p[1] \in Nat /\ t[1] = p[1] + 1
    BY <1>5, BoundsAssumption DEF Path
  <2>2. t[1] # 0
    BY <2>1
  <2>3. QED
    BY <1>0, <1>3, <1>5, <2>2
<1>6. \A a \in Archivers : ar[a].name \notin Entries
  BY <1>0 DEF ArchiveState
<1>7. QED
  BY ZenonT(60), <1>0, <1>1, <1>4, <1>5, <1>6, NodesStep, CloseMaps DEF Orderly

\* When gc and fsck run alone and there is no fault, the files of the root directory,
\* written and moved one at a time by archives that interleave, are the atomic store of
\* module BackupStore: a backup is recorded when all it refers to is there, and
\* nothing that a recorded backup refers to is collected.
THEOREM BackupStoreIsImplemented == Orderly => (Spec => ImplementsBackupStore)
<1> SUFFICES ASSUME Orderly PROVE Spec => ImplementsBackupStore
  OBVIOUS
<1>1. Init => Backup!Init
  <2> SUFFICES ASSUME Init PROVE Backup!Init
    OBVIOUS
  <2>1. /\ \A h \in Hash : cas[h] = Absent
        /\ \A n \in Names : <<0, n>> \in Path /\ nodes[<<0, n>>] = Absent
    BY BoundsAssumption DEF Init, Path
  <2>2. Absent \notin Hash /\ Absent \notin Archivers /\ Absent \notin Entries
    BY ValuesAssumption DEF Hash
  <2>3. QED
    BY <2>1, <2>2 DEF Backup!Init
<1>2. TypeOK /\ Idle /\ Alone /\ GcInv /\ MarkInv /\ WritersInv /\ BadInv /\ OpenInv /\ BackedInv
      /\ [Next]_vars => Backup!Next \/ UNCHANGED <<Objects, Backups>>
  BY RefinementStep
<1>3. QED
  BY <1>1, <1>2, OrderlyInvariant, PTL DEF Spec, ImplementsBackupStore, Backup!Spec, Objects, Backups

-----------------------------------------------------------------------------
(* gc finds everything it looks for *)

\* As above, with a file descriptor for every object and every node, and a user who
\* does not delete the node that the tag links to.
Careful == Orderly /\ EnoughFds /\ Deletable # "any"

\* Nothing is in the trash of nodes/ and no file there is corrupted; only the tag is a
\* link, to a node that is there; so is the node of an archive that is to be tagged.
NamedInv ==
    /\ \A p \in Path : (p[1] # 0 => nodes[p] = Absent) /\ nodes[p] # Torn
    /\ \A n \in Names : nodes[<<0, n>>] \notin Names
    /\ nodes[<<0, Tag>>] \in Names => nodes[<<0, nodes[<<0, Tag>>]>>] # Absent
    /\ \A a \in Archivers : ar[a].pc \in {"write", "untag", "link"} =>
          ar[a].name \in Names /\ nodes[<<0, ar[a].name>>] # Absent

\* The nodes that a command has yet to meet are there.
DueInv == \A c \in Cmd : cmd[c].pc = "nodes" => cmd[c].due \subseteq NodeFiles

\* While no archive runs, every node can be read and its entry loaded.
LEMMA EveryNodeLoads ==
    ASSUME TypeOK, WritersInv, OpenInv, BackedInv, NamedInv,
           \A a \in Archivers : ar[a].pc = "idle", NEW p \in NodeFiles
    PROVE  Loads(p)
<1>0. /\ nodes \in [Path -> NodeContent \cup {Absent}] /\ Tag \notin Names
      /\ \A n \in Names \cup {Tag} : <<0, n>> \in Path
  BY Basics, ValuesAssumption DEF TypeOK
<1>1. p \in Path /\ nodes[p] # Absent
  BY DEF NodeFiles
<1>2. p[1] = 0 /\ p[2] \in Names \cup {Tag} /\ p = <<p[1], p[2]>>
  BY SMTT(30), <1>1 DEF NamedInv, Path
<1>3. \A q \in Path : nodes[q] # Absent => nodes[q] \in Entries \cup Names
  BY <1>0 DEF OpenInv, NamedInv, NodeContent
<1>4. ASSUME nodes[p] \in Names PROVE p = <<0, Tag>>
  BY <1>2, <1>4 DEF NamedInv
<1>5. PICK q \in Path : q = Target(p)
  BY <1>1, TargetType
<1>6. nodes[q] \in Entries
  <2>1. CASE nodes[p] \in Names
    <3>1. q = <<0, nodes[p]>> /\ nodes[q] # Absent /\ nodes[q] \notin Names
      BY <1>2, <1>4, <1>5, <2>1 DEF Target, NamedInv
    <3>2. QED
      BY <1>3, <3>1
  <2>2. CASE nodes[p] \notin Names
    BY <1>1, <1>3, <1>5, <2>2 DEF Target
  <2>3. QED
    BY <2>1, <2>2
<1>7. nodes[q] \in Objects
  BY <1>6 DEF BackedInv, Closure
<1>8. cas[nodes[q]] = nodes[q]
  BY <1>7 DEF Objects, WritersInv
<1>9. QED
  BY <1>5, <1>6, <1>8 DEF Loads, Readable, EntryOf

\* A command that meets a node has a file descriptor for it and can load it.
LEMMA NodesMet ==
    ASSUME TypeOK, Alone, WritersInv, OpenInv, BackedInv, NamedInv, DueInv, EnoughFds, FdInv,
           NEW c \in Cmd, cmd[c].pc = "nodes"
    PROVE  /\ cmd[c].fds < FdLimit /\ cmd[c].fds # FdLimit
           /\ \A p : Meets(c, p, NodeFiles) => Loads(p) /\ Readable(p)
<1>1. cmd[c] \in CmdState /\ cmd[c].fds \in Nat /\ FdLimit \in Nat
  BY Basics, BoundsAssumption DEF CmdState
<1>2. cmd[c].fds < FdLimit
  BY <1>1, Spare DEF FdInv
<1>3. \A a \in Archivers : ar[a].pc = "idle"
  BY DEF Alone, NoCommand
<1>4. ASSUME NEW p, Meets(c, p, NodeFiles) PROVE Loads(p) /\ Readable(p)
  <2>1. p \in NodeFiles
    BY <1>4 DEF Meets, DueInv
  <2>2. Loads(p)
    BY <1>3, <2>1, EveryNodeLoads
  <2>3. QED
    BY <2>2 DEF Loads
<1>5. QED
  BY SMTT(30), <1>1, <1>2, <1>4

\* So fsck moves no node.
LEMMA NodesStay ==
    ASSUME TypeOK, Alone, WritersInv, OpenInv, BackedInv, NamedInv, DueInv, EnoughFds, FdInv,
           NEW p \in Path
    PROVE  ~FsckTrashesNode(p)
<1> SUFFICES ASSUME FsckTrashesNode(p) PROVE FALSE
  OBVIOUS
<1>1. /\ "fsck" \in Cmd /\ cmd["fsck"].pc = "nodes" /\ Meets("fsck", p, NodeFiles)
      /\ cmd["fsck"].fds = FdLimit \/ ~Readable(p)
  BY DEF FsckTrashesNode, Cmd
<1>2. QED
  BY <1>1, NodesMet

\* The tag and the archives keep pointing at nodes that are there.
LEMMA NamedStep ==
    ASSUME TypeOK, Alone, WritersInv, OpenInv, BackedInv, NamedInv, DueInv, FdInv, Careful,
           [Next]_vars
    PROVE  NamedInv'
<1> USE DEF disk, gcState, ghost
<1>0. /\ nodes \in [Path -> NodeContent \cup {Absent}] /\ ar \in [Archivers -> ArchiveState]
      /\ {Absent, Torn} \cap (Names \cup Archivers \cup Entries) = {} /\ Absent # Torn
      /\ Entries \cap Names = {} /\ Archivers \cap Names = {} /\ Tag \notin Names
      /\ \A n \in Names \cup {Tag} : <<0, n>> \in Path /\ <<0, n>>[1] = 0 /\ <<0, n>>[2] = n
      /\ NoArchive.pc = "idle" /\ Faults = {}
  BY Basics, ValuesAssumption DEF TypeOK, Hash, NoArchive, Careful, Orderly
\* What the archives need, when no node disappears.
<1>1. ASSUME \A n \in Names : nodes[<<0, n>>] # Absent => nodes'[<<0, n>>] # Absent
      PROVE  \A a \in Archivers : ar'[a].pc \in {"write", "untag", "link"} =>
                 ar'[a].name \in Names /\ nodes'[<<0, ar'[a].name>>] # Absent
  <2>1. ASSUME NEW a \in Archivers, ar'[a] = ar[a], ar'[a].pc \in {"write", "untag", "link"}
        PROVE  ar'[a].name \in Names /\ nodes'[<<0, ar'[a].name>>] # Absent
    BY <1>1, <2>1 DEF NamedInv
  <2>2. ASSUME NEW a \in Archivers, Archive(a), ar'[a].pc \in {"write", "untag", "link"}
        PROVE  ar'[a].name \in Names /\ nodes'[<<0, ar'[a].name>>] # Absent
    <3>0. ar[a] \in ArchiveState
      BY <1>0
    <3>1. ASSUME NEW n \in Names, NodeCreate(a, n)
          PROVE  ar'[a].name = n /\ nodes'[<<0, n>>] = a
      BY <1>0, <3>0, <3>1 DEF NodeCreate, ArchiveState
    <3>2. ASSUME NodeWrite(a) \/ Untag(a)
          PROVE  ar[a].pc \in {"write", "untag"} /\ ar'[a].name = ar[a].name
      BY <1>0, <3>0, <3>2 DEF NodeWrite, Untag, ArchiveState
    <3>3. ASSUME NEW e \in Entries, ArchiveStart(a, e) PROVE ar'[a].pc = "add"
      BY <1>0, <3>3 DEF ArchiveStart, NoArchive
    <3>4. ASSUME NEW h \in Hash, AddEntry(a, h) PROVE ar'[a].pc \in {"add", "copy", "node"}
      BY <1>0, <3>0, <3>4 DEF AddEntry, ArchiveState
    <3>5. ASSUME CopyEnds(a) \/ OpenTag(a) PROVE ar'[a].pc \in {"add", "node", "rewrite"}
      <4>1. PICK l \in {"add", "node", "rewrite"} : ar' = [ar EXCEPT ![a].pc = l]
        BY <3>5 DEF CopyEnds, OpenTag
      <4>2. QED
        BY <1>0, <3>0, <4>1 DEF ArchiveState
    <3>6. ASSUME LinkTag(a) \/ RewriteTag(a) PROVE ar'[a].pc = "idle"
      BY <1>0, <3>6 DEF LinkTag, RewriteTag
    <3>7. \/ NodeWrite(a) \/ Untag(a) \/ \E n \in Names : NodeCreate(a, n)
      BY <1>0, <2>2, <3>3, <3>4, <3>5, <3>6, FaultFree DEF Archive
    <3>8. CASE \E n \in Names : NodeCreate(a, n)
      BY ZenonT(60), <1>0, <3>1, <3>8
    <3>9. CASE NodeWrite(a) \/ Untag(a)
      BY <1>1, <3>2, <3>9 DEF NamedInv
    <3>10. QED
      BY <3>7, <3>8, <3>9
  <2>3. CASE \E a \in Archivers : Archive(a)
    <3>1. PICK a \in Archivers : Archive(a)
      BY <2>3
    <3>2. \A b \in Archivers \ {a} : ar'[b] = ar[b]
      BY <3>1, ArchiveFrame
    <3>3. QED
      BY <2>1, <2>2, <3>1, <3>2
  <2>4. CASE ~\E a \in Archivers : Archive(a)
    <3>1. UNCHANGED ar
      BY <1>0, <2>4, FaultFree, NobodyElseWrites
    <3>2. QED
      BY <2>1, <3>1
  <2>5. QED
    BY <2>3, <2>4
<1>2. CASE UNCHANGED nodes
  <2>1. \A n \in Names : nodes[<<0, n>>] # Absent => nodes'[<<0, n>>] # Absent
    BY <1>2
  <2>2. QED
    BY <1>1, <1>2, <2>1 DEF NamedInv
\* An archive fills the file it has open.
<1>3. ASSUME NEW a \in Archivers, ar[a].pc \in {"write", "rewrite"},
             nodes' = Fill(nodes, a, ar[a].ent)
      PROVE  NamedInv'
  <2>1. ar[a].ent \in Entries
    BY <1>3 DEF BackedInv, Steady
  <2>2. \A p \in Path : nodes'[p] = IF nodes[p] = a THEN ar[a].ent ELSE nodes[p]
    BY <1>0, <1>3 DEF Fill
  <2>3. /\ \A p \in Path : nodes[p] # Absent <=> nodes'[p] # Absent
        /\ \A p \in Path : nodes'[p] \in Names => nodes'[p] = nodes[p]
        /\ \A p \in Path : nodes'[p] # Torn
    BY <1>0, <2>1, <2>2 DEF NamedInv
  <2>4. /\ \A p \in Path : (p[1] # 0 => nodes'[p] = Absent) /\ nodes'[p] # Torn
        /\ \A n \in Names : nodes'[<<0, n>>] \notin Names
    BY <1>0, <2>3 DEF NamedInv
  <2>5. nodes'[<<0, Tag>>] \in Names => nodes'[<<0, nodes'[<<0, Tag>>]>>] # Absent
    BY SMTT(30), <1>0, <2>3 DEF NamedInv
  <2>6. QED
    BY <1>0, <1>1, <2>3, <2>4, <2>5 DEF NamedInv
\* An archive opens a file.
<1>4. ASSUME NEW a \in Archivers, NEW t \in Path, t[1] = 0, nodes' = [nodes EXCEPT ![t] = a]
      PROVE  NamedInv'
  <2>1. \A p \in Path : nodes'[p] = IF p = t THEN a ELSE nodes[p]
    BY <1>0, <1>4
  <2>2. /\ \A p \in Path : nodes[p] # Absent => nodes'[p] # Absent
        /\ \A p \in Path : nodes'[p] \in Names => nodes'[p] = nodes[p]
        /\ \A p \in Path : (p[1] # 0 => nodes'[p] = Absent) /\ nodes'[p] # Torn
    BY <1>0, <1>4, <2>1 DEF NamedInv
  <2>3. /\ \A n \in Names : nodes'[<<0, n>>] \notin Names
        /\ nodes'[<<0, Tag>>] \in Names => nodes'[<<0, nodes'[<<0, Tag>>]>>] # Absent
    BY SMTT(30), <1>0, <2>2 DEF NamedInv
  <2>4. QED
    BY <1>0, <1>1, <2>2, <2>3 DEF NamedInv
\* The tag is removed, or made a link to a node that is there.
<1>5. ASSUME NEW v, nodes' = [nodes EXCEPT ![<<0, Tag>>] = v], v # Torn,
             v \in Names => nodes[<<0, v>>] # Absent
      PROVE  NamedInv'
  <2>1. /\ \A p \in Path : p # <<0, Tag>> => nodes'[p] = nodes[p]
        /\ nodes'[<<0, Tag>>] = v
    BY <1>0, <1>5
  <2>2. \A n \in Names : <<0, n>> # <<0, Tag>>
    BY <1>0
  <2>3. \A n \in Names : nodes'[<<0, n>>] = nodes[<<0, n>>]
    BY <1>0, <2>1, <2>2
  <2>4. \A p \in Path : (p[1] # 0 => nodes'[p] = Absent) /\ nodes'[p] # Torn
    BY SMTT(30), <1>0, <1>5, <2>1 DEF NamedInv
  <2>5. QED
    BY <1>1, <1>5, <2>1, <2>3, <2>4 DEF NamedInv
\* The user deletes a node.
<1>6. ASSUME NEW n \in Names, DeleteNode(n) PROVE NamedInv'
  <2>1. /\ nodes[<<0, Tag>>] # n /\ nodes' = [nodes EXCEPT ![<<0, n>>] = Absent]
        /\ UNCHANGED ar /\ MayStart
    BY <1>6 DEF DeleteNode, Careful
  <2>2. \A p \in Path : nodes'[p] = IF p = <<0, n>> THEN Absent ELSE nodes[p]
    BY <1>0, <2>1
  <2>3. /\ \A m \in Names \ {n} : <<0, m>> # <<0, n>>
        /\ <<0, Tag>> # <<0, n>>
    BY <1>0
  <2>4. nodes'[<<0, Tag>>] = nodes[<<0, Tag>>]
    BY <1>0, <2>2, <2>3
  <2>5. \A m \in Names \ {n} : nodes'[<<0, m>>] = nodes[<<0, m>>]
    BY <1>0, <2>2, <2>3
  <2>6. \A p \in Path : (p[1] # 0 => nodes'[p] = Absent) /\ nodes'[p] # Torn
    BY <1>0, <2>2 DEF NamedInv
  <2>7. nodes'[<<0, n>>] = Absent
    BY <1>0, <2>2
  <2>8. \A a \in Archivers : ar'[a].pc = "idle"
    BY <2>1 DEF MayStart, Quiet, Careful, Orderly
  <2>9. QED
    BY <1>0, <2>1, <2>4, <2>5, <2>6, <2>7, <2>8 DEF NamedInv
<1>7. ASSUME NEW a \in Archivers, NEW n \in Names, NodeCreate(a, n),
             nodes' = [nodes EXCEPT ![<<0, n>>] = a]
      PROVE  NamedInv'
  BY <1>0, <1>4, <1>7
<1>8. ASSUME NEW a \in Archivers, NEW t \in Path, t = Target(<<0, Tag>>),
             nodes' = [nodes EXCEPT ![t] = a]
      PROVE  NamedInv'
  <2>1. t[1] = 0
    BY <1>0, <1>8 DEF Target
  <2>2. QED
    BY <1>4, <1>8, <2>1
<1>9. ASSUME NEW a \in Archivers, Untag(a), nodes' = [nodes EXCEPT ![<<0, Tag>>] = Absent]
      PROVE  NamedInv'
  BY <1>0, <1>5, <1>9
<1>10. ASSUME NEW a \in Archivers, LinkTag(a), nodes' = [nodes EXCEPT ![<<0, Tag>>] = ar[a].name]
       PROVE  NamedInv'
  <2>1. ar[a].pc = "link"
    BY <1>10 DEF LinkTag
  <2>2. ar[a].name \in Names /\ nodes[<<0, ar[a].name>>] # Absent
    BY <2>1 DEF NamedInv
  <2>3. QED
    BY <1>0, <1>5, <1>10, <2>2
<1>11. \A p \in Path : ~FsckTrashesNode(p)
  BY NodesStay DEF Careful
<1>12. QED
  BY <1>0, <1>2, <1>3, <1>6, <1>7, <1>8, <1>9, <1>10, <1>11, NodesStep

\* A command goes through the nodes that were there when it listed them.
LEMMA DueStep ==
    ASSUME TypeOK, Idle, Alone, WritersInv, OpenInv, BackedInv, NamedInv, DueInv, FdInv, Careful,
           [Next]_vars
    PROVE  DueInv'
<1> USE DEF disk, gcState, ghost
<1>0. /\ cmd \in [Cmd -> CmdState] /\ Cmd = {"gc", "fsck"} /\ Overlap # "all" /\ Faults = {}
      /\ \A c \in Cmd : cmd[c] \in CmdState
      /\ NoCmd.pc = "idle"
  BY Basics DEF TypeOK, NoCmd, Careful, Orderly
<1>1. ASSUME NEW c \in Cmd, UNCHANGED nodes, cmd[c].pc = "nodes", cmd'[c].due \subseteq cmd[c].due
      PROVE  cmd'[c].due \subseteq NodeFiles'
  BY <1>1 DEF DueInv, NodeFiles
<1>2. ASSUME NEW c \in Cmd, NEW p \in Path, NEW k \in {0, 1}, UNCHANGED nodes,
             cmd' = Visited(c, p, k), cmd[c].pc = "nodes"
      PROVE  cmd'[c].due \subseteq NodeFiles'
  <2>1. cmd'[c].due = cmd[c].due \ {p}
    BY <1>2, VisitedType
  <2>2. QED
    BY <1>1, <1>2, <2>1
<1>3. ASSUME NEW c \in Cmd, Enumerate(c), cmd[c].pc # "idle", cmd'[c].pc = "nodes"
      PROVE  cmd'[c].due \subseteq NodeFiles'
  <2>1. ~Parse(c)
    BY <1>3 DEF Parse
  <2>2. ASSUME ListCas(c) \/ TrashBit(c) \/ SetBitAgain(c) PROVE FALSE
    BY <1>0, <1>3, <2>2 DEF ListCas, TrashBit, SetBitAgain, CmdState
  <2>3. CASE Missed(c)
    <3>1. cmd'[c].pc = cmd[c].pc /\ cmd'[c].due \subseteq cmd[c].due /\ UNCHANGED nodes
      BY <1>0, <2>3 DEF Missed, CmdState
    <3>2. QED
      BY <1>1, <1>3, <3>1
  <2>4. CASE ListNodes(c)
    <3>1. cmd'[c].due = NodeFiles /\ UNCHANGED nodes
      BY <1>0, <2>4 DEF ListNodes, CmdState
    <3>2. QED
      BY <3>1 DEF NodeFiles
  <2>5. ASSUME WalkCutShort(c) PROVE FALSE
    BY <2>5, NodesMet DEF WalkCutShort, Careful
  <2>6. QED
    BY <1>3, <2>1, <2>2, <2>3, <2>4, <2>5 DEF Enumerate
<1>4. ASSUME Gc, cmd'["gc"].pc = "nodes" PROVE cmd'["gc"].due \subseteq NodeFiles'
  <2>1. ASSUME NEW r, GcReturns(r) PROVE FALSE
    BY <1>0, <1>4, <2>1 DEF GcReturns
  <2>2. ASSUME NEW h \in Hash, GcSeesObject(h) PROVE FALSE
    BY <1>0, <1>4, <2>2, VisitedType DEF GcSeesObject
  <2>3. ASSUME NEW p \in Path, GcReadsNode(p) PROVE cmd'["gc"].due \subseteq NodeFiles'
    BY <1>0, <1>2, <2>3 DEF GcReadsNode
  <2>4. ASSUME GcNodesDone PROVE FALSE
    BY <1>0, <1>4, <2>4 DEF GcNodesDone, CmdState
  <2>5. ASSUME NEW h \in Hash, GcRemoves(h) PROVE FALSE
    BY <1>4, <2>1, <2>5 DEF GcRemoves
  <2>6. QED
    BY <1>4, <2>1, <2>2, <2>3, <2>4, <2>5 DEF Gc, GcMeetsBadNode, GcEnds
<1>5. CASE cmd'["gc"].pc = "nodes"
  <2>1. cmd["gc"].pc # "idle"
    BY <1>0, <1>5, Starts
  <2>2. ASSUME UNCHANGED <<cmd, nodes>> PROVE cmd'["gc"].due \subseteq NodeFiles'
    BY <1>0, <1>1, <1>5, <2>2
  <2>3. ASSUME \E p \in Path : ReaderSetsBit(p) PROVE UNCHANGED <<cmd, nodes>>
    BY <2>3 DEF ReaderSetsBit
  <2>4. Enumerate("gc") \/ Gc \/ UNCHANGED <<cmd, nodes>>
    BY <1>0, <2>1, <2>3, WhileGc, FaultFree DEF vars
  <2>5. cmd'["gc"].due \subseteq NodeFiles'
    BY <1>0, <1>3, <1>4, <1>5, <2>1, <2>2, <2>4
  <2>6. QED
    <3>1. cmd'["fsck"].pc = "idle"
      <4>1. cmd["fsck"].pc = "idle"
        BY <2>1 DEF Alone
      <4>2. QED
        BY <1>0, <2>1, <4>1, Starts DEF Parse, MayStart, Quiet, NoCommand
    <3>2. QED
      BY <1>0, <2>5, <3>1 DEF DueInv
<1>6. CASE cmd'["gc"].pc # "nodes" /\ cmd'["fsck"].pc = "nodes"
  <2>1. cmd["fsck"].pc # "idle"
    BY <1>0, <1>6, Starts
  <2>2. ASSUME UNCHANGED <<cmd, nodes>> PROVE cmd'["fsck"].due \subseteq NodeFiles'
    BY <1>0, <1>1, <1>6, <2>2
  <2>3. ASSUME \E p \in Path : ReaderSetsBit(p) PROVE UNCHANGED <<cmd, nodes>>
    BY <2>3 DEF ReaderSetsBit
  <2>4. ASSUME NEW h \in Hash, FsckSkipsPrefix(h) PROVE FALSE
    BY <1>0, <1>6, <2>4, VisitedType DEF FsckSkipsPrefix
  <2>5. ASSUME NEW h \in Hash, FsckChecksObject(h) PROVE FALSE
    <3>1. Visited("fsck", h, 1) \in [Cmd -> CmdState] /\ Visited("fsck", h, 1)["fsck"].pc = "cas"
      BY <1>0, <2>5, VisitedType DEF FsckChecksObject
    <3>2. \/ cmd' = Visited("fsck", h, 1)
          \/ cmd' = [Visited("fsck", h, 1) EXCEPT !["fsck"].pc = "trash"]
      BY <2>5 DEF FsckChecksObject
    <3>3. QED
      BY <1>0, <1>6, <3>1, <3>2 DEF CmdState
  <2>6. ASSUME FsckTrashesObject PROVE FALSE
    BY <1>0, <1>6, <2>6 DEF FsckTrashesObject, FsckAborts, CmdState
  <2>7. ASSUME NEW p \in Path, FsckKeepsNode(p) PROVE cmd'["fsck"].due \subseteq NodeFiles'
    BY <1>0, <1>2, <2>7 DEF FsckKeepsNode
  <2>8. \A p \in Path : ~FsckTrashesNode(p)
    BY NodesStay DEF Careful
  <2>9. \/ Enumerate("fsck") \/ UNCHANGED <<cmd, nodes>>
        \/ \E p \in Path : FsckKeepsNode(p)
    BY <1>0, <1>6, <2>3, <2>4, <2>5, <2>6, <2>8, FsckGoesOn, FaultFree DEF Enumerate, vars
  <2>10. cmd'["fsck"].due \subseteq NodeFiles'
    BY <1>0, <1>3, <1>6, <2>1, <2>2, <2>7, <2>9
  <2>11. QED
    BY <1>0, <1>6, <2>10 DEF DueInv
<1>7. CASE cmd'["gc"].pc # "nodes" /\ cmd'["fsck"].pc # "nodes"
  BY <1>0, <1>7 DEF DueInv
<1>8. QED
  BY <1>5, <1>6, <1>7

\* gc takes none of its error returns.
LEMMA SuccessStep ==
    ASSUME TypeOK, Alone, MarkInv, WritersInv, OpenInv, BackedInv, NamedInv, DueInv, FdInv, Careful,
           GcSucceeds, [Next]_vars
    PROVE  GcSucceeds'
<1> USE DEF disk, gcState, ghost, GcSucceeds
<1>0. "gc" \in Cmd /\ Faults = {} /\ EnoughFds
  BY DEF Cmd, Careful, Orderly
<1>1. ASSUME NEW a \in Archivers, Archive(a) PROVE UNCHANGED gcResult
  BY <1>1, ArchiveFrame
<1>2. ASSUME NEW c \in Cmd, Enumerate(c) PROVE gcResult' \in {gcResult, "none"}
  <2>1. ~WalkCutShort(c)
    BY <1>0, NodesMet DEF WalkCutShort
  <2>2. QED
    BY <1>2, <2>1 DEF Enumerate, Parse, ListCas, TrashBit, SetBitAgain, Missed, ListNodes
<1>3. ASSUME NEW p \in Path, GcMeetsBadNode(p) PROVE FALSE
  BY <1>0, <1>3, NodesMet DEF GcMeetsBadNode
<1>4. ASSUME NEW h \in Hash, GcRemoves(h) PROVE UNCHANGED gcResult
  <2>1. h \in entries
    BY <1>4 DEF GcRemoves
  <2>2. cas[h] # Absent
    BY <2>1 DEF MarkInv, Stored
  <2>3. QED
    BY <1>4, <2>2 DEF GcRemoves
<1>5. Gc => gcResult' \in {gcResult, "ok"}
  BY <1>3, <1>4 DEF Gc, GcSeesObject, GcReadsNode, GcNodesDone, GcEnds, GcReturns
<1>6. Fsck => gcResult' \in {gcResult, "none"}
  BY DEF Fsck, FsckChecksObject, FsckCannotOpen, FsckSkipsPrefix, FsckKeepsNode,
         FsckTrashesNode, FsckTrashesObject, FsckEnds
<1>7. Environment => UNCHANGED gcResult
  BY <1>0, FaultFree DEF Environment, DeleteNode, ReaderSetsBit
<1>8. QED
  BY <1>1, <1>2, <1>5, <1>6, <1>7 DEF Next, Rest, vars

\* With gc and fsck run alone, no fault, enough file descriptors and a user who deletes
\* only nodes that the tag does not link to, gc finds every node and every entry it
\* reads and every orphan it removes: it never returns an error.
THEOREM GcNeverFails == Careful => (Spec => []GcSucceeds)
<1> SUFFICES ASSUME Careful PROVE Spec => []GcSucceeds
  OBVIOUS
<1>1. Orderly /\ EnoughFds
  BY DEF Careful
<1>2. Spec => [](TypeOK /\ Idle /\ Alone /\ GcInv /\ MarkInv /\ WritersInv /\ BadInv
                 /\ OpenInv /\ BackedInv)
  BY <1>1, OrderlyInvariant
<1>3. Spec => []FdInv
  BY <1>1, FsckInvariant
<1>4. Init => NamedInv /\ DueInv /\ GcSucceeds
  <2> SUFFICES ASSUME Init PROVE NamedInv /\ DueInv /\ GcSucceeds
    OBVIOUS
  <2>1. /\ \A p \in Path : nodes[p] = Absent
        /\ \A n \in Names \cup {Tag} : <<0, n>> \in Path
        /\ \A a \in Archivers : ar[a].pc = "idle"
        /\ \A c \in Cmd : cmd[c].pc = "idle"
        /\ gcResult = "none"
    <3>1. \A p \in Path : nodes[p] = Absent
      BY DEF Init
    <3>2. \A n \in Names \cup {Tag} : <<0, n>> \in Path
      BY BoundsAssumption DEF Path
    <3>3. \A a \in Archivers : ar[a].pc = "idle"
      BY DEF Init, NoArchive
    <3>4. (\A c \in Cmd : cmd[c].pc = "idle") /\ gcResult = "none"
      BY DEF Init, NoCmd
    <3>5. QED
      BY <3>1, <3>2, <3>3, <3>4
  <2>2. Absent \notin Names /\ Absent # Torn
    BY ValuesAssumption
  <2>3. QED
    BY <2>1, <2>2 DEF NamedInv, DueInv, GcSucceeds
<1>5. TypeOK /\ Idle /\ Alone /\ MarkInv /\ WritersInv /\ OpenInv /\ BackedInv /\ FdInv
      /\ NamedInv /\ DueInv /\ GcSucceeds /\ [Next]_vars => NamedInv' /\ DueInv' /\ GcSucceeds'
  BY NamedStep, DueStep, SuccessStep
<1>6. QED
  BY <1>2, <1>3, <1>4, <1>5, PTL DEF Spec
=============================================================================
