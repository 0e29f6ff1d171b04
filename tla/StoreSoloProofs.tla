-------------------------- MODULE StoreSoloProofs --------------------------
(***************************************************************************)
(* Theorems about module Store when gc and fsck run alone, that is when    *)
(* Overlap is not "all": archives run with each other at most.             *)
(***************************************************************************)
EXTENDS StoreProofs, FiniteSetTheorems

\* A command that is not running holds nothing: gc has no map, fsck no object that
\* it is about to move.
Idle ==
    /\ \A c \in Cmd : cmd[c].pc = "idle" => cmd[c] = NoCmd
    /\ cmd["gc"].pc = "idle" => entries = {} /\ tagged = {}
    /\ cmd["fsck"].pc = "trash" <=> bad # Absent

\* At most one of gc and fsck runs, and no archive with it.
Alone ==
    /\ cmd["gc"].pc = "idle" \/ cmd["fsck"].pc = "idle"
    /\ NoCommand \/ \A a \in Archivers : ar[a].pc = "idle"

\* Visiting something adds it to what was met and counts the file left open.
LEMMA VisitedRest ==
    ASSUME TypeOK, NEW c \in Cmd, NEW x \in Hash \cup Path, NEW k \in {0, 1}
    PROVE  /\ Visited(c, x, k)[c].vis = cmd[c].vis \cup {x}
           /\ Visited(c, x, k)[c].fds = cmd[c].fds + k
<1> DEFINE new == [cmd[c] EXCEPT !.due = @ \ {x}, !.vis = @ \cup {x}, !.fds = @ + k]
<1>1. cmd[c] \in CmdState
  BY DEF TypeOK
<1>2. new.vis = cmd[c].vis \cup {x} /\ new.fds = cmd[c].fds + k
  BY <1>1 DEF CmdState
<1>3. Visited(c, x, k) = [cmd EXCEPT ![c] = new]
  BY <1>1 DEF Visited, TypeOK, CmdState
<1>4. QED
  BY <1>2, <1>3 DEF TypeOK

\* Facts about the constants and the types that most steps need.
LEMMA Basics ==
    ASSUME TypeOK
    PROVE  /\ cmd \in [Cmd -> CmdState] /\ ar \in [Archivers -> ArchiveState]
           /\ Cmd = {"gc", "fsck"} /\ cmd["gc"] \in CmdState /\ cmd["fsck"] \in CmdState
           /\ \A n \in Names \cup {Tag} : <<0, n>> \in Path
BY BoundsAssumption DEF TypeOK, Cmd, Path

\* A step of a command touches no archive and not the other command; it leaves
\* nothing behind when the command ends.
LEMMA CommandStep ==
    ASSUME TypeOK, Idle, NEW c \in Cmd,
           Enumerate(c) \/ (c = "gc" /\ Gc) \/ (c = "fsck" /\ Fsck)
    PROVE  /\ UNCHANGED ar
           /\ \A d \in Cmd \ {c} : cmd'[d] = cmd[d]
           /\ cmd[c].pc = "idle" => Parse(c)
           /\ cmd'[c].pc = "idle" => cmd'[c] = NoCmd
           /\ c # "gc" => UNCHANGED <<entries, tagged>>
           /\ c = "gc" => UNCHANGED bad
           /\ c = "gc" /\ cmd'["gc"].pc = "idle" => entries' = {} /\ tagged' = {}
           /\ c = "fsck" => (cmd'["fsck"].pc = "trash" <=> bad' # Absent)
<1> USE DEF disk, gcState, ghost
<1>0. /\ cmd \in [Cmd -> CmdState] /\ "gc" \in Cmd /\ "fsck" \in Cmd
      /\ cmd["gc"] \in CmdState /\ cmd["fsck"] \in CmdState /\ cmd[c] \in CmdState
      /\ Absent \notin Hash
  BY Basics, ValuesAssumption
<1>1. CASE Parse(c)
  <2>1. cmd'[c].pc = "list" /\ \A d \in Cmd \ {c} : cmd'[d] = cmd[d]
    BY <1>0, <1>1 DEF Parse, CmdState
  <2>2. UNCHANGED <<ar, entries, tagged, bad>> /\ cmd[c].pc = "idle"
    BY <1>1 DEF Parse
  <2>3. QED
    BY <1>1, <2>1, <2>2 DEF Idle
<1>2. CASE ListCas(c) \/ TrashBit(c) \/ SetBitAgain(c) \/ ListNodes(c)
  <2>1. /\ cmd[c].pc \in {"list", "cas", "setbit"} /\ cmd'[c].pc \in {"cas", "setbit", "nodes"}
        /\ \A d \in Cmd \ {c} : cmd'[d] = cmd[d]
    BY <1>0, <1>2 DEF ListCas, TrashBit, SetBitAgain, ListNodes, CmdState
  <2>2. UNCHANGED <<ar, entries, tagged, bad>>
    BY <1>2 DEF ListCas, TrashBit, SetBitAgain, ListNodes
  <2>3. QED
    BY <2>1, <2>2 DEF Idle
<1>3. CASE Missed(c)
  <2>1. /\ cmd[c].pc \in {"cas", "nodes"} /\ cmd'[c].pc = cmd[c].pc
        /\ \A d \in Cmd \ {c} : cmd'[d] = cmd[d]
    BY <1>0, <1>3 DEF Missed, CmdState
  <2>2. UNCHANGED <<ar, entries, tagged, bad>>
    BY <1>3 DEF Missed
  <2>3. QED
    BY <2>1, <2>2 DEF Idle
<1>4. CASE WalkCutShort(c)
  <2>1. cmd[c].pc = "nodes" /\ UNCHANGED <<ar, bad>> /\ \A d \in Cmd \ {c} : cmd'[d] = cmd[d]
    BY <1>0, <1>4 DEF WalkCutShort, GcReturns
  <2>2. CASE c = "gc"
    <3>1. cmd'[c] = NoCmd /\ entries' = {} /\ tagged' = {}
      BY <1>0, <1>4, <2>2 DEF WalkCutShort, GcReturns
    <3>2. QED
      BY <2>1, <2>2, <3>1
  <2>3. CASE c # "gc"
    <3>1. cmd'[c].pc = "nodes" /\ UNCHANGED <<entries, tagged>>
      BY <1>0, <1>4, <2>1, <2>3 DEF WalkCutShort, CmdState
    <3>2. QED
      BY <2>1, <2>3, <3>1 DEF Idle
  <2>4. QED
    BY <2>2, <2>3
<1>5. CASE c = "gc" /\ Gc
  <2>1. ASSUME NEW r, GcReturns(r)
        PROVE  /\ cmd'["gc"] = NoCmd /\ \A d \in Cmd \ {"gc"} : cmd'[d] = cmd[d]
               /\ entries' = {} /\ tagged' = {}
    BY <1>0, <2>1 DEF GcReturns
  <2>2. UNCHANGED <<ar, bad>> /\ cmd["gc"].pc # "idle"
    BY <1>5 DEF Gc, GcSeesObject, GcReadsNode, GcMeetsBadNode, GcNodesDone, GcRemoves, GcEnds
  <2>3. ASSUME NEW h \in Hash, GcSeesObject(h)
        PROVE  cmd'["gc"].pc # "idle" /\ \A d \in Cmd \ {"gc"} : cmd'[d] = cmd[d]
    BY <1>0, <2>3, VisitedType DEF GcSeesObject
  <2>4. ASSUME NEW p \in Path, GcReadsNode(p)
        PROVE  cmd'["gc"].pc # "idle" /\ \A d \in Cmd \ {"gc"} : cmd'[d] = cmd[d]
    BY <1>0, <2>4, VisitedType DEF GcReadsNode
  <2>5. ASSUME GcNodesDone
        PROVE  cmd'["gc"].pc # "idle" /\ \A d \in Cmd \ {"gc"} : cmd'[d] = cmd[d]
    BY <1>0, <2>5 DEF GcNodesDone, CmdState
  <2>6. ASSUME \/ \E h \in Hash : GcRemoves(h)
               \/ \E p \in Path : GcMeetsBadNode(p)
               \/ GcEnds
        PROVE  UNCHANGED cmd \/ \E r : GcReturns(r)
    BY <2>6 DEF GcMeetsBadNode, GcRemoves, GcEnds
  <2>7. QED
    BY <1>5, <2>1, <2>2, <2>3, <2>4, <2>5, <2>6 DEF Gc
<1>6. CASE c = "fsck" /\ Fsck
  <2>1. UNCHANGED <<ar, entries, tagged>> /\ cmd["fsck"].pc # "idle"
    BY <1>6 DEF Fsck, FsckChecksObject, FsckCannotOpen, FsckSkipsPrefix, FsckKeepsNode,
                FsckTrashesNode, FsckTrashesObject, FsckEnds
  <2>2. ASSUME FsckAborts
        PROVE  cmd'["fsck"] = NoCmd /\ \A d \in Cmd \ {"fsck"} : cmd'[d] = cmd[d]
    BY <1>0, <2>2 DEF FsckAborts
  <2>3. ASSUME NEW h \in Hash, FsckChecksObject(h)
        PROVE  /\ \A d \in Cmd \ {"fsck"} : cmd'[d] = cmd[d]
               /\ cmd'["fsck"].pc # "idle" /\ (cmd'["fsck"].pc = "trash" <=> bad' # Absent)
    <3>1. /\ Visited("fsck", h, 1) \in [Cmd -> CmdState]
          /\ \A d \in Cmd \ {"fsck"} : Visited("fsck", h, 1)[d] = cmd[d]
          /\ Visited("fsck", h, 1)["fsck"].pc = "cas" /\ bad = Absent
      BY <1>0, <2>3, VisitedType DEF FsckChecksObject, Idle
    <3>2. CASE cas[h] = h
      BY <2>3, <3>1, <3>2 DEF FsckChecksObject
    <3>3. CASE cas[h] # h
      <4>1. cmd' = [Visited("fsck", h, 1) EXCEPT !["fsck"].pc = "trash"] /\ bad' = h
        BY <2>3, <3>3 DEF FsckChecksObject
      <4>2. QED
        BY <1>0, <3>1, <4>1 DEF CmdState
    <3>4. QED
      BY <3>2, <3>3
  <2>4. ASSUME NEW h \in Hash, FsckSkipsPrefix(h)
        PROVE  /\ \A d \in Cmd \ {"fsck"} : cmd'[d] = cmd[d]
               /\ cmd'["fsck"].pc = cmd["fsck"].pc /\ UNCHANGED bad
    BY <1>0, <2>4, VisitedType DEF FsckSkipsPrefix
  <2>5. ASSUME NEW p \in Path, FsckKeepsNode(p) \/ FsckTrashesNode(p)
        PROVE  /\ \A d \in Cmd \ {"fsck"} : cmd'[d] = cmd[d]
               /\ cmd'["fsck"].pc = cmd["fsck"].pc /\ UNCHANGED bad
    BY <1>0, <2>5, VisitedType DEF FsckKeepsNode, FsckTrashesNode
  <2>6. ASSUME NEW h \in Hash, FsckCannotOpen(h)
        PROVE  FsckAborts /\ bad' = Absent
    BY <2>6 DEF FsckCannotOpen, Idle
  <2>7. ASSUME FsckTrashesObject \/ FsckEnds
        PROVE  /\ \A d \in Cmd \ {"fsck"} : cmd'[d] = cmd[d]
               /\ cmd'["fsck"] = NoCmd \/ cmd'["fsck"].pc = "cas"
               /\ bad' = Absent
    BY <1>0, <2>7 DEF FsckTrashesObject, FsckEnds, FsckAborts, CmdState, Idle
  <2>8. NoCmd.pc = "idle"
    BY DEF NoCmd
  <2>9. QED
    BY <1>6, <2>1, <2>2, <2>3, <2>4, <2>5, <2>6, <2>7, <2>8 DEF Fsck, Idle
<1>7. QED
  BY <1>1, <1>2, <1>3, <1>4, <1>5, <1>6 DEF Enumerate

\* Archive processes do not touch the commands' state.
LEMMA ArchiveFrame ==
    ASSUME TypeOK, NEW a \in Archivers, Archive(a)
    PROVE  /\ UNCHANGED <<needFsck, cmd, entries, tagged, bad, gcResult>>
           /\ \A b \in Archivers \ {a} : ar'[b] = ar[b]
           /\ ar[a].pc = "idle" => MayArchive
<1> USE DEF disk, gcState, ghost
<1>1. ar \in [Archivers -> ArchiveState]
  BY DEF TypeOK
<1>2. UNCHANGED <<needFsck, cmd, entries, tagged, bad, gcResult>>
  BY DEF Archive, ArchiveStart, AddEntry, AddFails, CopyEnds, CopyOfChangedFile, CopyFails,
         Copied, NodeCreate, NodeWrite, Untag, LinkTag, OpenTag, RewriteTag
<1>3. \A b \in Archivers \ {a} : ar'[b] = ar[b]
  BY <1>1 DEF Archive, ArchiveStart, AddEntry, AddFails, CopyEnds, CopyOfChangedFile, CopyFails,
         Copied, NodeCreate, NodeWrite, Untag, LinkTag, OpenTag, RewriteTag
<1>4. ar[a].pc = "idle" => MayArchive
  BY DEF Archive, ArchiveStart, AddEntry, AddFails, CopyEnds, CopyOfChangedFile, CopyFails,
         Copied, NodeCreate, NodeWrite, Untag, LinkTag, OpenTag, RewriteTag
<1>5. QED
  BY <1>2, <1>3, <1>4

\* A user, a reader or a fault at most ends processes.
LEMMA EnvironmentFrame ==
    ASSUME TypeOK, Environment
    PROVE  /\ \A a \in Archivers : ar'[a] \in {ar[a], NoArchive}
           /\ \/ UNCHANGED <<cmd, entries, tagged, bad>>
              \/ CommandKilled("gc") \/ CommandKilled("fsck")
<1> USE DEF disk, gcState, ghost
<1>1. ar \in [Archivers -> ArchiveState]
  BY DEF TypeOK
<1>2. \A a \in Archivers : ar'[a] \in {ar[a], NoArchive}
  BY <1>1 DEF Environment, DeleteNode, ReaderSetsBit, ArchiveKilled, CommandKilled,
              CorruptObject, CorruptNode
<1>3. QED
  BY <1>2 DEF Environment, DeleteNode, ReaderSetsBit, ArchiveKilled, Cmd, CorruptObject, CorruptNode

\* Killing a command leaves nothing of it but what it did to the disk.
LEMMA KilledFrame ==
    ASSUME TypeOK, NEW c \in Cmd, CommandKilled(c)
    PROVE  /\ cmd'[c] = NoCmd /\ \A d \in Cmd \ {c} : cmd'[d] = cmd[d]
           /\ c = "gc" => entries' = {} /\ tagged' = {} /\ UNCHANGED bad
           /\ c # "gc" => bad' = Absent /\ UNCHANGED <<entries, tagged>>
           /\ UNCHANGED <<ar, disk>> /\ calm' = FALSE
<1>1. cmd \in [Cmd -> CmdState] /\ Cmd = {"gc", "fsck"}
  BY Basics
<1>2. UNCHANGED <<ar, disk>> /\ calm' = FALSE
  BY DEF CommandKilled, Fault, NoCommand
<1>3. QED
  BY <1>1, <1>2 DEF CommandKilled, GcReturns, FsckAborts, gcState

\* A command that ends forgets what it held.
LEMMA IdleStep ==
    ASSUME TypeOK, Idle, [Next]_vars
    PROVE  Idle'
<1>0. Cmd = {"gc", "fsck"} /\ NoCmd.pc = "idle"
  BY DEF Cmd, NoCmd
<1>1. ASSUME UNCHANGED <<cmd, entries, tagged, bad>> PROVE Idle'
  BY <1>1 DEF Idle
<1>2. ASSUME NEW c \in Cmd, Enumerate(c) \/ (c = "gc" /\ Gc) \/ (c = "fsck" /\ Fsck)
      PROVE  Idle'
  <2>1. CASE c = "gc"
    BY <1>0, <1>2, <2>1, CommandStep DEF Idle
  <2>2. CASE c = "fsck"
    BY <1>0, <1>2, <2>2, CommandStep DEF Idle
  <2>3. QED
    BY <1>0, <2>1, <2>2
<1>3. ASSUME NEW c \in Cmd, CommandKilled(c) PROVE Idle'
  <2>1. CASE c = "gc"
    BY <1>0, <1>3, <2>1, KilledFrame DEF Idle
  <2>2. CASE c = "fsck"
    BY <1>0, <1>3, <2>2, KilledFrame DEF Idle
  <2>3. QED
    BY <1>0, <2>1, <2>2
<1>4. ASSUME NEW a \in Archivers, Archive(a) PROVE Idle'
  BY <1>1, <1>4, ArchiveFrame
<1>5. CASE Environment
  BY <1>0, <1>1, <1>3, <1>5, EnvironmentFrame
<1>6. CASE Rest \/ UNCHANGED vars
  BY <1>1, <1>6 DEF Rest, vars, gcState
<1>7. QED
  BY <1>0, <1>2, <1>4, <1>5, <1>6 DEF Next

\* Commands start when nothing runs, and archives when no command does.
LEMMA AloneStep ==
    ASSUME TypeOK, Idle, Alone, Overlap # "all", [Next]_vars
    PROVE  Alone'
<1>0. Cmd = {"gc", "fsck"} /\ NoCmd.pc = "idle" /\ NoArchive.pc = "idle"
  BY DEF Cmd, NoCmd, NoArchive
<1>1. CASE UNCHANGED <<cmd, ar>>
  BY <1>1 DEF Alone, NoCommand
<1>2. ASSUME NEW c \in Cmd, Enumerate(c) \/ (c = "gc" /\ Gc) \/ (c = "fsck" /\ Fsck)
      PROVE  Alone'
  <2>1. UNCHANGED ar /\ \A d \in Cmd \ {c} : cmd'[d] = cmd[d]
    BY <1>2, CommandStep
  <2>2. /\ \A d \in Cmd \ {c} : cmd[d].pc = "idle"
        /\ \A a \in Archivers : ar[a].pc = "idle"
    <3>1. CASE cmd[c].pc = "idle"
      BY <1>2, <3>1, CommandStep DEF Parse, MayStart, Quiet, NoCommand
    <3>2. CASE cmd[c].pc # "idle"
      BY <1>0, <3>2 DEF Alone, NoCommand
    <3>3. QED
      BY <3>1, <3>2
  <2>3. QED
    BY <1>0, <2>1, <2>2 DEF Alone
<1>3. ASSUME NEW a \in Archivers, Archive(a) PROVE Alone'
  <2>1. NoCommand
    BY <1>3, ArchiveFrame DEF MayArchive, MayStart, Quiet, Alone
  <2>2. UNCHANGED cmd
    BY <1>3, ArchiveFrame
  <2>3. QED
    BY <1>0, <2>1, <2>2 DEF Alone, NoCommand
<1>4. CASE Environment
  <2>1. \A a \in Archivers : ar[a].pc = "idle" => ar'[a].pc = "idle"
    BY <1>0, <1>4, EnvironmentFrame
  <2>2. \A c \in Cmd : cmd[c].pc = "idle" => cmd'[c].pc = "idle"
    BY <1>0, <1>4, EnvironmentFrame, KilledFrame
  <2>3. QED
    BY <1>0, <2>1, <2>2 DEF Alone, NoCommand
<1>5. QED
  BY <1>0, <1>1, <1>2, <1>3, <1>4 DEF Next, Rest, vars

\* While gc runs, only gc, readers and faults take steps.
LEMMA WhileGc ==
    ASSUME TypeOK, Idle, Alone, Overlap # "all", [Next]_vars, cmd["gc"].pc # "idle"
    PROVE  \/ Enumerate("gc") \/ Gc \/ CommandKilled("gc")
           \/ \E p \in Path : ReaderSetsBit(p) \/ CorruptNode(p)
           \/ \E h \in Hash : CorruptObject(h)
           \/ UNCHANGED vars
<1>0. Cmd = {"gc", "fsck"}
  BY DEF Cmd
<1>1. cmd["fsck"].pc = "idle" /\ \A a \in Archivers : ar[a].pc = "idle"
  BY <1>0 DEF Alone, NoCommand
<1>2. ~Quiet /\ ~MayStart /\ ~MayArchive
  BY <1>0 DEF Quiet, MayStart, MayArchive, NoCommand
<1>3. ASSUME NEW a \in Archivers PROVE ~Archive(a) /\ ~ArchiveKilled(a)
  BY <1>1, <1>2, ArchiveFrame DEF ArchiveKilled
<1>4. ~Enumerate("fsck") /\ ~Fsck /\ ~CommandKilled("fsck")
  BY <1>0, <1>1, <1>2, CommandStep DEF Parse, CommandKilled
<1>5. QED
  BY <1>0, <1>2, <1>3, <1>4 DEF Next, Environment, Rest, DeleteNode

\* While fsck runs, only fsck, readers and faults take steps.
LEMMA WhileFsck ==
    ASSUME TypeOK, Idle, Alone, Overlap # "all", [Next]_vars, cmd["fsck"].pc # "idle"
    PROVE  \/ Enumerate("fsck") \/ Fsck \/ CommandKilled("fsck")
           \/ \E p \in Path : ReaderSetsBit(p) \/ CorruptNode(p)
           \/ \E h \in Hash : CorruptObject(h)
           \/ UNCHANGED vars
<1>0. Cmd = {"gc", "fsck"}
  BY DEF Cmd
<1>1. cmd["gc"].pc = "idle" /\ \A a \in Archivers : ar[a].pc = "idle"
  BY <1>0 DEF Alone, NoCommand
<1>2. ~Quiet /\ ~MayStart /\ ~MayArchive
  BY <1>0 DEF Quiet, MayStart, MayArchive, NoCommand
<1>3. ASSUME NEW a \in Archivers PROVE ~Archive(a) /\ ~ArchiveKilled(a)
  BY <1>1, <1>2, ArchiveFrame DEF ArchiveKilled
<1>4. ~Enumerate("gc") /\ ~Gc /\ ~CommandKilled("gc")
  BY <1>0, <1>1, <1>2, CommandStep DEF Parse, CommandKilled
<1>5. QED
  BY <1>0, <1>2, <1>3, <1>4 DEF Next, Environment, Rest, DeleteNode

-----------------------------------------------------------------------------
(* gc alone *)

\* What gc knows.  Before it lists the nodes, every object is in its map or still to
\* be met; after that every object is in the map, and every node that can be read,
\* in nodes/ or in its trash, is still due or has its objects tagged.  What is
\* tagged is referenced, unless a fault has hit a node since.
MarkInv ==
    /\ cmd["gc"].pc \in {"cas", "setbit"} => Stored \subseteq cmd["gc"].due \cup entries
    /\ cmd["gc"].pc \in {"nodes", "remove"} =>
          /\ Stored \subseteq entries
          /\ \A p \in Path : Readable(p) => \/ p \in cmd["gc"].due
                                            \/ Closure(EntryOf(p)) \subseteq tagged
    /\ calm => tagged \subseteq Referenced
    /\ entries \subseteq Stored

\* What the nodes lead to depends on the nodes only.
LEMMA SameNodes ==
    ASSUME UNCHANGED nodes
    PROVE  /\ Referenced' = Referenced
           /\ \A p \in Path : Readable(p)' = Readable(p) /\ EntryOf(p)' = EntryOf(p)
<1>1. \A p : Readable(p)' = Readable(p) /\ EntryOf(p)' = EntryOf(p)
  BY DEF Readable, EntryOf, Target
<1>2. QED
  BY <1>1 DEF Referenced

\* A node that cannot be read any more leads nowhere; the others lead where they did.
LEMMA FewerNodes ==
    ASSUME TypeOK, NEW q \in Path, nodes' = [nodes EXCEPT ![q] = Torn], nodes[q] \in Entries,
           NEW p \in Path, Readable(p)'
    PROVE  Readable(p) /\ EntryOf(p)' = EntryOf(p)
<1>1. nodes \in [Path -> NodeContent \cup {Absent}] /\ Torn \notin Entries /\ Torn \notin Names
  BY ValuesAssumption DEF TypeOK, Hash
<1>2. Entries \cap Names = {}
  BY ValuesAssumption DEF Hash
<1>3. Target(p) \in Path
  BY TargetType
<1>4. CASE p = q
  BY <1>1, <1>4 DEF Readable, EntryOf, Target
<1>5. CASE p # q
  <2>1. Target(p)' = Target(p)
    BY <1>1, <1>5 DEF Target
  <2>2. nodes'[Target(p)] \in Entries
    BY <2>1 DEF Readable, EntryOf
  <2>3. Target(p) # q
    BY <1>1, <2>2
  <2>4. QED
    BY <1>1, <1>3, <2>1, <2>2, <2>3 DEF Readable, EntryOf
<1>6. QED
  BY <1>4, <1>5

\* An object is referenced by a node that can be read.
LEMMA ReferencedBy ==
    ASSUME NEW p \in Path, Readable(p)
    PROVE  Closure(EntryOf(p)) \subseteq Referenced
BY DEF Referenced

\* A command starts with its list of objects to make.
LEMMA Starts ==
    ASSUME TypeOK, Idle, [Next]_vars, NEW c \in Cmd,
           cmd[c].pc = "idle", cmd'[c].pc # "idle"
    PROVE  /\ Parse(c) /\ cmd'[c].pc = "list" /\ cmd'[c].due = {} /\ cmd'[c].vis = {}
           /\ cmd'[c].fds = 0 /\ UNCHANGED <<cas, nodes, entries, tagged, ar>>
<1>0. Cmd = {"gc", "fsck"} /\ NoCmd.pc = "idle" /\ cmd \in [Cmd -> CmdState]
  BY DEF Cmd, NoCmd, TypeOK
<1>1. ASSUME NEW d \in Cmd, Enumerate(d) \/ (d = "gc" /\ Gc) \/ (d = "fsck" /\ Fsck)
      PROVE  Parse(c)
  <2>1. d = c
    BY <1>1, CommandStep
  <2>2. QED
    BY <1>1, <2>1, CommandStep
<1>2. ASSUME NEW a \in Archivers, Archive(a) PROVE FALSE
  BY <1>2, ArchiveFrame
<1>3. CASE Environment
  BY <1>0, <1>3, EnvironmentFrame, KilledFrame
<1>4. Parse(c)
  BY <1>0, <1>1, <1>2, <1>3 DEF Next, Rest, vars
<1>5. cmd[c] = NoCmd /\ cmd' = [cmd EXCEPT ![c].pc = "list"]
  BY <1>4 DEF Idle, Parse
<1>6. cmd'[c] = [NoCmd EXCEPT !.pc = "list"]
  BY <1>0, <1>5
<1>7. QED
  BY <1>4, <1>6 DEF Parse, NoCmd, disk

\* Every step keeps what gc knows.
LEMMA MarkStep ==
    ASSUME TypeOK, Idle, Idle', Alone, Overlap # "all", MarkInv, [Next]_vars
    PROVE  MarkInv'
<1> USE DEF disk, gcState, ghost
<1>0. /\ cmd \in [Cmd -> CmdState] /\ "gc" \in Cmd /\ cmd["gc"] \in CmdState
      /\ cas \in [Hash -> Content \cup {Absent}]
  BY Basics DEF TypeOK
<1>1. CASE cmd'["gc"].pc = "idle"
  BY <1>1 DEF Idle, MarkInv
<1>2. CASE cmd["gc"].pc = "idle" /\ cmd'["gc"].pc # "idle"
  <2>1. cmd'["gc"].pc = "list" /\ UNCHANGED <<entries, tagged>>
    BY <1>0, <1>2, Starts
  <2>2. entries' = {} /\ tagged' = {}
    BY <1>2, <2>1 DEF Idle
  <2>3. QED
    BY <2>1, <2>2 DEF MarkInv
<1> SUFFICES ASSUME cmd["gc"].pc # "idle", cmd'["gc"].pc # "idle" PROVE MarkInv'
  BY <1>1, <1>2
<1>3. ASSUME UNCHANGED <<cas, nodes, cmd, entries, tagged, calm>> PROVE MarkInv'
  <2>1. Stored' = Stored
    BY <1>3 DEF Stored
  <2>2. QED
    BY <1>3, <2>1, SameNodes DEF MarkInv
<1>4. ASSUME NEW h \in Hash, CorruptObject(h) PROVE MarkInv'
  <2>1. Stored' = Stored
    BY <1>0, <1>4, ValuesAssumption DEF CorruptObject, Stored
  <2>2. UNCHANGED <<nodes, cmd, entries, tagged>> /\ calm' = FALSE
    BY <1>0, <1>4 DEF CorruptObject, Fault, NoCommand
  <2>3. QED
    BY <2>1, <2>2, SameNodes DEF MarkInv
<1>5. ASSUME NEW q \in Path, CorruptNode(q) PROVE MarkInv'
  <2>1. UNCHANGED <<cas, cmd, entries, tagged>> /\ calm' = FALSE
    BY <1>0, <1>5 DEF CorruptNode, Fault, NoCommand
  <2>2. Stored' = Stored
    BY <2>1 DEF Stored
  <2>3. \A p \in Path : Readable(p)' => Readable(p) /\ EntryOf(p)' = EntryOf(p)
    BY <1>5, FewerNodes DEF CorruptNode
  <2>4. QED
    BY <2>1, <2>2, <2>3 DEF MarkInv
<1>6. ASSUME UNCHANGED <<cas, nodes, entries, tagged, calm>>,
             cmd'["gc"].pc \in {"cas", "setbit"}, Stored \subseteq cmd'["gc"].due \cup entries
      PROVE  MarkInv'
  <2>1. Stored' = Stored
    BY <1>6 DEF Stored
  <2>2. QED
    BY <1>6, <2>1, SameNodes DEF MarkInv
<1>7. ASSUME UNCHANGED <<cas, nodes, calm, entries>>,
             cmd'["gc"].pc \in {"nodes", "remove"}, Stored \subseteq entries,
             \A p \in Path : Readable(p) => \/ p \in cmd'["gc"].due
                                            \/ Closure(EntryOf(p)) \subseteq tagged',
             calm => tagged' \subseteq Referenced
      PROVE  MarkInv'
  <2>1. Stored' = Stored
    BY <1>7 DEF Stored
  <2>2. QED
    BY <1>7, <2>1, SameNodes DEF MarkInv
<1>8. CASE ListCas("gc")
  <2>1. cmd'["gc"].pc = "cas" /\ cmd'["gc"].due = Stored
    BY <1>0, <1>8 DEF ListCas, CmdState
  <2>2. QED
    BY <1>6, <1>8, <2>1 DEF ListCas
<1>9. CASE TrashBit("gc") \/ SetBitAgain("gc")
  <2>1. /\ cmd["gc"].pc \in {"cas", "setbit"} /\ cmd'["gc"].pc \in {"cas", "setbit"}
        /\ cmd'["gc"].due = cmd["gc"].due
    BY <1>0, <1>9 DEF TrashBit, SetBitAgain, CmdState
  <2>2. Stored \subseteq cmd'["gc"].due \cup entries
    BY <2>1 DEF MarkInv
  <2>3. QED
    BY <1>6, <1>9, <2>1, <2>2 DEF TrashBit, SetBitAgain
<1>10. CASE Missed("gc")
  <2>1. CASE cmd["gc"].pc = "cas"
    <3>1. PICK h \in cmd["gc"].due \ Stored : cmd' = [cmd EXCEPT !["gc"].due = @ \ {h}]
      BY <1>10, <2>1 DEF Missed
    <3>2. cmd'["gc"].pc = "cas" /\ cmd'["gc"].due = cmd["gc"].due \ {h}
      BY <1>0, <2>1, <3>1 DEF CmdState
    <3>3. Stored \subseteq cmd'["gc"].due \cup entries
      BY <2>1, <3>1, <3>2 DEF MarkInv
    <3>4. QED
      BY <1>6, <1>10, <3>2, <3>3 DEF Missed
  <2>2. CASE cmd["gc"].pc = "nodes"
    <3>1. PICK q \in cmd["gc"].due \ NodeFiles : cmd' = [cmd EXCEPT !["gc"].due = @ \ {q}]
      BY <1>10, <2>2 DEF Missed
    <3>2. cmd'["gc"].pc = "nodes" /\ cmd'["gc"].due = cmd["gc"].due \ {q}
      BY <1>0, <2>2, <3>1 DEF CmdState
    <3>3. \A p \in Path : Readable(p) => p # q
      BY <3>1, ValuesAssumption DEF NodeFiles, Readable, EntryOf, Target, Hash
    <3>4. \A p \in Path : Readable(p) => \/ p \in cmd'["gc"].due
                                         \/ Closure(EntryOf(p)) \subseteq tagged
      BY <2>2, <3>2, <3>3 DEF MarkInv
    <3>5. QED
      BY <1>7, <1>10, <2>2, <3>2, <3>4 DEF Missed, MarkInv
  <2>3. QED
    BY <1>10, <2>1, <2>2 DEF Missed
<1>11. CASE ListNodes("gc")
  <2>1. cmd["gc"].pc = "cas" /\ cmd["gc"].due = {}
        /\ cmd'["gc"].pc = "nodes" /\ cmd'["gc"].due = NodeFiles
    BY <1>0, <1>11 DEF ListNodes, CmdState
  <2>2. Stored \subseteq entries
    BY <2>1 DEF MarkInv
  <2>3. \A p \in Path : Readable(p) => p \in NodeFiles
    BY ValuesAssumption DEF NodeFiles, Readable, EntryOf, Target, Hash
  <2>4. QED
    BY <1>7, <1>11, <2>1, <2>2, <2>3 DEF ListNodes, MarkInv
<1>12. ASSUME NEW h \in Hash, GcSeesObject(h) PROVE MarkInv'
  <2>1. /\ cmd["gc"].pc = "cas" /\ cmd'["gc"].pc = "cas"
        /\ cmd'["gc"].due = cmd["gc"].due \ {h}
    BY <1>0, <1>12, VisitedType DEF GcSeesObject
  <2>2. h \in Stored /\ entries' = entries \cup {h} /\ UNCHANGED <<cas, nodes, tagged, calm>>
    BY <1>12 DEF GcSeesObject
  <2>3. Stored' = Stored
    BY <2>2 DEF Stored
  <2>4. QED
    BY <2>1, <2>2, <2>3, SameNodes DEF MarkInv
<1>13. ASSUME NEW q \in Path, GcReadsNode(q) PROVE MarkInv'
  <2>1. /\ cmd["gc"].pc = "nodes" /\ cmd'["gc"].pc = "nodes"
        /\ cmd'["gc"].due = cmd["gc"].due \ {q}
    BY <1>0, <1>13, VisitedType DEF GcReadsNode
  <2>2. tagged' = tagged \cup Closure(EntryOf(q)) /\ Readable(q)
    BY <1>13 DEF GcReadsNode, Closure, Loads
  <2>3. \A p \in Path : Readable(p) => \/ p \in cmd'["gc"].due
                                       \/ Closure(EntryOf(p)) \subseteq tagged'
    BY <2>1, <2>2 DEF MarkInv
  <2>4. calm => tagged' \subseteq Referenced
    BY <2>2, ReferencedBy DEF MarkInv
  <2>5. QED
    BY <1>7, <1>13, <2>1, <2>3, <2>4 DEF GcReadsNode, MarkInv
<1>14. CASE GcNodesDone
  <2>1. /\ cmd["gc"].pc = "nodes" /\ cmd'["gc"].pc = "remove"
        /\ cmd'["gc"].due = cmd["gc"].due
    BY <1>0, <1>14 DEF GcNodesDone, CmdState
  <2>2. QED
    BY <1>7, <1>14, <2>1 DEF GcNodesDone, MarkInv
<1>15. ASSUME NEW h \in Hash, GcRemoves(h) PROVE MarkInv'
  <2>1. cas[h] # Absent
    BY <1>0, <1>15 DEF GcRemoves, GcReturns, NoCmd
  <2>2. /\ cas' = [cas EXCEPT ![h] = Absent] /\ entries' = entries \ {h}
        /\ UNCHANGED <<nodes, cmd, tagged, calm>> /\ cmd["gc"].pc = "remove"
    BY <1>15, <2>1 DEF GcRemoves, MoveToTrash
  <2>3. Stored' = Stored \ {h}
    BY <1>0, <2>2 DEF Stored
  <2>4. QED
    BY <2>2, <2>3, SameNodes DEF MarkInv
<1>16. ASSUME NEW r PROVE ~GcReturns(r)
  BY <1>0 DEF GcReturns, NoCmd
<1>17. CASE Gc
  BY <1>12, <1>13, <1>14, <1>15, <1>16, <1>17 DEF Gc, GcMeetsBadNode, GcEnds
<1>18. CASE Enumerate("gc")
  BY <1>8, <1>9, <1>10, <1>11, <1>16, <1>18 DEF Enumerate, Parse, WalkCutShort
<1>19. CASE CommandKilled("gc")
  BY <1>16, <1>19 DEF CommandKilled
<1>20. ASSUME NEW p \in Path, ReaderSetsBit(p) PROVE MarkInv'
  BY <1>3, <1>20 DEF ReaderSetsBit
<1>21. CASE UNCHANGED vars
  BY <1>3, <1>21 DEF vars
<1>22. QED
  BY <1>4, <1>5, <1>17, <1>18, <1>19, <1>20, <1>21, WhileGc

\* In the first state nothing runs and nothing is stored.
LEMMA InitSolo == Init => Idle /\ Alone /\ MarkInv
<1> SUFFICES ASSUME Init PROVE Idle /\ Alone /\ MarkInv
  OBVIOUS
<1>1. \A c \in Cmd : cmd[c] = NoCmd /\ cmd[c].pc = "idle"
  BY DEF Init, NoCmd
<1>2. \A a \in Archivers : ar[a].pc = "idle"
  BY DEF Init, NoArchive
<1>3. "gc" \in Cmd /\ "fsck" \in Cmd
  BY DEF Cmd
<1>4. entries = {} /\ tagged = {} /\ bad = Absent
  BY DEF Init
<1>5. QED
  BY <1>1, <1>2, <1>3, <1>4 DEF Idle, Alone, NoCommand, MarkInv

\* With gc and fsck run alone, the invariants above hold throughout.
LEMMA SoloInvariant ==
    Overlap # "all" => (Spec => [](TypeOK /\ Idle /\ Alone /\ GcInv /\ MarkInv))
<1> SUFFICES ASSUME Overlap # "all"
             PROVE  Spec => [](TypeOK /\ Idle /\ Alone /\ GcInv /\ MarkInv)
  OBVIOUS
<1>1. TypeOK /\ Idle /\ Alone /\ MarkInv /\ [Next]_vars => Idle' /\ Alone' /\ MarkInv'
  BY IdleStep, AloneStep, MarkStep
<1>2. QED
  BY <1>1, InitSolo, TypeCorrect, GcInvariant, PTL DEF Spec

\* When gc and fsck run alone, gc moves no object that a node leads to, in nodes/ or
\* in its trash, whatever faults happen meanwhile.
THEOREM ReferencedIsKept == Overlap # "all" => (Spec => GcKeepsReferenced)
<1> SUFFICES ASSUME Overlap # "all" PROVE Spec => GcKeepsReferenced
  OBVIOUS
<1>1. TypeOK /\ GcInv /\ MarkInv /\ [Next]_vars =>
        [\A h \in entries \ entries' : cas[h] # Absent /\ cas'[h] = Absent
                                         => h \notin Referenced]_vars
  <2> SUFFICES ASSUME TypeOK, GcInv, MarkInv, [Next]_vars,
                      NEW h \in entries \ entries', cas[h] # Absent, cas'[h] = Absent
               PROVE  h \notin Referenced
    OBVIOUS
  <2>1. cmd["gc"].pc = "remove" /\ h \notin tagged
    BY OnlyGcRemoves
  <2>2. \A p \in Path : Readable(p) => Closure(EntryOf(p)) \subseteq tagged
    BY <2>1 DEF GcInv, MarkInv
  <2>3. QED
    BY <2>1, <2>2 DEF Referenced
<1>2. QED
  BY <1>1, SoloInvariant, PTL DEF Spec, GcKeepsReferenced

\* gc reports success in its last step only.
LEMMA OnlyGcEnds ==
    ASSUME TypeOK, [Next]_vars, gcResult # "ok", gcResult' = "ok"
    PROVE  GcEnds
<1> USE DEF disk, gcState, ghost
<1>1. ASSUME NEW a \in Archivers, Archive(a) PROVE FALSE
  BY <1>1, ArchiveFrame
<1>2. ASSUME NEW c \in Cmd, Enumerate(c) PROVE FALSE
  BY <1>2 DEF Enumerate, Parse, ListCas, TrashBit, SetBitAgain, Missed, ListNodes, WalkCutShort,
              GcReturns
<1>3. CASE Fsck
  BY <1>3 DEF Fsck, FsckChecksObject, FsckCannotOpen, FsckSkipsPrefix, FsckKeepsNode,
              FsckTrashesNode, FsckTrashesObject, FsckEnds
<1>4. CASE Environment
  BY <1>4 DEF Environment, DeleteNode, ReaderSetsBit, ArchiveKilled, CommandKilled,
              CorruptObject, CorruptNode, GcReturns
<1>5. CASE Gc
  BY <1>5 DEF Gc, GcSeesObject, GcReadsNode, GcMeetsBadNode, GcNodesDone, GcRemoves, GcReturns
<1>6. CASE Rest \/ UNCHANGED vars
  BY <1>6 DEF Rest, vars
<1>7. QED
  BY <1>1, <1>2, <1>3, <1>4, <1>5, <1>6 DEF Next

\* When gc and fsck run alone, a gc that ends well and that no fault hit has moved
\* every object that no node leads to.
THEOREM OrphansAreCollected == Overlap # "all" => (Spec => GcCollectsAll)
<1> SUFFICES ASSUME Overlap # "all" PROVE Spec => GcCollectsAll
  OBVIOUS
<1>1. TypeOK /\ MarkInv /\ [Next]_vars =>
        [gcResult # "ok" /\ gcResult' = "ok" /\ calm => Stored \subseteq Referenced]_vars
  <2> SUFFICES ASSUME TypeOK, MarkInv, [Next]_vars, gcResult # "ok", gcResult' = "ok", calm
               PROVE  Stored \subseteq Referenced
    OBVIOUS
  <2>1. cmd["gc"].pc = "remove" /\ entries \subseteq tagged
    BY OnlyGcEnds DEF GcEnds
  <2>2. QED
    BY <2>1 DEF MarkInv
<1>2. QED
  BY <1>1, SoloInvariant, PTL DEF Spec, GcCollectsAll

-----------------------------------------------------------------------------
(* Who writes to cas/ *)

\* A file under cas/ has the content its name says, or a wrong one, or is the one
\* file that an archive is writing, under the name the archive gave it.
WritersInv ==
    /\ \A h \in Hash : cas[h] \in Archivers => ar[cas[h]].pc = "copy" /\ ar[cas[h]].cur = h
    /\ \A h \in Hash : cas[h] \in Hash => cas[h] = h
    /\ \A a \in Archivers : ar[a].pc = "copy" => ar[a].cur \in Hash

\* gc, fsck, the user, readers and rot at most take an object away or spoil it.
LEMMA NobodyElseWrites ==
    ASSUME TypeOK, [Next]_vars, ~\E a \in Archivers : Archive(a) \/ ArchiveKilled(a)
    PROVE  /\ UNCHANGED ar
           /\ \A h \in Hash : cas'[h] \in {cas[h], Absent, Torn}
<1> USE DEF disk, gcState, ghost
<1>0. cas \in [Hash -> Content \cup {Absent}]
  BY DEF TypeOK
<1>1. ASSUME NEW c \in Cmd, Enumerate(c) PROVE UNCHANGED <<ar, cas>>
  BY <1>1 DEF Enumerate, Parse, ListCas, TrashBit, SetBitAgain, Missed, ListNodes, WalkCutShort
<1>2. CASE Gc
  <2>1. UNCHANGED ar
    BY <1>2 DEF Gc, GcSeesObject, GcReadsNode, GcMeetsBadNode, GcNodesDone, GcRemoves, GcEnds
  <2>2. UNCHANGED cas \/ \E h \in Hash : cas' = [cas EXCEPT ![h] = Absent]
    BY <1>2 DEF Gc, GcSeesObject, GcReadsNode, GcMeetsBadNode, GcNodesDone, GcRemoves, GcEnds,
                MoveToTrash
  <2>3. QED
    BY <1>0, <2>1, <2>2
<1>3. CASE Fsck
  <2>1. UNCHANGED ar
    BY <1>3 DEF Fsck, FsckChecksObject, FsckCannotOpen, FsckSkipsPrefix, FsckKeepsNode,
                FsckTrashesNode, FsckTrashesObject, FsckEnds
  <2>2. UNCHANGED cas \/ \E h : cas' = [cas EXCEPT ![h] = Absent]
    BY <1>3 DEF Fsck, FsckChecksObject, FsckCannotOpen, FsckSkipsPrefix, FsckKeepsNode,
                FsckTrashesNode, FsckTrashesObject, FsckEnds, MoveToTrash
  <2>3. QED
    BY <1>0, <2>1, <2>2
<1>4. CASE Environment
  <2>1. UNCHANGED ar
    BY <1>4 DEF Environment, DeleteNode, ReaderSetsBit, CommandKilled, CorruptObject, CorruptNode
  <2>2. UNCHANGED cas \/ \E h \in Hash : cas' = [cas EXCEPT ![h] = Torn]
    BY <1>4 DEF Environment, DeleteNode, ReaderSetsBit, CommandKilled, CorruptObject, CorruptNode
  <2>3. QED
    BY <1>0, <2>1, <2>2
<1>5. CASE Rest \/ UNCHANGED vars
  BY <1>5 DEF Rest, vars
<1>6. QED
  BY <1>1, <1>2, <1>3, <1>4, <1>5 DEF Next

\* An archive creates a file only where there is none, and knows it until it has
\* written it; so WritersInv holds even with everything running at once.
LEMMA WritersStep ==
    ASSUME TypeOK, WritersInv, [Next]_vars
    PROVE  WritersInv'
<1> USE DEF disk, gcState, ghost
<1>0. /\ cas \in [Hash -> Content \cup {Absent}] /\ ar \in [Archivers -> ArchiveState]
      /\ Hash \cap Archivers = {} /\ {Absent, Torn} \cap (Hash \cup Archivers) = {}
      /\ NoArchive.pc = "idle"
  BY ValuesAssumption DEF TypeOK, NoArchive
<1>1. ASSUME UNCHANGED ar, \A h \in Hash : cas'[h] \in {cas[h], Absent, Torn}
      PROVE  WritersInv'
  BY <1>0, <1>1 DEF WritersInv
<1>2. ASSUME NEW a \in Archivers, \A b \in Archivers \ {a} : ar'[b] = ar[b],
             ar'[a].pc # "copy", NEW v, v = Torn \/ (ar[a].pc = "copy" /\ v = ar[a].cur),
             cas' = Fill(cas, a, v)
      PROVE  WritersInv'
  <2>1. \A h \in Hash : cas'[h] = IF cas[h] = a THEN v ELSE cas[h]
    BY <1>0, <1>2 DEF Fill
  <2>2. \A h \in Hash : cas[h] = a => v \in {h, Torn}
    BY <1>2 DEF WritersInv
  <2>3. \A h \in Hash : cas'[h] \in Archivers => cas'[h] = cas[h] /\ cas[h] # a
    BY <1>0, <2>1, <2>2
  <2>4. \A h \in Hash : cas'[h] \in Hash => cas'[h] = h
    BY <1>0, <2>1, <2>2 DEF WritersInv
  <2>5. QED
    BY SMTT(30), <1>2, <2>3, <2>4 DEF WritersInv
<1>3. ASSUME NEW a \in Archivers, \A b \in Archivers \ {a} : ar'[b] = ar[b],
             ar[a].pc # "copy", ar'[a].pc # "copy", UNCHANGED cas
      PROVE  WritersInv'
  BY <1>3 DEF WritersInv
<1>4. ASSUME NEW a \in Archivers, Archive(a) PROVE WritersInv'
  <2>0. \A b \in Archivers \ {a} : ar'[b] = ar[b]
    BY <1>4, ArchiveFrame
  <2>1. ASSUME NEW h \in Hash, AddEntry(a, h), cas[h] = Absent PROVE WritersInv'
    <3>1. ar[a].pc = "add" /\ ar'[a].pc = "copy" /\ ar'[a].cur = h
      BY <1>0, <2>1 DEF AddEntry, ArchiveState
    <3>2. cas' = [cas EXCEPT ![h] = a]
      BY <2>1 DEF AddEntry
    <3>3. \A x \in Hash : cas'[x] = IF x = h THEN a ELSE cas[x]
      BY <1>0, <3>2
    <3>4. \A x \in Hash : cas[x] # a
      BY <3>1 DEF WritersInv
    <3>5. QED
      BY SMTT(30), <1>0, <2>0, <3>1, <3>3, <3>4 DEF WritersInv
  <2>2. ASSUME NEW h \in Hash, AddEntry(a, h), cas[h] # Absent PROVE WritersInv'
    <3>1. ar[a].pc = "add" /\ ar'[a].pc \in {"add", "node"} /\ UNCHANGED cas
      BY <1>0, <2>2 DEF AddEntry, ArchiveState
    <3>2. QED
      BY <1>3, <2>0, <3>1
  <2>3. CASE CopyEnds(a) \/ CopyOfChangedFile(a) \/ CopyFails(a)
    <3>1. ar[a].pc = "copy" /\ ar'[a].pc # "copy"
      BY <1>0, <2>3 DEF CopyEnds, CopyOfChangedFile, CopyFails, Copied, ArchiveState
    <3>2. cas' = Fill(cas, a, ar[a].cur) \/ cas' = Fill(cas, a, Torn)
      BY <2>3 DEF CopyEnds, CopyOfChangedFile, CopyFails, Copied
    <3>3. QED
      BY <1>2, <2>0, <3>1, <3>2
  <2>4. ASSUME \/ \E e \in Entries : ArchiveStart(a, e)
               \/ \E h \in Hash : AddFails(a, h)
               \/ \E n \in Names : NodeCreate(a, n)
               \/ NodeWrite(a) \/ Untag(a) \/ LinkTag(a) \/ OpenTag(a) \/ RewriteTag(a)
        PROVE  WritersInv'
    <3>1. UNCHANGED cas
      BY <2>4 DEF ArchiveStart, AddFails, NodeCreate, NodeWrite, Untag, LinkTag, OpenTag,
                  RewriteTag
    <3>2. ar[a].pc # "copy"
      BY <2>4 DEF ArchiveStart, AddFails, NodeCreate, NodeWrite, Untag, LinkTag, OpenTag,
                  RewriteTag
    <3>3. ASSUME NEW h \in Hash, AddFails(a, h) PROVE ar'[a].pc # "copy"
      <4>1. [ar[a] EXCEPT !.todo = ar[a].todo \ {h}].pc = "add"
        BY <1>0, <3>3 DEF AddFails, ArchiveState
      <4>2. QED
        BY <1>0, <3>3, <4>1 DEF AddFails
    <3>4. ASSUME NEW e \in Entries, ArchiveStart(a, e) PROVE ar'[a].pc # "copy"
      BY <1>0, <3>4 DEF ArchiveStart, NoArchive
    <3>5. ASSUME NEW n \in Names, NodeCreate(a, n) PROVE ar'[a].pc # "copy"
      BY <1>0, <3>5 DEF NodeCreate, ArchiveState
    <3>6. ASSUME NodeWrite(a) \/ Untag(a) \/ LinkTag(a) \/ OpenTag(a) \/ RewriteTag(a)
          PROVE  ar'[a].pc # "copy"
      <4>1. ar[a] \in ArchiveState
        BY <1>0
      <4>2. CASE NodeWrite(a)
        BY <1>0, <4>1, <4>2 DEF NodeWrite, ArchiveState
      <4>3. CASE Untag(a)
        BY <1>0, <4>1, <4>3 DEF Untag, ArchiveState
      <4>4. CASE OpenTag(a)
        BY <1>0, <4>1, <4>4 DEF OpenTag, ArchiveState
      <4>5. CASE LinkTag(a) \/ RewriteTag(a)
        BY <1>0, <4>5 DEF LinkTag, RewriteTag
      <4>6. QED
        BY <3>6, <4>2, <4>3, <4>4, <4>5
    <3>7. ar'[a].pc # "copy"
      BY <2>4, <3>3, <3>4, <3>5, <3>6
    <3>8. QED
      BY <1>3, <2>0, <3>1, <3>2, <3>7
  <2>5. QED
    BY <1>4, <2>1, <2>2, <2>3, <2>4 DEF Archive
<1>5. ASSUME NEW a \in Archivers, ArchiveKilled(a) PROVE WritersInv'
  <2>1. /\ \A b \in Archivers \ {a} : ar'[b] = ar[b]
        /\ ar'[a].pc # "copy" /\ cas' = Fill(cas, a, Torn)
    BY <1>0, <1>5 DEF ArchiveKilled
  <2>2. QED
    BY <1>2, <2>1
<1>6. QED
  BY <1>1, <1>4, <1>5, NobodyElseWrites

-----------------------------------------------------------------------------
(* Open files *)

\* There are finitely many objects and nodes, and a process may have more files open
\* than there are of both.
EnoughFds ==
    /\ IsFiniteSet(Hash) /\ IsFiniteSet(Names)
    /\ Cardinality(Hash) + Cardinality(Path) < FdLimit

\* A command leaves open at most one file for each object and each node it met.
FdOk(r) ==
    /\ r.pc \in {"list", "cas", "setbit", "trash"} =>
          r.vis \subseteq Hash /\ r.fds <= Cardinality(r.vis)
    /\ r.pc = "nodes" =>
          r.vis \subseteq Path /\ r.fds <= Cardinality(Hash) + Cardinality(r.vis)

FdInv == \A c \in Cmd : FdOk(cmd[c])

\* The sets a command goes through are finite.
LEMMA Finite ==
    ASSUME EnoughFds
    PROVE  IsFiniteSet(Path) /\ Cardinality(Hash) \in Nat /\ Cardinality(Path) \in Nat
<1>1. IsFiniteSet(0..MaxDepth)
  BY FS_Interval, BoundsAssumption
<1>2. IsFiniteSet(Names \cup {Tag})
  BY FS_AddElement DEF EnoughFds
<1>3. IsFiniteSet(Path)
  BY <1>1, <1>2, FS_Product DEF Path
<1>4. QED
  BY <1>3, FS_CardinalityType DEF EnoughFds

\* Meeting one more thing allows for one more file.
LEMMA OneMore ==
    ASSUME NEW S, IsFiniteSet(S), NEW V \in SUBSET S, NEW x \in S \ V, NEW k \in {0, 1},
           NEW n \in Nat, NEW m \in Nat, n <= m + Cardinality(V)
    PROVE  V \cup {x} \subseteq S /\ n + k <= m + Cardinality(V \cup {x})
<1>1. IsFiniteSet(V)
  BY FS_Subset
<1>2. Cardinality(V) \in Nat
  BY <1>1, FS_CardinalityType
<1>3. Cardinality(V \cup {x}) = Cardinality(V) + 1
  BY <1>1, FS_AddElement
<1>4. QED
  BY <1>2, <1>3

\* While it goes through the objects and the nodes a command has a file to spare.
LEMMA Spare ==
    ASSUME EnoughFds, NEW r \in CmdState, FdOk(r), r.pc \notin {"idle", "remove"}
    PROVE  r.fds < FdLimit
<1>1. /\ r.fds \in Nat /\ FdLimit \in Nat
      /\ r.pc \in {"list", "cas", "setbit", "trash", "nodes"}
  BY BoundsAssumption DEF CmdState
<1>2. CASE r.pc = "nodes"
  <2>1. Cardinality(r.vis) \in Nat /\ Cardinality(r.vis) <= Cardinality(Path)
    BY <1>2, Finite, FS_Subset, FS_CardinalityType DEF FdOk
  <2>2. r.fds <= Cardinality(Hash) + Cardinality(r.vis)
    BY <1>2 DEF FdOk
  <2>3. QED
    BY <1>1, <2>1, <2>2, Finite DEF EnoughFds
<1>3. CASE r.pc # "nodes"
  <2>1. r.vis \subseteq Hash /\ r.fds <= Cardinality(r.vis)
    BY <1>1, <1>3 DEF FdOk
  <2>2. Cardinality(r.vis) \in Nat /\ Cardinality(r.vis) <= Cardinality(Hash)
    BY <2>1, FS_Subset, FS_CardinalityType DEF EnoughFds
  <2>3. QED
    BY <1>1, <2>1, <2>2, Finite DEF EnoughFds
<1>4. QED
  BY <1>2, <1>3

\* A visit of an object or of a node keeps the count.
LEMMA FdVisit ==
    ASSUME TypeOK, EnoughFds, NEW c \in Cmd, FdOk(cmd[c]), NEW k \in {0, 1},
           NEW x, x \notin cmd[c].vis,
           \/ x \in Hash /\ cmd[c].pc = "cas"
           \/ x \in Path /\ cmd[c].pc = "nodes"
    PROVE  /\ FdOk(Visited(c, x, k)[c])
           /\ cmd[c].pc = "cas" => FdOk([Visited(c, x, k)[c] EXCEPT !.pc = "trash"])
<1> DEFINE r == Visited(c, x, k)[c]
           R == cmd[c]
<1>1. /\ R \in CmdState /\ r \in CmdState /\ r.pc = R.pc /\ r.vis = R.vis \cup {x}
      /\ r.fds = R.fds + k /\ R.fds \in Nat
  <2>1. R \in CmdState /\ x \in Hash \cup Path
    BY DEF TypeOK
  <2>2. r \in CmdState /\ r.pc = R.pc
    BY <2>1, VisitedType
  <2>3. r.vis = R.vis \cup {x} /\ r.fds = R.fds + k
    BY <2>1, VisitedRest
  <2>4. R.fds \in Nat
    BY <2>1 DEF CmdState
  <2>5. QED
    BY <2>1, <2>2, <2>3, <2>4
<1>f. FdOk(R) /\ x \notin R.vis
  OBVIOUS
<1>g. \/ x \in Hash /\ R.pc = "cas"
      \/ x \in Path /\ R.pc = "nodes"
  OBVIOUS
<1> SUFFICES FdOk(r) /\ (R.pc = "cas" => FdOk([r EXCEPT !.pc = "trash"]))
  OBVIOUS
<1> HIDE DEF r, R
<1>2. CASE x \in Hash /\ R.pc = "cas"
  <2>1. R.vis \subseteq Hash /\ R.fds <= 0 + Cardinality(R.vis)
    <3>1. R.vis \subseteq Hash /\ R.fds <= Cardinality(R.vis)
      BY <1>f, <1>2 DEF FdOk
    <3>2. Cardinality(R.vis) \in Nat
      BY <3>1, FS_Subset, FS_CardinalityType DEF EnoughFds
    <3>3. QED
      BY <1>1, <3>1, <3>2
  <2>2. R.vis \cup {x} \subseteq Hash /\ R.fds + k <= 0 + Cardinality(R.vis \cup {x})
    BY <1>f, <1>1, <1>2, <2>1, OneMore DEF EnoughFds
  <2>3. Cardinality(R.vis \cup {x}) \in Nat
    BY <2>2, FS_Subset, FS_CardinalityType DEF EnoughFds
  <2>4. r.vis \subseteq Hash /\ r.fds <= Cardinality(r.vis)
    BY <1>1, <2>2, <2>3
  <2>5. [r EXCEPT !.pc = "trash"].vis = r.vis /\ [r EXCEPT !.pc = "trash"].fds = r.fds
        /\ [r EXCEPT !.pc = "trash"].pc = "trash"
    BY <1>1 DEF CmdState
  <2>6. QED
    BY <1>1, <1>2, <2>4, <2>5 DEF FdOk
<1>3. CASE x \in Path /\ R.pc = "nodes"
  <2>1. R.vis \subseteq Path /\ R.fds <= Cardinality(Hash) + Cardinality(R.vis)
    BY <1>f, <1>3 DEF FdOk
  <2>2. /\ R.vis \cup {x} \subseteq Path
        /\ R.fds + k <= Cardinality(Hash) + Cardinality(R.vis \cup {x})
    BY <1>f, <1>1, <1>3, <2>1, OneMore, Finite
  <2>3. QED
    BY <1>1, <1>3, <2>2 DEF FdOk
<1>4. QED
  BY <1>g, <1>2, <1>3

\* Every step keeps the count of open files.
LEMMA FdStep ==
    ASSUME TypeOK, Idle, EnoughFds, FdInv, [Next]_vars
    PROVE  FdInv'
<1> USE DEF disk, gcState, ghost
<1>0. Cmd = {"gc", "fsck"} /\ FdOk(NoCmd) /\ cmd \in [Cmd -> CmdState]
  BY DEF Cmd, FdOk, NoCmd, TypeOK
<1>1. ASSUME NEW r, NEW s, FdOk(r), s.vis = r.vis, s.fds = r.fds,
             \/ r.pc \in {"list", "cas", "setbit", "trash"} /\ s.pc \in {"cas", "setbit", "trash"}
             \/ r.pc = s.pc
             \/ s.pc = "remove"
      PROVE  FdOk(s)
  BY <1>1 DEF FdOk
<1>2. ASSUME NEW c \in Cmd, Enumerate(c) PROVE FdOk(cmd'[c])
  <2>0. cmd[c] \in CmdState /\ FdOk(cmd[c])
    BY <1>0 DEF FdInv
  <2>1. CASE Parse(c)
    <3>1. cmd[c].pc = "idle" /\ cmd' = [cmd EXCEPT ![c].pc = "list"]
      BY <2>1 DEF Parse
    <3>2. cmd[c] = NoCmd
      BY <3>1 DEF Idle
    <3>3. cmd'[c] = [NoCmd EXCEPT !.pc = "list"]
      BY <1>0, <3>1, <3>2
    <3>4. cmd'[c].vis = {} /\ cmd'[c].fds = 0 /\ cmd'[c].pc = "list"
      BY <3>3 DEF NoCmd
    <3>5. QED
      BY SMTT(30), <3>4, FS_EmptySet DEF FdOk
  <2>2. CASE ListCas(c) \/ TrashBit(c) \/ SetBitAgain(c)
    <3>1. /\ cmd[c].pc \in {"list", "cas", "setbit"} /\ cmd'[c].pc \in {"cas", "setbit"}
          /\ cmd'[c].vis = cmd[c].vis /\ cmd'[c].fds = cmd[c].fds
      BY <1>0, <2>0, <2>2 DEF ListCas, TrashBit, SetBitAgain, CmdState
    <3>2. QED
      BY <1>1, <2>0, <3>1
  <2>3. CASE Missed(c)
    <3>1. cmd'[c].pc = cmd[c].pc /\ cmd'[c].vis = cmd[c].vis /\ cmd'[c].fds = cmd[c].fds
      BY <1>0, <2>0, <2>3 DEF Missed, CmdState
    <3>2. QED
      BY <1>1, <2>0, <3>1
  <2>4. CASE ListNodes(c)
    <3>1. /\ cmd[c].pc = "cas" /\ cmd'[c].pc = "nodes" /\ cmd'[c].vis = {}
          /\ cmd'[c].fds = cmd[c].fds /\ cmd[c].fds \in Nat
      BY <1>0, <2>0, <2>4 DEF ListNodes, CmdState
    <3>2. cmd[c].vis \subseteq Hash /\ cmd[c].fds <= Cardinality(cmd[c].vis)
      BY <2>0, <3>1 DEF FdOk
    <3>3. Cardinality(cmd[c].vis) \in Nat /\ Cardinality(cmd[c].vis) <= Cardinality(Hash)
      BY <3>2, FS_Subset, FS_CardinalityType DEF EnoughFds
    <3>4. cmd[c].fds <= Cardinality(Hash) + Cardinality({})
      BY <3>1, <3>2, <3>3, Finite, FS_EmptySet
    <3>5. QED
      BY <3>1, <3>4 DEF FdOk
  <2>5. CASE WalkCutShort(c)
    <3>1. CASE c = "gc"
      BY <1>0, <2>5, <3>1 DEF WalkCutShort, GcReturns
    <3>2. CASE c # "gc"
      <4>1. cmd'[c].pc = cmd[c].pc /\ cmd'[c].vis = cmd[c].vis /\ cmd'[c].fds = cmd[c].fds
        BY <1>0, <2>0, <2>5, <3>2 DEF WalkCutShort, CmdState
      <4>2. QED
        BY <1>1, <2>0, <4>1
    <3>3. QED
      BY <3>1, <3>2
  <2>6. QED
    BY <1>2, <2>1, <2>2, <2>3, <2>4, <2>5 DEF Enumerate
<1>3. ASSUME Gc PROVE FdOk(cmd'["gc"])
  <2>0. "gc" \in Cmd /\ cmd["gc"] \in CmdState /\ FdOk(cmd["gc"])
    BY <1>0 DEF FdInv
  <2>1. ASSUME NEW r, GcReturns(r) PROVE FdOk(cmd'["gc"])
    BY <1>0, <2>1 DEF GcReturns
  <2>2. ASSUME NEW h \in Hash, GcSeesObject(h) PROVE FdOk(cmd'["gc"])
    BY <2>0, <2>2, FdVisit DEF GcSeesObject, Meets
  <2>3. ASSUME NEW p \in Path, GcReadsNode(p) PROVE FdOk(cmd'["gc"])
    BY <2>0, <2>3, FdVisit DEF GcReadsNode, Meets
  <2>4. CASE GcNodesDone
    <3>1. cmd'["gc"].pc = "remove"
      BY <1>0, <2>0, <2>4 DEF GcNodesDone, CmdState
    <3>2. QED
      BY <3>1 DEF FdOk
  <2>5. ASSUME NEW h \in Hash, GcRemoves(h) PROVE FdOk(cmd'["gc"])
    BY <2>0, <2>1, <2>5 DEF GcRemoves
  <2>6. QED
    BY <1>3, <2>1, <2>2, <2>3, <2>4, <2>5 DEF Gc, GcMeetsBadNode, GcEnds
<1>4. ASSUME Fsck PROVE FdOk(cmd'["fsck"])
  <2>0. "fsck" \in Cmd /\ cmd["fsck"] \in CmdState /\ FdOk(cmd["fsck"])
    BY <1>0 DEF FdInv
  <2>1. ASSUME FsckAborts PROVE FdOk(cmd'["fsck"])
    BY <1>0, <2>1 DEF FsckAborts
  <2>2. ASSUME NEW h \in Hash, FsckChecksObject(h) PROVE FdOk(cmd'["fsck"])
    <3>1. cmd["fsck"].pc = "cas" /\ h \notin cmd["fsck"].vis
      BY <2>2 DEF FsckChecksObject, Meets
    <3>2. /\ Visited("fsck", h, 1) \in [Cmd -> CmdState] /\ FdOk(Visited("fsck", h, 1)["fsck"])
          /\ FdOk([Visited("fsck", h, 1)["fsck"] EXCEPT !.pc = "trash"])
      BY <2>0, <3>1, FdVisit, VisitedType
    <3>3. \/ cmd'["fsck"] = Visited("fsck", h, 1)["fsck"]
          \/ cmd'["fsck"] = [Visited("fsck", h, 1)["fsck"] EXCEPT !.pc = "trash"]
      BY <2>0, <2>2, <3>2 DEF FsckChecksObject
    <3>4. QED
      BY <3>2, <3>3
  <2>3. ASSUME NEW h \in Hash, FsckSkipsPrefix(h) PROVE FdOk(cmd'["fsck"])
    BY <2>0, <2>3, FdVisit DEF FsckSkipsPrefix, Meets
  <2>4. ASSUME NEW p \in Path, FsckKeepsNode(p) \/ FsckTrashesNode(p) PROVE FdOk(cmd'["fsck"])
    <3>1. cmd["fsck"].pc = "nodes" /\ p \notin cmd["fsck"].vis
      BY <2>4 DEF FsckKeepsNode, FsckTrashesNode, Meets
    <3>2. PICK k \in {0, 1} : cmd' = Visited("fsck", p, k)
      BY <2>4 DEF FsckKeepsNode, FsckTrashesNode
    <3>3. QED
      BY <2>0, <3>1, <3>2, FdVisit
  <2>5. CASE FsckTrashesObject
    <3>1. \/ FsckAborts
          \/ /\ cmd["fsck"].pc = "trash" /\ cmd'["fsck"].pc = "cas"
             /\ cmd'["fsck"].vis = cmd["fsck"].vis /\ cmd'["fsck"].fds = cmd["fsck"].fds
      BY <1>0, <2>0, <2>5 DEF FsckTrashesObject, CmdState
    <3>2. QED
      BY <1>1, <2>0, <2>1, <3>1
  <2>6. CASE FsckEnds
    BY <1>0, <2>6 DEF FsckEnds
  <2>7. QED
    BY <1>4, <2>1, <2>2, <2>3, <2>4, <2>5, <2>6 DEF Fsck, FsckCannotOpen
<1>5. ASSUME NEW c \in Cmd, Enumerate(c) \/ (c = "gc" /\ Gc) \/ (c = "fsck" /\ Fsck)
      PROVE  FdInv'
  <2>1. FdOk(cmd'[c])
    BY <1>2, <1>3, <1>4, <1>5
  <2>2. \A d \in Cmd \ {c} : cmd'[d] = cmd[d]
    BY <1>5, CommandStep
  <2>3. QED
    BY <2>1, <2>2 DEF FdInv
<1>6. ASSUME UNCHANGED cmd PROVE FdInv'
  BY <1>6 DEF FdInv
<1>7. ASSUME NEW c \in Cmd, CommandKilled(c) PROVE FdInv'
  BY <1>0, <1>7, KilledFrame DEF FdInv
<1>8. CASE Environment
  BY <1>0, <1>6, <1>7, <1>8, EnvironmentFrame
<1>9. ASSUME NEW a \in Archivers, Archive(a) PROVE FdInv'
  BY <1>6, <1>9, ArchiveFrame
<1>10. QED
  BY <1>0, <1>5, <1>6, <1>8, <1>9 DEF Next, Rest, vars

-----------------------------------------------------------------------------
(* fsck alone *)

\* The object fsck is about to move does not have the content its name says.
BadInv == cmd["fsck"].pc = "trash" => bad \in Hash /\ cas[bad] # bad

\* Unless a fault has hit something since fsck started, an object it has been through
\* is intact or gone, or is the one it is about to move.
IntactInv ==
    calm => /\ cmd["fsck"].pc \in {"cas", "setbit", "trash"} =>
                  \A h \in Hash : cas[h] \in {h, Absent} \/ h \in cmd["fsck"].due \/ h = bad
            /\ cmd["fsck"].pc = "nodes" => \A h \in Hash : cas[h] \in {h, Absent}

\* fsck goes on only from its own steps and those of readers and faults.
LEMMA FsckGoesOn ==
    ASSUME TypeOK, Idle, Alone, Overlap # "all", [Next]_vars,
           cmd'["fsck"].pc \notin {"idle", "list"}
    PROVE  \/ ListCas("fsck") \/ TrashBit("fsck") \/ SetBitAgain("fsck") \/ Missed("fsck")
           \/ ListNodes("fsck") \/ WalkCutShort("fsck")
           \/ \E h \in Hash : FsckChecksObject(h) \/ FsckSkipsPrefix(h)
           \/ \E p \in Path : FsckKeepsNode(p) \/ FsckTrashesNode(p)
           \/ FsckTrashesObject
           \/ \E p \in Path : ReaderSetsBit(p) \/ CorruptNode(p)
           \/ \E h \in Hash : CorruptObject(h)
           \/ UNCHANGED vars
<1>0. "fsck" \in Cmd /\ NoCmd.pc = "idle" /\ cmd \in [Cmd -> CmdState]
  BY DEF Cmd, NoCmd, TypeOK
<1>1. cmd["fsck"].pc # "idle"
  BY <1>0, Starts
<1>2. ~Parse("fsck") /\ ~FsckEnds /\ ~FsckAborts
  BY <1>0, <1>1 DEF Parse, FsckEnds, FsckAborts
<1>3. ~CommandKilled("fsck") /\ \A h \in Hash : ~FsckCannotOpen(h)
  BY <1>2 DEF CommandKilled, FsckCannotOpen
<1>4. QED
  BY <1>1, <1>2, <1>3, WhileFsck DEF Enumerate, Fsck

\* fsck decides by the content, and nobody writes while it moves the object.
LEMMA BadStep ==
    ASSUME TypeOK, Idle, Alone, Overlap # "all", BadInv, [Next]_vars
    PROVE  BadInv'
<1> USE DEF disk, gcState, ghost
<1> SUFFICES ASSUME cmd'["fsck"].pc = "trash" PROVE bad' \in Hash /\ cas'[bad'] # bad'
  BY DEF BadInv
<1>0. /\ cmd \in [Cmd -> CmdState] /\ "fsck" \in Cmd /\ cmd["fsck"] \in CmdState
      /\ cas \in [Hash -> Content \cup {Absent}] /\ Torn \notin Hash
  BY ValuesAssumption DEF TypeOK, Cmd
<1>1. ASSUME UNCHANGED <<cas, cmd, bad>> PROVE bad' \in Hash /\ cas'[bad'] # bad'
  BY <1>1 DEF BadInv
<1>2. ASSUME NEW h \in Hash, CorruptObject(h) PROVE bad' \in Hash /\ cas'[bad'] # bad'
  <2>1. UNCHANGED <<cmd, bad>> /\ cas' = [cas EXCEPT ![h] = Torn]
    BY <1>2 DEF CorruptObject
  <2>2. bad \in Hash /\ cas[bad] # bad
    BY <2>1 DEF BadInv
  <2>3. QED
    BY <1>0, <2>1, <2>2
<1>3. ASSUME NEW h \in Hash, FsckChecksObject(h) PROVE bad' \in Hash /\ cas'[bad'] # bad'
  <2>1. CASE cas[h] = h
    BY <1>0, <1>3, <2>1, VisitedType DEF FsckChecksObject
  <2>2. CASE cas[h] # h
    BY <1>3, <2>2 DEF FsckChecksObject
  <2>3. QED
    BY <2>1, <2>2
<1>4. ASSUME NEW h \in Hash, FsckSkipsPrefix(h) PROVE FALSE
  BY <1>0, <1>4, VisitedType DEF FsckSkipsPrefix
<1>5. ASSUME NEW p \in Path, FsckKeepsNode(p) \/ FsckTrashesNode(p) PROVE FALSE
  <2>1. cmd["fsck"].pc = "nodes" /\ \E k \in {0, 1} : cmd' = Visited("fsck", p, k)
    BY <1>5 DEF FsckKeepsNode, FsckTrashesNode
  <2>2. QED
    BY SMTT(30), <1>0, <2>1, VisitedType
<1>6. ~FsckTrashesObject
  BY <1>0 DEF FsckTrashesObject, FsckAborts, NoCmd, CmdState
<1>7. ~ListCas("fsck") /\ ~TrashBit("fsck") /\ ~SetBitAgain("fsck") /\ ~ListNodes("fsck")
  BY <1>0 DEF ListCas, TrashBit, SetBitAgain, ListNodes, CmdState
<1>8. ~Missed("fsck") /\ ~WalkCutShort("fsck")
  BY <1>0 DEF Missed, WalkCutShort, CmdState
<1>9. ASSUME NEW p \in Path, ReaderSetsBit(p) \/ CorruptNode(p) PROVE UNCHANGED <<cas, cmd, bad>>
  BY <1>9 DEF ReaderSetsBit, CorruptNode
<1>10. QED
  BY <1>1, <1>2, <1>3, <1>4, <1>5, <1>6, <1>7, <1>8, <1>9, FsckGoesOn DEF vars

\* fsck leaves behind it only objects it has checked.
LEMMA IntactStep ==
    ASSUME TypeOK, Idle, Alone, Overlap # "all", EnoughFds, FdInv, IntactInv, [Next]_vars
    PROVE  IntactInv'
<1> USE DEF disk, gcState, ghost
<1> DEFINE Clean(h) == cas[h] \in {h, Absent}
<1> SUFFICES ASSUME calm', cmd'["fsck"].pc \notin {"idle", "list"}
             PROVE  /\ cmd'["fsck"].pc \in {"cas", "setbit", "trash"} =>
                         \A h \in Hash : Clean(h)' \/ h \in cmd'["fsck"].due \/ h = bad'
                    /\ cmd'["fsck"].pc = "nodes" => \A h \in Hash : Clean(h)'
  BY DEF IntactInv
<1>0. /\ cmd \in [Cmd -> CmdState] /\ "fsck" \in Cmd /\ cmd["fsck"] \in CmdState
      /\ cas \in [Hash -> Content \cup {Absent}] /\ Absent \notin Hash
  BY ValuesAssumption DEF TypeOK, Cmd
<1>1. ASSUME UNCHANGED calm
      PROVE  /\ cmd["fsck"].pc \in {"cas", "setbit", "trash"} =>
                  \A h \in Hash : Clean(h) \/ h \in cmd["fsck"].due \/ h = bad
             /\ cmd["fsck"].pc = "nodes" => \A h \in Hash : Clean(h)
             /\ cmd["fsck"].pc # "trash" => \A h \in Hash : h # bad
  BY <1>0, <1>1 DEF IntactInv, Idle
<1>2. ASSUME UNCHANGED cas PROVE \A h \in Hash : Clean(h)' = Clean(h)
  BY <1>2
<1>3. \A h \in Hash : Clean(h) \/ h \in Stored
  BY DEF Stored
<1> HIDE DEF Clean
<1>4. CASE ListCas("fsck")
  <2>1. cmd'["fsck"].pc = "cas" /\ cmd'["fsck"].due = Stored /\ UNCHANGED cas
    BY <1>0, <1>4 DEF ListCas, CmdState
  <2>2. QED
    BY <1>2, <1>3, <2>1
<1>5. CASE TrashBit("fsck") \/ SetBitAgain("fsck")
  <2>1. /\ cmd["fsck"].pc \in {"cas", "setbit"} /\ cmd'["fsck"].pc \in {"cas", "setbit"}
        /\ cmd'["fsck"].due = cmd["fsck"].due
    <3>1. CASE TrashBit("fsck")
      BY <1>0, <3>1 DEF TrashBit, CmdState
    <3>2. CASE SetBitAgain("fsck")
      BY <1>0, <3>2 DEF SetBitAgain, CmdState
    <3>3. QED
      BY <1>5, <3>1, <3>2
  <2>2. UNCHANGED <<cas, bad, calm>>
    BY <1>5 DEF TrashBit, SetBitAgain
  <2>3. QED
    BY <1>1, <1>2, <2>1, <2>2
<1>6. CASE Missed("fsck")
  <2>0. UNCHANGED <<cas, bad, calm>>
    BY <1>6 DEF Missed
  <2>1. CASE cmd["fsck"].pc = "cas"
    <3>1. PICK x \in cmd["fsck"].due \ Stored : cmd' = [cmd EXCEPT !["fsck"].due = @ \ {x}]
      BY <1>6, <2>1 DEF Missed
    <3>2. cmd'["fsck"].pc = "cas" /\ cmd'["fsck"].due = cmd["fsck"].due \ {x}
      BY <1>0, <2>1, <3>1 DEF CmdState
    <3>3. \A h \in Hash : Clean(h) \/ h # x
      BY <1>3, <3>1
    <3>4. QED
      BY <1>1, <1>2, <2>0, <2>1, <3>2, <3>3
  <2>2. CASE cmd["fsck"].pc = "nodes"
    <3>1. cmd'["fsck"].pc = "nodes"
      BY <1>0, <1>6, <2>2 DEF Missed, CmdState
    <3>2. QED
      BY <1>1, <1>2, <2>0, <2>2, <3>1
  <2>3. QED
    BY <1>6, <2>1, <2>2 DEF Missed
<1>7. CASE ListNodes("fsck")
  <2>1. /\ cmd["fsck"].pc = "cas" /\ cmd["fsck"].due = {} /\ cmd'["fsck"].pc = "nodes"
        /\ UNCHANGED <<cas, bad, calm>>
    BY <1>0, <1>7 DEF ListNodes, CmdState
  <2>2. QED
    BY <1>1, <1>2, <2>1
<1>8. CASE WalkCutShort("fsck")
  <2>1. cmd["fsck"].pc = "nodes" /\ cmd'["fsck"].pc = "nodes" /\ UNCHANGED <<cas, calm>>
    BY ZenonT(60), <1>0, <1>8 DEF WalkCutShort, CmdState
  <2>2. QED
    BY <1>1, <1>2, <2>1
<1>9. ASSUME NEW x \in Hash, FsckChecksObject(x)
      PROVE  /\ cmd'["fsck"].pc \in {"cas", "trash"} /\ cmd["fsck"].pc = "cas"
             /\ \A h \in Hash : Clean(h)' \/ h \in cmd'["fsck"].due \/ h = bad'
  <2>1. /\ Visited("fsck", x, 1) \in [Cmd -> CmdState]
        /\ Visited("fsck", x, 1)["fsck"].pc = "cas" /\ cmd["fsck"].pc = "cas"
        /\ Visited("fsck", x, 1)["fsck"].due = cmd["fsck"].due \ {x}
    BY <1>0, <1>9, VisitedType DEF FsckChecksObject
  <2>2. UNCHANGED <<cas, calm>>
    BY <1>9 DEF FsckChecksObject
  <2>3. CASE cas[x] = x
    <3>1. cmd' = Visited("fsck", x, 1) /\ Clean(x)
      BY <1>9, <2>3 DEF FsckChecksObject, Clean
    <3>2. QED
      BY <1>1, <1>2, <2>1, <2>2, <3>1
  <2>4. CASE cas[x] # x
    <3>1. cmd' = [Visited("fsck", x, 1) EXCEPT !["fsck"].pc = "trash"] /\ bad' = x
      BY <1>9, <2>4 DEF FsckChecksObject
    <3>2. cmd'["fsck"].pc = "trash" /\ cmd'["fsck"].due = cmd["fsck"].due \ {x}
      BY <1>0, <2>1, <3>1 DEF CmdState
    <3>3. QED
      BY <1>1, <1>2, <2>1, <2>2, <3>1, <3>2
  <2>5. QED
    BY <2>3, <2>4
<1>10. ASSUME NEW x \in Hash PROVE ~FsckSkipsPrefix(x)
  <2>1. cmd["fsck"].pc = "cas" => cmd["fsck"].fds < FdLimit
    BY <1>0, Spare DEF FdInv
  <2>2. cmd["fsck"].fds \in Nat /\ FdLimit \in Nat
    BY <1>0, BoundsAssumption DEF CmdState
  <2>3. FsckSkipsPrefix(x) => cmd["fsck"].pc = "cas" /\ cmd["fsck"].fds = FdLimit
    BY DEF FsckSkipsPrefix
  <2>4. QED
    BY <2>1, <2>2, <2>3
<1>11. ASSUME NEW p \in Path, FsckKeepsNode(p) \/ FsckTrashesNode(p)
       PROVE  cmd["fsck"].pc = "nodes" /\ cmd'["fsck"].pc = "nodes" /\ UNCHANGED <<cas, calm>>
  <2>1. cmd["fsck"].pc = "nodes" /\ UNCHANGED <<cas, calm>>
    BY <1>11 DEF FsckKeepsNode, FsckTrashesNode
  <2>2. /\ Visited("fsck", p, 0)["fsck"].pc = "nodes"
        /\ Visited("fsck", p, 1)["fsck"].pc = "nodes"
    BY <1>0, <2>1, VisitedType
  <2>3. cmd' = Visited("fsck", p, 0) \/ cmd' = Visited("fsck", p, 1)
    <3>1. CASE FsckKeepsNode(p)
      BY <3>1 DEF FsckKeepsNode
    <3>2. CASE FsckTrashesNode(p)
      BY <3>2 DEF FsckTrashesNode
    <3>3. QED
      BY <1>11, <3>1, <3>2
  <2>4. QED
    BY <2>1, <2>2, <2>3
<1>12. CASE FsckTrashesObject
  <2>1. /\ cmd["fsck"].pc = "trash" /\ cmd'["fsck"].pc = "cas"
        /\ cmd'["fsck"].due = cmd["fsck"].due
    BY <1>0, <1>12 DEF FsckTrashesObject, FsckAborts, NoCmd, CmdState
  <2>2. cas' = [cas EXCEPT ![bad] = Absent] /\ UNCHANGED calm
    BY <1>0, <1>12 DEF FsckTrashesObject, FsckAborts, NoCmd, MoveToTrash
  <2>3. \A h \in Hash : (Clean(h) => Clean(h)') /\ (h = bad => Clean(h)')
    BY <1>0, <2>2 DEF Clean
  <2>4. QED
    BY <1>1, <2>1, <2>2, <2>3
<1>13. ASSUME NEW kind, Fault(kind), UNCHANGED cmd PROVE FALSE
  BY <1>0, <1>13 DEF Fault, NoCommand
<1>14. ASSUME NEW h \in Hash PROVE ~CorruptObject(h)
  BY <1>13 DEF CorruptObject
<1>15. ASSUME NEW p \in Path PROVE ~CorruptNode(p)
  BY <1>13 DEF CorruptNode
<1>16. ASSUME UNCHANGED <<cas, cmd, bad, calm>>
       PROVE  /\ cmd'["fsck"].pc \in {"cas", "setbit", "trash"} =>
                   \A h \in Hash : Clean(h)' \/ h \in cmd'["fsck"].due \/ h = bad'
              /\ cmd'["fsck"].pc = "nodes" => \A h \in Hash : Clean(h)'
  BY <1>1, <1>2, <1>16
<1>17. ASSUME NEW p \in Path, ReaderSetsBit(p) PROVE UNCHANGED <<cas, cmd, bad, calm>>
  BY <1>17 DEF ReaderSetsBit
<1>18. UNCHANGED vars => UNCHANGED <<cas, cmd, bad, calm>>
  BY DEF vars
<1>19. CASE \E p \in Path : FsckKeepsNode(p) \/ FsckTrashesNode(p)
  BY <1>1, <1>2, <1>11, <1>19
<1>20. CASE \E h \in Hash : FsckChecksObject(h)
  BY <1>9, <1>20
<1>21. QED
  BY <1>4, <1>5, <1>6, <1>7, <1>8, <1>10, <1>12, <1>14, <1>15, <1>16, <1>17, <1>18, <1>19,
     <1>20, FsckGoesOn

\* In the first state no file is open.
LEMMA InitFsck == Init => WritersInv /\ BadInv /\ IntactInv /\ FdInv
<1> SUFFICES ASSUME Init PROVE WritersInv /\ BadInv /\ IntactInv /\ FdInv
  OBVIOUS
<1>1. \A c \in Cmd : cmd[c].pc = "idle"
  BY DEF Init, NoCmd
<1>2. (\A a \in Archivers : ar[a].pc = "idle") /\ \A h \in Hash : cas[h] = Absent
  BY DEF Init, NoArchive
<1>3. "fsck" \in Cmd /\ Absent \notin Hash /\ Absent \notin Archivers
  BY ValuesAssumption DEF Cmd
<1>4. WritersInv
  BY <1>2, <1>3 DEF WritersInv
<1>5. BadInv /\ IntactInv /\ FdInv
  BY <1>1, <1>3 DEF BadInv, IntactInv, FdInv, FdOk
<1>6. QED
  BY <1>4, <1>5

\* With gc and fsck run alone, what fsck relies on holds throughout.
LEMMA FsckInvariant ==
    /\ Spec => []WritersInv
    /\ Overlap # "all" => (Spec => []BadInv)
    /\ EnoughFds => (Spec => []FdInv)
    /\ Overlap # "all" /\ EnoughFds => (Spec => []IntactInv)
<1>1. Spec => []WritersInv
  <2>1. TypeOK /\ WritersInv /\ [Next]_vars => WritersInv'
    BY WritersStep
  <2>2. QED
    BY <2>1, InitFsck, TypeCorrect, PTL DEF Spec
<1>2. ASSUME Overlap # "all" PROVE Spec => []BadInv
  <2>1. TypeOK /\ Idle /\ Alone /\ BadInv /\ [Next]_vars => BadInv'
    BY <1>2, BadStep
  <2>2. Spec => [](TypeOK /\ Idle /\ Alone /\ GcInv /\ MarkInv)
    BY <1>2, SoloInvariant
  <2>3. QED
    BY <2>1, <2>2, InitFsck, PTL DEF Spec
<1>3. ASSUME EnoughFds PROVE Spec => []FdInv
  <2>1. TypeOK /\ Idle /\ FdInv /\ [Next]_vars => FdInv'
    BY <1>3, FdStep
  <2>2. TypeOK /\ Idle /\ [Next]_vars => Idle'
    BY IdleStep
  <2>3. QED
    BY <2>1, <2>2, InitSolo, InitFsck, TypeCorrect, PTL DEF Spec
<1>4. ASSUME Overlap # "all", EnoughFds PROVE Spec => []IntactInv
  <2>1. TypeOK /\ Idle /\ Alone /\ FdInv /\ IntactInv /\ [Next]_vars => IntactInv'
    BY <1>4, IntactStep
  <2>2. Spec => [](TypeOK /\ Idle /\ Alone /\ GcInv /\ MarkInv)
    BY <1>4, SoloInvariant
  <2>3. Spec => []FdInv
    BY <1>3, <1>4
  <2>4. QED
    BY <2>1, <2>2, <2>3, InitFsck, PTL DEF Spec
<1>5. QED
  BY <1>1, <1>2, <1>3, <1>4

\* When it runs alone, fsck moves no object that is intact: what it is about to move
\* has a wrong content, whatever faults happen between the check and the move.
THEOREM OnlyTornIsMoved == Overlap # "all" => (Spec => FsckKeepsObjects)
<1> SUFFICES ASSUME Overlap # "all" PROVE Spec => FsckKeepsObjects
  OBVIOUS
<1>1. TypeOK /\ Idle /\ Alone /\ WritersInv /\ BadInv =>
        [\A h \in Hash : bad = h /\ cas[h] # Absent /\ cas'[h] = Absent => cas[h] = Torn]_vars
  <2> SUFFICES ASSUME TypeOK, Idle, Alone, WritersInv, BadInv,
                      NEW h \in Hash, bad = h, cas[h] # Absent
               PROVE  cas[h] = Torn
    OBVIOUS
  <2>1. cmd["fsck"].pc = "trash" /\ cas[h] # h
    BY ValuesAssumption DEF Idle, BadInv
  <2>2. \A a \in Archivers : ar[a].pc = "idle"
    BY <2>1, Basics DEF Alone, NoCommand
  <2>3. cas[h] \notin Archivers /\ cas[h] \notin Hash
    BY <2>1, <2>2 DEF WritersInv
  <2>4. QED
    BY <2>3 DEF TypeOK, Content
<1>2. QED
  BY <1>1, SoloInvariant, FsckInvariant, PTL DEF Spec, FsckKeepsObjects

\* When it runs alone and has files to spare, fsck moves no node that can be read.
THEOREM ReadableNodesStay == Overlap # "all" /\ EnoughFds => (Spec => FsckKeepsNodes)
<1> SUFFICES ASSUME Overlap # "all", EnoughFds PROVE Spec => FsckKeepsNodes
  OBVIOUS
<1> USE DEF disk, gcState, ghost
<1>1. TypeOK /\ Idle /\ Alone /\ FdInv /\ [Next]_vars =>
        [\A n \in Names : cmd["fsck"].pc = "nodes" /\ nodes'[<<0, n>>] = Absent
                            => nodes[<<0, n>>] \notin Entries]_vars
  <2> SUFFICES ASSUME TypeOK, Idle, Alone, FdInv, [Next]_vars, NEW n \in Names,
                      cmd["fsck"].pc = "nodes", nodes'[<<0, n>>] = Absent,
                      nodes[<<0, n>>] \in Entries
               PROVE  FALSE
    OBVIOUS
  <2>0. /\ "fsck" \in Cmd /\ cmd["fsck"] \in CmdState /\ <<0, n>> \in Path
        /\ Absent \notin Entries /\ Absent # Torn /\ Entries \cap Names = {}
        /\ nodes \in [Path -> NodeContent \cup {Absent}]
    BY Basics, ValuesAssumption DEF Hash, TypeOK, Cmd
  <2>1. ~UNCHANGED nodes
    BY <2>0
  <2>2. cmd["fsck"].fds < FdLimit /\ cmd["fsck"].fds \in Nat /\ FdLimit \in Nat
    BY <2>0, Spare, BoundsAssumption DEF FdInv, CmdState
  <2>3. ASSUME NEW p \in Path, FsckTrashesNode(p) PROVE FALSE
    <3>1. ~Readable(p)
      BY SMTT(30), <2>2, <2>3 DEF FsckTrashesNode
    <3>2. p # <<0, n>>
      BY <2>0, <3>1 DEF Readable, EntryOf, Target
    <3>3. <<p[1] + 1, p[2]>> # <<0, n>>
      BY DEF Path
    <3>4. nodes'[<<0, n>>] = nodes[<<0, n>>]
      BY <2>0, <2>3, <3>2, <3>3 DEF FsckTrashesNode
    <3>5. QED
      BY <2>0, <3>4
  <2>4. ASSUME NEW p \in Path, CorruptNode(p) PROVE FALSE
    BY <2>0, <2>4 DEF CorruptNode
  <2>5. ASSUME \/ Enumerate("fsck") \/ CommandKilled("fsck")
               \/ \E p \in Path : ReaderSetsBit(p) \/ FsckKeepsNode(p)
               \/ \E h \in Hash : \/ FsckChecksObject(h) \/ FsckCannotOpen(h)
                                  \/ FsckSkipsPrefix(h) \/ CorruptObject(h)
               \/ FsckTrashesObject \/ FsckEnds
               \/ UNCHANGED vars
        PROVE  UNCHANGED nodes
    BY <2>5 DEF Enumerate, Parse, ListCas, TrashBit, SetBitAgain, Missed, ListNodes, WalkCutShort,
                CommandKilled, ReaderSetsBit, FsckKeepsNode, FsckChecksObject, FsckCannotOpen,
                FsckSkipsPrefix, CorruptObject, FsckTrashesObject, FsckEnds, vars
  <2>6. QED
    BY <2>1, <2>3, <2>4, <2>5, WhileFsck DEF Fsck
<1>2. QED
  BY <1>1, SoloInvariant, FsckInvariant, PTL DEF Spec, FsckKeepsNodes

\* When it runs alone and has files to spare, an fsck that no fault hit leaves no
\* object whose content is not what its name says.
THEOREM FsckedIsIntact == Overlap # "all" /\ EnoughFds => (Spec => FsckLeavesIntact)
<1> SUFFICES ASSUME Overlap # "all", EnoughFds PROVE Spec => FsckLeavesIntact
  OBVIOUS
<1>1. IntactInv =>
        [cmd["fsck"].pc = "nodes" /\ cmd'["fsck"].pc = "idle" /\ fscked' /\ calm
           => \A h \in Hash : cas[h] \in {h, Absent}]_vars
  BY DEF IntactInv
<1>2. QED
  BY <1>1, FsckInvariant, PTL DEF Spec, FsckLeavesIntact

-----------------------------------------------------------------------------
(* One command at a time *)

\* At most one archive runs, and when it is about to make the tag there is none.
OneArchive ==
    /\ \A a, b \in Archivers : ar[a].pc # "idle" /\ ar[b].pc # "idle" => a = b
    /\ \A a \in Archivers : ar[a].pc = "link" => nodes[<<0, Tag>>] = Absent

\* The archive that takes a step is the only one.
LEMMA OnlyArchive ==
    ASSUME TypeOK, OneArchive, Overlap = "none", NEW a \in Archivers, Archive(a)
    PROVE  \A b \in Archivers \ {a} : ar[b].pc = "idle" /\ ar'[b].pc = "idle"
<1>1. \A b \in Archivers \ {a} : ar[b].pc = "idle"
  <2>1. CASE ar[a].pc = "idle"
    BY <2>1, ArchiveFrame DEF MayArchive, MayStart, Quiet
  <2>2. CASE ar[a].pc # "idle"
    BY <2>2 DEF OneArchive
  <2>3. QED
    BY <2>1, <2>2
<1>2. QED
  BY <1>1, ArchiveFrame

\* An archive comes to making the tag by removing the old one.
LEMMA OnlyUntagLeadsToLink ==
    ASSUME TypeOK, NEW a \in Archivers, Archive(a), ar'[a].pc = "link"
    PROVE  nodes'[<<0, Tag>>] = Absent
<1>0. /\ ar \in [Archivers -> ArchiveState] /\ nodes \in [Path -> NodeContent \cup {Absent}]
      /\ <<0, Tag>> \in Path /\ ar[a] \in ArchiveState
  BY Basics DEF TypeOK
<1>1. CASE \E e \in Entries : ArchiveStart(a, e)
  BY <1>0, <1>1 DEF ArchiveStart, NoArchive
<1>2. CASE \E h \in Hash : AddEntry(a, h)
  BY <1>0, <1>2 DEF AddEntry, ArchiveState
<1>3. CASE \E h \in Hash : AddFails(a, h)
  BY <1>0, <1>3 DEF AddFails, ArchiveState, NoArchive
<1>4. CASE CopyEnds(a)
  BY <1>0, <1>4 DEF CopyEnds, ArchiveState
<1>5. CASE CopyOfChangedFile(a)
  BY <1>0, <1>5 DEF CopyOfChangedFile, ArchiveState
<1>6. CASE CopyFails(a)
  BY <1>0, <1>6 DEF CopyFails, ArchiveState, NoArchive
<1>7. CASE \E n \in Names : NodeCreate(a, n)
  BY <1>0, <1>7 DEF NodeCreate, ArchiveState
<1>8. CASE NodeWrite(a)
  BY <1>0, <1>8 DEF NodeWrite, ArchiveState
<1>9. CASE Untag(a)
  BY <1>0, <1>9 DEF Untag
<1>10. CASE LinkTag(a)
  BY <1>0, <1>10 DEF LinkTag, NoArchive
<1>11. CASE OpenTag(a)
  BY <1>0, <1>11 DEF OpenTag, ArchiveState
<1>12. CASE RewriteTag(a)
  BY <1>0, <1>12 DEF RewriteTag, NoArchive
<1>13. QED
  BY <1>1, <1>2, <1>3, <1>4, <1>5, <1>6, <1>7, <1>8, <1>9, <1>10, <1>11, <1>12 DEF Archive

\* Neither the user nor a fault makes a tag.
LEMMA NoNewTag ==
    ASSUME TypeOK, Environment, nodes[<<0, Tag>>] = Absent
    PROVE  nodes'[<<0, Tag>>] = Absent
<1> USE DEF disk
<1>0. /\ nodes \in [Path -> NodeContent \cup {Absent}] /\ <<0, Tag>> \in Path
      /\ Absent \notin Archivers /\ Absent \notin Entries
  BY Basics, ValuesAssumption DEF TypeOK, Hash
<1>1. CASE \E n \in Names : DeleteNode(n)
  BY <1>0, <1>1 DEF DeleteNode
<1>2. CASE \E p \in Path : CorruptNode(p)
  BY <1>0, <1>2 DEF CorruptNode
<1>3. CASE \E a \in Archivers : ArchiveKilled(a)
  BY <1>0, <1>3 DEF ArchiveKilled, Fill
<1>4. QED
  BY <1>1, <1>2, <1>3 DEF Environment, ReaderSetsBit, CommandKilled, CorruptObject

\* It stays so when archives do not overlap.
LEMMA OneArchiveStep ==
    ASSUME TypeOK, Idle, Alone, OneArchive, Overlap = "none", [Next]_vars
    PROVE  OneArchive'
<1>1. ASSUME NEW a \in Archivers, Archive(a) PROVE OneArchive'
  BY <1>1, OnlyArchive, OnlyUntagLeadsToLink DEF OneArchive
<1>2. ASSUME NEW c \in Cmd, Enumerate(c) \/ (c = "gc" /\ Gc) \/ (c = "fsck" /\ Fsck)
      PROVE  OneArchive'
  <2>1. UNCHANGED ar
    BY <1>2, CommandStep
  <2>2. \A a \in Archivers : ar[a].pc = "idle"
    <3>1. CASE cmd[c].pc = "idle"
      BY <1>2, <3>1, CommandStep DEF Parse, MayStart, Quiet
    <3>2. CASE cmd[c].pc # "idle"
      BY <3>2 DEF Alone, NoCommand
    <3>3. QED
      BY <3>1, <3>2
  <2>3. QED
    BY <2>1, <2>2 DEF OneArchive
<1>3. CASE Environment
  <2>1. \A a \in Archivers : ar'[a] = ar[a] \/ ar'[a].pc = "idle"
    BY <1>3, EnvironmentFrame DEF NoArchive
  <2>2. QED
    BY <1>3, <2>1, NoNewTag DEF OneArchive
<1>4. CASE Rest \/ UNCHANGED vars
  BY <1>4 DEF Rest, vars, disk, OneArchive
<1>5. QED
  BY <1>1, <1>2, <1>3, <1>4 DEF Next, Cmd

\* An archive changes no node that was recorded.
LEMMA ArchiveKeepsNodes ==
    ASSUME TypeOK, GcInv, OneArchive, NEW a \in Archivers, Archive(a),
           NEW n \in Names, nodes[<<0, n>>] \in Entries
    PROVE  nodes'[<<0, n>>] = nodes[<<0, n>>]
<1> USE DEF disk
<1>0. /\ nodes \in [Path -> NodeContent \cup {Absent}] /\ <<0, Tag>> \in Path /\ <<0, n>> \in Path
      /\ n # Tag /\ nodes[<<0, n>>] # Absent /\ nodes[<<0, n>>] # a /\ Absent \notin Names
  BY Basics, ValuesAssumption DEF TypeOK, Hash
<1>1. CASE NodeWrite(a) \/ RewriteTag(a)
  <2>1. nodes' = Fill(nodes, a, ar[a].ent)
    BY <1>1 DEF NodeWrite, RewriteTag
  <2>2. QED
    BY <1>0, <2>1 DEF Fill
<1>2. CASE \E m \in Names : NodeCreate(a, m)
  BY <1>0, <1>2 DEF NodeCreate, GcInv
<1>3. CASE Untag(a) \/ LinkTag(a)
  BY <1>0, <1>3 DEF Untag, LinkTag
<1>4. CASE OpenTag(a)
  <2>1. Target(<<0, Tag>>) = <<0, Tag>>
    BY <1>0, <1>4 DEF OpenTag, OneArchive, Target
  <2>2. QED
    BY <1>0, <1>4, <2>1 DEF OpenTag
<1>5. CASE UNCHANGED nodes
  BY <1>5
<1>6. QED
  BY <1>1, <1>2, <1>3, <1>4, <1>5 DEF Archive, ArchiveStart, AddEntry, AddFails, CopyEnds,
     CopyOfChangedFile, CopyFails, Copied

\* While one command runs at a time, what a node says never changes, whether the
\* tag is a link or a copy and whatever crashes: the fallback of nodesTable.AddEntry
\* never finds a tag to write through.
THEOREM RecordedNodesStay == Overlap = "none" => (Spec => RecordedStays)
<1> SUFFICES ASSUME Overlap = "none" PROVE Spec => RecordedStays
  OBVIOUS
<1>1. Init => OneArchive
  BY DEF Init, OneArchive, NoArchive
<1>2. TypeOK /\ Idle /\ Alone /\ OneArchive /\ [Next]_vars => OneArchive'
  BY OneArchiveStep
<1>3. TypeOK /\ GcInv /\ OneArchive /\ [Next]_vars =>
        [\A n \in Names : nodes[<<0, n>>] \in Entries /\ faults' = faults
            => nodes'[<<0, n>>] \in {nodes[<<0, n>>], Absent}]_vars
  <2> SUFFICES ASSUME TypeOK, GcInv, OneArchive, [Next]_vars,
                      NEW n \in Names, nodes[<<0, n>>] \in Entries, faults' = faults
               PROVE  nodes'[<<0, n>>] \in {nodes[<<0, n>>], Absent}
    OBVIOUS
  <2> USE DEF disk
  <2>0. /\ nodes \in [Path -> NodeContent \cup {Absent}] /\ <<0, n>> \in Path
        /\ Entries \cap Archivers = {}
    BY Basics, ValuesAssumption DEF TypeOK, Hash
  <2>1. CASE \E a \in Archivers : Archive(a)
    BY <2>1, ArchiveKeepsNodes
  <2>2. CASE \E m \in Names : DeleteNode(m)
    BY <2>0, <2>2 DEF DeleteNode
  <2>3. CASE \E a \in Archivers : ArchiveKilled(a)
    BY <2>0, <2>3 DEF ArchiveKilled, Fill
  <2>4. CASE \E p \in Path : CorruptNode(p)
    BY <2>4 DEF CorruptNode, Fault, TypeOK
  <2>5. CASE \E p \in Path : FsckTrashesNode(p)
    <3>1. PICK p \in Path : FsckTrashesNode(p)
      BY <2>5
    <3>2. p[1] \in Nat /\ <<p[1] + 1, p[2]>> # <<0, n>>
      BY DEF Path
    <3>3. QED
      BY <2>0, <3>1, <3>2 DEF FsckTrashesNode
  <2>6. CASE UNCHANGED nodes
    BY <2>6
  <2>7. QED
    BY <2>1, <2>2, <2>3, <2>4, <2>5, <2>6 DEF Next, Rest, vars, Enumerate, Parse, ListCas, TrashBit,
       SetBitAgain, Missed, ListNodes, WalkCutShort, Gc, GcSeesObject, GcRemoves, GcReadsNode,
       GcMeetsBadNode, GcNodesDone, GcEnds, Fsck, FsckChecksObject, FsckCannotOpen, FsckSkipsPrefix,
       FsckKeepsNode, FsckTrashesObject, FsckEnds, Environment, ReaderSetsBit, CommandKilled,
       CorruptObject
<1>4. Spec => [](TypeOK /\ Idle /\ Alone /\ GcInv /\ MarkInv)
  BY SoloInvariant
<1>5. QED
  BY <1>1, <1>2, <1>3, <1>4, PTL DEF Spec, RecordedStays
=============================================================================
