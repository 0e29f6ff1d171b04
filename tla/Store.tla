------------------------------- MODULE Store -------------------------------
(***************************************************************************)
(* A dumbcas root directory and the commands that work on it.              *)
(*                                                                         *)
(* On disk: the CAS table cas/<hash> with its trash and its need_fsck file *)
(* (dumbcaslib/cas_local.go, trash.go), and the nodes table                *)
(* nodes/<month>/<name>, nodes/tags/<tag> and nodes/trash/...              *)
(* (nodes_local.go).  Nothing locks the directory: archive, gc and fsck    *)
(* are processes whose steps, one per file operation or per object         *)
(* visited, interleave; Overlap says which of them run at the same time.   *)
(*                                                                         *)
(* Data abstraction.  Entries are the serialized trees, Refs[e] the hashes *)
(* a tree refers to.  An intact object is the value of its own name.  Torn *)
(* is any content that is not what the name says: truncated, corrupted, or *)
(* read from a file that changed after it was hashed.  A file an archiver  *)
(* still has open contains that archiver, wherever it was renamed to.      *)
(* A node file contains the entry it names, a tag the node it links to.    *)
(***************************************************************************)
EXTENDS Naturals, FiniteSets

CONSTANTS
    Data, Entries,  \* hashes of file contents and of serialized trees
    Refs,           \* Refs[e]: the hashes the tree e refers to
    Names, Tag,     \* node names, one per backup taken, and the tag
    Archivers,      \* archive processes, all for the same .toArchive name
    Absent, Torn,   \* no file; a file with the wrong content
    MaxDepth,       \* longest trash/trash/... prefix the file system takes
    FdLimit,        \* files a process may leave open before open fails
    Symlinks,       \* the outcomes os.Symlink may have when the tag is free
    Overlap,        \* which processes run at the same time: "none",
                    \* "archives" (with each other only) or "all"
    Commands,       \* which of gc and fsck are run
    Deletable,      \* which nodes the user deletes: "none", "untagged", "any"
    Faults,         \* the kinds of fault that happen
    MaxFaults,      \* and how many of them
    MaxRuns         \* how many times gc and fsck are run

Hash == Data \cup Entries
Content == Hash \cup Archivers \cup {Torn}
Path == (0..MaxDepth) \X (Names \cup {Tag})
NodeContent == Entries \cup Names \cup Archivers \cup {Torn}
Cmd == {"gc", "fsck"}

ASSUME ValuesAssumption ==
    /\ Data \cap Entries = {}
    /\ Hash \cap Archivers = {} /\ Hash \cap Names = {} /\ Archivers \cap Names = {}
    /\ {Absent, Torn} \cap (Hash \cup Archivers \cup Names) = {} /\ Absent # Torn
    /\ Tag \notin Names
    /\ Refs \in [Entries -> SUBSET Data]

ASSUME BoundsAssumption ==
    /\ MaxDepth \in Nat /\ FdLimit \in Nat \ {0} /\ MaxFaults \in Nat /\ MaxRuns \in Nat
    /\ Overlap \in {"none", "archives", "all"} /\ Symlinks \subseteq BOOLEAN
    /\ Commands \subseteq Cmd
    /\ Deletable \in {"none", "untagged", "any"}
    /\ Faults \subseteq {"crash", "copy", "stale", "corrupt"}

VARIABLES
    cas, trash,     \* content of cas/<hash> and of cas/trash/<hash>
    needFsck,       \* does cas/need_fsck exist
    nodes,          \* content of nodes/[trash/]*<name>, by number of trash/
    ar,             \* what each archive process is doing
    cmd,            \* what gc and fsck are doing
    entries, tagged,    \* gc: the keys of its map, and those it set to true
    bad,            \* fsck: the object it found corrupted
    gcResult,       \* how the last gc ended
    used,           \* names taken so far: the name holds the time of day
    runs, faults,   \* commands run and faults so far
    fscked,         \* fsck completed, and only gc was run since
    calm,           \* no fault since gc or fsck was last started
    old             \* nodes there when gc started, and not truncated since

disk == <<cas, trash, needFsck, nodes>>
gcState == <<entries, tagged, gcResult, old>>
ghost == <<used, runs, faults, fscked, calm>>
vars == <<disk, ar, cmd, gcState, bad, ghost>>

NoArchive == [pc |-> "idle", ent |-> Absent, todo |-> {}, cur |-> Absent, name |-> Absent]
NoCmd == [pc |-> "idle", due |-> {}, vis |-> {}, stray |-> FALSE, fds |-> 0]

ArchiveState ==
    [pc : {"idle", "add", "copy", "node", "write", "untag", "link", "rewrite"},
     ent : Entries \cup {Absent}, todo : SUBSET Hash,
     cur : Hash \cup {Absent}, name : Names \cup {Absent}]
CmdState ==
    [pc : {"idle", "list", "cas", "setbit", "trash", "nodes", "remove"},
     due : SUBSET (Hash \cup Path), vis : SUBSET (Hash \cup Path),
     stray : BOOLEAN, fds : Nat]

\* Every file holds something the program or a fault can have put there, and the
\* processes are at one of their steps with a natural number of files open.
TypeOK ==
    /\ cas \in [Hash -> Content \cup {Absent}]
    /\ trash \in [Hash -> Content \cup {Absent}]
    /\ needFsck \in BOOLEAN
    /\ nodes \in [Path -> NodeContent \cup {Absent}]
    /\ ar \in [Archivers -> ArchiveState]
    /\ cmd \in [Cmd -> CmdState]
    /\ entries \in SUBSET Hash /\ tagged \in SUBSET Hash /\ old \in SUBSET Names
    /\ bad \in Hash \cup {Absent}
    /\ gcResult \in {"none", "ok", "failed"}
    /\ used \in SUBSET Names /\ runs \in Nat /\ faults \in Nat
    /\ fscked \in BOOLEAN /\ calm \in BOOLEAN

Init ==
    /\ cas = [h \in Hash |-> Absent] /\ trash = [h \in Hash |-> Absent]
    /\ needFsck = FALSE
    /\ nodes = [p \in Path |-> Absent]
    /\ ar = [a \in Archivers |-> NoArchive]
    /\ cmd = [c \in Cmd |-> NoCmd]
    /\ entries = {} /\ tagged = {} /\ old = {} /\ bad = Absent /\ gcResult = "none"
    /\ used = {} /\ runs = 0 /\ faults = 0 /\ fscked = FALSE /\ calm = TRUE

-----------------------------------------------------------------------------
NoCommand == \A c \in Cmd : cmd[c].pc = "idle"
Quiet == NoCommand /\ \A a \in Archivers : ar[a].pc = "idle"
MayStart == Overlap = "all" \/ Quiet
MayArchive == MayStart \/ (Overlap = "archives" /\ NoCommand)

\* The content of the file a has open becomes v, under whatever name it has.
Fill(files, a, v) == [x \in DOMAIN files |-> IF files[x] = a THEN v ELSE files[x]]

\* Opening a tag opens the node it links to; the link is relative, so a
\* trashed tag leads to a trashed node.
Target(p) == IF nodes[p] \in Names THEN <<p[1], nodes[p]>> ELSE p
EntryOf(p) == nodes[Target(p)]
Readable(p) == EntryOf(p) \in Entries
Loads(p) == Readable(p) /\ cas[EntryOf(p)] = EntryOf(p)

Stored == {h \in Hash : cas[h] # Absent}
NodeFiles == {p \in Path : nodes[p] # Absent}

\* trash.move: a rename into the trash, over what the trash had.
MoveToTrash(h) == /\ cas' = [cas EXCEPT ![h] = Absent]
                  /\ trash' = [trash EXCEPT ![h] = cas[h]]

SetFsckBit == needFsck' = TRUE

\* SetFsckBit ignores the error of os.Create: without a file descriptor the bit
\* is set only if one was freed just then.
TrySetFsckBit(c) == SetFsckBit \/ (cmd[c].fds = FdLimit /\ UNCHANGED needFsck)

Fault(kind) == /\ kind \in Faults /\ faults < MaxFaults
               /\ faults' = faults + 1
               /\ fscked' = FALSE /\ calm' = NoCommand
               /\ UNCHANGED <<used, runs>>

-----------------------------------------------------------------------------
(* archive, as a client of the two tables (its pipeline: module Archive) *)

ArchiveStart(a, e) ==
    /\ ar[a].pc = "idle" /\ MayArchive
    /\ Cardinality({b \in Archivers : ar[b].pc \in {"add", "copy", "node"}})
         < Cardinality(Names \ used)     \* a name is left for this backup
    /\ ar' = [ar EXCEPT ![a] = [NoArchive EXCEPT !.pc = "add", !.ent = e,
                                                 !.todo = Refs[e] \cup {e}]]
    /\ fscked' = FALSE
    /\ UNCHANGED <<disk, cmd, gcState, bad, used, runs, faults, calm>>

\* Mutant: the entry is stored before the objects it refers to.
AddEntryAnyOrder(a, h) ==
    /\ ar[a].pc = "add" /\ h \in ar[a].todo
    /\ IF cas[h] # Absent
       THEN /\ ar' = [ar EXCEPT ![a].todo = @ \ {h},
                                ![a].pc = IF h = ar[a].ent THEN "node" ELSE "add"]
            /\ UNCHANGED cas
       ELSE /\ ar' = [ar EXCEPT ![a].todo = @ \ {h}, ![a].cur = h, ![a].pc = "copy"]
            /\ cas' = [cas EXCEPT ![h] = a]
    /\ UNCHANGED <<trash, needFsck, nodes, cmd, gcState, bad, ghost>>

\* casTable.AddEntry creates the file with O_EXCL.  A file that is already
\* there, whatever it contains, counts as archived.  The entry comes last.
AddEntry(a, h) ==
    /\ ar[a].pc = "add" /\ h \in ar[a].todo
    /\ h = ar[a].ent => ar[a].todo = {h}
    /\ IF cas[h] # Absent
       THEN /\ ar' = [ar EXCEPT ![a].todo = @ \ {h},
                                ![a].pc = IF h = ar[a].ent THEN "node" ELSE "add"]
            /\ UNCHANGED cas
       ELSE /\ ar' = [ar EXCEPT ![a].todo = @ \ {h}, ![a].cur = h, ![a].pc = "copy"]
            /\ cas' = [cas EXCEPT ![h] = a]
    /\ UNCHANGED <<trash, needFsck, nodes, cmd, gcState, bad, ghost>>

\* The source or the new file cannot be opened: an error is counted, the tree
\* still refers to the object.  Without its entry object there is no node.
AddFails(a, h) ==
    /\ ar[a].pc = "add" /\ h \in ar[a].todo
    /\ h = ar[a].ent => ar[a].todo = {h}
    /\ ar' = [ar EXCEPT ![a] = IF h = ar[a].ent THEN NoArchive
                               ELSE [ar[a] EXCEPT !.todo = ar[a].todo \ {h}]]
    /\ Fault("copy")
    /\ UNCHANGED <<disk, cmd, gcState, bad>>

\* io.Copy returned; the file keeps what was written.
Copied(a, content) ==
    /\ ar[a].pc = "copy"
    /\ cas' = Fill(cas, a, content) /\ trash' = Fill(trash, a, content)
    /\ UNCHANGED <<needFsck, nodes, cmd, gcState, bad>>

CopyEnds(a) ==
    /\ Copied(a, ar[a].cur)
    /\ ar' = [ar EXCEPT ![a].pc = IF ar[a].cur = ar[a].ent THEN "node" ELSE "add"]
    /\ UNCHANGED ghost

\* The file changed after it was hashed: nothing compares content and name.
CopyOfChangedFile(a) ==
    /\ Copied(a, Torn) /\ ar[a].cur \in Data
    /\ ar' = [ar EXCEPT ![a].pc = "add"]
    /\ Fault("stale")

\* io.Copy failed: the partial file stays.  Without its entry object the
\* backup gets no node.
CopyFails(a) ==
    /\ Copied(a, Torn)
    /\ ar' = [ar EXCEPT ![a] = IF ar[a].cur = ar[a].ent THEN NoArchive
                               ELSE [ar[a] EXCEPT !.pc = "add"]]
    /\ Fault("copy")

\* nodesTable.AddEntry: a new file, found by trying suffixes; its content; then
\* the tag is removed and made again as a link, or as a copy when that fails.
NodeCreate(a, n) ==
    /\ ar[a].pc = "node" /\ n \in Names \ used
    /\ nodes' = [nodes EXCEPT ![<<0, n>>] = a]
    /\ ar' = [ar EXCEPT ![a].name = n, ![a].pc = "write"]
    /\ used' = used \cup {n}
    /\ UNCHANGED <<cas, trash, needFsck, cmd, gcState, bad, runs, faults, fscked, calm>>

NodeWrite(a) ==
    /\ ar[a].pc = "write"
    /\ nodes' = Fill(nodes, a, ar[a].ent)
    /\ ar' = [ar EXCEPT ![a].pc = "untag"]
    /\ UNCHANGED <<cas, trash, needFsck, cmd, gcState, bad, ghost>>

\* Mutant: the tag is not removed before it is made again.
UntagForgotten(a) ==
    /\ ar[a].pc = "untag"
    /\ ar' = [ar EXCEPT ![a].pc = "link"]
    /\ UNCHANGED <<disk, cmd, gcState, bad, ghost>>

Untag(a) ==
    /\ ar[a].pc = "untag"
    /\ nodes' = [nodes EXCEPT ![<<0, Tag>>] = Absent]
    /\ ar' = [ar EXCEPT ![a].pc = "link"]
    /\ UNCHANGED <<cas, trash, needFsck, cmd, gcState, bad, ghost>>

LinkTag(a) ==
    /\ ar[a].pc = "link" /\ TRUE \in Symlinks /\ nodes[<<0, Tag>>] = Absent
    /\ nodes' = [nodes EXCEPT ![<<0, Tag>>] = ar[a].name]
    /\ ar' = [ar EXCEPT ![a] = NoArchive]
    /\ UNCHANGED <<cas, trash, needFsck, cmd, gcState, bad, ghost>>

\* Mutant: the node the tag links to is written without being truncated first.
OpenTagInPlace(a) ==
    /\ ar[a].pc = "link" /\ (FALSE \in Symlinks \/ nodes[<<0, Tag>>] # Absent)
    /\ nodes' = [nodes EXCEPT ![Target(<<0, Tag>>)] = ar[a].ent]
    /\ old' = old \ {nodes[<<0, Tag>>]}
    /\ ar' = [ar EXCEPT ![a].pc = "rewrite"]
    /\ UNCHANGED <<cas, trash, needFsck, cmd, entries, tagged, gcResult, bad, ghost>>

\* os.Symlink failed: the tag is opened with O_TRUNC, which follows a link.
OpenTag(a) ==
    /\ ar[a].pc = "link" /\ (FALSE \in Symlinks \/ nodes[<<0, Tag>>] # Absent)
    /\ nodes' = [nodes EXCEPT ![Target(<<0, Tag>>)] = a]
    /\ old' = old \ {nodes[<<0, Tag>>]}
    /\ ar' = [ar EXCEPT ![a].pc = "rewrite"]
    /\ UNCHANGED <<cas, trash, needFsck, cmd, entries, tagged, gcResult, bad, ghost>>

RewriteTag(a) ==
    /\ ar[a].pc = "rewrite"
    /\ nodes' = Fill(nodes, a, ar[a].ent)
    /\ ar' = [ar EXCEPT ![a] = NoArchive]
    /\ UNCHANGED <<cas, trash, needFsck, cmd, gcState, bad, ghost>>

-----------------------------------------------------------------------------
(* What gc and fsck share: CommonFlags.Parse, casTable.Enumerate and        *)
(* nodesTable.Enumerate.  An enumeration meets everything that is there     *)
(* from its start to its end (due), and may or may not meet what appears    *)
(* or disappears meanwhile.                                                 *)

\* gc refuses to run while the fsck bit is set.
Parse(c) ==
    /\ cmd[c].pc = "idle" /\ c \in Commands /\ MayStart
    /\ c = "gc" => ~needFsck
    /\ runs < MaxRuns /\ runs' = runs + 1
    /\ cmd' = [cmd EXCEPT ![c].pc = "list"]
    /\ IF c = "gc"
       THEN /\ old' = {n \in Names : nodes[<<0, n>>] \in Entries}
            /\ gcResult' = "none"
       ELSE UNCHANGED <<old, gcResult>>
    /\ calm' = TRUE
    /\ UNCHANGED <<disk, ar, entries, tagged, bad, used, faults, fscked>>

ListCas(c) ==
    /\ cmd[c].pc = "list"
    /\ cmd' = [cmd EXCEPT ![c].pc = "cas", ![c].due = Stored, ![c].stray = needFsck]
    /\ UNCHANGED <<disk, ar, gcState, bad, ghost>>

\* need_fsck is itself a name Enumerate does not expect under cas/: it is moved
\* to the trash, and the bit is set again by the next step.
TrashBit(c) ==
    /\ cmd[c].pc = "cas" /\ cmd[c].stray
    /\ needFsck' = FALSE
    /\ cmd' = [cmd EXCEPT ![c].pc = "setbit", ![c].stray = FALSE]
    /\ UNCHANGED <<cas, trash, nodes, ar, gcState, bad, ghost>>

SetBitAgain(c) ==
    /\ cmd[c].pc = "setbit"
    /\ TrySetFsckBit(c)
    /\ cmd' = [cmd EXCEPT ![c].pc = "cas"]
    /\ UNCHANGED <<cas, trash, nodes, ar, gcState, bad, ghost>>

\* Something that was there at the start was removed before it was listed.
Missed(c) ==
    /\ \/ /\ cmd[c].pc = "cas"
          /\ \E h \in cmd[c].due \ Stored : cmd' = [cmd EXCEPT ![c].due = @ \ {h}]
       \/ /\ cmd[c].pc = "nodes"
          /\ \E p \in cmd[c].due \ NodeFiles : cmd' = [cmd EXCEPT ![c].due = @ \ {p}]
    /\ UNCHANGED <<disk, ar, gcState, bad, ghost>>

ListNodes(c) ==
    /\ cmd[c].pc = "cas" /\ cmd[c].due = {} /\ ~cmd[c].stray
    /\ cmd' = [cmd EXCEPT ![c].pc = "nodes", ![c].due = NodeFiles, ![c].vis = {}]
    /\ UNCHANGED <<disk, ar, gcState, bad, ghost>>

\* x is met by c's enumeration for the first time.
Meets(c, x, present) == x \in (cmd[c].due \cup present) \ cmd[c].vis

Visited(c, x, opened) ==
    [cmd EXCEPT ![c].due = @ \ {x}, ![c].vis = @ \cup {x}, ![c].fds = @ + opened]

-----------------------------------------------------------------------------
(* gc *)

\* Mutant: the tags of one gc are still there for the next.
GcReturnsTagged(result) ==
    /\ cmd' = [cmd EXCEPT !["gc"] = NoCmd]
    /\ entries' = {} /\ tagged' = tagged /\ old' = {}
    /\ gcResult' = result

GcReturns(result) ==
    /\ cmd' = [cmd EXCEPT !["gc"] = NoCmd]
    /\ entries' = {} /\ tagged' = {} /\ old' = {}
    /\ gcResult' = result

GcSeesObject(h) ==
    /\ cmd["gc"].pc = "cas" /\ h \in Stored /\ Meets("gc", h, Stored)
    /\ entries' = entries \cup {h}
    /\ cmd' = Visited("gc", h, 0)
    /\ UNCHANGED <<disk, ar, tagged, gcResult, old, bad, ghost>>

\* Mutant: the entry is tagged and not what it refers to.
GcReadsNodeOnly(p) ==
    /\ cmd["gc"].pc = "nodes" /\ Meets("gc", p, NodeFiles)
    /\ cmd["gc"].fds < FdLimit /\ Loads(p)
    /\ tagged' = tagged \cup {EntryOf(p)}
    /\ cmd' = Visited("gc", p, 1)
    /\ UNCHANGED <<disk, ar, entries, gcResult, old, bad, ghost>>

\* A node that can be opened and decoded tags its entry; LoadEntry must then
\* find a decodable object, whose references are tagged (tagRecurse).  The
\* node file stays open until gc returns.
GcReadsNode(p) ==
    /\ cmd["gc"].pc = "nodes" /\ Meets("gc", p, NodeFiles)
    /\ cmd["gc"].fds < FdLimit /\ Loads(p)
    /\ tagged' = tagged \cup {EntryOf(p)} \cup Refs[EntryOf(p)]
    /\ cmd' = Visited("gc", p, 1)
    /\ UNCHANGED <<disk, ar, entries, gcResult, old, bad, ghost>>

\* Any other node ends gc, which sets the fsck bit.
GcMeetsBadNode(p) ==
    /\ cmd["gc"].pc = "nodes" /\ Meets("gc", p, NodeFiles)
    /\ cmd["gc"].fds = FdLimit \/ ~Loads(p)
    /\ TrySetFsckBit("gc")
    /\ GcReturns("failed")
    /\ UNCHANGED <<cas, trash, nodes, ar, bad, ghost>>

GcNodesDone ==
    /\ cmd["gc"].pc = "nodes" /\ cmd["gc"].due = {}
    /\ cmd' = [cmd EXCEPT !["gc"].pc = "remove", !["gc"].vis = {}]
    /\ UNCHANGED <<disk, ar, gcState, bad, ghost>>

\* Mutant: an object that was moved is not forgotten and is moved again.
GcRemovesAgain(h) ==
    /\ cmd["gc"].pc = "remove" /\ h \in entries \ tagged
    /\ IF cas[h] # Absent
       THEN /\ MoveToTrash(h)
            /\ UNCHANGED <<needFsck, cmd, gcState>>
       ELSE /\ TrySetFsckBit("gc") /\ GcReturns("failed")
            /\ UNCHANGED <<cas, trash>>
    /\ UNCHANGED <<nodes, ar, bad, ghost>>

\* Mutant: tagged objects are moved too.
GcRemovesTagged(h) ==
    /\ cmd["gc"].pc = "remove" /\ h \in entries /\ cas[h] # Absent
    /\ MoveToTrash(h)
    /\ entries' = entries \ {h}
    /\ UNCHANGED <<needFsck, nodes, ar, cmd, tagged, old, gcResult, bad, ghost>>

\* An orphan that is gone by now ends gc.
GcRemoves(h) ==
    /\ cmd["gc"].pc = "remove" /\ h \in entries \ tagged
    /\ IF cas[h] # Absent
       THEN /\ MoveToTrash(h)
            /\ entries' = entries \ {h}
            /\ UNCHANGED <<needFsck, cmd, tagged, old, gcResult>>
       ELSE /\ TrySetFsckBit("gc") /\ GcReturns("failed")
            /\ UNCHANGED <<cas, trash>>
    /\ UNCHANGED <<nodes, ar, bad, ghost>>

GcEnds ==
    /\ cmd["gc"].pc = "remove" /\ entries \subseteq tagged
    /\ GcReturns("ok")
    /\ UNCHANGED <<disk, ar, bad, ghost>>

-----------------------------------------------------------------------------
(* fsck *)

FsckAborts == cmd' = [cmd EXCEPT !["fsck"] = NoCmd]

\* Mutant: the comparison of the two hashes is the wrong way round.
FsckChecksInverted(h) ==
    /\ cmd["fsck"].pc = "cas" /\ h \in Stored /\ Meets("fsck", h, Stored)
    /\ cmd["fsck"].fds < FdLimit
    /\ IF cas[h] # h
       THEN cmd' = Visited("fsck", h, 1) /\ UNCHANGED bad
       ELSE /\ cmd' = [Visited("fsck", h, 1) EXCEPT !["fsck"].pc = "trash"]
            /\ bad' = h
    /\ UNCHANGED <<disk, ar, gcState, ghost>>

\* The object is opened, and left open, and its content hashed.
FsckChecksObject(h) ==
    /\ cmd["fsck"].pc = "cas" /\ h \in Stored /\ Meets("fsck", h, Stored)
    /\ cmd["fsck"].fds < FdLimit
    /\ IF cas[h] = h
       THEN cmd' = Visited("fsck", h, 1) /\ UNCHANGED bad
       ELSE /\ cmd' = [Visited("fsck", h, 1) EXCEPT !["fsck"].pc = "trash"]
            /\ bad' = h
    /\ UNCHANGED <<disk, ar, gcState, ghost>>

\* Mutant: the bad object is logged and stays where it is.
FsckLogsObject ==
    /\ cmd["fsck"].pc = "trash"
    /\ cmd' = [cmd EXCEPT !["fsck"].pc = "cas"] /\ bad' = Absent
    /\ UNCHANGED <<disk, ar, gcState, ghost>>

FsckTrashesObject ==
    /\ cmd["fsck"].pc = "trash"
    /\ IF cas[bad] # Absent
       THEN /\ MoveToTrash(bad)
            /\ cmd' = [cmd EXCEPT !["fsck"].pc = "cas"]
       ELSE FsckAborts /\ UNCHANGED <<cas, trash>>
    /\ bad' = Absent
    /\ UNCHANGED <<needFsck, nodes, ar, gcState, ghost>>

\* The object was listed and cannot be opened: it is gone, or fsck has no file
\* descriptor left.
FsckCannotOpen(h) ==
    /\ cmd["fsck"].pc = "cas" /\ Meets("fsck", h, Stored)
    /\ h \notin Stored \/ cmd["fsck"].fds = FdLimit
    /\ FsckAborts
    /\ UNCHANGED <<disk, ar, gcState, bad, ghost>>

\* Without a file descriptor Enumerate cannot read a prefix directory either:
\* it sets the bit, and fsck logs the error and goes on.
FsckSkipsPrefix(h) ==
    /\ cmd["fsck"].pc = "cas" /\ h \in Stored /\ Meets("fsck", h, Stored)
    /\ cmd["fsck"].fds = FdLimit
    /\ TrySetFsckBit("fsck")
    /\ cmd' = Visited("fsck", h, 0)
    /\ UNCHANGED <<cas, trash, nodes, ar, gcState, bad, ghost>>

\* Mutant: the node is closed once more than it was opened.
FsckClosesTwice(p) ==
    /\ cmd["fsck"].pc = "nodes" /\ Meets("fsck", p, NodeFiles)
    /\ cmd["fsck"].fds < FdLimit /\ Readable(p)
    /\ cmd' = [Visited("fsck", p, 0) EXCEPT !["fsck"].fds = cmd["fsck"].fds - 1]
    /\ UNCHANGED <<disk, ar, gcState, bad, ghost>>

FsckKeepsNode(p) ==
    /\ cmd["fsck"].pc = "nodes" /\ Meets("fsck", p, NodeFiles)
    /\ cmd["fsck"].fds < FdLimit /\ Readable(p)
    /\ cmd' = Visited("fsck", p, 1)
    /\ UNCHANGED <<disk, ar, gcState, bad, ghost>>

\* Mutant: a node whose entry is missing or corrupted is moved too.
FsckTrashesUnloadable(p) ==
    /\ cmd["fsck"].pc = "nodes" /\ Meets("fsck", p, NodeFiles)
    /\ cmd["fsck"].fds = FdLimit \/ ~Loads(p)
    /\ nodes' = IF nodes[p] = Absent \/ p[1] = MaxDepth THEN nodes
                ELSE [nodes EXCEPT ![p] = Absent, ![<<p[1] + 1, p[2]>>] = nodes[p]]
    /\ cmd' = Visited("fsck", p, 0)
    /\ UNCHANGED <<cas, trash, needFsck, ar, gcState, bad, ghost>>

\* A node that cannot be opened or decoded is moved one trash/ deeper; the
\* enumeration walks trash/ too and may meet it again there.  An error of
\* nodes.Remove is ignored.
FsckTrashesNode(p) ==
    /\ cmd["fsck"].pc = "nodes" /\ Meets("fsck", p, NodeFiles)
    /\ cmd["fsck"].fds = FdLimit \/ ~Readable(p)
    /\ nodes' = IF nodes[p] = Absent \/ p[1] = MaxDepth THEN nodes
                ELSE [nodes EXCEPT ![p] = Absent, ![<<p[1] + 1, p[2]>>] = nodes[p]]
    /\ cmd' = Visited("fsck", p, IF cmd["fsck"].fds < FdLimit /\ EntryOf(p) # Absent
                                 THEN 1 ELSE 0)
    /\ UNCHANGED <<cas, trash, needFsck, ar, gcState, bad, ghost>>

\* Without a file descriptor the walk of nodes/ ends early, with an error that
\* fsck logs and gc returns.
WalkCutShort(c) ==
    /\ cmd[c].pc = "nodes" /\ cmd[c].fds = FdLimit
    /\ IF c = "gc" THEN GcReturns("failed")
       ELSE cmd' = [cmd EXCEPT ![c].due = {}] /\ UNCHANGED gcState
    /\ UNCHANGED <<disk, ar, bad, ghost>>

FsckEnds ==
    /\ cmd["fsck"].pc = "nodes" /\ cmd["fsck"].due = {}
    /\ needFsck' = FALSE
    /\ cmd' = [cmd EXCEPT !["fsck"] = NoCmd]
    /\ gcResult' = "none" /\ fscked' = TRUE
    /\ UNCHANGED <<cas, trash, nodes, ar, entries, tagged, old, bad, used, runs, faults, calm>>

-----------------------------------------------------------------------------
(* The user, the readers and the faults *)

\* rm nodes/<month>/<name>, as the README says to delete a backup.
DeleteNode(n) ==
    /\ MayStart /\ nodes[<<0, n>>] # Absent
    /\ \/ Deletable = "any"
       \/ Deletable = "untagged" /\ nodes[<<0, Tag>>] # n
    /\ nodes' = [nodes EXCEPT ![<<0, n>>] = Absent]
    /\ fscked' = FALSE
    /\ UNCHANGED <<cas, trash, needFsck, ar, cmd, gcState, bad, used, runs, faults, calm>>

\* restore, info and web change nothing but the fsck bit, which LoadEntry sets
\* when the entry of a node cannot be loaded.
ReaderSetsBit(p) ==
    /\ Readable(p) /\ ~Loads(p)
    /\ SetFsckBit
    /\ UNCHANGED <<cas, trash, nodes, ar, cmd, gcState, bad, ghost>>

\* The process dies (gc and fsck do not catch Ctrl-C); open files stay as they
\* are.
ArchiveKilled(a) ==
    /\ ar[a].pc # "idle" /\ Fault("crash")
    /\ cas' = Fill(cas, a, Torn) /\ trash' = Fill(trash, a, Torn)
    /\ nodes' = Fill(nodes, a, Torn)
    /\ ar' = [ar EXCEPT ![a] = NoArchive]
    /\ UNCHANGED <<needFsck, cmd, gcState, bad>>

CommandKilled(c) ==
    /\ cmd[c].pc # "idle" /\ Fault("crash")
    /\ IF c = "gc" THEN GcReturns("none") /\ UNCHANGED bad
       ELSE FsckAborts /\ bad' = Absent /\ UNCHANGED gcState
    /\ UNCHANGED <<disk, ar>>

CorruptObject(h) ==
    /\ cas[h] = h /\ Fault("corrupt")
    /\ cas' = [cas EXCEPT ![h] = Torn]
    /\ UNCHANGED <<trash, needFsck, nodes, ar, cmd, gcState, bad>>

CorruptNode(p) ==
    /\ nodes[p] \in Entries /\ Fault("corrupt")
    /\ nodes' = [nodes EXCEPT ![p] = Torn]
    /\ UNCHANGED <<cas, trash, needFsck, ar, cmd, gcState, bad>>

-----------------------------------------------------------------------------
Archive(a) ==
    \/ \E e \in Entries : ArchiveStart(a, e)
    \/ \E h \in Hash : AddEntry(a, h) \/ AddFails(a, h)
    \/ CopyEnds(a) \/ CopyOfChangedFile(a) \/ CopyFails(a)
    \/ \E n \in Names : NodeCreate(a, n)
    \/ NodeWrite(a) \/ Untag(a) \/ LinkTag(a) \/ OpenTag(a) \/ RewriteTag(a)

Enumerate(c) ==
    \/ Parse(c) \/ ListCas(c) \/ TrashBit(c) \/ SetBitAgain(c) \/ Missed(c)
    \/ ListNodes(c) \/ WalkCutShort(c)

Gc ==
    \/ \E h \in Hash : GcSeesObject(h) \/ GcRemoves(h)
    \/ \E p \in Path : GcReadsNode(p) \/ GcMeetsBadNode(p)
    \/ GcNodesDone \/ GcEnds

Fsck ==
    \/ \E h \in Hash : FsckChecksObject(h) \/ FsckCannotOpen(h) \/ FsckSkipsPrefix(h)
    \/ \E p \in Path : FsckKeepsNode(p) \/ FsckTrashesNode(p)
    \/ FsckTrashesObject \/ FsckEnds

Environment ==
    \/ \E n \in Names : DeleteNode(n)
    \/ \E p \in Path : ReaderSetsBit(p) \/ CorruptNode(p)
    \/ \E a \in Archivers : ArchiveKilled(a)
    \/ \E c \in Cmd : CommandKilled(c)
    \/ \E h \in Hash : CorruptObject(h)

\* Nobody runs a command any more.
Rest == Quiet /\ UNCHANGED vars

Next ==
    \/ Rest
    \/ \E a \in Archivers : Archive(a)
    \/ \E c \in Cmd : Enumerate(c)
    \/ Gc \/ Fsck \/ Environment

Spec == Init /\ [][Next]_vars

-----------------------------------------------------------------------------
(* Properties *)

Closure(e) == {e} \cup Refs[e]
Referenced == UNION {Closure(EntryOf(p)) : p \in {q \in Path : Readable(q)}}

\* gc "moves to trash all objects that are not referenced anymore", and no
\* other: when it moves an object, no node that can be read, in nodes/ or in
\* its trash, leads to that object.
GcKeepsReferenced ==
    [][\A h \in entries \ entries' : cas[h] # Absent /\ cas'[h] = Absent
                                     => h \notin Referenced]_vars

\* The same with everything running at once: gc never moves an object of a
\* backup that was recorded before gc started and that is still there.
GcKeepsOldBackups ==
    [][\A h \in entries \ entries' : cas[h] # Absent /\ cas'[h] = Absent =>
          \A n \in old : nodes[<<0, n>>] \in Entries => h \notin Closure(nodes[<<0, n>>])]_vars

\* Why that is so.  A file under nodes/ has a name that was taken; no archive
\* has a node open that was there when gc started; and once gc has listed the
\* nodes, each of those it has not met yet is still due and the objects of the
\* others are tagged.  GcKeepsOldBackups follows from this inductive invariant.
GcInv ==
    /\ \A n \in Names : nodes[<<0, n>>] # Absent => n \in used
    /\ nodes[<<0, Tag>>] \in Names => nodes[<<0, Tag>>] \in used
    /\ \A a \in Archivers : ar[a].name # Absent => ar[a].name \in used
    /\ \A n \in old : n \in used /\ nodes[<<0, n>>] \notin Archivers
    /\ cmd["gc"].pc \in {"nodes", "remove"} => \A n \in old :
          nodes[<<0, n>>] \in Entries => \/ <<0, n>> \in cmd["gc"].due
                                         \/ Closure(nodes[<<0, n>>]) \subseteq tagged
    /\ cmd["gc"].pc = "remove" => cmd["gc"].due = {}

\* A gc that ends well, and that no fault hit while it ran, leaves no object
\* that no node leads to.
GcCollectsAll ==
    [][gcResult # "ok" /\ gcResult' = "ok" /\ calm => Stored \subseteq Referenced]_vars

\* fsck moves an object to the trash only if its content is not what its name
\* says: an intact object, or one that is being written, stays.
FsckKeepsObjects ==
    [][\A h \in Hash : bad = h /\ cas[h] # Absent /\ cas'[h] = Absent
                         => cas[h] = Torn]_vars

\* fsck moves a node to the trash only if it cannot be opened or decoded; one
\* whose entry object is missing stays, for "in theory the data could be found
\* on another copy of the CasTable".
FsckKeepsNodes ==
    [][\A n \in Names : cmd["fsck"].pc = "nodes" /\ nodes'[<<0, n>>] = Absent
                          => nodes[<<0, n>>] \notin Entries]_vars

\* When an fsck ends that no fault hit while it ran, the content of every object
\* is what its name says: also after an archive was killed or failed while
\* writing, or archived a file that was changing, or an object rotted.
FsckLeavesIntact ==
    [][cmd["fsck"].pc = "nodes" /\ cmd'["fsck"].pc = "idle" /\ fscked' /\ calm
         => \A h \in Hash : cas[h] \in {h, Absent}]_vars

\* While one command runs at a time, what a node says never changes: the tag is
\* made again without writing through the old one to the node of an earlier
\* backup, also when it has to be a copy, after any crash.  A node is written
\* once, and from then on it is deleted, moved to the trash or, by a fault,
\* corrupted.
RecordedStays ==
    [][\A n \in Names : nodes[<<0, n>>] \in Entries /\ faults' = faults
          => nodes'[<<0, n>>] \in {nodes[<<0, n>>], Absent}]_vars

\* Every node leads to objects that are intact, or that an archive which found
\* them missing is still writing.
RecordedIsBacked ==
    \A n \in Names : nodes[<<0, n>>] \in Entries =>
        \A h \in Closure(nodes[<<0, n>>]) : cas[h] = h \/ cas[h] \in Archivers

\* While gc runs alone and there is no fault, it finds every node and every entry
\* it reads and every orphan it removes: none of its error returns is taken.
GcSucceeds == gcResult # "failed"

\* The store of module BackupStore: the objects that are intact or that an
\* archive is writing, and the nodes outside the trash.
Backup == INSTANCE BackupStore WITH
    objects <- {h \in Hash : cas[h] = h \/ cas[h] \in Archivers},
    backups <- [n \in Names |-> IF nodes[<<0, n>>] \in Entries
                                THEN nodes[<<0, n>>] ELSE Absent]

\* The root directory implements that store.
ImplementsBackupStore == Backup!Spec

-----------------------------------------------------------------------------
(* What the documentation and the messages of the program say and the code *)
(* does not do; each is refuted by a run of its own.                       *)

\* "Can't run if fsck is needed. Please run fsck first.": once fsck has run, gc
\* does not fail.
GcSucceedsAfterFsck == fscked => gcResult # "failed"

\* "Fallback to rewrite the same data.": updating the tag never changes what a
\* node says.
NodesAreImmutable ==
    [][\A n \in Names : nodes[<<0, n>>] \in Entries
          => nodes'[<<0, n>>] \in {nodes[<<0, n>>], Absent}]_vars
=============================================================================
