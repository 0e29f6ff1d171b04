# dumbcas: specifications, model checking and proofs

dumbcas is a backup tool over a content-addressed directory. This directory
holds TLA+ specifications of the parts of it that are hard to test: the
goroutines of `archive`; the files under the root directory while `archive`,
`gc`, `fsck`, the user and crashes work on them; the hash cache while the user's
files change; `restore`; and the caches of the web server. `PROJECT.json` lists
the components, the runs, the mutants, the correspondence of definitions and
source lines, the findings, the hazards and the theorems.

## The system

| Part | Source | State | Operations |
|---|---|---|---|
| archive pipeline | `archive.go`, `EnumerateTree` in `dumbcaslib/common.go` | four channels, counters, the tree being built | enumerate, hash, store, record; interrupt |
| CAS table | `dumbcaslib/cas_local.go`, `trash.go` | `cas/<hash>`, `cas/trash`, `cas/need_fsck` | AddEntry, Enumerate, Open, Remove, Set/Get/ClearFsckBit |
| nodes table | `dumbcaslib/nodes_local.go`, `trash.go` | `nodes/<month>/<name>`, `nodes/tags/<tag>`, `nodes/trash` | AddEntry, Enumerate, Open, Remove, LoadEntry; web cache |
| gc | `gc.go`, `common.go` | the map of objects found and tagged | list, tag, remove orphans |
| fsck | `fsck.go`, `common.go` | open files | hash every object, decode every node, clear the bit |
| in-memory tables | `dumbcaslib/cas.go`, `nodes.go` | maps | the same interfaces, atomic |
| restore | `restore.go` | the output directory | write the files of a backup |
| info | `info.go` | none | list the files of a backup |
| entries | `dumbcaslib/entry.go` | recursive tree | virtual file system |
| hash cache | `dumbcaslib/cache.go`, `cache_local.go` | path to size, mtime, sha1 | load, look up, save |
| web | `web.go`, `dumbcaslib/nodes_local.go`, `entry.go` | two caches in the nodes table | find the node, the tree, the object |

`archive` is a client of both tables: it stores objects, then the entry object
that lists them, then a node that names the entry, then the tag. Before that it
asks the hash cache what it knows of each file. `gc` and `fsck` read and trash
what is in the tables; `restore`, `info` and `web` read them. No lock protects
the root directory or the cache file, so the processes interleave at every file
operation. The content of a file appears under its final name from the first
byte, nothing is synced or renamed into place, and every process may be killed
at any point.

What makes it hard: two `select`s that race with an interrupt, unbuffered
channels whose reader may be gone, objects that exist but are not complete,
enumerations of directories that change meanwhile, a tag that is a link in one
step and a file in the next, a bit stored as a file in the directory it
protects, file descriptors that are only closed when a command returns, a hash
that is trusted because a size and a time are the same, and caches that are
updated by goroutines that may run much later.

## Modules

| Module | Models |
|---|---|
| `Archive` | the pipeline of `archive` |
| `Store` | the root directory with archive, gc, fsck, readers, the user and faults |
| `BackupStore` | what the store promises: objects and backups, atomic operations |
| `HashCache` | `cache.gob` and the archives that trust it, while files change |
| `Restore` | `restore` of one backup into a directory, and what `info` lists |
| `RoundTrip` | `HashCache` and `Restore` composed over the objects and backups |
| `WebCache` | the web server over a `BackupStore` that changes |
| `StoreProofs`, `StoreSoloProofs`, `StoreRefinementProofs` | theorems about `Store`: with everything at once, with gc and fsck alone, and without faults |
| `ArchiveControlProofs`, `ArchiveFlowProofs`, `ArchiveProofs` | theorems about `Archive`: its types and who waits for whom, how files move and that the steps run out, what is in a recorded tree |
| `RoundTripProofs`, `WebProofs` | theorems about `RoundTrip`, `WebCache` |
| `MCArchive`, `MCStore`, `MCRoundTrip`, `MCWebCache` | constants for TLC |

Definitions whose comment begins with "Mutant" are slips a programmer could have
made; nothing refers to them. Each property of a passing run is violated when
one of them takes the place of the definition it follows in `PROJECT.json`.

### Archive

`pc` has the label of each goroutine: main, the three workers and the walker of
the directory being enumerated. `inputs` and `items` are the buffered channels;
`output` and `entry` are unbuffered, so a send on them (`Log`, `MainEntry`) is
one step of the sender together with main's `select`, and is possible only while
main is in that loop. Every case of a `select` is an action, since Go takes any
case that is ready. `intr` is the interrupt, which once set stays set. A file is
a model value, identified with its content; `tree` is the entry root, the file
at each relative path. `Failures` are the operations that may fail: stat, the
walk, loading the cache, hashing, storing an object, storing the entry, and
recording the node. The five-second progress report and the byte counts are left
out: no branch depends on them.

### Store

`cas`, `trash` and `nodes` map names to contents. An intact object contains its
own name, `Torn` is any other content, and a file that an archive still has open
contains that archive: when the archive writes or dies, the content changes
under whatever name the file has by then (`Fill`), so a file that was renamed to
the trash while it was being written is completed there. `nodes` is indexed by
the number of `trash/` prefixes and the name. A tag contains the name of the
node it links to, or an entry when it is a copy.

Each archive process (`ar`) stores the objects of one entry in any order, the
entry last, then creates the node, writes it, removes the tag, and links it or,
when the link fails, opens and rewrites it. gc and fsck (`cmd`) step through
Parse, the enumeration of the CAS, the enumeration of the nodes and, for gc, the
removals. An enumeration meets everything that is there from its start to its
end (`due`) and may or may not meet what appears or goes away meanwhile. `fds`
counts the files a command has left open.

The faults are a process that dies, a copy that fails, a file that changes after
it was hashed, and a corrupted object or node. `Overlap` says what runs at the
same time: nothing, archives only, or everything; `Deletable` says which nodes
the user deletes. `used`, `runs`, `faults`, `fscked`, `old` and `calm` (no fault
since the command started) only record history.

Simplifications, and why they lose nothing that is checked:

- A tree is the set of hashes it refers to; gc's recursion over it is `Closure`.
- gc reads a node and its entry in one step. The entry was stored before the
  node was written and no process rewrites an object, so a delay between the two
  reads only adds the case that the entry was removed in between, which ends gc
  as `GcMeetsBadNode` does.
- Two archives that rewrite the same tag file at once are resolved in favour of
  the one that opened it last.
- `FdLimit` stands for the limit of the process less the few descriptors a
  command needs for directories. Without a descriptor `SetFsckBit` may fail
  (`TrySetFsckBit`).
- A corrupted object or node no longer decodes. A corruption that leaves valid
  JSON is not modelled.
- Directory reads fail only for lack of a descriptor. The one unexpected name
  under `cas/` is `need_fsck`, which the program creates itself.
- A node is never created under the name of a deleted one: the name has the time
  of day to the second.

### BackupStore

Objects and backups with atomic `Put`, `Record`, `Forget` and `Collect`:
a backup is recorded only when all it refers to is there, and what a backup
refers to is never collected. It is also what the in-memory tables of the unit
tests do, which is why those tests see none of the behaviours below.

### HashCache, Restore and RoundTrip

`disk` has the content and the mtime, in seconds, of the user's files; the user
may write, create or delete one at any time. An archive (`arc`) stats a file,
looks it up, hashes it if the cache has another size or time, and copies it
later: `Stat`, `UpdateFile` and `ArchiveItem`, one file after the other in each
of the three goroutines (`InTurn`). `cacheFile` is truncated and written in two
steps, and `LoadCache` takes what does not decode for an empty cache. The hash of
a content is that content. `was` records what the file contained between the
stat and the hash, and `hasty` the files that changed twice within one second,
which the code cannot notice.

`Restore` is `restoreEntry` over a tree given as the function from its files to
hash and size: each file is skipped, written, or counted as an error; the copy
may fail half way, the process may die, and the directory may hold files from
before. `Under` says that a path lies inside another one: two inputs can make a
path both a file and a directory, although `entry.go:21` says of an `Entry` that
it "can only contain the 2 firsts or the last one." Then only one of the two can be
restored. `Listed` is what `info` shows of a backup.

`RoundTrip` composes them over `cas` and `backups`. Restores and archives take
turns there; that they meet is in `Store`.

### WebCache

A request (`req`) is a sequence of steps with nothing held between them: find the
node in `recentNodes`, else on disk; its tree in `recentEntries`, else in the CAS;
then the path, then the object. What was loaded is put in a cache by a goroutine
that may run at any later time (`updates`). The store underneath is `BackupStore`
with one more state, a node whose file exists and is still empty (`partial`).
Nodes are deleted, the tag is made again, and objects are collected at any time.

A URL is a name, a path inside the backup, and whether it ends in "/". A key of
`recentNodes` is a name with or without the "/": `HasPrefix` is the test by string
prefix, and `Extends` says which names continue others. `At` is the tree: a hash,
a directory or nothing at each path. The clock may give two accesses the same
time. A backup without any file, whose root is not taken for a directory, is left
out. `used`, `had` and `asked` only record history.

## Runs that pass

| Run | Shows | Bounds |
|---|---|---|
| `archive` | `NobodyUnheard`: without interrupt, main leaves its loop only when no worker will send to it again; `CleanRunIsComplete`: no error and no interrupt means the whole tree, stored, in input order; `CacheSavedAtExit`; `RecordedIsAccounted`: a recorded file is stored or was counted as an error; `NeverStuck`: without interrupt some goroutine can move until main returns; `StepsRunOut`: interrupted or not, each step leaves fewer to take; `Terminates` | a directory of two files and a file with the relative path of one of them; channels of 2 and 1; all failures; an interrupt at any moment |
| `store` | `GcKeepsReferenced`, `GcCollectsAll`, `FsckKeepsObjects`, `FsckKeepsNodes`, `FsckLeavesIntact`; `RecordedStays`: no archive changes a node that was recorded | one process at a time; two trees that share a file, two names, tags as links and as copies, one fault of any kind, three commands, enough descriptors |
| `store_archivers` | `GcSucceeds`, `RecordedIsBacked`, `ImplementsBackupStore` | two archives at once, then gc and fsck alone; no fault, three names, the tagged node is not deleted |
| `store_concurrent` | `GcInv`, `GcKeepsOldBackups` | gc, fsck, an archive, deletions and a crash interleaved, one tree, one name, one descriptor, so that the second file a command opens fails, two commands |
| `round_trip` | `HashIsTrue`: a hash, cached or not, is that of a content the file had in this archive; `RestoreGivesBack`: a restore without error has written all that `info` lists, as it was | two files, one inside the path of the other; three contents, two of the same size and one empty; two changes, two seconds, two backups, one death or corruption |
| `web` | `ServesTheNode`: a node that is there is served as it is; `ServesWhatWasThere`: nothing is served under a name that was not recorded there; the bound of the caches is in `TypeOK` | one request at a time with one late update; caches of one item; a node and a tag, two trees that differ at a path, six URLs |

`TypeOK` is checked once for each of `Archive`, `Store`, `RoundTrip` and
`WebCache`.

Bounds. Channels of capacity 1 and 2 fill up with three files, so every blocking
send happens. Two trees that share an object are enough for an object that is
referenced twice, once and not at all. Two names give a current and an old
backup, three a backup between them. One fault can hit any step. With the one
descriptor of `store_concurrent` a gc that meets a node and its tag stops at the
second; it goes on when an archive died before the tag or makes it behind gc's
back, in `store`, and in the proof, which is for any limit. Two changes of a
file, and two archives one after the other, are enough for a cache entry that is
stale, and for one that was filled while the file changed; what two archives at
once do to the cache file is beyond these bounds and is proved. A cache of one
item evicts with every second tree. `MaxRuns` bounds how often gc and fsck are
started, `MaxDepth` the levels of trash/trash, `MaxFaults` the faults,
`MaxChanges`, `MaxTime` and `MaxBackups` the changes, seconds and backups, and
`MaxPending` the late updates. Deadlock is checked where the system never stops;
an archive ends (or hangs, see `archive_hang`), and in `RoundTrip` and `WebCache`
the bounds are used up.

Fairness. `Archive` assumes weak fairness of each goroutine: the Go scheduler
runs every goroutine that can run. Nothing is assumed of the user, of failures or
of the choice between the ready cases of a `select`. The other modules have no
fairness and no liveness property: nobody is obliged to run a command, to ask for
a page or to let a process live.

## Runs that fail, and what they show

Each of these checks what a comment, a message or the README of dumbcas says.

| Run | Property | Behaviour |
|---|---|---|
| `archive_hang` | `InterruptTerminates` | main leaves its loop on Ctrl-C and waits for three done signals; a worker that has a line to print blocks for ever |
| `tag_race` | `NodesAreImmutable` | two archives end together and one truncates the other's node through the tag |
| `trash_walk` | `GcSucceedsAfterFsck` | the latest node is deleted as the README says, its tag dangles, fsck moves it to `nodes/trash`, Enumerate walks that too and gc fails again |
| `fsck_descriptors` | `FsckKeepsNodes` | fsck runs out of descriptors and trashes good nodes |
| `web_evict` | `RemovesOldest` | a tree that was just loaded has the zero time of access; a full cache drops it at once and keeps its first trees for ever |
| `web_prefix` | `ServesTheNode` | a node asked for without "/" is cached under its bare name, and then taken for the node with the suffix "(1)", which is not found |

The passing runs rest on conditions, and the model shows why they are needed:

- `GcKeepsReferenced` and `FsckKeepsObjects` need gc and fsck to run alone. gc
  beside an archive may move objects of the backup being taken, and only of that
  one: what was recorded before gc started is safe (`GcKeepsOldBackups`, proved).
  fsck beside an archive may move an object that is still being written.
- `RecordedStays` needs archives that do not overlap: `tag_race` is the same
  property with two of them.
- `GcSucceeds` needs `Deletable # "any"`: deleting the latest node leaves a
  tag that gc cannot open.
- `CleanRunIsComplete` says "the file of the last one" because two inputs with
  the same relative path share one place in the tree, and no error is counted.
  It needs a run that is not interrupted: when the hashing goroutine is, it
  closes its channel, the next one takes that for the end, and a partial tree is
  recorded.
- `FsckKeepsNodes` and `FsckLeavesIntact` need a descriptor for every object and
  node there is.
- `HashIsTrue` excludes a file that changed twice within a second, and an empty
  file with mtime 0: a cache entry that was never filled has that size and time,
  so the file gets the empty hash, is in no listing and is not restored.
- `RestoreGivesBack` says what an intact object gives back. Restore compares
  lengths, not hashes: a corrupted object of the right length is restored without
  error, and is for fsck to find.
- `ServesTheNode` excludes the tag, which may be served from an earlier backup
  until it is evicted, and in run `web` no name is the beginning of another.

Without a property: `archive` returns nil after an interrupt and after errors;
`need_fsck` is moved away and created again in two steps, and lost if fsck dies
in between; a corrupted entry object takes its whole backup with it; a node that
cannot be decoded is shown by the web server as an empty directory.

## Proofs

Every safety property that a passing run checks is also proved, for every choice
of the constants that satisfies the assumptions named below. Where a property
needs a condition, the condition is the hypothesis of the theorem, and the
constants of the run satisfy it.

### StoreProofs

For every choice of the constants that satisfies `ValuesAssumption` (hashes, archives, names, `Absent` and `Torn` are different
things) and `BoundsAssumption` (the bounds are natural numbers), hence for any
number of objects, backups, archives, faults and commands:

- `TypeCorrect`: `Spec => []TypeOK`.
- `GcInvariant`: `Spec => []GcInv`.
- `OldBackupsAreKept`: `Spec => GcKeepsOldBackups`.

`GcKeepsOldBackups` speaks of the moment an object is moved. That the object is
not tagged then is gc's own test; what has to be shown is that everything an old
backup needs is tagged by then, although archives, fsck and the user change the
nodes while gc reads them. `GcInv` says so: once the nodes are listed, each old
node is still due or its objects are tagged. This is not inductive alone. A node
that gc has read, or that was gone when gc looked, must not come back with other
content, so `GcInv` adds that no archive has an old node open and that old nodes
have names that were taken, and, for that to be preserved, that every file under
`nodes/`, every link and every archive holds a taken name. A node that is
truncated through the tag (`tag_race`) leaves `old` at that step.

The proof has a lemma for what every step that does not concern gc must respect
(`GcInvKept`), one lemma per process with a step per action, and
`OnlyGcRemoves`: no other step takes an object out of both gc's map and `cas/`.
TLC checks `GcInv` in `store_concurrent`.

### StoreSoloProofs

The same assumptions, and `Overlap # "all"`: archives may overlap with each other,
gc and fsck run alone. Any fault may happen at any step.

- `ReferencedIsKept`: `Overlap # "all" => (Spec => GcKeepsReferenced)`.
- `OrphansAreCollected`: `Overlap # "all" => (Spec => GcCollectsAll)`.
- `OnlyTornIsMoved`: `Overlap # "all" => (Spec => FsckKeepsObjects)`.
- `ReadableNodesStay`: `Overlap # "all" /\ EnoughFds => (Spec => FsckKeepsNodes)`.
- `FsckedIsIntact`: `Overlap # "all" /\ EnoughFds => (Spec => FsckLeavesIntact)`.
- `RecordedNodesStay`: `Overlap = "none" => (Spec => RecordedStays)`.

`EnoughFds` says that there are finitely many objects and names, and fewer objects
and paths under `nodes/` together than files a command may leave open; run
`fsck_descriptors` shows what happens otherwise.

`Alone` says that the commands exclude each other, which the model only states as
the guard of their start, and `Idle` that a command that has ended leaves nothing
behind for the next one. `MarkInv` is what gc knows: while it lists the objects,
every stored object is in its map or due; from then on its map is all that is
stored, and each readable node, in the trash or not, is due or all it leads to is
tagged; and unless a fault has hit it, only what some node leads to is tagged. The
first two parts give `GcKeepsReferenced`, the others `GcCollectsAll`.
`WritersInv` says that an object which is being written belongs to exactly the
archive that copies it, so no object is in that state when fsck looks; with
`BadInv` (the object fsck is about to move is not intact) this is
`FsckKeepsObjects`. `FdInv` counts: a command has at most one file open for each
object and node it has met, and it meets each of them once. `IntactInv` says that
what fsck has been through is intact or gone. It needs `FdInv`, for at the limit
fsck skips objects.

`RecordedNodesStay` is about the one place where an archive could write to a node
that is not its own: the tag, opened with O_TRUNC when it cannot be linked. `OneArchive`
says that no second archive runs and that there is no tag when the archive comes
to make one, so that the file it opens is always new; with the free names of
`GcInv` no other step of an archive touches a recorded node.

### StoreRefinementProofs

- `NodesAreBacked`: `Orderly => (Spec => []RecordedIsBacked)`.
- `BackupStoreIsImplemented`: `Orderly => (Spec => ImplementsBackupStore)`.
- `GcNeverFails`: `Careful => (Spec => []GcSucceeds)`.

`Orderly` is `Overlap # "all"` and no fault, for any number of archives at once;
`Careful` adds `EnoughFds` and `Deletable # "any"`.

`BackedInv` is the reason for the first: what an archive has stored so far is
there and nothing is left to store when it makes its node (`Steady`), no object is
corrupted, and what any file under `nodes/` names is there with all it refers to.
An archive takes an object for stored that another one is still writing; that it
is there all the same rests on the absence of faults. `ObjectsStep` says how the
set of objects changes: an archive adds one, or gc removes one that no node leads
to, at a time when no archive runs (from `MarkInv` and `Alone`).

The refinement maps the objects that are intact or being written, and the nodes
that name an entry. A step that creates an object's file is `Put`; one that fills
the file an archive has open under `nodes/` is `Record`; opening the node behind a
tag, deleting a node or moving it is `Forget`; gc's removal is `Collect`; the rest
changes nothing that `BackupStore` sees. That filling a file is a single `Record`,
and of a name that was free, is `OpenInv`: an archive has at most one file open
under `nodes/`, also while two archives rewrite the same tag.

`GcNeverFails` needs that every file under `nodes/` can be opened and leads to an
entry object: `NamedInv` says that nothing is in the trash, only the tag is a link
and its node is there, and `DueInv` that what a command has yet to meet is there.

### ArchiveControlProofs, ArchiveFlowProofs and ArchiveProofs

For every choice of the constants that satisfies the assumptions of `Archive`
(finitely many files, an input that is a file is one file, no file is reached
through two inputs, the files of one input differ in their relative path, and each
buffered channel holds at least one item), hence for any inputs, files and
capacities, any failures and an interrupt at any moment:

- `TypeCorrect`: `Spec => []TypeOK`.
- `WorkersAreHeard`: `Spec => []NobodyUnheard`.
- `CacheIsSaved`: `Spec => []CacheSavedAtExit`.
- `NobodyIsStuck`: `Spec => []NeverStuck`.
- `StepsDoRunOut`: `Spec => StepsRunOut`.
- `CleanRunsAreComplete`: `Spec => []CleanRunIsComplete`.
- `TreesAreAccounted`: `Spec => []RecordedIsAccounted`.

Beside the types `ArchiveInv` has five parts. `WalkInv` ties the walk of a
directory to the input `enumerateInputs` is at. `ControlInv` says who waits for
whom: a channel is closed by its sender after its last send, and only then, done is
signalled last, and unless it is interrupted a worker ends only when what it reads
is closed and empty. This gives `NobodyUnheard` and `CacheSavedAtExit`, and it
gives `NeverStuck`: if `enumerateInputs` waits, `inputs` is full, so `hashInputs`
waits for `items` and not for `inputs`, so `items` is full and `archiveInputs` has
something to take; and if nobody upstream waits, everybody upstream has ended and
closed its channel. `Ready` spells out what each goroutine waits for; it is written
with explicit guards because ENABLED is out of the prover's reach.

`StepsLeft` counts the inputs and files that are ahead, the items in the channels
with the steps each of them still takes, and the label of each goroutine; the
weights are chosen so that passing a file on costs more than the receiver gains.
That the walk takes one file from those ahead rests on the inputs having no file in
common, and the proof has a lemma for the steps of each goroutine.

`OrderInv` says that files go down the pipeline in the order of their inputs: what
is in the tree precedes what is in a channel or in the hand of a goroutine, which
precedes what comes after it. Without it the file of an earlier input could still
arrive and replace that of a later one. `CompleteInv` says where each file is in a
run without error and interrupt: not reached yet, in the walk, in the pipeline, or
stored and in the tree, there perhaps replaced by one of a later input.
`AccountInv` counts an error for each file that is listed and not stored. A step
that takes a file from one stage to the next (`Moves`) has a lemma of its own for
each of the last three.

### RoundTripProofs

For every choice of the constants that satisfies `HashCacheAssumption` (finitely
many files; `NoHash`, `Absent` and `Torn` are no contents; sizes are natural
numbers), hence for any files, contents, order of the files, number of archives
at once, changes and faults:

- `TypeCorrect`: `Spec => []TypeOK`.
- `HashesAreTrue`: `Spec => []HashIsTrue`.
- `RestoreIsComplete`: `Spec => RestoreGivesBack`.

`HashIsTrue` speaks of a hash when it has been taken; why it is right was decided
when some archive, perhaps another one, filled the cache entry. `HashInv` relates
every cache there is, in memory or on disk, to the file (`Sound`: an entry is not
newer than the file, and true if it is as old) and to every archive that has the
file's stat and not yet its hash (`Agrees`: an entry with that very stamp, should
the archive come to load it, has a content the file had since). The second part
is what makes it inductive: the file changes between the stat and the hash, and
`Sound` alone says nothing of an entry that is older than the file. A change of a
file that is not hasty has a later mtime than every entry, which keeps `Sound`.
`RestoreInv` says that so far everything was restored unless an error was
counted, and that the hashes of every backup are true (`BackupsAreTrue`), which
`Record` takes from `HashIsTrue`. There is a lemma for each action of an archive
that changes an item, one for all that do not (`ArchiveKeepsHashInv`), and one for
each step of a restore.

### WebProofs

For every choice of the constants that satisfies `WebCacheAssumption` (`Absent`
is nothing else, no path is called root, `At` has hashes the entry refers to), hence
for any number of requests at once, late updates, names, trees and size of the
caches:

- `CachesAreBounded`: `Spec => []TypeOK`.
- `NothingElseIsServed`: `Spec => ServesWhatWasThere`.
- `NodesAreServed`: `PrefixFree => (Spec => ServesTheNode)`. `PrefixFree` says that
  no name continues another; run `web_prefix` shows what happens otherwise.

`WebInv` has four parts: the caches are finite, which the count after an eviction
needs (`InsertEffect`); what is cached under a name, or waits to be, was recorded
under it (`CacheInv`); a node other than the tag is written once and what a
recorded backup needs is in the store (`StoreInv`), so that an old cache entry of a
node that is there is not stale; and what a request has found belongs to the name
it asked for (`Found`). `Goes` collects what a step of a request must respect; there
is one lemma for each stage of a request, and one for the store (`StoreStep`).

### Only model-checked

`Terminates` is a liveness property under fairness, which TLAPS cannot prove. What
is left to TLC there is little: `StepsRunOut` says that no run takes infinitely many
steps, `NeverStuck` that one which has not ended and is not interrupted has a
goroutine that can move, and fairness that it then does. That `Ready(p)` is when
goroutine p has a step of `Next` is read off the guards. The properties of the runs
that fail are refuted by a behaviour, which is TLC's to find.

## Not modelled

- The wording and layout of all output, the progress report and byte counts of
  `archive`: no branch depends on them.
- `web.go`: logging, the restriction to GET, the routing of net/http, and the
  direct URLs of objects, which hold no state. The order in which `ServeDir` and
  the node directories list their members.
- `main.go`, `version.go`: registration of the subcommands and the version.
- `ServeHTTP`, `Enumerate` and `Corrupt` of the in-memory tables, which serve the
  unit tests.
- `readFileAsStrings` and `cleanupList`: they give `Archive` its constant inputs.
- Corruption that leaves valid JSON: an entry that decodes to another tree needs
  the content of JSON.
- Errors of the file system that persist: the loop of `nodesTable.AddEntry` that
  looks for a free name takes every error for a name that is taken, and would not
  end.
- Composition of `Archive` with `Store`: `Store` has its own archive process, with
  the order of operations that `Archive` has (objects, entry, node, tag); together
  they exceed what TLC can enumerate.
