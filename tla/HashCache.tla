----------------------------- MODULE HashCache -----------------------------
(***************************************************************************)
(* The hash cache ~/.dumbcas/cache.gob (dumbcaslib/cache.go,               *)
(* cache_local.go) and the archives that trust it (updateFile and          *)
(* archiveItem of archive.go), while the user's files change.              *)
(*                                                                         *)
(* An archive stats a file, hashes it some time later unless the cache has *)
(* a hash for that size and time, and copies it later still.  It saves the *)
(* cache when all its files are hashed.  Nothing locks the cache file.     *)
(*                                                                         *)
(* The hash of a content is that content; NoHash is the empty string, the  *)
(* Sha1 of a cache entry that was never filled.  The module has no         *)
(* specification of its own: see module RoundTrip.                         *)
(***************************************************************************)
EXTENDS Naturals, FiniteSets

CONSTANTS
    File,           \* the files of the user, each with its path in a backup
    Content, Size,  \* what files contain; Size[c], in bytes
    NoHash, Absent, Torn,
    Before,         \* Before[f]: the files that an archive comes to before f
    Initial,        \* what the files contain at first
    Archivers,
    MaxTime, MaxChanges, MaxFaults, MaxBackups  \* bounds

VARIABLES
    disk,           \* the user's files
    now,            \* the time, in seconds: what the cache keeps of a time
    cacheFile,      \* cache.gob
    arc,            \* the archives
    cas,            \* content of the objects
    backups,        \* the trees recorded so far
    changes, faults,
    hasty           \* files that changed twice within one second

ASSUME HashCacheAssumption ==
    /\ IsFiniteSet(File)
    /\ {NoHash, Absent, Torn} \cap Content = {} /\ Absent \notin {NoHash, Torn}
    /\ Size \in [Content -> Nat]
    /\ Initial \in [File -> Content \cup {Absent}]

-----------------------------------------------------------------------------
Stamp(f) == [size |-> Size[disk[f].content], mtime |-> disk[f].mtime]
Zero == [size |-> 0, mtime |-> 0]
Fresh == [sha1 |-> NoHash, stamp |-> Zero]  \* &EntryCache{}
EmptyCache == [f \in File |-> Fresh]

\* What an archive knows of a file.  was, which the code does not have, is what
\* the file contained from the stat to the hash.
Unknown == [stage |-> "todo", stamp |-> Zero, sha1 |-> NoHash, was |-> {}]
NoArchive == [pc |-> "idle", cache |-> EmptyCache, item |-> [f \in File |-> Unknown],
              hashing |-> "load"]

Stamps == [size : Nat, mtime : Nat]
Cached == [File -> [sha1 : Content \cup {NoHash}, stamp : Stamps]]
Items == [stage : {"todo", "found", "hashed", "failed", "done"}, stamp : Stamps,
          sha1 : Content \cup {NoHash}, was : SUBSET Content]
ArchiveState == [pc : {"idle", "run", "recorded"}, cache : Cached, item : [File -> Items],
                 hashing : {"load", "hash", "save", "done"}]
Trees == [File -> [sha1 : Content \cup {NoHash}, size : Nat, was : SUBSET Content] \cup {Absent}]

HashCacheTypeOK ==
    /\ disk \in [File -> [content : Content \cup {Absent}, mtime : Nat]]
    /\ now \in Nat /\ changes \in Nat /\ faults \in Nat
    /\ cacheFile \in Cached \cup {Torn}
    /\ arc \in [Archivers -> ArchiveState]
    /\ cas \in [Content -> Content \cup {Absent, Torn}]
    /\ backups \in SUBSET Trees
    /\ hasty \in SUBSET File

\* The files are as old as can be.  There is no cache file yet, which is the
\* same as an empty one.
HashCacheInit ==
    /\ disk = [f \in File |-> [content |-> Initial[f], mtime |-> 0]]
    /\ now = 1 /\ cacheFile = EmptyCache
    /\ arc = [a \in Archivers |-> NoArchive]
    /\ cas = [c \in Content |-> Absent]
    /\ backups = {} /\ changes = 0 /\ faults = 0 /\ hasty = {}

item(a, f) == arc[a].item[f]

-----------------------------------------------------------------------------
(* The user *)

Tick ==
    /\ now < MaxTime
    /\ now' = now + 1
    /\ UNCHANGED <<disk, cacheFile, arc, cas, backups, changes, faults, hasty>>

\* A file is written, created or deleted.
Change(f, c) ==
    /\ changes < MaxChanges /\ c # disk[f].content
    /\ changes' = changes + 1
    /\ disk' = [disk EXCEPT ![f] = [content |-> c, mtime |-> now]]
    /\ hasty' = IF disk[f].mtime = now THEN hasty \cup {f} ELSE hasty
    /\ arc' = [a \in Archivers |->
                 IF item(a, f).stage = "found" /\ c # Absent
                 THEN [arc[a] EXCEPT !.item[f] = [item(a, f) EXCEPT !.was = @ \cup {c}]]
                 ELSE arc[a]]
    /\ UNCHANGED <<now, cacheFile, cas, backups, faults>>

-----------------------------------------------------------------------------
(* archive *)

\* The files pass through the three goroutines of archive in one order: f waits
\* until those before it have left the stages given.
InTurn(a, f, stages) == \A g \in Before[f] : item(a, g).stage \notin stages

Begin(a) ==
    /\ arc[a].pc = "idle" /\ Cardinality(backups) < MaxBackups
    /\ arc' = [arc EXCEPT ![a].pc = "run"]
    /\ UNCHANGED <<disk, now, cacheFile, cas, backups, changes, faults, hasty>>

\* A cache file that is empty or cannot be decoded gives an empty cache, which
\* costs time only.
LoadCache(a) ==
    /\ arc[a].pc = "run" /\ arc[a].hashing = "load"
    /\ arc' = [arc EXCEPT ![a].hashing = "hash",
                          ![a].cache = IF cacheFile = Torn THEN EmptyCache ELSE cacheFile]
    /\ UNCHANGED <<disk, now, cacheFile, cas, backups, changes, faults, hasty>>

\* enumerateInputs, one file; a file that is not there is not in the backup.
Stat(a, f) ==
    /\ arc[a].pc = "run" /\ item(a, f).stage = "todo" /\ InTurn(a, f, {"todo"})
    /\ arc' = [arc EXCEPT ![a].item[f] =
                 IF disk[f].content = Absent THEN [Unknown EXCEPT !.stage = "failed"]
                 ELSE [stage |-> "found", stamp |-> Stamp(f), sha1 |-> NoHash,
                       was |-> {disk[f].content}]]
    /\ UNCHANGED <<disk, now, cacheFile, cas, backups, changes, faults, hasty>>

\* What updateFile makes of the item and its cache entry, which is known: that
\* is found to be right, or the file is hashed, or cannot be.
Refresh(a, f, known, hit) ==
    LET new == IF hit THEN known ELSE [sha1 |-> disk[f].content, stamp |-> item(a, f).stamp]
    IN  arc' = IF ~hit /\ disk[f].content = Absent
               THEN [arc EXCEPT ![a].item[f] = [item(a, f) EXCEPT !.stage = "failed"]]
               ELSE [arc EXCEPT ![a].item[f] = [item(a, f) EXCEPT !.stage = "hashed", !.sha1 = new.sha1],
                                ![a].cache[f] = new]

CanUpdate(a, f) == /\ arc[a].hashing = "hash" /\ item(a, f).stage = "found"
                   /\ InTurn(a, f, {"todo", "found"})

\* Mutant: only the size is compared with the cache.
UpdateFileBySize(a, f) ==
    LET known == arc[a].cache[f] IN
    /\ CanUpdate(a, f)
    /\ Refresh(a, f, known, known.sha1 # NoHash /\ known.stamp.size = item(a, f).stamp.size)
    /\ UNCHANGED <<disk, now, cacheFile, cas, backups, changes, faults, hasty>>

\* Mutant: the error of hashing the file is ignored.
UpdateFileUnchecked(a, f) ==
    /\ CanUpdate(a, f)
    /\ arc' = [arc EXCEPT ![a].item[f].stage = "hashed", ![a].item[f].sha1 = disk[f].content]
    /\ UNCHANGED <<disk, now, cacheFile, cas, backups, changes, faults, hasty>>

\* FindInCache and updateFile.  Size and time are those of the stat; they are
\* compared with a cache entry that may be a fresh one.
UpdateFile(a, f) ==
    LET known == arc[a].cache[f] IN
    /\ CanUpdate(a, f)
    /\ Refresh(a, f, known, known.stamp = item(a, f).stamp)
    /\ UNCHANGED <<disk, now, cacheFile, cas, backups, changes, faults, hasty>>

\* makeEntry and archiveItem.  AddEntry refuses the empty hash and skips an
\* object that exists; otherwise the file is copied as it is by now.
ArchiveItem(a, f) ==
    LET h == item(a, f).sha1
    IN  /\ arc[a].pc = "run" /\ item(a, f).stage = "hashed"
        /\ InTurn(a, f, {"todo", "found", "hashed"})
        /\ arc' = [arc EXCEPT ![a].item[f] = [item(a, f) EXCEPT !.stage = "done"]]
        /\ cas' = IF h = NoHash \/ disk[f].content = Absent \/ cas[h] # Absent THEN cas
                  ELSE [cas EXCEPT ![h] = disk[f].content]
        /\ UNCHANGED <<disk, now, cacheFile, backups, changes, faults, hasty>>

Hashed(a) == \A f \in File : item(a, f).stage \notin {"todo", "found"}

\* cache.Close: O_TRUNC, then the encoded cache.
TruncateCache(a) ==
    /\ arc[a].hashing = "hash" /\ Hashed(a)
    /\ arc' = [arc EXCEPT ![a].hashing = "save"]
    /\ cacheFile' = Torn
    /\ UNCHANGED <<disk, now, cas, backups, changes, faults, hasty>>

\* Two archives that save at once have both truncated the file, and the decoder
\* finds what the last one wrote at its start.
WriteCache(a) ==
    /\ arc[a].hashing = "save"
    /\ arc' = [arc EXCEPT ![a].hashing = "done"]
    /\ cacheFile' = arc[a].cache
    /\ UNCHANGED <<disk, now, cas, backups, changes, faults, hasty>>

\* Everything is archived, and the tree becomes a backup while the cache is
\* saved or before.  A file that could not be copied is in it all the same.
Record(a) ==
    /\ arc[a].pc = "run" /\ arc[a].hashing # "load"
    /\ \A f \in File : item(a, f).stage \in {"done", "failed"}
    /\ backups' = backups \cup
         {[f \in File |-> IF item(a, f).stage = "failed" THEN Absent
                          ELSE [sha1 |-> item(a, f).sha1, size |-> item(a, f).stamp.size,
                                was |-> item(a, f).was]]}
    /\ arc' = [arc EXCEPT ![a].pc = "recorded"]
    /\ UNCHANGED <<disk, now, cacheFile, cas, changes, faults, hasty>>

Return(a) ==
    /\ arc[a].pc = "recorded" /\ arc[a].hashing = "done"
    /\ arc' = [arc EXCEPT ![a] = NoArchive]
    /\ UNCHANGED <<disk, now, cacheFile, cas, backups, changes, faults, hasty>>

-----------------------------------------------------------------------------
(* Faults *)

\* The archive dies, perhaps while it copies a file.
Kill(a) ==
    /\ faults < MaxFaults /\ arc[a].pc # "idle"
    /\ faults' = faults + 1
    /\ arc' = [arc EXCEPT ![a] = NoArchive]
    /\ \/ UNCHANGED cas
       \/ \E f \in File : /\ item(a, f).stage = "hashed" /\ item(a, f).sha1 # NoHash
                          /\ InTurn(a, f, {"todo", "found", "hashed"})
                          /\ cas[item(a, f).sha1] = Absent
                          /\ cas' = [cas EXCEPT ![item(a, f).sha1] = Torn]
    /\ UNCHANGED <<disk, now, cacheFile, backups, changes, hasty>>

\* An object is corrupted, or lost.
Rot(h) ==
    /\ faults < MaxFaults /\ cas[h] # Absent
    /\ faults' = faults + 1
    /\ \E v \in {Torn, Absent} : cas' = [cas EXCEPT ![h] = v]
    /\ UNCHANGED <<disk, now, cacheFile, arc, backups, changes, hasty>>

-----------------------------------------------------------------------------
HashCacheNext ==
    \/ Tick
    \/ \E f \in File, c \in Content \cup {Absent} : Change(f, c)
    \/ \E a \in Archivers :
          \/ Begin(a) \/ LoadCache(a) \/ TruncateCache(a) \/ WriteCache(a)
          \/ Record(a) \/ Return(a) \/ Kill(a)
          \/ \E f \in File : Stat(a, f) \/ UpdateFile(a, f) \/ ArchiveItem(a, f)
=============================================================================
