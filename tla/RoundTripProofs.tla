-------------------------- MODULE RoundTripProofs --------------------------
(***************************************************************************)
(* Proofs about module RoundTrip, for any files, contents and number of    *)
(* archives at the same time: the hash an archive has for a file is true,  *)
(* and a restore that reports no error has given everything back.          *)
(***************************************************************************)
EXTENDS RoundTrip, FiniteSetTheorems, TLAPS

-----------------------------------------------------------------------------
(* The hash cache *)

\* Every cache there is: in the memory of an archive, and on disk.
Caches == {arc[a].cache : a \in Archivers} \cup ({cacheFile} \ {Torn})

\* What a cache says of f is not newer than f, and true if it is as old as f.
Sound(k, f) ==
    IF k.sha1 = NoHash THEN k = Fresh
    ELSE /\ k.stamp.mtime <= disk[f].mtime
         /\ k.stamp.mtime = disk[f].mtime => k.sha1 = disk[f].content

\* Whatever a cache says of the very stamp that an archive found, now or when it
\* is loaded later, is a content of f since then.
Agrees(k, i) == k.sha1 # NoHash /\ k.stamp = i.stamp => k.sha1 \in i.was

HashInv ==
    /\ \A f \in File : disk[f].mtime <= now
    /\ \A f \in File \ hasty :
         /\ \A c \in Caches : Sound(c[f], f)
         /\ \A a \in Archivers : arc[a].item[f].stage = "found" =>
              /\ arc[a].item[f].stamp.mtime <= disk[f].mtime
              /\ disk[f].content \in arc[a].item[f].was \cup {Absent}
              /\ \A c \in Caches : Agrees(c[f], arc[a].item[f])
    /\ HashIsTrue

-----------------------------------------------------------------------------
(* The restore *)

\* Every recorded hash is one of a content of the file at that time.
BackupsAreTrue ==
    \A t \in backups : \A f \in Listed(t) \ hasty : t[f].sha1 \in t[f].was

\* So far everything was restored, unless an error was counted.
RestoreInv ==
    /\ BackupsAreTrue
    /\ res.pc = "run" =>
         /\ res.tree \in backups
         /\ \A f \in res.todo : res.tree[f] # Absent
         /\ ~res.failed =>
              /\ res.count = Cardinality(Listed(res.tree) \ res.todo)
              /\ \A f \in Listed(res.tree) \ res.todo : dest[f] # Absent
              /\ res.intact \subseteq Listed(res.tree) \ res.todo
              /\ \A f \in res.intact : dest[f] = res.tree[f].sha1

-----------------------------------------------------------------------------
(* Types *)

LEMMA FreshType == Fresh \in [sha1 : Content \cup {NoHash}, stamp : Stamps] /\ EmptyCache \in Cached
BY DEF Fresh, Zero, Stamps, EmptyCache, Cached

LEMMA NoArchiveType == NoArchive \in ArchiveState /\ Unknown \in Items
<1>1. Unknown \in Items
  BY DEF Unknown, Items, Zero, Stamps
<1>2. QED
  BY <1>1, FreshType DEF NoArchive, ArchiveState

LEMMA NoRestoreType == NoRestore \in RestoreState
BY DEF NoRestore, RestoreState

\* A step of archive a that leaves it an archive keeps the type of arc.
LEMMA ArcType ==
    ASSUME arc \in [Archivers -> ArchiveState], NEW a \in Archivers, NEW s \in ArchiveState,
           arc' = [arc EXCEPT ![a] = s]
    PROVE  arc' \in [Archivers -> ArchiveState]
OBVIOUS

LEMMA InitType == Init => TypeOK
<1>1. ASSUME Init PROVE disk \in [File -> [content : Content \cup {Absent}, mtime : Nat]]
  BY <1>1, HashCacheAssumption DEF Init, HashCacheInit
<1>2. QED
  BY <1>1, FreshType, NoArchiveType, NoRestoreType
  DEF Init, HashCacheInit, RestoreInit, TypeOK, HashCacheTypeOK, RestoreTypeOK

\* Giving a file of an archive another item keeps the type of arc.
LEMMA ItemType ==
    ASSUME TypeOK, NEW a \in Archivers, NEW f \in File
    PROVE  /\ item(a, f) \in Items
           /\ \A i \in Items : [arc EXCEPT ![a].item[f] = i] \in [Archivers -> ArchiveState]
BY ZenonT(60) DEF TypeOK, HashCacheTypeOK, ArchiveState, item

LEMMA StageType ==
    ASSUME NEW i \in Items, NEW s \in {"hashed", "failed", "done"}, NEW h \in Content \cup {NoHash}
    PROVE  [i EXCEPT !.stage = s] \in Items /\ [i EXCEPT !.stage = s, !.sha1 = h] \in Items
BY DEF Items

\* One lemma for each action of an archive: what becomes of that archive.
LEMMA StatType ==
    ASSUME TypeOK, NEW a \in Archivers, NEW f \in File, Stat(a, f)
    PROVE  arc' \in [Archivers -> ArchiveState]
<1> DEFINE i == IF disk[f].content = Absent THEN [Unknown EXCEPT !.stage = "failed"]
                ELSE [stage |-> "found", stamp |-> Stamp(f), sha1 |-> NoHash,
                      was |-> {disk[f].content}]
<1>1. disk[f] \in [content : Content \cup {Absent}, mtime : Nat]
  BY DEF TypeOK, HashCacheTypeOK
<1>2. i \in Items
  BY <1>1, NoArchiveType, HashCacheAssumption DEF Items, Stamp, Stamps, Unknown
<1>3. arc' = [arc EXCEPT ![a].item[f] = i]
  BY DEF Stat
<1> HIDE DEF i
<1>4. QED
  BY ZenonT(60), <1>2, <1>3 DEF TypeOK, HashCacheTypeOK, ArchiveState

\* updateFile either fails, or leaves the record new in the cache and its hash in
\* the item: new is the record that was there, which has the stamp of the file,
\* or a new one with the hash of what the file contains now.
LEMMA UpdateFileEffect ==
    ASSUME TypeOK, NEW a \in Archivers, NEW f \in File, UpdateFile(a, f)
    PROVE  \/ arc' = [arc EXCEPT ![a].item[f] = [item(a, f) EXCEPT !.stage = "failed"]]
           \/ \E new \in [sha1 : Content \cup {NoHash}, stamp : Stamps] :
                 /\ \/ new = arc[a].cache[f]
                    \/ disk[f].content # Absent /\ new.sha1 = disk[f].content
                 /\ new.stamp = arc[a].item[f].stamp
                 /\ arc' = [arc EXCEPT ![a].item[f] = [item(a, f) EXCEPT !.stage = "hashed", !.sha1 = new.sha1],
                                       ![a].cache[f] = new]
<1> DEFINE known == arc[a].cache[f]
           hit == known.stamp = arc[a].item[f].stamp
           new == IF hit THEN known ELSE [sha1 |-> disk[f].content, stamp |-> arc[a].item[f].stamp]
<1>1. /\ disk[f] \in [content : Content \cup {Absent}, mtime : Nat]
      /\ arc[a].item[f] \in Items
      /\ known \in [sha1 : Content \cup {NoHash}, stamp : Stamps]
  BY DEF TypeOK, HashCacheTypeOK, ArchiveState, Cached
<1>2. CASE ~hit /\ disk[f].content = Absent
  BY <1>2 DEF UpdateFile, Refresh, item
<1>3. CASE hit \/ disk[f].content # Absent
  <2>1. new \in [sha1 : Content \cup {NoHash}, stamp : Stamps]
    BY <1>1, <1>3 DEF Items
  <2>2. /\ new = known \/ (disk[f].content # Absent /\ new.sha1 = disk[f].content)
        /\ new.stamp = arc[a].item[f].stamp
    BY <1>3
  <2>3. arc' = [arc EXCEPT ![a].item[f] = [item(a, f) EXCEPT !.stage = "hashed", !.sha1 = new.sha1],
                           ![a].cache[f] = new]
    BY <1>3 DEF UpdateFile, Refresh, item
  <2>4. QED
    BY <2>1, <2>2, <2>3
<1>4. QED
  BY <1>2, <1>3

LEMMA UpdateFileType ==
    ASSUME TypeOK, NEW a \in Archivers, NEW f \in File, UpdateFile(a, f)
    PROVE  arc' \in [Archivers -> ArchiveState]
<1>1. CASE arc' = [arc EXCEPT ![a].item[f] = [item(a, f) EXCEPT !.stage = "failed"]]
  BY <1>1, ItemType, StageType
<1>2. ASSUME NEW new \in [sha1 : Content \cup {NoHash}, stamp : Stamps],
             arc' = [arc EXCEPT ![a].item[f] = [item(a, f) EXCEPT !.stage = "hashed", !.sha1 = new.sha1],
                                ![a].cache[f] = new]
      PROVE  arc' \in [Archivers -> ArchiveState]
  <2> DEFINE i == [item(a, f) EXCEPT !.stage = "hashed", !.sha1 = new.sha1]
  <2>1. i \in Items
    BY ItemType, StageType
  <2> DEFINE b == [arc EXCEPT ![a].item[f] = i]
  <2>2. arc' = [b EXCEPT ![a].cache[f] = new]
    BY <1>2
  <2>3. b \in [Archivers -> ArchiveState]
    BY <2>1, ItemType
  <2> HIDE DEF b
  <2>4. QED
    BY ZenonT(60), <2>2, <2>3 DEF ArchiveState, Cached
<1>3. QED
  BY <1>1, <1>2, UpdateFileEffect

LEMMA ChangeType ==
    ASSUME TypeOK, NEW f \in File, NEW c \in Content \cup {Absent}, Change(f, c)
    PROVE  HashCacheTypeOK'
<1>1. /\ disk' \in [File -> [content : Content \cup {Absent}, mtime : Nat]]
      /\ changes' \in Nat /\ hasty' \in SUBSET File
  BY DEF TypeOK, HashCacheTypeOK, Change
<1>2. arc' \in [Archivers -> ArchiveState]
  <2>1. SUFFICES ASSUME NEW a \in Archivers PROVE arc'[a] \in ArchiveState
    BY DEF Change
  <2>2. arc[a] \in ArchiveState
    BY DEF TypeOK, HashCacheTypeOK
  <2>3. CASE item(a, f).stage = "found" /\ c # Absent
    <3> DEFINE i == [item(a, f) EXCEPT !.was = item(a, f).was \cup {c}]
    <3>1. i \in Items
      BY <2>3, ItemType DEF Items
    <3>2. arc'[a] = [arc[a] EXCEPT !.item[f] = i]
      BY <2>3 DEF Change, item
    <3> HIDE DEF i
    <3>3. QED
      BY <2>2, <3>1, <3>2 DEF ArchiveState
  <2>4. CASE ~(item(a, f).stage = "found" /\ c # Absent)
    BY <2>2, <2>4 DEF Change
  <2>5. QED
    BY <2>3, <2>4
<1>3. QED
  BY <1>1, <1>2 DEF TypeOK, HashCacheTypeOK, Change

LEMMA RecordType ==
    ASSUME TypeOK, NEW a \in Archivers, Record(a)
    PROVE  backups' \in SUBSET Trees
<1> DEFINE t == [f \in File |-> IF item(a, f).stage = "failed" THEN Absent
                                ELSE [sha1 |-> item(a, f).sha1, size |-> item(a, f).stamp.size,
                                      was |-> item(a, f).was]]
<1>1. \A f \in File : item(a, f) \in Items
  BY DEF TypeOK, HashCacheTypeOK, ArchiveState, item
<1>2. t \in Trees
  BY <1>1 DEF Trees, Items, Stamps
<1>3. backups' = backups \cup {t}
  BY DEF Record
<1>4. QED
  BY <1>2, <1>3 DEF TypeOK, HashCacheTypeOK

\* A step of the user or of an archive keeps the types.
LEMMA HashCacheStepType ==
    ASSUME TypeOK, HashCacheNext
    PROVE  HashCacheTypeOK'
<1>1. CASE Tick
  BY <1>1 DEF TypeOK, HashCacheTypeOK, Tick
<1>2. CASE \E f \in File, c \in Content \cup {Absent} : Change(f, c)
  BY <1>2, ChangeType
<1>3. ASSUME NEW a \in Archivers, NEW f \in File, Stat(a, f) \/ UpdateFile(a, f)
      PROVE  HashCacheTypeOK'
  <2>1. arc' \in [Archivers -> ArchiveState]
    BY <1>3, StatType, UpdateFileType
  <2>2. QED
    BY <1>3, <2>1 DEF TypeOK, HashCacheTypeOK, Stat, UpdateFile
<1>4. ASSUME NEW a \in Archivers, NEW f \in File, ArchiveItem(a, f)
      PROVE  HashCacheTypeOK'
  <2>1. arc' \in [Archivers -> ArchiveState]
    BY <1>4, ItemType, StageType DEF ArchiveItem
  <2>2. item(a, f).sha1 \in Content \cup {NoHash} /\ disk[f].content \in Content \cup {Absent}
    BY ItemType DEF TypeOK, HashCacheTypeOK, Items
  <2>3. cas' \in [Content -> Content \cup {Absent, Torn}]
    BY <1>4, <2>2 DEF TypeOK, HashCacheTypeOK, ArchiveItem
  <2>4. QED
    BY <1>4, <2>1, <2>3 DEF TypeOK, HashCacheTypeOK, ArchiveItem
<1>5. ASSUME NEW a \in Archivers, Begin(a) \/ LoadCache(a) \/ TruncateCache(a) \/ WriteCache(a)
      PROVE  HashCacheTypeOK'
  <2>1. arc' \in [Archivers -> ArchiveState]
    <3>1. CASE LoadCache(a)
      <4> DEFINE c == IF cacheFile = Torn THEN EmptyCache ELSE cacheFile
      <4>1. c \in Cached
        BY FreshType DEF TypeOK, HashCacheTypeOK
      <4>2. arc' = [arc EXCEPT ![a].hashing = "hash", ![a].cache = c]
        BY <3>1 DEF LoadCache
      <4> HIDE DEF c
      <4>3. QED
        BY ZenonT(60), <4>1, <4>2 DEF TypeOK, HashCacheTypeOK, ArchiveState
    <3>2. CASE Begin(a)
      BY SMTT(30), <3>2 DEF TypeOK, HashCacheTypeOK, ArchiveState, Begin
    <3>3. CASE TruncateCache(a)
      BY ZenonT(60), <3>3 DEF TypeOK, HashCacheTypeOK, ArchiveState, TruncateCache
    <3>4. CASE WriteCache(a)
      BY ZenonT(60), <3>4 DEF TypeOK, HashCacheTypeOK, ArchiveState, WriteCache
    <3>5. QED
      BY <1>5, <3>1, <3>2, <3>3, <3>4
  <2>2. cacheFile' \in Cached \cup {Torn}
    BY <1>5 DEF TypeOK, HashCacheTypeOK, ArchiveState, Begin, LoadCache, TruncateCache, WriteCache
  <2>3. QED
    BY <1>5, <2>1, <2>2 DEF TypeOK, HashCacheTypeOK, Begin, LoadCache, TruncateCache, WriteCache
<1>6. ASSUME NEW a \in Archivers, Record(a)
      PROVE  HashCacheTypeOK'
  <2>1. arc' \in [Archivers -> ArchiveState]
    BY <1>6 DEF TypeOK, HashCacheTypeOK, ArchiveState, Record
  <2>2. QED
    BY <1>6, <2>1, RecordType DEF TypeOK, HashCacheTypeOK, Record
<1>7. ASSUME NEW a \in Archivers, Return(a) \/ Kill(a)
      PROVE  HashCacheTypeOK'
  <2>1. arc' \in [Archivers -> ArchiveState]
    BY <1>7, NoArchiveType DEF TypeOK, HashCacheTypeOK, Return, Kill
  <2>2. cas' \in [Content -> Content \cup {Absent, Torn}] /\ faults' \in Nat
    BY <1>7 DEF TypeOK, HashCacheTypeOK, Return, Kill
  <2>3. QED
    BY <1>7, <2>1, <2>2 DEF TypeOK, HashCacheTypeOK, Return, Kill
<1>8. QED
  BY <1>1, <1>2, <1>3, <1>4, <1>5, <1>6, <1>7 DEF HashCacheNext

\* A restore handles files that are in its tree.
LEMMA InTree ==
    ASSUME TypeOK, RestoreInv, NEW f \in File, Turn(f), res.tree[f].sha1 # NoHash
    PROVE  /\ res.tree[f] \in [sha1 : Content \cup {NoHash}, size : Nat, was : SUBSET Content]
           /\ res.tree[f].sha1 \in Content /\ f \in Listed(res.tree)
           /\ cas[res.tree[f].sha1] \in Content \cup {Absent, Torn}
<1>1. res.tree[f] # Absent
  BY DEF RestoreInv, Turn
<1>2. res.tree[f] \in [sha1 : Content \cup {NoHash}, size : Nat, was : SUBSET Content]
  BY <1>1 DEF TypeOK, RestoreTypeOK, RestoreState
<1>3. QED
  BY <1>1, <1>2 DEF Listed, TypeOK, HashCacheTypeOK

\* What copying an object, of the right length or not, makes of the restore.
LEMMA RestoreFileEffect ==
    ASSUME TypeOK, NEW f \in File, RestoreFile(f)
    PROVE  \E same \in BOOLEAN : LET c == cas[res.tree[f].sha1] IN
             /\ dest' = [dest EXCEPT ![f] = c]
             /\ res' = [res EXCEPT !.todo = res.todo \ {f},
                                   !.count = IF same THEN res.count + 1 ELSE res.count,
                                   !.failed = res.failed \/ ~same,
                                   !.intact = IF c = res.tree[f].sha1 THEN res.intact \cup {f}
                                              ELSE res.intact]
<1> DEFINE c == cas[res.tree[f].sha1]
<1>1. PICK same \in IF c = Torn THEN BOOLEAN ELSE {Size[c] = res.tree[f].size} :
         res' = [res EXCEPT !.todo = res.todo \ {f},
                            !.count = IF same THEN res.count + 1 ELSE res.count,
                            !.failed = res.failed \/ ~same,
                            !.intact = IF c = res.tree[f].sha1 THEN res.intact \cup {f}
                                       ELSE res.intact]
  BY DEF RestoreFile
<1>2. same \in BOOLEAN
  BY Zenon
<1>3. dest' = [dest EXCEPT ![f] = c]
  BY DEF RestoreFile
<1>4. QED
  BY <1>1, <1>2, <1>3

\* A step of a restore keeps the types.
LEMMA RestoreStepType ==
    ASSUME TypeOK, RestoreInv, RestoreNext
    PROVE  RestoreTypeOK' /\ faults' \in Nat /\ UNCHANGED <<cas, backups>>
<1> USE DEF TypeOK, HashCacheTypeOK, RestoreTypeOK
<1>1. ASSUME NEW tree \in backups, Start(tree)
      PROVE  RestoreTypeOK' /\ UNCHANGED <<cas, backups, faults>>
  <2>1. tree \in [File -> [sha1 : Content \cup {NoHash}, size : Nat, was : SUBSET Content] \cup {Absent}]
    BY DEF Trees
  <2>2. QED
    BY <1>1, <2>1, NoRestoreType DEF Start, RestoreState
<1>2. ASSUME NEW f \in File, SkipEntry(f)
      PROVE  RestoreTypeOK' /\ UNCHANGED <<cas, backups, faults>>
  <2>1. res' = [res EXCEPT !.todo = res.todo \ {f}]
    BY <1>2 DEF SkipEntry
  <2>2. QED
    BY <1>2, <2>1 DEF SkipEntry, RestoreState
<1>3. ASSUME NEW f \in File, CannotRestore(f) \/ CopyFails(f)
      PROVE  RestoreTypeOK' /\ UNCHANGED <<cas, backups, faults>>
  <2>1. res' = [res EXCEPT !.todo = res.todo \ {f}, !.failed = TRUE]
    BY <1>3 DEF CannotRestore, CopyFails
  <2>2. res' \in RestoreState
    BY <2>1 DEF RestoreState
  <2>3. QED
    BY <1>3, <2>2 DEF CannotRestore, CopyFails
<1>4. ASSUME NEW f \in File, RestoreFile(f)
      PROVE  RestoreTypeOK' /\ UNCHANGED <<cas, backups, faults>>
  <2> DEFINE c == cas[res.tree[f].sha1]
  <2>1. PICK same \in BOOLEAN :
             /\ dest' = [dest EXCEPT ![f] = c]
             /\ res' = [res EXCEPT !.todo = res.todo \ {f},
                                   !.count = IF same THEN res.count + 1 ELSE res.count,
                                   !.failed = res.failed \/ ~same,
                                   !.intact = IF c = res.tree[f].sha1 THEN res.intact \cup {f}
                                              ELSE res.intact]
    BY <1>4, RestoreFileEffect
  <2>2. c \in Content \cup {Absent, Torn}
    BY <1>4, InTree DEF RestoreFile
  <2> HIDE DEF c
  <2>3. res' \in RestoreState
    <3> DEFINE n == IF same THEN res.count + 1 ELSE res.count
               b == res.failed \/ ~same
               i == IF c = res.tree[f].sha1 THEN res.intact \cup {f} ELSE res.intact
    <3>1. n \in Nat /\ i \in SUBSET File
      BY DEF RestoreState
    <3>2. b \in BOOLEAN
      OBVIOUS
    <3>3. res' = [res EXCEPT !.todo = res.todo \ {f}, !.count = n, !.failed = b, !.intact = i]
      BY <2>1
    <3> HIDE DEF n, b, i
    <3>4. QED
      BY <3>1, <3>2, <3>3 DEF RestoreState
  <2>4. QED
    BY SMTT(30), <1>4, <2>1, <2>2, <2>3 DEF RestoreFile
<1>5. CASE End
  BY <1>5, NoRestoreType DEF End
<1>6. CASE KillRestore
  BY <1>6, NoRestoreType DEF KillRestore
<1>7. QED
  BY <1>1, <1>2, <1>3, <1>4, <1>5, <1>6 DEF RestoreNext

\* Every step keeps the types.
LEMMA NextType ==
    ASSUME TypeOK, RestoreInv, [Next]_vars
    PROVE  TypeOK'
<1>1. CASE HashCacheNext /\ UNCHANGED <<dest, res>>
  BY <1>1, HashCacheStepType DEF TypeOK, RestoreTypeOK
<1>2. CASE RestoreNext /\ UNCHANGED archiving
  BY <1>2, RestoreStepType DEF TypeOK, HashCacheTypeOK, archiving
<1>3. ASSUME NEW h \in Content, Rot(h) /\ UNCHANGED <<dest, res>>
      PROVE  TypeOK'
  BY <1>3 DEF TypeOK, HashCacheTypeOK, RestoreTypeOK, Rot
<1>4. CASE UNCHANGED vars
  BY <1>4 DEF TypeOK, HashCacheTypeOK, RestoreTypeOK, vars, archiving
<1>5. QED
  BY <1>1, <1>2, <1>3, <1>4 DEF Next

-----------------------------------------------------------------------------
(* The hashes are true *)

\* A step keeps what is true of the hashes if it leaves the files alone, brings no
\* new cache but an empty one, and gives no file a new hash.
LEMMA HashInvKept ==
    ASSUME TypeOK, HashInv, UNCHANGED <<disk, hasty>>, now' \in Nat, now <= now',
           \A c \in Caches' : c \in Caches \cup {EmptyCache},
           \A b \in Archivers, g \in File : arc'[b].item[g].stage = "found" =>
              arc'[b].item[g] = arc[b].item[g],
           \A b \in Archivers, g \in File : arc'[b].item[g].stage \in {"hashed", "done"} =>
              /\ arc[b].item[g].stage \in {"hashed", "done"}
              /\ arc'[b].item[g].sha1 = arc[b].item[g].sha1
              /\ arc'[b].item[g].stamp = arc[b].item[g].stamp
              /\ arc'[b].item[g].was = arc[b].item[g].was
    PROVE  HashInv'
<1>1. HashIsTrue'
  BY SMTT(30) DEF HashIsTrue, HashInv
<1>2. \A g \in File : disk'[g].mtime <= now'
  BY SMTT(30) DEF HashInv, TypeOK, HashCacheTypeOK
<1>3. \A g \in File : EmptyCache[g] = Fresh /\ Fresh.sha1 = NoHash
  BY DEF EmptyCache, Fresh
<1>4. ASSUME NEW g \in File \ hasty', NEW c \in Caches'
      PROVE  Sound(c[g], g)'
  BY <1>3, <1>4 DEF Sound, HashInv
<1>5. ASSUME NEW g \in File \ hasty', NEW b \in Archivers, arc'[b].item[g].stage = "found"
      PROVE  /\ arc'[b].item[g].stamp.mtime <= disk'[g].mtime
             /\ disk'[g].content \in arc'[b].item[g].was \cup {Absent}
             /\ \A c \in Caches' : Agrees(c[g], arc'[b].item[g])
  <2>1. arc'[b].item[g] = arc[b].item[g] /\ arc[b].item[g].stage = "found"
    BY <1>5
  <2>2. /\ arc[b].item[g].stamp.mtime <= disk[g].mtime
        /\ disk[g].content \in arc[b].item[g].was \cup {Absent}
        /\ \A c \in Caches : Agrees(c[g], arc[b].item[g])
    BY <1>5, <2>1 DEF HashInv
  <2>3. \A c \in Caches' : Agrees(c[g], arc[b].item[g])
    BY <1>3, <2>2 DEF Agrees
  <2>4. QED
    BY <2>1, <2>2, <2>3
<1>6. QED
  BY <1>1, <1>2, <1>4, <1>5 DEF HashInv

LEMMA StatKeepsHashInv ==
    ASSUME TypeOK, HashInv, NEW a \in Archivers, NEW f \in File, Stat(a, f)
    PROVE  HashInv'
<1> DEFINE i == IF disk[f].content = Absent THEN [Unknown EXCEPT !.stage = "failed"]
                ELSE [stage |-> "found", stamp |-> Stamp(f), sha1 |-> NoHash,
                      was |-> {disk[f].content}]
<1>1. /\ arc' = [arc EXCEPT ![a].item[f] = i] /\ arc \in [Archivers -> ArchiveState]
      /\ UNCHANGED <<disk, now, cacheFile, hasty>>
  BY DEF Stat, TypeOK, HashCacheTypeOK
<1>2. /\ i.stage \notin {"hashed", "done"}
      /\ i.stage = "found" => disk[f].content # Absent /\ i.was = {disk[f].content}
                              /\ i.stamp = Stamp(f)
  BY DEF Unknown
<1> HIDE DEF i
<1>3. /\ \A b \in Archivers : arc'[b].cache = arc[b].cache
      /\ \A b \in Archivers, g \in File :
            arc'[b].item[g] = IF b = a /\ g = f THEN i ELSE arc[b].item[g]
  BY <1>1 DEF ArchiveState
<1>4. Caches' = Caches
  BY <1>1, <1>3 DEF Caches
<1>5. HashIsTrue'
  BY <1>1, <1>2, <1>3 DEF HashIsTrue, HashInv
<1>6. ASSUME NEW g \in File \ hasty', NEW b \in Archivers, arc'[b].item[g].stage = "found"
      PROVE  /\ arc'[b].item[g].stamp.mtime <= disk'[g].mtime
             /\ disk'[g].content \in arc'[b].item[g].was \cup {Absent}
             /\ \A c \in Caches' : Agrees(c[g], arc'[b].item[g])
  <2>1. CASE b = a /\ g = f
    <3>1. /\ arc'[b].item[g] = i /\ i.was = {disk[f].content} /\ i.stamp.mtime = disk[f].mtime
      BY <1>2, <1>3, <1>6, <2>1 DEF Stamp
    <3>2. disk[f].mtime \in Nat
      BY DEF TypeOK, HashCacheTypeOK
    <3>3. ASSUME NEW c \in Caches PROVE Agrees(c[f], i)
      BY <1>1, <1>6, <2>1, <3>1, <3>3 DEF Agrees, HashInv, Sound
    <3>4. QED
      BY <1>1, <1>4, <2>1, <3>1, <3>2, <3>3
  <2>2. CASE ~(b = a /\ g = f)
    BY <1>1, <1>3, <1>4, <1>6, <2>2 DEF HashInv
  <2>3. QED
    BY <2>1, <2>2
<1>7. QED
  BY <1>1, <1>4, <1>5, <1>6 DEF HashInv, Sound

LEMMA UpdateFileKeepsHashInv ==
    ASSUME TypeOK, HashInv, NEW a \in Archivers, NEW f \in File, UpdateFile(a, f)
    PROVE  HashInv'
<1>0. /\ arc \in [Archivers -> ArchiveState] /\ UNCHANGED <<disk, now, cacheFile, hasty>>
      /\ arc[a].item[f].stage = "found" /\ now \in Nat /\ item(a, f) \in Items
      /\ \A g \in File : disk[g].content \in Content \cup {Absent}
  BY ItemType DEF UpdateFile, CanUpdate, item, TypeOK, HashCacheTypeOK
<1>1. CASE arc' = [arc EXCEPT ![a].item[f] = [item(a, f) EXCEPT !.stage = "failed"]]
  <2> DEFINE i == [item(a, f) EXCEPT !.stage = "failed"]
  <2>1. i.stage = "failed" /\ arc' = [arc EXCEPT ![a].item[f] = i]
    BY <1>0, <1>1 DEF Items
  <2> HIDE DEF i
  <2>2. /\ \A b \in Archivers : arc'[b].cache = arc[b].cache
        /\ \A b \in Archivers, g \in File :
              arc'[b].item[g] = IF b = a /\ g = f THEN i ELSE arc[b].item[g]
    BY <1>0, <2>1 DEF ArchiveState
  <2>3. Caches' = Caches
    BY <1>0, <2>2 DEF Caches
  <2>4. QED
    BY <1>0, <2>1, <2>2, <2>3, HashInvKept
<1>2. ASSUME NEW new \in [sha1 : Content \cup {NoHash}, stamp : Stamps],
             \/ new = arc[a].cache[f]
             \/ disk[f].content # Absent /\ new.sha1 = disk[f].content,
             new.stamp = arc[a].item[f].stamp,
             arc' = [arc EXCEPT ![a].item[f] = [item(a, f) EXCEPT !.stage = "hashed", !.sha1 = new.sha1],
                                ![a].cache[f] = new]
      PROVE  HashInv'
  <2> DEFINE i == [item(a, f) EXCEPT !.stage = "hashed", !.sha1 = new.sha1]
             d == [arc[a].cache EXCEPT ![f] = new]
  <2>1. /\ i.stage = "hashed" /\ i.sha1 = new.sha1 /\ i.was = arc[a].item[f].was
        /\ i.stamp = arc[a].item[f].stamp
        /\ arc' = [arc EXCEPT ![a].item[f] = i, ![a].cache[f] = new]
    BY <1>0, <1>2 DEF Items, item
  <2> HIDE DEF i
  <2>2. /\ \A b \in Archivers : arc'[b].cache = IF b = a THEN d ELSE arc[b].cache
        /\ \A b \in Archivers, g \in File :
              arc'[b].item[g] = IF b = a /\ g = f THEN i ELSE arc[b].item[g]
    BY <1>0, <2>1 DEF ArchiveState
  <2>3. \A g \in File : d[g] = IF g = f THEN new ELSE arc[a].cache[g]
    BY <1>0 DEF ArchiveState, Cached
  <2>4. arc[a].cache \in Caches
    BY DEF Caches
  <2> HIDE DEF d
  <2>5. \A c \in Caches' : c \in Caches \cup {d}
    BY <1>0, <2>2 DEF Caches
  <2>6. f \notin hasty => Sound(new, f)
    <3>1. ASSUME f \notin hasty, new = arc[a].cache[f] PROVE Sound(new, f)
      BY <2>4, <3>1 DEF HashInv
    <3>2. ASSUME f \notin hasty, disk[f].content # Absent, new.sha1 = disk[f].content
          PROVE  Sound(new, f)
      <4>1. arc[a].item[f].stamp.mtime <= disk[f].mtime
        BY <1>0, <3>2 DEF HashInv
      <4>2. new.sha1 # NoHash
        BY <1>0, <3>2, HashCacheAssumption
      <4>3. QED
        BY <1>2, <3>2, <4>1, <4>2 DEF Sound
    <3>3. QED
      BY <1>2, <3>1, <3>2
  <2>7. f \notin hasty =>
           \A b \in Archivers : arc[b].item[f].stage = "found" => Agrees(new, arc[b].item[f])
    <3>1. ASSUME f \notin hasty, new = arc[a].cache[f], NEW b \in Archivers,
                 arc[b].item[f].stage = "found"
          PROVE  Agrees(new, arc[b].item[f])
      BY <2>4, <3>1 DEF HashInv
    <3>2. ASSUME f \notin hasty, disk[f].content # Absent, new.sha1 = disk[f].content,
                 NEW b \in Archivers, arc[b].item[f].stage = "found"
          PROVE  Agrees(new, arc[b].item[f])
      BY <3>2 DEF HashInv, Agrees
    <3>3. QED
      BY <1>2, <3>1, <3>2
  <2>8. HashIsTrue'
    <3>1. f \notin hasty => i.sha1 \in i.was \/ (i.sha1 = NoHash /\ i.stamp = Zero)
      <4>1. CASE new.sha1 # NoHash
        BY <1>0, <1>2, <2>1, <2>7, <4>1 DEF Agrees
      <4>2. CASE new.sha1 = NoHash
        BY SMTT(30), <1>2, <2>1, <2>6, <4>2 DEF Sound, Fresh
      <4>3. QED
        BY <4>1, <4>2
    <3>2. QED
      BY SMTT(30), <1>0, <2>2, <3>1 DEF HashIsTrue, HashInv
  <2>9. ASSUME NEW g \in File \ hasty', NEW c \in Caches'
        PROVE  Sound(c[g], g)'
    <3>1. Sound(c[g], g)
      BY <1>0, <2>3, <2>4, <2>5, <2>6, <2>9 DEF HashInv
    <3>2. QED
      BY <1>0, <3>1 DEF Sound
  <2>10. ASSUME NEW g \in File \ hasty', NEW b \in Archivers, arc'[b].item[g].stage = "found"
         PROVE  /\ arc'[b].item[g].stamp.mtime <= disk'[g].mtime
                /\ disk'[g].content \in arc'[b].item[g].was \cup {Absent}
                /\ \A c \in Caches' : Agrees(c[g], arc'[b].item[g])
    <3>0. g \in File /\ arc'[b].item[g] = IF b = a /\ g = f THEN i ELSE arc[b].item[g]
      BY <2>2
    <3>1. arc'[b].item[g] = arc[b].item[g] /\ arc[b].item[g].stage = "found"
      BY <2>1, <2>10, <3>0
    <3>2. /\ arc[b].item[g].stamp.mtime <= disk[g].mtime
          /\ disk[g].content \in arc[b].item[g].was \cup {Absent}
          /\ \A c \in Caches : Agrees(c[g], arc[b].item[g])
      BY <1>0, <2>10, <3>1 DEF HashInv
    <3>3. Agrees(d[g], arc[b].item[g])
      BY <1>0, <2>3, <2>4, <2>7, <2>10, <3>1, <3>2
    <3>4. QED
      BY <1>0, <2>5, <3>1, <3>2, <3>3
  <2>11. QED
    BY <1>0, <2>8, <2>9, <2>10 DEF HashInv
<1>3. QED
  BY <1>1, <1>2, UpdateFileEffect

LEMMA ChangeKeepsHashInv ==
    ASSUME TypeOK, HashInv, NEW f \in File, NEW c \in Content \cup {Absent}, Change(f, c)
    PROVE  HashInv'
<1>0. /\ arc \in [Archivers -> ArchiveState] /\ UNCHANGED <<now, cacheFile>>
      /\ now \in Nat /\ disk \in [File -> [content : Content \cup {Absent}, mtime : Nat]]
      /\ hasty \subseteq hasty' /\ \A g \in File : disk[g].mtime <= now
      /\ disk' = [disk EXCEPT ![f] = [content |-> c, mtime |-> now]]
      /\ f \notin hasty' => disk[f].mtime < now
  <2>1. /\ disk \in [File -> [content : Content \cup {Absent}, mtime : Nat]] /\ now \in Nat
        /\ arc \in [Archivers -> ArchiveState]
    BY DEF TypeOK, HashCacheTypeOK
  <2>2. /\ UNCHANGED <<now, cacheFile>>
        /\ disk' = [disk EXCEPT ![f] = [content |-> c, mtime |-> now]]
        /\ hasty' = IF disk[f].mtime = now THEN hasty \cup {f} ELSE hasty
    BY DEF Change
  <2>3. \A g \in File : disk[g].mtime <= now /\ disk[g].mtime \in Nat
    BY <2>1 DEF HashInv
  <2>4. f \notin hasty' => disk[f].mtime < now
    BY SMTT(30), <2>1, <2>2, <2>3
  <2>5. QED
    BY <2>1, <2>2, <2>3, <2>4
<1>1. /\ disk'[f].content = c /\ disk'[f].mtime = now
      /\ \A g \in File \ {f} : disk'[g] = disk[g]
  BY <1>0
<1>2. ASSUME NEW b \in Archivers
      PROVE  /\ arc'[b].cache = arc[b].cache
             /\ \A g \in File : LET i == arc[b].item[g]  j == arc'[b].item[g] IN
                  /\ j.stage = i.stage /\ j.stamp = i.stamp /\ j.sha1 = i.sha1
                  /\ i.was \subseteq j.was
                  /\ i.stage # "found" \/ g # f => j = i
                  /\ i.stage = "found" /\ g = f => c \in j.was \cup {Absent}
  <2> DEFINE i == arc[b].item[f]
             j == [i EXCEPT !.was = i.was \cup {c}]
  <2>1. arc'[b] = IF i.stage = "found" /\ c # Absent THEN [arc[b] EXCEPT !.item[f] = j] ELSE arc[b]
    BY DEF Change, item
  <2>2. i \in Items
    BY <1>0 DEF ArchiveState
  <2>3. /\ j.stage = i.stage /\ j.stamp = i.stamp /\ j.sha1 = i.sha1
        /\ j.was = i.was \cup {c}
    BY <2>2 DEF Items
  <2> HIDE DEF j
  <2>4. CASE i.stage = "found" /\ c # Absent
    <3>1. /\ arc'[b].cache = arc[b].cache
          /\ \A g \in File : arc'[b].item[g] = IF g = f THEN j ELSE arc[b].item[g]
      BY <1>0, <2>1, <2>4 DEF ArchiveState
    <3>2. QED
      BY <2>3, <2>4, <3>1
  <2>5. CASE ~(i.stage = "found" /\ c # Absent)
    BY <2>1, <2>5
  <2>6. QED
    BY <2>4, <2>5
<1>3. Caches' = Caches
  <2>1. \A b \in Archivers : arc'[b].cache = arc[b].cache
    BY <1>2
  <2>2. QED
    BY <1>0, <2>1 DEF Caches
<1>4. \A k \in Caches, g \in File : k[g].stamp.mtime \in Nat
  BY DEF Caches, TypeOK, HashCacheTypeOK, ArchiveState, Cached, Stamps
<1>5. ASSUME NEW g \in File \ hasty', NEW k \in Caches'
      PROVE  Sound(k[g], g)'
  <2>1. k \in Caches /\ g \in File /\ Sound(k[g], g)
    BY <1>0, <1>3 DEF HashInv
  <2>2. CASE g = f
    <3>1. k[g].sha1 # NoHash => k[g].stamp.mtime < now
      BY SMTT(30), <1>0, <1>4, <2>1, <2>2 DEF Sound
    <3>2. QED
      BY <1>0, <1>1, <1>4, <2>1, <2>2, <3>1 DEF Sound
  <2>3. CASE g # f
    BY <1>1, <2>1, <2>3 DEF Sound
  <2>4. QED
    BY <2>2, <2>3
<1>6. ASSUME NEW g \in File \ hasty', NEW b \in Archivers, arc'[b].item[g].stage = "found"
      PROVE  /\ arc'[b].item[g].stamp.mtime <= disk'[g].mtime
             /\ disk'[g].content \in arc'[b].item[g].was \cup {Absent}
             /\ \A k \in Caches' : Agrees(k[g], arc'[b].item[g])
  <2>1. /\ arc[b].item[g].stage = "found" /\ arc[b].item[g].stamp = arc'[b].item[g].stamp
        /\ arc[b].item[g].was \subseteq arc'[b].item[g].was
        /\ g = f => c \in arc'[b].item[g].was \cup {Absent}
    BY <1>2, <1>6
  <2>2. /\ arc[b].item[g].stamp.mtime <= disk[g].mtime
        /\ disk[g].content \in arc[b].item[g].was \cup {Absent}
        /\ \A k \in Caches : Agrees(k[g], arc[b].item[g])
    BY <1>0, <2>1 DEF HashInv
  <2>3. arc[b].item[g].stamp.mtime \in Nat /\ disk[g].mtime \in Nat /\ disk[g].mtime <= now
    BY <1>0 DEF ArchiveState, Items, Stamps
  <2>4. arc'[b].item[g].stamp.mtime <= disk'[g].mtime
    BY SMTT(30), <1>0, <1>1, <2>1, <2>2, <2>3
  <2>5. disk'[g].content \in arc'[b].item[g].was \cup {Absent}
    BY <1>1, <2>1, <2>2
  <2>6. \A k \in Caches' : Agrees(k[g], arc'[b].item[g])
    BY <1>3, <2>1, <2>2 DEF Agrees
  <2>7. QED
    BY <2>4, <2>5, <2>6
<1>7. HashIsTrue'
  <2> SUFFICES ASSUME NEW b \in Archivers, NEW g \in File,
                      arc'[b].item[g].stage \in {"hashed", "done"}, g \notin hasty'
               PROVE  LET i == arc'[b].item[g] IN
                      i.sha1 \in i.was \/ (i.sha1 = NoHash /\ i.stamp = Zero)
    BY DEF HashIsTrue
  <2>1. arc'[b].item[g] = arc[b].item[g]
    BY <1>2
  <2>2. QED
    BY <1>0, <2>1 DEF HashInv, HashIsTrue
<1>8. \A g \in File : disk'[g].mtime <= now'
  BY <1>0, <1>1
<1>9. QED
  BY <1>5, <1>6, <1>7, <1>8 DEF HashInv

\* A step of archive a that gives it no new item, and no cache but an empty one
\* or the one on disk, which may be replaced by that of an archive.
LEMMA ArchiveKeepsHashInv ==
    ASSUME TypeOK, HashInv, NEW a \in Archivers, UNCHANGED <<disk, now, hasty>>,
           NEW s \in ArchiveState, arc' = [arc EXCEPT ![a] = s],
           s.cache \in Caches \cup {EmptyCache}, cacheFile' \in Caches \cup {cacheFile, Torn},
           \A g \in File : s.item[g].stage = "found" => s.item[g] = item(a, g),
           \A g \in File : s.item[g].stage \in {"hashed", "done"} =>
              /\ item(a, g).stage \in {"hashed", "done"} /\ s.item[g].sha1 = item(a, g).sha1
              /\ s.item[g].stamp = item(a, g).stamp /\ s.item[g].was = item(a, g).was
    PROVE  HashInv'
<1>1. \A b \in Archivers : arc'[b] = IF b = a THEN s ELSE arc[b]
  BY DEF TypeOK, HashCacheTypeOK
<1>2. \A k \in Caches' : k \in Caches \cup {EmptyCache}
  BY <1>1 DEF Caches
<1>3. now' \in Nat /\ now <= now'
  BY DEF TypeOK, HashCacheTypeOK
<1>4. \A b \in Archivers, g \in File : arc'[b].item[g].stage = "found" =>
         arc'[b].item[g] = arc[b].item[g]
  BY <1>1 DEF item
<1>5. \A b \in Archivers, g \in File : arc'[b].item[g].stage \in {"hashed", "done"} =>
         /\ arc[b].item[g].stage \in {"hashed", "done"}
         /\ arc'[b].item[g].sha1 = arc[b].item[g].sha1
         /\ arc'[b].item[g].stamp = arc[b].item[g].stamp
         /\ arc'[b].item[g].was = arc[b].item[g].was
  BY SMTT(30), <1>1 DEF item
<1>6. QED
  BY <1>2, <1>3, <1>4, <1>5, HashInvKept

LEMMA ArchiveItemKeepsHashInv ==
    ASSUME TypeOK, HashInv, NEW a \in Archivers, NEW f \in File, ArchiveItem(a, f)
    PROVE  HashInv'
<1> DEFINE i == [item(a, f) EXCEPT !.stage = "done"]
           s == [arc[a] EXCEPT !.item[f] = i]
<1>1. item(a, f) \in Items /\ i \in Items /\ arc[a] \in ArchiveState
  BY ItemType, StageType DEF TypeOK, HashCacheTypeOK, ArchiveItem, Items
<1>2. /\ i.stage = "done" /\ i.sha1 = item(a, f).sha1 /\ i.stamp = item(a, f).stamp
      /\ i.was = item(a, f).was
  BY <1>1 DEF Items
<1>3. arc' = [arc EXCEPT ![a].item[f] = i] /\ item(a, f).stage = "hashed"
  BY DEF ArchiveItem
<1> HIDE DEF i
<1>4. /\ s \in ArchiveState /\ s.cache = arc[a].cache /\ arc' = [arc EXCEPT ![a] = s]
      /\ \A g \in File : s.item[g] = IF g = f THEN i ELSE item(a, g)
  BY <1>1, <1>3 DEF ArchiveState, item, TypeOK, HashCacheTypeOK
<1> HIDE DEF s
<1>5. s.cache \in Caches /\ UNCHANGED <<disk, now, hasty, cacheFile>>
  BY <1>4 DEF Caches, ArchiveItem
<1>6. /\ \A g \in File : s.item[g].stage = "found" => s.item[g] = item(a, g)
      /\ \A g \in File : s.item[g].stage \in {"hashed", "done"} =>
            /\ item(a, g).stage \in {"hashed", "done"} /\ s.item[g].sha1 = item(a, g).sha1
            /\ s.item[g].stamp = item(a, g).stamp /\ s.item[g].was = item(a, g).was
  BY <1>2, <1>3, <1>4
<1>7. QED
  BY <1>4, <1>5, <1>6, ArchiveKeepsHashInv

\* The actions that leave every item as it is, or forget all of them.
LEMMA OthersKeepHashInv ==
    ASSUME TypeOK, HashInv, NEW a \in Archivers,
           \/ Begin(a) \/ LoadCache(a) \/ TruncateCache(a) \/ WriteCache(a)
           \/ Record(a) \/ Return(a) \/ Kill(a)
    PROVE  HashInv'
<1>0. /\ UNCHANGED <<disk, now, hasty>> /\ arc[a] \in ArchiveState
      /\ arc \in [Archivers -> ArchiveState] /\ arc[a].cache \in Caches
  BY DEF Begin, LoadCache, TruncateCache, WriteCache, Record, Return, Kill, TypeOK,
         HashCacheTypeOK, Caches
<1>1. ASSUME NEW s \in ArchiveState, arc' = [arc EXCEPT ![a] = s], s.item = arc[a].item,
             s.cache \in Caches \cup {EmptyCache}, cacheFile' \in Caches \cup {cacheFile, Torn}
      PROVE  HashInv'
  BY <1>0, <1>1, ArchiveKeepsHashInv DEF item
<1>2. CASE Begin(a)
  <2> DEFINE s == [arc[a] EXCEPT !.pc = "run"]
  <2>1. s \in ArchiveState /\ s.item = arc[a].item /\ s.cache = arc[a].cache
    BY <1>0 DEF ArchiveState
  <2>2. arc' = [arc EXCEPT ![a] = s] /\ cacheFile' = cacheFile
    BY <1>0, <1>2 DEF Begin
  <2> HIDE DEF s
  <2>3. QED
    BY <1>0, <1>1, <2>1, <2>2
<1>3. CASE LoadCache(a)
  <2> DEFINE k == IF cacheFile = Torn THEN EmptyCache ELSE cacheFile
             s == [arc[a] EXCEPT !.hashing = "hash", !.cache = k]
  <2>0. k \in Cached /\ k \in Caches \cup {EmptyCache}
    BY FreshType DEF TypeOK, HashCacheTypeOK, Caches
  <2>1. arc' = [arc EXCEPT ![a] = s] /\ cacheFile' = cacheFile
    BY <1>0, <1>3 DEF LoadCache
  <2> HIDE DEF k
  <2>2. s \in ArchiveState /\ s.item = arc[a].item /\ s.cache = k
    BY <1>0, <2>0 DEF ArchiveState
  <2> HIDE DEF s
  <2>3. QED
    BY <1>1, <2>0, <2>1, <2>2
<1>4. CASE TruncateCache(a)
  <2> DEFINE s == [arc[a] EXCEPT !.hashing = "save"]
  <2>1. s \in ArchiveState /\ s.item = arc[a].item /\ s.cache = arc[a].cache
    BY <1>0 DEF ArchiveState
  <2>2. arc' = [arc EXCEPT ![a] = s] /\ cacheFile' = Torn
    BY <1>0, <1>4 DEF TruncateCache
  <2> HIDE DEF s
  <2>3. QED
    BY <1>0, <1>1, <2>1, <2>2
<1>5. CASE WriteCache(a)
  <2> DEFINE s == [arc[a] EXCEPT !.hashing = "done"]
  <2>1. s \in ArchiveState /\ s.item = arc[a].item /\ s.cache = arc[a].cache
    BY <1>0 DEF ArchiveState
  <2>2. arc' = [arc EXCEPT ![a] = s] /\ cacheFile' = arc[a].cache
    BY <1>0, <1>5 DEF WriteCache
  <2> HIDE DEF s
  <2>3. QED
    BY <1>0, <1>1, <2>1, <2>2
<1>6. CASE Record(a)
  <2> DEFINE s == [arc[a] EXCEPT !.pc = "recorded"]
  <2>1. s \in ArchiveState /\ s.item = arc[a].item /\ s.cache = arc[a].cache
    BY <1>0 DEF ArchiveState
  <2>2. arc' = [arc EXCEPT ![a] = s] /\ cacheFile' = cacheFile
    BY <1>0, <1>6 DEF Record
  <2> HIDE DEF s
  <2>3. QED
    BY <1>0, <1>1, <2>1, <2>2
<1>7. CASE Return(a) \/ Kill(a)
  <2>1. arc' = [arc EXCEPT ![a] = NoArchive] /\ cacheFile' = cacheFile
    BY <1>7 DEF Return, Kill
  <2>2. /\ NoArchive.cache = EmptyCache
        /\ \A g \in File : NoArchive.item[g].stage \notin {"found", "hashed", "done"}
    BY DEF NoArchive, Unknown
  <2>3. QED
    BY <1>0, <2>1, <2>2, NoArchiveType, ArchiveKeepsHashInv
<1>8. QED
  BY <1>2, <1>3, <1>4, <1>5, <1>6, <1>7

LEMMA InitHashInv == Init => HashInv
<1> SUFFICES ASSUME Init PROVE HashInv
  OBVIOUS
<1>1. /\ \A a \in Archivers, f \in File : arc[a].item[f].stage = "todo"
      /\ \A a \in Archivers : arc[a].cache = EmptyCache
      /\ cacheFile = EmptyCache
      /\ \A f \in File : disk[f].mtime <= now
  BY DEF Init, HashCacheInit, NoArchive, Unknown
<1>2. \A k \in Caches, f \in File : Sound(k[f], f)
  <2>1. \A k \in Caches : k = EmptyCache
    BY <1>1 DEF Caches
  <2>2. \A f \in File : EmptyCache[f] = Fresh /\ Fresh.sha1 = NoHash
    BY DEF EmptyCache, Fresh
  <2>3. QED
    BY <2>1, <2>2 DEF Sound
<1>3. HashIsTrue
  BY <1>1 DEF HashIsTrue
<1>4. QED
  BY <1>1, <1>2, <1>3 DEF HashInv

LEMMA NextHashInv ==
    ASSUME TypeOK, HashInv, [Next]_vars
    PROVE  HashInv'
<1>1. CASE UNCHANGED archiving
  <2>1. UNCHANGED <<disk, now, cacheFile, arc, hasty>>
    BY <1>1 DEF archiving
  <2>2. Caches' = Caches
    BY <2>1 DEF Caches
  <2>3. now' \in Nat /\ now <= now'
    BY <2>1 DEF TypeOK, HashCacheTypeOK
  <2>4. QED
    BY <2>1, <2>2, <2>3, HashInvKept
<1>2. CASE HashCacheNext
  <2>1. CASE Tick
    <3>1. UNCHANGED <<disk, cacheFile, arc, hasty>> /\ now' \in Nat /\ now <= now'
      BY <2>1 DEF Tick, TypeOK, HashCacheTypeOK
    <3>2. Caches' = Caches
      BY <3>1 DEF Caches
    <3>3. QED
      BY <3>1, <3>2, HashInvKept
  <2>2. CASE \E f \in File, c \in Content \cup {Absent} : Change(f, c)
    BY <2>2, ChangeKeepsHashInv
  <2>3. CASE \E a \in Archivers :
                \/ Begin(a) \/ LoadCache(a) \/ TruncateCache(a) \/ WriteCache(a)
                \/ Record(a) \/ Return(a) \/ Kill(a)
    BY <2>3, OthersKeepHashInv
  <2>4. CASE \E a \in Archivers, f \in File : Stat(a, f) \/ UpdateFile(a, f) \/ ArchiveItem(a, f)
    BY <2>4, StatKeepsHashInv, UpdateFileKeepsHashInv, ArchiveItemKeepsHashInv
  <2>5. QED
    BY <1>2, <2>1, <2>2, <2>3, <2>4 DEF HashCacheNext
<1>3. QED
  BY <1>1, <1>2 DEF Next, vars, Rot, archiving

-----------------------------------------------------------------------------
(* The restore gives back what was archived *)

LEMMA InitRestoreInv == Init => RestoreInv
BY DEF Init, HashCacheInit, RestoreInit, NoRestore, RestoreInv, BackupsAreTrue

\* What an archive records is true, since its hashes are.
LEMMA RecordKeepsBackups ==
    ASSUME TypeOK, HashInv, BackupsAreTrue, NEW a \in Archivers, Record(a)
    PROVE  BackupsAreTrue'
<1> DEFINE t == [f \in File |-> IF item(a, f).stage = "failed" THEN Absent
                                ELSE [sha1 |-> item(a, f).sha1, size |-> item(a, f).stamp.size,
                                      was |-> item(a, f).was]]
<1>1. backups' = backups \cup {t} /\ hasty' = hasty
  BY DEF Record
<1>2. ASSUME NEW f \in Listed(t) \ hasty PROVE t[f].sha1 \in t[f].was
  <2>1. f \in File /\ t[f] # Absent /\ t[f].sha1 # NoHash
    BY DEF Listed
  <2>2. item(a, f).stage = "done" /\ t[f].sha1 = item(a, f).sha1 /\ t[f].was = item(a, f).was
    BY <2>1 DEF Record
  <2>3. QED
    BY <2>1, <2>2 DEF HashInv, HashIsTrue, item
<1> HIDE DEF t
<1>3. QED
  BY <1>1, <1>2 DEF BackupsAreTrue, Listed

LEMMA HashCacheKeepsBackups ==
    ASSUME TypeOK, HashInv, BackupsAreTrue, HashCacheNext
    PROVE  BackupsAreTrue'
<1>1. CASE \E a \in Archivers : Record(a)
  BY <1>1, RecordKeepsBackups
<1>2. CASE backups' = backups /\ hasty \subseteq hasty'
  BY <1>2 DEF BackupsAreTrue, Listed
<1>3. QED
  BY ZenonT(60), <1>1, <1>2 DEF HashCacheNext, Tick, Change, Begin, LoadCache, TruncateCache, WriteCache,
     Return, Kill, Stat, UpdateFile, ArchiveItem

\* A file that is restored, and counted unless its length is wrong.
LEMMA RestoreFileKeepsRestoreInv ==
    ASSUME TypeOK, RestoreInv, NEW f \in File, RestoreFile(f), UNCHANGED archiving
    PROVE  RestoreInv'
<1>1. PICK same \in BOOLEAN : LET c == cas[res.tree[f].sha1] IN
         /\ dest' = [dest EXCEPT ![f] = c]
         /\ res' = [res EXCEPT !.todo = res.todo \ {f},
                               !.count = IF same THEN res.count + 1 ELSE res.count,
                               !.failed = res.failed \/ ~same,
                               !.intact = IF c = res.tree[f].sha1 THEN res.intact \cup {f}
                                          ELSE res.intact]
  BY RestoreFileEffect
<1> DEFINE c == cas[res.tree[f].sha1]
           done == Listed(res.tree) \ res.todo
<1>2. /\ res \in RestoreState /\ dest \in [File -> Content \cup {Absent, Torn}]
      /\ res.pc = "run" /\ f \in res.todo /\ c # Absent /\ f \in Listed(res.tree)
      /\ UNCHANGED <<backups, hasty>>
  BY InTree DEF RestoreFile, Turn, CanOpen, TypeOK, RestoreTypeOK, archiving
<1>3. /\ res'.pc = "run" /\ res'.tree = res.tree /\ res'.todo = res.todo \ {f}
      /\ res'.count = IF same THEN res.count + 1 ELSE res.count
      /\ res'.intact = IF c = res.tree[f].sha1 THEN res.intact \cup {f} ELSE res.intact
  BY <1>1, <1>2 DEF RestoreState
<1>4. ~res'.failed => ~res.failed /\ same
  <2>1. res'.failed = (res.failed \/ ~same)
    BY <1>1, <1>2 DEF RestoreState
  <2>2. QED
    BY <2>1
<1>5. dest'[f] = c /\ \A g \in File \ {f} : dest'[g] = dest[g]
  BY <1>1, <1>2
<1> HIDE DEF c
<1>6. Listed(res.tree) \ res'.todo = done \cup {f} /\ f \notin done /\ done \subseteq File
  BY <1>2, <1>3 DEF Listed
<1>7. IsFiniteSet(done)
  BY <1>6, FS_Subset, HashCacheAssumption
<1>8. Cardinality(done \cup {f}) = Cardinality(done) + 1
  BY <1>6, <1>7, FS_AddElement
<1>9. ASSUME ~res'.failed
      PROVE  /\ res'.count = Cardinality(done \cup {f})
             /\ \A g \in done \cup {f} : dest'[g] # Absent
             /\ res'.intact \subseteq done \cup {f}
             /\ \A g \in res'.intact : dest'[g] = res.tree[g].sha1
  <2>1. /\ same /\ res.count = Cardinality(done)
        /\ \A g \in done : dest[g] # Absent
        /\ res.intact \subseteq done
        /\ \A g \in res.intact : dest[g] = res.tree[g].sha1
    BY <1>2, <1>4, <1>9 DEF RestoreInv
  <2> HIDE DEF done
  <2>2. res'.count = Cardinality(done \cup {f})
    BY <1>3, <1>8, <2>1
  <2>3. QED
    BY <1>2, <1>3, <1>5, <1>6, <2>1, <2>2
<1>10. BackupsAreTrue'
  BY <1>2 DEF RestoreInv, BackupsAreTrue, Listed
<1>11. res.tree \in backups /\ \A g \in res'.todo : res.tree[g] # Absent
  BY <1>2, <1>3 DEF RestoreInv
<1>12. Listed(res.tree)' = Listed(res.tree)
  BY <1>3 DEF Listed
<1> HIDE DEF done
<1>13. QED
  BY <1>2, <1>3, <1>6, <1>9, <1>10, <1>11, <1>12 DEF RestoreInv

LEMMA RestoreKeepsRestoreInv ==
    ASSUME TypeOK, RestoreInv, RestoreNext, UNCHANGED archiving
    PROVE  RestoreInv'
<1>0. /\ res \in RestoreState /\ UNCHANGED <<backups, hasty>>
  BY RestoreStepType DEF TypeOK, RestoreTypeOK, archiving
<1>1. BackupsAreTrue'
  BY <1>0 DEF RestoreInv, BackupsAreTrue, Listed
<1>2. ASSUME NEW tree \in backups, Start(tree)
      PROVE  RestoreInv'
  <2>1. tree \in [File -> [sha1 : Content \cup {NoHash}, size : Nat, was : SUBSET Content] \cup {Absent}]
    BY DEF TypeOK, HashCacheTypeOK, Trees
  <2>2. /\ res'.tree = tree /\ res'.todo = {f \in File : tree[f] # Absent}
        /\ res'.count = 0 /\ res'.intact = {}
    BY <1>2, <2>1, NoRestoreType DEF Start, NoRestore
  <2>3. Listed(res.tree)' \ res'.todo = {}
    BY <2>2 DEF Listed
  <2>4. QED
    BY <1>0, <1>1, <2>2, <2>3, FS_EmptySet DEF RestoreInv
<1>3. ASSUME NEW f \in File, SkipEntry(f)
      PROVE  RestoreInv'
  <2>1. /\ res' = [res EXCEPT !.todo = res.todo \ {f}] /\ dest' = dest
        /\ res.pc = "run" /\ res.tree[f].sha1 = NoHash
    BY <1>3 DEF SkipEntry, Turn
  <2>2. /\ res'.tree = res.tree /\ res'.todo = res.todo \ {f} /\ res'.count = res.count
        /\ res'.intact = res.intact /\ res'.failed = res.failed
    BY <1>0, <2>1 DEF RestoreState
  <2>3. /\ Listed(res.tree)' = Listed(res.tree)
        /\ Listed(res.tree) \ res'.todo = Listed(res.tree) \ res.todo
    BY <2>1, <2>2 DEF Listed
  <2>4. QED
    BY <1>0, <1>1, <2>1, <2>2, <2>3 DEF RestoreInv
<1>4. ASSUME NEW f \in File, CannotRestore(f) \/ CopyFails(f)
      PROVE  RestoreInv'
  <2>1. res' = [res EXCEPT !.todo = res.todo \ {f}, !.failed = TRUE] /\ res.pc = "run"
    BY <1>4 DEF CannotRestore, CopyFails, Turn
  <2>2. res'.failed = TRUE /\ res'.tree = res.tree /\ res'.todo = res.todo \ {f}
    BY <1>0, <2>1 DEF RestoreState
  <2>3. QED
    BY <1>0, <1>1, <2>1, <2>2 DEF RestoreInv
<1>5. ASSUME NEW f \in File, RestoreFile(f)
      PROVE  RestoreInv'
  BY <1>5, RestoreFileKeepsRestoreInv
<1>6. CASE End \/ KillRestore
  <2>1. res'.pc = "idle"
    BY SMTT(30), <1>6 DEF End, KillRestore, NoRestore
  <2>2. QED
    BY <1>1, <2>1 DEF RestoreInv
<1>7. QED
  BY <1>2, <1>3, <1>4, <1>5, <1>6 DEF RestoreNext

LEMMA NextRestoreInv ==
    ASSUME TypeOK, HashInv, RestoreInv, [Next]_vars
    PROVE  RestoreInv'
<1>1. CASE res.pc = "idle" /\ HashCacheNext /\ UNCHANGED <<dest, res>>
  BY <1>1, HashCacheKeepsBackups DEF RestoreInv
<1>2. CASE RestoreNext /\ UNCHANGED archiving
  BY <1>2, RestoreKeepsRestoreInv
<1>3. CASE UNCHANGED <<archiving, backups, dest, res>>
  BY <1>3 DEF RestoreInv, BackupsAreTrue, Listed, archiving
<1>4. QED
  BY <1>1, <1>2, <1>3 DEF Next, vars, Rot, archiving

-----------------------------------------------------------------------------
(* Theorems *)

LEMMA Inductive == Spec => [](TypeOK /\ HashInv /\ RestoreInv)
<1>1. Init => TypeOK /\ HashInv /\ RestoreInv
  BY InitType, InitHashInv, InitRestoreInv
<1>2. TypeOK /\ HashInv /\ RestoreInv /\ [Next]_vars => (TypeOK /\ HashInv /\ RestoreInv)'
  BY NextType, NextHashInv, NextRestoreInv
<1>3. QED
  BY <1>1, <1>2, PTL DEF Spec

\* The files, the cache, the archives, the objects, the backups and the restore
\* keep their types.
THEOREM TypeCorrect == Spec => []TypeOK
BY Inductive, PTL

\* The hash that updateFile takes from the cache, or computes, is that of a
\* content the file had in that archive, for any number of archives that share
\* cache.gob, any files and any way they change, but for a file that changed
\* twice within one second.
THEOREM HashesAreTrue == Spec => []HashIsTrue
<1>1. HashInv => HashIsTrue
  BY DEF HashInv
<1>2. QED
  BY <1>1, Inductive, PTL

\* A restore that reports no error has counted and written every file that info
\* lists, and those whose objects are intact as they were when archived.
THEOREM RestoreIsComplete == Spec => RestoreGivesBack
<1>1. TypeOK /\ HashInv /\ RestoreInv /\ [Next]_vars =>
        [End /\ ~res.failed =>
           /\ res.count = Cardinality(Listed(res.tree))
           /\ \A f \in Listed(res.tree) : dest[f] # Absent
           /\ \A f \in res.intact \ hasty : dest[f] \in res.tree[f].was]_vars
  <2> SUFFICES ASSUME RestoreInv, End, ~res.failed
               PROVE  /\ res.count = Cardinality(Listed(res.tree))
                      /\ \A f \in Listed(res.tree) : dest[f] # Absent
                      /\ \A f \in res.intact \ hasty : dest[f] \in res.tree[f].was
    OBVIOUS
  <2>1. res.pc = "run" /\ Listed(res.tree) \ res.todo = Listed(res.tree)
    BY DEF End
  <2>2. QED
    BY <2>1 DEF RestoreInv, BackupsAreTrue
<1>2. QED
  BY <1>1, Inductive, PTL DEF Spec, RestoreGivesBack
=============================================================================
