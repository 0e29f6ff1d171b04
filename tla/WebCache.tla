------------------------------ MODULE WebCache ------------------------------
(***************************************************************************)
(* dumbcas web: the HTTP side of nodesTable (dumbcaslib/nodes_local.go),   *)
(* with the virtual file system of a backup (entry.go) behind it.          *)
(*                                                                         *)
(* Every request runs in a goroutine of its own.  It looks for its node in *)
(* recentNodes, then on disk; for the tree of that node in recentEntries,  *)
(* then in the CAS table; and for the object of the file it asks for in    *)
(* the CAS table.  What was read from disk is put in the cache by yet      *)
(* another goroutine, some time later.  A mutex guards each access to the  *)
(* caches; nothing is held in between, and the store underneath, which is  *)
(* that of module BackupStore, goes on changing.                           *)
(***************************************************************************)
EXTENDS Naturals, FiniteSets

CONSTANTS
    Data, Entries, Refs, Names, Absent,     \* as in BackupStore
    Tag,        \* the one name that is recorded again by the next backup
    Extends,    \* Extends[n]: the names that are n with something appended
    Dir,        \* a directory of nodes: nodes/<month>
    Path,       \* paths inside a backup, other than its root
    At,         \* At[e][p]: what the tree e has at p: a hash, "dir" or Absent
    Urls,       \* the URLs that are requested
    Readers,    \* requests served at the same time
    MaxItems,   \* nodesTable.maxItems
    MaxTime,    \* bound on the clock
    MaxPending  \* bound on the cache updates that are late at the same time

VARIABLES
    objects, backups,   \* the store
    partial,        \* nodes whose file exists and is not written yet
    recentNodes, recentEntries,
    updates,        \* the goroutines that will update a cache
    req,            \* the requests
    clock,
    had             \* had[n]: the entries n was recorded with so far

store == <<objects, backups, partial, had>>
vars == <<store, recentNodes, recentEntries, updates, req, clock>>

Root == "root"
Elsewhere == "elsewhere"    \* a path the tree does not have

Disk == INSTANCE BackupStore

\* The URL of a node starts with its name; slash says whether it ends in "/".
Url == [name : Names, path : Path \cup {Root}, slash : BOOLEAN]
         \cup [name : {Dir}, path : {Root}, slash : BOOLEAN]
Bare(u) == u.path = Root /\ ~u.slash

\* The part of the URL that getNode consumed: a name, and the "/" after it if
\* there is one.
Key == Names \X BOOLEAN
KeyOf(u) == <<u.name, ~Bare(u)>>

\* last is lastAccess; used, which the code does not have, is the time a
\* request last used the entry.
NodeCache == [ent : Entries, last : Nat]
EntryCache == [last : Nat, used : Nat]
Update == [cache : {"node"}, key : Key, ent : Entries, last : Nat]
            \cup [cache : {"entry"}, key : Entries, last : Nat, used : Nat]

Answer == [kind : {"none", "redirect", "list", "notfound", "failure", "tree", "file"},
           val : Data \cup Entries \cup {Absent}]
Request == [pc : {"idle", "find", "node", "entry", "load", "file"},
            url : Url, ent : Data \cup Entries \cup {Absent},
            path : Path \cup {Root, Elsewhere}, ans : Answer,
            asked : Entries \cup {Absent}]     \* what the node said when asked for

ASSUME WebCacheAssumption ==
    /\ Absent \notin Data \cup Entries /\ Absent \notin NodeCache /\ Absent \notin EntryCache
    /\ Dir \notin Names /\ {Root, Elsewhere} \cap Path = {}
    /\ Urls \subseteq Url
    /\ Refs \in [Entries -> SUBSET Data]
    /\ "dir" \notin Data \cup {Absent}
    /\ At \in [Entries -> [Path -> Data \cup {"dir", Absent}]]
    /\ \A e \in Entries, p \in Path : At[e][p] \in Refs[e] \cup {"dir", Absent}
    /\ MaxItems \in Nat /\ MaxTime \in Nat

Says(kind, v) == [kind |-> kind, val |-> v]
Idle == [pc |-> "idle", url |-> [name |-> Dir, path |-> Root, slash |-> TRUE],
         ent |-> Absent, path |-> Root, ans |-> Says("none", Absent), asked |-> Absent]
Held(cache) == {k \in DOMAIN cache : cache[k] # Absent}

\* The caches hold what they are meant to hold, and never more than maxItems
\* once the lock is released.
TypeOK ==
    /\ objects \in SUBSET (Data \cup Entries)
    /\ backups \in [Names -> Entries \cup {Absent}]
    /\ partial \in SUBSET Names
    /\ recentNodes \in [Key -> NodeCache \cup {Absent}]
    /\ recentEntries \in [Entries -> EntryCache \cup {Absent}]
    /\ Cardinality(Held(recentNodes)) <= MaxItems
    /\ Cardinality(Held(recentEntries)) <= MaxItems
    /\ updates \in SUBSET Update
    /\ req \in [Readers -> Request]
    /\ clock \in Nat /\ had \in [Names -> SUBSET Entries]

Init ==
    /\ Disk!Init /\ partial = {}
    /\ recentNodes = [k \in Key |-> Absent]
    /\ recentEntries = [e \in Entries |-> Absent]
    /\ updates = {}
    /\ req = [r \in Readers |-> Idle]
    /\ clock = 1 /\ had = [n \in Names |-> {}]

-----------------------------------------------------------------------------
(* The caches *)

\* time.Now(): two accesses may fall on the same tick.  0 is the zero time.
Now == {clock, clock + 1} \cap 0..MaxTime

\* strings.HasPrefix(url, key)
HasPrefix(u, k) == \/ u.name = k[1] /\ (k[2] => ~Bare(u))
                   \/ u.name \in Extends[k[1]] /\ ~k[2]

\* The item to delete once k is in the cache and it is too large.  The scan
\* starts from k and moves to an item only if that one is strictly older.
Oldest(cache, k) ==
    LET older == {x \in Held(cache) : cache[x].last < cache[k].last}
    IN  IF older = {} THEN {k}
        ELSE {x \in older : \A y \in older : cache[x].last <= cache[y].last}

\* Mutant: the size is compared with maxItems before the item is added.
InsertLate(cache, k, item) ==
    LET c == [cache EXCEPT ![k] = item]
    IN  IF Cardinality(Held(cache)) <= MaxItems THEN {c}
        ELSE {[c EXCEPT ![x] = Absent] : x \in Oldest(c, k)}

\* What updateNodeCache and updateEntryCache may make of the cache.
Insert(cache, k, item) ==
    LET c == [cache EXCEPT ![k] = item]
    IN  IF Cardinality(Held(c)) <= MaxItems THEN {c}
        ELSE {[c EXCEPT ![x] = Absent] : x \in Oldest(c, k)}

UpdateNodeCache(u) ==
    /\ u.cache = "node"
    /\ recentNodes' \in Insert(recentNodes, u.key, [ent |-> u.ent, last |-> u.last])
    /\ updates' = updates \ {u}
    /\ UNCHANGED <<store, recentEntries, req, clock>>

UpdateEntryCache(u) ==
    /\ u.cache = "entry"
    /\ recentEntries' \in
          Insert(recentEntries, u.key,
                 [last |-> u.last, used |-> LET old == recentEntries[u.key] IN
                    IF old # Absent /\ old.used > u.used THEN old.used ELSE u.used])
    /\ updates' = updates \ {u}
    /\ UNCHANGED <<store, recentNodes, req, clock>>

-----------------------------------------------------------------------------
(* A request *)

\* The request is answered, and forgotten but for the answer.
Answers(r, ans) == req' = [req EXCEPT ![r] = [Idle EXCEPT !.ans = ans]]

\* Mutant: a directory is listed, and a file sent, with and without "/".
ServeTreeAnySlash(r, e) ==
    LET x == IF req[r].path = Root THEN "dir"
             ELSE IF req[r].path = Elsewhere THEN Absent ELSE At[e][req[r].path]
    IN  IF x = Absent THEN Answers(r, Says("notfound", Absent))
        ELSE IF x = "dir" THEN Answers(r, Says("tree", e))
        ELSE req' = [req EXCEPT ![r].pc = "file", ![r].ent = x]

\* entryFileSystem.ServeHTTP on the tree e: pathToEntry, and then a directory
\* must have the trailing "/" and a file must not.
ServeTree(r, e) ==
    LET x == IF req[r].path = Root THEN "dir"
             ELSE IF req[r].path = Elsewhere THEN Absent ELSE At[e][req[r].path]
        slash == req[r].url.slash
    IN  IF x = Absent THEN Answers(r, Says("notfound", Absent))
        ELSE IF (x = "dir") # slash THEN Answers(r, Says("redirect", Absent))
        ELSE IF x = "dir" THEN Answers(r, Says("tree", e))
        ELSE req' = [req EXCEPT ![r].pc = "file", ![r].ent = x]

Get(r, u) ==
    /\ req[r].pc = "idle"
    /\ req' = [req EXCEPT ![r].pc = "find", ![r].url = u, ![r].ans = Says("none", Absent),
                          ![r].asked = IF u.name = Dir THEN Absent ELSE backups[u.name]]
    /\ UNCHANGED <<store, recentNodes, recentEntries, updates, clock>>

\* Mutant: any node that is cached is taken for that of the URL.
FindAnyNode(r, k) ==
    /\ req[r].pc = "find" /\ k \in Held(recentNodes) /\ req[r].url.name \in Names
    /\ \E t \in Now :
          /\ clock' = t
          /\ recentNodes' = [recentNodes EXCEPT ![k].last = t]
    /\ req' = [req EXCEPT ![r].pc = "entry", ![r].ent = recentNodes[k].ent,
                          ![r].path = req[r].url.path]
    /\ UNCHANGED <<store, recentEntries, updates>>

\* findCachedNode ranges over the map in any order and takes the first key that
\* is a prefix of the URL.  A node without the "/" after it is redirected.
FindCachedNode(r, k) ==
    /\ req[r].pc = "find" /\ k \in Held(recentNodes) /\ HasPrefix(req[r].url, k)
    /\ \E t \in Now :
          /\ clock' = t
          /\ recentNodes' = [recentNodes EXCEPT ![k].last = t]
    /\ IF Bare(req[r].url) /\ k = KeyOf(req[r].url)
       THEN Answers(r, Says("redirect", Absent))
       ELSE req' = [req EXCEPT ![r].pc = "entry", ![r].ent = recentNodes[k].ent,
                               ![r].path = IF k[1] = req[r].url.name
                                           THEN req[r].url.path ELSE Elsewhere]
    /\ UNCHANGED <<store, recentEntries, updates>>

NotCached(r) ==
    /\ req[r].pc = "find"
    /\ ~\E k \in Held(recentNodes) : HasPrefix(req[r].url, k)
    /\ req' = [req EXCEPT ![r].pc = "node"]
    /\ UNCHANGED <<store, recentNodes, recentEntries, updates, clock>>

\* getNode found the node and could decode it.
GetNode(r) ==
    /\ req[r].pc = "node" /\ req[r].url.name # Dir
    /\ backups[req[r].url.name] # Absent /\ Cardinality(updates) < MaxPending
    /\ LET e == backups[req[r].url.name] IN
          /\ \E t \in Now :
                /\ clock' = t
                /\ updates' = updates \cup {[cache |-> "node", key |-> KeyOf(req[r].url),
                                             ent |-> e, last |-> t]}
          /\ IF Bare(req[r].url) THEN Answers(r, Says("redirect", Absent))
             ELSE req' = [req EXCEPT ![r].pc = "entry", ![r].ent = e,
                                     ![r].path = req[r].url.path]
    /\ UNCHANGED <<store, recentNodes, recentEntries>>

\* A node that cannot be decoded is no error: the err that getNode returns is
\* the one of Stat.  It is then taken for a directory, and listed as empty.
BrowseNodes(r) ==
    /\ req[r].pc = "node"
    /\ req[r].url.name \in partial \cup {Dir}
    /\ Answers(r, Says(IF req[r].url.slash THEN "list" ELSE "redirect", Absent))
    /\ UNCHANGED <<store, recentNodes, recentEntries, updates, clock>>

NoSuchNode(r) ==
    /\ req[r].pc = "node" /\ req[r].url.name \notin partial \cup {Dir}
    /\ backups[req[r].url.name] = Absent
    /\ Answers(r, Says("notfound", Absent))
    /\ UNCHANGED <<store, recentNodes, recentEntries, updates, clock>>

\* getEntry
FindCachedEntry(r) ==
    /\ req[r].pc = "entry" /\ recentEntries[req[r].ent] # Absent
    /\ \E t \in Now :
          /\ clock' = t
          /\ recentEntries' = [recentEntries EXCEPT ![req[r].ent] = [last |-> t, used |-> t]]
    /\ ServeTree(r, req[r].ent)
    /\ UNCHANGED <<store, recentNodes, updates>>

EntryNotCached(r) ==
    /\ req[r].pc = "entry" /\ recentEntries[req[r].ent] = Absent
    /\ req' = [req EXCEPT ![r].pc = "load"]
    /\ UNCHANGED <<store, recentNodes, recentEntries, updates, clock>>

\* The entryCache of a tree that was just loaded has the zero lastAccess.
LoadEntry(r) ==
    /\ req[r].pc = "load" /\ req[r].ent \in objects
    /\ Cardinality(updates) < MaxPending
    /\ \E t \in Now :
          /\ clock' = t
          /\ updates' = updates \cup {[cache |-> "entry", key |-> req[r].ent,
                                       last |-> 0, used |-> t]}
    /\ ServeTree(r, req[r].ent)
    /\ UNCHANGED <<store, recentNodes, recentEntries>>

\* The entry cannot be loaded: an error page, and cas.SetFsckBit().
Corruption(r) ==
    /\ req[r].pc = "load" /\ req[r].ent \notin objects
    /\ Answers(r, Says("failure", Absent))
    /\ UNCHANGED <<store, recentNodes, recentEntries, updates, clock>>

\* casTable.ServeHTTP
ServeFile(r) ==
    /\ req[r].pc = "file"
    /\ Answers(r, IF req[r].ent \in objects THEN Says("file", req[r].ent)
                  ELSE Says("notfound", Absent))
    /\ UNCHANGED <<store, recentNodes, recentEntries, updates, clock>>

-----------------------------------------------------------------------------
(* The store, as other processes change it *)

cached == <<recentNodes, recentEntries, updates, clock>>

\* n is no longer what the requests under way found it to be.
Disturb(n) ==
    req' = [r \in Readers |-> IF req[r].url.name = n THEN [req[r] EXCEPT !.asked = Absent]
                              ELSE req[r]]

\* An archive stores an object; gc moves one.
StoreObject(h) == h \notin objects /\ Disk!Put(h) /\ UNCHANGED <<partial, had, req, cached>>
CollectObject(h) == Disk!Collect(h) /\ UNCHANGED <<partial, had, req, cached>>

\* One archive at a time creates the file of a node, then writes it.  A node is
\* never written again; a tag is.
CreateNode(n) ==
    /\ partial = {} /\ backups[n] = Absent /\ (n # Tag => had[n] = {})
    /\ partial' = partial \cup {n}
    /\ UNCHANGED <<objects, backups, had, req, cached>>

WriteNode(n, e) ==
    /\ n \in partial /\ Disk!Record(n, e)
    /\ partial' = partial \ {n}
    /\ had' = [had EXCEPT ![n] = @ \cup {e}]
    /\ Disturb(n)
    /\ UNCHANGED cached

\* The user deletes a node; an archive removes the tag before it makes it again.
DeleteNode(n) ==
    /\ backups[n] # Absent /\ Disk!Forget(n)
    /\ Disturb(n)
    /\ UNCHANGED <<partial, had, cached>>

-----------------------------------------------------------------------------
Serve(r) ==
    \/ \E u \in Urls : Get(r, u)
    \/ \E k \in Key : FindCachedNode(r, k)
    \/ NotCached(r) \/ GetNode(r) \/ BrowseNodes(r) \/ NoSuchNode(r)
    \/ FindCachedEntry(r) \/ EntryNotCached(r) \/ LoadEntry(r) \/ Corruption(r)
    \/ ServeFile(r)

ChangeStore ==
    \/ \E h \in Data \cup Entries : StoreObject(h) \/ CollectObject(h)
    \/ \E n \in Names : CreateNode(n) \/ DeleteNode(n) \/ \E e \in Entries : WriteNode(n, e)

Next ==
    \/ \E r \in Readers : Serve(r)
    \/ \E u \in updates : UpdateNodeCache(u) \/ UpdateEntryCache(u)
    \/ ChangeStore

Spec == Init /\ [][Next]_vars

-----------------------------------------------------------------------------
(* Properties *)

\* What entryFileSystem answers for the URL u of a backup of the tree e whose
\* objects are all there.
Right(u, e) ==
    LET x == IF u.path = Root THEN "dir" ELSE At[e][u.path]
    IN  IF Bare(u) \/ (x # Absent /\ (x = "dir") # u.slash) THEN Says("redirect", Absent)
        ELSE IF x = Absent THEN Says("notfound", Absent)
        ELSE IF x = "dir" THEN Says("tree", e) ELSE Says("file", x)

Answered(r) == req[r].pc # "idle" /\ req'[r].pc = "idle"

\* "Serves each node as a full virtual tree of the archived files": a request
\* for a backup that is there from the request to the answer is answered with
\* the listing or the file that backup has there, whatever the caches hold and
\* whatever is archived, deleted and collected meanwhile.
ServesTheNode ==
    [][\A r \in Readers :
         Answered(r) /\ req[r].url.name # Tag /\ req[r].asked # Absent
           => req'[r].ans = Right(req[r].url, req[r].asked)]_vars

\* A tag may be answered with an earlier tree, for the cache is never compared
\* with the disk, but never with one it did not have: what is served under a
\* name was recorded under that name.
ServesWhatWasThere ==
    [][\A r \in Readers : Answered(r) =>
         LET u == req[r].url
             a == req'[r].ans
         IN  /\ a.kind = "tree" => a.val \in had[u.name]
             /\ a.kind = "file" => \E e \in had[u.name] : At[e][u.path] = a.val]_vars

-----------------------------------------------------------------------------
(* What a comment of nodes_local.go says and the code does not do; refuted *)
(* by a run of its own.                                                    *)

\* "Find the oldest and remove it.": an entry that leaves recentEntries, or is
\* not kept there, was not used after one that stays.
RemovesOldest ==
    [][\A u \in updates \ updates' : u.cache = "entry" =>
          /\ u.key \notin Held(recentEntries') =>
                \A y \in Held(recentEntries') : u.used <= recentEntries'[y].used
          /\ \A x \in Held(recentEntries) \ Held(recentEntries'), y \in Held(recentEntries') :
                recentEntries[x].used <= recentEntries'[y].used]_vars
=============================================================================
