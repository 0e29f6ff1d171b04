----------------------------- MODULE WebProofs -----------------------------
(***************************************************************************)
(* Proofs about module WebCache, for any number of requests at the same    *)
(* time, of late cache updates, of backups and of paths: the caches stay   *)
(* within their bound, nothing is served under a name that was not         *)
(* recorded there, and, when no name is the beginning of another one, a    *)
(* backup that is there is served as it is.                                *)
(***************************************************************************)
EXTENDS WebCache, FiniteSetTheorems, TLAPS

-----------------------------------------------------------------------------
\* No name is another one with something appended.
PrefixFree == \A n \in Names : Extends[n] = {}

\* Both caches are finite.
FiniteInv == IsFiniteSet(Held(recentNodes)) /\ IsFiniteSet(Held(recentEntries))

\* A node other than the tag is written once; what a recorded backup needs is in
\* the store.
StoreInv ==
    /\ \A n \in Names : backups[n] # Absent =>
         backups[n] \in had[n] /\ Disk!Closure(backups[n]) \subseteq objects
    /\ \A n \in Names \ {Tag} :
         /\ \A e, f \in had[n] : e = f
         /\ n \in partial => had[n] = {}

\* What is cached under a name, or will be, was recorded under that name.
CacheInv ==
    /\ \A k \in Held(recentNodes) : recentNodes[k].ent \in had[k[1]]
    /\ \A u \in updates : u.cache = "node" => u.ent \in had[u.key[1]]

\* What the request q has found so far.
Found(q) ==
    /\ q.pc # "idle" /\ q.asked # Absent => q.url.name \in Names /\ q.asked = backups[q.url.name]
    /\ q.pc \in {"entry", "load"} =>
         /\ q.ent \in Entries
         /\ PrefixFree => q.path # Elsewhere
         /\ q.path # Elsewhere =>
              /\ q.path = q.url.path /\ ~Bare(q.url)
              /\ q.url.name \in Names /\ q.ent \in had[q.url.name]
    /\ q.pc = "file" =>
         /\ q.url.name \in Names /\ q.url.path \in Path /\ q.url.slash = FALSE
         /\ \E e \in had[q.url.name] : At[e][q.url.path] = q.ent
         /\ q.ent \in Data

WebInv == FiniteInv /\ StoreInv /\ CacheInv /\ \A r \in Readers : Found(req[r])

-----------------------------------------------------------------------------
(* The caches *)

\* Whatever updateNodeCache and updateEntryCache drop, the cache keeps its bound
\* and has nothing new but the item.
LEMMA InsertEffect ==
    ASSUME NEW K, NEW V, Absent \notin V, NEW cache \in [K -> V \cup {Absent}],
           IsFiniteSet(Held(cache)), Cardinality(Held(cache)) <= MaxItems,
           NEW k \in K, NEW i \in V, NEW new \in Insert(cache, k, i)
    PROVE  /\ new \in [K -> V \cup {Absent}]
           /\ IsFiniteSet(Held(new)) /\ Cardinality(Held(new)) <= MaxItems
           /\ \A x \in Held(new) : /\ x = k => new[x] = i
                                   /\ x # k => x \in Held(cache) /\ new[x] = cache[x]
<1> DEFINE c == [cache EXCEPT ![k] = i]
<1>1. c \in [K -> V \cup {Absent}] /\ \A x \in K : c[x] = IF x = k THEN i ELSE cache[x]
  OBVIOUS
<1>2. Held(c) = Held(cache) \cup {k}
  BY <1>1 DEF Held
<1>3. /\ IsFiniteSet(Held(c)) /\ Cardinality(Held(c)) \in Nat
      /\ Cardinality(Held(c)) <= MaxItems + 1
  <2>1. Cardinality(Held(cache)) \in Nat
    BY FS_CardinalityType
  <2>2. /\ IsFiniteSet(Held(cache) \cup {k})
        /\ Cardinality(Held(cache) \cup {k}) =
              IF k \in Held(cache) THEN Cardinality(Held(cache)) ELSE Cardinality(Held(cache)) + 1
    BY FS_AddElement
  <2>3. MaxItems \in Nat
    BY WebCacheAssumption
  <2> HIDE DEF c
  <2>4. Held(c) = Held(cache) \cup {k}
    BY <1>2
  <2>5. QED
    BY <2>1, <2>2, <2>3, <2>4
<1>4. new \in IF Cardinality(Held(c)) <= MaxItems THEN {c}
              ELSE {[c EXCEPT ![x] = Absent] : x \in Oldest(c, k)}
  BY DEF Insert
<1> HIDE DEF c
<1>5. CASE new = c /\ Cardinality(Held(c)) <= MaxItems
  BY <1>1, <1>2, <1>3, <1>5 DEF Held
<1>6. ASSUME NEW x \in Oldest(c, k), new = [c EXCEPT ![x] = Absent]
      PROVE  /\ new \in [K -> V \cup {Absent}]
             /\ IsFiniteSet(Held(new)) /\ Cardinality(Held(new)) <= MaxItems
             /\ \A y \in Held(new) : /\ y = k => new[y] = i
                                     /\ y # k => y \in Held(cache) /\ new[y] = cache[y]
  <2>1. x \in Held(c) /\ x \in K
    BY <1>1, <1>2, <1>6 DEF Oldest, Held
  <2>2. new \in [K -> V \cup {Absent}] /\ \A y \in K : new[y] = IF y = x THEN Absent ELSE c[y]
    BY <1>1, <1>6
  <2>3. Held(new) = Held(c) \ {x}
    BY <1>1, <2>2 DEF Held
  <2>4. IsFiniteSet(Held(new)) /\ Cardinality(Held(new)) = Cardinality(Held(c)) - 1
    BY <1>3, <2>1, <2>3, FS_RemoveElement
  <2>5. Cardinality(Held(new)) <= MaxItems
    BY <1>3, <2>4, WebCacheAssumption
  <2>6. ASSUME NEW y \in Held(new)
        PROVE  (y = k => new[y] = i) /\ (y # k => y \in Held(cache) /\ new[y] = cache[y])
    <3>1. y \in K /\ y \in Held(c) /\ y # x
      BY <2>2, <2>3 DEF Held
    <3>2. QED
      BY <1>1, <1>2, <2>2, <3>1
  <2>7. QED
    BY <2>2, <2>4, <2>5, <2>6
<1>7. QED
  BY <1>4, <1>5, <1>6

-----------------------------------------------------------------------------
(* The requests *)

LEMMA IdleType ==
    /\ Idle \in Request /\ Idle.pc = "idle"
    /\ \A a \in Answer : /\ [Idle EXCEPT !.ans = a] \in Request
                         /\ [Idle EXCEPT !.ans = a].pc = "idle" /\ [Idle EXCEPT !.ans = a].ans = a
<1>1. [name |-> Dir, path |-> Root, slash |-> TRUE] \in Url
  BY DEF Url
<1>2. Says("none", Absent) \in Answer
  BY DEF Says, Answer
<1>3. Idle \in Request /\ Idle.pc = "idle"
  BY <1>1, <1>2 DEF Idle, Request
<1>4. QED
  BY <1>3 DEF Request

\* A step of request r that finds q.
LEMMA RequestStep ==
    ASSUME req \in [Readers -> Request], \A s \in Readers : Found(req[s]),
           UNCHANGED <<backups, had>>,
           NEW r \in Readers, NEW q \in Request, Found(q), req' = [req EXCEPT ![r] = q]
    PROVE  req' \in [Readers -> Request] /\ \A s \in Readers : Found(req[s])'
<1>1. req' \in [Readers -> Request] /\ \A s \in Readers : req'[s] = IF s = r THEN q ELSE req[s]
  OBVIOUS
<1>2. QED
  BY SMTT(30), <1>1 DEF Found

\* A step that answers request r.
LEMMA AnswerStep ==
    ASSUME req \in [Readers -> Request], \A s \in Readers : Found(req[s]),
           UNCHANGED <<backups, had>>,
           NEW r \in Readers, NEW a \in Answer, Answers(r, a)
    PROVE  /\ req' \in [Readers -> Request] /\ \A s \in Readers : Found(req[s])'
           /\ req'[r].ans = a /\ \A s \in Readers \ {r} : req'[s] = req[s]
<1> DEFINE q == [Idle EXCEPT !.ans = a]
<1>1. q \in Request /\ q.pc = "idle" /\ q.ans = a
  BY IdleType
<1>2. req' = [req EXCEPT ![r] = q]
  BY DEF Answers
<1> HIDE DEF q
<1>3. Found(q)
  BY <1>1 DEF Found
<1>4. QED
  BY <1>1, <1>2, <1>3, RequestStep

\* What the tree e has at the path of the request q.
What(q, e) == IF q.path = Root THEN "dir" ELSE IF q.path = Elsewhere THEN Absent ELSE At[e][q.path]

LEMMA ServeTreeCases ==
    ASSUME NEW r \in Readers, NEW e \in Entries, req[r] \in Request, ServeTree(r, e)
    PROVE  LET x == What(req[r], e)
               slash == req[r].url.slash
           IN  \/ x = Absent /\ Answers(r, Says("notfound", Absent))
               \/ x = "dir" /\ slash = FALSE /\ Answers(r, Says("redirect", Absent))
               \/ x \notin {"dir", Absent} /\ slash = TRUE /\ Answers(r, Says("redirect", Absent))
               \/ x = "dir" /\ slash = TRUE /\ Answers(r, Says("tree", e))
               \/ /\ x \notin {"dir", Absent} /\ slash = FALSE
                  /\ req' = [req EXCEPT ![r].pc = "file", ![r].ent = x]
<1> DEFINE x == What(req[r], e)
           slash == req[r].url.slash
<1>1. IF x = Absent THEN Answers(r, Says("notfound", Absent))
      ELSE IF (x = "dir") # slash THEN Answers(r, Says("redirect", Absent))
      ELSE IF x = "dir" THEN Answers(r, Says("tree", e))
      ELSE req' = [req EXCEPT ![r].pc = "file", ![r].ent = x]
  BY DEF ServeTree, What
<1>2. slash \in BOOLEAN
  BY DEF Request, Url
<1> HIDE DEF x, slash
<1>3. (x = "dir" /\ slash = TRUE) \/ (x # "dir" /\ slash = FALSE) => ~((x = "dir") # slash)
  BY <1>2, Zenon
<1>4. (x = "dir" /\ slash = FALSE) \/ (x # "dir" /\ slash = TRUE) => (x = "dir") # slash
  BY <1>2, Zenon
<1>5. slash = TRUE \/ slash = FALSE
  BY <1>2
<1>6. \/ x = Absent /\ Answers(r, Says("notfound", Absent))
      \/ x = "dir" /\ slash = FALSE /\ Answers(r, Says("redirect", Absent))
      \/ x \notin {"dir", Absent} /\ slash = TRUE /\ Answers(r, Says("redirect", Absent))
      \/ x = "dir" /\ slash = TRUE /\ Answers(r, Says("tree", e))
      \/ /\ x \notin {"dir", Absent} /\ slash = FALSE
         /\ req' = [req EXCEPT ![r].pc = "file", ![r].ent = x]
  BY <1>1, <1>3, <1>4, <1>5, Zenon
<1>7. QED
  BY <1>6 DEF x, slash

\* entryFileSystem answers, or goes on to the object, as it should.
LEMMA ServeTreeStep ==
    ASSUME req \in [Readers -> Request], \A s \in Readers : Found(req[s]),
           UNCHANGED <<backups, had>>, had \in [Names -> SUBSET Entries],
           NEW r \in Readers, req[r].pc \in {"entry", "load"}, ServeTree(r, req[r].ent)
    PROVE  /\ req' \in [Readers -> Request] /\ \A s \in Readers : Found(req[s])'
           /\ \A s \in Readers \ {r} : req'[s] = req[s]
           /\ req'[r].pc = "idle" =>
                /\ req'[r].ans.kind # "file"
                /\ req'[r].ans.kind = "tree" =>
                     req[r].path # Elsewhere /\ req'[r].ans.val = req[r].ent
                /\ req[r].path # Elsewhere => req'[r].ans = Right(req[r].url, req[r].ent)
<1> DEFINE x == What(req[r], req[r].ent)
           slash == req[r].url.slash
<1>1. /\ req[r] \in Request /\ req[r].ent \in Entries /\ req[r].path \in Path \cup {Root, Elsewhere}
      /\ req[r].url \in Url /\ Root \notin Path /\ Elsewhere \notin Path /\ "dir" # Absent
      /\ At \in [Entries -> [Path -> Data \cup {"dir", Absent}]]
  BY WebCacheAssumption DEF Found, Request
<1>2. /\ req[r].path # Elsewhere =>
           /\ req[r].path = req[r].url.path /\ ~Bare(req[r].url) /\ req[r].url.name \in Names
           /\ req[r].ent \in had[req[r].url.name]
      /\ req[r].asked # Absent =>
           req[r].url.name \in Names /\ req[r].asked = backups[req[r].url.name]
  BY DEF Found
<1>3. req[r].path = Elsewhere => x = Absent
  BY DEF What, Root, Elsewhere
<1>4. req[r].path # Elsewhere =>
         Right(req[r].url, req[r].ent) =
            IF x # Absent /\ (x = "dir") # slash THEN Says("redirect", Absent)
            ELSE IF x = Absent THEN Says("notfound", Absent)
            ELSE IF x = "dir" THEN Says("tree", req[r].ent) ELSE Says("file", x)
  BY <1>2 DEF Right, What
<1>5. /\ Says("notfound", Absent) \in Answer /\ Says("redirect", Absent) \in Answer
      /\ Says("tree", req[r].ent) \in Answer
      /\ Says("notfound", Absent).kind = "notfound" /\ Says("redirect", Absent).kind = "redirect"
      /\ Says("tree", req[r].ent).kind = "tree" /\ Says("tree", req[r].ent).val = req[r].ent
  BY <1>1 DEF Says, Answer
<1>6. x \notin {"dir", Absent} => req[r].path \in Path /\ x \in Data
  BY <1>1 DEF What
<1>7. \/ x = Absent /\ Answers(r, Says("notfound", Absent))
      \/ x = "dir" /\ slash = FALSE /\ Answers(r, Says("redirect", Absent))
      \/ x \notin {"dir", Absent} /\ slash = TRUE /\ Answers(r, Says("redirect", Absent))
      \/ x = "dir" /\ slash = TRUE /\ Answers(r, Says("tree", req[r].ent))
      \/ /\ x \notin {"dir", Absent} /\ slash = FALSE
         /\ req' = [req EXCEPT ![r].pc = "file", ![r].ent = x]
  BY <1>1, ServeTreeCases
<1>8. x = At[req[r].ent][req[r].path] \/ req[r].path \notin Path
  BY <1>1 DEF What
<1> HIDE DEF x, slash
<1>9. CASE x = Absent /\ Answers(r, Says("notfound", Absent))
  BY <1>1, <1>4, <1>5, <1>9, AnswerStep
<1>10. CASE x = "dir" /\ slash = FALSE /\ Answers(r, Says("redirect", Absent))
  BY <1>1, <1>4, <1>5, <1>10, AnswerStep
<1>11. CASE x \notin {"dir", Absent} /\ slash = TRUE /\ Answers(r, Says("redirect", Absent))
  BY <1>1, <1>4, <1>5, <1>11, AnswerStep
<1>12. CASE x = "dir" /\ slash = TRUE /\ Answers(r, Says("tree", req[r].ent))
  BY <1>1, <1>3, <1>4, <1>5, <1>12, AnswerStep
<1>13. CASE /\ x \notin {"dir", Absent} /\ slash = FALSE
            /\ req' = [req EXCEPT ![r].pc = "file", ![r].ent = x]
  <2> DEFINE q == [req[r] EXCEPT !.pc = "file", !.ent = x]
  <2>1. /\ q \in Request /\ q.pc = "file" /\ q.ent = x /\ q.url = req[r].url
        /\ q.asked = req[r].asked
    BY <1>1, <1>6, <1>13 DEF Request
  <2>2. req' = [req EXCEPT ![r] = q]
    BY <1>13
  <2> HIDE DEF q
  <2>3. Found(q)
    BY <1>1, <1>2, <1>6, <1>8, <1>13, <2>1 DEF Found, slash
  <2>4. req'[r] = q /\ \A s \in Readers \ {r} : req'[s] = req[s]
    BY <2>2
  <2>5. QED
    BY <2>1, <2>2, <2>3, <2>4, RequestStep
<1>14. QED
  BY <1>7, <1>9, <1>10, <1>11, <1>12, <1>13

\* Request r was answered with what was recorded under its name and, if that is
\* there all the time, with just that.
Honest(r) ==
    Answered(r) =>
      LET u == req[r].url
          a == req'[r].ans
      IN  /\ a.kind = "tree" => a.val \in had[u.name]
          /\ a.kind = "file" => \E e \in had[u.name] : At[e][u.path] = a.val
          /\ PrefixFree /\ u.name # Tag /\ req[r].asked # Absent => a = Right(u, req[r].asked)

\* What a step of request r does to the requests.
Goes(r) ==
    /\ req' \in [Readers -> Request] /\ \A s \in Readers : Found(req[s])'
    /\ \A s \in Readers \ {r} : req'[s] = req[s]
    /\ Honest(r)

\* Request r is not answered yet and has found q.
LEMMA GoesOn ==
    ASSUME TypeOK, WebInv, UNCHANGED <<backups, had>>, NEW r \in Readers,
           NEW q \in Request, Found(q), q.pc # "idle", req' = [req EXCEPT ![r] = q]
    PROVE  Goes(r)
<1>1. req' \in [Readers -> Request] /\ \A s \in Readers : Found(req[s])'
  BY RequestStep DEF TypeOK, WebInv
<1>2. req'[r] = q /\ \A s \in Readers \ {r} : req'[s] = req[s]
  BY DEF TypeOK
<1>3. QED
  BY <1>1, <1>2 DEF Goes, Honest, Answered

\* Request r is answered without a tree or a file.
LEMMA GoesHome ==
    ASSUME TypeOK, WebInv, UNCHANGED <<backups, had>>, NEW r \in Readers,
           NEW kind \in {"redirect", "list", "notfound", "failure"},
           Answers(r, Says(kind, Absent)),
           PrefixFree /\ req[r].url.name # Tag /\ req[r].asked # Absent =>
              Says(kind, Absent) = Right(req[r].url, req[r].asked)
    PROVE  Goes(r)
<1> DEFINE a == Says(kind, Absent)
<1>1. a \in Answer /\ a.kind = kind
  BY DEF Says, Answer
<1>2. Answers(r, a)
  OBVIOUS
<1> HIDE DEF a
<1>3. /\ req' \in [Readers -> Request] /\ \A s \in Readers : Found(req[s])'
      /\ req'[r].ans = a /\ \A s \in Readers \ {r} : req'[s] = req[s]
  BY <1>1, <1>2, AnswerStep DEF TypeOK, WebInv
<1>4. QED
  BY <1>1, <1>3 DEF Goes, Honest, a

\* A node that is asked for and is there: it is no directory and not being
\* written, it is complete in the store, and was never another one.
LEMMA Asked ==
    ASSUME TypeOK, WebInv, NEW r \in Readers, req[r].pc # "idle",
           req[r].url.name # Tag, req[r].asked # Absent
    PROVE  LET n == req[r].url.name  e == req[r].asked IN
           /\ n \in Names /\ e = backups[n] /\ e \in Entries /\ had[n] = {e}
           /\ n \notin partial \cup {Dir} /\ e \in objects /\ Refs[e] \subseteq objects
<1> DEFINE n == req[r].url.name
           e == req[r].asked
<1>1. n \in Names /\ e = backups[n]
  BY DEF WebInv, Found
<1>2. e \in Entries /\ e \in had[n] /\ Disk!Closure(e) \subseteq objects
  BY <1>1 DEF TypeOK, WebInv, StoreInv
<1>3. had[n] = {e} /\ n \notin partial /\ n # Dir
  BY SMTT(30), <1>1, <1>2, WebCacheAssumption DEF WebInv, StoreInv
<1>4. e \in objects /\ Refs[e] \subseteq objects
  BY <1>2 DEF Disk!Closure
<1>5. QED
  BY <1>1, <1>2, <1>3, <1>4

LEMMA FindCachedNodeGoes ==
    ASSUME TypeOK, WebInv, NEW r \in Readers, NEW k \in Key, FindCachedNode(r, k)
    PROVE  Goes(r)
<1> DEFINE u == req[r].url
           q == [req[r] EXCEPT !.pc = "entry", !.ent = recentNodes[k].ent,
                               !.path = IF k[1] = u.name THEN u.path ELSE Elsewhere]
<1>1. /\ UNCHANGED <<backups, had>> /\ req[r].pc = "find" /\ k \in Held(recentNodes)
      /\ HasPrefix(u, k) /\ req[r] \in Request /\ u \in Url
  BY DEF FindCachedNode, TypeOK, Request, store
<1>2. recentNodes[k].ent \in Entries /\ recentNodes[k].ent \in had[k[1]] /\ k[1] \in Names
  BY <1>1 DEF TypeOK, Held, NodeCache, WebInv, CacheInv, Key
<1>3. CASE Bare(u) /\ k = KeyOf(u)
  <2>1. Answers(r, Says("redirect", Absent))
    BY <1>3 DEF FindCachedNode
  <2>2. Right(u, req[r].asked) = Says("redirect", Absent)
    BY <1>3 DEF Right
  <2>3. QED
    BY <1>1, <2>1, <2>2, GoesHome
<1>4. CASE ~(Bare(u) /\ k = KeyOf(u))
  <2>1. req' = [req EXCEPT ![r] = q]
    BY <1>4 DEF FindCachedNode
  <2>2. u.path \in Path \cup {Root}
    BY <1>1 DEF Url
  <2>3. /\ q \in Request /\ q.pc = "entry" /\ q.ent = recentNodes[k].ent /\ q.url = u
        /\ q.asked = req[r].asked
        /\ q.path = IF k[1] = u.name THEN u.path ELSE Elsewhere
    BY <1>1, <1>2, <2>2 DEF Request
  <2> HIDE DEF q
  <2>4. u.path # Elsewhere
    BY <2>2, WebCacheAssumption DEF Root, Elsewhere
  <2>5. k[1] = u.name => ~Bare(u)
    <3>1. k = <<k[1], k[2]>> /\ k[2] \in BOOLEAN
      BY DEF Key
    <3>2. Bare(u) => k[2] = FALSE
      BY <1>1, <3>1 DEF HasPrefix
    <3>3. Bare(u) => KeyOf(u) = <<u.name, FALSE>>
      BY DEF KeyOf
    <3>4. QED
      BY <1>4, <3>1, <3>2, <3>3
  <2>6. PrefixFree => k[1] = u.name
    BY <1>1, <1>2 DEF PrefixFree, HasPrefix
  <2>7. Found(req[r])
    BY DEF WebInv
  <2>8. Found(q)
    BY <1>1, <1>2, <2>3, <2>4, <2>5, <2>6, <2>7 DEF Found
  <2>9. QED
    BY <1>1, <2>1, <2>3, <2>8, GoesOn
<1>5. QED
  BY <1>3, <1>4

\* getNode and what follows from it.
LEMMA NodeGoes ==
    ASSUME TypeOK, WebInv, NEW r \in Readers,
           \/ NotCached(r) \/ GetNode(r) \/ BrowseNodes(r) \/ NoSuchNode(r)
    PROVE  Goes(r)
<1> DEFINE u == req[r].url
<1>0. /\ UNCHANGED <<backups, had>> /\ req[r] \in Request /\ u \in Url /\ Found(req[r])
      /\ req[r].pc \in {"find", "node"}
  BY DEF NotCached, GetNode, BrowseNodes, NoSuchNode, TypeOK, Request, WebInv, store
<1>1. CASE NotCached(r)
  <2> DEFINE q == [req[r] EXCEPT !.pc = "node"]
  <2>1. q \in Request /\ q.pc = "node" /\ q.url = u /\ q.asked = req[r].asked
    BY <1>0 DEF Request
  <2>2. req' = [req EXCEPT ![r] = q]
    BY <1>1 DEF NotCached
  <2> HIDE DEF q
  <2>3. Found(q)
    BY <1>0, <2>1 DEF Found
  <2>4. QED
    BY <1>0, <2>1, <2>2, <2>3, GoesOn
<1>2. CASE GetNode(r)
  <2> DEFINE e == backups[u.name]
             q == [req[r] EXCEPT !.pc = "entry", !.ent = e, !.path = u.path]
  <2>1. u.name \in Names /\ e \in Entries /\ e \in had[u.name] /\ u.path \in Path \cup {Root}
    <3>1. u.name \in Names /\ u.path \in Path \cup {Root} /\ e # Absent
      BY <1>0, <1>2 DEF GetNode, Url
    <3>2. e \in Entries
      BY <3>1 DEF TypeOK
    <3>3. e \in had[u.name]
      BY <3>1 DEF WebInv, StoreInv
    <3>4. QED
      BY <3>1, <3>2, <3>3
  <2>2. CASE Bare(u)
    <3>1. Answers(r, Says("redirect", Absent)) /\ Right(u, req[r].asked) = Says("redirect", Absent)
      BY <1>2, <2>2 DEF GetNode, Right
    <3>2. QED
      BY <1>0, <3>1, GoesHome
  <2>3. CASE ~Bare(u)
    <3>1. req' = [req EXCEPT ![r] = q]
      BY <1>2, <2>3 DEF GetNode
    <3>2. /\ q \in Request /\ q.pc = "entry" /\ q.url = u /\ q.ent = e /\ q.path = u.path
          /\ q.asked = req[r].asked
      BY <1>0, <2>1 DEF Request
    <3> HIDE DEF q
    <3>3. u.path # Elsewhere
      BY <2>1, WebCacheAssumption DEF Root, Elsewhere
    <3>4. Found(q)
      BY <1>0, <2>1, <2>3, <3>2, <3>3 DEF Found
    <3>5. QED
      BY <1>0, <3>1, <3>2, <3>4, GoesOn
  <2>4. QED
    BY <2>2, <2>3
<1>3. CASE BrowseNodes(r)
  <2>1. u.name \in partial \cup {Dir}
    BY <1>3 DEF BrowseNodes
  <2>2. ~(u.name # Tag /\ req[r].asked # Absent)
    BY <1>0, <2>1, Asked
  <2>3. Answers(r, Says("list", Absent)) \/ Answers(r, Says("redirect", Absent))
    BY <1>3 DEF BrowseNodes
  <2>4. QED
    BY <1>0, <2>2, <2>3, GoesHome
<1>4. CASE NoSuchNode(r)
  <2>1. backups[u.name] = Absent /\ Answers(r, Says("notfound", Absent))
    BY <1>4 DEF NoSuchNode
  <2>2. ~(u.name # Tag /\ req[r].asked # Absent)
    BY <1>0, <2>1, Asked
  <2>3. QED
    BY <1>0, <2>1, <2>2, GoesHome
<1>5. QED
  BY <1>1, <1>2, <1>3, <1>4

\* getEntry and the tree behind it.
LEMMA EntryGoes ==
    ASSUME TypeOK, WebInv, NEW r \in Readers,
           FindCachedEntry(r) \/ EntryNotCached(r) \/ LoadEntry(r) \/ Corruption(r)
    PROVE  Goes(r)
<1> DEFINE u == req[r].url
<1>0. /\ UNCHANGED <<backups, had>> /\ req[r] \in Request /\ u \in Url /\ Found(req[r])
      /\ req[r].pc \in {"entry", "load"}
  BY DEF FindCachedEntry, EntryNotCached, LoadEntry, Corruption, TypeOK, Request, WebInv, store
<1>1. CASE EntryNotCached(r)
  <2> DEFINE q == [req[r] EXCEPT !.pc = "load"]
  <2>1. /\ q \in Request /\ q.pc = "load" /\ q.url = u /\ q.asked = req[r].asked
        /\ q.ent = req[r].ent /\ q.path = req[r].path
    BY <1>0 DEF Request
  <2>2. req' = [req EXCEPT ![r] = q]
    BY <1>1 DEF EntryNotCached
  <2> HIDE DEF q
  <2>3. Found(q)
    BY <1>0, <2>1 DEF Found
  <2>4. QED
    BY <1>0, <2>1, <2>2, <2>3, GoesOn
<1>2. ASSUME PrefixFree, u.name # Tag, req[r].asked # Absent
      PROVE  req[r].ent = req[r].asked /\ req[r].ent \in objects /\ req[r].path # Elsewhere
  BY <1>0, <1>2, Asked DEF Found
<1>3. CASE Corruption(r)
  BY <1>0, <1>2, <1>3, GoesHome DEF Corruption
<1>4. CASE FindCachedEntry(r) \/ LoadEntry(r)
  <2>1. ServeTree(r, req[r].ent)
    BY <1>4 DEF FindCachedEntry, LoadEntry
  <2>2. /\ req' \in [Readers -> Request] /\ \A s \in Readers : Found(req[s])'
        /\ \A s \in Readers \ {r} : req'[s] = req[s]
        /\ req'[r].pc = "idle" =>
             /\ req'[r].ans.kind # "file"
             /\ req'[r].ans.kind = "tree" =>
                  req[r].path # Elsewhere /\ req'[r].ans.val = req[r].ent
             /\ req[r].path # Elsewhere => req'[r].ans = Right(u, req[r].ent)
    BY <1>0, <2>1, ServeTreeStep DEF TypeOK, WebInv
  <2>3. req[r].path # Elsewhere => req[r].ent \in had[u.name]
    BY <1>0 DEF Found
  <2>4. Honest(r)
    BY <1>2, <2>2, <2>3 DEF Honest, Answered
  <2>5. QED
    BY <2>2, <2>4 DEF Goes
<1>5. QED
  BY <1>1, <1>3, <1>4

LEMMA ServeFileGoes ==
    ASSUME TypeOK, WebInv, NEW r \in Readers, ServeFile(r)
    PROVE  Goes(r)
<1> DEFINE u == req[r].url
           h == req[r].ent
<1>0. /\ UNCHANGED <<backups, had>> /\ req[r].pc = "file" /\ Found(req[r])
      /\ had \in [Names -> SUBSET Entries] /\ req \in [Readers -> Request]
  BY DEF ServeFile, TypeOK, WebInv, store
<1>1. /\ u.name \in Names /\ u.path \in Path /\ u.slash = FALSE /\ h \in Data
      /\ u.path # Root
  BY <1>0, WebCacheAssumption DEF Found
<1>2. PICK e \in had[u.name] : At[e][u.path] = h
  BY <1>0 DEF Found
<1>3. e \in Entries /\ h # Absent /\ h # "dir"
  BY <1>0, <1>1, WebCacheAssumption
<1>4. ASSUME u.name # Tag, req[r].asked # Absent
      PROVE  h \in objects /\ Right(u, req[r].asked) = Says("file", h)
  <2>1. req[r].asked = e /\ Refs[e] \subseteq objects
    BY <1>0, <1>2, <1>4, Asked
  <2>2. h \in Refs[e]
    BY <1>1, <1>2, <1>3, WebCacheAssumption
  <2>3. ~Bare(u)
    BY <1>1 DEF Bare
  <2>4. ~((h = "dir") # u.slash)
    BY <1>1, <1>3
  <2>5. QED
    BY <1>1, <1>2, <1>3, <2>1, <2>2, <2>3, <2>4 DEF Right
<1>5. CASE h \in objects
  <2> DEFINE a == Says("file", h)
  <2>1. a \in Answer /\ a.kind = "file" /\ a.val = h
    BY <1>1 DEF Says, Answer
  <2>2. Answers(r, a)
    BY <1>5 DEF ServeFile
  <2> HIDE DEF a
  <2>3. /\ req' \in [Readers -> Request] /\ \A s \in Readers : Found(req[s])'
        /\ req'[r].ans = a /\ \A s \in Readers \ {r} : req'[s] = req[s]
    BY <1>0, <2>1, <2>2, AnswerStep DEF WebInv
  <2>4. Honest(r)
    BY <1>2, <1>4, <2>1, <2>3 DEF Honest, a
  <2>5. QED
    BY <2>3, <2>4 DEF Goes
<1>6. CASE h \notin objects
  BY <1>0, <1>4, <1>6, GoesHome DEF ServeFile
<1>7. QED
  BY <1>5, <1>6

LEMMA ServeGoes ==
    ASSUME TypeOK, WebInv, NEW r \in Readers, Serve(r)
    PROVE  Goes(r)
<1>1. ASSUME NEW u \in Urls, Get(r, u) PROVE Goes(r)
  <2> DEFINE e == IF u.name = Dir THEN Absent ELSE backups[u.name]
             q == [req[r] EXCEPT !.pc = "find", !.url = u, !.ans = Says("none", Absent), !.asked = e]
  <2>1. /\ u \in Url /\ UNCHANGED <<backups, had>> /\ req' = [req EXCEPT ![r] = q]
        /\ req[r] \in Request
    BY <1>1, WebCacheAssumption DEF Get, store, TypeOK
  <2>2. e \in Entries \cup {Absent} /\ (e # Absent => u.name \in Names /\ e = backups[u.name])
    BY <2>1 DEF Url, TypeOK
  <2>3. Says("none", Absent) \in Answer
    BY DEF Says, Answer
  <2> HIDE DEF e
  <2>4. q \in Request /\ q.pc = "find" /\ q.url = u /\ q.asked = e
    BY <2>1, <2>2, <2>3 DEF Request
  <2> HIDE DEF q
  <2>5. Found(q)
    BY <2>2, <2>4 DEF Found
  <2>6. QED
    BY <2>1, <2>4, <2>5, GoesOn
<1>2. QED
  BY <1>1, FindCachedNodeGoes, NodeGoes, EntryGoes, ServeFileGoes DEF Serve

-----------------------------------------------------------------------------
(* The state of the caches *)

CacheState ==
    /\ recentNodes \in [Key -> NodeCache \cup {Absent}]
    /\ recentEntries \in [Entries -> EntryCache \cup {Absent}]
    /\ Cardinality(Held(recentNodes)) <= MaxItems
    /\ Cardinality(Held(recentEntries)) <= MaxItems
    /\ updates \in SUBSET Update /\ clock \in Nat
    /\ FiniteInv /\ CacheInv

LEMMA ServeKeepsCaches ==
    ASSUME TypeOK, WebInv, NEW r \in Readers, Serve(r)
    PROVE  CacheState'
<1>0. CacheState
  BY DEF TypeOK, WebInv, CacheState
<1>1. CASE UNCHANGED <<recentNodes, recentEntries, updates, clock, had>>
  BY <1>0, <1>1 DEF CacheState, FiniteInv, CacheInv
<1>2. ASSUME NEW k \in Key, FindCachedNode(r, k) PROVE CacheState'
  <2>1. PICK t \in Now : clock' = t /\ recentNodes' = [recentNodes EXCEPT ![k].last = t]
    BY <1>2 DEF FindCachedNode
  <2>2. /\ recentNodes[k] \in NodeCache /\ recentNodes[k] # Absent /\ clock' \in Nat
        /\ UNCHANGED <<recentEntries, updates, had>>
    BY <1>0, <1>2, <2>1 DEF FindCachedNode, CacheState, Held, Now, store
  <2> DEFINE i == [recentNodes[k] EXCEPT !.last = t]
  <2>3. i \in NodeCache /\ i.ent = recentNodes[k].ent
    BY <2>1, <2>2 DEF NodeCache
  <2>4. recentNodes' = [recentNodes EXCEPT ![k] = i]
    BY <2>1
  <2> HIDE DEF i
  <2>5. /\ recentNodes' \in [Key -> NodeCache \cup {Absent}]
        /\ Held(recentNodes') = Held(recentNodes)
        /\ \A x \in Key : recentNodes'[x] = IF x = k THEN i ELSE recentNodes[x]
    <3>1. recentNodes \in [Key -> NodeCache \cup {Absent}] /\ Absent \notin NodeCache
      BY <1>0, WebCacheAssumption DEF CacheState
    <3>2. QED
      BY <2>2, <2>3, <2>4, <3>1 DEF Held
  <2>6. \A x \in Held(recentNodes') : x \in Key /\ recentNodes'[x].ent = recentNodes[x].ent
    BY <2>3, <2>5 DEF Held
  <2>7. QED
    BY <1>0, <2>2, <2>5, <2>6 DEF CacheState, FiniteInv, CacheInv
<1>3. CASE GetNode(r)
  <2> DEFINE u == req[r].url
             e == backups[u.name]
  <2>1. PICK t \in Now : /\ clock' = t
                         /\ updates' = updates \cup {[cache |-> "node", key |-> KeyOf(u),
                                                      ent |-> e, last |-> t]}
    BY <1>3 DEF GetNode
  <2>2. u \in Url /\ u.name \in Names /\ e \in Entries /\ e \in had[u.name]
    BY <1>3 DEF GetNode, TypeOK, Request, Url, WebInv, StoreInv
  <2>3. KeyOf(u) \in Key /\ KeyOf(u)[1] = u.name /\ t \in Nat
    <3>1. (~Bare(u)) \in BOOLEAN
      BY DEF Bare
    <3>2. KeyOf(u) \in Key /\ KeyOf(u)[1] = u.name
      BY <2>2, <3>1 DEF KeyOf, Key
    <3>3. t \in Nat
      BY <1>0 DEF CacheState, Now
    <3>4. QED
      BY <3>2, <3>3
  <2>4. UNCHANGED <<recentNodes, recentEntries, had>>
    BY <1>3 DEF GetNode, store
  <2> DEFINE new == [cache |-> "node", key |-> KeyOf(u), ent |-> e, last |-> t]
  <2>5. new \in Update /\ new.ent = e /\ new.key[1] = u.name
    BY <2>2, <2>3 DEF Update
  <2> HIDE DEF new
  <2>6. updates' = updates \cup {new}
    BY <2>1 DEF new
  <2>7. \A v \in updates' : v.cache = "node" => v.ent \in had[v.key[1]]
    BY <1>0, <2>2, <2>5, <2>6 DEF CacheState, CacheInv
  <2>8. QED
    BY <1>0, <2>1, <2>3, <2>4, <2>5, <2>6, <2>7 DEF CacheState, FiniteInv, CacheInv
<1>4. CASE FindCachedEntry(r)
  <2> DEFINE e == req[r].ent
  <2>1. PICK t \in Now : /\ clock' = t
                         /\ recentEntries' = [recentEntries EXCEPT ![e] = [last |-> t, used |-> t]]
    BY <1>4 DEF FindCachedEntry
  <2>2. e \in Entries /\ recentEntries[e] # Absent /\ t \in Nat
    <3>1. req[r].pc = "entry" /\ recentEntries[e] # Absent
      BY <1>4 DEF FindCachedEntry
    <3>2. Found(req[r])
      BY DEF WebInv
    <3>3. e \in Entries
      BY <3>1, <3>2 DEF Found
    <3>4. t \in Nat
      BY <1>0 DEF CacheState, Now
    <3>5. QED
      BY <3>1, <3>3, <3>4
  <2>3. [last |-> t, used |-> t] \in EntryCache
    BY <2>2 DEF EntryCache
  <2>4. UNCHANGED <<recentNodes, updates, had>>
    BY <1>4 DEF FindCachedEntry, store
  <2>5. /\ recentEntries' \in [Entries -> EntryCache \cup {Absent}]
        /\ Held(recentEntries') = Held(recentEntries)
    <3> DEFINE i == [last |-> t, used |-> t]
    <3>1. recentEntries \in [Entries -> EntryCache \cup {Absent}] /\ Absent \notin EntryCache
      BY <1>0, WebCacheAssumption DEF CacheState
    <3>2. i \in EntryCache /\ recentEntries' = [recentEntries EXCEPT ![e] = i]
      BY <2>1, <2>3
    <3> HIDE DEF i
    <3>3. QED
      BY <2>2, <3>1, <3>2 DEF Held
  <2>6. QED
    BY <1>0, <2>1, <2>2, <2>4, <2>5 DEF CacheState, FiniteInv, CacheInv
<1>5. CASE LoadEntry(r)
  <2> DEFINE e == req[r].ent
  <2>1. PICK t \in Now : /\ clock' = t
                         /\ updates' = updates \cup {[cache |-> "entry", key |-> e,
                                                      last |-> 0, used |-> t]}
    BY <1>5 DEF LoadEntry
  <2>2. e \in Entries /\ t \in Nat
    <3>1. req[r].pc = "load"
      BY <1>5 DEF LoadEntry
    <3>2. Found(req[r])
      BY DEF WebInv
    <3>3. e \in Entries
      BY <3>1, <3>2 DEF Found
    <3>4. t \in Nat
      BY <1>0 DEF CacheState, Now
    <3>5. QED
      BY <3>3, <3>4
  <2>3. UNCHANGED <<recentNodes, recentEntries, had>>
    BY <1>5 DEF LoadEntry, store
  <2> DEFINE new == [cache |-> "entry", key |-> e, last |-> 0, used |-> t]
  <2>4. new \in Update /\ new.cache # "node"
    BY <2>2 DEF Update
  <2> HIDE DEF new
  <2>5. updates' = updates \cup {new}
    BY <2>1 DEF new
  <2>6. QED
    BY <1>0, <2>1, <2>2, <2>3, <2>4, <2>5 DEF CacheState, FiniteInv, CacheInv
<1>6. QED
  BY <1>1, <1>2, <1>3, <1>4, <1>5 DEF Serve, Get, NotCached, BrowseNodes, NoSuchNode,
     EntryNotCached, Corruption, ServeFile, store

LEMMA UpdateKeepsCaches ==
    ASSUME TypeOK, WebInv, NEW u \in updates, UpdateNodeCache(u) \/ UpdateEntryCache(u)
    PROVE  CacheState'
<1>0. CacheState /\ u \in Update
  BY DEF TypeOK, WebInv, CacheState
<1>1. CASE UpdateNodeCache(u)
  <2> DEFINE i == [ent |-> u.ent, last |-> u.last]
  <2>1. /\ u.cache = "node" /\ recentNodes' \in Insert(recentNodes, u.key, i)
        /\ updates' = updates \ {u} /\ UNCHANGED <<recentEntries, clock, had>>
    BY <1>1 DEF UpdateNodeCache, store
  <2>2. u.key \in Key /\ i \in NodeCache /\ i.ent = u.ent /\ u.ent \in had[u.key[1]]
    BY <1>0, <2>1 DEF Update, NodeCache, CacheState, CacheInv
  <2> HIDE DEF i
  <2>3. /\ recentNodes \in [Key -> NodeCache \cup {Absent}] /\ Absent \notin NodeCache
        /\ IsFiniteSet(Held(recentNodes)) /\ Cardinality(Held(recentNodes)) <= MaxItems
    BY <1>0, WebCacheAssumption DEF CacheState, FiniteInv
  <2>4. /\ recentNodes' \in [Key -> NodeCache \cup {Absent}]
        /\ IsFiniteSet(Held(recentNodes')) /\ Cardinality(Held(recentNodes')) <= MaxItems
        /\ \A x \in Held(recentNodes') :
              /\ x = u.key => recentNodes'[x] = i
              /\ x # u.key => x \in Held(recentNodes) /\ recentNodes'[x] = recentNodes[x]
    BY SMTT(30), <2>1, <2>2, <2>3, InsertEffect
  <2>5. \A x \in Held(recentNodes') : recentNodes'[x].ent \in had[x[1]]
    BY <1>0, <2>2, <2>4 DEF CacheState, CacheInv
  <2>6. QED
    BY <1>0, <2>1, <2>4, <2>5 DEF CacheState, FiniteInv, CacheInv
<1>2. CASE UpdateEntryCache(u)
  <2> DEFINE i == [last |-> u.last, used |-> LET old == recentEntries[u.key] IN
                     IF old # Absent /\ old.used > u.used THEN old.used ELSE u.used]
  <2>1. /\ u.cache = "entry" /\ recentEntries' \in Insert(recentEntries, u.key, i)
        /\ updates' = updates \ {u} /\ UNCHANGED <<recentNodes, clock, had>>
    BY <1>2 DEF UpdateEntryCache, store
  <2>2. u.key \in Entries /\ i \in EntryCache
    BY <1>0, <2>1 DEF Update, EntryCache, CacheState
  <2> HIDE DEF i
  <2>3. /\ recentEntries \in [Entries -> EntryCache \cup {Absent}] /\ Absent \notin EntryCache
        /\ IsFiniteSet(Held(recentEntries)) /\ Cardinality(Held(recentEntries)) <= MaxItems
    BY <1>0, WebCacheAssumption DEF CacheState, FiniteInv
  <2>4. /\ recentEntries' \in [Entries -> EntryCache \cup {Absent}]
        /\ IsFiniteSet(Held(recentEntries')) /\ Cardinality(Held(recentEntries')) <= MaxItems
    <3>1. PICK j \in EntryCache : recentEntries' \in Insert(recentEntries, u.key, j)
      BY <2>1, <2>2
    <3>2. u.key \in Entries
      BY <2>2
    <3>3. QED
      BY <2>3, <3>1, <3>2, InsertEffect
  <2>5. QED
    BY <1>0, <2>1, <2>4 DEF CacheState, FiniteInv, CacheInv
<1>3. QED
  BY <1>1, <1>2

-----------------------------------------------------------------------------
(* The store changes *)

\* Requests under way for n no longer count on what they found.
LEMMA DisturbStep ==
    ASSUME TypeOK, WebInv, NEW n \in Names, Disturb(n),
           \A m \in Names : had[m] \subseteq had'[m],
           \A m \in Names \ {n} : backups'[m] = backups[m]
    PROVE  /\ req' \in [Readers -> Request] /\ \A r \in Readers : Found(req[r])'
           /\ \A r \in Readers : req'[r].pc = req[r].pc
<1> SUFFICES ASSUME NEW r \in Readers
             PROVE  req'[r] \in Request /\ Found(req[r])' /\ req'[r].pc = req[r].pc
  BY DEF Disturb
<1>1. req[r] \in Request /\ Found(req[r])
  BY DEF TypeOK, WebInv
<1>2. req'[r] = IF req[r].url.name = n THEN [req[r] EXCEPT !.asked = Absent] ELSE req[r]
  BY DEF Disturb
<1> DEFINE q == req'[r]
<1>3. /\ q \in Request /\ q.pc = req[r].pc /\ q.url = req[r].url /\ q.ent = req[r].ent
      /\ q.path = req[r].path
      /\ q.asked # Absent => q.asked = req[r].asked /\ q.url.name # n
  BY <1>1, <1>2 DEF Request
<1>4. Found(req[r])'
  BY <1>1, <1>3 DEF Found, PrefixFree
<1>5. QED
  BY <1>3, <1>4

LEMMA StoreStep ==
    ASSUME TypeOK, WebInv, ChangeStore
    PROVE  /\ (TypeOK /\ WebInv)' /\ \A r \in Readers : req'[r].pc = req[r].pc
<1>0. CacheState /\ StoreInv
  BY DEF TypeOK, WebInv, CacheState
<1>1. ASSUME UNCHANGED cached, \A m \in Names : had[m] \subseteq had'[m]
      PROVE  CacheState'
  <2>1. \A k \in Held(recentNodes) : k[1] \in Names
    BY <1>0 DEF CacheState, Held, Key
  <2>2. \A u \in updates : u.cache = "node" => u.key[1] \in Names
    BY <1>0 DEF CacheState, Update, Key
  <2>3. QED
    BY <1>0, <1>1, <2>1, <2>2 DEF cached, CacheState, FiniteInv, CacheInv
<1>2. ASSUME NEW h \in Data \cup Entries, StoreObject(h) \/ CollectObject(h)
      PROVE  (TypeOK /\ WebInv)' /\ UNCHANGED req
  <2>1. /\ UNCHANGED <<partial, had, req, cached, backups>>
        /\ objects' \in SUBSET (Data \cup Entries)
    BY <1>2 DEF StoreObject, CollectObject, Disk!Put, Disk!Collect, TypeOK
  <2>2. \A n \in Names : backups[n] # Absent => Disk!Closure(backups[n]) \subseteq objects'
    <3>1. CASE StoreObject(h)
      BY <1>0, <3>1 DEF StoreInv, StoreObject, Disk!Put
    <3>2. CASE CollectObject(h)
      BY <1>0, <3>2 DEF StoreInv, CollectObject, Disk!Collect, Disk!Needed
    <3>3. QED
      BY <1>2, <3>1, <3>2
  <2>3. StoreInv'
    BY <1>0, <2>1, <2>2 DEF StoreInv, Disk!Closure
  <2>4. CacheState'
    BY <1>1, <2>1
  <2>5. \A r \in Readers : Found(req[r])'
    BY <2>1 DEF WebInv, Found, PrefixFree
  <2>6. QED
    BY <2>1, <2>3, <2>4, <2>5 DEF TypeOK, WebInv, CacheState
<1>3. ASSUME NEW n \in Names, CreateNode(n)
      PROVE  (TypeOK /\ WebInv)' /\ UNCHANGED req
  <2>1. /\ UNCHANGED <<objects, backups, had, req, cached>> /\ partial' = {n}
        /\ n # Tag => had[n] = {}
    BY <1>3 DEF CreateNode
  <2>2. StoreInv'
    BY <1>0, <2>1 DEF StoreInv, Disk!Closure
  <2>3. CacheState'
    BY <1>1, <2>1
  <2>4. \A r \in Readers : Found(req[r])'
    BY <2>1 DEF WebInv, Found, PrefixFree
  <2>5. QED
    BY <2>1, <2>2, <2>3, <2>4 DEF TypeOK, WebInv, CacheState
<1>4. ASSUME NEW n \in Names, NEW e \in Entries, WriteNode(n, e)
      PROVE  (TypeOK /\ WebInv)' /\ \A r \in Readers : req'[r].pc = req[r].pc
  <2>1. /\ n \in partial /\ Disk!Closure(e) \subseteq objects /\ UNCHANGED <<objects, cached>>
        /\ backups' = [backups EXCEPT ![n] = e] /\ partial' = partial \ {n}
        /\ had' = [had EXCEPT ![n] = had[n] \cup {e}] /\ Disturb(n)
    BY <1>4 DEF WriteNode, Disk!Record
  <2>2. /\ backups' \in [Names -> Entries \cup {Absent}] /\ had' \in [Names -> SUBSET Entries]
        /\ \A m \in Names : backups'[m] = IF m = n THEN e ELSE backups[m]
        /\ \A m \in Names : had'[m] = IF m = n THEN had[n] \cup {e} ELSE had[m]
    BY <2>1 DEF TypeOK
  <2>3. StoreInv'
    <3>1. \A m \in Names : backups'[m] # Absent =>
             backups'[m] \in had'[m] /\ Disk!Closure(backups'[m]) \subseteq objects'
      BY <1>0, <2>1, <2>2 DEF StoreInv
    <3>2. \A m \in Names \ {Tag} : /\ \A c, d \in had'[m] : c = d
                                   /\ m \in partial' => had'[m] = {}
      BY <1>0, <2>1, <2>2 DEF StoreInv
    <3>3. QED
      BY <3>1, <3>2 DEF StoreInv, Disk!Closure
  <2>4. CacheState'
    BY <1>1, <2>1, <2>2
  <2>5. /\ req' \in [Readers -> Request] /\ \A r \in Readers : Found(req[r])'
        /\ \A r \in Readers : req'[r].pc = req[r].pc
    BY <2>1, <2>2, DisturbStep
  <2>6. QED
    BY <2>1, <2>2, <2>3, <2>4, <2>5 DEF TypeOK, WebInv, CacheState
<1>5. ASSUME NEW n \in Names, DeleteNode(n)
      PROVE  (TypeOK /\ WebInv)' /\ \A r \in Readers : req'[r].pc = req[r].pc
  <2>1. /\ UNCHANGED <<objects, partial, had, cached>> /\ Disturb(n)
        /\ backups' = [backups EXCEPT ![n] = Absent]
    BY <1>5 DEF DeleteNode, Disk!Forget
  <2>2. /\ backups' \in [Names -> Entries \cup {Absent}]
        /\ \A m \in Names : backups'[m] = IF m = n THEN Absent ELSE backups[m]
    BY <2>1 DEF TypeOK
  <2>3. StoreInv'
    BY <1>0, <2>1, <2>2 DEF StoreInv, Disk!Closure
  <2>4. CacheState'
    BY <1>1, <2>1
  <2>5. /\ req' \in [Readers -> Request] /\ \A r \in Readers : Found(req[r])'
        /\ \A r \in Readers : req'[r].pc = req[r].pc
    BY <2>1, <2>2, DisturbStep
  <2>6. QED
    BY <2>1, <2>2, <2>3, <2>4, <2>5 DEF TypeOK, WebInv, CacheState
<1>6. QED
  BY <1>2, <1>3, <1>4, <1>5 DEF ChangeStore

-----------------------------------------------------------------------------
(* Theorems *)

LEMMA InitInv == Init => TypeOK /\ WebInv
<1> SUFFICES ASSUME Init PROVE TypeOK /\ WebInv
  OBVIOUS
<1>1. /\ objects = {} /\ backups = [n \in Names |-> Absent] /\ partial = {} /\ updates = {}
      /\ recentNodes = [k \in Key |-> Absent] /\ recentEntries = [e \in Entries |-> Absent]
      /\ req = [r \in Readers |-> Idle] /\ clock = 1 /\ had = [n \in Names |-> {}]
  BY DEF Init, Disk!Init
<1>2. Held(recentNodes) = {} /\ Held(recentEntries) = {}
  BY <1>1 DEF Held
<1>3. /\ FiniteInv /\ Cardinality(Held(recentNodes)) <= MaxItems
      /\ Cardinality(Held(recentEntries)) <= MaxItems
  BY <1>2, FS_EmptySet, WebCacheAssumption DEF FiniteInv
<1>4. StoreInv /\ CacheInv
  BY <1>1, <1>2 DEF StoreInv, CacheInv
<1>5. req \in [Readers -> Request] /\ \A r \in Readers : Found(req[r])
  BY <1>1, IdleType DEF Found
<1>6. QED
  BY <1>1, <1>3, <1>4, <1>5 DEF TypeOK, WebInv

\* While the store stays as it is, so does what is known of it.
LEMMA StoreStays ==
    ASSUME WebInv, UNCHANGED store
    PROVE  StoreInv'
BY DEF store, WebInv, StoreInv, Disk!Closure

\* Neither do the requests lose what they have found.
LEMMA FoundStays ==
    ASSUME WebInv, UNCHANGED <<backups, had, req>>
    PROVE  \A r \in Readers : Found(req[r])'
<1> SUFFICES ASSUME NEW r \in Readers PROVE Found(req[r])'
  OBVIOUS
<1>1. Found(req[r]) /\ req'[r] = req[r]
  BY DEF WebInv
<1>2. QED
  BY <1>1 DEF Found

\* Every step keeps the invariant and answers no request wrongly.
LEMMA NextInv ==
    ASSUME TypeOK, WebInv, [Next]_vars
    PROVE  (TypeOK /\ WebInv)' /\ \A r \in Readers : Honest(r)
<1>1. ASSUME NEW r \in Readers, Serve(r)
      PROVE  (TypeOK /\ WebInv)' /\ \A s \in Readers : Honest(s)
  <2>1. Goes(r) /\ CacheState' /\ UNCHANGED store
    BY <1>1, ServeGoes, ServeKeepsCaches DEF Serve, Get, FindCachedNode, NotCached, GetNode,
       BrowseNodes, NoSuchNode, FindCachedEntry, EntryNotCached, LoadEntry, Corruption, ServeFile
  <2>2. StoreInv'
    BY <2>1, StoreStays
  <2>3. (TypeOK /\ WebInv)'
    BY <2>1, <2>2 DEF TypeOK, WebInv, CacheState, Goes, store
  <2>4. QED
    BY <2>1, <2>3 DEF Goes, Honest, Answered
<1>2. ASSUME NEW u \in updates, UpdateNodeCache(u) \/ UpdateEntryCache(u)
      PROVE  (TypeOK /\ WebInv)' /\ \A s \in Readers : Honest(s)
  <2>1. CacheState' /\ UNCHANGED <<store, req>>
    BY <1>2, UpdateKeepsCaches DEF UpdateNodeCache, UpdateEntryCache
  <2>2. StoreInv' /\ \A r \in Readers : Found(req[r])'
    BY <2>1, StoreStays, FoundStays DEF store
  <2>3. QED
    BY <2>1, <2>2 DEF TypeOK, WebInv, CacheState, store, Honest, Answered
<1>3. CASE ChangeStore
  BY <1>3, StoreStep DEF Honest, Answered
<1>4. CASE UNCHANGED vars
  <2>1. UNCHANGED <<store, recentNodes, recentEntries, updates, req, clock>>
    BY <1>4 DEF vars
  <2>2. StoreInv' /\ \A r \in Readers : Found(req[r])'
    BY <2>1, StoreStays, FoundStays DEF store
  <2>3. QED
    BY <2>1, <2>2 DEF TypeOK, WebInv, FiniteInv, CacheInv, store, Honest, Answered
<1>5. QED
  BY <1>1, <1>2, <1>3, <1>4 DEF Next

LEMMA Inductive == Spec => [](TypeOK /\ WebInv)
<1>1. TypeOK /\ WebInv /\ [Next]_vars => (TypeOK /\ WebInv)'
  BY NextInv
<1>2. QED
  BY <1>1, InitInv, PTL DEF Spec

\* The caches of nodesTable never hold more than maxItems nodes and maxItems
\* trees, and all of its state keeps its type, whatever requests and late updates
\* run at the same time.
THEOREM CachesAreBounded == Spec => []TypeOK
BY Inductive, PTL

\* nodesTable.ServeHTTP serves under a name only what was recorded under that
\* name, also when names are beginnings of other names.
THEOREM NothingElseIsServed == Spec => ServesWhatWasThere
<1>1. TypeOK /\ WebInv /\ [Next]_vars =>
        [\A r \in Readers : Answered(r) =>
           LET u == req[r].url
               a == req'[r].ans
           IN  /\ a.kind = "tree" => a.val \in had[u.name]
               /\ a.kind = "file" => \E e \in had[u.name] : At[e][u.path] = a.val]_vars
  BY NextInv DEF Honest
<1>2. QED
  BY <1>1, Inductive, PTL DEF Spec, ServesWhatWasThere

\* A node other than the tag that is there from the request to the answer is
\* answered by nodesTable.ServeHTTP with what it has at that path, for any number
\* of requests, if no name is the beginning of another one.
THEOREM NodesAreServed == PrefixFree => (Spec => ServesTheNode)
<1> SUFFICES ASSUME PrefixFree PROVE Spec => ServesTheNode
  OBVIOUS
<1>1. TypeOK /\ WebInv /\ [Next]_vars =>
        [\A r \in Readers :
           Answered(r) /\ req[r].url.name # Tag /\ req[r].asked # Absent
             => req'[r].ans = Right(req[r].url, req[r].asked)]_vars
  BY NextInv DEF Honest
<1>2. QED
  BY <1>1, Inductive, PTL DEF Spec, ServesTheNode
=============================================================================
