------------------------------ MODULE Archive ------------------------------
(***************************************************************************)
(* The `archive' command (archive.go): main starts three goroutines that   *)
(* form a pipeline                                                         *)
(*                                                                         *)
(*    enumerateInputs --inputs--> hashInputs --items--> archiveInputs      *)
(*                                                          |entry         *)
(*                                                          v              *)
(*    all three --output (unbuffered), done (capacity 3)--> main           *)
(*                                                                         *)
(* `inputs' and `items' are bounded, `entry' and `output' are unbuffered:  *)
(* a send on them is one step of the sender and of main together.  A       *)
(* directory is walked by one more goroutine (EnumerateTree).  The user    *)
(* may interrupt at any time; once set, the interrupt stays set and every  *)
(* receive on interrupt.Channel succeeds.  When several cases of a select  *)
(* are ready Go takes any of them: each case is an action of its own.      *)
(*                                                                         *)
(* Files are model values; the content read, hashed and stored for a file  *)
(* is identified with the file.  CAS and nodes tables: see module Store.   *)
(***************************************************************************)
EXTENDS Naturals, Sequences, FiniteSets, Functions

CONSTANTS
    File, NoFile,       \* what the inputs hold, and "no file"
    RelPath,            \* paths inside the archived tree
    N,                  \* number of inputs; the last one is .toArchive itself
    Kind,               \* Kind[i]: is input i a file or a directory
    Tree,               \* Tree[i]: the files input i stands for
    Rel,                \* Rel[f]: path of f relative to its input
    InputsCap,          \* capacity of inputs, 128000 in the code
    ItemsCap,           \* capacity of items, 4096 in the code
    Interruptible,      \* may the user press Ctrl-C
    Failures            \* the operations that may fail

ASSUME InputsAssumption ==
    /\ N \in Nat \ {0}
    /\ Kind \in [1..N -> {"file", "dir"}]
    /\ Tree \in [1..N -> SUBSET File]
    /\ Rel \in [File -> RelPath]
    /\ NoFile \notin File /\ IsFiniteSet(File)

ASSUME CapacityAssumption ==
    /\ InputsCap \in Nat \ {0}
    /\ ItemsCap \in Nat \ {0}

ASSUME EnvironmentAssumption ==
    /\ Interruptible \in BOOLEAN
    /\ Failures \subseteq {"stat", "walk", "cache", "hash", "item", "entry", "node"}

\* A single file input is one file; no file is reached through two inputs; the
\* relative path is what the full path has after the input, so the files of one
\* input differ in it.
ASSUME TreeAssumption ==
    /\ \A i \in 1..N : Kind[i] = "file" => \E f \in File : Tree[i] = {f}
    /\ \A i, j \in 1..N : i # j => Tree[i] \cap Tree[j] = {}
    /\ \A i \in 1..N : \A f, g \in Tree[i] : Rel[f] = Rel[g] => f = g

VARIABLES
    pc,             \* where each goroutine is
    intr,           \* interrupt.IsSet()
    idx,            \* the input enumerateInputs is at
    todo,           \* files EnumerateTree has still to send
    hand,           \* the item a goroutine is about to send
    inputs, items,  \* the buffered channels
    closed,         \* the channels that were closed
    dones,          \* signals sent on done
    errors, interrupted,    \* the counters of stats main reads
    found, failed, stored,  \* files counted, unreadable when hashed, in the CAS
    tree,           \* entryRoot: the file recorded at each relative path
    nodes,          \* the trees nodes.AddEntry recorded
    err,            \* main's err
    saved,          \* cache.Close() was called
    status          \* what main returned

data == <<found, failed, stored, tree>>
chans == <<inputs, items, closed, dones>>
result == <<nodes, err, saved, status>>
vars == <<pc, intr, idx, todo, hand, chans, errors, interrupted, data, result>>

Proc == {"walk", "enum", "hash", "arch", "main"}
NoTree == [r \in RelPath |-> NoFile]

\* A send on output: the label before it, and the label after it.
AfterOut == [missing |-> "next", walkerr |-> "walk", enumerated |-> "close",
             nocache |-> "select", hasherr |-> "select", hashed |-> "close",
             itemerr |-> "select", entryerr |-> "close"]

Labels ==
    [walk |-> {"idle", "scan", "offer", "fail", "end"},
     enum |-> {"next", "walk", "put", "missing", "walkerr", "enumerated",
               "close", "signal", "exit"},
     hash |-> {"load", "select", "put", "nocache", "hasherr", "hashed",
               "close", "save", "signal", "exit"},
     arch |-> {"select", "send", "itemerr", "entryerr", "close", "signal", "exit"},
     main |-> {"loop", "wait", "returned"}]

\* Every goroutine is at one of its steps, no channel holds more than its
\* capacity, and the tree lists files under their relative paths.
TypeOK ==
    /\ pc \in [Proc -> UNION {Labels[p] : p \in Proc}]
    /\ \A p \in Proc : pc[p] \in Labels[p]
    /\ intr \in BOOLEAN
    /\ idx \in 1..N + 1
    /\ todo \in SUBSET File
    /\ hand \in [{"walk", "enum", "hash"} -> File \cup {NoFile}]
    /\ inputs \in Seq(File) /\ Len(inputs) <= InputsCap
    /\ items \in Seq(File) /\ Len(items) <= ItemsCap
    /\ closed \in SUBSET {"inputs", "items", "entry"}
    /\ dones \in 0..3
    /\ errors \in Nat /\ interrupted \in Nat
    /\ found \in SUBSET File /\ failed \in SUBSET File /\ stored \in SUBSET File
    /\ tree \in [RelPath -> File \cup {NoFile}]
    /\ nodes \in SUBSET [RelPath -> File \cup {NoFile}]
    /\ err \in {"nil", "done", "interrupted", "errors", "unexpected"}
    /\ saved \in BOOLEAN
    /\ status \in {"running", "nil"}

Init ==
    /\ pc = [walk |-> "idle", enum |-> "next", hash |-> "load",
             arch |-> "select", main |-> "loop"]
    /\ intr = FALSE
    /\ idx = 1
    /\ todo = {}
    /\ hand = [walk |-> NoFile, enum |-> NoFile, hash |-> NoFile]
    /\ inputs = <<>> /\ items = <<>>
    /\ closed = {} /\ dones = 0
    /\ errors = 0 /\ interrupted = 0
    /\ found = {} /\ failed = {} /\ stored = {}
    /\ tree = NoTree /\ nodes = {}
    /\ err = "nil" /\ saved = FALSE /\ status = "running"

At(p, label) == pc[p] = label
Goto(p, label) == pc' = [pc EXCEPT ![p] = label]

-----------------------------------------------------------------------------
(* EnumerateTree: the goroutine that walks one directory.  It looks at the *)
(* interrupt before each file, then blocks until the file is taken.  An    *)
(* unreadable directory is sent as an error and ends the whole walk.       *)

WalkOffer ==
    /\ At("walk", "scan") /\ ~intr
    /\ \E f \in todo : /\ hand' = [hand EXCEPT !["walk"] = f]
                       /\ todo' = todo \ {f}
    /\ Goto("walk", "offer")
    /\ UNCHANGED <<intr, idx, chans, errors, interrupted, data, result>>

WalkFail ==
    /\ At("walk", "scan") /\ "walk" \in Failures
    /\ Goto("walk", "fail")
    /\ UNCHANGED <<intr, idx, todo, hand, chans, errors, interrupted, data, result>>

WalkEnd ==
    /\ At("walk", "scan") /\ (intr \/ todo = {})
    /\ Goto("walk", "end")
    /\ UNCHANGED <<intr, idx, todo, hand, chans, errors, interrupted, data, result>>

-----------------------------------------------------------------------------
(* enumerateInputs *)

\* os.Stat fails: the error is counted and logged, the input is skipped.
EnumMissing ==
    /\ At("enum", "next") /\ idx <= N /\ "stat" \in Failures
    /\ errors' = errors + 1
    /\ idx' = idx + 1
    /\ Goto("enum", "missing")
    /\ UNCHANGED <<intr, todo, hand, chans, interrupted, data, result>>

EnumFile ==
    /\ At("enum", "next") /\ idx <= N /\ Kind[idx] = "file"
    /\ \E f \in Tree[idx] : /\ found' = found \cup {f}
                            /\ hand' = [hand EXCEPT !["enum"] = f]
    /\ Goto("enum", "put")
    /\ UNCHANGED <<intr, idx, todo, chans, errors, interrupted, failed, stored, tree, result>>

EnumDir ==
    /\ At("enum", "next") /\ idx <= N /\ Kind[idx] = "dir"
    /\ todo' = Tree[idx]
    /\ pc' = [pc EXCEPT !["enum"] = "walk", !["walk"] = "scan"]
    /\ UNCHANGED <<intr, idx, hand, chans, errors, interrupted, data, result>>

\* The one place where enumerateInputs listens to the interrupt.  The walk
\* is left blocked on its channel.
EnumInterrupt ==
    /\ At("enum", "walk") /\ intr
    /\ interrupted' = interrupted + 1
    /\ Goto("enum", "close")
    /\ UNCHANGED <<intr, idx, todo, hand, chans, errors, data, result>>

EnumTake ==
    /\ At("enum", "walk") /\ At("walk", "offer")
    /\ found' = found \cup {hand["walk"]}
    /\ hand' = [hand EXCEPT !["enum"] = hand["walk"]]
    /\ pc' = [pc EXCEPT !["enum"] = "put", !["walk"] = "scan"]
    /\ UNCHANGED <<intr, idx, todo, chans, errors, interrupted, failed, stored, tree, result>>

\* Mutant: the walk goes on after a directory it cannot read.
EnumWalkErrorGoesOn ==
    /\ At("enum", "walk") /\ At("walk", "fail")
    /\ errors' = errors + 1
    /\ pc' = [pc EXCEPT !["enum"] = "walkerr", !["walk"] = "scan"]
    /\ UNCHANGED <<intr, idx, todo, hand, chans, interrupted, data, result>>

EnumWalkError ==
    /\ At("enum", "walk") /\ At("walk", "fail")
    /\ errors' = errors + 1
    /\ pc' = [pc EXCEPT !["enum"] = "walkerr", !["walk"] = "end"]
    /\ UNCHANGED <<intr, idx, todo, hand, chans, interrupted, data, result>>

EnumDirDone ==
    /\ At("enum", "walk") /\ At("walk", "end")
    /\ idx' = idx + 1
    /\ pc' = [pc EXCEPT !["enum"] = "next", !["walk"] = "idle"]
    /\ UNCHANGED <<intr, todo, hand, chans, errors, interrupted, data, result>>

\* Mutant: the channel has no bound.
EnumPutUnbounded ==
    /\ At("enum", "put")
    /\ inputs' = Append(inputs, hand["enum"])
    /\ IF Kind[idx] = "dir"
       THEN Goto("enum", "walk") /\ idx' = idx
       ELSE Goto("enum", "next") /\ idx' = idx + 1
    /\ UNCHANGED <<intr, todo, hand, items, closed, dones, errors, interrupted, data, result>>

EnumPut ==
    /\ At("enum", "put") /\ Len(inputs) < InputsCap
    /\ inputs' = Append(inputs, hand["enum"])
    /\ IF Kind[idx] = "dir"
       THEN Goto("enum", "walk") /\ idx' = idx
       ELSE Goto("enum", "next") /\ idx' = idx + 1
    /\ UNCHANGED <<intr, todo, hand, items, closed, dones, errors, interrupted, data, result>>

EnumDone ==
    /\ At("enum", "next") /\ idx > N
    /\ Goto("enum", "enumerated")
    /\ UNCHANGED <<intr, idx, todo, hand, chans, errors, interrupted, data, result>>

-----------------------------------------------------------------------------
(* hashInputs *)

HashLoad ==
    /\ At("hash", "load")
    /\ \/ Goto("hash", "select")
       \/ "cache" \in Failures /\ Goto("hash", "nocache")
    /\ UNCHANGED <<intr, idx, todo, hand, chans, errors, interrupted, data, result>>

HashInterrupt ==
    /\ At("hash", "select") /\ intr
    /\ interrupted' = interrupted + 1
    /\ Goto("hash", "close")
    /\ UNCHANGED <<intr, idx, todo, hand, chans, errors, data, result>>

HashTake ==
    /\ At("hash", "select") /\ inputs # <<>>
    /\ inputs' = Tail(inputs)
    /\ hand' = [hand EXCEPT !["hash"] = Head(inputs)]
    /\ Goto("hash", "put")
    /\ UNCHANGED <<intr, idx, todo, items, closed, dones, errors, interrupted, data, result>>

\* updateFile could not read the file: counted, logged, dropped.
HashFail ==
    /\ At("hash", "select") /\ inputs # <<>> /\ "hash" \in Failures
    /\ inputs' = Tail(inputs)
    /\ failed' = failed \cup {Head(inputs)}
    /\ errors' = errors + 1
    /\ Goto("hash", "hasherr")
    /\ UNCHANGED <<intr, idx, todo, hand, items, closed, dones, interrupted, found, stored, tree, result>>

HashPut ==
    /\ At("hash", "put") /\ Len(items) < ItemsCap
    /\ items' = Append(items, hand["hash"])
    /\ Goto("hash", "select")
    /\ UNCHANGED <<intr, idx, todo, hand, inputs, closed, dones, errors, interrupted, data, result>>

\* Mutant: a closed channel is taken for a drained one.
HashDoneUndrained ==
    /\ At("hash", "select") /\ "inputs" \in closed
    /\ Goto("hash", "hashed")
    /\ UNCHANGED <<intr, idx, todo, hand, chans, errors, interrupted, data, result>>

\* Mutant: the channel is closed before the last line is logged.
HashDoneClosesFirst ==
    /\ At("hash", "select") /\ inputs = <<>> /\ "inputs" \in closed
    /\ closed' = closed \cup {"items"}
    /\ Goto("hash", "hashed")
    /\ UNCHANGED <<intr, idx, todo, hand, inputs, items, dones, errors, interrupted, data, result>>

HashDone ==
    /\ At("hash", "select") /\ inputs = <<>> /\ "inputs" \in closed
    /\ Goto("hash", "hashed")
    /\ UNCHANGED <<intr, idx, todo, hand, chans, errors, interrupted, data, result>>

\* The deferred cache.Close(): the cache is written before done is signalled.
HashSave ==
    /\ At("hash", "save")
    /\ saved' = TRUE
    /\ Goto("hash", "signal")
    /\ UNCHANGED <<intr, idx, todo, hand, chans, errors, interrupted, data, nodes, err, status>>

-----------------------------------------------------------------------------
(* archiveInputs *)

ArchInterrupt ==
    /\ At("arch", "select") /\ intr
    /\ interrupted' = interrupted + 1
    /\ Goto("arch", "close")
    /\ UNCHANGED <<intr, idx, todo, hand, chans, errors, data, result>>

\* Mutant: the error of archiveItem is not counted.
ArchTakeUncounted ==
    /\ At("arch", "select") /\ items # <<>>
    /\ items' = Tail(items)
    /\ tree' = [tree EXCEPT ![Rel[Head(items)]] = Head(items)]
    /\ \/ stored' = stored \cup {Head(items)} /\ UNCHANGED pc
       \/ "item" \in Failures /\ Goto("arch", "itemerr") /\ UNCHANGED stored
    /\ UNCHANGED <<intr, idx, todo, hand, inputs, closed, dones, errors, interrupted, found, failed, result>>

\* makeEntry, then archiveItem: the file is in the tree before its content is
\* stored, and stays there when storing it fails.
ArchTake ==
    /\ At("arch", "select") /\ items # <<>>
    /\ items' = Tail(items)
    /\ tree' = [tree EXCEPT ![Rel[Head(items)]] = Head(items)]
    /\ \/ /\ stored' = stored \cup {Head(items)}
          /\ UNCHANGED <<pc, errors>>
       \/ /\ "item" \in Failures
          /\ errors' = errors + 1
          /\ Goto("arch", "itemerr")
          /\ UNCHANGED stored
    /\ UNCHANGED <<intr, idx, todo, hand, inputs, closed, dones, interrupted, found, failed, result>>

\* items is closed and drained: the tree itself is stored with AddBytes.
ArchFinish ==
    /\ At("arch", "select") /\ items = <<>> /\ "items" \in closed
    /\ \/ Goto("arch", "send") /\ UNCHANGED errors
       \/ "entry" \in Failures /\ Goto("arch", "entryerr") /\ errors' = errors + 1
    /\ UNCHANGED <<intr, idx, todo, hand, chans, interrupted, data, result>>

-----------------------------------------------------------------------------
(* What the three workers share: logging, and the deferred close and done. *)

Worker == {"enum", "hash", "arch"}
Channel == [enum |-> "inputs", hash |-> "items", arch |-> "entry"]

\* s.out <- line: taken only while main is in its select loop.
Log(w) ==
    /\ pc[w] \in DOMAIN AfterOut /\ At("main", "loop")
    /\ Goto(w, AfterOut[pc[w]])
    /\ UNCHANGED <<intr, idx, todo, hand, chans, errors, interrupted, data, result>>

\* Mutant: done is signalled without saving the cache.
CloseUnsaved(w) ==
    /\ At(w, "close")
    /\ closed' = closed \cup {Channel[w]}
    /\ Goto(w, "signal")
    /\ UNCHANGED <<intr, idx, todo, hand, inputs, items, dones, errors, interrupted, data, result>>

\* Mutant: enumerateInputs returns without closing its channel.
CloseForgotten(w) ==
    /\ At(w, "close")
    /\ closed' = IF w = "enum" THEN closed ELSE closed \cup {Channel[w]}
    /\ Goto(w, IF w = "hash" THEN "save" ELSE "signal")
    /\ UNCHANGED <<intr, idx, todo, hand, inputs, items, dones, errors, interrupted, data, result>>

Close(w) ==
    /\ At(w, "close")
    /\ closed' = closed \cup {Channel[w]}
    /\ Goto(w, IF w = "hash" THEN "save" ELSE "signal")
    /\ UNCHANGED <<intr, idx, todo, hand, inputs, items, dones, errors, interrupted, data, result>>

Signal(w) ==
    /\ At(w, "signal") /\ dones < 3
    /\ dones' = dones + 1
    /\ Goto(w, "exit")
    /\ UNCHANGED <<intr, idx, todo, hand, inputs, items, closed, errors, interrupted, data, result>>

-----------------------------------------------------------------------------
(* main's select loop, and what follows it *)

MainInterrupt ==
    /\ At("main", "loop") /\ intr
    /\ err' = "interrupted"
    /\ Goto("main", "wait")
    /\ UNCHANGED <<intr, idx, todo, hand, chans, errors, interrupted, data, nodes, saved, status>>

\* c <- entrySha1 meets main: the node is recorded.  An error of
\* nodes.AddEntry is overwritten by errDone.
MainEntry ==
    /\ At("main", "loop") /\ At("arch", "send")
    /\ \/ nodes' = nodes \cup {tree}
       \/ "node" \in Failures /\ UNCHANGED nodes
    /\ err' = "done"
    /\ pc' = [pc EXCEPT !["arch"] = "close", !["main"] = "wait"]
    /\ UNCHANGED <<intr, idx, todo, hand, chans, errors, interrupted, data, saved, status>>

MainNoEntry ==
    /\ At("main", "loop") /\ "entry" \in closed
    /\ err' = IF errors # 0 THEN "errors"
              ELSE IF interrupted # 0 THEN "interrupted" ELSE "unexpected"
    /\ Goto("main", "wait")
    /\ UNCHANGED <<intr, idx, todo, hand, chans, errors, interrupted, data, nodes, saved, status>>

\* Mutant: main waits for one done signal too many.
MainReturnsLate ==
    /\ At("main", "wait") /\ dones > 3
    /\ status' = "nil"
    /\ Goto("main", "returned")
    /\ UNCHANGED <<intr, idx, todo, hand, chans, errors, interrupted, data, nodes, err, saved>>

\* Three receives on done, then the summary, then `return nil'.
MainReturn ==
    /\ At("main", "wait") /\ dones = 3
    /\ status' = "nil"
    /\ Goto("main", "returned")
    /\ UNCHANGED <<intr, idx, todo, hand, chans, errors, interrupted, data, nodes, err, saved>>

CtrlC ==
    /\ Interruptible /\ ~intr /\ ~At("main", "returned")
    /\ intr' = TRUE
    /\ UNCHANGED <<pc, idx, todo, hand, chans, errors, interrupted, data, result>>

-----------------------------------------------------------------------------
Walk == WalkOffer \/ WalkFail \/ WalkEnd

Enum == \/ EnumMissing \/ EnumFile \/ EnumDir \/ EnumInterrupt \/ EnumTake
        \/ EnumWalkError \/ EnumDirDone \/ EnumPut \/ EnumDone
        \/ Log("enum") \/ Close("enum") \/ Signal("enum")

Hash == \/ HashLoad \/ HashInterrupt \/ HashTake \/ HashFail \/ HashPut
        \/ HashDone \/ HashSave \/ Log("hash") \/ Close("hash") \/ Signal("hash")

Arch == \/ ArchInterrupt \/ ArchTake \/ ArchFinish
        \/ Log("arch") \/ Close("arch") \/ Signal("arch")

Main == MainInterrupt \/ MainEntry \/ MainNoEntry \/ MainReturn

\* The process ends with main; stuttering then keeps TLC's deadlock check for
\* the states in which nobody can move and main has not returned.
Returned == At("main", "returned") /\ UNCHANGED vars

Next == Walk \/ Enum \/ Hash \/ Arch \/ Main \/ CtrlC \/ Returned

\* The Go scheduler runs every goroutine that can move.  Nothing is assumed of
\* the user.
Fairness == /\ WF_vars(Walk) /\ WF_vars(Enum) /\ WF_vars(Hash)
            /\ WF_vars(Arch) /\ WF_vars(Main)

Spec == Init /\ [][Next]_vars /\ Fairness

-----------------------------------------------------------------------------
(* Properties *)

\* In a run that is not interrupted, main has stopped reading output and entry
\* only when no worker will send on them again: otherwise that worker blocks
\* for ever, and main with it (the three receives on done after the loop).
NobodyUnheard ==
    ~intr /\ ~At("main", "loop") =>
        \A w \in Worker : pc[w] \notin DOMAIN AfterOut \cup {"send"}

\* "Must save the cache *before* sending the 'done' signal": whatever way the
\* hashing goroutine ends, the process does not exit before the cache is saved.
CacheSavedAtExit == At("main", "returned") => saved

\* A run that was not interrupted and counted no error records a tree with
\* every path of every input, each file's content in the CAS, and where two
\* inputs hold the same relative path, the file of the last one: the order of
\* the .toArchive file survives both channels.
CleanRunIsComplete ==
    \A t \in nodes : (errors = 0 /\ ~intr) =>
        \A i \in 1..N : \A f \in Tree[i] :
            /\ f \in stored
            /\ t[Rel[f]] = f \/ \E j \in i + 1..N : t[Rel[f]] \in Tree[j]

\* Interrupted or not, a recorded tree lists only files that were found, and
\* an error was counted for each one whose content is not in the CAS.
RecordedIsAccounted ==
    \A t \in nodes :
        LET listed == Range(t) \ {NoFile} IN
        listed \subseteq found /\ Cardinality(listed \ stored) <= errors

\* Goroutine p can take a step: what it waits for is there.
Ready(p) ==
    CASE p = "walk" -> At("walk", "scan")
      [] p = "enum" -> \/ pc["enum"] \in {"next", "close", "signal"}
                       \/ At("enum", "walk") /\ (intr \/ pc["walk"] \in {"offer", "fail", "end"})
                       \/ At("enum", "put") /\ Len(inputs) < InputsCap
                       \/ pc["enum"] \in DOMAIN AfterOut /\ At("main", "loop")
      [] p = "hash" -> \/ pc["hash"] \in {"load", "close", "save", "signal"}
                       \/ At("hash", "select") /\ (intr \/ inputs # <<>> \/ "inputs" \in closed)
                       \/ At("hash", "put") /\ Len(items) < ItemsCap
                       \/ pc["hash"] \in DOMAIN AfterOut /\ At("main", "loop")
      [] p = "arch" -> \/ pc["arch"] \in {"close", "signal"}
                       \/ At("arch", "select") /\ (intr \/ items # <<>> \/ "items" \in closed)
                       \/ pc["arch"] \in DOMAIN AfterOut \cup {"send"} /\ At("main", "loop")
      [] p = "main" -> \/ At("main", "loop") /\ (intr \/ At("arch", "send") \/ "entry" \in closed)
                       \/ At("main", "wait") /\ dones = 3

\* The goroutines never all wait for each other: until main returns, or the user
\* interrupts, one of them can move.
NeverStuck == ~intr /\ ~At("main", "returned") => \E p \in Proc : Ready(p)

\* An upper bound of the steps a goroutine takes before it goes back for more.
Effort ==
    [walk |-> [idle |-> 0, end |-> 0, fail |-> 2, scan |-> 3, offer |-> 9],
     enum |-> [exit |-> 0, signal |-> 1, close |-> 2, enumerated |-> 3, walk |-> 4,
               walkerr |-> 5, put |-> 9, next |-> 10, missing |-> 11],
     hash |-> [exit |-> 0, signal |-> 1, save |-> 2, close |-> 3, hashed |-> 4,
               select |-> 5, hasherr |-> 6, nocache |-> 6, load |-> 7, put |-> 8],
     arch |-> [exit |-> 0, signal |-> 1, close |-> 2, send |-> 3, entryerr |-> 3,
               select |-> 4, itemerr |-> 5],
     main |-> [returned |-> 0, wait |-> 1, loop |-> 2]]

\* The files that EnumerateTree and enumerateInputs have not come to.
Ahead == IF At("walk", "idle") THEN UNION {Tree[i] : i \in idx..N}
         ELSE todo \cup UNION {Tree[i] : i \in idx + 1..N}

\* What each goroutine, and the user, may still do about what it has in hand, and
\* what the files in the channels take on their way down.
UnderWay == 4 * Len(inputs) + 2 * Len(items)
            + Effort.walk[pc["walk"]] + Effort.enum[pc["enum"]] + Effort.hash[pc["hash"]]
            + Effort.arch[pc["arch"]] + Effort.main[pc["main"]] + (IF intr THEN 0 ELSE 1)

StepsLeft == 7 * (N + 1 - idx) + 7 * Cardinality(Ahead) + UnderWay

\* No run goes on for ever, whatever fails and whenever it is interrupted: a
\* walk that fails is not walked again, a file that cannot be hashed or stored is
\* not tried again, and each step leaves fewer to take.
StepsRunOut == [][StepsLeft' < StepsLeft]_vars

\* A run that nobody interrupts ends: main gets its three done signals and
\* returns.
Terminates == <>(intr \/ At("main", "returned"))

-----------------------------------------------------------------------------
(* What a message of archive.go says and the code does not do; refuted by  *)
(* a run of its own.                                                       *)

\* "Was interrupted, waiting for processes to terminate.": an interrupted run
\* ends.
InterruptTerminates == intr ~> At("main", "returned")
=============================================================================
