------------------------ MODULE ArchiveControlProofs ------------------------
(* The types of module Archive and who waits for whom, for all its         *)
(* constants: any number of inputs and files, any capacity of the channels. *)
EXTENDS Archive, SequenceTheorems, TLAPS

\* Every process is at one of its own labels.
PcType == /\ pc \in [Proc -> UNION {Labels[p] : p \in Proc}]
          /\ \A p \in Proc : pc[p] \in Labels[p]

\* What TypeOK says of the other variables.
DataType ==
    /\ intr \in BOOLEAN
    /\ idx \in 1..N + 1
    /\ todo \in SUBSET File
    /\ hand \in [{"walk", "enum", "hash"} -> File \cup {NoFile}]
    /\ inputs \in Seq(File) /\ Len(inputs) <= InputsCap
    /\ items \in Seq(File) /\ Len(items) <= ItemsCap
    /\ closed \in SUBSET {"inputs", "items", "entry"}
    /\ dones \in 0..3
    /\ errors \in Nat /\ interrupted \in Nat
    /\ found \in SUBSET File /\ failed \in SUBSET File /\ stored \in SUBSET File
    /\ tree \in [RelPath -> File \cup {NoFile}]
    /\ nodes \in SUBSET [RelPath -> File \cup {NoFile}]
    /\ err \in {"nil", "done", "interrupted", "errors", "unexpected"}
    /\ saved \in BOOLEAN
    /\ status \in {"running", "nil"}

\* While a directory is walked enumerateInputs stays at that input, and what the
\* walk and enumerateInputs hold comes from it.
WalkInv ==
    /\ pc["enum"] \in {"walk", "put", "walkerr"} => idx <= N
    /\ At("enum", "put") => hand["enum"] \in Tree[idx]
    /\ At("hash", "put") => hand["hash"] \in File
    /\ At("walk", "offer") => hand["walk"] \in Tree[idx]
    /\ pc["walk"] # "idle" => /\ idx <= N /\ Kind[idx] = "dir" /\ todo \subseteq Tree[idx]
                              /\ pc["enum"] \notin {"next", "missing", "enumerated"}
    /\ At("walk", "idle") => /\ pc["enum"] \notin {"walk", "walkerr"}
                             /\ At("enum", "put") => Kind[idx] = "file"

\* A process that moves to one of its labels stays at its labels.
LEMMA GotoType ==
    ASSUME PcType, NEW p \in Proc, NEW l \in Labels[p], pc' = [pc EXCEPT ![p] = l]
    PROVE  PcType'
<1>1. l \in UNION {Labels[q] : q \in Proc}
  OBVIOUS
<1>2. QED
  BY <1>1 DEF PcType

\* The same for two processes that move together.
LEMMA GotoBothType ==
    ASSUME PcType, NEW p \in Proc, NEW l \in Labels[p], NEW q \in Proc, NEW m \in Labels[q],
           pc' = [pc EXCEPT ![p] = l, ![q] = m]
    PROVE  PcType'
<1>1. {l, m} \subseteq UNION {Labels[o] : o \in Proc}
  OBVIOUS
<1>2. QED
  BY <1>1 DEF PcType

\* What TypeOK and the constants say, in the form the steps below use it.
LEMMA Constants ==
    /\ N \in Nat /\ N >= 1 /\ NoFile \notin File
    /\ \A i \in 1..N : Tree[i] \subseteq File /\ Kind[i] \in {"file", "dir"}
    /\ \A f \in File : Rel[f] \in RelPath
    /\ InputsCap \in Nat /\ ItemsCap \in Nat
BY InputsAssumption, CapacityAssumption

\* The first state has the types.
LEMMA InitType == Init => PcType /\ DataType /\ WalkInv
<1> SUFFICES ASSUME Init PROVE PcType /\ DataType /\ WalkInv
  OBVIOUS
<1>1. PcType
  BY DEF Init, PcType, Proc, Labels
<1>2. DataType
  <2>1. inputs \in Seq(File) /\ items \in Seq(File) /\ Len(inputs) = 0 /\ Len(items) = 0
    BY DEF Init
  <2>2. tree \in [RelPath -> File \cup {NoFile}]
    BY DEF Init, NoTree
  <2>3. hand \in [{"walk", "enum", "hash"} -> File \cup {NoFile}]
    BY DEF Init
  <2>4. idx \in 1..N + 1 /\ dones \in 0..3 /\ errors \in Nat /\ interrupted \in Nat
    BY Constants DEF Init
  <2>5. Len(inputs) <= InputsCap /\ Len(items) <= ItemsCap
    BY <2>1, Constants
  <2>6. QED
    BY <2>1, <2>2, <2>3, <2>4, <2>5, Zenon DEF Init, DataType
<1>3. WalkInv
  BY DEF Init, WalkInv, At
<1>4. QED
  BY <1>1, <1>2, <1>3

\* The labels a line of output is sent from, and those it leads to.
LEMMA LogEffect ==
    ASSUME PcType, NEW w \in Worker, Log(w)
    PROVE  /\ \A p \in Proc \ {w} : pc'[p] = pc[p]
           /\ w = "enum" => \/ pc[w] = "missing" /\ pc'[w] = "next"
                            \/ pc[w] = "walkerr" /\ pc'[w] = "walk"
                            \/ pc[w] = "enumerated" /\ pc'[w] = "close"
           /\ w = "hash" => \/ pc[w] \in {"nocache", "hasherr"} /\ pc'[w] = "select"
                            \/ pc[w] = "hashed" /\ pc'[w] = "close"
           /\ w = "arch" => \/ pc[w] = "itemerr" /\ pc'[w] = "select"
                            \/ pc[w] = "entryerr" /\ pc'[w] = "close"
<1>1. /\ \A p \in Proc \ {w} : pc'[p] = pc[p]
      /\ pc'[w] = AfterOut[pc[w]] /\ pc[w] \in Labels[w] /\ pc[w] \in DOMAIN AfterOut
  BY DEF Log, Goto, PcType, Proc, Worker
<1>2. CASE w = "enum"
  <2>1. pc[w] \in {"missing", "walkerr", "enumerated"}
    BY <1>1, <1>2 DEF Labels, AfterOut
  <2>2. QED
    BY <1>1, <1>2, <2>1 DEF AfterOut
<1>3. CASE w = "hash"
  <2>1. pc[w] \in {"nocache", "hasherr", "hashed"}
    BY <1>1, <1>3 DEF Labels, AfterOut
  <2>2. QED
    BY <1>1, <1>3, <2>1 DEF AfterOut
<1>4. CASE w = "arch"
  <2>1. pc[w] \in {"itemerr", "entryerr"}
    BY <1>1, <1>4 DEF Labels, AfterOut
  <2>2. QED
    BY <1>1, <1>4, <2>1 DEF AfterOut
<1>5. QED
  BY <1>1, <1>2, <1>3, <1>4 DEF Worker

\* Logging, closing and signalling keep the types, whichever worker does it.
LEMMA SharedType ==
    ASSUME PcType, DataType, WalkInv, NEW w \in Worker, Log(w) \/ Close(w) \/ Signal(w)
    PROVE  PcType' /\ DataType' /\ WalkInv'
<1> USE DEF At, Goto, data, chans, result
<1>0. w \in Proc /\ pc[w] \in Labels[w] /\ w \in {"enum", "hash", "arch"}
  BY DEF PcType, Proc, Worker
<1>1. CASE Log(w)
  <2>1. AfterOut[pc[w]] \in Labels[w]
    BY <1>0, <1>1 DEF Log, AfterOut, Labels
  <2>2. PcType'
    BY <1>0, <1>1, <2>1, GotoType DEF Log
  <2>3. DataType'
    BY <1>1 DEF Log, DataType
  <2>4. UNCHANGED <<idx, hand, todo>>
    BY <1>1 DEF Log
  <2>5. CASE w = "enum"
    <3>1. pc'["walk"] = pc["walk"] /\ pc'["hash"] = pc["hash"]
      BY <1>1, <2>5, LogEffect DEF Proc
    <3>2. \/ pc["enum"] = "missing" /\ pc'["enum"] = "next"
          \/ pc["enum"] = "walkerr" /\ pc'["enum"] = "walk"
          \/ pc["enum"] = "enumerated" /\ pc'["enum"] = "close"
      BY <1>1, <2>5, LogEffect
    <3>3. QED
      BY <2>2, <2>3, <2>4, <3>1, <3>2 DEF WalkInv
  <2>6. CASE w \in {"hash", "arch"}
    <3>1. pc'["walk"] = pc["walk"] /\ pc'["enum"] = pc["enum"]
      BY <1>1, <2>6, LogEffect DEF Proc
    <3>2. pc'["hash"] = "put" => pc["hash"] = "put"
      BY <1>1, <2>6, LogEffect DEF Proc
    <3>3. QED
      BY <2>2, <2>3, <2>4, <3>1, <3>2 DEF WalkInv
  <2>7. QED
    BY <1>0, <2>5, <2>6
<1>2. CASE Close(w)
  <2>1. PcType'
    BY <1>0, <1>2, GotoType DEF Close, Labels
  <2>2. closed' \in SUBSET {"inputs", "items", "entry"}
    <3>1. Channel[w] \in {"inputs", "items", "entry"}
      BY <1>0 DEF Channel
    <3>2. QED
      BY <1>2, <3>1 DEF Close, DataType
  <2>3. DataType'
    BY <1>2, <2>2 DEF Close, DataType
  <2>4. WalkInv'
    BY <1>0, <1>2 DEF Close, WalkInv, PcType, Proc
  <2>5. QED
    BY <2>1, <2>3, <2>4
<1>3. CASE Signal(w)
  <2>1. PcType'
    BY <1>0, <1>3, GotoType DEF Signal, Labels
  <2>2. DataType'
    BY <1>3 DEF Signal, DataType
  <2>3. WalkInv'
    BY <1>0, <1>3 DEF Signal, WalkInv, PcType, Proc
  <2>4. QED
    BY <2>1, <2>2, <2>3
<1>4. QED
  BY <1>1, <1>2, <1>3

\* The steps of the walk keep the types.
LEMMA WalkType ==
    ASSUME PcType, DataType, WalkInv, Walk
    PROVE  PcType' /\ DataType' /\ WalkInv'
<1> USE Constants DEF At, Goto, data, chans, result
<1>1. CASE WalkOffer
  <2>1. PcType'
    BY <1>1, GotoType DEF WalkOffer, Proc, Labels
  <2>2. DataType'
    BY <1>1 DEF WalkOffer, DataType
  <2>3. WalkInv'
    BY <1>1 DEF WalkOffer, DataType, WalkInv, PcType, Proc
  <2>4. QED
    BY <2>1, <2>2, <2>3
<1>2. CASE WalkFail
  <2>1. PcType'
    BY <1>2, GotoType DEF WalkFail, Proc, Labels
  <2>2. DataType'
    BY <1>2 DEF WalkFail, DataType
  <2>3. WalkInv'
    BY <1>2 DEF WalkFail, DataType, WalkInv, PcType, Proc
  <2>4. QED
    BY <2>1, <2>2, <2>3
<1>3. CASE WalkEnd
  <2>1. PcType'
    BY <1>3, GotoType DEF WalkEnd, Proc, Labels
  <2>2. DataType'
    BY <1>3 DEF WalkEnd, DataType
  <2>3. WalkInv'
    BY <1>3 DEF WalkEnd, DataType, WalkInv, PcType, Proc
  <2>4. QED
    BY <2>1, <2>2, <2>3
<1>4. QED
  BY <1>1, <1>2, <1>3 DEF Walk

\* The same for enumerateInputs.
LEMMA EnumType ==
    ASSUME PcType, DataType, WalkInv, Enum
    PROVE  PcType' /\ DataType' /\ WalkInv'
<1> USE Constants DEF At, Goto, data, chans, result
<1>1. CASE EnumMissing
  <2>1. PcType'
    BY <1>1, GotoType DEF EnumMissing, Proc, Labels
  <2>2. DataType'
    BY <1>1 DEF EnumMissing, DataType
  <2>3. WalkInv'
    BY <1>1 DEF EnumMissing, DataType, WalkInv, PcType, Proc
  <2>4. QED
    BY <2>1, <2>2, <2>3
<1>2. CASE EnumFile
  <2>1. PcType'
    BY <1>2, GotoType DEF EnumFile, Proc, Labels
  <2>2. DataType'
    BY <1>2 DEF EnumFile, DataType
  <2>3. WalkInv'
    BY <1>2 DEF EnumFile, DataType, WalkInv, PcType, Proc
  <2>4. QED
    BY <2>1, <2>2, <2>3
<1>3. CASE EnumDir
  <2>1. PcType'
    BY <1>3, GotoBothType DEF EnumDir, Proc, Labels
  <2>2. DataType'
    BY <1>3 DEF EnumDir, DataType
  <2>3. WalkInv'
    BY <1>3 DEF EnumDir, DataType, WalkInv, PcType, Proc
  <2>4. QED
    BY <2>1, <2>2, <2>3
<1>4. CASE EnumInterrupt
  <2>1. PcType'
    BY <1>4, GotoType DEF EnumInterrupt, Proc, Labels
  <2>2. DataType'
    BY <1>4 DEF EnumInterrupt, DataType
  <2>3. WalkInv'
    BY <1>4 DEF EnumInterrupt, DataType, WalkInv, PcType, Proc
  <2>4. QED
    BY <2>1, <2>2, <2>3
<1>5. CASE EnumTake
  <2>1. PcType'
    BY <1>5, GotoBothType DEF EnumTake, Proc, Labels
  <2>2. hand["walk"] \in File
    BY <1>5 DEF EnumTake, DataType, WalkInv
  <2>3. DataType'
    BY <1>5, <2>2 DEF EnumTake, DataType
  <2>4. WalkInv'
    BY <1>5 DEF EnumTake, DataType, WalkInv, PcType, Proc
  <2>5. QED
    BY <2>1, <2>3, <2>4
<1>6. CASE EnumWalkError
  <2>1. PcType'
    BY <1>6, GotoBothType DEF EnumWalkError, Proc, Labels
  <2>2. DataType'
    BY <1>6 DEF EnumWalkError, DataType
  <2>3. WalkInv'
    BY <1>6 DEF EnumWalkError, DataType, WalkInv, PcType, Proc
  <2>4. QED
    BY <2>1, <2>2, <2>3
<1>7. CASE EnumDirDone
  <2>1. PcType'
    BY <1>7, GotoBothType DEF EnumDirDone, Proc, Labels
  <2>2. idx' \in 1..N + 1
    BY <1>7 DEF EnumDirDone, DataType, WalkInv
  <2>3. DataType'
    BY <1>7, <2>2 DEF EnumDirDone, DataType
  <2>4. WalkInv'
    BY <1>7 DEF EnumDirDone, DataType, WalkInv, PcType, Proc
  <2>5. QED
    BY <2>1, <2>3, <2>4
<1>8. CASE EnumPut
  <2>1. PcType'
    BY <1>8, GotoType DEF EnumPut, Proc, Labels
  <2>2. hand["enum"] \in File
    BY <1>8 DEF EnumPut, DataType, WalkInv
  <2>3. inputs' \in Seq(File) /\ Len(inputs') = Len(inputs) + 1
    BY <1>8, <2>2, AppendProperties DEF EnumPut, DataType
  <2>4. DataType'
    BY <1>8, <2>3 DEF EnumPut, DataType, WalkInv
  <2>5. WalkInv'
    BY <1>8 DEF EnumPut, DataType, WalkInv, PcType, Proc
  <2>6. QED
    BY <2>1, <2>4, <2>5
<1>9. CASE EnumDone
  <2>1. PcType'
    BY <1>9, GotoType DEF EnumDone, Proc, Labels
  <2>2. DataType'
    BY <1>9 DEF EnumDone, DataType
  <2>3. WalkInv'
    BY <1>9 DEF EnumDone, DataType, WalkInv, PcType, Proc
  <2>4. QED
    BY <2>1, <2>2, <2>3
<1>10. CASE Log("enum") \/ Close("enum") \/ Signal("enum")
  BY <1>10, SharedType DEF Worker
<1>11. QED
  BY <1>1, <1>2, <1>3, <1>4, <1>5, <1>6, <1>7, <1>8, <1>9, <1>10 DEF Enum

\* The same for hashInputs.
LEMMA HashType ==
    ASSUME PcType, DataType, WalkInv, Hash
    PROVE  PcType' /\ DataType' /\ WalkInv'
<1> USE Constants DEF At, Goto, data, chans, result
<1>1. CASE HashLoad
  <2>1. PcType'
    BY <1>1, GotoType DEF HashLoad, Proc, Labels
  <2>2. DataType'
    BY <1>1 DEF HashLoad, DataType
  <2>3. WalkInv'
    BY <1>1 DEF HashLoad, DataType, WalkInv, PcType, Proc
  <2>4. QED
    BY <2>1, <2>2, <2>3
<1>2. CASE HashInterrupt
  <2>1. PcType'
    BY <1>2, GotoType DEF HashInterrupt, Proc, Labels
  <2>2. DataType'
    BY <1>2 DEF HashInterrupt, DataType
  <2>3. WalkInv'
    BY <1>2 DEF HashInterrupt, DataType, WalkInv, PcType, Proc
  <2>4. QED
    BY <2>1, <2>2, <2>3
<1>3. CASE HashTake
  <2>1. PcType'
    BY <1>3, GotoType DEF HashTake, Proc, Labels
  <2>2. DataType'
    BY <1>3 DEF HashTake, DataType
  <2>3. WalkInv'
    BY <1>3 DEF HashTake, DataType, WalkInv, PcType, Proc
  <2>4. QED
    BY <2>1, <2>2, <2>3
<1>4. CASE HashFail
  <2>1. PcType'
    BY <1>4, GotoType DEF HashFail, Proc, Labels
  <2>2. DataType'
    BY <1>4 DEF HashFail, DataType
  <2>3. WalkInv'
    BY <1>4 DEF HashFail, DataType, WalkInv, PcType, Proc
  <2>4. QED
    BY <2>1, <2>2, <2>3
<1>5. CASE HashPut
  <2>1. PcType'
    BY <1>5, GotoType DEF HashPut, Proc, Labels
  <2>2. hand["hash"] \in File
    BY <1>5 DEF HashPut, DataType, WalkInv
  <2>3. items' \in Seq(File) /\ Len(items') = Len(items) + 1
    BY <1>5, <2>2, AppendProperties DEF HashPut, DataType
  <2>4. DataType'
    BY <1>5, <2>3 DEF HashPut, DataType, WalkInv
  <2>5. WalkInv'
    BY <1>5 DEF HashPut, DataType, WalkInv, PcType, Proc
  <2>6. QED
    BY <2>1, <2>4, <2>5
<1>6. CASE HashDone
  <2>1. PcType'
    BY <1>6, GotoType DEF HashDone, Proc, Labels
  <2>2. DataType'
    BY <1>6 DEF HashDone, DataType
  <2>3. WalkInv'
    BY <1>6 DEF HashDone, DataType, WalkInv, PcType, Proc
  <2>4. QED
    BY <2>1, <2>2, <2>3
<1>7. CASE HashSave
  <2>1. PcType'
    BY <1>7, GotoType DEF HashSave, Proc, Labels
  <2>2. DataType'
    BY <1>7 DEF HashSave, DataType
  <2>3. WalkInv'
    BY <1>7 DEF HashSave, DataType, WalkInv, PcType, Proc
  <2>4. QED
    BY <2>1, <2>2, <2>3
<1>8. CASE Log("hash") \/ Close("hash") \/ Signal("hash")
  BY <1>8, SharedType DEF Worker
<1>9. QED
  BY <1>1, <1>2, <1>3, <1>4, <1>5, <1>6, <1>7, <1>8 DEF Hash

\* The same for archiveInputs.
LEMMA ArchType ==
    ASSUME PcType, DataType, WalkInv, Arch
    PROVE  PcType' /\ DataType' /\ WalkInv'
<1> USE Constants DEF At, Goto, data, chans, result
<1>1. CASE ArchInterrupt
  <2>1. PcType'
    BY <1>1, GotoType DEF ArchInterrupt, Proc, Labels
  <2>2. DataType'
    BY SMTT(30), <1>1 DEF ArchInterrupt, DataType
  <2>3. WalkInv'
    BY <1>1 DEF ArchInterrupt, DataType, WalkInv, PcType, Proc
  <2>4. QED
    BY <2>1, <2>2, <2>3
<1>2. CASE ArchTake
  <2>1. PcType'
    <3>1. CASE UNCHANGED pc
      BY <3>1 DEF PcType
    <3>2. CASE Goto("arch", "itemerr")
      BY <3>2, GotoType DEF Proc, Labels
    <3>3. QED
      BY <1>2, <3>1, <3>2 DEF ArchTake
  <2>2. DataType'
    BY <1>2 DEF ArchTake, DataType
  <2>3. WalkInv'
    BY <1>2 DEF ArchTake, DataType, WalkInv, PcType, Proc
  <2>4. QED
    BY <2>1, <2>2, <2>3
<1>3. CASE ArchFinish
  <2>1. PcType'
    BY <1>3, GotoType DEF ArchFinish, Proc, Labels
  <2>2. DataType'
    BY <1>3 DEF ArchFinish, DataType
  <2>3. WalkInv'
    BY SMTT(30), <1>3 DEF ArchFinish, DataType, WalkInv, PcType, Proc
  <2>4. QED
    BY <2>1, <2>2, <2>3
<1>4. CASE Log("arch") \/ Close("arch") \/ Signal("arch")
  BY <1>4, SharedType DEF Worker
<1>5. QED
  BY <1>1, <1>2, <1>3, <1>4 DEF Arch

\* The same for main.
LEMMA MainType ==
    ASSUME PcType, DataType, WalkInv, Main
    PROVE  PcType' /\ DataType' /\ WalkInv'
<1> USE Constants DEF At, Goto, data, chans, result
<1>1. CASE MainInterrupt
  <2>1. PcType'
    BY <1>1, GotoType DEF MainInterrupt, Proc, Labels
  <2>2. DataType'
    BY <1>1 DEF MainInterrupt, DataType
  <2>3. WalkInv'
    BY <1>1 DEF MainInterrupt, DataType, WalkInv, PcType, Proc
  <2>4. QED
    BY <2>1, <2>2, <2>3
<1>2. CASE MainEntry
  <2>1. PcType'
    BY <1>2, GotoBothType DEF MainEntry, Proc, Labels
  <2>2. DataType'
    BY <1>2 DEF MainEntry, DataType
  <2>3. WalkInv'
    BY <1>2 DEF MainEntry, DataType, WalkInv, PcType, Proc
  <2>4. QED
    BY <2>1, <2>2, <2>3
<1>3. CASE MainNoEntry
  <2>1. PcType'
    BY <1>3, GotoType DEF MainNoEntry, Proc, Labels
  <2>2. DataType'
    BY <1>3 DEF MainNoEntry, DataType
  <2>3. WalkInv'
    BY <1>3 DEF MainNoEntry, DataType, WalkInv, PcType, Proc
  <2>4. QED
    BY <2>1, <2>2, <2>3
<1>4. CASE MainReturn
  <2>1. PcType'
    BY <1>4, GotoType DEF MainReturn, Proc, Labels
  <2>2. DataType'
    BY <1>4 DEF MainReturn, DataType
  <2>3. WalkInv'
    BY <1>4 DEF MainReturn, DataType, WalkInv, PcType, Proc
  <2>4. QED
    BY <2>1, <2>2, <2>3
<1>5. QED
  BY <1>1, <1>2, <1>3, <1>4 DEF Main

\* Every step keeps the types and what is in hand.
LEMMA TypeIsInductive ==
    PcType /\ DataType /\ WalkInv /\ [Next]_vars => PcType' /\ DataType' /\ WalkInv'
<1> SUFFICES ASSUME PcType, DataType, WalkInv, [Next]_vars
             PROVE  PcType' /\ DataType' /\ WalkInv'
  OBVIOUS
<1>1. CASE CtrlC
  <2>1. PcType' /\ WalkInv'
    BY <1>1 DEF CtrlC, PcType, WalkInv, At
  <2>2. DataType'
    BY <1>1 DEF CtrlC, DataType, chans, data, result
  <2>3. QED
    BY <2>1, <2>2
<1>2. CASE UNCHANGED vars
  BY SMTT(30), <1>2 DEF vars, PcType, DataType, WalkInv, At, chans, data, result
<1>3. QED
  BY <1>1, <1>2, WalkType, EnumType, HashType, ArchType, MainType DEF Next, Returned

\* Every goroutine of an archive is at one of its steps and no channel holds more
\* than its capacity, however many inputs there are and however large they are.
THEOREM TypeCorrect == Spec => []TypeOK
<1>1. PcType /\ DataType => TypeOK
  BY DEF PcType, DataType, TypeOK
<1>2. QED
  BY InitType, TypeIsInductive, <1>1, PTL DEF Spec

-----------------------------------------------------------------------------
(* Who waits for whom *)

\* One if goroutine w has returned.
Exits(w) == IF At(w, "exit") THEN 1 ELSE 0

\* A channel is closed by its sender, after its last send; done is signalled
\* last, by hashInputs after saving the cache.  Unless it is interrupted, a
\* worker ends only when the channel it reads is closed and empty, and main
\* leaves its loop only when archiveInputs is past its last send.
ControlInv ==
    /\ "inputs" \in closed <=> pc["enum"] \in {"signal", "exit"}
    /\ "items" \in closed <=> pc["hash"] \in {"save", "signal", "exit"}
    /\ "entry" \in closed <=> pc["arch"] \in {"signal", "exit"}
    /\ dones = Exits("enum") + Exits("hash") + Exits("arch")
    /\ pc["hash"] \in {"signal", "exit"} => saved
    /\ At("main", "returned") => dones = 3
    /\ nodes # {} => nodes = {tree} /\ pc["arch"] \in {"close", "signal", "exit"}
    /\ ~intr =>
        /\ pc["enum"] \in {"enumerated", "close", "signal", "exit"} => idx = N + 1
        /\ pc["hash"] \in {"hashed", "close", "save", "signal", "exit"} =>
              inputs = <<>> /\ pc["enum"] \in {"signal", "exit"}
        /\ pc["arch"] \in {"send", "entryerr", "close", "signal", "exit"} =>
              items = <<>> /\ pc["hash"] \in {"save", "signal", "exit"}
        /\ ~At("main", "loop") => pc["arch"] \in {"close", "signal", "exit"}

\* At the start every goroutine is at its first step.
LEMMA InitControl == Init => ControlInv
BY SMTT(30) DEF Init, ControlInv, At, Exits

\* Every step keeps it.
LEMMA ControlStep ==
    ASSUME PcType, DataType, WalkInv, ControlInv, [Next]_vars
    PROVE  ControlInv'
<1>0. /\ idx \in 1..N + 1 /\ dones \in 0..3 /\ N \in Nat
  BY Constants DEF DataType
<1>p. PICK S : pc \in [Proc -> S]
  BY DEF PcType
<1> USE <1>0, <1>p DEF At, Goto, data, chans, result, Exits, Proc
<1>1. CASE WalkOffer
  BY <1>1 DEF WalkOffer, ControlInv
<1>2. CASE WalkFail
  BY <1>2 DEF WalkFail, ControlInv
<1>3. CASE WalkEnd
  BY <1>3 DEF WalkEnd, ControlInv
<1>4. CASE EnumMissing
  BY <1>4 DEF EnumMissing, ControlInv
<1>5. CASE EnumFile
  BY <1>5 DEF EnumFile, ControlInv
<1>6. CASE EnumDir
  BY <1>6 DEF EnumDir, ControlInv
<1>7. CASE EnumInterrupt
  BY <1>7 DEF EnumInterrupt, ControlInv
<1>8. CASE EnumTake
  BY <1>8 DEF EnumTake, ControlInv
<1>9. CASE EnumWalkError
  BY <1>9 DEF EnumWalkError, ControlInv
<1>10. CASE EnumDirDone
  BY <1>10 DEF EnumDirDone, ControlInv
<1>11. CASE EnumPut
  BY <1>11 DEF EnumPut, ControlInv
<1>12. CASE EnumDone
  BY <1>12 DEF EnumDone, ControlInv
<1>13. CASE Log("enum")
  BY <1>13, LogEffect DEF Log, ControlInv, Worker, Channel
<1>14. CASE Close("enum")
  BY <1>14 DEF Close, ControlInv, Worker, Channel
<1>15. CASE Signal("enum")
  BY <1>15 DEF Signal, ControlInv, Worker, Channel
<1>16. CASE HashLoad
  BY <1>16 DEF HashLoad, ControlInv
<1>17. CASE HashInterrupt
  BY <1>17 DEF HashInterrupt, ControlInv
<1>18. CASE HashTake
  BY <1>18 DEF HashTake, ControlInv
<1>19. CASE HashFail
  BY <1>19 DEF HashFail, ControlInv
<1>20. CASE HashPut
  BY <1>20 DEF HashPut, ControlInv
<1>21. CASE HashDone
  BY <1>21 DEF HashDone, ControlInv
<1>22. CASE HashSave
  BY <1>22 DEF HashSave, ControlInv
<1>23. CASE Log("hash")
  BY <1>23, LogEffect DEF Log, ControlInv, Worker, Channel
<1>24. CASE Close("hash")
  BY <1>24 DEF Close, ControlInv, Worker, Channel
<1>25. CASE Signal("hash")
  BY <1>25 DEF Signal, ControlInv, Worker, Channel
<1>26. CASE ArchInterrupt
  BY <1>26 DEF ArchInterrupt, ControlInv
<1>27. CASE ArchTake
  BY <1>27 DEF ArchTake, ControlInv
<1>28. CASE ArchFinish
  BY <1>28 DEF ArchFinish, ControlInv
<1>29. CASE Log("arch")
  BY <1>29, LogEffect DEF Log, ControlInv, Worker, Channel
<1>30. CASE Close("arch")
  BY <1>30 DEF Close, ControlInv, Worker, Channel
<1>31. CASE Signal("arch")
  BY <1>31 DEF Signal, ControlInv, Worker, Channel
<1>32. CASE MainInterrupt
  BY <1>32 DEF MainInterrupt, ControlInv
<1>33. CASE MainEntry
  BY <1>33 DEF MainEntry, ControlInv
<1>34. CASE MainNoEntry
  BY <1>34 DEF MainNoEntry, ControlInv
<1>35. CASE MainReturn
  BY <1>35 DEF MainReturn, ControlInv
<1>36. CASE CtrlC
  BY <1>36 DEF CtrlC, ControlInv
<1>37. CASE UNCHANGED vars
  BY <1>37 DEF vars, ControlInv
<1>38. QED
  BY <1>1, <1>2, <1>3, <1>4, <1>5, <1>6, <1>7, <1>8, <1>9, <1>10, <1>11, <1>12, <1>13, <1>14, <1>15, <1>16, <1>17, <1>18, <1>19, <1>20, <1>21, <1>22, <1>23, <1>24, <1>25, <1>26, <1>27, <1>28, <1>29, <1>30, <1>31, <1>32, <1>33, <1>34, <1>35, <1>36, <1>37 DEF Next, Walk, Enum, Hash, Arch, Main, Returned

\* What the types and the control say together is inductive.
PipelineInv == PcType /\ DataType /\ WalkInv /\ ControlInv

\* It holds in every state of every run.
LEMMA PipelineInvariant == Spec => []PipelineInv
<1>1. Init => PipelineInv
  BY InitType, InitControl DEF PipelineInv
<1>2. PipelineInv /\ [Next]_vars => PipelineInv'
  BY TypeIsInductive, ControlStep DEF PipelineInv
<1>3. QED
  BY <1>1, <1>2, PTL DEF Spec

\* Unless the run is interrupted, a worker that still has something to send finds
\* main in its select loop: the pipeline cannot hang on output or on entry.
THEOREM WorkersAreHeard == Spec => []NobodyUnheard
<1>1. PipelineInv => NobodyUnheard
  <2> SUFFICES ASSUME PipelineInv, ~intr, ~At("main", "loop"), NEW w \in Worker
               PROVE  pc[w] \notin DOMAIN AfterOut \cup {"send"}
    BY DEF NobodyUnheard
  <2>1. /\ pc["arch"] \in {"close", "signal", "exit"}
        /\ pc["hash"] \in {"save", "signal", "exit"}
        /\ pc["enum"] \in {"signal", "exit"}
    BY DEF PipelineInv, ControlInv
  <2>2. QED
    BY <2>1 DEF Worker, AfterOut
<1>2. QED
  BY <1>1, PipelineInvariant, PTL

\* However the hashing goroutine ends, interrupted or not, the process does not
\* return before the cache is saved.
THEOREM CacheIsSaved == Spec => []CacheSavedAtExit
<1>1. PipelineInv => CacheSavedAtExit
  BY DEF PipelineInv, ControlInv, CacheSavedAtExit, Exits, At
<1>2. QED
  BY <1>1, PipelineInvariant, PTL

\* The tree of a run without error or interrupt has every path of every input, and

\* Nobody waits for somebody who waits for them: a full channel has a reader that
\* is not at its select, an empty one has a writer that is not at its end, and
\* main hears everybody.
THEOREM NobodyIsStuck == Spec => []NeverStuck
<1>1. PipelineInv => NeverStuck
  <2> SUFFICES ASSUME PipelineInv, ~intr, ~At("main", "returned"),
                      \A p \in Proc : ~Ready(p)
               PROVE  FALSE
    BY DEF NeverStuck
  <2>0. /\ ~Ready("walk") /\ ~Ready("enum") /\ ~Ready("hash") /\ ~Ready("arch") /\ ~Ready("main")
    BY DEF Proc
  <2>1. /\ pc["walk"] \in Labels["walk"] /\ pc["enum"] \in Labels["enum"]
        /\ pc["hash"] \in Labels["hash"] /\ pc["arch"] \in Labels["arch"]
        /\ pc["main"] \in Labels["main"]
    BY DEF PipelineInv, PcType, Proc
  <2>2. /\ Len(inputs) \in Nat /\ Len(items) \in Nat /\ InputsCap \in Nat /\ ItemsCap \in Nat
        /\ InputsCap # 0 /\ ItemsCap # 0 /\ dones \in Nat
        /\ (inputs = <<>> => Len(inputs) = 0) /\ (items = <<>> => Len(items) = 0)
    BY Constants, CapacityAssumption DEF PipelineInv, DataType
  <2>3. At("main", "loop") \/ At("main", "wait")
    BY <2>1 DEF Labels, At
  <2>4. ~At("main", "loop") => /\ pc["arch"] \in {"close", "signal", "exit"}
                               /\ pc["hash"] \in {"save", "signal", "exit"}
                               /\ pc["enum"] \in {"signal", "exit"}
    BY DEF PipelineInv, ControlInv
  <2>5. (At("enum", "put") /\ Len(inputs) >= InputsCap) \/ At("enum", "exit")
    BY <2>0, <2>1, <2>2, <2>3, <2>4 DEF Ready, Labels, At, AfterOut, PipelineInv, WalkInv
  <2>6. (At("hash", "put") /\ Len(items) >= ItemsCap) \/ (At("hash", "exit") /\ At("enum", "exit"))
    BY <2>0, <2>1, <2>2, <2>3, <2>4, <2>5 DEF Ready, Labels, At, AfterOut, PipelineInv, ControlInv
  <2>7. At("arch", "exit") /\ At("hash", "exit") /\ At("enum", "exit")
    BY <2>0, <2>1, <2>2, <2>3, <2>4, <2>6 DEF Ready, Labels, At, AfterOut, PipelineInv, ControlInv
  <2>8. "entry" \in closed /\ dones = 3
    BY <2>7 DEF PipelineInv, ControlInv, Exits, At
  <2>9. QED
    BY <2>0, <2>3, <2>8 DEF Ready
<1>2. QED
  BY <1>1, PipelineInvariant, PTL

=============================================================================
