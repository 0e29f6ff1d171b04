------------------------- MODULE ArchiveFlowProofs -------------------------
(* Where the files of an archive are, and which steps move them down the   *)
(* pipeline.                                                               *)
EXTENDS ArchiveControlProofs, FiniteSetTheorems

-----------------------------------------------------------------------------
(* Where the files are *)

\* The input a file belongs to.
InputOf(f) == CHOOSE i \in 1..N : f \in Tree[i]

\* The files in the tree, and the one a goroutine is about to send.
Listed == Range(tree) \ {NoFile}
HeldBy(w) == IF At(w, "put") THEN {hand[w]} ELSE {}

\* What has still to reach hashInputs, archiveInputs and the tree.
ToHash == Range(inputs) \cup HeldBy("enum")
ToSend == HeldBy("hash") \cup ToHash
ToList == Range(items) \cup ToSend

\* Files come in the order of their inputs: of two sets, and in a channel.
Precede(S, T) == \A f \in S, g \in T : InputOf(f) <= InputOf(g)
InOrder(s) == \A k, l \in DOMAIN s : k < l => InputOf(s[k]) <= InputOf(s[l])

\* Files go down the pipeline in the order of their inputs.
OrderInv ==
    /\ \A f \in Listed \cup ToList : /\ InputOf(f) \in 1..N /\ InputOf(f) <= idx
                                    /\ f \in Tree[InputOf(f)]
    /\ InOrder(inputs) /\ InOrder(items)
    /\ Precede(Range(inputs), HeldBy("enum")) /\ Precede(HeldBy("hash"), ToHash)
    /\ Precede(Range(items), ToSend) /\ Precede(Listed, ToList)

\* The content of f is stored and the tree has at its path f or a later file.
Done(f, i) ==
    /\ f \in stored /\ tree[Rel[f]] \in File
    /\ tree[Rel[f]] = f \/ i < InputOf(tree[Rel[f]])

\* Where a file of input i can be in a run without errors that nobody interrupts.
Located(f, i) ==
    \/ idx < i \/ f \in ToList \/ Done(f, i)
    \/ idx = i /\ \/ At("enum", "next")
                  \/ ~At("walk", "idle") /\ f \in todo
                  \/ At("walk", "offer") /\ f = hand["walk"]

\* In such a run no file is lost: it is not reached yet, waits in the walk or in
\* the pipeline, or it is done.
CompleteInv ==
    errors = 0 /\ ~intr =>
        /\ At("walk", "end") => todo = {}
        /\ \A i \in 1..N : \A f \in Tree[i] : Located(f, i)

\* What is on its way was counted, and an error was counted for what is listed
\* and not stored.
AccountInv ==
    /\ Listed \cup ToList \subseteq found
    /\ IsFiniteSet(Listed)
    /\ Cardinality(Listed \ stored) <= errors

-----------------------------------------------------------------------------
(* Sequences *)

\* Sending to a channel adds the file, last.
LEMMA AppendRange ==
    ASSUME NEW S, NEW s \in Seq(S), NEW e \in S
    PROVE  /\ Range(Append(s, e)) = Range(s) \cup {e}
           /\ InOrder(s) /\ Precede(Range(s), {e}) => InOrder(Append(s, e))
<1> DEFINE t == Append(s, e)
<1>1. /\ t \in Seq(S) /\ Len(t) = Len(s) + 1 /\ Len(s) \in Nat
      /\ \A i \in 1..Len(s) : t[i] = s[i]
      /\ t[Len(s) + 1] = e
      /\ DOMAIN s = 1..Len(s) /\ DOMAIN t = 1..Len(t)
  BY AppendProperties
<1> HIDE DEF t
<1>2. Range(t) = Range(s) \cup {e}
  BY <1>1 DEF Range
<1>3. ASSUME InOrder(s), Precede(Range(s), {e}), NEW k \in DOMAIN t, NEW l \in DOMAIN t, k < l
      PROVE  InputOf(t[k]) <= InputOf(t[l])
  <2>1. k \in 1..Len(s) /\ t[k] = s[k] /\ s[k] \in Range(s)
    BY <1>1, <1>3 DEF Range
  <2>2. CASE l \in 1..Len(s)
    BY <1>1, <1>3, <2>1, <2>2 DEF InOrder
  <2>3. CASE l = Len(s) + 1
    BY <1>1, <1>3, <2>1, <2>3 DEF Precede
  <2>4. QED
    BY <1>1, <1>3, <2>2, <2>3
<1>4. QED
  BY <1>2, <1>3 DEF InOrder, t

\* Receiving from a channel takes the file that comes first.
LEMMA TailRange ==
    ASSUME NEW S, NEW s \in Seq(S), s # <<>>
    PROVE  /\ Range(s) = {Head(s)} \cup Range(Tail(s)) /\ Head(s) \in S
           /\ InOrder(s) => InOrder(Tail(s)) /\ Precede({Head(s)} , Range(Tail(s)))
<1>1. PICK n \in Nat : Len(s) = n + 1
  <2>1. Len(s) \in Nat \ {0}
    BY EmptySeq
  <2>2. Len(s) - 1 \in Nat /\ Len(s) = (Len(s) - 1) + 1
    BY <2>1
  <2>3. QED
    BY <2>2
<1>2. PICK t : /\ t = Tail(s) /\ DOMAIN t = 1..n
               /\ \A i \in 1..n : t[i] = s[i + 1]
               /\ Head(s) = s[1] /\ Head(s) \in S
  <2>1. /\ Head(s) \in S /\ Tail(s) \in Seq(S) /\ Len(Tail(s)) = n /\ Head(s) = s[1]
        /\ \A i \in 1..Len(Tail(s)) : Tail(s)[i] = s[i + 1]
    BY <1>1, HeadTailProperties
  <2>2. DOMAIN Tail(s) = 1..n
    BY <2>1
  <2>3. QED
    BY <2>1, <2>2
<1>3. DOMAIN s = 1..n + 1
  BY <1>1
<1>4. Range(s) = {Head(s)} \cup Range(t)
  <2>1. \A i \in 1..n + 1 : i = 1 \/ (i - 1 \in 1..n /\ s[i] = t[i - 1])
    BY <1>2
  <2>2. \A i \in 1..n : i + 1 \in 1..n + 1
    OBVIOUS
  <2>3. 1 \in 1..n + 1
    OBVIOUS
  <2>4. \A x : x \in Range(s) => x \in {Head(s)} \cup Range(t)
    <3>1. ASSUME NEW i \in 1..n + 1 PROVE s[i] \in {Head(s)} \cup Range(t)
      <4>1. CASE i = 1
        BY <1>2, <4>1
      <4>2. CASE i - 1 \in DOMAIN t /\ s[i] = t[i - 1]
        BY <4>2 DEF Range
      <4>3. QED
        BY <1>2, <2>1, <4>1, <4>2
    <3>2. QED
      BY <1>3, <3>1 DEF Range
  <2>5. \A x : x \in {Head(s)} \cup Range(t) => x \in Range(s)
    BY <1>2, <1>3, <2>2, <2>3 DEF Range
  <2>6. QED
    BY <2>4, <2>5
<1>5. ASSUME InOrder(s)
      PROVE  InOrder(t) /\ Precede({Head(s)}, Range(t))
  <2>1. \A k, l \in 1..n : k < l => InputOf(t[k]) <= InputOf(t[l])
    <3> SUFFICES ASSUME NEW k \in 1..n, NEW l \in 1..n, k < l
                 PROVE  InputOf(t[k]) <= InputOf(t[l])
      OBVIOUS
    <3>1. k + 1 \in 1..n + 1 /\ l + 1 \in 1..n + 1 /\ k + 1 < l + 1
      OBVIOUS
    <3>2. QED
      BY <1>2, <1>3, <1>5, <3>1 DEF InOrder
  <2>2. ASSUME NEW k \in 1..n PROVE InputOf(s[1]) <= InputOf(t[k])
    <3>1. 1 \in 1..n + 1 /\ k + 1 \in 1..n + 1 /\ 1 < k + 1
      OBVIOUS
    <3>2. QED
      BY <1>2, <1>3, <1>5, <3>1 DEF InOrder
  <2>3. QED
    BY <1>2, <2>1, <2>2 DEF InOrder, Precede, Range
<1>6. QED
  BY <1>2, <1>4, <1>5

\* A file belongs to one input.
LEMMA InputOfFile ==
    ASSUME NEW i \in 1..N, NEW f \in Tree[i]
    PROVE  InputOf(f) = i
BY TreeAssumption DEF InputOf
-----------------------------------------------------------------------------
(* How files move down the pipeline *)

\* The steps that take a file from one stage to the next.
Moves == EnumFile \/ EnumTake \/ EnumPut \/ HashTake \/ HashFail \/ HashPut \/ ArchTake

\* The other steps leave every file where it is.
LEMMA NoMove ==
    ASSUME PcType, DataType, [Next]_vars, ~Moves
    PROVE  /\ UNCHANGED <<inputs, items, tree, stored, found>>
           /\ HeldBy("enum")' = HeldBy("enum") /\ HeldBy("hash")' = HeldBy("hash")
           /\ idx <= idx' /\ errors <= errors'
<1>0. /\ idx \in Nat /\ errors \in Nat
      /\ hand \in [{"walk", "enum", "hash"} -> File \cup {NoFile}]
  BY Constants DEF DataType
<1>p. PICK S : pc \in [Proc -> S]
  BY DEF PcType
<1> USE <1>0, <1>p DEF At, Goto, data, chans, result, HeldBy, Proc
<1>1. CASE WalkOffer
  BY <1>1 DEF WalkOffer
<1>2. CASE WalkFail
  BY <1>2 DEF WalkFail
<1>3. CASE WalkEnd
  BY <1>3 DEF WalkEnd
<1>4. CASE EnumMissing
  BY <1>4 DEF EnumMissing
<1>5. CASE EnumDir
  BY <1>5 DEF EnumDir
<1>6. CASE EnumInterrupt
  BY <1>6 DEF EnumInterrupt
<1>7. CASE EnumWalkError
  BY <1>7 DEF EnumWalkError
<1>8. CASE EnumDirDone
  BY <1>8 DEF EnumDirDone
<1>9. CASE EnumDone
  BY <1>9 DEF EnumDone
<1>10. CASE Log("enum")
  BY <1>10, LogEffect DEF Log, Worker
<1>11. CASE Close("enum")
  BY <1>11 DEF Close, Worker
<1>12. CASE Signal("enum")
  BY <1>12 DEF Signal, Worker
<1>13. CASE HashLoad
  BY <1>13 DEF HashLoad
<1>14. CASE HashInterrupt
  BY <1>14 DEF HashInterrupt
<1>15. CASE HashDone
  BY <1>15 DEF HashDone
<1>16. CASE HashSave
  BY <1>16 DEF HashSave
<1>17. CASE Log("hash")
  BY <1>17, LogEffect DEF Log, Worker
<1>18. CASE Close("hash")
  BY <1>18 DEF Close, Worker
<1>19. CASE Signal("hash")
  BY <1>19 DEF Signal, Worker
<1>20. CASE ArchInterrupt
  BY <1>20 DEF ArchInterrupt
<1>21. CASE ArchFinish
  BY <1>21 DEF ArchFinish
<1>22. CASE Log("arch")
  BY <1>22, LogEffect DEF Log, Worker
<1>23. CASE Close("arch")
  BY <1>23 DEF Close, Worker
<1>24. CASE Signal("arch")
  BY <1>24 DEF Signal, Worker
<1>25. CASE MainInterrupt
  BY <1>25 DEF MainInterrupt
<1>26. CASE MainEntry
  BY <1>26 DEF MainEntry
<1>27. CASE MainNoEntry
  BY <1>27 DEF MainNoEntry
<1>28. CASE MainReturn
  BY <1>28 DEF MainReturn
<1>29. CASE CtrlC
  BY <1>29 DEF CtrlC
<1>30. CASE UNCHANGED vars
  BY <1>30 DEF vars
<1>31. QED
  BY <1>1, <1>2, <1>3, <1>4, <1>5, <1>6, <1>7, <1>8, <1>9, <1>10, <1>11, <1>12, <1>13, <1>14,
     <1>15, <1>16, <1>17, <1>18, <1>19, <1>20, <1>21, <1>22, <1>23, <1>24, <1>25, <1>26, <1>27,
     <1>28, <1>29, <1>30 DEF Next, Walk, Enum, Hash, Arch, Main, Returned, Moves

\* enumerateInputs has a new file in hand, of the input it is at.
LEMMA EnumMoves ==
    ASSUME PcType, DataType, WalkInv, EnumFile \/ EnumTake
    PROVE  \E f \in Tree[idx] :
             /\ HeldBy("enum") = {} /\ HeldBy("enum")' = {f} /\ f \in File
             /\ HeldBy("hash")' = HeldBy("hash") /\ idx \in 1..N
             /\ found' = found \cup {f} /\ UNCHANGED <<inputs, items, tree, stored, idx, errors>>
             /\ EnumFile => Tree[idx] = {f}
             /\ EnumTake => f = hand["walk"] /\ ~At("walk", "idle")
<1>h. /\ hand \in [{"walk", "enum", "hash"} -> File \cup {NoFile}]
      /\ idx \in 1..N + 1 /\ N \in Nat /\ errors \in Nat
  BY Constants DEF DataType
<1>p. PICK S : pc \in [Proc -> S]
  BY DEF PcType
<1> USE <1>h, <1>p DEF At, Goto, data, chans, result, HeldBy, Proc
<1>1. CASE EnumFile
  <2>1. idx \in 1..N
    BY <1>1 DEF EnumFile
  <2>2. PICK f \in Tree[idx] : found' = found \cup {f} /\ hand' = [hand EXCEPT !["enum"] = f]
    BY <1>1 DEF EnumFile
  <2>3. Tree[idx] = {f}
    BY <1>1, <2>1, <2>2, TreeAssumption DEF EnumFile
  <2>4. ~EnumTake
    BY <1>1 DEF EnumFile, EnumTake
  <2>5. QED
    BY Constants, <1>1, <2>1, <2>2, <2>3, <2>4 DEF EnumFile
<1>2. CASE EnumTake
  <2>1. idx \in 1..N /\ hand["walk"] \in Tree[idx]
    BY <1>2 DEF EnumTake, WalkInv
  <2>2. ~EnumFile
    BY <1>2 DEF EnumFile, EnumTake
  <2>3. QED
    BY Constants, <1>2, <2>1, <2>2 DEF EnumTake
<1>3. QED
  BY <1>1, <1>2

\* The file goes from enumerateInputs to the end of inputs.
LEMMA EnumPutMoves ==
    ASSUME PcType, DataType, WalkInv, EnumPut
    PROVE  \E f \in File :
             /\ HeldBy("enum") = {f} /\ HeldBy("enum")' = {} /\ inputs' = Append(inputs, f)
             /\ HeldBy("hash")' = HeldBy("hash") /\ idx <= idx'
             /\ Range(inputs)' = Range(inputs) \cup {f}
             /\ InOrder(inputs) /\ Precede(Range(inputs), {f}) => InOrder(inputs')
             /\ UNCHANGED <<items, tree, stored, found, errors>>
<1>h. /\ hand \in [{"walk", "enum", "hash"} -> File \cup {NoFile}]
      /\ idx \in 1..N + 1 /\ N \in Nat /\ errors \in Nat
  BY Constants DEF DataType
<1>p. PICK S : pc \in [Proc -> S]
  BY DEF PcType
<1> USE <1>h, <1>p DEF At, Goto, data, chans, result, HeldBy, Proc
<1>1. PICK f \in File : f = hand["enum"]
  BY Constants DEF EnumPut, WalkInv
<1>2. inputs \in Seq(File) /\ inputs' = Append(inputs, f)
  BY <1>1 DEF EnumPut, DataType
<1>3. /\ Range(Append(inputs, f)) = Range(inputs) \cup {f}
      /\ InOrder(inputs) /\ Precede(Range(inputs), {f}) => InOrder(Append(inputs, f))
  BY <1>2, AppendRange
<1>4. /\ Range(inputs)' = Range(inputs) \cup {f}
      /\ InOrder(inputs) /\ Precede(Range(inputs), {f}) => InOrder(inputs')
  BY <1>2, <1>3
<1>5. HeldBy("enum") = {f} /\ HeldBy("enum")' = {}
  BY <1>1 DEF EnumPut
<1>6. HeldBy("hash")' = HeldBy("hash") /\ idx <= idx'
  BY DEF EnumPut
<1>7. UNCHANGED <<items, tree, stored, found, errors>>
  BY DEF EnumPut
<1>8. QED
  BY <1>2, <1>4, <1>5, <1>6, <1>7

\* The file at the head of inputs goes to hashInputs, or is dropped.
LEMMA HashTakeMoves ==
    ASSUME PcType, DataType, HashTake \/ HashFail
    PROVE  \E f \in File :
             /\ Range(inputs) = {f} \cup Range(inputs)'
             /\ InOrder(inputs) => InOrder(inputs') /\ Precede({f}, Range(inputs'))
             /\ HeldBy("hash") = {} /\ HeldBy("enum")' = HeldBy("enum")
             /\ HeldBy("hash")' = IF HashTake THEN {f} ELSE {}
             /\ UNCHANGED <<items, tree, stored, found, idx>>
             /\ errors' = IF HashTake THEN errors ELSE errors + 1
<1>h. /\ hand \in [{"walk", "enum", "hash"} -> File \cup {NoFile}]
      /\ idx \in 1..N + 1 /\ N \in Nat /\ errors \in Nat
  BY Constants DEF DataType
<1>p. PICK S : pc \in [Proc -> S]
  BY DEF PcType
<1> USE <1>h, <1>p DEF At, Goto, data, chans, result, HeldBy, Proc
<1>1. inputs \in Seq(File) /\ inputs # <<>> /\ inputs' = Tail(inputs)
  BY DEF HashTake, HashFail, DataType
<1>2. /\ Head(inputs) \in File /\ Range(inputs) = {Head(inputs)} \cup Range(inputs)'
      /\ InOrder(inputs) => InOrder(inputs') /\ Precede({Head(inputs)}, Range(inputs'))
  BY <1>1, TailRange
<1>3. CASE HashTake
  BY <1>2, <1>3 DEF HashTake
<1>4. CASE HashFail
  <2>1. pc'["hash"] = "hasherr" /\ pc'["enum"] = pc["enum"] /\ ~HashTake
    BY <1>4 DEF HashFail, HashTake
  <2>2. QED
    BY <1>2, <1>4, <2>1 DEF HashFail
<1>5. QED
  BY <1>3, <1>4

\* The file goes from hashInputs to the end of items.
LEMMA HashPutMoves ==
    ASSUME PcType, DataType, WalkInv, HashPut
    PROVE  \E f \in File :
             /\ HeldBy("hash") = {f} /\ HeldBy("hash")' = {}
             /\ HeldBy("enum")' = HeldBy("enum")
             /\ Range(items)' = Range(items) \cup {f}
             /\ InOrder(items) /\ Precede(Range(items), {f}) => InOrder(items')
             /\ UNCHANGED <<inputs, tree, stored, found, errors, idx>>
<1>h. /\ hand \in [{"walk", "enum", "hash"} -> File \cup {NoFile}]
      /\ idx \in 1..N + 1 /\ N \in Nat /\ errors \in Nat
  BY Constants DEF DataType
<1>p. PICK S : pc \in [Proc -> S]
  BY DEF PcType
<1> USE <1>h, <1>p DEF At, Goto, data, chans, result, HeldBy, Proc
<1>1. PICK f \in File : f = hand["hash"]
  BY DEF HashPut, DataType, WalkInv
<1>2. items \in Seq(File) /\ items' = Append(items, f)
  BY <1>1 DEF HashPut, DataType
<1>3. /\ Range(Append(items, f)) = Range(items) \cup {f}
      /\ InOrder(items) /\ Precede(Range(items), {f}) => InOrder(Append(items, f))
  BY <1>2, AppendRange
<1>4. /\ Range(items)' = Range(items) \cup {f}
      /\ InOrder(items) /\ Precede(Range(items), {f}) => InOrder(items')
  BY <1>2, <1>3
<1>5. HeldBy("hash") = {f} /\ HeldBy("hash")' = {}
  BY <1>1 DEF HashPut
<1>6. QED
  BY <1>2, <1>4, <1>5 DEF HashPut

\* The file at the head of items is listed; it is stored, or an error is counted.
LEMMA ArchTakeMoves ==
    ASSUME PcType, DataType, ArchTake
    PROVE  \E f \in File :
             /\ Range(items) = {f} \cup Range(items)'
             /\ InOrder(items) => InOrder(items') /\ Precede({f}, Range(items'))
             /\ HeldBy("enum")' = HeldBy("enum") /\ HeldBy("hash")' = HeldBy("hash")
             /\ tree' = [tree EXCEPT ![Rel[f]] = f]
             /\ Listed' \subseteq Listed \cup {f}
             /\ \/ stored' = stored \cup {f} /\ errors' = errors
                \/ stored' = stored /\ errors' = errors + 1
             /\ UNCHANGED <<inputs, found, idx>>
<1>h. /\ hand \in [{"walk", "enum", "hash"} -> File \cup {NoFile}]
      /\ idx \in 1..N + 1 /\ N \in Nat /\ errors \in Nat
  BY Constants DEF DataType
<1>p. PICK S : pc \in [Proc -> S]
  BY DEF PcType
<1> USE <1>h, <1>p DEF At, Goto, data, chans, result, HeldBy, Proc
<1>1. items \in Seq(File) /\ items # <<>> /\ items' = Tail(items)
  BY DEF ArchTake, DataType
<1>2. /\ Head(items) \in File /\ Range(items) = {Head(items)} \cup Range(items)'
      /\ InOrder(items) => InOrder(items') /\ Precede({Head(items)}, Range(items'))
  BY <1>1, TailRange
<1>3. tree' = [tree EXCEPT ![Rel[Head(items)]] = Head(items)]
  BY DEF ArchTake
<1>4. Listed' \subseteq Listed \cup {Head(items)}
  BY <1>2, <1>3 DEF Listed, Range, DataType
<1>5. HeldBy("enum")' = HeldBy("enum") /\ HeldBy("hash")' = HeldBy("hash")
  BY DEF ArchTake
<1>6. QED
  BY <1>2, <1>3, <1>4, <1>5 DEF ArchTake

-----------------------------------------------------------------------------
(* The steps that are left *)

\* What each goroutine adds to StepsLeft.
WalkEffort == Effort.walk[pc["walk"]]
EnumEffort == Effort.enum[pc["enum"]]
HashEffort == Effort.hash[pc["hash"]]
ArchEffort == Effort.arch[pc["arch"]]
MainEffort == Effort.main[pc["main"]]
FilesAhead == Cardinality(Ahead)
IntrEffort == IF intr THEN 0 ELSE 1

\* The weights of the labels of EnumerateTree.
LEMMA WalkTable ==
    /\ Effort.walk["idle"] = 0 /\ Effort.walk["end"] = 0 /\ Effort.walk["fail"] = 2
    /\ Effort.walk["scan"] = 3 /\ Effort.walk["offer"] = 9
BY DEF Effort

\* Those of enumerateInputs.
LEMMA EnumTable ==
    /\ Effort.enum["exit"] = 0 /\ Effort.enum["signal"] = 1 /\ Effort.enum["close"] = 2
    /\ Effort.enum["enumerated"] = 3 /\ Effort.enum["walk"] = 4 /\ Effort.enum["walkerr"] = 5
    /\ Effort.enum["put"] = 9 /\ Effort.enum["next"] = 10 /\ Effort.enum["missing"] = 11
BY DEF Effort

\* Those of hashInputs.
LEMMA HashTable ==
    /\ Effort.hash["exit"] = 0 /\ Effort.hash["signal"] = 1 /\ Effort.hash["save"] = 2
    /\ Effort.hash["close"] = 3 /\ Effort.hash["hashed"] = 4 /\ Effort.hash["select"] = 5
    /\ Effort.hash["hasherr"] = 6 /\ Effort.hash["nocache"] = 6 /\ Effort.hash["load"] = 7
    /\ Effort.hash["put"] = 8
BY DEF Effort

\* Those of archiveInputs.
LEMMA ArchTable ==
    /\ Effort.arch["exit"] = 0 /\ Effort.arch["signal"] = 1 /\ Effort.arch["close"] = 2
    /\ Effort.arch["send"] = 3 /\ Effort.arch["entryerr"] = 3 /\ Effort.arch["select"] = 4
    /\ Effort.arch["itemerr"] = 5
BY DEF Effort

\* Those of main.
LEMMA MainTable ==
    /\ Effort.main["returned"] = 0 /\ Effort.main["wait"] = 1 /\ Effort.main["loop"] = 2
BY DEF Effort

\* StepsLeft is a sum of natural numbers.
EffortType == /\ WalkEffort \in Nat /\ EnumEffort \in Nat /\ HashEffort \in Nat
              /\ ArchEffort \in Nat /\ MainEffort \in Nat /\ IntrEffort \in Nat
              /\ Len(inputs) \in Nat /\ Len(items) \in Nat /\ UnderWay \in Nat
              /\ UnderWay = 4 * Len(inputs) + 2 * Len(items) + WalkEffort + EnumEffort
                            + HashEffort + ArchEffort + MainEffort + IntrEffort

\* Every label has its weight.
LEMMA LabelsHaveEffort == PcType /\ DataType => EffortType
<1> HAVE PcType /\ DataType
<1>1. /\ pc["walk"] \in Labels["walk"] /\ pc["enum"] \in Labels["enum"]
      /\ pc["hash"] \in Labels["hash"] /\ pc["arch"] \in Labels["arch"]
      /\ pc["main"] \in Labels["main"]
  BY DEF PcType, Proc
<1>2. WalkEffort \in Nat
  BY <1>1, WalkTable DEF WalkEffort, Labels
<1>3. EnumEffort \in Nat
  BY <1>1, EnumTable DEF EnumEffort, Labels
<1>4. HashEffort \in Nat
  BY <1>1, HashTable DEF HashEffort, Labels
<1>5. ArchEffort \in Nat
  BY <1>1, ArchTable DEF ArchEffort, Labels
<1>6. MainEffort \in Nat
  BY <1>1, MainTable DEF MainEffort, Labels
<1>7. IntrEffort \in Nat /\ Len(inputs) \in Nat /\ Len(items) \in Nat
  BY DEF IntrEffort, DataType
<1>8. UnderWay = 4 * Len(inputs) + 2 * Len(items) + WalkEffort + EnumEffort
                 + HashEffort + ArchEffort + MainEffort + IntrEffort
  BY DEF UnderWay, WalkEffort, EnumEffort, HashEffort, ArchEffort, MainEffort, IntrEffort
<1>9. UnderWay \in Nat
  BY <1>2, <1>3, <1>4, <1>5, <1>6, <1>7, <1>8
<1>10. QED
  BY <1>2, <1>3, <1>4, <1>5, <1>6, <1>7, <1>8, <1>9 DEF EffortType

\* There are finitely many files ahead, and no more of them when some are dropped.
LEMMA AheadFinite == DataType => IsFiniteSet(Ahead) /\ FilesAhead \in Nat
<1> HAVE DataType
<1>1. Ahead \subseteq File
  <2>1. \A i \in idx..N : Tree[i] \subseteq File
    BY Constants DEF DataType
  <2>2. \A i \in idx + 1..N : Tree[i] \subseteq File
    BY Constants DEF DataType
  <2>3. todo \subseteq File
    BY DEF DataType
  <2>4. QED
    BY <2>1, <2>2, <2>3, Zenon DEF Ahead
<1>2. IsFiniteSet(File)
  BY InputsAssumption
<1>3. IsFiniteSet(Ahead)
  BY <1>1, <1>2, FS_Subset
<1>4. QED
  BY <1>3, FS_CardinalityType DEF FilesAhead

\* A step after which fewer files are ahead, or the same.
LEMMA AheadShrinks ==
    ASSUME DataType, Ahead' \subseteq Ahead
    PROVE  FilesAhead' <= FilesAhead
BY AheadFinite, FS_Subset DEF FilesAhead

\* A step that takes one file from those that are ahead.
LEMMA AheadLoses ==
    ASSUME DataType, NEW f \in Ahead, Ahead' = Ahead \ {f}
    PROVE  FilesAhead' = FilesAhead - 1
BY AheadFinite, FS_RemoveElement DEF FilesAhead

\* The steps that do not move enumerateInputs to another input.
LEMMA AheadKept ==
    ASSUME idx' = idx, todo' \subseteq todo, (pc'["walk"] = "idle") <=> (pc["walk"] = "idle")
    PROVE  Ahead' \subseteq Ahead
BY Zenon DEF Ahead, At

\* An input that is done is no longer ahead.
LEMMA AheadNext ==
    ASSUME DataType, idx' = idx + 1,
           \/ pc["walk"] = "idle" /\ pc'["walk"] = "idle"
           \/ pc["walk"] # "idle" /\ pc'["walk"] = "idle"
           \/ pc["walk"] # "idle" /\ pc'["walk"] # "idle" /\ todo' = todo
    PROVE  Ahead' \subseteq Ahead
<1>1. idx + 1..N \subseteq idx..N /\ idx' + 1..N \subseteq idx + 1..N
  BY Constants DEF DataType
<1>2. QED
  BY <1>1, Zenon DEF Ahead, At

\* The directory that is walked next was ahead.
LEMMA AheadDir ==
    ASSUME DataType, idx' = idx, idx <= N, todo' = Tree[idx], pc["walk"] = "idle"
    PROVE  Ahead' \subseteq Ahead
<1>1. idx + 1..N \subseteq idx..N /\ idx \in idx..N
  BY Constants DEF DataType
<1>2. QED
  BY <1>1, Zenon DEF Ahead, At

\* The walk takes a file that was ahead and is of no later input.
LEMMA AheadOffer ==
    ASSUME PcType, DataType, WalkInv, WalkOffer
    PROVE  FilesAhead' = FilesAhead - 1
<1>1. PICK f \in todo : todo' = todo \ {f}
  BY DEF WalkOffer
<1>2. /\ pc["walk"] = "scan" /\ pc'["walk"] = "offer" /\ idx' = idx
  BY DEF WalkOffer, At, Goto, PcType, Proc
<1>3. idx \in 1..N /\ f \in Tree[idx]
  BY <1>2, Constants DEF WalkInv, DataType
<1>4. \A i \in idx + 1..N : f \notin Tree[i]
  <2> SUFFICES ASSUME NEW i \in idx + 1..N PROVE f \notin Tree[i]
    OBVIOUS
  <2>1. i \in 1..N /\ i # idx
    BY <1>3, Constants
  <2>2. QED
    BY <1>3, <2>1, TreeAssumption
<1>5. /\ Ahead = todo \cup UNION {Tree[i] : i \in idx + 1..N}
      /\ Ahead' = todo' \cup UNION {Tree[i] : i \in idx + 1..N}
  BY <1>2 DEF Ahead, At
<1>6. f \in Ahead /\ Ahead' = Ahead \ {f}
  BY <1>1, <1>4, <1>5
<1>7. QED
  BY <1>6, AheadLoses

\* The sum that StepsLeft is, before and after a step.
LEMMA SumFalls ==
    ASSUME NEW n \in Int, NEW i \in Int, NEW j \in Int, NEW a \in Int, NEW b \in Int,
           NEW u \in Int, NEW v \in Int,
           \/ b <= a /\ 7 * i + v < 7 * j + u
           \/ b = a - 1 /\ i = j /\ v = u + 6
    PROVE  7 * (n + 1 - j) + 7 * b + v < 7 * (n + 1 - i) + 7 * a + u
OBVIOUS

\* StepsLeft falls when, with no more files ahead, what is under way falls or an
\* input is done that makes up for it; and when one file less is ahead.
LEMMA Falls ==
    ASSUME DataType, DataType', EffortType, EffortType',
           \/ FilesAhead' <= FilesAhead /\ 7 * idx + UnderWay' < 7 * idx' + UnderWay
           \/ FilesAhead' = FilesAhead - 1 /\ idx = idx' /\ UnderWay' = UnderWay + 6
    PROVE  StepsLeft' < StepsLeft
<1>1. idx \in Int /\ idx' \in Int /\ N \in Int
  BY Constants DEF DataType
<1>2. UnderWay \in Int /\ UnderWay' \in Int
  BY DEF EffortType
<1>3. FilesAhead \in Int /\ FilesAhead' \in Int
  <2>1. DataType => FilesAhead \in Nat
    BY AheadFinite
  <2>2. (FilesAhead \in Nat)'
    BY <2>1, AheadFinite, PTL
  <2>3. QED
    BY <2>1, <2>2
<1>4. /\ StepsLeft = 7 * (N + 1 - idx) + 7 * FilesAhead + UnderWay
      /\ StepsLeft' = 7 * (N + 1 - idx') + 7 * FilesAhead' + UnderWay'
  BY DEF StepsLeft, FilesAhead
<1>5. 7 * (N + 1 - idx') + 7 * FilesAhead' + UnderWay' < 7 * (N + 1 - idx) + 7 * FilesAhead + UnderWay
  BY <1>1, <1>2, <1>3, SumFalls
<1>6. QED
  BY <1>4, <1>5, Zenon

\* The steps of the goroutines that do not enumerate.
LEMMA FallsDownstream ==
    ASSUME DataType, DataType', EffortType, EffortType', UnderWay' < UnderWay,
           idx' = idx, todo' = todo, pc'["walk"] = pc["walk"]
    PROVE  StepsLeft' < StepsLeft
<1>1. FilesAhead' <= FilesAhead
  BY AheadKept, AheadShrinks
<1>2. 7 * idx \in Int /\ UnderWay \in Int /\ UnderWay' \in Int
  BY DEF EffortType, DataType
<1>3. 7 * idx + UnderWay' < 7 * idx' + UnderWay
  <2>1. \A i, u, v \in Int : v < u => i + v < i + u
    OBVIOUS
  <2>2. QED
    BY <1>2, <2>1, Zenon
<1>4. QED
  BY <1>1, <1>3, Falls

\* A step of the walk or of enumerateInputs that sends nothing on a channel: a label
\* with less to do, a file taken from those ahead, or an input that is done.
LEMMA EnumFalls ==
    ASSUME PcType, DataType, DataType', EffortType, EffortType', WalkInv, Walk \/ (Enum /\ ~EnumPut)
    PROVE  StepsLeft' < StepsLeft
<1>0. /\ idx \in 1..N + 1 /\ N \in Nat /\ intr \in BOOLEAN
      /\ inputs \in Seq(File) /\ items \in Seq(File)
  BY Constants DEF DataType
<1>p. PICK S : pc \in [Proc -> S]
  BY DEF PcType
<1> USE <1>0, <1>p DEF At, Goto, data, chans, result, Proc
<1>1. CASE WalkOffer
  <2>1. WalkEffort = 3 /\ WalkEffort' = 9
    BY <1>1, WalkTable DEF WalkOffer, WalkEffort
  <2>2. UNCHANGED <<idx, inputs, items, EnumEffort, HashEffort, ArchEffort, MainEffort, IntrEffort>>
    BY <1>1 DEF WalkOffer, EnumEffort, HashEffort, ArchEffort, MainEffort, IntrEffort
  <2>3. UnderWay' = UnderWay + 6
    BY <2>1, <2>2 DEF EffortType
  <2>4. QED
    BY <1>1, <2>2, <2>3, AheadOffer, Falls
<1>2. CASE WalkFail
  <2>1. WalkEffort = 3 /\ WalkEffort' = 2
    BY <1>2, WalkTable DEF WalkFail, WalkEffort
  <2>2. UNCHANGED <<idx, inputs, items, EnumEffort, HashEffort, ArchEffort, MainEffort, IntrEffort>>
    BY <1>2 DEF WalkFail, EnumEffort, HashEffort, ArchEffort, MainEffort, IntrEffort
  <2>3. Ahead' \subseteq Ahead
    BY <1>2, AheadKept DEF WalkFail
  <2>4. 7 * idx + UnderWay' < 7 * idx' + UnderWay
    BY <2>1, <2>2, <2>3 DEF EffortType
  <2>5. QED
    BY <2>3, <2>4, AheadShrinks, Falls
<1>3. CASE WalkEnd
  <2>1. WalkEffort = 3 /\ WalkEffort' = 0
    BY <1>3, WalkTable DEF WalkEnd, WalkEffort
  <2>2. UNCHANGED <<idx, inputs, items, EnumEffort, HashEffort, ArchEffort, MainEffort, IntrEffort>>
    BY <1>3 DEF WalkEnd, EnumEffort, HashEffort, ArchEffort, MainEffort, IntrEffort
  <2>3. Ahead' \subseteq Ahead
    BY <1>3, AheadKept DEF WalkEnd
  <2>4. 7 * idx + UnderWay' < 7 * idx' + UnderWay
    BY <2>1, <2>2, <2>3 DEF EffortType
  <2>5. QED
    BY <2>3, <2>4, AheadShrinks, Falls
<1>4. CASE EnumMissing
  <2>1. EnumEffort = 10 /\ EnumEffort' = 11
    BY <1>4, EnumTable DEF EnumMissing, EnumEffort
  <2>2. UNCHANGED <<inputs, items, WalkEffort, HashEffort, ArchEffort, MainEffort, IntrEffort>>
    BY <1>4 DEF EnumMissing, WalkEffort, HashEffort, ArchEffort, MainEffort, IntrEffort
  <2>3. Ahead' \subseteq Ahead /\ idx' = idx + 1
    BY <1>4, AheadNext DEF EnumMissing, WalkInv
  <2>4. 7 * idx + UnderWay' < 7 * idx' + UnderWay
    BY <2>1, <2>2, <2>3 DEF EffortType
  <2>5. QED
    BY <2>3, <2>4, AheadShrinks, Falls
<1>5. CASE EnumFile
  <2>1. EnumEffort = 10 /\ EnumEffort' = 9
    BY <1>5, EnumTable DEF EnumFile, EnumEffort
  <2>2. UNCHANGED <<idx, inputs, items, WalkEffort, HashEffort, ArchEffort, MainEffort, IntrEffort>>
    BY <1>5 DEF EnumFile, WalkEffort, HashEffort, ArchEffort, MainEffort, IntrEffort
  <2>3. Ahead' \subseteq Ahead
    BY <1>5, AheadKept DEF EnumFile
  <2>4. 7 * idx + UnderWay' < 7 * idx' + UnderWay
    BY <2>1, <2>2, <2>3 DEF EffortType
  <2>5. QED
    BY <2>3, <2>4, AheadShrinks, Falls
<1>6. CASE EnumDir
  <2>1. EnumEffort = 10 /\ EnumEffort' = 4 /\ WalkEffort = 0 /\ WalkEffort' = 3
    BY <1>6, WalkTable, EnumTable DEF EnumDir, EnumEffort, WalkEffort, WalkInv
  <2>2. UNCHANGED <<idx, inputs, items, HashEffort, ArchEffort, MainEffort, IntrEffort>>
    BY <1>6 DEF EnumDir, HashEffort, ArchEffort, MainEffort, IntrEffort
  <2>3. Ahead' \subseteq Ahead
    BY <1>6, AheadDir DEF EnumDir, WalkInv
  <2>4. 7 * idx + UnderWay' < 7 * idx' + UnderWay
    BY <2>1, <2>2, <2>3 DEF EffortType
  <2>5. QED
    BY <2>3, <2>4, AheadShrinks, Falls
<1>7. CASE EnumInterrupt
  <2>1. EnumEffort = 4 /\ EnumEffort' = 2
    BY <1>7, EnumTable DEF EnumInterrupt, EnumEffort
  <2>2. UNCHANGED <<idx, inputs, items, WalkEffort, HashEffort, ArchEffort, MainEffort, IntrEffort>>
    BY <1>7 DEF EnumInterrupt, WalkEffort, HashEffort, ArchEffort, MainEffort, IntrEffort
  <2>3. Ahead' \subseteq Ahead
    BY <1>7, AheadKept DEF EnumInterrupt
  <2>4. 7 * idx + UnderWay' < 7 * idx' + UnderWay
    BY <2>1, <2>2, <2>3 DEF EffortType
  <2>5. QED
    BY <2>3, <2>4, AheadShrinks, Falls
<1>8. CASE EnumTake
  <2>1. EnumEffort = 4 /\ EnumEffort' = 9 /\ WalkEffort = 9 /\ WalkEffort' = 3
    BY <1>8, WalkTable, EnumTable DEF EnumTake, EnumEffort, WalkEffort
  <2>2. UNCHANGED <<idx, inputs, items, HashEffort, ArchEffort, MainEffort, IntrEffort>>
    BY <1>8 DEF EnumTake, HashEffort, ArchEffort, MainEffort, IntrEffort
  <2>3. Ahead' \subseteq Ahead
    BY <1>8, AheadKept DEF EnumTake
  <2>4. 7 * idx + UnderWay' < 7 * idx' + UnderWay
    BY <2>1, <2>2, <2>3 DEF EffortType
  <2>5. QED
    BY <2>3, <2>4, AheadShrinks, Falls
<1>9. CASE EnumWalkError
  <2>1. EnumEffort = 4 /\ EnumEffort' = 5 /\ WalkEffort = 2 /\ WalkEffort' = 0
    BY <1>9, WalkTable, EnumTable DEF EnumWalkError, EnumEffort, WalkEffort
  <2>2. UNCHANGED <<idx, inputs, items, HashEffort, ArchEffort, MainEffort, IntrEffort>>
    BY <1>9 DEF EnumWalkError, HashEffort, ArchEffort, MainEffort, IntrEffort
  <2>3. Ahead' \subseteq Ahead
    BY <1>9, AheadKept DEF EnumWalkError
  <2>4. 7 * idx + UnderWay' < 7 * idx' + UnderWay
    BY <2>1, <2>2, <2>3 DEF EffortType
  <2>5. QED
    BY <2>3, <2>4, AheadShrinks, Falls
<1>10. CASE EnumDirDone
  <2>1. EnumEffort = 4 /\ EnumEffort' = 10 /\ WalkEffort = 0 /\ WalkEffort' = 0
    BY <1>10, WalkTable, EnumTable DEF EnumDirDone, EnumEffort, WalkEffort
  <2>2. UNCHANGED <<inputs, items, HashEffort, ArchEffort, MainEffort, IntrEffort>>
    BY <1>10 DEF EnumDirDone, HashEffort, ArchEffort, MainEffort, IntrEffort
  <2>3. Ahead' \subseteq Ahead /\ idx' = idx + 1
    BY <1>10, AheadNext DEF EnumDirDone, WalkInv
  <2>4. 7 * idx + UnderWay' < 7 * idx' + UnderWay
    BY <2>1, <2>2, <2>3 DEF EffortType
  <2>5. QED
    BY <2>3, <2>4, AheadShrinks, Falls
<1>11. CASE EnumDone
  <2>1. EnumEffort = 10 /\ EnumEffort' = 3
    BY <1>11, EnumTable DEF EnumDone, EnumEffort
  <2>2. UNCHANGED <<idx, inputs, items, WalkEffort, HashEffort, ArchEffort, MainEffort, IntrEffort>>
    BY <1>11 DEF EnumDone, WalkEffort, HashEffort, ArchEffort, MainEffort, IntrEffort
  <2>3. Ahead' \subseteq Ahead
    BY <1>11, AheadKept DEF EnumDone
  <2>4. 7 * idx + UnderWay' < 7 * idx' + UnderWay
    BY <2>1, <2>2, <2>3 DEF EffortType
  <2>5. QED
    BY <2>3, <2>4, AheadShrinks, Falls
<1>12. CASE Log("enum")
  <2>1. EnumEffort' = EnumEffort - 1
    BY <1>12, LogEffect, EnumTable DEF EnumEffort, Worker
  <2>2. UNCHANGED <<idx, inputs, items, todo, IntrEffort>>
    BY <1>12 DEF Log, IntrEffort
  <2>3. UNCHANGED <<WalkEffort, HashEffort, ArchEffort, MainEffort>> /\ pc'["walk"] = pc["walk"]
    BY <1>12, LogEffect DEF WalkEffort, HashEffort, ArchEffort, MainEffort, Worker
  <2>4. UnderWay' < UnderWay
    BY <2>1, <2>2, <2>3 DEF EffortType
  <2>5. QED
    BY <2>2, <2>3, <2>4, FallsDownstream
<1>13. CASE Close("enum")
  <2>1. EnumEffort = 2 /\ EnumEffort' = 1
    BY <1>13, EnumTable DEF Close, EnumEffort, Worker, Channel
  <2>2. UNCHANGED <<idx, inputs, items, WalkEffort, HashEffort, ArchEffort, MainEffort, IntrEffort>>
    BY <1>13 DEF Close, WalkEffort, HashEffort, ArchEffort, MainEffort, IntrEffort, Worker, Channel
  <2>3. UnderWay' < UnderWay
    BY <2>1, <2>2 DEF EffortType
  <2>4. todo' = todo /\ pc'["walk"] = pc["walk"]
    BY <1>13 DEF Close, Worker, Channel
  <2>5. QED
    BY <2>2, <2>3, <2>4, FallsDownstream
<1>14. CASE Signal("enum")
  <2>1. EnumEffort = 1 /\ EnumEffort' = 0
    BY <1>14, EnumTable DEF Signal, EnumEffort, Worker, Channel
  <2>2. UNCHANGED <<idx, inputs, items, WalkEffort, HashEffort, ArchEffort, MainEffort, IntrEffort>>
    BY <1>14 DEF Signal, WalkEffort, HashEffort, ArchEffort, MainEffort, IntrEffort, Worker, Channel
  <2>3. UnderWay' < UnderWay
    BY <2>1, <2>2 DEF EffortType
  <2>4. todo' = todo /\ pc'["walk"] = pc["walk"]
    BY <1>14 DEF Signal, Worker, Channel
  <2>5. QED
    BY <2>2, <2>3, <2>4, FallsDownstream
<1>15. QED
  BY <1>1, <1>2, <1>3, <1>4, <1>5, <1>6, <1>7, <1>8, <1>9, <1>10, <1>11, <1>12, <1>13, <1>14 DEF Walk, Enum

\* A send adds one file to a channel.
LEMMA LenFacts ==
    ASSUME NEW s \in Seq(File), NEW f \in File
    PROVE  Len(Append(s, f)) = Len(s) + 1
BY AppendProperties

\* A receive takes one off.
LEMMA TailFacts ==
    ASSUME NEW s \in Seq(File), s # <<>>
    PROVE  Len(Tail(s)) = Len(s) - 1
BY HeadTailProperties, EmptySeq

\* A file sent to hashInputs.
LEMMA EnumPutFalls ==
    ASSUME PcType, DataType, DataType', EffortType, EffortType', WalkInv, EnumPut
    PROVE  StepsLeft' < StepsLeft
<1>0. /\ idx \in 1..N + 1 /\ N \in Nat /\ intr \in BOOLEAN
      /\ inputs \in Seq(File) /\ items \in Seq(File)
  BY Constants DEF DataType
<1>p. PICK S : pc \in [Proc -> S]
  BY DEF PcType
<1> USE <1>0, <1>p DEF At, Goto, data, chans, result, Proc
<1>1. EnumEffort = 9 /\ hand["enum"] \in File /\ Len(inputs') = Len(inputs) + 1
  <2>1. hand["enum"] \in File
    <3>1. pc["enum"] = "put" /\ idx <= N /\ hand["enum"] \in Tree[idx]
      BY DEF EnumPut, WalkInv
    <3>2. QED
      BY <3>1, Constants
  <2>2. QED
    BY <2>1, LenFacts, EnumTable DEF EnumPut, EnumEffort
<1>2. UNCHANGED <<items, WalkEffort, HashEffort, ArchEffort, MainEffort, IntrEffort, todo>>
      /\ pc'["walk"] = pc["walk"]
  BY DEF EnumPut, WalkEffort, HashEffort, ArchEffort, MainEffort, IntrEffort
<1>3. \/ EnumEffort' = 4 /\ idx' = idx
      \/ EnumEffort' = 10 /\ idx' = idx + 1
  BY EnumTable DEF EnumPut, EnumEffort
<1>4. Ahead' \subseteq Ahead
  BY <1>2, <1>3, AheadKept, AheadNext
<1>5. CASE EnumEffort' = 4 /\ idx' = idx
  <2>1. UnderWay' < UnderWay
    BY <1>1, <1>2, <1>5 DEF EffortType
  <2>2. QED
    BY <1>2, <1>5, <2>1, FallsDownstream
<1>6. CASE EnumEffort' = 10 /\ idx' = idx + 1
  <2>1. UnderWay' = UnderWay + 5 /\ UnderWay \in Nat
    BY <1>1, <1>2, <1>6 DEF EffortType
  <2>2. 7 * idx + UnderWay' < 7 * idx' + UnderWay
    BY <1>6, <2>1
  <2>3. QED
    BY <1>4, <2>2, AheadShrinks, Falls
<1>7. QED
  BY <1>3, <1>5, <1>6

\* A step of hashInputs.
LEMMA HashFalls ==
    ASSUME PcType, DataType, DataType', EffortType, EffortType', WalkInv, Hash
    PROVE  StepsLeft' < StepsLeft
<1>0. /\ idx \in 1..N + 1 /\ N \in Nat /\ intr \in BOOLEAN
      /\ inputs \in Seq(File) /\ items \in Seq(File)
  BY Constants DEF DataType
<1>p. PICK S : pc \in [Proc -> S]
  BY DEF PcType
<1> USE <1>0, <1>p DEF At, Goto, data, chans, result, Proc
<1>1. CASE HashLoad
  <2>1. HashEffort = 7 /\ (HashEffort' = 5 \/ HashEffort' = 6)
    BY <1>1, HashTable DEF HashLoad, HashEffort
  <2>2. UNCHANGED <<inputs, items, WalkEffort, EnumEffort, ArchEffort, MainEffort, IntrEffort>>
    BY <1>1 DEF HashLoad, WalkEffort, EnumEffort, ArchEffort, MainEffort, IntrEffort
  <2>3. UnderWay' < UnderWay
    <3> HIDE <1>0, <1>p
    <3>1. CASE HashEffort' = 5
      BY <2>1, <2>2, <3>1 DEF EffortType
    <3>2. CASE HashEffort' = 6
      BY <2>1, <2>2, <3>2 DEF EffortType
    <3>3. QED
      BY <2>1, <3>1, <3>2
  <2>4. todo' = todo /\ idx' = idx /\ pc'["walk"] = pc["walk"]
    BY <1>1 DEF HashLoad
  <2>5. QED
    BY <2>3, <2>4, FallsDownstream
<1>2. CASE HashInterrupt
  <2>1. HashEffort = 5 /\ HashEffort' = 3
    BY <1>2, HashTable DEF HashInterrupt, HashEffort
  <2>2. UNCHANGED <<inputs, items, WalkEffort, EnumEffort, ArchEffort, MainEffort, IntrEffort>>
    BY <1>2 DEF HashInterrupt, WalkEffort, EnumEffort, ArchEffort, MainEffort, IntrEffort
  <2>3. UnderWay' < UnderWay
    BY <2>1, <2>2 DEF EffortType
  <2>4. todo' = todo /\ idx' = idx /\ pc'["walk"] = pc["walk"]
    BY <1>2 DEF HashInterrupt
  <2>5. QED
    BY <2>3, <2>4, FallsDownstream
<1>3. CASE HashTake
  <2>1. HashEffort = 5 /\ HashEffort' = 8 /\ Len(inputs') = Len(inputs) - 1
    <3>1. HashEffort = 5 /\ HashEffort' = 8
      BY <1>3, HashTable DEF HashTake, HashEffort
    <3>2. inputs # <<>> /\ inputs' = Tail(inputs)
      BY <1>3 DEF HashTake
    <3>3. QED
      BY <3>1, <3>2, TailFacts
  <2>2. UNCHANGED <<items, WalkEffort, EnumEffort, ArchEffort, MainEffort, IntrEffort>>
    BY <1>3 DEF HashTake, WalkEffort, EnumEffort, ArchEffort, MainEffort, IntrEffort
  <2>3. UnderWay' < UnderWay
    BY <2>1, <2>2 DEF EffortType
  <2>4. todo' = todo /\ idx' = idx /\ pc'["walk"] = pc["walk"]
    BY <1>3 DEF HashTake
  <2>5. QED
    BY <2>3, <2>4, FallsDownstream
<1>4. CASE HashFail
  <2>1. HashEffort = 5 /\ HashEffort' = 6 /\ Len(inputs') = Len(inputs) - 1
    BY <1>4, TailFacts, HashTable DEF HashFail, HashEffort
  <2>2. UNCHANGED <<items, WalkEffort, EnumEffort, ArchEffort, MainEffort, IntrEffort>>
    BY <1>4 DEF HashFail, WalkEffort, EnumEffort, ArchEffort, MainEffort, IntrEffort
  <2>3. UnderWay' < UnderWay
    BY <2>1, <2>2 DEF EffortType
  <2>4. todo' = todo /\ idx' = idx /\ pc'["walk"] = pc["walk"]
    BY <1>4 DEF HashFail
  <2>5. QED
    BY <2>3, <2>4, FallsDownstream
<1>5. CASE HashPut
  <2>1. HashEffort = 8 /\ HashEffort' = 5 /\ Len(items') = Len(items) + 1
    BY <1>5, LenFacts, HashTable DEF HashPut, HashEffort, WalkInv
  <2>2. UNCHANGED <<inputs, WalkEffort, EnumEffort, ArchEffort, MainEffort, IntrEffort>>
    BY <1>5 DEF HashPut, WalkEffort, EnumEffort, ArchEffort, MainEffort, IntrEffort
  <2>3. UnderWay' < UnderWay
    BY <2>1, <2>2 DEF EffortType
  <2>4. todo' = todo /\ idx' = idx /\ pc'["walk"] = pc["walk"]
    BY <1>5 DEF HashPut
  <2>5. QED
    BY <2>3, <2>4, FallsDownstream
<1>6. CASE HashDone
  <2>1. HashEffort = 5 /\ HashEffort' = 4
    BY <1>6, HashTable DEF HashDone, HashEffort
  <2>2. UNCHANGED <<inputs, items, WalkEffort, EnumEffort, ArchEffort, MainEffort, IntrEffort>>
    BY <1>6 DEF HashDone, WalkEffort, EnumEffort, ArchEffort, MainEffort, IntrEffort
  <2>3. UnderWay' < UnderWay
    BY <2>1, <2>2 DEF EffortType
  <2>4. todo' = todo /\ idx' = idx /\ pc'["walk"] = pc["walk"]
    BY <1>6 DEF HashDone
  <2>5. QED
    BY <2>3, <2>4, FallsDownstream
<1>7. CASE HashSave
  <2>1. HashEffort = 2 /\ HashEffort' = 1
    BY <1>7, HashTable DEF HashSave, HashEffort
  <2>2. UNCHANGED <<inputs, items, WalkEffort, EnumEffort, ArchEffort, MainEffort, IntrEffort>>
    BY <1>7 DEF HashSave, WalkEffort, EnumEffort, ArchEffort, MainEffort, IntrEffort
  <2>3. UnderWay' < UnderWay
    BY <2>1, <2>2 DEF EffortType
  <2>4. todo' = todo /\ idx' = idx /\ pc'["walk"] = pc["walk"]
    BY <1>7 DEF HashSave
  <2>5. QED
    BY <2>3, <2>4, FallsDownstream
<1>8. CASE Log("hash")
  <2>1. HashEffort' = HashEffort - 1
    <3>1. \/ pc["hash"] \in {"nocache", "hasherr"} /\ pc'["hash"] = "select"
          \/ pc["hash"] = "hashed" /\ pc'["hash"] = "close"
      BY <1>8, LogEffect DEF Worker
    <3>2. QED
      BY <3>1, HashTable DEF HashEffort
  <2>2. UNCHANGED <<idx, inputs, items, todo, IntrEffort>>
    BY <1>8 DEF Log, IntrEffort
  <2>3. UNCHANGED <<WalkEffort, EnumEffort, ArchEffort, MainEffort>> /\ pc'["walk"] = pc["walk"]
    BY <1>8, LogEffect DEF WalkEffort, EnumEffort, ArchEffort, MainEffort, Worker
  <2>4. UnderWay' < UnderWay
    BY <2>1, <2>2, <2>3 DEF EffortType
  <2>5. QED
    BY <2>2, <2>3, <2>4, FallsDownstream
<1>9. CASE Close("hash")
  <2>1. HashEffort = 3 /\ HashEffort' = 2
    BY <1>9, HashTable DEF Close, HashEffort
  <2>2. UNCHANGED <<inputs, items, WalkEffort, EnumEffort, ArchEffort, MainEffort, IntrEffort>>
    BY <1>9 DEF Close, WalkEffort, EnumEffort, ArchEffort, MainEffort, IntrEffort
  <2>3. UnderWay' < UnderWay
    BY <2>1, <2>2 DEF EffortType
  <2>4. todo' = todo /\ idx' = idx /\ pc'["walk"] = pc["walk"]
    BY <1>9 DEF Close
  <2>5. QED
    BY <2>3, <2>4, FallsDownstream
<1>10. CASE Signal("hash")
  <2>1. HashEffort = 1 /\ HashEffort' = 0
    BY <1>10, HashTable DEF Signal, HashEffort
  <2>2. UNCHANGED <<inputs, items, WalkEffort, EnumEffort, ArchEffort, MainEffort, IntrEffort>>
    BY <1>10 DEF Signal, WalkEffort, EnumEffort, ArchEffort, MainEffort, IntrEffort
  <2>3. UnderWay' < UnderWay
    BY <2>1, <2>2 DEF EffortType
  <2>4. todo' = todo /\ idx' = idx /\ pc'["walk"] = pc["walk"]
    BY <1>10 DEF Signal
  <2>5. QED
    BY <2>3, <2>4, FallsDownstream
<1>11. QED
  BY <1>1, <1>2, <1>3, <1>4, <1>5, <1>6, <1>7, <1>8, <1>9, <1>10 DEF Hash

\* A step of archiveInputs.
LEMMA ArchFalls ==
    ASSUME PcType, DataType, DataType', EffortType, EffortType', WalkInv, Arch
    PROVE  StepsLeft' < StepsLeft
<1>0. /\ idx \in 1..N + 1 /\ N \in Nat /\ intr \in BOOLEAN
      /\ inputs \in Seq(File) /\ items \in Seq(File)
  BY Constants DEF DataType
<1>p. PICK S : pc \in [Proc -> S]
  BY DEF PcType
<1> USE <1>0, <1>p DEF At, Goto, data, chans, result, Proc
<1>1. CASE ArchInterrupt
  <2>1. ArchEffort = 4 /\ ArchEffort' = 2
    BY <1>1, ArchTable DEF ArchInterrupt, ArchEffort
  <2>2. UNCHANGED <<inputs, items, WalkEffort, EnumEffort, HashEffort, MainEffort, IntrEffort>>
    BY <1>1 DEF ArchInterrupt, WalkEffort, EnumEffort, HashEffort, MainEffort, IntrEffort
  <2>3. UnderWay' < UnderWay
    BY <2>1, <2>2 DEF EffortType
  <2>4. todo' = todo /\ idx' = idx /\ pc'["walk"] = pc["walk"]
    BY <1>1 DEF ArchInterrupt
  <2>5. QED
    BY <2>3, <2>4, FallsDownstream
<1>2. CASE ArchTake
  <2>1. ArchEffort = 4 /\ ArchEffort' \in {4, 5} /\ Len(items') = Len(items) - 1
    <3>1. ArchEffort = 4 /\ ArchEffort' \in {4, 5}
      BY <1>2, ArchTable DEF ArchTake, ArchEffort
    <3>2. items # <<>> /\ items' = Tail(items)
      BY <1>2 DEF ArchTake
    <3>3. QED
      BY <3>1, <3>2, TailFacts
  <2>2. UNCHANGED <<inputs, WalkEffort, EnumEffort, HashEffort, MainEffort, IntrEffort>>
    BY <1>2 DEF ArchTake, WalkEffort, EnumEffort, HashEffort, MainEffort, IntrEffort
  <2>3. UnderWay' < UnderWay
    <3> HIDE <1>0, <1>p
    <3>1. CASE ArchEffort' = 4
      BY <2>1, <2>2, <3>1 DEF EffortType
    <3>2. CASE ArchEffort' = 5
      BY <2>1, <2>2, <3>2 DEF EffortType
    <3>3. QED
      BY <2>1, <3>1, <3>2
  <2>4. todo' = todo /\ idx' = idx /\ pc'["walk"] = pc["walk"]
    BY <1>2 DEF ArchTake
  <2>5. QED
    BY <2>3, <2>4, FallsDownstream
<1>3. CASE ArchFinish
  <2>1. ArchEffort = 4 /\ ArchEffort' = 3
    BY <1>3, ArchTable DEF ArchFinish, ArchEffort
  <2>2. UNCHANGED <<inputs, items, WalkEffort, EnumEffort, HashEffort, MainEffort, IntrEffort>>
    BY <1>3 DEF ArchFinish, WalkEffort, EnumEffort, HashEffort, MainEffort, IntrEffort
  <2>3. UnderWay' < UnderWay
    BY <2>1, <2>2 DEF EffortType
  <2>4. todo' = todo /\ idx' = idx /\ pc'["walk"] = pc["walk"]
    BY <1>3 DEF ArchFinish
  <2>5. QED
    BY <2>3, <2>4, FallsDownstream
<1>4. CASE Log("arch")
  <2>1. ArchEffort' = ArchEffort - 1
    <3>1. \/ pc["arch"] = "itemerr" /\ pc'["arch"] = "select"
          \/ pc["arch"] = "entryerr" /\ pc'["arch"] = "close"
      BY <1>4, LogEffect DEF Worker
    <3> HIDE <1>0, <1>p
    <3>2. CASE pc["arch"] = "itemerr"
      BY <3>1, <3>2, ArchTable DEF ArchEffort
    <3>3. CASE pc["arch"] = "entryerr"
      BY <3>1, <3>3, ArchTable DEF ArchEffort
    <3>4. QED
      BY <3>1, <3>2, <3>3
  <2>2. UNCHANGED <<idx, inputs, items, todo, IntrEffort>>
    BY <1>4 DEF Log, IntrEffort
  <2>3. UNCHANGED <<WalkEffort, EnumEffort, HashEffort, MainEffort>> /\ pc'["walk"] = pc["walk"]
    BY <1>4, LogEffect DEF WalkEffort, EnumEffort, HashEffort, MainEffort, Worker
  <2>4. UnderWay' < UnderWay
    BY <2>1, <2>2, <2>3 DEF EffortType
  <2>5. QED
    BY <2>2, <2>3, <2>4, FallsDownstream
<1>5. CASE Close("arch")
  <2>1. ArchEffort = 2 /\ ArchEffort' = 1
    BY <1>5, ArchTable DEF Close, ArchEffort
  <2>2. UNCHANGED <<inputs, items, WalkEffort, EnumEffort, HashEffort, MainEffort, IntrEffort>>
    BY <1>5 DEF Close, WalkEffort, EnumEffort, HashEffort, MainEffort, IntrEffort
  <2>3. UnderWay' < UnderWay
    BY <2>1, <2>2 DEF EffortType
  <2>4. todo' = todo /\ idx' = idx /\ pc'["walk"] = pc["walk"]
    BY <1>5 DEF Close
  <2>5. QED
    BY <2>3, <2>4, FallsDownstream
<1>6. CASE Signal("arch")
  <2>1. ArchEffort = 1 /\ ArchEffort' = 0
    BY <1>6, ArchTable DEF Signal, ArchEffort
  <2>2. UNCHANGED <<inputs, items, WalkEffort, EnumEffort, HashEffort, MainEffort, IntrEffort>>
    BY <1>6 DEF Signal, WalkEffort, EnumEffort, HashEffort, MainEffort, IntrEffort
  <2>3. UnderWay' < UnderWay
    BY <2>1, <2>2 DEF EffortType
  <2>4. todo' = todo /\ idx' = idx /\ pc'["walk"] = pc["walk"]
    BY <1>6 DEF Signal
  <2>5. QED
    BY <2>3, <2>4, FallsDownstream
<1>7. QED
  BY <1>1, <1>2, <1>3, <1>4, <1>5, <1>6 DEF Arch

\* A step of main, and the interrupt.
LEMMA MainFalls ==
    ASSUME PcType, DataType, DataType', EffortType, EffortType', WalkInv, Main \/ CtrlC
    PROVE  StepsLeft' < StepsLeft
<1>0. /\ idx \in 1..N + 1 /\ N \in Nat /\ intr \in BOOLEAN
      /\ inputs \in Seq(File) /\ items \in Seq(File)
  BY Constants DEF DataType
<1>p. PICK S : pc \in [Proc -> S]
  BY DEF PcType
<1> USE <1>0, <1>p DEF At, Goto, data, chans, result, Proc
<1>1. CASE MainInterrupt
  <2>1. MainEffort = 2 /\ MainEffort' = 1
    BY <1>1, MainTable DEF MainInterrupt, MainEffort
  <2>2. UNCHANGED <<inputs, items, WalkEffort, EnumEffort, HashEffort, ArchEffort, IntrEffort>>
    BY <1>1 DEF MainInterrupt, WalkEffort, EnumEffort, HashEffort, ArchEffort, IntrEffort
  <2>3. UnderWay' < UnderWay
    BY <2>1, <2>2 DEF EffortType
  <2>4. todo' = todo /\ idx' = idx /\ pc'["walk"] = pc["walk"]
    BY <1>1 DEF MainInterrupt
  <2>5. QED
    BY <2>3, <2>4, FallsDownstream
<1>2. CASE MainEntry
  <2>1. MainEffort = 2 /\ MainEffort' = 1 /\ ArchEffort = 3 /\ ArchEffort' = 2
    BY <1>2, ArchTable, MainTable DEF MainEntry, MainEffort, ArchEffort
  <2>2. UNCHANGED <<inputs, items, WalkEffort, EnumEffort, HashEffort, IntrEffort>>
    BY <1>2 DEF MainEntry, WalkEffort, EnumEffort, HashEffort, IntrEffort
  <2>3. UnderWay' < UnderWay
    BY <2>1, <2>2 DEF EffortType
  <2>4. todo' = todo /\ idx' = idx /\ pc'["walk"] = pc["walk"]
    BY <1>2 DEF MainEntry
  <2>5. QED
    BY <2>3, <2>4, FallsDownstream
<1>3. CASE MainNoEntry
  <2>1. MainEffort = 2 /\ MainEffort' = 1
    BY <1>3, MainTable DEF MainNoEntry, MainEffort
  <2>2. UNCHANGED <<inputs, items, WalkEffort, EnumEffort, HashEffort, ArchEffort, IntrEffort>>
    BY <1>3 DEF MainNoEntry, WalkEffort, EnumEffort, HashEffort, ArchEffort, IntrEffort
  <2>3. UnderWay' < UnderWay
    BY <2>1, <2>2 DEF EffortType
  <2>4. todo' = todo /\ idx' = idx /\ pc'["walk"] = pc["walk"]
    BY <1>3 DEF MainNoEntry
  <2>5. QED
    BY <2>3, <2>4, FallsDownstream
<1>4. CASE MainReturn
  <2>1. MainEffort = 1 /\ MainEffort' = 0
    BY <1>4, MainTable DEF MainReturn, MainEffort
  <2>2. UNCHANGED <<inputs, items, WalkEffort, EnumEffort, HashEffort, ArchEffort, IntrEffort>>
    BY <1>4 DEF MainReturn, WalkEffort, EnumEffort, HashEffort, ArchEffort, IntrEffort
  <2>3. UnderWay' < UnderWay
    BY <2>1, <2>2 DEF EffortType
  <2>4. todo' = todo /\ idx' = idx /\ pc'["walk"] = pc["walk"]
    BY <1>4 DEF MainReturn
  <2>5. QED
    BY <2>3, <2>4, FallsDownstream
<1>5. CASE CtrlC
  <2>1. IntrEffort = 1 /\ IntrEffort' = 0
    BY <1>5 DEF CtrlC, IntrEffort
  <2>2. UNCHANGED <<inputs, items, WalkEffort, EnumEffort, HashEffort, ArchEffort, MainEffort>>
    BY <1>5 DEF CtrlC, WalkEffort, EnumEffort, HashEffort, ArchEffort, MainEffort
  <2>3. UnderWay' < UnderWay
    BY <2>1, <2>2 DEF EffortType
  <2>4. todo' = todo /\ idx' = idx /\ pc'["walk"] = pc["walk"]
    BY <1>5 DEF CtrlC
  <2>5. QED
    BY <2>3, <2>4, FallsDownstream
<1>6. QED
  BY <1>1, <1>2, <1>3, <1>4, <1>5 DEF Main

\* However the goroutines interleave, whatever fails and whenever the user
\* interrupts, an archive of finitely many files takes finitely many steps: with
\* NobodyIsStuck, a run that nobody interrupts can only end with main's return.
THEOREM StepsDoRunOut == Spec => StepsRunOut
<1>1. PipelineInv /\ PipelineInv' /\ [Next]_vars => [StepsLeft' < StepsLeft]_vars
  <2> SUFFICES ASSUME PipelineInv, PipelineInv', Next, ~UNCHANGED vars
               PROVE  StepsLeft' < StepsLeft
    OBVIOUS
  <2>1. EffortType /\ EffortType'
    <3>1. PipelineInv => EffortType
      BY LabelsHaveEffort DEF PipelineInv
    <3>2. EffortType'
      BY <3>1, LabelsHaveEffort, PTL DEF PipelineInv
    <3>3. QED
      BY <3>1, <3>2
  <2>2. PcType /\ DataType /\ WalkInv /\ DataType'
    BY DEF PipelineInv
  <2>3. Walk \/ Enum \/ Hash \/ Arch \/ Main \/ CtrlC
    BY DEF Next, Returned
  <2>4. QED
    BY <2>1, <2>2, <2>3, EnumFalls, EnumPutFalls, HashFalls, ArchFalls, MainFalls, Zenon
<1>2. QED
  BY <1>1, PipelineInvariant, PTL DEF Spec, StepsRunOut

=============================================================================
