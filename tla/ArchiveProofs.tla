--------------------------- MODULE ArchiveProofs ---------------------------
(* What the tree that an archive records holds, for all the constants of   *)
(* module Archive.                                                         *)
EXTENDS ArchiveFlowProofs, FiniteSetTheorems

\* At the start no file is on its way.
LEMMA InitOrder == Init => OrderInv
<1> SUFFICES ASSUME Init PROVE OrderInv
  OBVIOUS
<1>1. /\ Range(inputs) = {} /\ Range(items) = {} /\ inputs = <<>> /\ items = <<>>
      /\ HeldBy("enum") = {} /\ HeldBy("hash") = {}
  BY DEF Init, Range, HeldBy, At
<1>2. Listed = {}
  BY DEF Init, Listed, Range, NoTree
<1>3. InOrder(inputs) /\ InOrder(items)
  BY <1>1 DEF InOrder
<1>4. QED
  BY <1>1, <1>2, <1>3 DEF OrderInv, ToList, ToSend, ToHash, Precede

\* Every step keeps the files in the order of their inputs.
LEMMA OrderStep ==
    ASSUME PcType, DataType, WalkInv, OrderInv, [Next]_vars
    PROVE  OrderInv'
<1> USE DEF OrderInv, ToList, ToSend, ToHash, Precede
<1>0. idx \in Nat /\ idx' \in Nat /\ N \in Nat
  <2>1. DataType'
    BY TypeIsInductive
  <2>2. QED
    BY <2>1, Constants DEF DataType
<1>1. CASE ~Moves
  <2>1. /\ Range(inputs)' = Range(inputs) /\ Range(items)' = Range(items) /\ Listed' = Listed
        /\ InOrder(inputs)' /\ InOrder(items)'
    BY <1>1, NoMove DEF Range, Listed, InOrder
  <2>2. HeldBy("enum")' = HeldBy("enum") /\ HeldBy("hash")' = HeldBy("hash") /\ idx <= idx'
    BY <1>1, NoMove
  <2>3. QED
    BY <1>0, <2>1, <2>2
<1>2. CASE EnumFile \/ EnumTake
  <2>1. PICK f \in Tree[idx] :
             /\ HeldBy("enum") = {} /\ HeldBy("enum")' = {f} /\ idx \in 1..N
             /\ HeldBy("hash")' = HeldBy("hash") /\ UNCHANGED <<inputs, items, tree, idx>>
    BY <1>2, EnumMoves
  <2>2. InputOf(f) = idx
    BY <2>1, InputOfFile
  <2>3. /\ Range(inputs)' = Range(inputs) /\ Range(items)' = Range(items) /\ Listed' = Listed
        /\ InOrder(inputs)' /\ InOrder(items)'
    BY <2>1 DEF Range, Listed, InOrder
  <2>4. QED
    BY <1>0, <2>1, <2>2, <2>3
<1>3. CASE EnumPut
  <2>1. PICK f \in File :
             /\ HeldBy("enum") = {f} /\ HeldBy("enum")' = {}
             /\ HeldBy("hash")' = HeldBy("hash") /\ idx <= idx'
             /\ Range(inputs)' = Range(inputs) \cup {f}
             /\ InOrder(inputs) /\ Precede(Range(inputs), {f}) => InOrder(inputs')
             /\ UNCHANGED <<items, tree>>
    BY <1>3, EnumPutMoves
  <2>2. Range(items)' = Range(items) /\ Listed' = Listed /\ InOrder(items)'
    BY <2>1 DEF Range, Listed, InOrder
  <2>3. InOrder(inputs)'
    BY <2>1
  <2>4. QED
    BY <1>0, <2>1, <2>2, <2>3
<1>4. CASE HashTake \/ HashFail
  <2>1. PICK f \in File :
             /\ Range(inputs) = {f} \cup Range(inputs)'
             /\ InOrder(inputs) => InOrder(inputs') /\ Precede({f}, Range(inputs'))
             /\ HeldBy("hash") = {} /\ HeldBy("enum")' = HeldBy("enum")
             /\ HeldBy("hash")' = IF HashTake THEN {f} ELSE {}
             /\ UNCHANGED <<items, tree, idx>>
    BY <1>4, HashTakeMoves
  <2>2. Range(items)' = Range(items) /\ Listed' = Listed /\ InOrder(items)'
    BY <2>1 DEF Range, Listed, InOrder
  <2>3. InOrder(inputs)' /\ Precede({f}, Range(inputs)') /\ HeldBy("hash")' \subseteq {f}
    BY <2>1
  <2>4. QED
    BY <1>0, <2>1, <2>2, <2>3
<1>5. CASE HashPut
  <2>1. PICK f \in File :
             /\ HeldBy("hash") = {f} /\ HeldBy("hash")' = {}
             /\ HeldBy("enum")' = HeldBy("enum")
             /\ Range(items)' = Range(items) \cup {f}
             /\ InOrder(items) /\ Precede(Range(items), {f}) => InOrder(items')
             /\ UNCHANGED <<inputs, tree, idx>>
    BY <1>5, HashPutMoves
  <2>2. Range(inputs)' = Range(inputs) /\ Listed' = Listed /\ InOrder(inputs)'
    BY <2>1 DEF Range, Listed, InOrder
  <2>3. InOrder(items)'
    BY <2>1
  <2>4. QED
    BY <1>0, <2>1, <2>2, <2>3
<1>6. CASE ArchTake
  <2>1. PICK f \in File :
             /\ Range(items) = {f} \cup Range(items)'
             /\ InOrder(items) => InOrder(items') /\ Precede({f}, Range(items'))
             /\ HeldBy("enum")' = HeldBy("enum") /\ HeldBy("hash")' = HeldBy("hash")
             /\ Listed' \subseteq Listed \cup {f}
             /\ UNCHANGED <<inputs, idx>>
    BY <1>6, ArchTakeMoves
  <2>2. Range(inputs)' = Range(inputs) /\ InOrder(inputs)'
    BY <2>1 DEF Range, InOrder
  <2>3. InOrder(items)' /\ Precede({f}, Range(items)')
    BY <2>1
  <2>4. QED
    BY <1>0, <2>1, <2>2, <2>3
<1>7. QED
  BY <1>1, <1>2, <1>3, <1>4, <1>5, <1>6 DEF Moves

\* Nor is any counted.
LEMMA InitAccount == Init => AccountInv
<1> SUFFICES ASSUME Init PROVE AccountInv
  OBVIOUS
<1>1. Range(inputs) = {} /\ Range(items) = {} /\ HeldBy("enum") = {} /\ HeldBy("hash") = {}
  BY DEF Init, Range, HeldBy, At
<1>2. Listed = {} /\ Listed \ stored = {} /\ errors = 0
  BY DEF Init, Listed, Range, NoTree
<1>3. QED
  BY <1>1, <1>2, FS_EmptySet DEF AccountInv, ToList, ToSend, ToHash

\* Every step counts what it lists.
LEMMA AccountStep ==
    ASSUME PcType, DataType, WalkInv, AccountInv, [Next]_vars
    PROVE  AccountInv'
<1> USE DEF ToList, ToSend, ToHash
<1>0. errors \in Nat /\ errors' \in Nat
  <2>1. DataType'
    BY TypeIsInductive
  <2>2. QED
    BY <2>1 DEF DataType
<1>1. IsFiniteSet(Listed \ stored) /\ Cardinality(Listed \ stored) \in Nat
  BY FS_Subset, FS_CardinalityType DEF AccountInv
<1>2. ASSUME Listed' = Listed, stored' = stored, errors <= errors'
      PROVE  IsFiniteSet(Listed)' /\ (Cardinality(Listed \ stored) <= errors)'
  BY <1>0, <1>1, <1>2 DEF AccountInv
<1>3. CASE ~Moves
  <2>1. Range(inputs)' = Range(inputs) /\ Range(items)' = Range(items) /\ Listed' = Listed
    BY <1>3, NoMove DEF Range, Listed
  <2>2. /\ HeldBy("enum")' = HeldBy("enum") /\ HeldBy("hash")' = HeldBy("hash")
        /\ UNCHANGED <<stored, found>> /\ errors <= errors'
    BY <1>3, NoMove
  <2>3. QED
    BY <1>2, <2>1, <2>2 DEF AccountInv
<1>4. CASE EnumFile \/ EnumTake
  <2>1. PICK f \in Tree[idx] :
             /\ HeldBy("enum")' = {f} /\ HeldBy("hash")' = HeldBy("hash")
             /\ found' = found \cup {f} /\ UNCHANGED <<inputs, items, tree, stored, errors>>
    BY <1>4, EnumMoves
  <2>2. Range(inputs)' = Range(inputs) /\ Range(items)' = Range(items) /\ Listed' = Listed
    BY <2>1 DEF Range, Listed
  <2>3. QED
    BY <1>0, <1>2, <2>1, <2>2 DEF AccountInv
<1>5. CASE EnumPut
  <2>1. PICK f \in File :
             /\ HeldBy("enum") = {f} /\ HeldBy("enum")' = {}
             /\ HeldBy("hash")' = HeldBy("hash")
             /\ Range(inputs)' = Range(inputs) \cup {f}
             /\ UNCHANGED <<items, tree, stored, found, errors>>
    BY <1>5, EnumPutMoves
  <2>2. Range(items)' = Range(items) /\ Listed' = Listed
    BY <2>1 DEF Range, Listed
  <2>3. QED
    BY <1>0, <1>2, <2>1, <2>2 DEF AccountInv
<1>6. CASE HashTake \/ HashFail
  <2>1. PICK f \in File :
             /\ Range(inputs) = {f} \cup Range(inputs)'
             /\ HeldBy("enum")' = HeldBy("enum")
             /\ HeldBy("hash")' = IF HashTake THEN {f} ELSE {}
             /\ UNCHANGED <<items, tree, stored, found>>
             /\ errors' = IF HashTake THEN errors ELSE errors + 1
    BY <1>6, HashTakeMoves
  <2>2. Range(items)' = Range(items) /\ Listed' = Listed
    BY <2>1 DEF Range, Listed
  <2>3. HeldBy("hash")' \subseteq {f} /\ errors <= errors'
    BY <1>0, <2>1
  <2>4. QED
    BY <1>2, <2>1, <2>2, <2>3 DEF AccountInv
<1>7. CASE HashPut
  <2>1. PICK f \in File :
             /\ HeldBy("hash") = {f} /\ HeldBy("hash")' = {}
             /\ HeldBy("enum")' = HeldBy("enum")
             /\ Range(items)' = Range(items) \cup {f}
             /\ UNCHANGED <<inputs, tree, stored, found, errors>>
    BY <1>7, HashPutMoves
  <2>2. Range(inputs)' = Range(inputs) /\ Listed' = Listed
    BY <2>1 DEF Range, Listed
  <2>3. QED
    BY <1>0, <1>2, <2>1, <2>2 DEF AccountInv
<1>8. CASE ArchTake
  <2>1. PICK f \in File :
             /\ Range(items) = {f} \cup Range(items)'
             /\ HeldBy("enum")' = HeldBy("enum") /\ HeldBy("hash")' = HeldBy("hash")
             /\ Listed' \subseteq Listed \cup {f}
             /\ \/ stored' = stored \cup {f} /\ errors' = errors
                \/ stored' = stored /\ errors' = errors + 1
             /\ UNCHANGED <<inputs, found>>
    BY <1>8, ArchTakeMoves
  <2>2. (Listed \cup ToList \subseteq found)'
    BY <2>1 DEF AccountInv, Range
  <2>3. IsFiniteSet(Listed)'
    <3>1. IsFiniteSet(Listed \cup {f})
      BY FS_AddElement DEF AccountInv
    <3>2. QED
      BY <2>1, <3>1, FS_Subset
  <2>4. (Cardinality(Listed \ stored) <= errors)'
    <3>1. CASE stored' = stored \cup {f} /\ errors' = errors
      <4>1. (Listed \ stored)' \in SUBSET (Listed \ stored)
        BY <2>1, <3>1
      <4>2. Cardinality((Listed \ stored)') <= Cardinality(Listed \ stored)
        BY <1>1, <4>1, FS_Subset
      <4>3. Cardinality((Listed \ stored)') \in Nat
        BY <1>1, <4>1, FS_Subset, FS_CardinalityType
      <4>4. QED
        BY <1>0, <1>1, <3>1, <4>2, <4>3 DEF AccountInv
    <3>2. CASE stored' = stored /\ errors' = errors + 1
      <4>1. (Listed \ stored)' \in SUBSET ((Listed \ stored) \cup {f})
        BY <2>1, <3>2
      <4>2. /\ IsFiniteSet((Listed \ stored) \cup {f})
            /\ Cardinality((Listed \ stored) \cup {f}) <= Cardinality(Listed \ stored) + 1
        <5>1. /\ IsFiniteSet((Listed \ stored) \cup {f})
              /\ \/ Cardinality((Listed \ stored) \cup {f}) = Cardinality(Listed \ stored)
                 \/ Cardinality((Listed \ stored) \cup {f}) = Cardinality(Listed \ stored) + 1
          BY <1>1, FS_AddElement, Zenon
        <5>2. QED
          BY <1>1, <5>1
      <4>3. Cardinality((Listed \ stored)') <= Cardinality((Listed \ stored) \cup {f})
        BY <4>1, <4>2, FS_Subset
      <4>4. /\ Cardinality((Listed \ stored)') \in Nat
            /\ Cardinality((Listed \ stored) \cup {f}) \in Nat
        BY <4>1, <4>2, FS_Subset, FS_CardinalityType
      <4>5. Cardinality(Listed \ stored) <= errors
        BY DEF AccountInv
      <4>6. Cardinality((Listed \ stored)') <= errors + 1
        BY <1>0, <1>1, <4>2, <4>3, <4>4, <4>5
      <4>7. QED
        BY <3>2, <4>6
    <3>3. QED
      BY <2>1, <3>1, <3>2
  <2>5. QED
    BY <2>2, <2>3, <2>4 DEF AccountInv
<1>9. QED
  BY <1>3, <1>4, <1>5, <1>6, <1>7, <1>8 DEF Moves

\* Nor has any input been passed.
LEMMA InitComplete == Init => CompleteInv
BY Constants DEF Init, CompleteInv, Located, At

\* An interrupt stays set.
LEMMA InterruptStays ==
    ASSUME [Next]_vars
    PROVE  intr => intr'
<1>1. ASSUME NEW w, Log(w) \/ Close(w) \/ Signal(w) PROVE UNCHANGED intr
  BY <1>1 DEF Log, Close, Signal
<1>2. Walk => UNCHANGED intr
  BY DEF Walk, WalkOffer, WalkFail, WalkEnd
<1>3. Enum => UNCHANGED intr
  BY <1>1 DEF Enum, EnumMissing, EnumFile, EnumDir, EnumInterrupt, EnumTake, EnumWalkError,
     EnumDirDone, EnumPut, EnumDone
<1>4. Hash => UNCHANGED intr
  BY <1>1 DEF Hash, HashLoad, HashInterrupt, HashTake, HashFail, HashPut, HashDone, HashSave
<1>5. Arch => UNCHANGED intr
  BY <1>1 DEF Arch, ArchInterrupt, ArchTake, ArchFinish
<1>6. Main => UNCHANGED intr
  BY DEF Main, MainInterrupt, MainEntry, MainNoEntry, MainReturn
<1>7. QED
  BY <1>2, <1>3, <1>4, <1>5, <1>6 DEF Next, CtrlC, Returned, vars

\* The walk and enumerateInputs are where only their own steps take them.
LEMMA Elsewhere ==
    ASSUME PcType, DataType, [Next]_vars, ~Walk, ~Enum
    PROVE  /\ pc'["walk"] = pc["walk"] /\ pc'["enum"] = pc["enum"]
           /\ hand'["walk"] = hand["walk"] /\ UNCHANGED <<idx, todo>>
<1>0. hand \in [{"walk", "enum", "hash"} -> File \cup {NoFile}]
  BY DEF DataType
<1>p. PICK S : pc \in [Proc -> S]
  BY DEF PcType
<1> USE <1>0, <1>p DEF At, Goto, data, chans, result, Proc
<1>1. ASSUME NEW w \in {"hash", "arch"}, Log(w) \/ Close(w) \/ Signal(w)
      PROVE  /\ pc'["walk"] = pc["walk"] /\ pc'["enum"] = pc["enum"]
             /\ hand'["walk"] = hand["walk"] /\ UNCHANGED <<idx, todo>>
  BY <1>1 DEF Log, Close, Signal
<1>2. CASE HashLoad
  BY <1>2 DEF HashLoad
<1>3. CASE HashInterrupt
  BY <1>3 DEF HashInterrupt
<1>4. CASE HashTake
  BY <1>4 DEF HashTake
<1>5. CASE HashFail
  BY <1>5 DEF HashFail
<1>6. CASE HashPut
  BY <1>6 DEF HashPut
<1>7. CASE HashDone
  BY <1>7 DEF HashDone
<1>8. CASE HashSave
  BY <1>8 DEF HashSave
<1>9. CASE ArchInterrupt
  BY <1>9 DEF ArchInterrupt
<1>10. CASE ArchTake
  BY <1>10 DEF ArchTake
<1>11. CASE ArchFinish
  BY <1>11 DEF ArchFinish
<1>12. CASE MainInterrupt
  BY <1>12 DEF MainInterrupt
<1>13. CASE MainEntry
  BY <1>13 DEF MainEntry
<1>14. CASE MainNoEntry
  BY <1>14 DEF MainNoEntry
<1>15. CASE MainReturn
  BY <1>15 DEF MainReturn
<1>16. CASE CtrlC
  BY <1>16 DEF CtrlC
<1>17. CASE UNCHANGED vars
  BY <1>17 DEF vars
<1>18. QED
  BY <1>1, <1>2, <1>3, <1>4, <1>5, <1>6, <1>7, <1>8, <1>9, <1>10, <1>11, <1>12,
     <1>13, <1>14, <1>15, <1>16, <1>17 DEF Next, Hash, Arch, Main, Returned

\* When a file is listed, what is done stays done: the file comes from the same
\* input or from a later one.
LEMMA DoneStays ==
    ASSUME PcType, DataType, OrderInv, ArchTake, NEW i \in 1..N, NEW g \in Tree[i], Done(g, i)
    PROVE  Done(g, i)'
<1>1. PICK f \in File :
           /\ Range(items) = {f} \cup Range(items)'
           /\ tree' = [tree EXCEPT ![Rel[f]] = f]
           /\ stored \subseteq stored'
  BY ArchTakeMoves
<1>2. /\ InputOf(g) = i /\ g \in File /\ Rel[g] \in RelPath /\ Rel[f] \in RelPath
      /\ tree \in [RelPath -> File \cup {NoFile}]
  BY Constants, InputOfFile DEF DataType
<1>3. CASE Rel[g] # Rel[f]
  <2>1. tree'[Rel[g]] = tree[Rel[g]]
    BY <1>1, <1>2, <1>3
  <2>2. QED
    BY <1>1, <2>1 DEF Done
<1>4. CASE Rel[g] = Rel[f]
  <2>1. tree'[Rel[g]] = f
    BY <1>1, <1>2, <1>4
  <2>2. f \in ToList
    BY <1>1 DEF ToList
  <2>3. tree[Rel[g]] \in Listed
    BY <1>2, Constants DEF Done, Listed, Range
  <2>4. /\ InputOf(tree[Rel[g]]) <= InputOf(f)
        /\ InputOf(f) \in 1..N /\ f \in Tree[InputOf(f)] /\ InputOf(tree[Rel[g]]) \in 1..N
    BY <2>2, <2>3 DEF OrderInv, Precede
  <2>5. i < InputOf(f) \/ i = InputOf(f)
    BY <1>2, <2>4, Constants DEF Done
  <2>6. i = InputOf(f) => g = f
    BY <1>4, <2>4, TreeAssumption
  <2>7. QED
    BY <1>1, <2>1, <2>5, <2>6 DEF Done
<1>5. QED
  BY <1>3, <1>4

\* Errors are only ever added.
LEMMA ErrorsGrow ==
    ASSUME PcType, DataType, WalkInv, [Next]_vars
    PROVE  errors \in Nat /\ errors' >= errors
<1>0. errors \in Nat
  BY DEF DataType
<1>1. CASE ~Moves
  BY <1>0, <1>1, NoMove, TypeIsInductive DEF DataType
<1>2. CASE EnumFile \/ EnumTake
  <2>1. UNCHANGED errors
    BY <1>2, EnumMoves
  <2>2. QED
    BY <1>0, <2>1
<1>3. CASE EnumPut
  <2>1. UNCHANGED errors
    BY <1>3, EnumPutMoves
  <2>2. QED
    BY <1>0, <2>1
<1>4. CASE HashTake \/ HashFail
  <2>1. errors' = IF HashTake THEN errors ELSE errors + 1
    BY <1>4, HashTakeMoves
  <2>2. QED
    BY <1>0, <2>1
<1>5. CASE HashPut
  <2>1. UNCHANGED errors
    BY <1>5 DEF HashPut
  <2>2. QED
    BY <1>0, <2>1
<1>6. CASE ArchTake
  <2>1. errors' = errors \/ errors' = errors + 1
    BY <1>6, ArchTakeMoves
  <2>2. QED
    BY <1>0, <2>1
<1>7. QED
  BY <1>1, <1>2, <1>3, <1>4, <1>5, <1>6 DEF Moves

\* A step that counts no error does not lose a file of the pipeline.
LEMMA NothingLost ==
    ASSUME PcType, DataType, WalkInv, OrderInv, [Next]_vars, errors' = 0,
           NEW i \in 1..N, NEW g \in Tree[i], g \in ToList \/ Done(g, i)
    PROVE  g \in ToList' \/ Done(g, i)'
<1> USE DEF ToList, ToSend, ToHash
<1>0. errors \in Nat /\ errors = 0 /\ errors' # errors + 1
  BY ErrorsGrow
<1>1. ASSUME UNCHANGED <<tree, stored>> PROVE Done(g, i)' = Done(g, i)
  BY <1>1 DEF Done
<1>2. CASE ~Moves
  <2>1. Range(inputs)' = Range(inputs) /\ Range(items)' = Range(items)
    BY <1>2, NoMove DEF Range
  <2>2. /\ HeldBy("enum")' = HeldBy("enum") /\ HeldBy("hash")' = HeldBy("hash")
        /\ UNCHANGED <<tree, stored>>
    BY <1>2, NoMove
  <2>3. QED
    BY <1>1, <2>1, <2>2
<1>3. CASE EnumFile \/ EnumTake
  <2>1. PICK f \in Tree[idx] :
             /\ HeldBy("enum") = {} /\ HeldBy("enum")' = {f} /\ HeldBy("hash")' = HeldBy("hash")
             /\ UNCHANGED <<inputs, items, tree, stored>>
    BY <1>3, EnumMoves
  <2>2. Range(inputs)' = Range(inputs) /\ Range(items)' = Range(items)
    BY <2>1 DEF Range
  <2>3. QED
    BY <1>1, <2>1, <2>2
<1>4. CASE EnumPut
  <2>1. PICK f \in File :
             /\ HeldBy("enum") = {f} /\ HeldBy("enum")' = {}
             /\ HeldBy("hash")' = HeldBy("hash")
             /\ Range(inputs)' = Range(inputs) \cup {f}
             /\ UNCHANGED <<items, tree, stored>>
    BY <1>4, EnumPutMoves
  <2>2. Range(items)' = Range(items)
    BY <2>1 DEF Range
  <2>3. QED
    BY <1>1, <2>1, <2>2
<1>5. CASE HashTake \/ HashFail
  <2>1. PICK f \in File :
             /\ Range(inputs) = {f} \cup Range(inputs)'
             /\ HeldBy("hash") = {} /\ HeldBy("enum")' = HeldBy("enum")
             /\ HeldBy("hash")' = IF HashTake THEN {f} ELSE {}
             /\ UNCHANGED <<items, tree, stored>>
             /\ errors' = IF HashTake THEN errors ELSE errors + 1
    BY <1>5, HashTakeMoves
  <2>2. Range(items)' = Range(items)
    BY <2>1 DEF Range
  <2>3. HeldBy("hash")' = {f}
    BY <1>0, <2>1
  <2>4. QED
    BY <1>1, <2>1, <2>2, <2>3
<1>6. CASE HashPut
  <2>1. PICK f \in File :
             /\ HeldBy("hash") = {f} /\ HeldBy("hash")' = {}
             /\ HeldBy("enum")' = HeldBy("enum")
             /\ Range(items)' = Range(items) \cup {f}
             /\ UNCHANGED <<inputs, tree, stored>>
    BY <1>6, HashPutMoves
  <2>2. Range(inputs)' = Range(inputs)
    BY <2>1 DEF Range
  <2>3. QED
    BY <1>1, <2>1, <2>2
<1>7. CASE ArchTake
  <2>1. PICK f \in File :
             /\ Range(items) = {f} \cup Range(items)'
             /\ HeldBy("enum")' = HeldBy("enum") /\ HeldBy("hash")' = HeldBy("hash")
             /\ tree' = [tree EXCEPT ![Rel[f]] = f]
             /\ \/ stored' = stored \cup {f} /\ errors' = errors
                \/ stored' = stored /\ errors' = errors + 1
             /\ UNCHANGED inputs
    BY <1>7, ArchTakeMoves
  <2>2. Range(inputs)' = Range(inputs)
    BY <2>1 DEF Range
  <2>3. CASE Done(g, i)
    BY <1>7, <2>3, DoneStays
  <2>4. CASE g = f
    <3>1. tree'[Rel[f]] = f
      BY <2>1, Constants DEF DataType
    <3>2. stored' = stored \cup {f}
      BY <1>0, <2>1, Zenon
    <3>3. QED
      BY <2>4, <3>1, <3>2 DEF Done
  <2>5. CASE g \in ToList /\ g # f
    BY <2>1, <2>2, <2>5
  <2>6. QED
    BY <2>3, <2>4, <2>5
<1>8. QED
  BY <1>2, <1>3, <1>4, <1>5, <1>6, <1>7 DEF Moves

\* Nor does it lose a file the walk has not handed over.
LEMMA CompleteStep ==
    ASSUME PcType, DataType, WalkInv, OrderInv, CompleteInv, [Next]_vars
    PROVE  CompleteInv'
<1> SUFFICES ASSUME errors' = 0, ~intr'
             PROVE  /\ (At("walk", "end") => todo = {})'
                    /\ \A i \in 1..N : \A f \in Tree[i] : Located(f, i)'
  BY DEF CompleteInv
<1>h. hand \in [{"walk", "enum", "hash"} -> File \cup {NoFile}] /\ N \in Nat
  BY Constants DEF DataType
<1>p. PICK S : pc \in [Proc -> S]
  BY DEF PcType
<1> USE <1>h, <1>p DEF At, Goto, data, chans, result, Proc
<1>0. /\ errors \in Nat /\ errors = 0 /\ ~intr /\ idx \in Nat
      /\ pc["walk"] = "end" => todo = {}
      /\ \A i \in 1..N : \A f \in Tree[i] : Located(f, i)
  <2>1. errors \in Nat /\ errors = 0 /\ ~intr /\ idx \in Nat
    BY ErrorsGrow, InterruptStays DEF DataType
  <2>2. QED
    BY <2>1 DEF CompleteInv
<1>1. ASSUME NEW i \in 1..N, NEW f \in Tree[i], f \in ToList \/ Done(f, i)
      PROVE  Located(f, i)'
  BY <1>1, NothingLost DEF Located
<1>2. CASE ~Walk /\ ~Enum
  <2>1. /\ pc'["walk"] = pc["walk"] /\ pc'["enum"] = pc["enum"]
        /\ hand'["walk"] = hand["walk"] /\ UNCHANGED <<idx, todo>>
    BY <1>2, Elsewhere
  <2>2. QED
    BY <1>0, <1>1, <2>1 DEF Located
<1>3. CASE WalkOffer
  BY <1>0, <1>1, <1>3 DEF WalkOffer, Located
<1>4. CASE WalkFail
  BY <1>0, <1>1, <1>4 DEF WalkFail, Located
<1>5. CASE WalkEnd
  BY <1>0, <1>1, <1>5 DEF WalkEnd, Located
<1>6. CASE EnumMissing \/ EnumWalkError
  BY <1>0, <1>6 DEF EnumMissing, EnumWalkError
<1>7. CASE EnumInterrupt
  BY <1>0, <1>7 DEF EnumInterrupt
<1>8. CASE EnumFile
  <2>1. PICK g \in Tree[idx] : HeldBy("enum")' = {g} /\ Tree[idx] = {g}
    BY <1>8, EnumMoves
  <2>2. g \in ToList'
    BY <2>1 DEF ToList, ToSend, ToHash
  <2>3. UNCHANGED <<idx, todo>> /\ pc'["walk"] = pc["walk"] /\ hand'["walk"] = hand["walk"]
    BY <1>8 DEF EnumFile
  <2>4. QED
    BY <1>0, <1>1, <2>1, <2>2, <2>3 DEF Located
<1>9. CASE EnumTake
  <2>1. hand["walk"] \in ToList'
    <3>1. HeldBy("enum")' = {hand["walk"]}
      BY <1>9, EnumMoves
    <3>2. QED
      BY <3>1 DEF ToList, ToSend, ToHash
  <2>2. UNCHANGED <<idx, todo>> /\ pc'["walk"] = "scan" /\ pc["enum"] = "walk"
    BY <1>9 DEF EnumTake
  <2>3. QED
    BY <1>0, <1>1, <2>1, <2>2 DEF Located
<1>10. CASE EnumDir
  BY <1>0, <1>1, <1>10 DEF EnumDir, Located
<1>11. CASE EnumDirDone
  BY <1>0, <1>1, <1>11 DEF EnumDirDone, Located
<1>12. CASE EnumPut
  <2>1. pc'["walk"] = pc["walk"] /\ hand' = hand /\ todo' = todo /\ pc["enum"] = "put"
    BY <1>12 DEF EnumPut
  <2>2. CASE idx' = idx
    BY <1>0, <1>1, <2>1, <2>2 DEF Located
  <2>3. CASE idx' = idx + 1 /\ pc'["enum"] = "next" /\ Kind[idx] # "dir"
    <3>1. pc["walk"] = "idle"
      BY <2>3 DEF WalkInv
    <3>2. QED
      BY <1>0, <1>1, <2>1, <2>3, <3>1 DEF Located
  <2>4. QED
    BY <1>12, <2>2, <2>3 DEF EnumPut
<1>13. CASE EnumDone
  BY <1>0, <1>1, <1>13 DEF EnumDone, Located
<1>14. CASE Log("enum") \/ Close("enum") \/ Signal("enum")
  <2>1. /\ pc'["walk"] = pc["walk"] /\ UNCHANGED <<idx, todo, hand>>
        /\ pc["enum"] # "next"
    BY <1>14, LogEffect DEF Log, Close, Signal, Worker
  <2>2. QED
    BY <1>0, <1>1, <2>1 DEF Located
<1>15. QED
  BY <1>2, <1>3, <1>4, <1>5, <1>6, <1>7, <1>8, <1>9, <1>10, <1>11, <1>12, <1>13, <1>14
     DEF Walk, Enum

-----------------------------------------------------------------------------
(* Theorems *)

\* The inductive invariant: with the types and the control, where the files are.
FlowInv == OrderInv /\ AccountInv /\ CompleteInv
ArchiveInv == PipelineInv /\ FlowInv

\* It holds in every state of every run.
LEMMA ArchiveInvariant == Spec => []ArchiveInv
<1>1. Init => FlowInv
  BY InitOrder, InitAccount, InitComplete DEF FlowInv
<1>2. PipelineInv /\ FlowInv /\ [Next]_vars => FlowInv'
  BY OrderStep, AccountStep, CompleteStep DEF PipelineInv, FlowInv
<1>3. QED
  BY <1>1, <1>2, PipelineInvariant, PTL DEF Spec, ArchiveInv

\* where several inputs have the same path the file of the last of them, whatever
\* the number of inputs and the capacities of the channels.
THEOREM CleanRunsAreComplete == Spec => []CleanRunIsComplete
<1>1. ArchiveInv => CleanRunIsComplete
  <2> SUFFICES ASSUME ArchiveInv, NEW t \in nodes, errors = 0, ~intr,
                      NEW i \in 1..N, NEW f \in Tree[i]
               PROVE  /\ f \in stored
                      /\ t[Rel[f]] = f \/ \E j \in i + 1..N : t[Rel[f]] \in Tree[j]
    BY DEF CleanRunIsComplete
  <2>1. t = tree /\ idx = N + 1 /\ inputs = <<>> /\ items = <<>>
        /\ pc["enum"] \in {"signal", "exit"} /\ pc["hash"] \in {"save", "signal", "exit"}
    BY DEF ArchiveInv, PipelineInv, ControlInv
  <2>2. ToList = {}
    BY <2>1 DEF ToList, ToSend, ToHash, HeldBy, At, Range
  <2>3. Done(f, i)
    <3>1. Located(f, i)
      BY DEF ArchiveInv, FlowInv, CompleteInv
    <3>2. QED
      BY <2>1, <2>2, <3>1, Constants DEF Located
  <2>4. CASE tree[Rel[f]] = f
    BY <2>1, <2>3, <2>4 DEF Done
  <2>5. CASE tree[Rel[f]] \in File /\ i < InputOf(tree[Rel[f]])
    <3>1. tree[Rel[f]] \in Listed
      BY <2>5, Constants DEF Listed, Range, ArchiveInv, PipelineInv, DataType
    <3>2. /\ InputOf(tree[Rel[f]]) \in 1..N
          /\ tree[Rel[f]] \in Tree[InputOf(tree[Rel[f]])]
      BY <3>1 DEF ArchiveInv, FlowInv, OrderInv
    <3>3. InputOf(tree[Rel[f]]) \in i + 1..N
      BY <2>5, <3>2, Constants
    <3>4. QED
      BY <2>1, <2>3, <3>2, <3>3 DEF Done
  <2>6. QED
    BY <2>3, <2>4, <2>5 DEF Done
<1>2. QED
  BY <1>1, ArchiveInvariant, PTL

\* Interrupted or not, a recorded tree lists files that were found, and for each
\* one whose content is missing from the CAS an error was counted.
THEOREM TreesAreAccounted == Spec => []RecordedIsAccounted
<1>1. ArchiveInv => RecordedIsAccounted
  <2> SUFFICES ASSUME ArchiveInv, NEW t \in nodes
               PROVE  /\ Range(t) \ {NoFile} \subseteq found
                      /\ Cardinality((Range(t) \ {NoFile}) \ stored) <= errors
    BY DEF RecordedIsAccounted
  <2>1. t = tree
    BY DEF ArchiveInv, PipelineInv, ControlInv
  <2>2. Range(t) \ {NoFile} = Listed
    BY <2>1 DEF Listed
  <2>3. QED
    BY <2>2 DEF ArchiveInv, FlowInv, AccountInv
<1>2. QED
  BY <1>1, ArchiveInvariant, PTL
=============================================================================
