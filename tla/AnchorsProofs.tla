--------------------------- MODULE AnchorsProofs ---------------------------
(***************************************************************************)
(* Machine-checked proofs about the anchor history, for every capacity,    *)
(* window set, prune limit, margin and time bound.                         *)
(***************************************************************************)
EXTENDS Anchors, TLAPS

\* What the records look like: every recorded root is at most the latest,
\* the latest is not superseded, and every other one was superseded no
\* earlier than it was recorded and no later than now.
RecordsOK ==
    /\ latest \in DOMAIN roots
    /\ roots[latest].superseded = 0
    /\ latest <= size
    /\ ~inBlock => latest = size
    /\ \A r \in DOMAIN roots :
          /\ r <= latest
          /\ roots[r].time <= now
          /\ r # latest => /\ roots[r].superseded # 0
                           /\ roots[r].superseded >= roots[r].time
                           /\ roots[r].superseded <= now

\* Between blocks every mempool transaction passed the margin check against
\* the committed state.
MempoolOK == ~inBlock => \A r \in mempool : checkAnchor(r)

\* The inductive invariant.
IInv == TypeOK /\ RecordsOK /\ IndexAgrees /\ MempoolOK

\* The root recordRoot adds is new whenever the tree moved, and the records
\* it leaves are well formed.
LEMMA RecordedOK ==
    ASSUME TypeOK, RecordsOK
    PROVE  /\ DOMAIN RecordedRoots = DOMAIN roots \cup {size}
           /\ RecordedRoots \in [DOMAIN RecordedRoots -> Record]
           /\ RecordedRoots[size].superseded = 0
           /\ \A r \in DOMAIN RecordedRoots :
                 /\ r <= size
                 /\ RecordedRoots[r].time <= now
                 /\ r # size => /\ RecordedRoots[r].superseded # 0
                                /\ RecordedRoots[r].superseded >= RecordedRoots[r].time
                                /\ RecordedRoots[r].superseded <= now
<1>1. CASE latest = size
  BY SMTT(40), <1>1 DEF RecordedRoots, TypeOK, RecordsOK
<1>2. CASE latest # size
  <2>1. latest < size /\ latest \in DOMAIN roots /\ size \notin DOMAIN roots
    BY <1>2 DEF TypeOK, RecordsOK, Root
  <2>2. now \in 1..MaxTime /\ 0 \in 0..MaxTime
    BY AnchorsAssumption DEF TypeOK
  <2>3. \A r \in DOMAIN roots : roots[r] \in Record /\ r \in Root
    BY DEF TypeOK
  <2>4. RecordedRoots = [r \in DOMAIN roots \cup {size} |->
             IF r = size THEN [time |-> now, superseded |-> 0]
             ELSE IF r = latest THEN [time |-> roots[r].time, superseded |-> now]
             ELSE roots[r]]
    BY <1>2 DEF RecordedRoots
  <2>5. RecordedRoots \in [DOMAIN RecordedRoots -> Record]
    BY <2>1, <2>2, <2>3, <2>4, AnchorsAssumption DEF Record
  <2> QED
    BY <2>1, <2>2, <2>3, <2>4, <2>5, AnchorsAssumption DEF RecordsOK, TypeOK, Root, Record
<1> QED BY <1>1, <1>2

\* recordRoot keeps the index equal to the records' window starts.
LEMMA RecordedIndexAgrees ==
    ASSUME TypeOK, RecordsOK, IndexAgrees
    PROVE  RecordedIndex = {<<windowStart(RecordedRoots[r]), r>> : r \in DOMAIN RecordedRoots}
<1>1. CASE latest = size
  BY <1>1 DEF RecordedIndex, RecordedRoots, IndexAgrees
<1>2. CASE latest # size
  <2>1. size \notin DOMAIN roots /\ latest \in DOMAIN roots
    BY <1>2 DEF TypeOK, RecordsOK, Root
  <2>2. now # 0
    BY DEF TypeOK
  <2>3. DOMAIN RecordedRoots = DOMAIN roots \cup {size}
    BY RecordedOK
  <2>4. windowStart(RecordedRoots[size]) = now
    BY <1>2, <2>1 DEF RecordedRoots, windowStart
  <2>5. windowStart(RecordedRoots[latest]) = now
    BY <1>2, <2>1, <2>2 DEF RecordedRoots, windowStart
  <2>6. \A r \in DOMAIN roots \ {latest} : RecordedRoots[r] = roots[r]
    BY <1>2, <2>1 DEF RecordedRoots
  <2>7. RecordedIndex = {<<windowStart(roots[r]), r>> : r \in DOMAIN roots \ {latest}}
                            \cup {<<now, latest>>, <<now, size>>}
    BY <1>2, <2>1 DEF RecordedIndex, IndexAgrees
  <2> QED BY <2>1, <2>3, <2>4, <2>5, <2>6, <2>7
<1> QED BY <1>1, <1>2

\* The anchor state is well formed at genesis.
LEMMA InitIInv == Init => IInv
<1> SUFFICES ASSUME Init PROVE IInv
  OBVIOUS
<1> USE AnchorsAssumption DEF Init
<1>1. TypeOK
  <2>1. inBlock \in BOOLEAN
    BY Zenon
  <2>2. 1 \in 1..MaxTime /\ 0 \in 0..MaxTime /\ 0 \in 0..Capacity
    OBVIOUS
  <2>3. DOMAIN roots \subseteq Root /\ roots \in [DOMAIN roots -> Record]
    BY <2>2 DEF Root, Record
  <2>4. byTime \subseteq (1..MaxTime) \X Root
    BY <2>2 DEF Root
  <2> QED BY <2>1, <2>2, <2>3, <2>4 DEF TypeOK, Root
<1>2. RecordsOK
  BY DEF RecordsOK
<1>3. IndexAgrees
  BY DEF IndexAgrees, windowStart
<1>4. MempoolOK
  BY DEF MempoolOK
<1> QED BY <1>1, <1>2, <1>3, <1>4 DEF IInv

\* EndBlock: the records and their index, after recordRoot and pruneRoots.
LEMMA EndBlockIInv ==
    ASSUME IInv, EndBlock
    PROVE  IInv'
<1> USE DEF IInv
<1>1. PICK D \in Doomed(RecordedIndex, size) :
         /\ byTime' = RecordedIndex \ D
         /\ roots' = [r \in DOMAIN RecordedRoots \ {k[2] : k \in D} |-> RecordedRoots[r]]
  BY DEF EndBlock
<1>2. D \subseteq RecordedIndex /\ \A k \in D : k[2] # size
  BY <1>1 DEF Doomed, Lapsed
<1>3. /\ inBlock' = FALSE /\ latest' = size /\ size' = size /\ window' = window /\ now' = now
      /\ mempool' = {r \in mempool : checkAnchor(r)'}
  BY DEF EndBlock
<1>4. DOMAIN roots' = DOMAIN RecordedRoots \ {k[2] : k \in D}
  BY <1>1
<1>5. \A r \in DOMAIN roots' : roots'[r] = RecordedRoots[r] /\ r \in DOMAIN RecordedRoots
  BY <1>1
<1>6. size \in DOMAIN roots' /\ size \in Root
  BY <1>2, <1>4, RecordedOK DEF TypeOK
<1>7. RecordedIndex = {<<windowStart(RecordedRoots[r]), r>> : r \in DOMAIN RecordedRoots}
  BY RecordedIndexAgrees
<1>8. RecordsOK'
  BY <1>3, <1>5, <1>6, RecordedOK DEF RecordsOK, TypeOK, Root
<1>9. IndexAgrees'
  <2>1. byTime' = {<<windowStart(RecordedRoots[r]), r>> : r \in DOMAIN roots'}
    BY <1>1, <1>2, <1>4, <1>7
  <2> QED BY <2>1, <1>5 DEF IndexAgrees, windowStart
<1>10. TypeOK'
  <2>1. DOMAIN roots' \subseteq Root /\ roots' \in [DOMAIN roots' -> Record]
    BY <1>1, <1>4, <1>5, <1>6, RecordedOK DEF TypeOK
  <2>2. RecordedIndex \subseteq (1..MaxTime) \X Root
    BY DEF TypeOK, RecordedIndex
  <2>3. byTime' \subseteq (1..MaxTime) \X Root
    BY <1>1, <2>2
  <2>4. inBlock' \in BOOLEAN
    BY Zenon, <1>3
  <2>5. mempool' \subseteq Root
    BY <1>3 DEF TypeOK
  <2> QED BY <1>3, <1>6, <2>1, <2>3, <2>4, <2>5 DEF TypeOK
<1>11. MempoolOK'
  BY <1>3 DEF MempoolOK
<1> QED BY <1>8, <1>9, <1>10, <1>11

\* ExportGenesis's walk over the index meets every record.
LEMMA ExportsAll ==
    ASSUME IndexAgrees
    PROVE  Exported = DOMAIN roots
<1>1. ASSUME NEW r \in DOMAIN roots PROVE r \in Exported
  <2>1. <<windowStart(roots[r]), r>> \in byTime
    BY DEF IndexAgrees
  <2> QED BY <2>1 DEF Exported
<1>2. ASSUME NEW r \in Exported PROVE r \in DOMAIN roots
  <2>1. PICK k \in byTime : r = k[2]
    BY DEF Exported
  <2>2. PICK q \in DOMAIN roots : k = <<windowStart(roots[q]), q>>
    BY <2>1 DEF IndexAgrees
  <2> QED BY <2>1, <2>2
<1> QED BY <1>1, <1>2

\* Restart: what InitGenesis rebuilds from the export is what was exported.
LEMMA RestartIInv ==
    ASSUME IInv, Restart
    PROVE  IInv'
<1> USE DEF IInv
<1>1. Exported = DOMAIN roots
  BY ExportsAll
<1>2. roots' = roots
  BY <1>1 DEF Restart, TypeOK
<1>3. byTime' = byTime
  BY <1>1 DEF Restart, IndexAgrees
<1>4. /\ now' \in now..MaxTime /\ mempool' = {}
      /\ size' = size /\ latest' = latest /\ window' = window /\ inBlock' = inBlock
  BY DEF Restart
<1>5. now' \in 1..MaxTime /\ now' >= now
  BY <1>4, AnchorsAssumption DEF TypeOK
<1>6. TypeOK'
  BY <1>2, <1>3, <1>4, <1>5 DEF TypeOK
<1>7. RecordsOK'
  BY <1>2, <1>4, <1>5, AnchorsAssumption DEF RecordsOK, TypeOK, Record
<1>8. IndexAgrees' /\ MempoolOK'
  BY <1>2, <1>3, <1>4 DEF IndexAgrees, MempoolOK, windowStart
<1> QED BY <1>6, <1>7, <1>8

\* Every step preserves the inductive invariant.
LEMMA NextIInv == IInv /\ [Next]_vars => IInv'
<1> SUFFICES ASSUME IInv, [Next]_vars PROVE IInv'
  OBVIOUS
<1> USE DEF IInv
<1>1. CASE BeginBlock
  <2>1. /\ inBlock' = TRUE /\ now' \in now..MaxTime
        /\ UNCHANGED <<size, roots, byTime, latest, window, mempool>>
    BY <1>1 DEF BeginBlock
  <2>2. now' \in 1..MaxTime /\ now' >= now
    BY <2>1, AnchorsAssumption DEF TypeOK
  <2>3. inBlock' \in BOOLEAN
    BY <2>1
  <2>4. TypeOK'
    BY <2>1, <2>2, <2>3 DEF TypeOK
  <2>5. RecordsOK'
    BY <2>1, <2>2, AnchorsAssumption DEF RecordsOK, TypeOK, Record
  <2>6. IndexAgrees' /\ MempoolOK'
    BY <2>1 DEF IndexAgrees, MempoolOK, windowStart
  <2> QED BY <2>4, <2>5, <2>6
<1>2. CASE Append
  <2>1. /\ inBlock /\ size' \in Root /\ size' >= size
        /\ UNCHANGED <<roots, byTime, latest, window, now, inBlock, mempool>>
    BY <1>2, AnchorsAssumption DEF Append, TypeOK, Root
  <2>2. TypeOK'
    BY <2>1 DEF TypeOK
  <2>3. RecordsOK'
    BY <2>1, AnchorsAssumption DEF RecordsOK, TypeOK, Root, Record
  <2>4. IndexAgrees' /\ MempoolOK'
    BY <2>1 DEF IndexAgrees, MempoolOK, windowStart
  <2> QED BY <2>2, <2>3, <2>4
<1>3. CASE UpdateParams
  <2>1. /\ inBlock /\ window' \in Windows
        /\ UNCHANGED <<size, roots, byTime, latest, now, inBlock, mempool>>
    BY <1>3 DEF UpdateParams
  <2> QED BY <2>1 DEF TypeOK, RecordsOK, IndexAgrees, MempoolOK, windowStart
<1>4. CASE EndBlock
  BY <1>4, EndBlockIInv
<1>5. CASE CheckTx
  <2>1. PICK r \in DOMAIN roots : checkAnchor(r) /\ mempool' = mempool \cup {r}
    BY <1>5 DEF CheckTx
  <2>2. UNCHANGED <<size, roots, byTime, latest, window, now, inBlock>>
    BY <1>5 DEF CheckTx
  <2>3. TypeOK'
    BY <2>1, <2>2 DEF TypeOK
  <2>4. RecordsOK' /\ IndexAgrees'
    BY <2>2 DEF RecordsOK, IndexAgrees, windowStart
  <2>5. MempoolOK'
    BY <2>1, <2>2 DEF MempoolOK, checkAnchor, Anchor, windowStart
  <2> QED BY <2>3, <2>4, <2>5
<1>6. CASE Restart
  BY <1>6, RestartIInv
<1>7. CASE UNCHANGED vars
  BY <1>7 DEF vars, TypeOK, RecordsOK, IndexAgrees, MempoolOK, checkAnchor, Anchor, windowStart
<1> QED BY <1>1, <1>2, <1>3, <1>4, <1>5, <1>6, <1>7 DEF Next

\* The history is typed and in order in every reachable state: the latest root
\* is recorded and not superseded, after a commit it is the whole tree's, and
\* every older root is smaller and was superseded between its record and now.
THEOREM RecordsCorrect == Spec => [](TypeOK /\ RecordsOK)
<1>1. IInv => TypeOK /\ RecordsOK
  BY DEF IInv
<1> QED BY InitIInv, NextIInv, <1>1, PTL DEF Spec

\* RootsByTime and Roots agree for ever, whatever is recorded, superseded,
\* pruned or re-imported.
THEOREM IndexCorrect == Spec => []IndexAgrees
<1>1. IInv => IndexAgrees
  BY DEF IInv
<1> QED BY InitIInv, NextIInv, <1>1, PTL DEF Spec

\* After every commit the root of the whole tree is a valid anchor.
THEOREM SpendableCorrect == Spec => []EveryNoteSpendable
<1>1. IInv => EveryNoteSpendable
  BY DEF IInv, EveryNoteSpendable, RecordsOK, Anchor
<1> QED BY InitIInv, NextIInv, <1>1, PTL DEF Spec

\* InitGenesis accepts the history exported at any committed block.
THEOREM GenesisCorrect == Spec => []GenesisAccepts
<1>1. IInv => GenesisAccepts
  <2> SUFFICES ASSUME IInv, ~inBlock PROVE GenesisAcceptsAt(now) /\ Exported = DOMAIN roots
    BY DEF GenesisAccepts
  <2>1. Exported = DOMAIN roots
    BY ExportsAll DEF IInv
  <2>2. \A r \in DOMAIN roots : roots[r].time \in 1..MaxTime /\ roots[r].superseded \in 0..MaxTime
    BY DEF IInv, TypeOK, Record
  <2>3. now \in 1..MaxTime
    BY DEF IInv, TypeOK
  <2> QED BY <2>1, <2>2, <2>3, AnchorsAssumption DEF GenesisAcceptsAt, IInv, RecordsOK
<1> QED BY InitIInv, NextIInv, <1>1, PTL DEF Spec

\* No root is dropped before its full window has passed since it was
\* superseded.
THEOREM WindowCorrect == Spec => WindowHonoured
<1> DEFINE Kept == \A r \in DOMAIN roots \ DOMAIN roots' :
                      roots[r].superseded # 0 /\ roots[r].superseded + window < now
<1>1. IInv /\ [Next]_vars => Kept
  <2> SUFFICES ASSUME IInv, [Next]_vars, NEW r \in DOMAIN roots, r \notin DOMAIN roots'
               PROVE  roots[r].superseded # 0 /\ roots[r].superseded + window < now
    OBVIOUS
  <2>1. CASE EndBlock
    <3>1. PICK D \in Doomed(RecordedIndex, size) :
            roots' = [q \in DOMAIN RecordedRoots \ {k[2] : k \in D} |-> RecordedRoots[q]]
      BY <2>1 DEF EndBlock
    <3>2. r \in DOMAIN RecordedRoots
      BY RecordedOK DEF IInv
    <3>3. PICK k \in D : k[2] = r
      BY <3>1, <3>2
    <3>4. k \in RecordedIndex /\ k[1] + window < now /\ k[2] # size
      BY <3>3 DEF Doomed, Lapsed
    <3>5. k[1] = windowStart(RecordedRoots[r])
      BY <3>3, <3>4, RecordedIndexAgrees DEF IInv
    <3>6. RecordedRoots[r].superseded # 0 /\ windowStart(RecordedRoots[r]) = RecordedRoots[r].superseded
      BY <3>2, <3>3, <3>4, RecordedOK DEF IInv, windowStart
    <3>7. RecordedRoots[r].superseded + window < now
      BY <3>4, <3>5, <3>6
    <3>8. window \in Nat \ {0} /\ now \in Nat
      BY AnchorsAssumption DEF IInv, TypeOK
    <3>9. RecordedRoots[r].superseded # now
      BY <3>7, <3>8
    <3>10. RecordedRoots[r] = roots[r]
      BY <3>3, <3>4, <3>9 DEF RecordedRoots
    <3> QED BY <3>6, <3>7, <3>10
  <2>2. CASE Restart
    BY <2>2, ExportsAll DEF Restart, IInv
  <2>3. CASE BeginBlock \/ Append \/ UpdateParams \/ CheckTx \/ UNCHANGED vars
    BY <2>3 DEF BeginBlock, Append, UpdateParams, CheckTx, vars
  <2> QED BY <2>1, <2>2, <2>3 DEF Next
<1>2. WindowHonoured <=> [][Kept]_vars
  BY DEF WindowHonoured
<1> QED BY InitIInv, NextIInv, <1>1, <1>2, PTL DEF Spec

\* A mempool transaction's anchor is valid in a block that comes within the
\* margin of the last commit.
THEOREM MempoolCorrect == Spec => MempoolAnchorsLive
<1> DEFINE Live == BeginBlock /\ now' <= now + Margin => \A r \in mempool : Anchor(r)'
<1>1. IInv /\ [Next]_vars => Live
  <2> SUFFICES ASSUME IInv, BeginBlock, now' <= now + Margin, NEW r \in mempool
               PROVE  Anchor(r)'
    OBVIOUS
  <2>1. checkAnchor(r)
    BY DEF BeginBlock, IInv, MempoolOK
  <2>2. UNCHANGED <<roots, latest, window>> /\ now' \in now..MaxTime
    BY DEF BeginBlock
  <2>3. now \in Nat /\ now' \in Nat /\ Margin \in Nat /\ window \in Nat
    BY <2>2, AnchorsAssumption DEF IInv, TypeOK
  <2>4. r \in DOMAIN roots /\ windowStart(roots[r]) \in Nat
    BY <2>1 DEF checkAnchor, Anchor, IInv, TypeOK, Record, windowStart
  <2> QED BY <2>1, <2>2, <2>3, <2>4 DEF checkAnchor, Anchor, windowStart
<1>2. MempoolAnchorsLive <=> [][Live]_vars
  BY DEF MempoolAnchorsLive
<1> QED BY InitIInv, NextIInv, <1>1, <1>2, PTL DEF Spec
=============================================================================
