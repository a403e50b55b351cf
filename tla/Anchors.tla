------------------------------ MODULE Anchors ------------------------------
(***************************************************************************)
(* The anchor history of the shielded pool: the note tree's roots that a   *)
(* private message may prove its inputs against (x/shielded/keeper/        *)
(* roots.go), how EndBlock records and prunes them, how CheckTx and        *)
(* ReCheckTx admit a transaction by its anchor, and how the history goes   *)
(* through an exported genesis.                                            *)
(*                                                                         *)
(* The note tree is append-only, so a root is identified with the number   *)
(* of leaves under it: root n is the root of the first n commitments.      *)
(***************************************************************************)
EXTENDS Naturals, FiniteSets

CONSTANTS
    Capacity,        \* leaves the tree has room for
    Windows,         \* the root_window_seconds governance may set
    RootPruneLimit,  \* expired roots EndBlock deletes per block
    Margin,          \* AnchorCheckTxMarginSeconds
    MaxTime          \* bound: the last block time explored

ASSUME AnchorsAssumption ==
    /\ Capacity \in Nat
    /\ Windows \subseteq Nat \ {0} /\ Windows # {}
    /\ RootPruneLimit \in Nat \ {0}
    /\ Margin \in Nat
    /\ MaxTime \in Nat \ {0}

VARIABLES
    size,     \* TreeSize
    roots,    \* Roots: recorded root -> its record
    byTime,   \* RootsByTime: pairs <<window start, root>>
    latest,   \* LatestRoot
    window,   \* Params.RootWindowSeconds
    now,      \* unix time of the current (or last committed) block
    inBlock,  \* FALSE between the commit of a block and the next one
    mempool   \* anchors of the transactions CheckTx has let in

vars == <<size, roots, byTime, latest, window, now, inBlock, mempool>>

Root == 0..Capacity
Record == [time : 1..MaxTime, superseded : 0..MaxTime]

(***************************************************************************)
(* Reading a record.                                                       *)
(***************************************************************************)
windowStart(rec) == IF rec.superseded # 0 THEN rec.superseded ELSE rec.time

\* Fault variant: the window runs from when the root was recorded.
AnchorAtRecordTime(r) ==
    /\ r \in DOMAIN roots
    /\ now <= roots[r].time + window

\* Anchor: the latest root never expires, any other one `window` seconds
\* after it was superseded.
Anchor(r) ==
    /\ r \in DOMAIN roots
    /\ r = latest \/ now <= windowStart(roots[r]) + window

\* Fault variant: the mempool gives no margin.
checkAnchorNoMargin(r) == Anchor(r)

\* checkAnchor as CheckTx and ReCheckTx run it: an anchor that lapses
\* within the margin of the last committed block is refused.
checkAnchor(r) ==
    /\ Anchor(r)
    /\ r = latest \/ windowStart(roots[r]) + window >= now + Margin

(***************************************************************************)
(* EndBlock: recordRoot, then pruneRoots.                                  *)
(***************************************************************************)
\* Fault variant: the root that was latest is not marked superseded.
RecordedRootsUnmarked ==
    [r \in DOMAIN roots \cup {size} |->
        IF r \in DOMAIN roots THEN roots[r] ELSE [time |-> now, superseded |-> 0]]

\* recordRoot's effect on Roots: the root that was latest is superseded now
\* and the tree's current root is recorded, if the tree moved.
RecordedRoots ==
    IF latest = size THEN roots
    ELSE [r \in DOMAIN roots \cup {size} |->
             IF r = size THEN [time |-> now, superseded |-> 0]
             ELSE IF r = latest THEN [time |-> roots[r].time, superseded |-> now]
             ELSE roots[r]]

\* ... and on RootsByTime: supersede moves the old latest's entry to now.
RecordedIndex ==
    IF latest = size THEN byTime
    ELSE (byTime \ {<<windowStart(roots[latest]), latest>>})
             \cup {<<now, latest>>, <<now, size>>}

\* Fault variant: a root whose last second has not passed is taken.
LapsedEarly(index, lat) == {k \in index : k[1] + window <= now /\ k[2] # lat}

\* The entries of index a walk of pruneRoots may collect when lat is latest.
Lapsed(index, lat) == {k \in index : k[1] + window < now /\ k[2] # lat}

\* Fault variant: the walk stops one short of its limit.
DoomedShortOfLimit(index, lat) ==
    {D \in SUBSET Lapsed(index, lat) :
        /\ Cardinality(D) = RootPruneLimit - 1
        /\ \A k \in D, l \in Lapsed(index, lat) \ D : k[1] <= l[1]}

\* pruneRoots walks RootsByTime oldest first and stops at the limit; entries
\* of the same second come in the order of their root's bytes, which is
\* arbitrary.
Doomed(index, lat) ==
    {D \in SUBSET Lapsed(index, lat) :
        /\ \/ D = Lapsed(index, lat)
           \/ Cardinality(D) = RootPruneLimit
        /\ Cardinality(D) <= RootPruneLimit
        /\ \A k \in D, l \in Lapsed(index, lat) \ D : k[1] <= l[1]}

\* The mempool re-checks every transaction against the committed state.
EndBlock ==
    /\ inBlock
    /\ inBlock' = FALSE
    /\ latest' = size
    /\ \E D \in Doomed(RecordedIndex, size) :
          /\ byTime' = RecordedIndex \ D
          /\ roots' = [r \in DOMAIN RecordedRoots \ {k[2] : k \in D} |-> RecordedRoots[r]]
    /\ UNCHANGED <<size, window, now>>
    /\ mempool' = {r \in mempool : checkAnchor(r)'}

(***************************************************************************)
(* The rest of a block's life.                                             *)
(***************************************************************************)
\* Consensus proposes the next block; its time never runs backwards.
BeginBlock ==
    /\ ~inBlock
    /\ inBlock' = TRUE
    /\ now' \in now..MaxTime
    /\ UNCHANGED <<size, roots, byTime, latest, window, mempool>>

\* appendNote, checkCapacity: any message that mints or sends notes.
Append ==
    /\ inBlock
    /\ \E n \in 1..Capacity : size + n <= Capacity /\ size' = size + n
    /\ UNCHANGED <<roots, byTime, latest, window, now, inBlock, mempool>>

\* MsgUpdateParams.
UpdateParams ==
    /\ inBlock
    /\ window' \in Windows
    /\ UNCHANGED <<size, roots, byTime, latest, now, inBlock, mempool>>

\* CheckTx runs against the last committed state.
CheckTx ==
    /\ ~inBlock
    /\ \E r \in DOMAIN roots : checkAnchor(r) /\ mempool' = mempool \cup {r}
    /\ UNCHANGED <<size, roots, byTime, latest, window, now, inBlock>>

(***************************************************************************)
(* Export and import. ExportGenesis walks RootsByTime and puts the latest  *)
(* record last; InitGenesis refuses a history that does not fit, stores    *)
(* every record again and runs recordRoot.                                 *)
(***************************************************************************)
Exported == {k[2] : k \in byTime}

\* InitGenesis's checks on the exported records, at genesis time t: dated no
\* later than genesis, only the latest not superseded, and every other one
\* superseded no earlier than it was recorded.
GenesisAcceptsAt(t) ==
    /\ Exported \subseteq DOMAIN roots
    /\ latest \in Exported
    /\ \A r \in Exported :
          /\ roots[r].time <= t /\ roots[r].superseded <= t
          /\ (r = latest) <=> (roots[r].superseded = 0)
          /\ r # latest => roots[r].superseded >= roots[r].time

\* A chain restarted from its own export, at a genesis time t no earlier
\* than the last block. Mempools are not carried over. recordRoot, which
\* InitGenesis runs last, finds the latest root equal to the tree's.
Restart ==
    /\ ~inBlock
    /\ \E t \in now..MaxTime : GenesisAcceptsAt(t) /\ now' = t
    /\ latest = size
    /\ roots' = [r \in Exported |-> roots[r]]
    /\ byTime' = {<<windowStart(roots[r]), r>> : r \in Exported}
    /\ mempool' = {}
    /\ UNCHANGED <<size, latest, window, inBlock>>

(***************************************************************************)
(* The specification. A fresh genesis records the empty tree's root.       *)
(***************************************************************************)
Init ==
    /\ size = 0
    /\ roots = [r \in {0} |-> [time |-> 1, superseded |-> 0]]
    /\ byTime = {<<1, 0>>}
    /\ latest = 0
    /\ window \in Windows
    /\ now = 1
    /\ inBlock = FALSE
    /\ mempool = {}

Next == BeginBlock \/ Append \/ UpdateParams \/ EndBlock \/ CheckTx \/ Restart

Spec == Init /\ [][Next]_vars

\* CometBFT keeps committing blocks (consensus liveness, external).
FairSpec == Spec /\ WF_vars(BeginBlock) /\ WF_vars(EndBlock)

(***************************************************************************)
(* Properties.                                                             *)
(***************************************************************************)
\* Types of the anchor state (Roots, RootsByTime, LatestRoot and Params of
\* the keeper).
TypeOK ==
    /\ size \in Root
    /\ DOMAIN roots \subseteq Root
    /\ roots \in [DOMAIN roots -> Record]
    /\ byTime \subseteq (1..MaxTime) \X Root
    /\ latest \in Root
    /\ window \in Windows
    /\ now \in 1..MaxTime
    /\ inBlock \in BOOLEAN
    /\ mempool \subseteq Root

\* RootsByTime holds exactly one entry per record, at the record's window
\* start: supersede, putRoot and pruneRoots keep the index and the records
\* together, so pruning never leaves a record it can no longer find.
IndexAgrees == byTime = {<<windowStart(roots[r]), r>> : r \in DOMAIN roots}

\* After every commit the root over all notes is a valid anchor, however
\* long the chain was quiet: no note is ever without an anchor to be spent
\* against (the A-1 audit note of roots.go).
EveryNoteSpendable == ~inBlock => latest = size /\ Anchor(size)

\* The history an export at any committed block writes is one InitGenesis
\* accepts, and it carries every recorded root.
GenesisAccepts == ~inBlock => GenesisAcceptsAt(now) /\ Exported = DOMAIN roots

\* A root is dropped only once its full window has passed since it stopped
\* being the latest: pruneRoots and supersede never cut a wallet's window
\* short, and an import drops none.
WindowHonoured ==
    [][\A r \in DOMAIN roots \ DOMAIN roots' :
          roots[r].superseded # 0 /\ roots[r].superseded + window < now]_vars

\* A transaction the mempool holds still has a valid anchor when the next
\* block starts, if that block comes within the margin (audit 5 L-SH1).
MempoolAnchorsLive ==
    [][BeginBlock /\ now' <= now + Margin => \A r \in mempool : Anchor(r)']_vars

\* A root whose window has closed is eventually deleted, unless governance
\* changes the window first: the per-block prune limit delays pruning but no
\* record stays for ever.
ExpiredEventuallyPruned ==
    \A w \in Windows, r \in Root :
        (window = w /\ r \in DOMAIN roots /\ ~Anchor(r))
            ~> (r \notin DOMAIN roots \/ window # w)
=============================================================================
