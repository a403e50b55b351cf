------------------------- MODULE SupplyCheckpoints -------------------------
(***************************************************************************)
(* The lazy half of x/shieldedstaking's stake votes (votes.go).  Taking a  *)
(* snapshot costs the same however many books there are: it records its    *)
(* height and the next sequence number.  A validator's derth supply as of  *)
(* a snapshot is recovered when a vote or a tally asks, from checkpoints   *)
(* that a book writes the first time its supply changes after a snapshot.  *)
(*                                                                         *)
(* A book that was never stored, or was removed, is one with every field   *)
(* zero: that is how ValidatorState reads it, and block heights and        *)
(* sequence numbers start at one.                                          *)
(*                                                                         *)
(* EagerSnapshots is what this promises; it is implemented under the       *)
(* mapping at the end.                                                     *)
(***************************************************************************)
EXTENDS Naturals, FiniteSets

CONSTANTS
    Validators,          \* numbers: the order of the stores' keys
    Proposals,
    CheckpointPruneLimit

ASSUME CheckpointsAssumption ==
    /\ Validators \subseteq Nat
    /\ CheckpointPruneLimit \in Nat

VARIABLES
    height,              \* the block
    books,               \* supply, the height of its last change, the supply when
                         \* that block began, and checkpoint_seq
    snaps,               \* the open snapshots: seq, height and voting end
    snapshotSeq,         \* the last sequence number taken
    checkpoints          \* per validator, seq -> supply

checkpointVars == <<height, books, snaps, snapshotSeq, checkpoints>>

NoBook == [supply |-> 0, supplyHeight |-> 0, blockStart |-> 0, checkpointSeq |-> 0]
None == [x \in {} |-> 0]

-----------------------------------------------------------------------------
\* votes.go: checkpointSupply.  The snapshots taken after the book's last
\* change; those of that change's own block come first.
Since(b) == {p \in DOMAIN snaps : b.checkpointSeq < snaps[p].seq}
FirstRun(b) ==
    {p \in Since(b) : \A q \in Since(b) :
        snaps[q].seq <= snaps[p].seq => snaps[q].height = b.supplyHeight}
\* The highest seq of that run.
LastAt(b) == {snaps[p].seq : p \in {q \in FirstRun(b) :
                \A r \in FirstRun(b) : snaps[r].seq <= snaps[q].seq}}

\* putCheckpoint: an entry that is there stays.
PutCheckpoint(c, seqs, s) ==
    [q \in DOMAIN c \cup seqs |-> IF q \in DOMAIN c THEN c[q] ELSE s]

Without(c, seqs) == [q \in DOMAIN c \ seqs |-> c[q]]

\* Fault variant: the block of the book's last change is not told apart.
LateCheckpoint(b, c) ==
    IF snapshotSeq <= b.checkpointSeq \/ DOMAIN snaps = {}
    THEN c
    ELSE PutCheckpoint(c, {snapshotSeq}, b.supply)

\* The checkpoints a book writes before its supply changes.
WrittenCheckpoints(b, c) ==
    IF snapshotSeq <= b.checkpointSeq \/ DOMAIN snaps = {}
    THEN c
    ELSE PutCheckpoint(PutCheckpoint(c, LastAt(b), b.blockStart),
                       {snapshotSeq} \ LastAt(b), b.supply)

\* The book with supply s, after checkpointSupply.
CheckpointedBook(b, s) ==
    [supply |-> s,
     supplyHeight |-> height,
     blockStart |-> IF b.supplyHeight = height THEN b.blockStart ELSE b.supply,
     checkpointSeq |-> IF snapshotSeq <= b.checkpointSeq THEN b.checkpointSeq ELSE snapshotSeq]

\* snapshotSupply: the first checkpoint at or after the snapshot's seq, else
\* the book's supply, as of the block's start if that is where it last changed.
Later(c, seq) == {q \in DOMAIN c : seq <= q}
First(S) == CHOOSE q \in S : \A r \in S : q <= r
SupplyAt(b, c, snap) ==
    IF Later(c, snap.seq) # {} THEN c[First(Later(c, snap.seq))]
    ELSE IF b.supplyHeight = snap.height THEN b.blockStart
    ELSE b.supply
snapshotSupply(p, v) == SupplyAt(books[v], checkpoints[v], snaps[p])

\* pruneCheckpoints: the first ones no open snapshot can need.
Unneeded ==
    {x \in UNION {(DOMAIN checkpoints[v]) \X {v} : v \in Validators} :
        \A p \in DOMAIN snaps : x[1] < snaps[p].seq}
Before(x, y) == x[1] < y[1] \/ (x[1] = y[1] /\ x[2] < y[2])
Pruned ==
    {x \in Unneeded : Cardinality({y \in Unneeded : Before(y, x)}) < CheckpointPruneLimit}

-----------------------------------------------------------------------------
CheckpointsInit ==
    /\ height = 1
    /\ \E s \in [Validators -> Nat] :
          books = [v \in Validators |-> [NoBook EXCEPT !.supply = s[v]]]
    /\ snaps = None
    /\ snapshotSeq = 0
    /\ checkpoints = [v \in Validators |-> None]

\* A message, or a slash's debt, changes a book's supply.
ChangeSupply(v, s) ==
    /\ books' = [books EXCEPT ![v] = CheckpointedBook(books[v], s)]
    /\ checkpoints' = [checkpoints EXCEPT ![v] = WrittenCheckpoints(books[v], checkpoints[v])]
    /\ UNCHANGED <<height, snaps, snapshotSeq>>

\* snapshotProposal: p's snapshot, with voting until end.
TakeSnapshot(p, end) ==
    /\ p \notin DOMAIN snaps
    /\ snapshotSeq' = snapshotSeq + 1
    /\ snaps' = [q \in DOMAIN snaps \cup {p} |->
                    IF q = p THEN [seq |-> snapshotSeq', height |-> height, end |-> end]
                             ELSE snaps[q]]
    /\ UNCHANGED <<height, books, checkpoints>>

\* The end of a block: books in retired come down to its supplies
\* (retireVintage), those in emptied are removed, dead checkpoints are pruned,
\* and the snapshots left are open's, with the voting ends it gives.
SupplyAfter(retired, v) == IF v \in DOMAIN retired THEN retired[v] ELSE books[v].supply
CloseBlock(retired, emptied, open) ==
    /\ \A v \in emptied : SupplyAfter(retired, v) = 0
    /\ height' = height + 1
    /\ books' = [v \in Validators |->
          IF v \in emptied THEN NoBook
          ELSE IF v \in DOMAIN retired THEN CheckpointedBook(books[v], retired[v])
          ELSE books[v]]
    /\ checkpoints' = [v \in Validators |->
          Without(IF v \in DOMAIN retired
                  THEN WrittenCheckpoints(books[v], checkpoints[v])
                  ELSE checkpoints[v],
                  {q \in DOMAIN checkpoints[v] : <<q, v>> \in Pruned})]
    /\ snaps' = [p \in DOMAIN open |-> [snaps[p] EXCEPT !.end = open[p]]]
    /\ UNCHANGED snapshotSeq

CheckpointsNext ==
    \/ \E v \in Validators, s \in Nat : ChangeSupply(v, s)
    \/ \E p \in Proposals, end \in Nat : TakeSnapshot(p, end)
    \/ \E W \in SUBSET Validators, emptied \in SUBSET Validators,
          O \in SUBSET DOMAIN snaps :
          \E retired \in [W -> Nat], open \in [O -> Nat] :
              CloseBlock(retired, emptied, open)

CheckpointsSpec == CheckpointsInit /\ [][CheckpointsNext]_checkpointVars

-----------------------------------------------------------------------------
\* The mapping: each open snapshot's figures as a vote or a tally reads them.
Supplies == [v \in Validators |-> books[v].supply]
Starts ==
    [v \in Validators |-> IF books[v].supplyHeight = height
                          THEN books[v].blockStart ELSE books[v].supply]
Figures == [p \in DOMAIN snaps |-> [v \in Validators |-> snapshotSupply(p, v)]]

Eager == INSTANCE EagerSnapshots
    WITH supply <- Supplies, start <- Starts, figures <- Figures

(* The checkpoints keep the promise of EagerSnapshots: the supply read back
   for an open snapshot is the one its block began with (votes.go). *)
SnapshotsExact == Eager!Spec
=============================================================================
