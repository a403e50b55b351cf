----------------------------- MODULE StakeVotes -----------------------------
(***************************************************************************)
(* x/shieldedstaking's stake votes (votes.go).  When a proposal enters     *)
(* voting, a snapshot takes the stake note tree and the tree of spent      *)
(* nullifiers, both as the last block left them; a note in the first and   *)
(* not in the second votes without being spent, once, whatever becomes of  *)
(* it later.  x/gov's tally turns a validator's voted derth into a share   *)
(* of the module's stake there.                                            *)
(*                                                                         *)
(* What a validator's supply was at a snapshot is SupplyCheckpoints'; its  *)
(* variables are this module's too and its steps conjuncts of these.  The  *)
(* book is reduced to what a vote can see: the derth in each note, the     *)
(* module's shares and the undelegations waiting (ShieldedStaking has the  *)
(* rest, which books a block's sweep reaches included: here any may be).   *)
(* A block is one unit of time.                                            *)
(***************************************************************************)
EXTENDS SupplyCheckpoints, Integers, Sequences, FiniteSetsExt, SequencesExt

CONSTANTS
    SelfBond,            \* an operator's own delegation
    GenesisNotes,        \* the amounts of each validator's stake notes at the start
    Amounts,             \* what a message moves
    Options,             \* x/gov's vote options
    Prec,                \* a decimal is a multiple of 1 / Prec
    MonthBlocks, LiveVintageMonths,
    VotingPeriod, ExpeditedVotingPeriod,
    SnapshotSweepLimit, SweepBudget,
    Budgets,             \* bound: how many of each message and event a behaviour has
    LastMsg, MaxHeight   \* bounds: the last block with messages, the last block

ASSUME StakeVotesAssumption ==
    /\ Amounts \subseteq Nat \ {0} /\ GenesisNotes \in Seq(Nat \ {0})
    /\ \A n \in {Prec, MonthBlocks, LiveVintageMonths, VotingPeriod, ExpeditedVotingPeriod,
                 SnapshotSweepLimit, SweepBudget} : n \in Nat \ {0}
    /\ \A n \in {SelfBond, LastMsg, MaxHeight} : n \in Nat

VARIABLES
    notes,               \* the stake tree: validator, vintage and amount of each leaf
    spent,               \* the positions whose nullifier is in the nullifier tree
    roots,               \* the trees as last recorded: size and spent; stale or not
    ballots,             \* per snapshot: the roots it took and its month
    retiredVins,         \* the <<validator, vintage>> that left the book
    stake,               \* x/staking: tokens, shares, the module's shares, and U
    props,               \* x/gov's proposals: voting or done, end, regular end, expedited
    govVotes,            \* x/gov's votes of the operators: <<proposal, validator, option>>
    votes,               \* stake votes: <<proposal, first note>> -> vote
    used,                \* vote nullifiers: <<proposal, note>>
    tallies,             \* <<proposal, validator>> -> derth per option
    left                 \* how many of each message and event may still come

ledger == <<notes, spent, retiredVins, stake>>
polls  == <<ballots, props, govVotes, votes, used, tallies>>
vars   == <<checkpointVars, ledger, polls, roots, left>>

Kinds == {"delegate", "undelegate", "restake", "deposit", "cancel", "govvote", "vote",
          "slash", "fault"}
Put(f, x, y) == [z \in DOMAIN f \cup {x} |-> IF z = x THEN y ELSE f[z]]
Drop(f, X) == [z \in DOMAIN f \ X |-> f[z]]
Least(a, b) == IF a < b THEN a ELSE b
AmountOf(I) == MapThenSumSet(LAMBDA i : notes[i].amt, I)

Month == 1 + (height - 1) \div MonthBlocks
VintageRetired(m) == m <= Month - LiveVintageMonths

-----------------------------------------------------------------------------
\* rate.go: the module's stake at v, less what is leaving, over the derth.
Worth(st) == IF st.shares = 0 THEN 0 ELSE (st.mine * st.tokens) \div st.shares
Backing(v) == Max({0, Worth(stake[v]) - stake[v].U})
valueOf(d, b, s) == IF s = 0 THEN 0 ELSE (d * b) \div s
derthFor(a, b, s) == IF s = 0 THEN a ELSE (a * s) \div b

Unspent(v, m) ==
    {i \in DOMAIN notes \ spent : notes[i].val = v /\ notes[i].vin = m}
VintageSupply(v, m) == IF <<v, m>> \in retiredVins THEN 0 ELSE AmountOf(Unspent(v, m))

\* applyStakeProof: the inputs' nullifiers are inserted, the output appended.
Spend(I, v, m, amt) ==
    /\ spent' = spent \cup I
    /\ notes' = IF amt = 0 THEN notes ELSE Append(notes, [val |-> v, vin |-> m, amt |-> amt])
\* A stake proof's inputs: at most two notes of one asset.
Inputs(v, m) == {I \in SUBSET Unspent(v, m) : Cardinality(I) <= 2}

Message(kind) ==
    /\ height <= LastMsg
    /\ left[kind] > 0
    /\ left' = [left EXCEPT ![kind] = @ - 1]

\* Delegate: bonded at once at the live rate, the derth in the merged note.
Delegate(v, a, I) ==
    /\ Message("delegate")
    /\ stake[v].tokens > 0
    /\ books[v].supply = 0 \/ Backing(v) > 0
    /\ I \in Inputs(v, Month)
    /\ LET d  == derthFor(a, Backing(v), books[v].supply)
           sh == (a * stake[v].shares) \div stake[v].tokens
       IN  /\ d > 0
           /\ ChangeSupply(v, books[v].supply + d)
           /\ Spend(I, v, Month, AmountOf(I) + d)
           /\ stake' = [stake EXCEPT ![v].tokens = @ + a, ![v].shares = @ + sh,
                                     ![v].mine = @ + sh]
    /\ UNCHANGED <<retiredVins, polls, roots>>

\* Undelegate: its live value waits for the epoch's end.
Undelegate(v, m, d, I) ==
    /\ Message("undelegate")
    /\ I \in Inputs(v, m) /\ d <= AmountOf(I)
    /\ ~VintageRetired(m) /\ d <= VintageSupply(v, m) /\ d <= books[v].supply
    /\ ChangeSupply(v, books[v].supply - d)
    /\ Spend(I, v, m, AmountOf(I) - d)
    /\ stake' = [stake EXCEPT ![v].U = @ + valueOf(d, Backing(v), books[v].supply)]
    /\ UNCHANGED <<retiredVins, polls, roots>>

\* Restake merges notes; CheckIn also brings them to this month.
Restake(v, m, I, to) ==
    /\ Message("restake")
    /\ I \in Inputs(v, m) /\ I # {} /\ ~VintageRetired(m) /\ to \in {m, Month}
    /\ Spend(I, v, to, AmountOf(I))
    /\ UNCHANGED <<checkpointVars, retiredVins, stake, polls, roots>>

-----------------------------------------------------------------------------
\* A deposit puts p to the vote (x/gov); AfterProposalDeposit snapshots it.
Deposit(p, expedited) ==
    /\ Message("deposit")
    /\ p \notin DOMAIN props
    /\ LET end == height + (IF expedited THEN ExpeditedVotingPeriod ELSE VotingPeriod)
       IN  /\ props' = Put(props, p, [status |-> "voting", end |-> end, expedited |-> expedited,
                                      regular |-> height + VotingPeriod])
           /\ TakeSnapshot(p, end)
    /\ ballots' = Put(ballots, p,
          [size |-> IF roots.stale THEN 0 ELSE roots.size, nf |-> roots.nf, vin |-> Month])
    /\ UNCHANGED <<ledger, govVotes, votes, used, tallies, roots>>

\* x/gov: MsgCancelProposal deletes the proposal and its votes, not the snapshot.
CancelProposal(p) ==
    /\ Message("cancel")
    /\ p \in DOMAIN props /\ props[p].status = "voting" /\ height < props[p].end
    /\ props' = [props EXCEPT ![p].status = "cancelled"]
    /\ govVotes' = {x \in govVotes : x[1] # p}
    /\ UNCHANGED <<checkpointVars, ledger, ballots, votes, used, tallies, roots>>

\* x/gov: an operator's own vote, or its change.
OperatorVote(p, v, o) ==
    /\ Message("govvote")
    /\ p \in DOMAIN props /\ props[p].status = "voting"
    /\ govVotes' = {x \in govVotes : x[1] # p \/ x[2] # v} \cup {<<p, v, o>>}
    /\ UNCHANGED <<checkpointVars, ledger, ballots, props, votes, used, tallies, roots>>

\* openSnapshot.
openSnapshot(p, v) ==
    /\ p \in DOMAIN snaps /\ height < snaps[p].end
    /\ props[p].status = "voting"
    /\ ballots[p].size > 0
    /\ snapshotSupply(p, v) > 0

\* The vote proof: each note is under the snapshot's note root and its nullifier
\* not under the snapshot's nullifier root; the notes are of one asset.
Provable(p, v, m, I) ==
    /\ I # {} /\ Cardinality(I) <= 2
    /\ \A i \in I : /\ i <= ballots[p].size /\ i \notin ballots[p].nf
                    /\ notes[i].val = v /\ notes[i].vin = m

\* checkStakeVote and putVote.  The key is the first note's vote nullifier.
StakeVote(p, v, m, I, w, o) ==
    /\ Message("vote")
    /\ openSnapshot(p, v)
    /\ Provable(p, v, m, I)
    /\ ~VintageRetired(m) /\ m <= ballots[p].vin
    /\ w <= AmountOf(I) /\ w <= snapshotSupply(p, v)
    /\ \A i \in I : <<p, i>> \notin used
    /\ votes' = Put(votes, <<p, Min(I)>>, [val |-> v, derth |-> w, opt |-> o])
    /\ used' = used \cup {<<p, i>> : i \in I}
    /\ tallies' = Put(tallies, <<p, v>>,
          [x \in Options |-> (IF <<p, v>> \in DOMAIN tallies THEN tallies[<<p, v>>][x] ELSE 0)
                             + (IF x = o THEN w ELSE 0)])
    /\ UNCHANGED <<checkpointVars, ledger, ballots, props, govVotes, roots>>

\* x/slashing: v loses half its tokens.
Slash(v) ==
    /\ Message("slash")
    /\ stake[v].tokens > 1
    /\ stake' = [stake EXCEPT ![v].tokens = @ \div 2]
    /\ UNCHANGED <<checkpointVars, notes, spent, retiredVins, polls, roots>>

-----------------------------------------------------------------------------
\* x/gov's EndBlocker ends the voting that is due; an expedited proposal that
\* fails its quick vote goes on as a regular one.  StakeTally removes the votes.
Ended == {p \in DOMAIN props : props[p].status = "voting" /\ props[p].end <= height}
PropsAfter(failed) ==
    [p \in DOMAIN props |->
        IF p \notin Ended THEN props[p]
        ELSE IF p \in failed THEN [props[p] EXCEPT !.end = props[p].regular, !.expedited = FALSE]
        ELSE [props[p] EXCEPT !.status = "done"]]

\* epoch.go and vintages.go: a book the epoch's sweep reaches.  Its retired
\* vintages leave at the live rate, and all that waits is undelegated.
DueVintages(v) ==
    {m \in 1..Month : VintageRetired(m) /\ VintageSupply(v, m) > 0}
DueSupply(v) == MapThenSumSet(LAMBDA m : VintageSupply(v, m), DueVintages(v))
Undelegated(st, u) ==
    LET sh == IF u >= Worth(st) THEN st.mine ELSE (u * st.shares) \div st.tokens
    IN  [tokens |-> st.tokens - (sh * st.tokens) \div st.shares, shares |-> st.shares - sh,
         mine |-> st.mine - sh, U |-> 0]
StakeAfter(swept) ==
    [v \in Validators |->
        IF v \notin swept \/ stake[v].shares = 0 THEN stake[v]
        ELSE Undelegated(stake[v],
                stake[v].U + valueOf(DueSupply(v), Backing(v), books[v].supply))]

\* votes.go: sweepSnapshots.  A block forgets so many snapshots, so many rows.

\* Fault variant: x/gov's end is never looked at again.
extendSnapshotNever(pr, p, end) == FALSE

\* extendSnapshot: x/gov has moved p's voting end.
extendSnapshot(pr, p, end) == pr[p].status = "voting" /\ end < pr[p].end

FirstRows(n, rows) ==
    {x \in rows : Cardinality({y \in rows : y[2] < x[2]}) < n}

\* One snapshot's turn in the sweep: its votes, then its nullifiers, then the
\* tallies and the snapshot, as far as the budget goes.
SweepVotes(r, rows) ==
    [r EXCEPT !.votes = Drop(r.votes, rows), !.budget = @ - Cardinality(rows)]
SweepUsed(r, rows) ==
    [r EXCEPT !.used = @ \ rows, !.budget = @ - Cardinality(rows)]
SweepRest(r, p) ==
    [r EXCEPT !.tallies = Drop(@, {x \in DOMAIN r.tallies : x[1] = p}), !.open = Drop(@, {p})]
RowsOf(p, rows) == {x \in rows : x[1] = p}
\* Fault variant: the snapshot goes with its votes, whatever is left of the rest.
AfterVotesEarly(r, p) ==
    IF r.budget <= 0 THEN SweepRest(r, p)
    ELSE SweepRest(SweepUsed(r, FirstRows(r.budget, RowsOf(p, r.used))), p)

AfterVotes(r, p) ==
    IF r.budget <= 0 THEN r
    ELSE LET u == SweepUsed(r, FirstRows(r.budget, RowsOf(p, r.used)))
         IN  IF u.budget <= 0 THEN u ELSE SweepRest(u, p)
SweepSnapshot(r, pr, p) ==
    IF r.budget <= 0 THEN r
    ELSE IF extendSnapshot(pr, p, r.open[p]) THEN [r EXCEPT !.open[p] = pr[p].end]
    ELSE AfterVotes(SweepVotes(r, FirstRows(r.budget, RowsOf(p, DOMAIN r.votes))), p)

DueSnapshots ==
    SetToSortSeq({p \in DOMAIN snaps : snaps[p].end <= height},
        LAMBDA p, q : Before(<<snaps[p].end, p>>, <<snaps[q].end, q>>))
sweepSnapshots(pr) ==
    FoldLeft(LAMBDA r, p : SweepSnapshot(r, pr, p),
             [open |-> [p \in DOMAIN snaps |-> snaps[p].end],
              votes |-> votes, used |-> used, tallies |-> tallies, budget |-> SweepBudget],
             SubSeq(DueSnapshots, 1, Least(SnapshotSweepLimit, Len(DueSnapshots))))

\* Fault variant: the note tree's root moves on and the nullifier tree's does not.
RecordNotesOnly(recorded) ==
    IF recorded THEN [roots EXCEPT !.size = Len(notes), !.stale = FALSE]
                ELSE [roots EXCEPT !.stale = TRUE]

\* recordStakeRoot and recordNfRoot, together or not at all.
RecordRoots(recorded) ==
    IF recorded THEN [size |-> Len(notes), nf |-> spent, stale |-> FALSE]
                ELSE [roots EXCEPT !.stale = TRUE]

\* What the sweeps of the books and of the snapshots leave.
Forget(r, swept) ==
    /\ votes' = r.votes
    /\ used' = r.used
    /\ tallies' = r.tallies
    /\ ballots' = Drop(ballots, DOMAIN ballots \ DOMAIN r.open)
    /\ CloseBlock([v \in {x \in swept : DueVintages(x) # {}} |-> books[v].supply - DueSupply(v)],
                  {v \in swept : books[v].supply = DueSupply(v) /\ stake'[v].mine = 0},
                  r.open)

\* The block's end: x/gov, the roots, the books, the snapshots.
EndBlock(failed, recorded, swept) ==
    /\ height < MaxHeight
    /\ IF recorded THEN UNCHANGED left ELSE Message("fault")
    /\ props' = PropsAfter(failed)
    /\ govVotes' = {x \in govVotes : x[1] \notin Ended}
    /\ roots' = RecordRoots(recorded)
    /\ stake' = StakeAfter(swept)
    /\ retiredVins' = retiredVins \cup {<<v, m>> \in swept \X (1..Month) : m \in DueVintages(v)}
    /\ Forget(sweepSnapshots(props'), swept)
    /\ UNCHANGED <<notes, spent>>

-----------------------------------------------------------------------------
\* votes.go: StakeTally, in units of 1 / Prec.
Round(a, b) == (2 * a + b) \div (2 * b)
Voted(p, v) ==
    IF <<p, v>> \in DOMAIN tallies THEN MapThenSumSet(LAMBDA o : tallies[<<p, v>>][o], Options) ELSE 0

\* transparentTally: an operator that voted has its self-bond deducted and
\* counted; the validator's other shares follow its vote.
OperatorVoted(p, v) == \E o \in Options : <<p, v, o>> \in govVotes
SelfDeducted(p, v) == IF OperatorVoted(p, v) THEN Prec * (stake[v].shares - stake[v].mine) ELSE 0

\* privateTally: the shares the voted derth counts for.
Fraction(p, v) == Round(Prec * stake[v].mine * Voted(p, v), snapshotSupply(p, v))
VotedWorth(p, v) ==
    (((Prec * Voted(p, v) * Backing(v)) \div books[v].supply) * stake[v].shares) \div stake[v].tokens
Deducted(p, v) ==
    IF p \notin DOMAIN snaps \/ stake[v].mine = 0 \/ Voted(p, v) = 0 THEN 0
    ELSE IF snapshotSupply(p, v) = 0 THEN 0
    ELSE Min({Fraction(p, v), Prec * stake[v].mine, Prec * stake[v].shares - SelfDeducted(p, v)}
             \cup (IF books[v].supply > 0 THEN {VotedWorth(p, v)} ELSE {}))

\* Shares as voting power.
Power(v, sh) == IF stake[v].shares = 0 THEN 0 ELSE Round(sh * stake[v].tokens, stake[v].shares)
PrivatePower(p, v) == Power(v, Deducted(p, v))
InheritedPower(p, v) ==
    IF OperatorVoted(p, v)
    THEN Power(v, Prec * stake[v].shares - SelfDeducted(p, v) - Deducted(p, v))
    ELSE 0
StakeTally(p) ==
    MapThenSumSet(LAMBDA v : PrivatePower(p, v) + Power(v, SelfDeducted(p, v)) + InheritedPower(p, v),
                  Validators)

-----------------------------------------------------------------------------
\* A chain started with stake in place, a note at a time for each validator.
Sum(s) == FoldSeq(LAMBDA x, y : x + y, 0, s)
GenesisTree ==
    FoldLeft(LAMBDA t, v : t \o [i \in DOMAIN GenesisNotes |->
                                    [val |-> v, vin |-> 1, amt |-> GenesisNotes[i]]],
             <<>>, SetToSortSeq(Validators, <))

Init ==
    /\ height = 1
    /\ books = [v \in Validators |-> [NoBook EXCEPT !.supply = Sum(GenesisNotes)]]
    /\ snaps = None
    /\ snapshotSeq = 0
    /\ checkpoints = [v \in Validators |-> None]
    /\ notes = GenesisTree /\ spent = {} /\ retiredVins = {}
    /\ roots = [size |-> Len(GenesisTree), nf |-> {}, stale |-> FALSE]
    /\ stake = [v \in Validators |->
                   [tokens |-> SelfBond + Sum(GenesisNotes), shares |-> SelfBond + Sum(GenesisNotes),
                    mine |-> Sum(GenesisNotes), U |-> 0]]
    /\ ballots = None /\ props = None /\ govVotes = {}
    /\ votes = None /\ used = {} /\ tallies = None
    /\ \E b \in Budgets : left = [x \in Kinds |-> IF x \in DOMAIN b THEN b[x] ELSE 0]

Next ==
    \/ \E v \in Validators :
          \/ \E a \in Amounts, I \in SUBSET DOMAIN notes : Delegate(v, a, I)
          \/ \E m \in 1..Month, I \in SUBSET DOMAIN notes :
                \/ \E d \in Amounts : Undelegate(v, m, d, I)
                \/ \E to \in 1..Month : Restake(v, m, I, to)
                \/ \E p \in DOMAIN snaps, w \in 1..AmountOf(I), o \in Options :
                      StakeVote(p, v, m, I, w, o)
          \/ \E p \in DOMAIN props, o \in Options : OperatorVote(p, v, o)
          \/ Slash(v)
    \/ \E p \in Proposals :
          \/ \E x \in BOOLEAN : Deposit(p, x)
          \/ CancelProposal(p)
    \/ \E failed \in SUBSET {p \in Ended : props[p].expedited}, recorded \in BOOLEAN,
          swept \in SUBSET Validators : EndBlock(failed, recorded, swept)

Spec == Init /\ [][Next]_vars
\* Blocks keep coming, up to the last one modelled.
FairSpec == Spec /\ []<>(height = MaxHeight)

-----------------------------------------------------------------------------
\* The derth the recorded stake votes on p give to v.
Cast(p, v) ==
    MapThenSumSet(LAMBDA x : votes[x].derth, {x \in DOMAIN votes : x[1] = p /\ votes[x].val = v})

(* Every unit of derth votes at most once on a proposal: a validator's voted
   derth never exceeds the supply its snapshot reads, although notes are merged,
   moved to another month, undelegated and retired while voting is open; and
   while it is open the tally is the sum of the votes (putVote).  A removed book
   reads zero, and its votes do not count. *)
VotesOnce ==
    \A p \in DOMAIN snaps, v \in Validators :
        /\ snapshotSupply(p, v) > 0 => Voted(p, v) <= snapshotSupply(p, v)
        /\ height < snaps[p].end => Voted(p, v) = Cast(p, v)

(* A tally never finds more power than is bonded, and private votes never more
   than the voted derth is worth now: stake that came after the snapshot follows
   its validator (privateTally's caps).  Each rounding is at most half a unit. *)
TallyBounded ==
    \A p \in {q \in DOMAIN props : props[q].status = "voting"} :
        /\ StakeTally(p) <= MapThenSumSet(LAMBDA v : Prec * stake[v].tokens + 2, Validators)
        /\ \A v \in Validators : books[v].supply > 0 =>
              PrivatePower(p, v) * books[v].supply
                  <= (Prec * Backing(v) * Voted(p, v)) + books[v].supply

(* A vote counts once, at no more than it is worth: no derth votes twice on a
   proposal, and its tally finds no more power than is bonded (castVote,
   privateTally). *)
VotesCounted == VotesOnce /\ TallyBounded

(* While x/gov has a proposal in its voting period, also when an expedited one
   goes on as a regular one, none of its stake votes or vote nullifiers is
   forgotten, and its snapshot keeps its roots (extendSnapshot, sweepSnapshots). *)
VotesKept ==
    [][\A p \in DOMAIN snaps : props'[p].status = "voting" =>
          /\ p \in DOMAIN snaps' /\ ballots'[p] = ballots[p]
          /\ RowsOf(p, used) \subseteq used'
          /\ \A x \in RowsOf(p, DOMAIN votes) : x \in DOMAIN votes' /\ votes'[x] = votes[x]]_vars

(* Every snapshot is forgotten in the end, cancelled proposals' too, with all its
   votes, vote nullifiers and tallies (sweepSnapshots). *)
SnapshotsForgotten ==
    \A p \in Proposals :
        (p \in DOMAIN snaps) ~>
            /\ p \notin DOMAIN snaps
            /\ RowsOf(p, used) = {}
            /\ RowsOf(p, DOMAIN votes \cup DOMAIN tallies) = {}

(* What checkpointSupply's comment says of a snapshot, taken at its word: it sees
   the supply its block began with, and goes on seeing it.  Removing an emptied
   book at an epoch's end (processValidator) loses the figure of a snapshot taken
   in the block the book last changed in. *)
FiguresKept ==
    [][\A p \in DOMAIN snaps, v \in Validators :
          p \in DOMAIN snaps' => snapshotSupply(p, v)' = snapshotSupply(p, v)]_vars
=============================================================================
