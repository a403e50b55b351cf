---------------------------- MODULE Groundworks ----------------------------
(***************************************************************************)
(* x/shieldedstaking's Groundworks votes (groundworks.go), composed with   *)
(* the stake notes and moves of Moves: every stake message cancels the     *)
(* votes of the notes it spends and may cast one for each note it makes.   *)
(*                                                                         *)
(* A vote is kept under its note's number, as under the note's tag.  Its   *)
(* exposure, labelled with a move, is pending until the label's window has *)
(* closed.  A validator's votes are one voter of the Groundworks stream,   *)
(* filed from totals, at a rate that only a slash or a move lowers here,   *)
(* where no epoch ends.                                                    *)
(***************************************************************************)
EXTENDS Moves

CONSTANTS
    Options,
    Whole,                      \* the percents of a split add up to it
    MinPosition, MaturesPerBlock,
    MaxEpoch                    \* bound: the stream's resets

VARIABLE
    g           \* votes, totals, epochs of totals, rates, voters filed, struck, epoch

gvars == <<k, now, phase, slash, plan, g>>

\* epochRate: a rate that is not positive counts as 1.
epochRate(st, v) == IF st.rate[v].b = 0 THEN [b |-> 1, s |-> 1] ELSE st.rate[v]
voteWeight(st, v, d) == (epochRate(st, v).b * d) \div epochRate(st, v).s

NoTotals == [o \in Options |-> 0]
NoVotes == [o \in Options |-> 0]
voteLive(st, x) == x.epoch = st.epoch

\* freshTotals, addVoteTotals.
addVoteTotals(st, x, sign) ==
    LET had == IF st.ep[x.val] = st.epoch THEN st.totals[x.val] ELSE NoTotals
    IN [st EXCEPT !.ep[x.val] = st.epoch,
                  !.totals[x.val] = [o \in Options |-> had[o] + sign * x.derth * x.split[o]]]

\* syncValidatorVoter: stale totals go; a validator without totals leaves the
\* index; its voter is filed at its rate.
syncValidatorVoter(st, v) ==
    LET live == st.ep[v] = st.epoch /\ st.totals[v] # NoTotals
        rate == epochRate(st, v)
    IN [st EXCEPT !.ep[v] = IF live THEN @ ELSE 0,
                  !.totals[v] = IF live THEN @ ELSE NoTotals,
                  !.filed[v] = IF live THEN [o \in Options |-> (rate.b * st.totals[v][o]) \div (rate.s * Whole)]
                               ELSE NoVotes]

cancelVote(st, i) ==
    LET x    == st.votes[i]
        gone == [st EXCEPT !.votes = Drop(@, {i})]
    IN IF i \notin DOMAIN st.votes THEN st
       ELSE IF voteLive(st, x) THEN syncValidatorVoter(addVoteTotals(gone, x, -1), x.val)
       ELSE gone

\* Fault variant: an exposure counts as soon as its block is over.
maturesAtOnce(moves, key, t) == t + 1

\* maturesAt: when the label could clear, and its move's entry is complete.
maturesAt(moves, key, t) ==
    Most(t + labelWindow + 1, IF key \in DOMAIN moves THEN moves[key].c + 1 ELSE 0)

\* castVote for note n under i: its exposure, its window closed, counts now at
\* its worth, else it waits.  moves are the moves recorded by then.
castVote(st, stores, moves, i, split) ==
    LET n    == stores.notes[i]
        at   == maturesAt(moves, n.key, n.t)
        wait == n.ex > 0 /\ now < at
        x    == [val |-> n.val, split |-> split, epoch |-> st.epoch,
                 derth |-> n.amt - n.ex + IF wait THEN 0 ELSE exposureWorth(stores, n),
                 pend |-> IF wait THEN n.ex ELSE 0, key |-> IF wait THEN n.key ELSE 0,
                 t |-> IF wait THEN n.t ELSE 0, at |-> IF wait THEN at ELSE 0]
    IN IF x.derth = 0 /\ x.pend = 0 THEN st
       ELSE syncValidatorVoter([addVoteTotals(st, x, 1) EXCEPT !.votes = Put(@, i, x)], n.val)

checkGroundworks(n) ==
    /\ voteWeight(g, n.val, n.amt) >= 1
    /\ voteWeight(g, n.val, n.amt) >= MinPosition

\* applyGroundworks: the inputs' votes are cancelled, then the outputs the
\* message names vote with its split.
applyGroundworks(V, split) ==
    LET spent == DOMAIN k.notes \ DOMAIN k'.notes
        moves == [m \in DOMAIN k.moves |-> k'.moves[m]]
    IN FoldLeft(LAMBDA st, i : castVote(st, k', moves, i, split),
                FoldLeft(cancelVote, g, SetToSortSeq(spent, <)), SetToSortSeq(V, <))

Votes(struck) ==
    \E V \in SUBSET (DOMAIN k'.notes \ DOMAIN k.notes), split \in plan.splits \cup {NoVotes} :
       /\ V = {} <=> split = NoVotes
       /\ \A i \in V : checkGroundworks(k'.notes[i])
       /\ g' = [applyGroundworks(V, split) EXCEPT !.struck = @ \cup struck]

\* Both books' voters are re-filed at the end of the block.
RedelegateVote == Redelegate /\ Votes({v \in Vals : k'.S[v] # k.S[v]})
RestakeVote == Restake /\ Votes({})
UndelegateVote == Undelegate /\ Votes({})

RewardVote == Reward /\ UNCHANGED g

SlashVote == Slash /\ g' = [g EXCEPT !.struck = @ \cup {slash'.v} \cup Dsts(k, slash'.v)]

\* matureVote: a window grown, or an entry that completes later, is waited out.
matureVote(st, i) ==
    LET x    == st.votes[i]
        at   == maturesAt(k'.moves, x.key, x.t)
        more == [x EXCEPT !.derth = @ + exposureWorth(k', [key |-> x.key, ex |-> x.pend]),
                          !.pend = 0, !.key = 0, !.t = 0, !.at = 0]
        off  == IF voteLive(st, x) THEN addVoteTotals(st, x, -1) ELSE st
        kept == IF more.derth = 0 THEN [off EXCEPT !.votes = Drop(@, {i})]
                ELSE [off EXCEPT !.votes[i] = more]
        on   == IF voteLive(st, x) THEN addVoteTotals(kept, more, 1) ELSE kept
    IN IF now < at THEN [st EXCEPT !.votes[i].at = at]
       ELSE IF voteLive(st, x) THEN syncValidatorVoter(on, x.val) ELSE on

\* matureVotes: the due, in the queue's order, a limited number a block.
matureVotes(st) ==
    LET due == {i \in DOMAIN st.votes : st.votes[i].pend > 0 /\ st.votes[i].at <= now}
        seq == SetToSortSeq(due, LAMBDA i, j : st.votes[i].at < st.votes[j].at
                                             \/ (st.votes[i].at = st.votes[j].at /\ i < j))
    IN FoldLeft(matureVote, st, SubSeq(seq, 1, Least(Len(seq), MaturesPerBlock)))

BeginBlockVote == BeginBlock /\ g' = matureVotes(g)

\* reweighSlashed: the live rate, if lower, becomes the epoch rate.
reweighSlashed(st, v) ==
    LET live == IF k.S[v] = 0 THEN [b |-> 1, s |-> 1] ELSE [b |-> Backing(k, v), s |-> k.S[v]]
        old  == st.rate[v]
        rate == IF old.b > 0 /\ live.b * old.s > old.b * live.s THEN old ELSE live
        st1  == [st EXCEPT !.rate[v] = rate, !.struck = @ \ {v}]
    IN IF st.ep[v] = 0 THEN st1 ELSE syncValidatorVoter(st1, v)

\* x/gov may reset the stream, which clears its voters.
EndBlockVote ==
    /\ EndBlock
    /\ \E reset \in BOOLEAN :
          /\ reset => k'.ut = k.ut /\ plan.left.params > 0 /\ g.epoch < MaxEpoch
          /\ LET st == IF reset THEN [g EXCEPT !.epoch = @ + 1, !.filed = [v \in Vals |-> NoVotes]] ELSE g
             IN g' = FoldSet(LAMBDA v, x : reweighSlashed(x, v), st, st.struck)

GInit ==
    /\ Init
    /\ g = [votes |-> Nothing, totals |-> [v \in Vals |-> NoTotals], ep |-> [v \in Vals |-> 0],
            rate |-> [v \in Vals |-> [b |-> 1, s |-> 1]], filed |-> [v \in Vals |-> NoVotes],
            struck |-> {}, epoch |-> 1]

GNext ==
    \/ RedelegateVote \/ RestakeVote \/ UndelegateVote
    \/ RewardVote \/ SlashVote \/ BeginBlockVote \/ EndBlockVote

GSpec == GInit /\ [][GNext]_gvars

-----------------------------------------------------------------------------
\* assertGwTotals, and more: the totals kept for a validator are the sum of its
\* live votes', through resets, cancelled and matured votes, and the voter filed
\* with the allocation is theirs at the validator's rate.
TotalsExact ==
    \A v \in Vals :
       LET live == {i \in DOMAIN g.votes : g.votes[i].val = v /\ voteLive(g, g.votes[i])}
           sum  == [o \in Options |-> SumOver(live, LAMBDA i : g.votes[i].derth * g.votes[i].split[o])]
       IN /\ sum = IF g.ep[v] = g.epoch THEN g.totals[v] ELSE NoTotals
          /\ g.filed[v] = [o \in Options |-> (epochRate(g, v).b * sum[o]) \div (epochRate(g, v).s * Whole)]

\* A vote is of a note that exists, at its validator, and never counts or
\* waits to count more derth than the note is worth: an exposed one counts only
\* when no slash can cut it any more, at what is left of it (matureVote).
VotesBacked ==
    phase = "txs" =>
      \A i \in DOMAIN g.votes :
         /\ i \in DOMAIN k.notes /\ k.notes[i].val = g.votes[i].val
         /\ g.votes[i].derth + exposureWorth(k, [key |-> g.votes[i].key, ex |-> g.votes[i].pend])
              <= NoteWorth(k, k.notes[i])

\* After every block a validator's votes weigh no more than its book is worth,
\* slashed in that block or not (reweighSlashed), while it is worth anything.
VotesWorth ==
    (phase = "begin" /\ slash = NoSlash) =>
      \A v \in Vals : Backing(k, v) > 0 => SumOver(Options, LAMBDA o : g.filed[v][o]) <= Backing(k, v)

\* Groundworks votes follow the stake: summed exactly, each backed by a note,
\* together never above the book.
GroundworksExact == TotalsExact /\ VotesBacked /\ VotesWorth
=============================================================================
