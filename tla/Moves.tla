------------------------------- MODULE Moves -------------------------------
(***************************************************************************)
(* x/shieldedstaking's private redelegation and its slash debt             *)
(* (redelegate.go, moves.go, debt_tree.go).                                *)
(*                                                                         *)
(* A move takes derth from a validator's book to another's at once.  Until *)
(* its x/staking entry matures a slash of the source still reaches it, at  *)
(* the destination, where the module's one delegation backs everybody.     *)
(* The module finds out which entries a slash reached by replaying         *)
(* x/staking's rule, takes the burnt value's derth off the destination's   *)
(* supply, and writes what each move's credit is still worth in the debt   *)
(* tree, which its labelled note pays when the label clears.               *)
(*                                                                         *)
(* The stores of the module, and of x/staking what it uses, are the record *)
(* k.  A block takes one unit of time, so a height is a time.  Epoch ends  *)
(* and vintages are ShieldedStaking's: here no epoch ends, one vintage is  *)
(* live, and the undelegations begun before are in k.ubd from the start.   *)
(***************************************************************************)
EXTENDS Integers, Sequences, FiniteSetsExt, SequencesExt

CONSTANTS
    Vals,
    Fractions,                  \* double sign's and downtime's: <<numerator, denominator>>
    ShareUnit,                  \* the shares a token buys at a validator never slashed
    MoveTimeSlack, ClearBeforeSlack, BondedDust, MinDelegation,
    MaxEntryHeightsPerPair, MergeTries, MaxMergeMoves, PruneLimit,
    Shorts,                     \* how far below what it buys a move's credit may be
    Scenarios                   \* bound: starting stores, how many of each message follow, until when

VARIABLES
    k,          \* the stores
    now,        \* block height and time
    phase,      \* "begin" (slashes run), "txs"
    slash,      \* ghost: the slash watched, and the destinations before it
    plan        \* what may still come: messages of each kind, and their inputs

vars == <<k, now, phase, slash, plan>>

Kinds == {"redelegate", "restake", "undelegate", "slash", "params", "reward"}
Put(f, x, y) == [z \in DOMAIN f \cup {x} |-> IF z = x THEN y ELSE f[z]]
Drop(f, X) == [z \in DOMAIN f \ X |-> f[z]]
Nothing == [x \in {} |-> 0]
Least(a, b) == IF a < b THEN a ELSE b
Most(a, b) == IF a > b THEN a ELSE b
SumOver(S, F(_)) == MapThenSumSet(F, S)

-----------------------------------------------------------------------------
(* x/staking's primitives. *)
Of(f, n) == (f[1] * n) \div f[2]

TokensFromShares(x, sh) ==
    IF sh = x.shares THEN x.tokens ELSE (sh * x.tokens) \div x.shares

\* Keeper.Unbond; x/distribution pays what the delegation had earned, to the
\* module's balance and to no book.
Unbonded(st, v, sh) ==
    [st EXCEPT !.val[v].tokens = @ - TokensFromShares(st.val[v], sh),
               !.val[v].shares = @ - sh, !.mine[v] = @ - sh,
               !.stray = @ + st.W[v], !.W[v] = 0]

SharesFor(x, a) == IF x.shares = 0 THEN a * ShareUnit ELSE (a * x.shares) \div x.tokens

\* Keeper.Delegate.
Bonded(st, v, a) ==
    LET sh == SharesFor(st.val[v], a)
    IN [st EXCEPT !.val[v].tokens = @ + a, !.val[v].shares = @ + sh, !.mine[v] = @ + sh,
                  !.stray = @ + st.W[v], !.W[v] = 0]

-----------------------------------------------------------------------------
(* rate.go. *)
Delegated(st, v) ==
    IF st.val[v].shares = 0 THEN 0 ELSE (st.mine[v] * st.val[v].tokens) \div st.val[v].shares
Backing(st, v) == Most(0, Delegated(st, v) + st.W[v] + st.P[v] - st.U[v])
valueOf(d, b, s) == IF s = 0 THEN 0 ELSE (d * b) \div s
\* Worth nothing, derth has no price; the callers refuse it.
derthFor(a, b, s) == IF s = 0 THEN a ELSE IF b = 0 THEN 0 ELSE (a * s) \div b

checkDelegatable(v) ==
    ~k.val[v].jailed /\ k.val[v].tokens > 0 /\ k.val[v].shares > 0 /\ ~k.val[v].tombstoned

collectRewards(st, v) ==
    IF st.mine[v] = 0 THEN st ELSE [st EXCEPT !.P[v] = @ + st.W[v], !.W[v] = 0]

-----------------------------------------------------------------------------
(* The label window. *)
labelWindow == Most(k.maxUnbonding, k.ut) + MoveTimeSlack
ClearBefore == Most(0, now - labelWindow)

\* Fault variant: a clear already accepted under a shorter window is forgotten.
clearedBeforeNow == ClearBefore

clearedBefore == Most(k.maxClear, ClearBefore)

\* The clear_before a stake proof may name.
checkStakeClear ==
    IF ClearBefore = 0 THEN {0}
    ELSE Most(1, ClearBefore - ClearBeforeSlack)..ClearBefore

checkMoveTime(t) == t <= now /\ now - t <= MoveTimeSlack

-----------------------------------------------------------------------------
(* Stake notes.  A labelled note holds the move that credited it (key, time *)
(* and exposed derth); the proof is external and shows what follows.        *)
\* exposureWorth: the debt row's retained derth, or all of it without one.
exposureWorth(st, n) ==
    IF n.key \in DOMAIN st.rows THEN Least(n.ex, st.rows[n.key]) ELSE n.ex
NoteWorth(st, n) == n.amt - n.ex + exposureWorth(st, n)
NotesAt(v) == {i \in DOMAIN k.notes : k.notes[i].val = v}
Labelled(I) == {i \in I : k.notes[i].key # 0}

\* Lane A: up to two notes of v, one labelled at most, whose label is kept or,
\* its window closed, cleared at what the debt tree says.
LaneA(v) ==
    {I \in SUBSET NotesAt(v) : Cardinality(I) \in {1, 2} /\ Cardinality(Labelled(I)) <= 1}
MayClear(I, c) == Labelled(I) # {} /\ \A i \in Labelled(I) : k.notes[i].t < c

\* Lane B: an unlabelled note of v, or padding.
LaneB(v) == {{}} \cup {{i} : i \in NotesAt(v) \ Labelled(NotesAt(v))}

\* Lane A's output when d leaves: the merged note.
Merged(I, v, clear, d) ==
    LET keep == IF clear THEN {} ELSE Labelled(I)
        sum  == SumOver(I \ keep, LAMBDA i : NoteWorth(k, k.notes[i]))
        lab  == IF keep = {} THEN [key |-> 0, t |-> 0, ex |-> 0, amt |-> 0]
                ELSE k.notes[CHOOSE i \in keep : TRUE]
    IN [val |-> v, amt |-> sum + lab.amt - d, key |-> lab.key, t |-> lab.t, ex |-> lab.ex]

\* applyStakeProof and noteClearBefore: the inputs are spent, the outputs that
\* hold something appended, and the highest clear_before is kept.
applyStake(st, I, outs, c) ==
    LET made == SelectSeq(outs, LAMBDA n : n.amt > 0)
        new  == [i \in st.next..st.next + Len(made) - 1 |-> made[i - st.next + 1]]
    IN [st EXCEPT !.notes = [i \in (DOMAIN @ \ I) \cup DOMAIN new |->
                               IF i \in DOMAIN new THEN new[i] ELSE @[i]],
                  !.next = @ + Len(made), !.maxClear = Most(@, c)]

-----------------------------------------------------------------------------
(* The module's redelegation entries, oldest first: creation height and    *)
(* completion, the balance moved, the shares it bought at the destination. *)
Red(st, p) == IF p \in DOMAIN st.red THEN st.red[p] ELSE <<>>
Mature(e) == e.c <= now
entryMoves(st, p, e) ==
    {m \in DOMAIN st.moves : st.moves[m].pair = p /\ st.moves[m].h = e.h /\ st.moves[m].c = e.c}

\* The pairs of entries a merge may take, oldest first.
Mergeable(st, p) ==
    {i \in 1..Least(Len(Red(st, p)) - 1, MergeTries) :
        Cardinality(entryMoves(st, p, st.red[p][i]))
          + Cardinality(entryMoves(st, p, st.red[p][i + 1])) <= MaxMergeMoves}

\* Fault variant: the merged entry completes with the older of the two.
mergeOldEntriesEarly(st, p, i) ==
    LET ei == st.red[p][i]
        ej == st.red[p][i + 1]
        m  == [h |-> Most(ei.h, ej.h), c |-> Least(ei.c, ej.c),
               bal |-> ei.bal + ej.bal, sh |-> ei.sh + ej.sh]
        of == entryMoves(st, p, ei) \cup entryMoves(st, p, ej)
    IN [st EXCEPT !.red[p] = RemoveAt([@ EXCEPT ![i + 1] = m], i),
                  !.moves = [x \in DOMAIN @ |->
                               IF x \in of THEN [@[x] EXCEPT !.h = m.h, !.c = m.c] ELSE @[x]]]

mergeOldEntries(st, p, i) ==
    LET ei == st.red[p][i]
        ej == st.red[p][i + 1]
        m  == [h |-> Most(ei.h, ej.h), c |-> Most(ei.c, ej.c),
               bal |-> ei.bal + ej.bal, sh |-> ei.sh + ej.sh]
        of == entryMoves(st, p, ei) \cup entryMoves(st, p, ej)
    IN [st EXCEPT !.red[p] = RemoveAt([@ EXCEPT ![i + 1] = m], i),
                  !.moves = [x \in DOMAIN @ |->
                               IF x \in of THEN [@[x] EXCEPT !.h = m.h, !.c = m.c] ELSE @[x]]]

Entered(st, p, e) ==
    [st EXCEPT !.red = Put(@, p, Append(Red(st, p), e)), !.slots = @ \cup {<<p, e.c>>}]
Joined(st, p, e) ==
    LET n == Len(st.red[p])
    IN [st EXCEPT !.red[p][n].bal = @ + e.bal, !.red[p][n].sh = @ + e.sh]

recordEntry(st, p, e) ==
    LET es == Red(st, p)
    IN IF es # <<>> /\ Last(es).h = e.h /\ Last(es).c = e.c THEN Joined(st, p, e)
       ELSE IF Len(es) < MaxEntryHeightsPerPair THEN Entered(st, p, e)
       ELSE IF Mergeable(st, p) = {} THEN Joined(st, p, e)
       ELSE Entered(mergeOldEntries(st, p, Min(Mergeable(st, p))), p, e)

\* moveBonded's entry, by the source's status; none when it is unbonded, for
\* nothing can be slashed.
Completion(x) ==
    CASE x.status = "bonded"    -> [h |-> now, c |-> now + k.ut]
      [] x.status = "unbonding" -> [h |-> x.h, c |-> x.t]
      [] x.status = "unbonded"  -> [h |-> 0, c |-> 0]

-----------------------------------------------------------------------------
(* MsgRedelegate. *)
\* splitValue: u's part of the queue p, pro rata to it and the slashable bond d,
\* rounded down, and more when the bond does not hold the rest.
queuedPart(u, d, p) == Most((u * p) \div (d + p), u - d)
splitValue(st, v, u) ==
    LET slashable == Delegated(st, v) - st.U[v]
        queued == IF st.mine[v] = 0 \/ st.val[v].status = "unbonded" \/ slashable <= 0
                  THEN Least(u, st.P[v])
                  ELSE queuedPart(u, slashable, st.P[v])
    IN [queued |-> queued, bonded |-> u - queued]

\* ValidateUnbondAmount.
UnbondShares(st, v, a) == Least((a * st.val[v].shares) \div st.val[v].tokens, st.mine[v])

\* moveBonded: what Unbond returned, got, is delegated to dst and, while a
\* slash of the source can reach it, entered.
EnterBonded(st, p, got, sh, begin) ==
    IF begin.c = 0 THEN [st |-> st, sh |-> sh, moved |-> got > 0, entry |-> begin, due |-> 0]
    ELSE LET rec == recordEntry(st, p, [h |-> begin.h, c |-> begin.c, bal |-> got, sh |-> sh])
         IN [st |-> rec, sh |-> sh, moved |-> got > 0, entry |-> Last(rec.red[p]), due |-> begin.c]
DelegateBonded(out, p, got) ==
    EnterBonded(Bonded(out, p[2], got), p, got, SharesFor(out.val[p[2]], got),
                Completion(out.val[p[1]]))
moveBonded(st, p, sh) ==
    DelegateBonded(Unbonded(st, p[1], sh), p, TokensFromShares(st.val[p[1]], sh))
NotMoved(st) == [st |-> st, sh |-> 0, moved |-> TRUE, entry |-> [h |-> 0, c |-> 0], due |-> 0]

\* checkCredit: at least the minimum, and no more than the value buys.
checkCredit(credit, buys) == credit >= MinDelegation /\ credit <= buys

checkRedelegate(p, d, credit) ==
    LET bB == Backing(k, p[2])
        u  == valueOf(d, Backing(k, p[1]), k.S[p[1]])
    IN /\ checkDelegatable(p[2])
       /\ k.S[p[2]] = 0 => bB = 0
       /\ d <= k.S[p[1]]
       /\ u >= MinDelegation
       /\ checkCredit(credit, derthFor(u, bB, k.S[p[2]]))

\* The value leaves the source's book for the destination's: the queued part
\* from queue to queue, the bonded part, unless it is dust, with moveBonded;
\* buys is the derth of what arrived.
Arrived(mv, p, d, queued) ==
    [mv EXCEPT !.st = [@ EXCEPT !.P[p[1]] = @ - queued, !.S[p[1]] = @ - d, !.P[p[2]] = @ + queued]]
MoveParts(st, p, d, part) ==
    Arrived(IF part.bonded > BondedDust
            THEN moveBonded(st, p, UnbondShares(st, p[1], part.bonded)) ELSE NotMoved(st),
            p, d, part.queued)
MoveValue(st, p, d) ==
    MoveParts(st, p, d, splitValue(st, p[1], valueOf(d, Backing(st, p[1]), st.S[p[1]])))
Buys(mv, st, p) ==
    derthFor(Backing(mv.st, p[2]) - Backing(st, p[2]), Backing(st, p[2]), st.S[p[2]])

\* Steps 5 to 7: the credit, the notes and, with an entry, the move; due, when
\* an entry of the move's own would complete, is a ghost.
Credit(p, t, J, key, credit) ==
    [val |-> p[2], amt |-> SumOver(J, LAMBDA i : k.notes[i].amt) + credit,
     key |-> key, t |-> t, ex |-> credit]
PutMove(st, key, p, t, credit, mv) ==
    IF mv.entry.c = 0 THEN st
    ELSE [st EXCEPT !.moves = Put(@, key, [pair |-> p, t |-> t, credited |-> credit, sh |-> mv.sh,
                                           h |-> mv.entry.h, c |-> mv.entry.c, due |-> mv.due,
                                           retained |-> credit])]
CreditMove(mv, p, t, I, J, merged, credit, c) ==
    PutMove(applyStake([mv.st EXCEPT !.S[p[2]] = @ + credit], I \cup J,
                       <<merged, Credit(p, t, J, mv.st.next, credit)>>, c),
            mv.st.next, p, t, credit, mv)

-----------------------------------------------------------------------------
(* A slash of src, and which entries it reached. *)
NoWatch == [src |-> "none", before |-> Nothing, calls |-> Nothing, was |-> Nothing]

Dsts(st, src) == {w \in Vals : <<src, w>> \in DOMAIN st.red}

restoreSheltered(st) ==
    [st EXCEPT !.ubd = [v \in Vals |-> IF v \in DOMAIN st.aside THEN st.aside[v] ELSE @[v]],
               !.aside = Nothing]

\* x/staking's rule for an entry: what it takes of the delegation's shares, in
\* the order of the entries I, until the delegation is gone.
Slashable(e, f) == ~Mature(e) /\ Of(f, e.bal) > 0 /\ Of(f, e.sh) > 0
Takes(es, I, f, before) ==
    FoldLeft(LAMBDA acc, i :
               LET sh == Least(Of(f, es[i].sh), before - acc.total)
               IN IF sh = 0 THEN acc
                  ELSE [total |-> acc.total + sh, hit |-> Put(acc.hit, i, sh)],
             [total |-> 0, hit |-> Nothing], SetToSortSeq(I, <))

\* slashedEntries: the first replay, over the fractions and from the latest
\* entry boundary back, that unbonds as often and as much as the slash did.
Replay(es, f, from, before) ==
    Takes(es, {i \in from..Len(es) : Slashable(es[i], f)}, f, before)
Boundaries(es) == {i \in 1..Len(es) : i = 1 \/ es[i - 1].h # es[i].h}
\* Fault variant: the number of unbonds is not compared.
FitsAnyCalls(r, burnt, calls) == r.total = burnt

Fits(r, burnt, calls) == r.total = burnt /\ Cardinality(DOMAIN r.hit) = calls
Fitting(es, f, before, burnt, calls) ==
    {i \in Boundaries(es) : Fits(Replay(es, f, i, before), burnt, calls)}
slashedEntries(es, before, burnt, calls) ==
    LET found == SelectSeq([j \in 1..Len(Fractions) |->
                              [f |-> Fractions[j], from |-> Fitting(es, Fractions[j], before, burnt, calls)]],
                           LAMBDA x : x.from # {})
    IN IF found = <<>> THEN Nothing ELSE Replay(es, Head(found).f, Max(Head(found).from), before).hit

\* The moves of the entries hit that owe, their labels not yet free to clear,
\* each with its part, wt, of the shares taken, in units of 1 / unit of one.
InWindow(st, p, e) == {m \in entryMoves(st, p, e) : st.moves[m].t >= clearedBefore}
Owing(st, p, hit, unit) ==
    UNION {{[key |-> m, at |-> i, cap |-> st.moves[m].retained,
             wt |-> (st.moves[m].sh * hit[i] * unit) \div st.red[p][i].sh]
              : m \in InWindow(st, p, st.red[p][i])} : i \in DOMAIN hit}

\* What each owes of total: its floor, within what it retains, and one more
\* while the floors leave a remainder, the heaviest first.
Floor(o, total, scale) == (total * o.wt) \div scale
Remainder(os, total, scale) ==
    Least(total, (total * SumOver(os, LAMBDA o : o.wt)) \div scale)
      - SumOver(os, LAMBDA o : Floor(o, total, scale))
Heavier(o, x) ==
    \/ o.wt > x.wt
    \/ o.wt = x.wt /\ o.at < x.at
    \/ o.wt = x.wt /\ o.at = x.at /\ o.key < x.key
OneMore(os, rem) == {o \in os : Cardinality({x \in os : Heavier(x, o)}) < rem}
DebtsOf(os, total, scale, more) ==
    {[key |-> o.key, debt |-> Least(Floor(o, total, scale), o.cap) + IF o \in more THEN 1 ELSE 0] : o \in os}
Debts(os, total, scale) ==
    DebtsOf(os, total, scale,
            OneMore({o \in os : Floor(o, total, scale) < o.cap}, Remainder(os, total, scale)))

\* The debts come off dst's supply, and each move's row is written.
Booked(st, dst, debts, booked) ==
    LET owed(m) == SumOver({x \in debts : x.key = m}, LAMBDA x : x.debt)
        rows    == {x.key : x \in {y \in debts : y.debt > 0}}
    IN IF booked > st.S[dst] THEN st
       ELSE [st EXCEPT !.S[dst] = @ - booked, !.debt[dst] = @ + booked,
                       !.moves = [m \in DOMAIN @ |-> [@[m] EXCEPT !.retained = @ - owed(m)]],
                       !.rows = [m \in DOMAIN @ \cup rows |->
                                   IF m \in rows THEN st.moves[m].retained - owed(m) ELSE @[m]]]
Book(st, dst, debts) == Booked(st, dst, debts, SumOver(debts, LAMBDA x : x.debt))
\* The derth that a value v burnt from a book backed it with before: its rate
\* was (b + v) / s.
debtTotal(v, b, s) == (v * s) \div (b + v)

\* Fault variant: the burnt value is taken for derth, whatever the rate.
ChargeFlat(st, p, hit, burnt, value, unit) ==
    IF value = 0 \/ st.S[p[2]] = 0 THEN st
    ELSE Book(st, p[2], Debts(Owing(st, p, hit, unit), value, burnt * unit))

Charge(st, p, hit, burnt, value, unit) ==
    IF value = 0 \/ st.S[p[2]] = 0 THEN st
    ELSE Book(st, p[2], Debts(Owing(st, p, hit, unit),
                              debtTotal(value, Backing(st, p[2]), st.S[p[2]]), burnt * unit))

\* The burnt value's derth comes off dst's supply; a replay that fits none, or
\* finds no move, leaves the burn with dst's book.
SettleBurn(st, p, burnt) ==
    LET hit == slashedEntries(st.red[p], st.watch.before[p[2]], burnt, st.watch.calls[p[2]])
    IN IF burnt = 0 THEN st
       ELSE Charge(st, p, hit, burnt, (burnt * st.val[p[2]].tokens) \div st.val[p[2]].shares,
                   FoldSet(LAMBDA i, n : st.red[p][i].sh * n, 1, DOMAIN hit))
settleSlash(st, dst) ==
    SettleBurn(st, <<st.watch.src, dst>>, st.watch.before[dst] - st.mine[dst])

finishSlashWatch(st) ==
    [FoldSet(LAMBDA dst, x : settleSlash(x, dst), st,
             {dst \in DOMAIN st.watch.calls : st.watch.calls[dst] > 0})
       EXCEPT !.watch = NoWatch]

Watched(st, src, dsts) ==
    [st EXCEPT !.watch = [src |-> src, before |-> [w \in dsts |-> st.mine[w]], calls |-> [w \in dsts |-> 0],
                          was |-> [w \in dsts |-> [b |-> Backing(st, w), s |-> st.S[w]]]],
               !.hits = {}]
openSlashWatch(st, src) == Watched(finishSlashWatch(st), src, Dsts(st, src))

Sheltered(st, dst) ==
    IF st.ubd[dst] = <<>> THEN st
    ELSE [st EXCEPT !.aside = Put(@, dst, st.ubd[dst]), !.ubd[dst] = <<>>]

\* Fault variant: what the block's previous slash set aside is not restored first.
prepareRedelegationSlashAgain(st, src) ==
    FoldSet(LAMBDA dst, x : Sheltered(collectRewards(x, dst), dst),
            openSlashWatch(st, src), Dsts(st, src))

prepareRedelegationSlash(st, src) ==
    FoldSet(LAMBDA dst, x : Sheltered(collectRewards(x, dst), dst),
            openSlashWatch(restoreSheltered(st), src), Dsts(st, src))

-----------------------------------------------------------------------------
(* x/staking's Slash. *)
\* SlashUnbondingDelegation: the entries begun since the infraction.
Reaches(e, inf) == e.h >= inf /\ ~Mature(e)
SlashUnbonding(e, inf, f) ==
    IF Reaches(e, inf) THEN [e EXCEPT !.bal = @ - Least(@, Of(f, e.init))] ELSE e

\* SlashRedelegation: at dst, each entry's slash from the unbondings begun
\* there since the infraction first, then, if that leaves any, from the
\* delegation, whose hook counts the unbond.
TakeFirst(us, inf, a) ==
    FoldLeft(LAMBDA acc, i :
               LET x == IF Reaches(us[i], inf) THEN Least(acc.due, us[i].bal) ELSE 0
               IN [due |-> acc.due - x, us |-> [acc.us EXCEPT ![i].bal = @ - x]],
             [due |-> a, us |-> us], [i \in 1..Len(us) |-> i])
SlashEntry(st, dst, e, inf, f) ==
    LET first == TakeFirst(st.ubd[dst], inf, Of(f, e.bal))
        sh    == Least(Of(f, e.sh), st.mine[dst])
        st1   == [st EXCEPT !.ubd[dst] = first.us]
    IN IF first.due = 0 \/ sh = 0 THEN st1
       ELSE Unbonded([st1 EXCEPT !.watch.calls[dst] = @ + 1,
                                 !.hits = @ \cup {[dst |-> dst, h |-> e.h, c |-> e.c, sh |-> sh]}],
                     dst, sh)
SlashRedelegation(st, p, inf, f) ==
    FoldLeft(LAMBDA x, e : IF Reaches(e, inf) THEN SlashEntry(x, p[2], e, inf, f) ELSE x,
             st, st.red[p])
Due(st, p, inf, f) ==
    FoldLeft(LAMBDA n, e : n + IF Reaches(e, inf) THEN Of(f, e.bal) ELSE 0, 0, st.red[p])

\* Keeper.Slash, its hooks included: BeforeValidatorModified, then the
\* unbondings, the redelegations and the validator's own tokens, of which
\* BeforeValidatorSlashed takes the pending undelegations' part.
SlashPairs(st, v) == {<<v, w>> : w \in Dsts(st, v)}
SlashUnbondings(st, v, inf, f) ==
    [st EXCEPT !.ubd[v] = [i \in DOMAIN @ |-> SlashUnbonding(@[i], inf, f)]]
SlashRedelegations(st, v, inf, f) ==
    FoldSet(LAMBDA p, x : SlashRedelegation(x, p, inf, f), st, SlashPairs(st, v))
Rest(st, v, inf, f, power) ==
    Of(f, power) - SumOver({i \in DOMAIN st.ubd[v] : Reaches(st.ubd[v][i], inf)},
                           LAMBDA i : Of(f, st.ubd[v][i].init))
                 - SumOver(SlashPairs(st, v), LAMBDA p : Due(st, p, inf, f))
BurnTokens(st, v, had, burn) ==
    IF burn = 0 THEN st
    ELSE [st EXCEPT !.U[v] = (@ * (had - burn)) \div had, !.val[v].tokens = @ - burn]
KeeperSlash(st, v, inf, f, power) ==
    BurnTokens(SlashRedelegations(SlashUnbondings(st, v, inf, f), v, inf, f), v, st.val[v].tokens,
               Most(0, Least(Rest(st, v, inf, f, power), st.val[v].tokens)))
Jailed(st, v, tombstone) ==
    [st EXCEPT !.val[v].jailed = TRUE, !.val[v].tombstoned = @ \/ tombstone]

-----------------------------------------------------------------------------
Deliver(kind) ==
    /\ plan.left[kind] > 0
    /\ plan' = [plan EXCEPT !.left[kind] = @ - 1]

NoSlash == [v |-> "none", inf |-> 0, f |-> <<0, 1>>]

Message(kind) ==
    /\ phase = "txs"
    /\ Deliver(kind)
    /\ UNCHANGED <<now, phase, slash>>

\* MsgRedelegate: d leaves I's notes at the source; J, at most one unlabelled
\* note, is merged with the credit.
Redelegate ==
    /\ Message("redelegate")
    /\ \E p \in plan.pairs, d \in plan.amounts, clear \in BOOLEAN, short \in Shorts,
          t \in Most(1, now - MoveTimeSlack)..now, c \in checkStakeClear :
       \E I \in LaneA(p[1]), J \in LaneB(p[2]) :
          LET st0    == collectRewards(collectRewards(k, p[1]), p[2])
              mv     == MoveValue(st0, p, d)
              merged == Merged(I, p[1], clear, d)
              buys   == Buys(mv, st0, p)
          IN /\ clear => MayClear(I, c)
             /\ merged.amt >= merged.ex
             /\ checkMoveTime(t)
             /\ checkRedelegate(p, d, buys - short)
             /\ mv.moved /\ mv.st.P[p[1]] >= 0 /\ checkCredit(buys - short, buys)
             /\ k' = CreditMove(mv, p, t, I, J, merged, buys - short, c)

\* MsgRestake: the notes I merge into one.
Restake ==
    /\ Message("restake")
    /\ \E v \in Vals, clear \in BOOLEAN, c \in checkStakeClear :
       \E I \in LaneA(v) :
          /\ clear => MayClear(I, c)
          /\ k' = applyStake(k, I, <<Merged(I, v, clear, 0)>>, c)

\* MsgUndelegate: the value joins the epoch's undelegations.
Undelegate ==
    /\ Message("undelegate")
    /\ \E v \in Vals, d \in plan.amounts, clear \in BOOLEAN, c \in checkStakeClear :
       \E I \in LaneA(v) :
          LET merged == Merged(I, v, clear, d)
          IN /\ clear => MayClear(I, c)
             /\ merged.amt >= merged.ex
             /\ d <= k.S[v]
             /\ k' = applyStake([k EXCEPT !.S[v] = @ - d,
                                          !.U[v] = @ + valueOf(d, Backing(k, v), k.S[v])],
                                I, <<merged>>, c)

\* x/distribution's BeginBlocker: the module's delegation at v earns.
Reward ==
    /\ phase = "begin" /\ slash = NoSlash
    /\ Deliver("reward")
    /\ \E v \in plan.struck : k.mine[v] > 0 /\ k' = [k EXCEPT !.W[v] = @ + 1]
    /\ UNCHANGED <<now, phase, slash>>

\* x/evidence's double sign (fraction 1) and x/slashing's downtime (2): the
\* infraction is two blocks old at least, downtime's exactly; power is what
\* the validator had then.
Slash ==
    /\ phase = "begin"
    /\ Deliver("slash")
    /\ \E v \in plan.struck, i \in DOMAIN Fractions, inf \in 0..now - 2 :
             /\ k.val[v].status # "unbonded"
             /\ i = 2 => ~k.val[v].jailed /\ inf = now - 2
             /\ i = 1 => ~k.val[v].tombstoned
             /\ k' = Jailed(KeeperSlash(prepareRedelegationSlash(k, v), v, inf, Fractions[i],
                                        IF i = 1 THEN k.power[v] ELSE k.val[v].tokens), v, i = 1)
             /\ slash' = [v |-> v, inf |-> inf, f |-> Fractions[i]]
    /\ UNCHANGED <<now, phase>>

BeginBlock ==
    /\ phase = "begin"
    /\ phase' = "txs"
    /\ k' = restoreSheltered(finishSlashWatch(k))
    /\ slash' = NoSlash
    /\ UNCHANGED <<now, plan>>

\* pruneMoves: by completion, then key, a limited number a block.
pruneMoves(st) ==
    LET done == {m \in DOMAIN st.moves : st.moves[m].c <= now}
        before(m, x) == st.moves[m].c < st.moves[x].c \/ (st.moves[m].c = st.moves[x].c /\ m < x)
    IN [st EXCEPT !.moves = Drop(@, {m \in done : Cardinality({x \in done : before(x, m)}) < PruneLimit})]

noteMaxUnbonding(st) == [st EXCEPT !.maxUnbonding = Most(@, st.ut)]

\* x/staking's EndBlocker: a jailed validator leaves the set; matured
\* validators, unbondings and, from the queue's slots, entries go.
StakingStatus(x, ut) ==
    IF x.status = "bonded" /\ x.jailed
    THEN [x EXCEPT !.status = "unbonding", !.h = now, !.t = now + ut]
    ELSE IF x.status = "unbonding" /\ x.t <= now THEN [x EXCEPT !.status = "unbonded"] ELSE x
StakingEndBlock(st) ==
    LET due  == {s \in st.slots : s[2] <= now}
        kept == [p \in DOMAIN st.red |->
                   IF p \in {s[1] : s \in due} THEN SelectSeq(st.red[p], LAMBDA e : ~Mature(e))
                   ELSE st.red[p]]
    IN [st EXCEPT !.val = [v \in Vals |-> StakingStatus(@[v], st.ut)],
                  !.ubd = [v \in Vals |-> SelectSeq(@[v], LAMBDA e : ~Mature(e))],
                  !.slots = @ \ due,
                  !.red = Drop(kept, {p \in DOMAIN kept : kept[p] = <<>>})]

\* x/gov first, which may set the unbonding time; then the module, then
\* x/staking.
EndBlock ==
    /\ phase = "txs" /\ now < plan.end
    /\ \E ut \in plan.uts :
          /\ IF ut = k.ut THEN UNCHANGED plan ELSE Deliver("params")
          /\ k' = StakingEndBlock(noteMaxUnbonding(pruneMoves([k EXCEPT !.ut = ut])))
    /\ phase' = "begin" /\ now' = now + 1
    /\ slash' = NoSlash

Init ==
    /\ now = 1 /\ phase = "txs" /\ slash = NoSlash
    /\ \E s \in Scenarios :
          /\ k = s.store
          /\ plan = [left |-> s.left, pairs |-> s.pairs, amounts |-> s.amounts, struck |-> s.struck,
                    splits |-> s.splits, uts |-> s.uts, end |-> s.end]

-----------------------------------------------------------------------------
\* The stores' types, for RedelegationsExact.
TypeOK ==
    /\ now \in 1..plan.end /\ phase \in {"begin", "txs"}
    /\ plan.left \in [Kinds -> Nat]
    /\ \A v \in Vals : {k.mine[v], k.P[v], k.W[v], k.U[v], k.S[v], k.debt[v], k.val[v].tokens} \subseteq Nat

SharesOf(ms) == SumOver(ms, LAMBDA m : k.moves[m].sh)
EntriesOwned(p, es) ==
    \A i \in 1..Len(es) :
       /\ \A j \in i + 1..Len(es) : es[i].h <= es[j].h
       /\ Mature(es[i]) \/ (SharesOf(entryMoves(k, p, es[i])) = es[i].sh /\ <<p, es[i].c>> \in k.slots)
MoveEntered(m) ==
    \/ m.c <= now
    \/ \E i \in DOMAIN Red(k, m.pair) : k.red[m.pair][i].h = m.h /\ k.red[m.pair][i].c = m.c

\* What invariants 9 and 10 of the module check, and what they take for granted.
\* Every share of an entry a slash can still reach is some move's, and every
\* move not matured has its entry, whatever merges, joins and prunings came: no
\* slash finds an entry without its movers.  An entry lasts at least as long as
\* each of its moves' own would (mergeOldEntries), and a queue slot will
\* complete it.  A move's retained derth is its debt row's.  Between blocks no
\* slash is unsettled, no undelegation set aside (restoreSheltered), and no
\* reward was paid past the books (collectRewards).
RedelegationsExact ==
    TypeOK /\ (phase = "txs" =>
        /\ k.watch = NoWatch /\ k.aside = Nothing /\ k.stray = 0
        /\ \A p \in DOMAIN k.red : Len(k.red[p]) \in 1..MaxEntryHeightsPerPair /\ EntriesOwned(p, k.red[p])
        /\ \A m \in DOMAIN k.moves :
              /\ MoveEntered(k.moves[m])
              /\ k.moves[m].c >= k.moves[m].due
              /\ k.moves[m].retained = IF m \in DOMAIN k.rows THEN k.rows[m] ELSE k.moves[m].credited)

\* The derth of a book is exactly what its notes are worth: an exposed note, its
\* label kept or cleared before or after the slash that cut it, never holds more
\* or less than the supply counts (settleSlash's late moves, noteClearBefore).
\* A note worth more could not be undelegated by the last holder.
NotesWorth ==
    phase = "txs" => \A v \in Vals : k.S[v] = SumOver(NotesAt(v), LAMBDA i : NoteWorth(k, k.notes[i]))

Called == {dst \in DOMAIN k.watch.calls : k.watch.calls[dst] > 0}
Hit(dst) ==
    LET es  == k.red[<<k.watch.src, dst>>]
        hit == slashedEntries(es, k.watch.before[dst], k.watch.before[dst] - k.mine[dst], k.watch.calls[dst])
    IN {[dst |-> dst, h |-> es[i].h, c |-> es[i].c, sh |-> hit[i]] : i \in DOMAIN hit}

\* slashedEntries finds the entries x/staking slashed, and what it took of each,
\* from the number of unbonds and the shares burnt alone; an entry so small
\* that one of the fractions takes nothing of it is excepted, for two fractions
\* can then look alike.
ReplayExact ==
    \A dst \in Called :
       \/ Hit(dst) = {x \in k.hits : x.dst = dst}
       \/ \E i \in DOMAIN k.red[<<k.watch.src, dst>>], j \in DOMAIN Fractions :
             LET e == k.red[<<k.watch.src, dst>>][i] IN ~Mature(e) /\ ~Slashable(e, Fractions[j])

\* The value that x/staking burnt at w for late moves, whose labels may have
\* cleared: their part of the shares taken from the entries.
LateShares(w, x) ==
    LET ms == entryMoves(k, <<k.watch.src, w>>, x)
    IN (SharesOf({m \in ms : k.moves[m].t < clearedBefore}) * x.sh) \div SharesOf(ms)
LateValue(w) ==
    (SumOver({x \in k.hits : x.dst = w}, LAMBDA x : LateShares(w, x)) * k.val[w].tokens)
      \div k.val[w].shares

\* Who pays for a slash of one validator's stake that moved to another: the
\* movers, whose derth comes off the destination's supply, and for late moves,
\* which a merge kept slashable past their labels' window, all the
\* destination's holders (settleSlash).  Settled, the destination's backing,
\* with the late moves' part of the burn put back, is per derth what it was
\* before the slash, up to a token for each unbond and one, and a derth: its
\* own stakers pay for no mover whose note can still pay, and gain from none.
\* It is said of the slash as it would settle now.
RateHeld ==
    LET st == finishSlashWatch(k)
    IN \A w \in Called :
         LET o == k.watch.was[w]
             n == k.watch.calls[w] + 1
             is == Backing(st, w) + LateValue(w)
         IN /\ (is - n) * o.s <= o.b * st.S[w]
            /\ (is + n) * o.s >= o.b * (st.S[w] - 1)

Bond(st, v) == Delegated(st, v) - st.U[v]
\* The stakers a move leaves behind keep their share of the queue, which no
\* slash reaches (splitValue), up to a token and the dust left.
SplitFair(v) ==
    (/\ phase = "txs" /\ Bond(k, v) > 0 /\ k.val[v].status # "unbonded"
     /\ k'.S[v] < k.S[v] /\ k'.U[v] = k.U[v])
      => (k'.P[v] + k'.W[v]) * Backing(k, v) >= (k.P[v] + k.W[v]) * (Backing(k', v) - 1 - BondedDust)

Unbondings(st, v) == IF v \in DOMAIN st.aside THEN st.aside[v] ELSE st.ubd[v]
\* A slash takes of the undelegations under way at v what x/staking's rule for
\* a slash of v itself says, and nothing for a slash of another validator.
UnbondingsExact(v) ==
    phase = "begin" =>
       Unbondings(k', v) =
          [i \in DOMAIN Unbondings(k, v) |->
             IF slash'.v = v /\ slash' # slash THEN SlashUnbonding(Unbondings(k, v)[i], slash'.inf, slash'.f)
             ELSE Unbondings(k, v)[i]]

\* Who did not move pays nothing for who did: neither the stakers left at the
\* source, when value leaves it, nor those leaving the destination, when the
\* source is slashed, two slashes in one block included (shelterUnbondings).
BystandersSpared == [][\A v \in Vals : SplitFair(v) /\ UnbondingsExact(v)]_vars
=============================================================================
