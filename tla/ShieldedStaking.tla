-------------------------- MODULE ShieldedStaking --------------------------
(***************************************************************************)
(* x/shieldedstaking: private staking.  The module is the one delegator    *)
(* of every validator besides its operator.  Stakers hold derth, hidden in *)
(* notes; a validator's book prices it: the backing B is the delegation D, *)
(* its unwithdrawn rewards W and the queue P, less the undelegations U     *)
(* booked and not yet begun, over the derth outstanding, S.                *)
(*                                                                         *)
(* An undelegation is booked at the live rate into the epoch's record, is  *)
(* begun with x/staking at the epoch's end, matures with x/staking's entry *)
(* and is minted by the chain itself, with retries.  Derth is dated by the *)
(* month it was last checked in; a vintage past its live months is taken   *)
(* out of the book at an epoch end and held for its notes to withdraw.     *)
(*                                                                         *)
(* The stores, x/staking's view of the module and the module's balance are *)
(* one record, k: an operator takes one and gives the next, as a keeper    *)
(* method does.  Which notes hold a vintage's derth is not modelled, only  *)
(* how much (the stake circuit keeps the two equal).  Redelegation, votes  *)
(* and Groundworks are not part of this module.                            *)
(***************************************************************************)
EXTENDS Integers, Sequences, FiniteSets, FiniteSetsExt, SequencesExt

CONSTANTS
    Validators,          \* numbers: the order of the stores' keys
    Amounts,             \* the ERTH a delegation may bring
    DerthAmounts,        \* the derth a message may spend
    MinDelegation, MaxNote,
    SelfBond,            \* an operator's own delegation, in tokens
    DecPrec,             \* the units of a LegacyDec's one (10^18 in the SDK)
    EpochSeconds, UnbondingTime, MaxEntries, EpochValidatorLimit,
    MonthSeconds, LiveVintageMonths, VintageGraceSeconds,
    UnbondPayoutSweepLimit, UnbondPayoutNoteBudget, RetryBase, RetryMaxShift,
    Fractions,           \* a slash takes 1/f of the stake
    KindSets,            \* bound: the messages and events that meet in one behaviour
    LastMsg,             \* bound: when the last message and slash come
    MaxTime, Steps,      \* bound: the clock, and how far a block moves it (else one)
    MaxMsgs, MaxRewards, MaxSlashes, MaxFaults,  \* bounds, each
    MaxEvents            \* bound: all of them together

ASSUME StakingAssumption ==
    /\ \A X \in {Validators, Amounts, DerthAmounts, Fractions, Steps} :
          IsFiniteSet(X) /\ X \subseteq Nat \ {0}
    /\ \A n \in {MinDelegation, MaxNote, SelfBond, DecPrec, EpochSeconds, UnbondingTime, MaxEntries,
                 EpochValidatorLimit, MonthSeconds, LiveVintageMonths,
                 UnbondPayoutSweepLimit, UnbondPayoutNoteBudget, RetryBase} : n \in Nat \ {0}
    /\ \A n \in {VintageGraceSeconds, RetryMaxShift, LastMsg, MaxTime,
                 MaxMsgs, MaxRewards, MaxSlashes, MaxFaults, MaxEvents} : n \in Nat

VARIABLES
    k,                   \* the stores, x/staking's delegations, the balance
    now, phase,          \* block time; "txs" or "end"
    kinds,               \* what happens in this behaviour, one of KindSets
    msgs, rewards, slashes, faults   \* how many there have been

vars == <<k, now, phase, kinds, msgs, rewards, slashes, faults>>

\* A map as the store has it: Set and Remove.
Put(f, x, v) == [y \in DOMAIN f \cup {x} |-> IF y = x THEN v ELSE f[y]]
Drop(f, X)   == [y \in DOMAIN f \ X |-> f[y]]
Empty == [x \in {} |-> 0]
Get(f, x, none) == IF x \in DOMAIN f THEN f[x] ELSE none

Least(a, b) == IF a < b THEN a ELSE b
Pos(n) == IF n > 0 THEN n ELSE 0
First(n, s) == SubSeq(s, 1, Least(n, Len(s)))

\* Keys of a store in the order a walk meets them.
KeyOrder(a, b) ==
    \E i \in DOMAIN a : a[i] < b[i] /\ \A j \in 1..(i - 1) : a[j] = b[j]
Walk(keys) == SetToSortSeq(keys, KeyOrder)
WalkNumbers(S) == SetToSortSeq(S, <)

-----------------------------------------------------------------------------
\* x/staking's validator: T tokens, of which the operator holds own shares and
\* the module sh.  Shares are decimals; a conversion from tokens truncates to
\* DecPrec, one to tokens is rounded to it and then truncated.
TotalShares(x) == x.own + x.sh
SharesFromTokens(x, n) ==
    IF TotalShares(x) = 0 THEN n * DecPrec ELSE (TotalShares(x) * n) \div x.T
TokensFromShares(x, m) ==
    LET all == TotalShares(x)
    IN  IF all = 0 THEN 0 ELSE ((2 * m * x.T * DecPrec + all) \div (2 * all)) \div DecPrec

AddTokensFromDel(x, n) == [x EXCEPT !.T = @ + n, !.sh = @ + SharesFromTokens(x, n)]

\* What m shares of the module bring out; the last shares bring all there is.
IssuedTokens(x, m) == IF m = TotalShares(x) THEN x.T ELSE TokensFromShares(x, m)
RemoveDelShares(x, m) == [x EXCEPT !.T = @ - IssuedTokens(x, m), !.sh = @ - m]

-----------------------------------------------------------------------------
\* rate.go.
NoBook == [P |-> 0, U |-> 0, S |-> 0]
ValidatorState(s, v) == Get(s.books, v, NoBook)
Supply(s, v) == ValidatorState(s, v).S

\* D: the module's delegation in tokens.
delegation(s, v) == TokensFromShares(s.stk[v], s.stk[v].sh)

\* D + W + P: what stands behind the derth and the undelegations booked.
Gross(s, v) == delegation(s, v) + s.stk[v].W + ValidatorState(s, v).P
Backing(s, v) == Pos(Gross(s, v) - ValidatorState(s, v).U)

derthFor(a, b, sup) == IF sup = 0 THEN a ELSE (a * sup) \div b

\* Fault variant: an undelegation is rounded in its owner's favour.
valueOfUp(d, b, sup) == IF sup = 0 THEN 0 ELSE (d * b + sup - 1) \div sup
valueOf(d, b, sup) == IF sup = 0 THEN 0 ELSE (d * b) \div sup

\* checkDelegatable: "bonded" is neither jailed nor slashed to nothing nor gone.
checkDelegatable(s, v) == s.stk[v].status = "bonded"
\* Whether x/staking takes a delegation: the validator exists and has tokens.
TakesDelegation(s, v) == s.stk[v].status \in {"bonded", "jailed"}

fitsNote(x) == x \in 1..MaxNote

-----------------------------------------------------------------------------
\* Vintages are months, counted from the first.
MonthOf(t) == t \div MonthSeconds
Current == MonthOf(now)
VintageRetired(m) == m <= Current - LiveVintageMonths
VintageLive(m) == m <= Current /\ ~VintageRetired(m)

\* CheckCredit: the current month, or in its first seconds the one before.
CreditVintages ==
    {Current} \cup (IF now % MonthSeconds < VintageGraceSeconds THEN {Current - 1} ELSE {})
VintageSupply(s, v, m) == Get(s.vins, <<v, m>>, 0)

\* addVintageSupply: deleted at zero.  Callers have checked it stays above.
addVintageSupply(s, v, m, n) ==
    LET next == VintageSupply(s, v, m) + n
    IN  [s EXCEPT !.vins = IF next = 0 THEN Drop(@, {<<v, m>>}) ELSE Put(@, <<v, m>>, next)]

-----------------------------------------------------------------------------
\* Records and payouts.
NewRecord ==
    [status |-> "pending", requested |-> 0, target |-> 0, undelegated |-> 0, payout |-> 0,
     outstanding |-> 0, paid |-> 0, height |-> 0]

\* An undelegation worth u joins the record of epoch e, and the book's U.
Booked(s, v, e, u) ==
    LET r == Get(s.recs, <<v, e>>, NewRecord)
        b == ValidatorState(s, v)
    IN  [s EXCEPT !.recs = Put(@, <<v, e>>, [r EXCEPT !.requested = @ + u, !.target = @ + u,
                                                      !.outstanding = @ + u]),
                  !.pendingRecords = @ \cup {<<v, e>>},
                  !.books = Put(@, v, [b EXCEPT !.U = @ + u])]

\* A payout's queue is its record's until it is tried; a held one is in none.
NewPayout(v, e, u) == [v |-> v, e |-> e, value |-> u, attempts |-> 0]
queuePayout(s, v, e, u) ==
    [s EXCEPT !.payouts = Put(@, s.seq, NewPayout(v, e, u)),
              !.byRecord = @ \cup {<<v, e, s.seq>>},
              !.seq = @ + 1]

markMatured(s, key) ==
    IF s.recs[key].outstanding = 0 THEN s
    ELSE [s EXCEPT !.matured = @ \cup {key}]

-----------------------------------------------------------------------------
\* MsgDelegate, after its ERTH was released to the module.  The delegation is
\* bonded at once; x/staking pays the module's rewards as it changes, and they
\* join the queue.
Delegated(s, v, a, d, m) ==
    LET b    == ValidatorState(s, v)
        bond == TakesDelegation(s, v)
        late == IF bond THEN s.stk[v].W ELSE 0
        s1   == [s EXCEPT !.books = Put(@, v, [b EXCEPT !.P = @ + late + (IF bond THEN 0 ELSE a),
                                                       !.S = @ + d]),
                          !.stk[v] = IF bond THEN [AddTokensFromDel(@, a) EXCEPT !.W = 0] ELSE @,
                          !.bal = @ + late + (IF bond THEN 0 ELSE a)]
    IN  addVintageSupply(s1, v, m, d)

\* checkDelegate.  A book with backing and no derth is settling.
checkDelegate(s, v, a, d, m) ==
    LET b   == Backing(s, v)
        sup == Supply(s, v)
    IN  /\ checkDelegatable(s, v)
        /\ m \in CreditVintages
        /\ a >= MinDelegation
        /\ (sup = 0) <=> (b = 0)
        /\ MinDelegation <= d /\ d <= derthFor(a, b, sup)
        /\ fitsNote(d)

\* MsgUndelegate on a live vintage.
Undelegated(s, v, m, d) ==
    LET u  == valueOf(d, Backing(s, v), Supply(s, v))
        s1 == Booked(s, v, s.epoch.n, u)
        s2 == [s1 EXCEPT !.books[v].S = @ - d]
    IN  queuePayout(addVintageSupply(s2, v, m, -d), v, s.epoch.n, u)

checkUndelegate(s, v, m, d) ==
    /\ VintageLive(m) /\ d <= VintageSupply(s, v, m) /\ d <= Supply(s, v)
    /\ Get(s.recs, <<v, s.epoch.n>>, NewRecord).status = "pending"
    /\ fitsNote(valueOf(d, Backing(s, v), Supply(s, v)))

\* MsgUndelegate on a retired vintage: the share w of the held payout becomes a
\* payout of its own under the same record.
shareOfRetired(rv, d) ==
    IF d = rv.supply THEN rv.value ELSE (d * rv.value) \div rv.supply

withdrawRetired(s, v, m, d) ==
    LET rv   == s.retired[<<v, m>>]
        w    == shareOfRetired(rv, d)
        s1   == queuePayout([s EXCEPT !.payouts = IF w = rv.value THEN Drop(@, {rv.held})
                                                  ELSE [@ EXCEPT ![rv.held].value = @ - w]], v, rv.e, w)
        s2   == IF s.recs[<<v, rv.e>>].status = "matured" THEN markMatured(s1, <<v, rv.e>>) ELSE s1
        left == [rv EXCEPT !.supply = @ - d, !.value = @ - w]
    IN  [(IF w > 0 THEN s2 ELSE s) EXCEPT
            !.retired = IF left.supply = 0 THEN Drop(@, {<<v, m>>}) ELSE Put(@, <<v, m>>, left)]

checkWithdrawRetired(s, v, m, d) ==
    /\ VintageRetired(m) /\ <<v, m>> \in DOMAIN s.retired
    /\ d <= s.retired[<<v, m>>].supply
    /\ shareOfRetired(s.retired[<<v, m>>], d) <= MaxNote

\* MsgCheckIn: derth of an older live vintage moves to the current one.
checkCheckIn(s, v, m, to, d) ==
    /\ VintageLive(m) /\ to \in CreditVintages /\ m < to
    /\ d <= VintageSupply(s, v, m)
CheckedIn(s, v, m, to, d) == addVintageSupply(addVintageSupply(s, v, m, -d), v, to, d)

-----------------------------------------------------------------------------
\* sweepPayouts.  The batch: retries that are due, then the untried payouts of
\* matured records, record by record.
DueRetries(s) == {q \in s.retries : q[1] <= now}
Untried(s, rec) == {q \in s.byRecord : q[1] = rec[1] /\ q[2] = rec[2]}
Batch(s) ==
    LET retry == [i \in 1..Cardinality(DueRetries(s)) |->
                     LET q == Walk(DueRetries(s))[i] IN [id |-> q[2], key |-> q]]
        fresh == [i \in 1..Cardinality(UNION {Untried(s, r) : r \in s.matured}) |->
                     LET q == Walk(UNION {Untried(s, r) : r \in s.matured})[i]
                     IN  [id |-> q[3], key |-> q]]
    IN  First(UnbondPayoutSweepLimit, retry \o fresh)

\* Matured records the walk reached and found with nothing untried.
Exhausted(s) ==
    {r \in s.matured :
        /\ Untried(s, r) = {}
        /\ Cardinality(DueRetries(s))
              + Cardinality({q \in s.byRecord : <<q[1], q[2]>> \in s.matured
                                                /\ KeyOrder(<<q[1], q[2]>>, r)})
           < UnbondPayoutSweepLimit}

Notes(x) == (x + MaxNote - 1) \div MaxNote
OffQueue(s, key) == [s EXCEPT !.byRecord = @ \ {key}, !.retries = @ \ {key}]
payOf(p, r) == (p.value * r.payout) \div r.requested

\* payout: mint it, and with the record's last the dust goes to the community
\* pool and the record is done.
payout(s, id) ==
    LET p    == s.payouts[id]
        key  == <<p.v, p.e>>
        r    == s.recs[key]
        pay  == payOf(p, r)
        last == r.outstanding = p.value
        dust == IF last THEN r.payout - r.paid - pay ELSE 0
    IN  [s EXCEPT !.bal = @ - pay - dust,
                  !.recs = IF last THEN Drop(@, {key})
                           ELSE [@ EXCEPT ![key].outstanding = @ - p.value, ![key].paid = @ + pay],
                  !.matured = IF last THEN @ \ {key} ELSE @,
                  !.payouts = Drop(@, {id})]

RetryDelay(attempts) == RetryBase * 2 ^ Least(attempts - 1, RetryMaxShift)

retryPayout(s, item) ==
    LET n == s.payouts[item.id].attempts + 1
    IN  [OffQueue(s, item.key) EXCEPT !.payouts[item.id].attempts = n,
                                      !.retries = @ \cup {<<now + RetryDelay(n), item.id>>}]

\* One of the batch: acc is the store, the notes minted and whether the sweep
\* has stopped at its budget; bad are the payouts whose minting fails.
PayNext(acc, item, bad) ==
    LET p  == acc.s.payouts[item.id]
        r  == acc.s.recs[<<p.v, p.e>>]
        n  == Notes(payOf(p, r))
    IN  CASE acc.stop \/ acc.notes >= UnbondPayoutNoteBudget -> [acc EXCEPT !.stop = TRUE]
          [] r.status # "matured" \/ p.value > r.outstanding -> [acc EXCEPT !.s = retryPayout(@, item)]
          [] acc.notes > 0 /\ n > UnbondPayoutNoteBudget - acc.notes -> [acc EXCEPT !.stop = TRUE]
          [] item.id \in bad /\ n > 0 -> [acc EXCEPT !.s = retryPayout(@, item)]
          [] OTHER -> [acc EXCEPT !.s = OffQueue(payout(@, item.id), item.key), !.notes = @ + n]

sweepPayouts(s, bad) ==
    FoldLeft(LAMBDA acc, item : PayNext(acc, item, bad),
             [s |-> [s EXCEPT !.matured = @ \ Exhausted(s)], notes |-> 0, stop |-> FALSE],
             Batch(s)).s

-----------------------------------------------------------------------------
\* share: pro rata by weight, the last part the remainder; with no weight the
\* first takes all.
share(total, w) ==
    LET sum == FoldLeft(+, 0, w)
        cut == [i \in DOMAIN w |-> IF sum = 0 THEN 0 ELSE (total * w[i]) \div sum]
        but(j) == total - FoldLeft(+, 0, [i \in 1..(j - 1) |-> cut[i]])
    IN  [i \in DOMAIN w |->
            CASE sum = 0 -> IF i = 1 THEN total ELSE 0
              [] sum > 0 /\ i = Len(w) -> but(i)
              [] OTHER -> cut[i]]

\* matureRecords: the records whose x/staking entry completes in this block, by
\* the entry they share, split what it will pay.
DueRecords(s) == {<<q[2], q[3]>> : q \in {x \in s.maturity : x[1] <= now}}
EntryBalance(s, v, h) ==
    IF h \in DOMAIN s.stk[v].entries /\ s.stk[v].entries[h].done <= now
    THEN s.stk[v].entries[h].bal ELSE 0

matureGroup(s, v, h) ==
    LET keys  == Walk({q \in DueRecords(s) : q[1] = v /\ s.recs[q].height = h})
        parts == share(EntryBalance(s, v, h), [i \in DOMAIN keys |-> s.recs[keys[i]].undelegated])
    IN  FoldLeft(LAMBDA t, i : markMatured([t EXCEPT !.recs[keys[i]].status = "matured",
                                                     !.recs[keys[i]].payout = parts[i]], keys[i]),
                 s, [i \in DOMAIN keys |-> i])

matureRecords(s) ==
    LET due    == DueRecords(s)
        groups == Walk({<<q[1], s.recs[q].height>> : q \in due})
    IN  [FoldLeft(LAMBDA t, g : matureGroup(t, g[1], g[2]), s, groups)
            EXCEPT !.maturity = {q \in @ : q[1] > now}]

-----------------------------------------------------------------------------
\* Orphan records: an undelegation nobody owns, whose payout goes to the
\* community pool.
sweepOrphanRecords(s, v) ==
    LET done == {q \in s.orphans : q[1] = v /\ s.recs[q].status = "matured"}
    IN  [s EXCEPT !.bal = @ - MapThenSumSet(LAMBDA q : s.recs[q].payout - s.recs[q].paid, done),
                  !.recs = Drop(@, done),
                  !.orphans = @ \ done]

\* x/staking's Undelegate of m shares: entries of one height merge.
BeginUnbonding(s, v, m) ==
    LET old == Get(s.stk[v].entries, now, [done |-> now + UnbondingTime, init |-> 0, bal |-> 0])
        n   == IssuedTokens(s.stk[v], m)
    IN  [s EXCEPT !.stk[v] = [RemoveDelShares(@, m) EXCEPT
                                 !.entries = Put(@, now, [old EXCEPT !.init = @ + n, !.bal = @ + n])]]

\* Fault variant: the entry to be made is counted among those there are.
unbondingEntriesFullEarly(s, v) == Cardinality(DOMAIN s.stk[v].entries) + 1 >= MaxEntries
unbondingEntriesFull(s, v) == Cardinality(DOMAIN s.stk[v].entries) >= MaxEntries

orphanUnbonding(s, v, e, m) ==
    IF <<v, e>> \in DOMAIN s.recs THEN s
    ELSE [BeginUnbonding(s, v, m) EXCEPT
             !.recs = Put(@, <<v, e>>, [NewRecord EXCEPT !.status = "unbonding", !.height = now,
                                                         !.undelegated = IssuedTokens(s.stk[v], m)]),
             !.orphans = @ \cup {<<v, e>>},
             !.maturity = @ \cup {<<now + UnbondingTime, v, e>>}]

\* keys: the records, in epoch order.
TargetsOf(s, keys) == [i \in DOMAIN keys |-> s.recs[keys[i]].target]
startUnbonding(s, keys, returned) ==
    LET parts == share(returned, TargetsOf(s, keys))
    IN  FoldLeft(LAMBDA t, i : [t EXCEPT !.recs[keys[i]].status = "unbonding",
                                         !.recs[keys[i]].undelegated = parts[i],
                                         !.recs[keys[i]].height = now,
                                         !.pendingRecords = @ \ {keys[i]},
                                         !.maturity = @ \cup {<<now + UnbondingTime>> \o keys[i]}],
                 s, [i \in DOMAIN keys |-> i])

\* Fault variant: the records matured are not marked for the sweep.
matureFromQueueUnmarked(s, keys, paid) ==
    LET parts == share(paid, TargetsOf(s, keys))
    IN  FoldLeft(LAMBDA t, i : [t EXCEPT !.recs[keys[i]].status = "matured",
                                         !.recs[keys[i]].payout = parts[i],
                                         !.pendingRecords = @ \ {keys[i]}],
                 s, [i \in DOMAIN keys |-> i])

matureFromQueue(s, keys, paid) ==
    LET parts == share(paid, TargetsOf(s, keys))
    IN  FoldLeft(LAMBDA t, i : markMatured([t EXCEPT !.recs[keys[i]].status = "matured",
                                                     !.recs[keys[i]].payout = parts[i],
                                                     !.recs[keys[i]].height = now,
                                                     !.pendingRecords = @ \ {keys[i]}], keys[i]),
                 s, [i \in DOMAIN keys |-> i])

\* processValidator: withdraw the rewards, delegate the queue, begin the ended
\* epochs' undelegations.  A book with no derth and no later record settles:
\* the whole delegation goes out, and what stays queued is nobody's.
Pending(s, v) == {q \in s.pendingRecords : q[1] = v}
EndedRecords(s, v, e) ==
    IF unbondingEntriesFull(s, v) THEN {} ELSE {q \in Pending(s, v) : q[2] <= e}

\* The rewards join the queue; it is delegated, or stays with a validator that
\* takes none.
BondQueue(s, v) ==
    LET queue == ValidatorState(s, v).P + s.stk[v].W
        bonds == IF TakesDelegation(s, v) THEN queue ELSE 0
    IN  [s EXCEPT !.stk[v] = [(IF bonds > 0 THEN AddTokensFromDel(@, bonds) ELSE @) EXCEPT !.W = 0],
                  !.books[v].P = queue - bonds, !.bal = @ + s.stk[v].W - bonds]

\* The records' targets are undelegated, or with nothing delegated come out of
\* the queue.
UndelegateEnded(s, v, e, keys, target, settling) ==
    LET D    == delegation(s, v)
        out  == IF settling THEN s.stk[v].sh ELSE SharesFromTokens(s.stk[v], Least(target, D))
        paid == Least(target, ValidatorState(s, v).P)
    IN  CASE D > 0 /\ settling /\ keys = <<>> -> orphanUnbonding(s, v, e, out)
          [] D > 0 /\ (settling \/ target > 0) /\ keys # <<>> ->
                startUnbonding(BeginUnbonding(s, v, out), keys, IssuedTokens(s.stk[v], out))
          [] ~(D > 0 /\ (settling \/ target > 0)) /\ keys # <<>> ->
                matureFromQueue([s EXCEPT !.books[v].P = @ - paid], keys, paid)
          [] OTHER -> s

\* What a settled book still queues goes to the community pool.
CloseBook(s, v, target, settling) ==
    [s EXCEPT !.books[v].U = Pos(@ - target),
              !.books[v].P = IF settling THEN 0 ELSE @,
              !.bal = IF settling THEN @ - s.books[v].P ELSE @]

DropEmptied(s, v) ==
    IF /\ s.books[v] = NoBook /\ Backing(s, v) = 0
       /\ Pending(s, v) = {}
       /\ \A q \in s.orphans : q[1] # v
    THEN [s EXCEPT !.books = Drop(@, {v})] ELSE s

BeginEnded(s, v, e, keys, target, settling) ==
    DropEmptied(CloseBook(UndelegateEnded(s, v, e, keys, target, settling), v, target, settling), v)

EndedTarget(s, v, e) == MapThenSumSet(LAMBDA q : s.recs[q].target, EndedRecords(s, v, e))
Settling(s, v, e) ==
    /\ Supply(s, v) = 0 /\ ~unbondingEntriesFull(s, v)
    /\ Pending(s, v) = EndedRecords(s, v, e)

processValidator(s, v, e) ==
    BeginEnded(BondQueue(sweepOrphanRecords(s, v), v), v, e, Walk(EndedRecords(s, v, e)),
               EndedTarget(s, v, e), Settling(s, v, e))

\* ValidateUnbondAmount refuses tokens that convert to more than the module's
\* shares, and processValidator fails with it.
processFails(s, v, e) ==
    LET x == BondQueue(s, v).stk[v]
        n == Least(EndedTarget(s, v, e), TokensFromShares(x, x.sh))
    IN  ~Settling(s, v, e) /\ n > 0 /\ SharesFromTokens(x, n) > x.sh

-----------------------------------------------------------------------------
\* retireVintage: the vintage leaves the book at the live rate.  Its value is
\* an undelegation of epoch e whose payout is held, in no queue.
retireVintage(s, v, m, e) ==
    LET d   == s.vins[<<v, m>>]
        val == valueOf(d, Backing(s, v), Supply(s, v))
        s1  == [s EXCEPT !.books = Put(@, v, [ValidatorState(s, v) EXCEPT !.S = @ - d]),
                         !.vins = Drop(@, {<<v, m>>}),
                         !.retired = Put(@, <<v, m>>, [supply |-> d, value |-> val, e |-> e,
                                                       held |-> IF val > 0 THEN s.seq ELSE 0])]
    IN  IF val = 0 THEN s1
        ELSE [Booked(s1, v, e, val) EXCEPT !.payouts = Put(@, s.seq, NewPayout(v, e, val)),
                                           !.seq = @ + 1]

\* retireDue: every vintage past its live months, oldest first, unless the
\* undelegation would wait or the record is closed.
DueVintages(s, v) == {q \in DOMAIN s.vins : q[1] = v /\ VintageRetired(q[2])}
retireDue(s, v, e) ==
    IF \/ unbondingEntriesFull(s, v)
       \/ Get(s.recs, <<v, e>>, NewRecord).status # "pending"
    THEN s
    ELSE FoldLeft(LAMBDA t, q : retireVintage(t, v, q[2], e), s, Walk(DueVintages(s, v)))

\* A vintage that has retired already and holds supply again is refused.
retireFails(s, v) == \E q \in DueVintages(s, v) : q \in DOMAIN s.retired

-----------------------------------------------------------------------------
\* One book's epoch end.  The retirement is kept only with the undelegation
\* that follows it; when one of the two fails (faulty, a book and how) the
\* book's other records still go out.
SweepBook(s, v, e, faulty) ==
    LET retires == /\ faulty # <<v, "retirement">> /\ ~retireFails(s, v)
                   /\ ~processFails(retireDue(s, v, e), v, e)
    IN  CASE faulty = <<v, "book">> -> s
          [] faulty # <<v, "book">> /\ retires -> processValidator(retireDue(s, v, e), v, e)
          [] faulty # <<v, "book">> /\ ~retires /\ ~processFails(s, v, e) -> processValidator(s, v, e)
          [] OTHER -> s

\* sweepBooks: up to EpochValidatorLimit books after the cursor.
NoSweep == [active |-> FALSE, cursor |-> 0]
sweepBooks(s, sweep, e, faulty) ==
    LET vals == First(EpochValidatorLimit,
                      WalkNumbers({v \in DOMAIN s.books : v > sweep.cursor}))
        s1   == FoldLeft(LAMBDA t, v : SweepBook(t, v, e, faulty), s, vals)
    IN  [s1 EXCEPT !.sweep = IF Len(vals) < EpochValidatorLimit THEN NoSweep
                             ELSE [active |-> TRUE, cursor |-> Last(vals)]]

endEpoch(s, faulty) ==
    [sweepBooks(s, [s.sweep EXCEPT !.active = TRUE], s.epoch.n, faulty)
        EXCEPT !.epoch = [n |-> s.epoch.n + 1, end |-> now + EpochSeconds]]

continueSweep(s, faulty) ==
    IF s.sweep.active THEN sweepBooks(s, s.sweep, s.epoch.n - 1, faulty) ELSE s

\* x/staking's EndBlocker pays the entries that are done, after this module's.
DoneEntries(s, v) == {h \in DOMAIN s.stk[v].entries : s.stk[v].entries[h].done <= now}
PaidOf(s, v) == MapThenSumSet(LAMBDA h : s.stk[v].entries[h].bal, DoneEntries(s, v))
StakingPays(s) ==
    [s EXCEPT !.bal = @ + MapThenSumSet(LAMBDA v : PaidOf(s, v), Validators),
              !.stk = [v \in Validators |-> [@[v] EXCEPT !.entries = Drop(@, DoneEntries(s, v))]]]

EndBlocker(s, bad, faulty) ==
    LET s1 == matureRecords(sweepPayouts(s, bad))
    IN  CASE now >= s.epoch.end -> endEpoch(s1, faulty)
          [] now < s.epoch.end /\ s.epoch.n > 0 -> continueSweep(s1, faulty)
          [] OTHER -> s1

-----------------------------------------------------------------------------
\* The fraction of its tokens a slash takes, rounded up (external: x/staking).
EffectiveFraction(x, f) == ((x.T \div f) * DecPrec + x.T - 1) \div x.T

\* The hook haircuts the undelegations not yet begun.
BeforeValidatorSlashed(s, v, f) ==
    LET mine == {q \in s.pendingRecords : q[1] = v}
        keep == DecPrec - EffectiveFraction(s.stk[v], f)
        cut  == [q \in DOMAIN s.recs |->
                    IF q \in mine THEN [s.recs[q] EXCEPT !.target = (keep * @) \div DecPrec]
                    ELSE s.recs[q]]
    IN  IF mine = {} THEN s
        ELSE [s EXCEPT !.recs = cut,
                       !.books = Put(@, v, [ValidatorState(s, v) EXCEPT
                                               !.U = MapThenSumSet(LAMBDA q : cut[q].target, mine)])]

\* x/staking's slash: 1/f of the tokens and of the entries begun since the
\* infraction that are not done.
SlashEntry(x, f) == [x EXCEPT !.bal = @ - Least(@, x.init \div f)]
SlashTokens(s, v, f, since) ==
    [s EXCEPT !.stk[v].T = @ - @ \div f,
              !.stk[v].status = IF f = 1 THEN "zeroed" ELSE "jailed",
              !.stk[v].entries = [h \in DOMAIN @ |->
                                     IF h >= since /\ @[h].done > now THEN SlashEntry(@[h], f)
                                     ELSE @[h]]]

-----------------------------------------------------------------------------
\* Messages.  The kinds of one behaviour, their number and when the last comes
\* are bounds.
Events == msgs + rewards + slashes + faults
Message(kind) ==
    /\ phase = "txs" /\ kind \in kinds /\ msgs < MaxMsgs /\ Events < MaxEvents /\ now <= LastMsg
    /\ msgs' = msgs + 1
    /\ UNCHANGED <<now, phase, kinds, rewards, slashes, faults>>

Delegate ==
    /\ Message("delegate")
    /\ \E v \in Validators, a \in Amounts, d \in DerthAmounts, m \in CreditVintages :
          /\ checkDelegate(k, v, a, d, m)
          /\ k' = Delegated(k, v, a, d, m)

Undelegate ==
    /\ Message("undelegate")
    /\ \E q \in DOMAIN k.vins, d \in DerthAmounts :
          /\ checkUndelegate(k, q[1], q[2], d)
          /\ k' = Undelegated(k, q[1], q[2], d)

WithdrawRetired ==
    /\ Message("undelegate")
    /\ \E q \in DOMAIN k.retired, d \in DerthAmounts :
          /\ checkWithdrawRetired(k, q[1], q[2], d)
          /\ k' = withdrawRetired(k, q[1], q[2], d)

CheckIn ==
    /\ Message("checkin")
    /\ \E q \in DOMAIN k.vins, d \in DerthAmounts, to \in CreditVintages :
          /\ checkCheckIn(k, q[1], q[2], to, d)
          /\ k' = CheckedIn(k, q[1], q[2], to, d)

\* x/slashing's MsgUnjail.
Unjail ==
    /\ phase = "txs" /\ now <= LastMsg
    /\ \E v \in Validators : k.stk[v].status = "jailed" /\ k' = [k EXCEPT !.stk[v].status = "bonded"]
    /\ UNCHANGED <<now, phase, kinds, msgs, rewards, slashes, faults>>

\* The end of a block: at most one payout's minting or one book's step fails.
EndBlock ==
    /\ phase = "txs"
    /\ \E bad \in {{}} \cup {{Batch(k)[i].id} : i \in DOMAIN Batch(k)},
          faulty \in {<<>>} \cup ((DOMAIN k.books) \X {"book", "retirement"}) :
          /\ faults' = faults + Cardinality(bad) + (IF faulty = <<>> THEN 0 ELSE 1)
          /\ faults' <= IF "fault" \in kinds THEN MaxFaults ELSE 0
          /\ faults' > faults => Events < MaxEvents
          /\ k' = StakingPays(EndBlocker(k, bad, faulty))
    /\ phase' = "end"
    /\ UNCHANGED <<now, kinds, msgs, rewards, slashes>>

\* x/staking removes an unbonded validator nobody delegates to any more.
RemoveValidator ==
    /\ phase = "end" /\ now <= LastMsg
    /\ \E v \in Validators :
          /\ k.stk[v].status = "jailed" /\ k.stk[v].sh = 0
          /\ k' = [k EXCEPT !.stk[v] = [@ EXCEPT !.status = "gone", !.T = 0, !.own = 0]]
    /\ UNCHANGED <<now, phase, kinds, msgs, rewards, slashes, faults>>

\* The next block begins: x/distribution may have paid a validator's delegators.
BeginBlock ==
    /\ phase = "end"
    /\ \E dt \in IF "halt" \in kinds /\ now <= LastMsg THEN Steps ELSE {1} :
          now' = Least(now + dt, MaxTime)
    /\ \/ UNCHANGED <<k, rewards>>
       \/ /\ "reward" \in kinds /\ rewards < MaxRewards /\ Events < MaxEvents /\ now <= LastMsg
          /\ \E v \in Validators :
                /\ k.stk[v].status = "bonded" /\ delegation(k, v) > 0
                /\ k' = [k EXCEPT !.stk[v].W = @ + 1]
          /\ rewards' = rewards + 1
    /\ phase' = "txs"
    /\ UNCHANGED <<kinds, msgs, slashes, faults>>

\* x/slashing and x/evidence, in BeginBlock.
Slash ==
    /\ phase = "end" /\ "slash" \in kinds /\ slashes < MaxSlashes
    /\ Events < MaxEvents /\ now <= LastMsg
    /\ \E v \in Validators, f \in Fractions :
          \E since \in DOMAIN k.stk[v].entries \cup {now} :
             /\ k.stk[v].status = "bonded"
             /\ k' = SlashTokens(BeforeValidatorSlashed(k, v, f), v, f, since)
    /\ slashes' = slashes + 1
    /\ UNCHANGED <<now, phase, kinds, msgs, rewards, faults>>

-----------------------------------------------------------------------------
\* With "dust" a redelegation of a book's last derth left one unit behind.
Init ==
    /\ now = MonthSeconds /\ phase = "txs" /\ kinds \in KindSets
    /\ LET dust == IF "dust" \in kinds THEN {CHOOSE v \in Validators : TRUE} ELSE {} IN
       k = [books |-> [v \in dust |-> NoBook], vins |-> Empty, retired |-> Empty,
            recs |-> Empty, pendingRecords |-> {}, maturity |-> {}, matured |-> {}, orphans |-> {},
            payouts |-> Empty, byRecord |-> {}, retries |-> {}, seq |-> 1, bal |-> 0,
            stk |-> [v \in Validators |-> [status |-> "bonded", T |-> SelfBond + Cardinality({v} \cap dust),
                                           own |-> SelfBond * DecPrec,
                                           sh |-> DecPrec * Cardinality({v} \cap dust), W |-> 0,
                                           entries |-> Empty]],
            epoch |-> [n |-> 1, end |-> MonthSeconds + EpochSeconds], sweep |-> NoSweep]
    /\ msgs = 0 /\ rewards = 0 /\ slashes = 0 /\ faults = 0

Next ==
    \/ Delegate \/ Undelegate \/ WithdrawRetired \/ CheckIn \/ Unjail
    \/ EndBlock \/ RemoveValidator \/ Slash \/ BeginBlock

Spec == Init /\ [][Next]_vars

\* Blocks keep coming: consensus makes the next one.
FairSpec == Spec /\ []<><<BeginBlock>>_vars

-----------------------------------------------------------------------------
\* The records hold amounts, and the indexes name records and payouts there are.
TypeOK ==
    /\ phase \in {"txs", "end"} /\ now \in MonthSeconds..MaxTime /\ kinds \in KindSets
    /\ k.bal \in Nat /\ k.seq \in Nat /\ k.epoch \in [n : Nat, end : Nat]
    /\ k.sweep \in [active : BOOLEAN, cursor : Validators \cup {0}]
    /\ DOMAIN k.books \subseteq Validators
    /\ \A v \in DOMAIN k.books : k.books[v] \in [P : Nat, U : Nat, S : Nat]
    /\ \A v \in Validators : k.stk[v].T \in Nat /\ k.stk[v].sh \in Nat /\ k.stk[v].W \in Nat
    /\ \A q \in DOMAIN k.recs : k.recs[q].status \in {"pending", "unbonding", "matured"}
    /\ k.matured \cup k.orphans \cup k.pendingRecords \subseteq DOMAIN k.recs

\* What AssertInvariants says of these stores, at every step of a block.
StatusOf(st) == {q \in DOMAIN k.recs : k.recs[q].status = st}
HeldIds == {k.retired[q].held : q \in {x \in DOMAIN k.retired : k.retired[x].value > 0}}
QueueKeys(i) == {q \in k.byRecord : q[3] = i} \cup {q \in k.retries : q[2] = i}
OwedTo(q) == MapThenSumSet(LAMBDA i : k.payouts[i].value,
                           {i \in DOMAIN k.payouts : <<k.payouts[i].v, k.payouts[i].e>> = q})

\* Invariant 1 (assertERTH): the module's ERTH is the queues and the matured
\* records' payouts not yet made.
ErthBooked ==
    k.bal = MapThenSumSet(LAMBDA v : k.books[v].P, DOMAIN k.books)
            + MapThenSumSet(LAMBDA q : k.recs[q].payout - k.recs[q].paid, StatusOf("matured"))

\* Invariant 3 (assertUnbonding): what the records undelegated is what x/staking
\* holds, and every record's height has an entry.
UnbondingBooked ==
    \A v \in Validators :
       LET mine == {q \in StatusOf("unbonding") : q[1] = v}
       IN  /\ MapThenSumSet(LAMBDA q : k.recs[q].undelegated, mine)
                = MapThenSumSet(LAMBDA h : k.stk[v].entries[h].init, DOMAIN k.stk[v].entries)
           /\ \A q \in mine : k.recs[q].height \in DOMAIN k.stk[v].entries

\* Invariant 4 (assertRates): U is the pending records' targets, and D + W + P
\* covers it.
UndelegationsCovered ==
    \A v \in Validators :
       /\ ValidatorState(k, v).U
             = MapThenSumSet(LAMBDA q : k.recs[q].target, {q \in k.pendingRecords : q[1] = v})
       /\ Gross(k, v) >= ValidatorState(k, v).U

\* Invariant 8 (assertPayouts): a record's payouts are what it still owes; each
\* is in one queue, a held one in none; untried ones of a matured record are
\* marked for the sweep.
PayoutsQueued ==
    /\ \A q \in DOMAIN k.recs : k.recs[q].requested > 0 => OwedTo(q) = k.recs[q].outstanding
    /\ \A i \in DOMAIN k.payouts : Cardinality(QueueKeys(i)) = IF i \in HeldIds THEN 0 ELSE 1
    /\ \A q \in k.byRecord : q[3] \in DOMAIN k.payouts
    /\ \A q \in k.retries : q[2] \in DOMAIN k.payouts
    /\ \A q \in StatusOf("matured") : Untried(k, q) # {} => q \in k.matured

\* Invariant 11 (assertVintages): a book's derth is its vintages', none of them
\* retired too, and a retired vintage's value is in its held payout.
VintagesBooked ==
    /\ \A v \in Validators :
          Supply(k, v) = MapThenSumSet(LAMBDA q : k.vins[q], {q \in DOMAIN k.vins : q[1] = v})
    /\ \A q \in DOMAIN k.vins : k.vins[q] > 0 /\ q \notin DOMAIN k.retired
    /\ \A q \in DOMAIN k.retired :
          /\ k.retired[q].supply > 0
          /\ k.retired[q].value > 0 =>
                /\ k.retired[q].held \in DOMAIN k.payouts
                /\ k.payouts[k.retired[q].held].value = k.retired[q].value

\* AssertInvariants 1, 3, 4, 8 and 11 hold after every message, hook and block,
\* not only at the epoch end that evaluates them, through slashes, failed
\* payouts and failed books.
BooksExact ==
    TypeOK /\ ErthBooked /\ UnbondingBooked /\ UndelegationsCovered /\ PayoutsQueued /\ VintagesBooked

\* x/staking's conversions of a step: a delegation is one, an epoch end two.
Conversions(v) ==
    IF k'.stk[v].sh = k.stk[v].sh THEN 0 ELSE IF phase' = "txs" THEN 1 ELSE 2

\* A unit of derth never loses value but to a slash: no delegation,
\* undelegation, retirement, epoch end or payout lowers B/S for those who stay
\* by more than the unit of backing each share conversion may truncate (a step
\* that converts nothing lowers it not at all), and no one buys backing nobody
\* owned (checkDelegate refuses a settling book).
RateKept ==
    [][~Slash =>
          \A v \in Validators :
             LET S == Supply(k, v)
                 B == Backing(k, v)
             IN  /\ S > 0 /\ Supply(k, v)' > 0 =>
                       (Backing(k, v)' + Conversions(v)) * S >= B * Supply(k, v)'
                 /\ S = 0 /\ Supply(k, v)' > 0 => B = 0]_vars

\* Every queued payout is made: its record is begun, matures and is swept,
\* whatever slash, failed mint or failed book came between.
MaxPayouts == 2 * MaxMsgs
Queued(i) == i \in DOMAIN k.payouts /\ QueueKeys(i) # {}
PayoutsMade == \A i \in 1..MaxPayouts : Queued(i) ~> i \notin DOMAIN k.payouts
=============================================================================
