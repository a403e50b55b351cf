-------------------------------- MODULE Dex --------------------------------
(***************************************************************************)
(* x/dex: ERTH hub-and-spoke pools on a constant-product curve, their LP   *)
(* shares and the LP reward stream paid into them, withdrawals that wait   *)
(* out an unbonding period, the genesis liquidity auction and the          *)
(* retirement of the protocol's own liquidity.                             *)
(*                                                                         *)
(* A pool is keyed by its id, its position in `pools`; the chain allows    *)
(* one pool per spoke token.  Of the bank only the dex module account is   *)
(* kept (`held`), and of an LP denom its supply and the module's own part  *)
(* of it (`own`): the shares everyone else holds, in an account or as a    *)
(* note, are the difference.  An account is assumed to have what it pays.  *)
(*                                                                         *)
(* Messages run while phase = "txs".  The EndBlocker then runs as a chain  *)
(* of steps, one per entry it handles, that no message can interleave:     *)
(* "sweep" pays matured withdrawals, "stale" expires pools nobody trades,  *)
(* "pol" retires protocol-owned shares.                                    *)
(***************************************************************************)
EXTENDS Integers, Sequences, FiniteSets, FiniteSetsExt, Functions

CONSTANTS
    Hub, Tokens,         \* the denoms: ERTH, and the spokes
    ShieldedOnly,        \* the spokes that exist only as notes (ANML)
    Accounts,            \* providers and bidders
    PrivateIds,          \* ids of private withdrawals
    Scenarios,           \* the pools and params a chain may start with, and
                         \* how many messages of each kind it then sees (a bound)
    Earmark,             \* each of the auction's two earmarks; 0: no auction
    SwapAmounts, DepositAmounts, ShareAmounts, BidAmounts, RewardAmounts,
                         \* what messages may carry
    ParamSets,           \* the params governance may choose between
    FeeUnit,             \* a fee of params.fee / FeeUnit
    PoolCap,             \* MaxPoolAmount
    LpPrec, VolPrec,     \* lpIndexPrecision, volumeIndexPrecision
    DecayWindow, WindowDays, MaxCatchUp, RebaseAt, RebaseFactor, DaySeconds,
    StaleSeconds, StaleLimit,
    SweepLimit, NoteBudget, MaxNote, MaxSplit, RetryBase, MaxShift, RetrySlots,
    PolSeconds, AuctionSeconds,
    StartTime, MaxTime,  \* the genesis time, and a bound on the clock
    Steps,               \* how far the clock may move between two blocks
    MaxErth              \* bound on the ERTH in existence

Kinds == {"swap", "reward", "deposit", "withdraw", "auction", "params"}

NoPol == [total |-> 0, left |-> 0, start |-> 0, token |-> FALSE]

IsPool(p) ==
    /\ p.token \in Tokens
    /\ \A x \in {p.erth, p.tok, p.supply, p.own, p.vol, p.last, p.due} : x \in Nat
    /\ \A x \in {p.pol.total, p.pol.left, p.pol.start} : x \in Nat
    /\ p.pol.token \in BOOLEAN

ASSUME DexAssumption ==
    /\ Hub \notin Tokens /\ ShieldedOnly \subseteq Tokens
    /\ IsFiniteSet(Accounts) /\ Accounts \cap PrivateIds = {}
    /\ \A c \in Scenarios : /\ c.pools \in Seq(Range(c.pools))
                             /\ \A i \in DOMAIN c.pools : IsPool(c.pools[i])
                             /\ c.params \in ParamSets /\ c.left \in [Kinds -> Nat]
    /\ Earmark \in Nat
    /\ \A S \in {SwapAmounts, DepositAmounts, ShareAmounts, BidAmounts, RewardAmounts} :
          S \subseteq Nat \ {0}
    /\ ParamSets # {}
    /\ ParamSets \subseteq [fee : 0..FeeUnit, unbond : Nat, depth : Nat \ {0}]
    /\ \A n \in {FeeUnit, PoolCap, LpPrec, VolPrec, WindowDays, RebaseAt, RebaseFactor,
                 DaySeconds, StaleSeconds, StaleLimit, SweepLimit, NoteBudget, MaxNote,
                 MaxSplit, RetryBase, RetrySlots, PolSeconds, AuctionSeconds, MaxTime} :
          n \in Nat \ {0}
    /\ DecayWindow \in Nat \ {0, 1} /\ MaxCatchUp \in Nat /\ MaxShift \in Nat
    /\ Steps \subseteq Nat /\ StartTime \in Nat /\ StartTime >= DaySeconds
    /\ MaxErth \in Nat

VARIABLES
    pools,               \* Pool, with PoolLpIndex, PoolStaleDue, PolBurns, LP supply
    held,                \* the dex module account
    totalErth, totalVol, \* TotalPoolErth, LpTotalVolume
    pending, lpIndex,    \* PendingLpRewards, LpRewardIndex
    volIndex, volDay,    \* VolumeIndex, VolumeIndexDay
    unbonding,           \* LpUnbondings
    auction, bids, claims, \* LiquidityAuction, AuctionBids
    params, now,
    left,                \* messages of each kind still to come
    phase, sweepq, poolq, minted  \* where the EndBlocker is

vars == <<pools, held, totalErth, totalVol, pending, lpIndex, volIndex, volDay,
          unbonding, auction, bids, claims, params, left, now, phase, sweepq,
          poolq, minted>>

books   == <<pools, held, totalErth, totalVol, pending>>
rewards == <<lpIndex, volIndex, volDay>>
sale    == <<auction, bids, claims>>
block   == <<now, phase, sweepq, poolq, minted>>

Denoms == {Hub} \cup Tokens
Ids    == DOMAIN pools

-----------------------------------------------------------------------------
(* amm.go: every rounding favours the protocol. *)

mulDiv(a, b, c)   == (a * b) \div c
mulDivUp(a, b, c) == (a * b + c - 1) \div c
feeOf(amount)     == mulDivUp(amount, params.fee, FeeUnit)
Burn(fee)         == (fee + 1) \div 2
Least(a, b)       == IF a <= b THEN a ELSE b

\* s is initialShares(e, t), the integer square root of e*t.
initialShares(s, e, t) == s * s <= e * t /\ e * t < (s + 1) * (s + 1)

\* Fault variant: the gross output rounded up.
swapTokenForHubUp(p, in) ==
    LET gross == mulDivUp(p.erth, in, p.tok + in)
        fee   == feeOf(gross)
    IN  [out |-> gross - fee, burn |-> Burn(fee), volume |-> gross,
         erth |-> p.erth - (gross - fee) - Burn(fee), tok |-> p.tok + in]

swapTokenForHub(p, in) ==
    LET gross == mulDiv(p.erth, in, p.tok + in)
        fee   == feeOf(gross)
    IN  [out |-> gross - fee, burn |-> Burn(fee), volume |-> gross,
         erth |-> p.erth - (gross - fee) - Burn(fee), tok |-> p.tok + in]

swapHubForToken(p, in) ==
    LET fee == feeOf(in)
        out == mulDiv(p.tok, in - fee, p.erth + (in - fee))
    IN  [out |-> out, burn |-> Burn(fee), volume |-> in,
         erth |-> p.erth + in - Burn(fee), tok |-> p.tok - out]

-----------------------------------------------------------------------------
(* lp_rewards.go, solvency.go: the funnels every pool write goes through. *)

Day == now \div DaySeconds

\* AdvanceVolumeIndex: one compounding step per whole day since the last.
Grown(n) ==
    LET g[k \in 0..MaxCatchUp] ==
            IF k = 0 THEN volIndex ELSE (g[k - 1] * DecayWindow) \div (DecayWindow - 1)
    IN  g[n]

AdvancedIndex ==
    IF volDay = 0 \/ Day <= volDay THEN volIndex ELSE Grown(Least(Day - volDay, MaxCatchUp))

AdvanceVolumeIndex ==
    /\ volIndex' = AdvancedIndex
    /\ volDay' = IF Day > volDay THEN Day ELSE volDay

\* settlePoolRewards: what the index owes p moves from pending to its reserve.
Owed(p) == mulDiv(p.vol, lpIndex - p.last, LpPrec)

Settled(p) == [p EXCEPT !.erth = @ + Owed(p), !.last = lpIndex]

\* applyVolume, capVolume, scheduleStale: pool p after a hop r.
Traded(p, r) ==
    LET cap == (r.erth * params.depth * WindowDays * AdvancedIndex) \div VolPrec
        v   == Least(p.vol + (r.volume * AdvancedIndex) \div VolPrec, cap)
    IN  [p EXCEPT !.erth = r.erth, !.tok = r.tok, !.vol = v,
                  !.due = IF v > 0 THEN now + StaleSeconds ELSE 0]

Fits(p) == p.erth <= PoolCap /\ p.tok <= PoolCap

Moved(total, delta) == IF total + delta < 0 THEN 0 ELSE total + delta

\* SetPool and setPoolVolume: the running totals move with the pool.
SetPool(i, p) ==
    /\ Fits(p)
    /\ pools' = [pools EXCEPT ![i] = p]
    /\ totalErth' = Moved(totalErth, p.erth - pools[i].erth)
    /\ totalVol' = Moved(totalVol, p.vol - pools[i].vol)

\* Bound: the ERTH anybody can bring.  It exceeds PoolCap, so that the cap binds
\* in small instances; MaxPoolAmount is far above any real asset's supply.
ErthExists(n) == held[Hub] + n <= MaxErth

Pays(d, n) == held' = [held EXCEPT ![d] = @ - n]
Gets(d, n) == held' = [held EXCEPT ![d] = @ + n]

-----------------------------------------------------------------------------
Init ==
    /\ \E c \in Scenarios : pools = c.pools /\ params = c.params /\ left = c.left
    /\ totalErth = SumFunctionOnSet([i \in Ids |-> pools[i].erth], Ids)
    /\ totalVol = SumFunctionOnSet([i \in Ids |-> pools[i].vol], Ids)
    /\ held = [d \in Denoms |->
                 IF d = Hub THEN totalErth + 2 * Earmark
                 ELSE SumFunctionOnSet([i \in Ids |-> IF pools[i].token = d THEN pools[i].tok ELSE 0], Ids)]
    /\ pending = 0 /\ lpIndex = 0 /\ volIndex = VolPrec /\ volDay = 0
    /\ unbonding = {}
    /\ auction = [status |-> IF Earmark = 0 THEN "none" ELSE "pending",
                  denom |-> Hub, end |-> 0, raised |-> 0, claimed |-> 0]
    /\ bids = [a \in Accounts |-> 0] /\ claims = {}
    /\ now = StartTime
    /\ phase = "txs" /\ sweepq = {} /\ poolq = {} /\ minted = 0

\* A message runs between two EndBlockers.
Deliver(kind) ==
    /\ phase = "txs"
    /\ left[kind] > 0 /\ left' = [left EXCEPT ![kind] = @ - 1]

UpdateParams(p) ==
    /\ Deliver("params")
    /\ params' = p
    /\ UNCHANGED <<books, rewards, unbonding, sale, block>>

-----------------------------------------------------------------------------
(* Swaps.  A hop settles the pool, prices against the settled reserve, and *)
(* is refused when nothing comes out or a reserve would be drained.        *)

SellOK(p, in) ==
    LET r == swapTokenForHub(p, in) IN r.out > 0 /\ r.erth > 0
BuyOK(p, in) ==
    LET r == swapHubForToken(p, in)
    IN  p.erth + in - feeOf(in) > 0 /\ r.out > 0 /\ r.tok > 0

SwapHubToToken(i, a) ==
    LET p == Settled(pools[i])
        r == swapHubForToken(p, a)
    IN  /\ Deliver("swap") /\ a <= PoolCap /\ ErthExists(a)
        /\ BuyOK(p, a)
        /\ SetPool(i, Traded(p, r))
        /\ held' = [held EXCEPT ![Hub] = @ + a - r.burn, ![p.token] = @ - r.out]
        /\ pending' = pending - Owed(pools[i])
        /\ AdvanceVolumeIndex
        /\ UNCHANGED <<lpIndex, unbonding, sale, params, block>>

SwapTokenToHub(i, a) ==
    LET p == Settled(pools[i])
        r == swapTokenForHub(p, a)
    IN  /\ Deliver("swap") /\ a <= PoolCap
        /\ SellOK(p, a)
        /\ SetPool(i, Traded(p, r))
        /\ held' = [held EXCEPT ![Hub] = @ - r.out - r.burn, ![p.token] = @ + a]
        /\ pending' = pending - Owed(pools[i])
        /\ AdvanceVolumeIndex
        /\ UNCHANGED <<lpIndex, unbonding, sale, params, block>>

\* tokenA -> ERTH -> tokenB: the first hop's output is the second's input.
SwapTokenToToken(i, j, a) ==
    LET p == Settled(pools[i])
        r == swapTokenForHub(p, a)
        q == Settled(pools[j])
        s == swapHubForToken(q, r.out)
        x == Traded(p, r)
        y == Traded(q, s)
    IN  /\ Deliver("swap") /\ i # j /\ a <= PoolCap
        /\ SellOK(p, a) /\ r.out <= PoolCap
        /\ BuyOK(q, r.out)
        /\ Fits(x) /\ Fits(y)
        /\ pools' = [pools EXCEPT ![i] = x, ![j] = y]
        /\ totalErth' = Moved(Moved(totalErth, x.erth - pools[i].erth), y.erth - pools[j].erth)
        /\ totalVol' = Moved(Moved(totalVol, x.vol - pools[i].vol), y.vol - pools[j].vol)
        /\ held' = [held EXCEPT ![Hub] = @ - r.burn - s.burn,
                                ![p.token] = @ + a, ![q.token] = @ - s.out]
        /\ pending' = pending - Owed(pools[i]) - Owed(pools[j])
        /\ AdvanceVolumeIndex
        /\ UNCHANGED <<lpIndex, unbonding, sale, params, block>>

-----------------------------------------------------------------------------
(* Deposits.  MsgAddLiquidity pulls from an account, AddLiquidityShielded  *)
(* from notes; both run deposit.                                           *)

\* Fault variant: the reserves are overwritten and the residue is not burned.
AddLiquidityOverResidue(i, e, t) ==
    LET p == Settled(pools[i])
    IN  /\ Deliver("deposit") /\ p.supply = 0 /\ ErthExists(e)
        /\ \E s \in 1..PoolCap :
              /\ initialShares(s, e, t)
              /\ SetPool(i, [p EXCEPT !.erth = e, !.tok = t, !.supply = s])
        /\ held' = [held EXCEPT ![Hub] = @ + e, ![p.token] = @ + t]
        /\ pending' = pending - Owed(pools[i])
        /\ UNCHANGED <<rewards, unbonding, sale, params, block>>

\* A pool with no shares left is re-seeded; what it still holds is burned.
AddLiquidityToEmpty(i, e, t) ==
    LET p == Settled(pools[i])
    IN  /\ Deliver("deposit") /\ p.supply = 0 /\ ErthExists(e)
        /\ \E s \in 1..PoolCap :
              /\ initialShares(s, e, t)
              /\ SetPool(i, [p EXCEPT !.erth = e, !.tok = t, !.supply = s])
        /\ held' = [held EXCEPT ![Hub] = @ + e - p.erth, ![p.token] = @ + t - p.tok]
        /\ pending' = pending - Owed(pools[i])
        /\ UNCHANGED <<rewards, unbonding, sale, params, block>>

\* The shares a deposit earns, and the leg it pays for them, rounded up.
SharesFor(p, e, t) == Least(mulDiv(e, p.supply, p.erth), mulDiv(t, p.supply, p.tok))
DepositLeg(p, s, reserve) == mulDivUp(s, reserve, p.supply)

AddLiquidity(i, e, t) ==
    LET p == Settled(pools[i])
        s == SharesFor(p, e, t)
        x == DepositLeg(p, s, p.erth)
        y == DepositLeg(p, s, p.tok)
    IN  /\ Deliver("deposit") /\ e <= PoolCap /\ t <= PoolCap /\ ErthExists(e)
        /\ p.supply \in 1..PoolCap /\ p.erth > 0 /\ p.tok > 0
        /\ s > 0 /\ x \in 1..e /\ y \in 1..t
        /\ p.supply + s <= PoolCap
        /\ SetPool(i, [p EXCEPT !.erth = @ + x, !.tok = @ + y, !.supply = @ + s])
        /\ held' = [held EXCEPT ![Hub] = @ + x, ![p.token] = @ + y]
        /\ pending' = pending - Owed(pools[i])
        /\ UNCHANGED <<rewards, unbonding, sale, params, block>>

NewPool(d, e, t, s, own, pol) ==
    [token |-> d, erth |-> e, tok |-> t, supply |-> s, own |-> own,
     vol |-> 0, last |-> lpIndex, due |-> 0, pol |-> pol]

PoolCreationLocked == auction.status \in {"pending", "open"}
HasPool(d) == \E i \in Ids : pools[i].token = d

CreatePool(d, e, t) ==
    /\ Deliver("deposit") /\ ~PoolCreationLocked
    /\ d \notin ShieldedOnly /\ ~HasPool(d)
    /\ e <= PoolCap /\ t <= PoolCap /\ ErthExists(e)
    /\ \E s \in 1..PoolCap :
          /\ initialShares(s, e, t)
          /\ pools' = Append(pools, NewPool(d, e, t, s, 0, NoPol))
    /\ totalErth' = totalErth + e
    /\ held' = [held EXCEPT ![Hub] = @ + e, ![d] = @ + t]
    /\ UNCHANGED <<totalVol, pending, rewards, unbonding, sale, params, block>>

-----------------------------------------------------------------------------
(* Withdrawals. *)

Entry(at, i, who, s) == [at |-> at, pool |-> i, who |-> who, shares |-> s, tries |-> 0]

\* The store is keyed by (completion time, pool, provider): a Set overwrites.
Put(us, u) == {v \in us : <<v.at, v.pool, v.who>> # <<u.at, u.pool, u.who>>} \cup {u}
At(at, i, who) == {u \in unbonding : u.at = at /\ u.pool = i /\ u.who = who}

Escrow(i, s) ==
    /\ s <= pools[i].supply - pools[i].own
    /\ pools' = [pools EXCEPT ![i].own = @ + s]
    /\ UNCHANGED <<held, totalErth, totalVol, pending>>

\* checkWithdrawalNoteLegs: a quarter of what a payout can mint as notes.
LegPayable(p, s, reserve) == mulDiv(s, reserve, p.supply) <= MaxNote * (MaxSplit \div 4)

\* The first completion second at or after `at` that a new withdrawal of who's
\* may use: an entry whose payout has failed is not folded into.
FreeSecond(at, i, who, second) ==
    \/ /\ second = at
       /\ \A u \in At(at, i, who) : u.tries = 0
    \/ /\ \E u \in At(at, i, who) : u.tries > 0
       /\ second \in at + 1..at + RetrySlots
       /\ At(second, i, who) = {}
       /\ \A x \in at + 1..second - 1 : At(x, i, who) # {}

RemoveLiquidity(a, i, s) ==
    /\ Deliver("withdraw")
    /\ Escrow(i, s)
    /\ \E second \in now + params.unbond..now + params.unbond + RetrySlots :
          /\ FreeSecond(now + params.unbond, i, a, second)
          /\ LET old == At(second, i, a)
                 new == s + SumFunctionOnSet([u \in old |-> u.shares], old)
             IN  /\ pools[i].token \in ShieldedOnly => LegPayable(pools[i], new, pools[i].tok)
                 /\ unbonding' = Put(unbonding, Entry(second, i, a, new))
    /\ UNCHANGED <<rewards, sale, params, block>>

\* Paid for with LP-share notes; both legs will be notes.
RemoveLiquidityShielded(w, i, s) ==
    /\ Deliver("withdraw")
    /\ \A u \in unbonding : u.who # w
    /\ Escrow(i, s)
    /\ LegPayable(pools[i], s, pools[i].erth) /\ LegPayable(pools[i], s, pools[i].tok)
    /\ unbonding' = Put(unbonding, Entry(now + params.unbond, i, w, s))
    /\ UNCHANGED <<rewards, sale, params, block>>

NoLater(u, v) == u.at < v.at \/ (u.at = v.at /\ u.pool <= v.pool)

\* EndBlock begins: SweepMaturedUnbondings collects the oldest due entries.
EndBlock ==
    LET due == {u \in unbonding : u.at <= now}
    IN  /\ phase = "txs" /\ phase' = "sweep"
        /\ \E q \in SUBSET due :
              /\ Cardinality(q) = Least(SweepLimit, Cardinality(due))
              /\ \A u \in q, v \in due \ q : NoLater(u, v)
              /\ sweepq' = q
        /\ minted' = 0
        /\ UNCHANGED <<books, rewards, unbonding, sale, params, left, now, poolq>>

NotesFor(n) == (n + MaxNote - 1) \div MaxNote

\* payoutUnbonding's two legs, and which of them are paid as notes.
ErthLeg(u) == LET p == Settled(pools[u.pool]) IN mulDiv(u.shares, p.erth, p.supply)
TokLeg(u)  == LET p == Settled(pools[u.pool]) IN mulDiv(u.shares, p.tok, p.supply)
ErthNotes(u) == IF u.who \in PrivateIds THEN NotesFor(ErthLeg(u)) ELSE 0
TokNotes(u) ==
    IF u.who \in PrivateIds \/ pools[u.pool].token \in ShieldedOnly
    THEN NotesFor(TokLeg(u)) ELSE 0
Need(u) == ErthNotes(u) + TokNotes(u)

Priced(u) == pools[u.pool].supply > 0 /\ u.shares <= pools[u.pool].supply
Splits(u) == Priced(u) /\ ErthNotes(u) <= MaxSplit /\ TokNotes(u) <= MaxSplit

\* An entry that does not fit waits for the next block, unless it is the first.
OverBudget(u) == Need(u) > NoteBudget - minted /\ minted > 0

PaidOut(u) ==
    [Settled(pools[u.pool]) EXCEPT !.erth = @ - ErthLeg(u), !.tok = @ - TokLeg(u),
                                   !.supply = @ - u.shares, !.own = @ - u.shares]

Oldest(u) == u \in sweepq /\ \A v \in sweepq : NoLater(u, v)

SweepPay(u) ==
    /\ phase = "sweep" /\ Oldest(u) /\ minted < NoteBudget
    /\ Splits(u) /\ ~OverBudget(u)
    /\ SetPool(u.pool, PaidOut(u))
    /\ held' = [held EXCEPT ![Hub] = @ - ErthLeg(u), ![pools[u.pool].token] = @ - TokLeg(u)]
    /\ pending' = pending - Owed(pools[u.pool])
    /\ minted' = minted + Need(u)
    /\ unbonding' = unbonding \ {u} /\ sweepq' = sweepq \ {u}
    /\ UNCHANGED <<rewards, sale, params, left, now, phase, poolq>>

\* The note budget is spent: the rest wait for the next block.
SweepStop ==
    /\ phase = "sweep"
    /\ \E u \in sweepq : Oldest(u) /\ (minted >= NoteBudget \/ (Splits(u) /\ OverBudget(u)))
    /\ sweepq' = {}
    /\ UNCHANGED <<books, rewards, unbonding, sale, params, left, now, phase, poolq, minted>>

\* attempts stops counting where LpUnbondRetryDelay stops growing.
Delay(tries) == RetryBase * 2^Least(tries - 1, MaxShift)
Failed(u) == [u EXCEPT !.tries = Least(@ + 1, MaxShift + 1)]

\* retryUnbonding: the first free second, or the entry stays where it is.
Refiled(u) ==
    LET at   == now + Delay(Failed(u).tries)
        free == {x \in at..at + RetrySlots - 1 : At(x, u.pool, u.who) = {}}
    IN  IF free = {} THEN Failed(u) ELSE [Failed(u) EXCEPT !.at = Min(free)]

SweepRetry(u) ==
    /\ phase = "sweep" /\ Oldest(u) /\ minted < NoteBudget
    /\ ~Splits(u) \/ (~OverBudget(u) /\ ~Fits(PaidOut(u)))
    /\ unbonding' = Put(unbonding \ {u}, Refiled(u))
    /\ sweepq' = sweepq \ {u}
    /\ UNCHANGED <<books, rewards, sale, params, left, now, phase, poolq, minted>>

-----------------------------------------------------------------------------
(* The liquidity auction. *)

StartLiquidityAuction(d) ==
    /\ Deliver("auction") /\ auction.status = "pending"
    /\ d \notin ShieldedOnly /\ ~HasPool(d)
    /\ auction' = [auction EXCEPT !.status = "open", !.denom = d,
                                  !.end = now + AuctionSeconds, !.raised = 0]
    /\ UNCHANGED <<books, rewards, unbonding, bids, claims, params, block>>

BidLiquidityAuction(a, n) ==
    /\ Deliver("auction") /\ auction.status = "open" /\ now < auction.end
    /\ n <= PoolCap /\ auction.raised + n <= PoolCap
    /\ bids' = [bids EXCEPT ![a] = @ + n]
    /\ auction' = [auction EXCEPT !.raised = @ + n]
    /\ Gets(auction.denom, n)
    /\ UNCHANGED <<pools, totalErth, totalVol, pending, rewards, unbonding, claims, params, block>>

claimableFor(a) ==
    Least(mulDiv(Earmark, bids[a], auction.raised), Earmark - auction.claimed)

ClaimLiquidityAuction(a) ==
    /\ Deliver("auction") /\ auction.status = "settled"
    /\ bids[a] > 0 /\ a \notin claims
    /\ claimableFor(a) > 0
    /\ Pays(Hub, claimableFor(a))
    /\ claims' = claims \cup {a}
    /\ auction' = [auction EXCEPT !.claimed = @ + claimableFor(a)]
    /\ UNCHANGED <<pools, totalErth, totalVol, pending, rewards, unbonding, bids, params, block>>

\* Pools that went unrefreshed past their due time, up to the sweep's limit.
StaleDue(ps) == {i \in DOMAIN ps : ps[i].due # 0 /\ ps[i].due <= now}

StaleBatch(ps, q) ==
    /\ q \subseteq StaleDue(ps)
    /\ Cardinality(q) = Least(StaleLimit, Cardinality(StaleDue(ps)))
    /\ \A i \in q, j \in StaleDue(ps) \ q :
          ps[i].due < ps[j].due \/ (ps[i].due = ps[j].due /\ i < j)

AuctionDue == auction.status = "open" /\ now >= auction.end

\* SettleDueAuction, which also ends the withdrawal sweep's phase.
SettleDueAuction ==
    /\ phase = "sweep" /\ sweepq = {} /\ phase' = "stale"
    /\ \/ /\ AuctionDue /\ auction.raised > 0
          /\ Earmark <= PoolCap
          /\ \E s \in 1..PoolCap :
                /\ initialShares(s, Earmark, auction.raised)
                /\ pools' = Append(pools,
                              NewPool(auction.denom, Earmark, auction.raised, s, s,
                                [total |-> s, left |-> s, start |-> now, token |-> FALSE]))
          /\ totalErth' = totalErth + Earmark
          /\ auction' = [auction EXCEPT !.status = "settled"]
       \/ /\ AuctionDue /\ auction.raised = 0
          /\ auction' = [auction EXCEPT !.status = "pending", !.denom = Hub, !.end = 0]
          /\ UNCHANGED <<pools, totalErth>>
       \/ /\ ~AuctionDue \/ (auction.raised > 0 /\ Earmark > PoolCap)
          /\ UNCHANGED <<pools, totalErth, auction>>
    /\ \E q \in SUBSET Ids : StaleBatch(pools, q) /\ poolq' = q
    /\ UNCHANGED <<held, totalVol, pending, rewards, unbonding, bids, claims, params, left, now,
                   sweepq, minted>>

-----------------------------------------------------------------------------
(* LP rewards and the volume weights they are shared by. *)

\* Fault variant: what the index commits rounded down.
ResolvedDown(delta) == mulDiv(delta, totalVol, LpPrec)

\* What crediting `delta` to the index commits, rounded up (the caller sends it).
Resolved(delta) == mulDivUp(delta, totalVol, LpPrec)

DistributeLPRewards(n) ==
    LET delta == mulDiv(n, LpPrec, totalVol)
    IN  /\ Deliver("reward") /\ totalVol > 0 /\ delta > 0
        /\ ErthExists(Resolved(delta))
        /\ lpIndex' = lpIndex + delta
        /\ pending' = pending + Resolved(delta)
        /\ Gets(Hub, Resolved(delta))
        /\ UNCHANGED <<pools, totalErth, totalVol, volIndex, volDay, unbonding, sale, params, block>>

\* SweepStalePools, one pool: out of the queue, settled, its weight dropped.
SweepStale ==
    /\ phase = "stale" /\ poolq # {}
    /\ LET i == Min(poolq)
           p == [Settled(pools[i]) EXCEPT !.vol = 0, !.due = 0]
       IN  /\ poolq' = poolq \ {i}
           /\ \/ SetPool(i, p) /\ pending' = pending - Owed(pools[i])
              \/ /\ ~Fits(p)
                 /\ pools' = [pools EXCEPT ![i].due = 0]
                 /\ UNCHANGED <<totalErth, totalVol, pending>>
    /\ UNCHANGED <<held, rewards, unbonding, sale, params, left, now, phase, sweepq, minted>>

\* RebaseVolumeIndex scales down every pool in the stale queue, and the index.
Rebased(p) ==
    LET v == Settled(p).vol \div RebaseFactor
    IN  IF p.due = 0 THEN p
        ELSE [Settled(p) EXCEPT !.vol = v, !.due = IF v > 0 THEN @ ELSE 0]

RebasedPools == [i \in Ids |-> Rebased(pools[i])]
RebaseDue == volIndex >= VolPrec * RebaseAt
RebaseFits == \A i \in Ids : pools[i].due # 0 => Fits(Rebased(pools[i]))

\* Fault variant: a schedule that has not started is passed over.
PolPoolsStarted == {i \in Ids : pools[i].pol.total # 0 /\ pools[i].pol.start # 0}
PolPools == {i \in Ids : pools[i].pol.total # 0}

MaybeRebaseVolumeIndex ==
    /\ phase = "stale" /\ poolq = {} /\ phase' = "pol"
    /\ \/ /\ RebaseDue /\ RebaseFits
          /\ pools' = RebasedPools
          /\ totalErth' = totalErth +
                SumFunctionOnSet([i \in Ids |-> RebasedPools[i].erth - pools[i].erth], Ids)
          /\ totalVol' = totalVol +
                SumFunctionOnSet([i \in Ids |-> RebasedPools[i].vol - pools[i].vol], Ids)
          /\ pending' = pending -
                SumFunctionOnSet([i \in Ids |-> RebasedPools[i].erth - pools[i].erth], Ids)
          /\ volIndex' = volIndex \div RebaseFactor
       \/ /\ ~(RebaseDue /\ RebaseFits)
          /\ UNCHANGED <<pools, totalErth, totalVol, pending, volIndex>>
    /\ poolq' = PolPools
    /\ UNCHANGED <<held, lpIndex, volDay, unbonding, sale, params, left, now, sweepq, minted>>

-----------------------------------------------------------------------------
(* pol_burn.go: protocol-owned liquidity retires linearly over PolSeconds. *)

retirableAt(b) ==
    IF now <= b.start THEN 0
    ELSE IF now - b.start >= PolSeconds THEN b.total
    ELSE mulDiv(b.total, now - b.start, PolSeconds)

Slice(b) == Least(retirableAt(b) - (b.total - b.left), b.left)

\* Fault variant: the schedule is removed one share early.
RetiredEarly(p, s) ==
    LET e == mulDiv(s, p.erth, p.supply)
        t == IF p.pol.token THEN mulDiv(s, p.tok, p.supply) ELSE 0
    IN  [p EXCEPT !.erth = @ - e, !.tok = @ - t, !.supply = @ - s, !.own = @ - s,
                  !.pol = IF p.pol.left <= s + 1 THEN NoPol ELSE [@ EXCEPT !.left = @ - s]]

Retired(p, s) ==
    LET e == mulDiv(s, p.erth, p.supply)
        t == IF p.pol.token THEN mulDiv(s, p.tok, p.supply) ELSE 0
    IN  [p EXCEPT !.erth = @ - e, !.tok = @ - t, !.supply = @ - s, !.own = @ - s,
                  !.pol = IF p.pol.left = s THEN NoPol ELSE [@ EXCEPT !.left = @ - s]]

\* A schedule's first step anchors its clock; later ones burn what is due.
BurnPol ==
    /\ phase = "pol" /\ poolq # {}
    /\ LET i == Min(poolq)
           b == pools[i].pol
           p == Settled(pools[i])
           s == Slice(b)
           q == Retired(p, s)
       IN  /\ poolq' = poolq \ {i}
           /\ \/ /\ b.start = 0
                 /\ pools' = [pools EXCEPT ![i].pol.start = now]
                 /\ UNCHANGED <<held, totalErth, totalVol, pending>>
              \/ /\ b.start # 0 /\ s > 0 /\ p.supply > 0 /\ s <= p.supply
                 /\ SetPool(i, q)
                 /\ pending' = pending - Owed(pools[i])
                 /\ held' = [held EXCEPT ![Hub] = @ - (p.erth - q.erth),
                                         ![p.token] = @ - (p.tok - q.tok)]
              \/ /\ b.start # 0
                 /\ s <= 0 \/ p.supply = 0 \/ s > p.supply \/ ~Fits(q)
                 /\ UNCHANGED books
    /\ UNCHANGED <<rewards, unbonding, sale, params, left, now, phase, sweepq, minted>>

-----------------------------------------------------------------------------
(* The end of a block, and a state export imported again. *)

auctionErthOwed ==
    CASE auction.status = "none"    -> 0
      [] auction.status = "settled" -> Earmark - auction.claimed
      [] OTHER                      -> 2 * Earmark

checkErthSolvency == held[Hub] = totalErth + auctionErthOwed + pending

BidsHeld(d) == IF auction.status = "open" /\ auction.denom = d THEN auction.raised ELSE 0

checkPoolTokenSolvency(i) ==
    BidsHeld(pools[i].token) > 0 \/ held[pools[i].token] = pools[i].tok

checkAuctionBidSolvency ==
    auction.status = "open" /\ auction.raised > 0 => held[auction.denom] = auction.raised

\* A breach is an EndBlock error, which halts the chain.
AssertHotInvariants ==
    /\ checkErthSolvency
    /\ \A i \in Ids : checkPoolTokenSolvency(i)
    /\ checkAuctionBidSolvency

NextBlock(d) ==
    /\ phase = "pol" /\ poolq = {} /\ phase' = "txs"
    /\ AssertHotInvariants
    /\ now' = Least(now + d, MaxTime)
    /\ minted' = 0
    /\ UNCHANGED <<books, rewards, unbonding, sale, params, left, sweepq, poolq>>

\* ExportGenesis writes every pool as if settled; InitGenesis starts the reward
\* index over, recomputes the totals and gives an unqueued weight a fresh timer.
Exported(p) ==
    [Settled(p) EXCEPT !.last = 0,
        !.due = IF p.vol = 0 THEN 0 ELSE IF @ # 0 THEN @ ELSE now + StaleSeconds]

OwedSum == SumFunctionOnSet([i \in Ids |-> Owed(pools[i])], Ids)

ExportImport ==
    LET new == [i \in Ids |-> Exported(pools[i])]
    IN  /\ phase = "txs"
        /\ OwedSum <= pending
        /\ \A i \in Ids : Fits(new[i])
        /\ pools' = new
        /\ totalErth' = SumFunctionOnSet([i \in Ids |-> new[i].erth], Ids)
        /\ totalVol' = SumFunctionOnSet([i \in Ids |-> new[i].vol], Ids)
        /\ pending' = pending - OwedSum
        /\ lpIndex' = 0
        /\ UNCHANGED <<held, volIndex, volDay, unbonding, sale, params, left, block>>

-----------------------------------------------------------------------------
Swap ==
    \E i \in Ids, a \in SwapAmounts :
        SwapHubToToken(i, a) \/ SwapTokenToHub(i, a) \/ (\E j \in Ids : SwapTokenToToken(i, j, a))

Liquidity ==
    \/ \E i \in Ids, e, t \in DepositAmounts : AddLiquidity(i, e, t) \/ AddLiquidityToEmpty(i, e, t)
    \/ \E d \in Tokens, e, t \in DepositAmounts : CreatePool(d, e, t)
    \/ \E i \in Ids, s \in ShareAmounts :
          \/ \E a \in Accounts : RemoveLiquidity(a, i, s)
          \/ \E w \in PrivateIds : RemoveLiquidityShielded(w, i, s)

Auctioning ==
    \/ \E d \in Tokens : StartLiquidityAuction(d)
    \/ \E a \in Accounts, n \in BidAmounts : BidLiquidityAuction(a, n)
    \/ \E a \in Accounts : ClaimLiquidityAuction(a)

EndBlocker ==
    \/ EndBlock
    \/ \E u \in sweepq : SweepPay(u) \/ SweepRetry(u)
    \/ SweepStop \/ SettleDueAuction
    \/ SweepStale \/ MaybeRebaseVolumeIndex
    \/ BurnPol
    \/ \E d \in Steps : NextBlock(d)

Next ==
    \/ Swap \/ Liquidity \/ Auctioning \/ EndBlocker
    \/ \E n \in RewardAmounts : DistributeLPRewards(n)
    \/ \E p \in ParamSets : UpdateParams(p)
    \/ ExportImport

Spec == Init /\ [][Next]_vars

FairSpec == Spec /\ WF_vars(EndBlocker)

-----------------------------------------------------------------------------
Reserves(d) == SumFunctionOnSet([i \in Ids |-> IF pools[i].token = d THEN pools[i].tok ELSE 0], Ids)
Escrowed(i) ==
    LET us == {u \in unbonding : u.pool = i}
    IN  SumFunctionOnSet([u \in us |-> u.shares], us)

\* Every variable keeps its type; a pool's amounts, and what the dex owes as
\* rewards, never go below zero.
TypeOK ==
    /\ pools \in Seq(Range(pools)) /\ \A i \in Ids : IsPool(pools[i])
    /\ held \in [Denoms -> Nat]
    /\ {totalErth, totalVol, pending, lpIndex, volIndex, volDay, now, minted} \subseteq Nat
    /\ left \in [Kinds -> Nat]
    /\ \A u \in unbonding : /\ {u.at, u.shares, u.tries} \subseteq Nat
                            /\ u.pool \in Ids /\ u.who \in Accounts \cup PrivateIds
    /\ auction.status \in {"none", "pending", "open", "settled"}
    /\ auction.denom \in Denoms /\ {auction.end, auction.raised, auction.claimed} \subseteq Nat
    /\ bids \in [Accounts -> Nat] /\ claims \subseteq Accounts
    /\ params \in ParamSets /\ phase \in {"txs", "sweep", "stale", "pol"}
    /\ sweepq \subseteq unbonding /\ poolq \subseteq Ids

\* The bids of a settled auction can all be claimed in full, in any order: the
\* cap in claimableFor never bites, as its comment says.
AuctionCovered ==
    auction.status = "settled" =>
        auction.claimed + SumFunctionOnSet(
            [a \in Accounts |-> IF a \in claims THEN 0 ELSE mulDiv(Earmark, bids[a], auction.raised)],
            Accounts) <= Earmark

\* The module account holds exactly what the books say it owes, in every denom
\* and after every step, so the check the EndBlocker halts the chain on
\* (AssertHotInvariants) never fails; no coin is stranded on it, and no bidder
\* of a settled auction goes short.
Solvent ==
    /\ checkErthSolvency /\ AuctionCovered
    /\ \A d \in Tokens : held[d] = Reserves(d) + BidsHeld(d)

\* The running totals the code keeps so that it need not walk the pools
\* (TotalPoolErth, LpTotalVolume) are the sums over the pools: a clamp at zero
\* or a write past SetPool would make them drift.
TotalsAgree ==
    /\ totalErth = SumFunctionOnSet([i \in Ids |-> pools[i].erth], Ids)
    /\ totalVol = SumFunctionOnSet([i \in Ids |-> pools[i].vol], Ids)

\* Whatever the order in which pools settle, PendingLpRewards covers all that
\* the reward index owes them, so settling never takes it below zero and an
\* export never fails.
RewardsCovered ==
    /\ \A i \in Ids : pools[i].last <= lpIndex
    /\ SumFunctionOnSet([i \in Ids |-> pools[i].vol * (lpIndex - pools[i].last)], Ids)
          <= pending * LpPrec

\* The LP shares on the module account are exactly the withdrawals waiting and
\* the protocol's schedules: no withdrawal is lost, overwritten or paid twice,
\* and each can still be burned out of the supply.
SharesBacked ==
    \A i \in Ids : /\ pools[i].own = Escrowed(i) + pools[i].pol.left
                   /\ pools[i].own <= pools[i].supply

\* What RebaseVolumeIndex's comment says of the stale queue: it holds every pool
\* with volume and nothing else. A pool with a weight and no timer draws rewards
\* for ever, if it does not trade again, and is passed over by every rebase.
StaleQueueExact == \A i \in Ids : (pools[i].vol > 0) <=> (pools[i].due # 0)

\* Two pools never share a spoke token, whatever the auction and pool creation
\* do in between: PoolByToken would lose the first.
OnePoolPerToken == \A i, j \in Ids : pools[i].token = pools[j].token => i = j

\* The state the code never rechecks stays what every operation assumes: typed,
\* its totals the sums SetPool keeps them to, no pool without weight in the stale
\* queue, one pool to a token, and every escrowed share there to be burned.
Consistent ==
    /\ TypeOK /\ TotalsAgree /\ OnePoolPerToken /\ SharesBacked
    /\ \A i \in Ids : pools[i].due # 0 => pools[i].vol > 0

\* No step makes a share worth less: the reserves' geometric mean per share
\* never falls, whatever the roundings of swaps, deposits, payouts, retirements
\* and rewards, except that an emptied pool starts over.
ShareValueKept ==
    [][\A i \in Ids :
        LET p == pools[i]
            q == pools'[i]
        IN  p.supply > 0 /\ q.supply > 0 =>
                q.erth * q.tok * p.supply * p.supply >= p.erth * p.tok * q.supply * q.supply]_vars

\* Every matured withdrawal to an account, of a token that is not paid as notes,
\* leaves the queue, whatever the payouts ahead of it do: again and again no such
\* withdrawal is waiting.
WithdrawalsPaid ==
    []<>(\A u \in unbonding :
            u.who \in Accounts /\ pools[u.pool].token \notin ShieldedOnly => u.at > now)

\* An open auction closes once its window is over, with or without bids: pool
\* creation stays locked until one has settled.
AuctionCloses ==
    (auction.status = "open" /\ auction.end <= MaxTime) ~> (auction.status # "open")

\* Every protocol-owned position is fully retired: a genesis schedule is
\* anchored at the first block, and the last slice leaves no share behind.
PolRetired ==
    []<>(\A i \in Ids : pools[i].pol.start + PolSeconds <= now => pools[i].pol = NoPol)

\* What the EndBlocker does by the clock gets done: matured withdrawals are
\* paid, an open auction closes and every protocol-owned position retires.
TimersEnd == WithdrawalsPaid /\ AuctionCloses /\ PolRetired
====
