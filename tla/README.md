# Earth Network chain: TLA+ specifications and proofs

This directory specifies the state machines of the Earth Network chain (a Cosmos
SDK v0.53 application), checks them with TLC on small instances and proves the
central ones with TLAPS. Every definition is translated from the Go source;
`PROJECT.json` maps each to the lines it stands for.

## 1. The system

The chain issues two tokens: ERTH, the staking coin and the hub of the exchange,
and ANML, one per registered human per day, which exists only as notes of the
shielded pool. ERTH is emitted in four streams of equal rate: staking rewards,
the ANML buyback, the Caretaker Fund (directed by humans) and the Groundworks
Fund (directed by stake).

### Inventory

| Component | State | Operations | What is hard about it | What must hold |
| --- | --- | --- | --- | --- |
| **x/shielded, anchors** | recorded roots, their index by time, the latest root, the window | append a leaf, record and prune at block end, admit by anchor, change the window, export/import | a root's window restarts when it is superseded; the mempool looks ahead; pruning is capped | the whole tree is spendable after every block; windows are honoured; pruned in the end |
| **x/shielded, pool** | notes, nullifiers, bank balance, turnstile, registered assets | shield, mint, private send, unshield, release to a module, bank sends | inputs are spent by the ante before a handler that may fail; coins can reach the account by other ways | the turnstile equals the balance; every note is backed, spendable once; what the ante accepts can be paid |
| **x/dex** | pools, totals kept beside them, reward and volume indexes, withdrawal queue, auction, retirement schedules | swaps, deposits, withdrawals (also private), rewards, auction, EndBlocker sweeps | two layers of truncated division; retries with back-off; a note budget; a settlement that fails half way | books exact to the coin; no share loses value; each matured withdrawal is paid |
| **x/allocation** | streams, options, voters, leases, prune schedule, accrued balances | votes, private validator votes, claims, draws, resets, removal, pruning, staking hooks | lazy settlement; stale voters after a reset; leases that end between blocks; slashes without a hook after them | weights equal what voters put; owed is covered; a lease earns nothing past its end |
| **x/personhood** | identity tree, roots, registrations, claims, caretaker splits, handles, daily caps, sweep queues | register, switch, claim, set/move split, bind/move handle, revoke a signer, sweeps, export/import | a replaced identity keeps proving until its roots lapse; parameters change under running leases; sweeps share a budget | one passport: one registration, one claim a day, one split, one handle |
| **x/assembly** | ballots, votes, rounds, subjects, removal ballots, sweep cursors | vote, propose and vote on a removal, end of block before x/gov, hooks, export/import | order against x/gov; a demotion that falls in the past; proposals cancelled without a hook; a switch of identity mid-round | nothing passes without two thirds of the people; what is over is cleared |
| **x/shieldedstaking, books** | per validator: derth supply, queue, rewards, unbonding records, vintages | delegate, undelegate, check in, epoch sweep, payouts, the slash hook | one delegation backs everybody's notes; bounded sweeps and payouts; a vintage retires while held | the books equal the bank and x/staking; the rate falls by a slash only, and by what a share conversion truncates; each undelegation is paid |
| **x/shieldedstaking, stake votes** | snapshots, supply checkpoints, votes, tallies | open and close a snapshot, vote, tally, sweep | a snapshot copies nothing: a supply is recovered later from what changed since; notes are merged while they vote | each derth votes once, at its worth; no vote is lost; snapshots are forgotten |
| **x/shieldedstaking, moves** | redelegation entries, moves, labels of notes, the debt tree | redelegate, restake, undelegate, the hooks before and after a slash | a slash of the source burns stake at the destination, where it backs others; x/staking does not say which entries it reached | who moved pays, the destination's book only for moves a merge made late; a note is worth what it may claim |
| **x/shieldedstaking, Groundworks** | votes of notes, totals, pending exposures, filed voters | cast, cancel, mature, file, reset, strike | votes follow notes that merge, move and are slashed | a validator's filed weight is its votes' and is backed by stake |
| x/pki | document signers, revocations, countries | add, revoke, look up | a revocation that reaches personhood over several blocks | a revoked signer registers nobody |
| x/earth | emission, fee split, burn log | mint, split, burn | rounding of the split | what is minted is what the rate says |
| app | block order, ante chain, proposal selection, upgrade handlers | | a proposal within the per-block proof budget that delivery counts again | every proposed block is accepted |
| internal/safeexec | none | run on a branch, drop it on error or panic | one item failing must not undo or stop the others | used in every sweep |
| zk, third_party | none | hashing, trees, proof verification | cryptography | out of reach of a model checker |
| cmd, tools, scripts, proto, openapi, networks, csca | none | I/O, generated code, data | | |

The modules meet in three ways. A **private message** is checked and paid by the
shielded ante and then runs in its module; a **keeper call** changes another
module's state in the same step (personhood moves a caretaker vote in
allocation, assembly strikes a groundworks option); and the **block order** of
`app/app_config.go` makes assembly decide before x/gov executes.

## 2. Modules

| Module | Models | State and actions against the code |
| --- | --- | --- |
| `Anchors` | `x/shielded/keeper/roots.go` | A root is named by the number of leaves under it. `EndBlock` is recordRoot then pruneRoots; `CheckTx` is checkAnchor with its margin; `Restart` is export and import. |
| `ShieldedPool` | notes, turnstile, private messages, send restriction | A note is its position in the tree. `PrivateMsg` is the whole transaction: ante checks, spend, fee, then one of the handlers or `HandlerFails`, which keeps what the ante did. Instantiates `Anchors` with its tree and implements it. |
| `Dex` | `x/dex/keeper` | Pools as records in a sequence, the module account `held`. The EndBlocker is a chain of steps (`sweep`, `stale`, `pol`) that no message interleaves, one step per entry it handles, because each entry runs on its own branch. |
| `Allocation` | `x/allocation/keeper` | The keeper's store is one record `K` that operators take and return, in the order the methods call each other. BeginBlocker drains leases one second at a step; one it finds left behind fails it, and the chain is `halted`. `missed` (whose resync failed) is read by properties only. |
| `Personhood` | `x/personhood/keeper` | The store is the record `st`. `owner` (whose identity an idc is) is known to nobody on the chain; properties use it, guards never do. `ExportImport` happens if `InitAccepts`, which is what Validate and InitGenesis ask; `RestartKeeps` says that they always accept. |
| `Assembly` | `x/assembly/keeper` over `Personhood`, with the part of x/gov it drives | `EndBlock` is assembly, gov and personhood in block order. `said` is what each passport last said; only properties read it. |
| `ShieldedStaking` | `x/shieldedstaking/keeper`: rate, messages, payouts, epoch, vintages, slash hook | Stores, x/staking's delegations and the module's balance are the record `k`. `EndBlock` is sweepPayouts, matureRecords, the epoch sweep, then x/staking's payments; `Slash` is the hook, then x/staking's slash. A validator's tokens and shares are x/staking's, with its conversions between them: truncated to `DecPrec` one way, rounded and truncated the other. How much derth a vintage holds is modelled, not which notes hold it. |
| `EagerSnapshots` | what `votes.go` promises of a snapshot | Abstract: a snapshot copies every validator's supply when it is taken. |
| `SupplyCheckpoints` | `votes.go`: checkpointSupply, snapshotSupply, pruning | A book notes its supply the first time it changes after a snapshot. Implements `EagerSnapshots`, with the figures read back as the refinement mapping. |
| `StakeVotes` | `votes.go`, `stake_tree.go`: snapshots, votes, tally, sweep, with x/gov's proposals | Extends `SupplyCheckpoints` and conjoins its steps. A note is a position in the stake tree, a vote names positions. `EndBlock` ends the voting that is due, records both roots, and sweeps books and snapshots. |
| `Moves` | `redelegate.go`, `moves.go`, `debt_tree.go`, and the part of x/staking and x/slashing that they replay | Stores and x/staking's entries are the record `k`. A slash is the hook before it (`prepareRedelegationSlash`), x/staking's own walk over its entries, and the hook after it (`settleSlash`). |
| `Groundworks` | `groundworks.go` over `Moves` | `g` holds votes, totals and filed voters. Every stake message of `Moves` is composed with the votes it cancels and casts. |
| `AnchorsProofs`, `ShieldedPoolProofs`, `SupplyCheckpointsProofs`, `MovesProofs`, `SumTheorems` | | Theorems; see section 5. |
| `MC...` | | Values of the constants for TLC. |

Definitions marked `Fault variant` are a plausible mistake in the definition
after them. They are used by no specification. Replacing the definition by its
variant must break the property `PROJECT.json` names, which shows that the
property depends on that line of the code.

What is external is modelled by what this code uses of it: proofs (a proof shows
a leaf under a root), x/bank, x/gov, x/staking and x/pki.

## 3. Runs

| Run | Distinct states | Checks |
| --- | --- | --- |
| `anchors` | 7,882 | `EveryNoteSpendable`, `GenesisAccepts`, `WindowHonoured`, `MempoolAnchorsLive`, `ExpiredEventuallyPruned` |
| `pool` | 85,644 | `TurnstileExact`, `Backed`, `AcceptedPaid`, and that the pool implements `Anchors` (`AnchorsSpec`) |
| `dex` | 606,642 | `Consistent`, `Solvent`, `RewardsCovered`, `ShareValueKept`, `TimersEnd` |
| `allocation` | 327,015 | `AssertInvariants`, `SplitsFresh`, `Solvent`, `EmissionFair`, `LeaseHonoured`, `LeasesEnd` |
| `personhood` | 799,233 | `RegistryExact`, `OneClaim`, `OneRight`, `Retired` |
| `assembly` | 187,413 | `BallotsExact`, `Ratified`, `BallotsClear` |
| `staking` | 813,404 | `BooksExact`, `RateKept`, `PayoutsMade` |
| `stake_votes` | 258,288 | `VotesCounted`, `VotesKept`, `SnapshotsForgotten`, and that checkpoints implement `EagerSnapshots` (`SnapshotsExact`) |
| `stake_moves` | 1,038,668 | `RedelegationsExact`, `NotesWorth`, `ReplayExact`, `RateHeld`, `GroundworksExact`, `BystandersSpared` |
| `dex_stale_queue` | violation | `StaleQueueExact`: finding 1 |
| `personhood_claims` | violation | `SwitchClaimsOnce`: finding 2 |
| `stake_figures` | violation | `FiguresKept`: finding 3 |

What a run shows is that no interleaving of its messages, block steps and faults
breaks its properties; each property's comment names the code it is about, and
`PROJECT.json` the hazards it covers.

### Bounds, and why they are enough

Most runs start from a set of **scenarios**: a starting store, and how many
messages of which kinds may follow, in every order. Kinds that share state meet in
some scenario; all of them at once would be out of reach and add orders of
messages that do not touch each other.

- **anchors, pool.** Three to five leaves, windows of one and two seconds, a prune
  limit of one: a root can be superseded, lapse, be skipped by the limit and be
  exported in every order. The pool has one coin that may leave and one that may
  not, transactions of up to two actions, an account and a module that both send
  and are paid, and a clock of three seconds over a window of one, so that roots
  lapse under unspent notes.
- **dex.** Precisions of 2 and 3 make every division truncate, where the code's
  10^18 would hide it; a reserve cap of 30 lets a settlement be refused; a rebase
  of the volume index every four steps, a sweep limit of two and a note budget of
  two let each meet the others. The ERTH there is exceeds the cap, which is not so
  of the code's 2^120: it makes refusals at the cap happen. Two accounts bid and
  claim. Scenarios: two ordinary pools near the cap under
  trades and rewards; a pool with protocol-owned shares beside a small one, under
  deposits, withdrawals and the auction.
- **allocation.** Stake votes, private and human votes, and both on the same
  options; percentages of 33 and 67 so that splits truncate, leases of one and two
  seconds over a clock of two ticks a second, one reset, one failure of a
  retirement, a prune or a resync. Deadlock is not checked: a chain whose sweep
  fails has halted, and `LeasesEnd` tells.
- **personhood, assembly.** One to three passports, a day and its margin of two
  seconds, so that every day boundary and window edge falls within the run. A
  scenario names the kinds of message, who may act and the parameters: one passport
  that switches identity, also twice, while governance changes the leases, or two
  that register under tight caps while a retirement, or one whole sweep, fails. The
  purge of a revoked signer fills its share of a sweep in one scenario; three
  passports, at which it would also leave work over, are out of reach. The chamber
  has one proposal with three voters, or two proposals with one, so that the walk
  over orphaned ballots, one a block, wraps.
- **staking.** Two books and a sweep of one a block; one unbonding entry, so that
  undelegations wait for one another; an epoch of two seconds, an unbonding of
  three, months of three of which two are live: a vintage retires, is held and is
  withdrawn within the run. Three messages and one more event (a slash by half or
  to nothing, a reward, a failed payout or book) in every order; `dust` starts
  from the remainder a redelegation can leave. The operator's own stake of two and
  a share precision of two make the conversions truncate after a slash: `RateKept`
  allows a unit of backing for each conversion of a step (`msg_server.go:108-110`
  says "up to the delegation's share truncation") and nothing where there is none.
  Because every book retires within the
  run, a book starved for ever by the sweep's cursor would not show in it.
- **stake_votes.** One validator with two notes, two proposals, voting over two
  blocks (one if expedited), a month of two blocks, a checkpoint pruned and two
  rows swept a block. A supply can change before, in and after the block of a
  snapshot, twice in a block, with two snapshots in it, and the book may be removed.
- **stake_moves.** Two books and five scenarios, with stakes in the tens, so that
  the token or two `RateHeld` allows for rounding is small against what a slash
  burns: a second and third move into an
  entry that merges with an older one while the unbonding time changes; two
  slashes, also in one block, with moves both ways, a reward and an unbonding
  under way; and three with Groundworks votes, one in which labels clear under a
  shortened unbonding time, one with an undelegation and one over a merged entry.
  `RateHeld` puts back the part of a burn that falls on late moves (older than the
  labels' window, still slashable through a merge): they owe no debt, and the
  destination's holders bear it. Two paths are not met: joining the newest entry
  when no pair may merge (`recordEntry`'s fallback, which takes more moves than the
  bound), and an entry's completion deciding `maturesAt`: by then the move is late
  and the later completion delays the count but changes nothing it counts. Slashes are by a half and
  a quarter, for infractions before, at and after a move. Every behaviour ends at
  its scenario's horizon, which is after the last window closes, and the run allows
  for that.
- The clock of a run with a liveness property stops at `MaxTime` while blocks go
  on, so the property is judged on behaviours in which what is due by then is due
  for good. In `stake_votes` the last block is followed by nothing.

### Fairness

Consensus keeps making blocks, and a block runs to its end: this is CometBFT's
liveness, which the code's timers rest on. It is stated as weak fairness of the
block's steps (`Anchors`, `Dex`) or as `[]<><<Block>>_vars` (`Allocation`,
`Personhood`, `Assembly`, `ShieldedStaking`), never as fairness of a user's message.
In `Allocation` it is that, or that the chain halts for good. A step that may
fail fails a bounded number of times. In `StakeVotes` the fairness is that the last
block modelled is reached.

## 4. Findings

1. **The stale queue and a failed expiry** (`dex_stale_queue`). A pool whose
   expiry fails leaves the queue with its weight. `RebaseVolumeIndex`'s comment
   says the queue holds every pool with volume. `lp_rewards.go:502` says the pool
   re-enters on its next trade. Both cannot hold; until that trade a rebase passes
   the pool over. The run gets there by a settlement over the reserve cap, which in
   the deployed code is 2^120 ("no real asset is near it", `keys.go:280`): the
   divergence is in what the two comments promise.
2. **Two claims in a day** (`personhood_claims`). With the root window at its
   maximum of a day, and two blocks in one second at the start of a day, an
   identity registered in the first and its successor in the second both meet the
   inclusive activation bound at the start of the next day, and both claim. The
   default window is an hour, at which `OneClaim` holds.
3. **A figure lost with its book** (`stake_figures`). When a book's last derth
   leaves in the block of a snapshot and the epoch's end removes the book before a
   checkpoint was written, the snapshot reads a supply of zero
   (`epoch.go:644-656`), where `votes.go:89` says it sees the supply at the start
   of the block. Tallies are unaffected until someone delegates there again:
   nothing is bonded there.
   `EagerSnapshots` states the exception, so that `SnapshotsExact` holds.

Noted without a run: `proposalInputs` has the same inclusive edge at a window of a
day, which the `assembly` run stays below; and the round record of a cancelled
proposal that was demoted and never voted on again is not removed
(`closeOrphanedBallots` skips a proposal without a ballot), which changes nothing.
`lease.go:37-39` says that no module ordered before x/allocation settles
Groundworks in BeginBlock; x/shieldedstaking's `matureVotes` does (`groundworks.go:965`,
`app_config.go:217`). `Allocation` lets it, and `LeaseHonoured` holds through the
hold that `heldTarget` keeps for that case. `epochRate` (`groundworks.go:659`) reads a rate of zero as one: a book slashed to
nothing keeps its vote weight until the next epoch ends; `VotesWorth` excepts it.

## 5. Proofs

TLAPS proves the following for every value of the constants the modules' `ASSUME`s
allow: any capacity, windows, denoms, accounts, limits.

- **`AnchorsProofs`.** The inductive invariant is `IInv == TypeOK /\ RecordsOK /\
  IndexAgrees /\ MempoolOK`. `EveryNoteSpendable` is not inductive: that the
  latest root never lapses needs that it is recorded, not superseded and the
  largest (`RecordsOK`), and that pruning deletes the records it means to needs
  that the index agrees with them (`IndexAgrees`). From it: `RecordsCorrect`,
  `IndexCorrect`, `SpendableCorrect`, `GenesisCorrect`, `WindowCorrect`,
  `MempoolCorrect`.
- **`ShieldedPoolProofs`.** `IInv == TypeOK /\ RootsInTree /\ TurnstileExact`, one
  lemma per way a coin moves (deposit, execution, release). From it:
  `PoolTypeCorrect`, `TurnstileCorrect`, and `PoolRefinesAnchors`: initial states
  map to initial states and each step to a step of `Anchors` or a stutter.
  `BackedCorrect` strengthens it to `BInv == IInv /\ LatestRecorded /\ Registered
  /\ Covered`: that each unspent note is spendable after a commit needs the latest
  root recorded and its denom registered within the block too. The sum of the
  unspent notes follows each append and each spend by `SumTheorems`, with no
  induction over the notes. `PaidCorrect` uses `Covered`: distinct unspent inputs
  are part of that sum, so what they release is in the pool.
- **`SupplyCheckpointsProofs`.** `SnapshotsExact`: lazy checkpoints implement
  `EagerSnapshots`, for any validators, proposals, supplies and pruning limit. The
  invariant (`CheckpointsInvariant`) orders sequence numbers and heights and says
  what each book still owes each open snapshot; without it a step that writes a
  checkpoint could overwrite one a snapshot still reads, and pruning could take one.
  The step proof shows for each action that every open snapshot's figure is what it
  was, or, for a book removed, the exception above (`CheckpointsExact`).
- **`MovesProofs`.** The roundings, for every amount, where TLC meets a few small
  ones: derth bought is worth at most what it cost (`CreditKeepsRate`,
  `ThereAndBack`), leaving lowers nobody's rate (`ExitKeepsRate`, and
  `UndelegateKeepsRate` for the whole message on any well-typed store), the derth a
  slash takes off a destination's supply restores its rate to within one derth
  (`DebtHoldsRate`), and a move takes no more than its part of the queue, which no
  slash reaches (`SplitIsFair`). All rest on what a truncated quotient is
  (`Quotient`).
- **`SumTheorems`.** What a sum over a finite set is when an element joins, leaves
  or changes, proved from the definition of the fold: the base of `BackedCorrect`.

Assumptions used: `AnchorsAssumption`, `PoolAssumption` and
`CheckpointsAssumption`, which TLC evaluates in the runs. Nothing else is assumed.

Model-checked only: liveness (`ExpiredEventuallyPruned`, `TimersEnd`, `LeasesEnd`,
`Retired`, `BallotsClear`, `PayoutsMade`, `SnapshotsForgotten`), as fairness is out
of the prover's reach; and, so far, everything about `Dex`, `Allocation`, `Personhood`, `Assembly`,
`ShieldedStaking` and `Groundworks`, and of `StakeVotes` and `Moves` all but the
above.

## 6. Not modelled

- **x/shieldedstaking**: the nodes of the stake, nullifier and debt trees (a tree is
  the set or sequence it holds), escrows, self-bond compounding, genesis and
  queries. In `Moves` one vintage is live and no epoch ends, an entry made by a
  zero-height export does not occur, and decimals are exact fractions
  (`ShieldedStaking` has them truncated); of a slash
  that burns less than a share's worth of an entry `ReplayExact` says nothing. In
  `Groundworks` a failed maturing, which the code retries a day later, and options
  pruned for idleness do not occur.
- **x/pki, x/earth**: see the plan.
- **Time-weighted price and buyback** (`x/dex/keeper/twap.go`, personhood's
  buyback): no other state depends on them.
- **app**: the order of blockers is used; the ante chain beyond the shielded
  decorator, proposal selection, result caps and upgrade handlers are not modelled.
- **zk, third_party, cmd, tools, proto**: cryptography, I/O and generated code.
- **Gas, events and queries**, which change no state a property reads.

## 7. Plan

1. `Moves` under epoch ends: compose it with `ShieldedStaking`, so that retained
   exposures, vintages and the sweep meet; then the module's genesis.
2. `Pki` (revocation and country answers, now an input of `Assembly`) and `Earth`
   (mint, fee split).
3. `DexProofs` over `SumTheorems`: `TotalsAgree`, `Solvent`, `RewardsCovered`,
   `SharesBacked`. `AllocationProofs`: `Solvent`, operator by operator.
4. An abstract specification of one person, one right, that `Personhood` implements.
