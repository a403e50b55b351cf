----------------------------- MODULE Allocation -----------------------------
(***************************************************************************)
(* x/allocation: the two emission streams whose ERTH their voters direct.  *)
(* The Caretaker Fund is directed by registered humans, one vote each; the *)
(* Groundworks Fund by stake.  A stream pays its options in proportion to  *)
(* the weight its voters put on them, through a reward index that only     *)
(* moves forward; an option is settled lazily against it.                  *)
(*                                                                         *)
(* The keeper's state is one record, K.  A handler threads it through the  *)
(* keeper's methods in the order the code calls them, so an operator here  *)
(* takes the record and gives the next one, as a method takes the store.   *)
(*                                                                         *)
(* A block goes through the phases "begin" (the BeginBlockers ordered      *)
(* before this module's), the two streams in id order (this module's       *)
(* BeginBlocker, one step per lease second it drains), "txs", "commit".    *)
(* Time counts ticks, TicksPerSecond of them to a second: emission accrues *)
(* by the tick, leases and prune deadlines fall on whole seconds.          *)
(***************************************************************************)
EXTENDS Integers, FiniteSets, FiniteSetsExt, Functions

CONSTANTS
    Humans,              \* keys of the caretaker stream's voters
    Delegators,          \* accounts whose bonded stake weighs in groundworks
    Validators,          \* keys of the per-validator private votes
    Emission,            \* EmissionPerSecond, of each stream
    TicksPerSecond,
    Precision,           \* indexPrecision
    HumanVoterWeight,
    Weights,             \* the stake and the private votes there may be
    Percents, MaxVoterOptions,
    Leases,              \* the lease lengths governance may choose between
    LapseRetrySeconds, OptionIdleGrace, OptionPruneSweepLimit,
    DrawPpms, PpmDenominator,
    Seed,                \* the registration reward pool at genesis
    MaxOptions,          \* bound on the options of each stream
    MaxTime, Steps,      \* bound on the clock, and how far a block moves it
    Scenarios,           \* the stake and the lease a chain may start with, and
                         \* how many events of each kind it then sees (a bound)
    MaxFaults            \* bound on the items that fail: retirements, prunes, resyncs

Caretaker   == 1
Groundworks == 2
Streams     == {Caretaker, Groundworks}
Voters      == Humans \cup Delegators \cup Validators
\* What the chain sees besides the blocks themselves: options added, claimed,
\* drawn on and removed, delegators' and validators' votes, humans' votes,
\* staking events, resets and parameter changes.
Kinds == {"add", "claim", "draw", "remove", "split", "weighted", "human", "stake",
          "reset", "params"}

Handlers    == {"registration_rewards", "lp_rewards", "community_pool"}

\* The stream each integrated handler is registered for.
HandlerStream(h) == IF h = "registration_rewards" THEN Caretaker ELSE Groundworks

ASSUME AllocationAssumption ==
    /\ IsFiniteSet(Voters)
    /\ Humans \cap (Delegators \cup Validators) = {} /\ Delegators \cap Validators = {}
    /\ \A n \in {Emission, TicksPerSecond, Precision, HumanVoterWeight, MaxVoterOptions,
                 LapseRetrySeconds, OptionIdleGrace, OptionPruneSweepLimit, PpmDenominator} :
          n \in Nat \ {0}
    /\ Weights \subseteq Nat /\ Percents \subseteq 1..100
    /\ Leases # {} /\ Leases \subseteq Nat \ {0}
    /\ DrawPpms \subseteq 0..PpmDenominator
    /\ Seed \in Nat /\ MaxOptions \in [Streams -> Nat] /\ MaxTime \in Nat
    /\ Steps \subseteq Nat \ {0}
    /\ \A c \in Scenarios : /\ c.stake \in [Delegators -> Weights] /\ c.lease \in Leases
                             /\ c.msgs \in [Kinds -> Nat]
    /\ MaxFaults \in Nat

VARIABLES
    streams,     \* stream -> RewardIndex, TotalWeight, SummedWeight, LastUpkeep,
                 \*           Epoch, OptionSeq, and what it has minted so far
    options,     \* <<stream, id>> -> option
    voters,      \* <<stream, key>> -> Voter
    lapses,      \* VoterLapses: [at, stream, who]
    pruneDue,    \* PruneDue: <<stream, id>> -> second
    pruneQueue,  \* PruneQueue: [at, key]
    integrated,  \* IntegratedOptions
    accrued,     \* SummedAccrued
    residue,     \* Residue
    held,        \* the module account's ERTH
    stake,       \* x/staking: a delegator's stake on bonded validators
    delegating,  \* x/staking: the delegators with a delegation at all
    slashed,     \* SlashedValidators
    missed,      \* ghost: the operators whose resync failed, not weighed since
    lease,       \* params.GroundworksLeaseSeconds
    now, phase,  \* "halted": the BeginBlocker failed
    prev,        \* the lease second the sweep took last, or NotStarted
    msgs,        \* the events of each kind still to come
    faults       \* how many items have failed

keeper == <<streams, options, voters, lapses, pruneDue, pruneQueue, integrated,
            accrued, residue, held>>
env    == <<stake, delegating, slashed, missed, lease, now, phase, prev, msgs, faults>>
vars   == <<keeper, env>>

K == [streams |-> streams, options |-> options, voters |-> voters, lapses |-> lapses,
      due |-> pruneDue, queue |-> pruneQueue, integrated |-> integrated,
      accrued |-> accrued, residue |-> residue, held |-> held]

Becomes(k) ==
    /\ streams' = k.streams /\ options' = k.options /\ voters' = k.voters
    /\ lapses' = k.lapses /\ pruneDue' = k.due /\ pruneQueue' = k.queue
    /\ integrated' = k.integrated /\ accrued' = k.accrued /\ residue' = k.residue
    /\ held' = k.held

Second == now \div TicksPerSecond
NotStarted == -1

\* n items of a block fail.
Fail(n) == faults + n <= MaxFaults /\ faults' = faults + n

\* A map as the store has it: Set and Remove.
Put(f, x, v) == [y \in DOMAIN f \cup {x} |-> IF y = x THEN v ELSE f[y]]
Drop(f, x)   == [y \in DOMAIN f \ {x} |-> f[y]]

Empty == [x \in {} |-> 0]

\* ------------------------------------------------------------- options ----

\* An ADDRESS option has no handler; an INTEGRATED one names its own.
IsIntegrated(o) == o.handler # ""

prunable(o) == o.removed \/ (~IsIntegrated(o) /\ o.amount = 0)

OptionIDs(k, s) == {x[2] : x \in {y \in DOMAIN k.options : y[1] = s}}
Live(k, s) == {id \in OptionIDs(k, s) : ~k.options[<<s, id>>].removed}

\* Several options of a stream re-filed in the prune schedule.  One that
\* became prunable is due a grace period from now; one already scheduled
\* keeps its date; one no longer prunable leaves.
refreshPruneSchedule(k, s, ids) ==
    LET keys == {<<s, id>> : id \in ids}
        come == {x \in keys : prunable(k.options[x]) /\ x \notin DOMAIN k.due}
        go   == {x \in keys : ~prunable(k.options[x]) /\ x \in DOMAIN k.due}
        at   == Second + OptionIdleGrace
    IN [k EXCEPT
          !.due = [x \in (DOMAIN k.due \ go) \cup come |-> IF x \in come THEN at ELSE k.due[x]],
          !.queue = (@ \ {[at |-> k.due[x], key |-> x] : x \in go})
                       \cup {[at |-> at, key |-> x] : x \in come}]

\* setOption for every option of `new` (id -> option): the running sums move
\* by what each write changes.
setOptions(k, s, new) ==
    LET ids     == DOMAIN new
        Old(id) == IF <<s, id>> \in DOMAIN k.options THEN k.options[<<s, id>>]
                   ELSE [amount |-> 0, acc |-> 0]
        stored  == [x \in DOMAIN k.options \cup {<<s, id>> : id \in ids} |->
                      IF x[1] = s /\ x[2] \in ids THEN new[x[2]] ELSE k.options[x]]
        weight  == SumFunctionOnSet([id \in ids |-> new[id].amount - Old(id).amount], ids)
        gain    == SumFunctionOnSet([id \in ids |-> new[id].acc - Old(id).acc], ids)
    IN refreshPruneSchedule(
          [k EXCEPT !.options = stored, !.streams[s].summed = @ + weight, !.accrued = @ + gain],
          s, ids)

setOption(k, s, id, o) == setOptions(k, s, [i \in {id} |-> o])

\* Fault variant: an option without weight is left at its old index.
settleOptionLazy(o, index) ==
    IF o.amount > 0
    THEN [o EXCEPT !.acc = @ + (o.amount * (index - o.last)) \div Precision, !.last = index]
    ELSE o

settleOption(o, index) ==
    [o EXCEPT !.acc = @ + (IF o.amount > 0 THEN (o.amount * (index - o.last)) \div Precision ELSE 0),
              !.last = index]

Settled(k, s, id) == settleOption(k.options[<<s, id>>], k.streams[s].index)

appendOption(k, s, h) ==
    LET id == k.streams[s].seq + 1
        o  == [amount |-> 0, acc |-> 0, last |-> k.streams[s].index, handler |-> h,
               removed |-> FALSE]
        k1 == setOption([k EXCEPT !.streams[s].seq = id], s, id, o)
    IN IF h = "" THEN k1 ELSE [k1 EXCEPT !.integrated = @ \cup {<<s, id>>}]

\* ------------------------------------------------------ the reward index ----

ceilQuo(n, d) == (n + d - 1) \div d

\* Emission from LastUpkeep to `to` goes to the index; a stream without weight
\* lets it lapse.  What the index cannot give out is set aside as residue.
settleTo(k, s, to) ==
    LET st     == k.streams[s]
        reward == (Emission * (to - st.last)) \div TicksPerSecond
        delta  == (reward * Precision) \div st.total
        dust   == reward - ceilQuo(delta * st.total, Precision)
    IN  IF st.last # 0 /\ to <= st.last THEN k
        ELSE IF st.last = 0 \/ st.total <= 0 \/ reward <= 0
             THEN [k EXCEPT !.streams[s].last = to]
        ELSE [k EXCEPT !.streams[s].last = to,
                       !.streams[s].index = @ + delta,
                       !.streams[s].minted = @ + reward,
                       !.held = @ + reward,
                       !.residue = IF dust > 0 THEN @ + dust ELSE @]

DueSeconds(k, s, t) == {e.at : e \in {f \in k.lapses : f.stream = s /\ f.at <= t}}

\* Fault variant: a settle passes a lease that is due.
heldTargetNow(k, s, to) == to

\* The earliest lease due holds any settle but the sweep's.
heldTarget(k, s, to) ==
    LET due == DueSeconds(k, s, to \div TicksPerSecond)
    IN IF due # {} /\ Min(due) * TicksPerSecond < to THEN Min(due) * TicksPerSecond ELSE to

advanceIndexTo(k, s, to) ==
    settleTo(k, s, IF k.streams[s].last # 0 THEN heldTarget(k, s, to) ELSE to)

AdvanceIndex(k, s) == advanceIndexTo(k, s, now)

AdvanceIndexTo(k, s, t) ==
    LET at == IF t > Second THEN now ELSE t * TicksPerSecond
    IN IF k.streams[s].last = 0 \/ at <= k.streams[s].last THEN k
       ELSE advanceIndexTo(k, s, at)

\* -------------------------------------------------------------- voters ----

splitContributions(pct, w) == [id \in DOMAIN pct |-> (w * pct[id]) \div 100]

voterContributions(v) ==
    IF v.weights # Empty THEN v.weights ELSE splitContributions(v.pct, v.weight)

existingSplit(k, s, pct) == Restrict(pct, DOMAIN pct \cap OptionIDs(k, s))

NoVoter == [pct |-> Empty, weights |-> Empty, weight |-> 0, exp |-> 0, epoch |-> 0]

\* Fault variant: an option's weight changes before it is settled.
ContributeUnsettled(k, s, c, sign) ==
    LET ids == DOMAIN c \cap Live(k, s)
        new == [id \in ids |-> [k.options[<<s, id>>] EXCEPT
                                  !.amount = @ + sign * c[id], !.last = k.streams[s].index]]
    IN [setOptions(k, s, new) EXCEPT
          !.streams[s].total = @ + sign * SumFunctionOnSet(c, ids)]

\* Contributions added to (sign 1) or backed out of (sign -1) the options that
\* still take weight, each settled first.
Contribute(k, s, c, sign) ==
    LET ids == DOMAIN c \cap Live(k, s)
        new == [id \in ids |-> [Settled(k, s, id) EXCEPT !.amount = @ + sign * c[id]]]
    IN [setOptions(k, s, new) EXCEPT
          !.streams[s].total = @ + sign * SumFunctionOnSet(c, ids)]

\* Fault variant: a record of an epoch since reset is backed out like any other.
writeVoterAnyEpoch(k, s, who, rec, add, keep) ==
    LET x   == <<s, who>>
        has == x \in DOMAIN k.voters
        old == IF has THEN k.voters[x] ELSE NoVoter
        exp == IF rec.exp = 0 THEN old.exp ELSE rec.exp
        k1 == [k EXCEPT !.lapses = @ \ {[at |-> old.exp, stream |-> s, who |-> who]}]
        k2 == Contribute(IF has THEN Contribute(k1, s, voterContributions(old), -1) ELSE k1,
                         s, add, 1)
        k3 == [k2 EXCEPT !.streams[s].total = IF @ < 0 THEN 0 ELSE @]
    IN  IF ~keep THEN [k3 EXCEPT !.voters = Drop(@, x)]
        ELSE [k3 EXCEPT
                !.voters = Put(@, x, [rec EXCEPT !.exp = exp, !.epoch = k.streams[s].epoch]),
                !.lapses = IF exp # 0 THEN @ \cup {[at |-> exp, stream |-> s, who |-> who]} ELSE @]

writeVoter(k, s, who, rec, add, keep) ==
    LET x     == <<s, who>>
        has   == x \in DOMAIN k.voters
        old   == IF has THEN k.voters[x] ELSE NoVoter
        epoch == k.streams[s].epoch
        mine  == has /\ old.epoch = epoch
        exp   == IF rec.exp = 0 /\ mine THEN old.exp ELSE rec.exp
        k1 == [k EXCEPT !.lapses = @ \ {[at |-> old.exp, stream |-> s, who |-> who]}]
        k2 == IF mine THEN Contribute(k1, s, voterContributions(old), -1) ELSE k1
        k3 == Contribute(k2, s, add, 1)
        k4 == [k3 EXCEPT !.streams[s].total = IF @ < 0 THEN 0 ELSE @]
    IN  IF ~keep THEN [k4 EXCEPT !.voters = Drop(@, x)]
        ELSE [k4 EXCEPT
                !.voters = Put(@, x, [rec EXCEPT !.exp = exp, !.epoch = epoch]),
                !.lapses = IF exp # 0 THEN @ \cup {[at |-> exp, stream |-> s, who |-> who]} ELSE @]

resyncVoterAt(k, s, who, pct, w, exp) ==
    LET kept == existingSplit(k, s, pct)
    IN writeVoter(k, s, who, [NoVoter EXCEPT !.pct = kept, !.weight = w, !.exp = exp],
                  splitContributions(kept, w), kept # Empty /\ w > 0)

resyncVoter(k, s, who, pct, w) == resyncVoterAt(k, s, who, pct, w, 0)

resyncVoterKeep(k, s, who, pct, w, keepZero) ==
    LET kept == existingSplit(k, s, pct)
    IN IF ~keepZero \/ w > 0 THEN resyncVoter(k, s, who, pct, w)
       ELSE writeVoter(k, s, who, [NoVoter EXCEPT !.pct = kept], Empty, kept # Empty)

ClearVoter(k, s, who) == resyncVoter(k, s, who, Empty, 0)

\* The splits ValidateSplit accepts.
ValidSplits(k, s) ==
    {Empty} \cup
    UNION {{p \in [ids -> Percents] : SumFunctionOnSet(p, ids) = 100} :
             ids \in {S \in SUBSET Live(k, s) : S # {} /\ Cardinality(S) <= MaxVoterOptions}}

\* -------------------------------------------------------------- genesis ----

NoStream == [index |-> 0, total |-> 0, summed |-> 0, last |-> 0, epoch |-> 0, seq |-> 0,
             minted |-> 0]

GenesisKeeper ==
    LET none == [streams |-> [s \in Streams |-> NoStream], options |-> Empty, voters |-> Empty,
                 lapses |-> {}, due |-> Empty, queue |-> {}, integrated |-> {},
                 accrued |-> 0, residue |-> 0, held |-> Seed]
        k1 == appendOption(none, Caretaker, "registration_rewards")
        k2 == setOption(k1, Caretaker, 1, [k1.options[<<Caretaker, 1>>] EXCEPT !.acc = Seed])
        k3 == appendOption(k2, Groundworks, "lp_rewards")
    IN appendOption(k3, Groundworks, "community_pool")

Init ==
    /\ now = TicksPerSecond
    /\ LET k == GenesisKeeper IN
          /\ streams = k.streams /\ options = k.options /\ voters = k.voters
          /\ lapses = k.lapses /\ pruneDue = k.due /\ pruneQueue = k.queue
          /\ integrated = k.integrated /\ accrued = k.accrued /\ residue = k.residue
          /\ held = k.held
    /\ \E c \in Scenarios : stake = c.stake /\ lease = c.lease /\ msgs = c.msgs
    /\ delegating = {v \in Delegators : stake[v] > 0}
    /\ slashed = {} /\ missed = {}
    /\ phase = "commit" /\ prev = NotStarted /\ faults = 0

\* ------------------------------------------------------------- messages ----

Counts(kind) == msgs[kind] > 0 /\ msgs' = [msgs EXCEPT ![kind] = @ - 1]

Deliver(kind) == phase = "txs" /\ Counts(kind)

AddIntegratedOption(s, h) ==
    /\ Deliver("add")
    /\ h \in Handlers /\ HandlerStream(h) = s
    /\ streams[s].seq < MaxOptions[s]
    /\ Becomes(appendOption(K, s, h))
    /\ UNCHANGED <<stake, delegating, slashed, missed, lease, now, phase, prev, faults>>

\* The caretaker stream's fee is taken from the submitter and burned: it
\* passes through the module account.
AddAddressOption(s) ==
    /\ Deliver("add")
    /\ streams[s].seq < MaxOptions[s]
    /\ Becomes(appendOption(K, s, ""))
    /\ UNCHANGED <<stake, delegating, slashed, missed, lease, now, phase, prev, faults>>

ClaimAllocation(s, id) ==
    /\ Deliver("claim")
    /\ <<s, id>> \in DOMAIN options /\ ~IsIntegrated(options[<<s, id>>])
    /\ LET k == AdvanceIndex(K, s)
           o == Settled(k, s, id)
       IN Becomes([setOption(k, s, id, [o EXCEPT !.acc = 0]) EXCEPT !.held = @ - o.acc])
    /\ UNCHANGED <<stake, delegating, slashed, missed, lease, now, phase, prev, faults>>

\* Every option of the stream settled and emptied of weight; the voters'
\* records stay behind under the old epoch.
resetAllocations(k, s) ==
    LET k1 == AdvanceIndex(k, s)
        k2 == setOptions(k1, s, [id \in OptionIDs(k1, s) |->
                                   [Settled(k1, s, id) EXCEPT !.amount = 0]])
    IN [k2 EXCEPT !.streams[s].total = 0, !.streams[s].epoch = @ + 1]

ResetAllocations ==
    /\ Deliver("reset")
    /\ Becomes(resetAllocations(K, Groundworks))
    /\ UNCHANGED <<stake, delegating, slashed, missed, lease, now, phase, prev, faults>>

\* MsgSetAllocations: a delegator's split, for a lease from now.
SetAllocations(v, pct) ==
    /\ Deliver("split")
    /\ pct # Empty => stake[v] > 0
    /\ LET exp == IF pct = Empty THEN 0 ELSE Second + lease
       IN Becomes(resyncVoterAt(AdvanceIndex(K, Groundworks), Groundworks, v, pct, stake[v], exp))
    /\ missed' = missed \ {v}
    /\ UNCHANGED <<stake, delegating, slashed, lease, now, phase, prev, faults>>

UpdateParams(l) ==
    /\ Deliver("params")
    /\ lease' = l
    /\ UNCHANGED <<keeper, stake, delegating, slashed, missed, now, phase, prev, faults>>

\* A human's split, cast privately through x/personhood.
SetVoterSplit(h, pct) ==
    /\ Deliver("human")
    /\ Becomes(resyncVoter(AdvanceIndex(K, Caretaker), Caretaker, h, pct, HumanVoterWeight))
    /\ UNCHANGED <<stake, delegating, slashed, missed, lease, now, phase, prev, faults>>

MoveVoter(from, to) ==
    /\ Deliver("human")
    /\ from # to
    /\ LET k == AdvanceIndex(K, Caretaker)
           x == <<Caretaker, from>>
       IN  IF x \notin DOMAIN k.voters THEN Becomes(k)
           ELSE LET old == k.voters[x]
                    k1  == resyncVoter(k, Caretaker, from, Empty, 0)
                IN  IF old.epoch # k.streams[Caretaker].epoch THEN Becomes(k1)
                    ELSE Becomes(resyncVoter(k1, Caretaker, to, old.pct, old.weight))
    /\ UNCHANGED <<stake, delegating, slashed, missed, lease, now, phase, prev, faults>>

\* A registration: part of the reward option is drawn and paid out.
DrawFromOption(ppm) ==
    /\ Deliver("draw")
    /\ LET k == AdvanceIndex(K, Caretaker)
           o == Settled(k, Caretaker, 1)
           d == (o.acc * ppm) \div PpmDenominator
       IN Becomes([setOption(k, Caretaker, 1, [o EXCEPT !.acc = @ - d]) EXCEPT !.held = @ - d])
    /\ UNCHANGED <<stake, delegating, slashed, missed, lease, now, phase, prev, faults>>

\* x/shieldedstaking files the votes of a validator's private stake.
SetWeightedVoter(v, w) ==
    /\ Deliver("weighted")
    /\ LET k   == AdvanceIndex(K, Groundworks)
           pos == {id \in DOMAIN w : w[id] > 0}
           ws  == Restrict(w, pos)
       IN Becomes(writeVoter(k, Groundworks, v,
                    [NoVoter EXCEPT !.weights = ws, !.weight = SumFunctionOnSet(ws, pos)],
                    ws, pos # {}))
    /\ UNCHANGED <<stake, delegating, slashed, missed, lease, now, phase, prev, faults>>

\* The chamber removes an option: its balance is burned, its weight released.
RemoveGroundworksOption(id) ==
    /\ Deliver("remove")
    /\ id \in Live(K, Groundworks)
    /\ LET x == <<Groundworks, id>>
           k == AdvanceIndex(K, Groundworks)
           o == Settled(k, Groundworks, id)
           k1 == setOption(k, Groundworks, id,
                           [o EXCEPT !.removed = TRUE, !.amount = 0, !.acc = 0])
       IN Becomes([k1 EXCEPT !.streams[Groundworks].total = @ - o.amount,
                             !.integrated = @ \ {x},
                             !.held = @ - o.acc])
    /\ UNCHANGED <<stake, delegating, slashed, missed, lease, now, phase, prev, faults>>

\* ------------------------------------------------------- staking's hooks ----

\* The split of v re-weighed; one cast before a reset is dropped instead.
\* left: v still has a delegation.
resyncFromBonded(k, v, w, left) ==
    LET k1 == AdvanceIndex(k, Groundworks)
        x  == <<Groundworks, v>>
    IN  IF x \notin DOMAIN k1.voters THEN k1
        ELSE IF k1.voters[x].epoch # k1.streams[Groundworks].epoch
             THEN [k1 EXCEPT !.voters = Drop(@, x)]
        ELSE resyncVoterKeep(k1, Groundworks, v, k1.voters[x].pct, w, left)

Staking == phase \in {"begin", "txs"} /\ Counts("stake")

\* AfterDelegationModified, or BeforeDelegationRemoved.
DelegationModified(v, w, left) ==
    /\ Staking
    /\ w > 0 => left
    /\ stake' = [stake EXCEPT ![v] = w]
    /\ delegating' = IF left THEN delegating \cup {v} ELSE delegating \ {v}
    /\ Becomes(resyncFromBonded(K, v, w, left))
    /\ missed' = missed \ {v}
    /\ UNCHANGED <<slashed, lease, now, phase, prev, faults>>

\* BeforeValidatorSlashed, AfterValidatorBonded, AfterValidatorBeginUnbonding:
\* the operator's stake moves without a delegation changing.
ValidatorChanged(v, w) ==
    /\ Staking
    /\ v \in delegating
    /\ stake' = [stake EXCEPT ![v] = w]
    /\ slashed' = slashed \cup {v}
    /\ UNCHANGED <<keeper, delegating, missed, lease, now, phase, prev, faults>>

\* ------------------------------------------------------------- the block ----

\* x/personhood, before this module's BeginBlocker: a human's lease that ended
\* at t is cleared.
ClearCaretaker(h, t) ==
    /\ phase = "begin"
    /\ t * TicksPerSecond <= now
    /\ <<Caretaker, h>> \in DOMAIN voters
    /\ Becomes(ClearVoter(AdvanceIndexTo(K, Caretaker, t), Caretaker, h))
    /\ UNCHANGED env

PhaseOf(s) == IF s = Caretaker THEN "caretaker" ELSE "groundworks"

BeginBlocker ==
    /\ phase = "begin"
    /\ phase' = PhaseOf(Caretaker)
    /\ UNCHANGED <<keeper, stake, delegating, slashed, missed, lease, now, prev, msgs, faults>>

\* Fault variant: a lease whose retirement failed stays where it was.
LapseRetryAtOnce(t) == t

\* The next block-time of a lease whose retirement failed at t.
LapseRetryAt(t) == (IF Second > t THEN Second ELSE t) + LapseRetrySeconds

\* One account's lease, due at t.
retire(k, s, t, who) ==
    LET x  == <<s, who>>
        k1 == [k EXCEPT !.lapses = @ \ {[at |-> t, stream |-> s, who |-> who]}]
    IN  IF \/ x \notin DOMAIN k1.voters
           \/ k1.voters[x].exp > t
           \/ k1.voters[x].epoch # k1.streams[s].epoch
        THEN k1
        ELSE writeVoter(k1, s, who, NoVoter, Empty, FALSE)

Refile(k, s, t, who) ==
    [k EXCEPT !.lapses = (@ \ {[at |-> t, stream |-> s, who |-> who]})
                            \cup {[at |-> LapseRetryAt(t), stream |-> s, who |-> who]}]

\* The stream settled to the lapse time t before any lease due then retires.
SettledToLapse(k, s, t) ==
    LET last == k.streams[s].last
    IN IF last # 0 /\ t * TicksPerSecond > last THEN settleTo(k, s, t * TicksPerSecond) ELSE k

\* One pass of the sweep: the accounts of `bad` fail to retire.
lapse(k, s, t, bad) ==
    LET due == {e.who : e \in {f \in k.lapses : f.stream = s /\ f.at = t}}
        Step(who, acc) == IF who \in bad THEN Refile(acc, s, t, who) ELSE retire(acc, s, t, who)
    IN FoldSet(Step, SettledToLapse(k, s, t), due)

\* Bound: a retirement fails only while the clock still has room for its retry.
LastSecond == MaxTime \div TicksPerSecond

\* The sweep's next second.  A lease left behind fails the BeginBlocker, and
\* the chain stops.
SweepLapses(s) ==
    /\ phase = PhaseOf(s)
    /\ DueSeconds(K, s, Second) # {}
    /\ \E bad \in SUBSET Delegators :
          LET t == Min(DueSeconds(K, s, Second)) IN
          /\ phase' = IF t > prev THEN phase ELSE "halted"
          /\ \A who \in bad : [at |-> t, stream |-> s, who |-> who] \in lapses
          /\ bad # {} => Second + LapseRetrySeconds <= LastSecond
          /\ Fail(Cardinality(bad))
          /\ Becomes(IF t > prev THEN lapse(K, s, t, bad) ELSE K)
          /\ prev' = t
    /\ UNCHANGED <<stake, delegating, slashed, missed, lease, now, msgs>>

\* What a handler may take of an accrued balance: the registration pool only
\* stacks; the community pool takes all or fails; the dex takes what its
\* pools can.
HandlerTakes(o) ==
    CASE o.handler = "registration_rewards" -> {0}
      [] o.handler = "community_pool" -> {0, o.acc}
      [] o.handler = "lp_rewards" -> 0..o.acc

resolveIntegrated(k, s, take) ==
    LET ids == {x[2] : x \in {y \in k.integrated : y[1] = s}}
        new == [id \in ids |-> [Settled(k, s, id) EXCEPT !.acc = @ - take[id]]]
    IN [setOptions(k, s, new) EXCEPT !.held = @ - SumFunctionOnSet(take, ids)]

\* The first OptionPruneSweepLimit entries due, in queue order.
Before(e, f) ==
    \/ e.at < f.at
    \/ e.at = f.at /\ e.key[1] < f.key[1]
    \/ e.at = f.at /\ e.key[1] = f.key[1] /\ e.key[2] < f.key[2]

PruneBatch(k) ==
    LET due == {e \in k.queue : e.at <= Second}
    IN {e \in due : Cardinality({f \in due : Before(f, e)}) < OptionPruneSweepLimit}

\* The options the batch prunes.
Pruned(k) == {x \in {e.key : e \in PruneBatch(k)} \cap DOMAIN k.options : prunable(k.options[x])}

\* The due entries leave the schedule and their options go, but for those of
\* bad, whose pruning fails: they stay, unscheduled until they are written next.
SweepPrunableOptions(k, bad) ==
    LET batch == PruneBatch(k)
        keys  == {e.key : e \in batch}
        gone  == Pruned(k) \ bad
        lost  == SumFunctionOnSet([x \in gone |-> k.options[x].acc], gone)
    IN [k EXCEPT !.queue = @ \ batch,
                 !.due = Restrict(@, DOMAIN @ \ keys),
                 !.options = Restrict(@, DOMAIN @ \ gone),
                 !.integrated = @ \ gone,
                 !.accrued = @ - lost,
                 !.held = @ - lost]

\* The sweep drained: the stream settles to the block time and its integrated
\* options resolve.  The groundworks stream is the last; then idle options go.
ResolveIntegrated(s) ==
    /\ phase = PhaseOf(s)
    /\ DueSeconds(K, s, Second) = {}
    /\ LET k   == settleTo(K, s, now)
           ids == {x[2] : x \in {y \in k.integrated : y[1] = s}}
       IN \E take \in [ids -> UNION {HandlerTakes(Settled(k, s, id)) : id \in ids}] :
             /\ \A id \in ids : take[id] \in HandlerTakes(Settled(k, s, id))
             /\ LET k1 == resolveIntegrated(k, s, take)
                IN IF s = Caretaker THEN Becomes(k1) /\ UNCHANGED faults
                   ELSE \E bad \in SUBSET Pruned(k1) :
                           Fail(Cardinality(bad)) /\ Becomes(SweepPrunableOptions(k1, bad))
    /\ phase' = IF s = Caretaker THEN PhaseOf(Groundworks) ELSE "txs"
    /\ prev' = NotStarted
    /\ UNCHANGED <<stake, delegating, slashed, missed, lease, now, msgs>>

\* Fault variant: the recorded operators are forgotten without a resync.
EndBlockForgets(swept, bad) ==
    /\ phase = "txs"
    /\ Becomes(IF swept THEN [K EXCEPT !.held = @ - residue, !.residue = 0] ELSE K)
    /\ slashed' = {}
    /\ phase' = "commit"
    /\ UNCHANGED <<stake, delegating, missed, lease, now, prev, msgs, faults>>

\* The operators recorded this block weigh their stake again, but for those of
\* bad, whose resync fails: all are forgotten.  The residue goes to the
\* community pool, if it takes it.
EndBlock(swept, bad) ==
    /\ phase = "txs"
    /\ LET Step(v, acc) == resyncFromBonded(acc, v, stake[v], v \in delegating)
           k == FoldSet(Step, K, slashed \ bad)
       IN Becomes(IF swept THEN [k EXCEPT !.held = @ - k.residue, !.residue = 0] ELSE k)
    /\ Fail(Cardinality(bad))
    /\ slashed' = {} /\ missed' = (missed \ slashed) \cup bad
    /\ phase' = "commit"
    /\ UNCHANGED <<stake, delegating, lease, now, prev, msgs>>

NextBlock(d) ==
    /\ phase = "commit"
    /\ phase' = "begin"
    /\ now' = IF now + d > MaxTime THEN MaxTime ELSE now + d
    /\ UNCHANGED <<keeper, stake, delegating, slashed, missed, lease, prev, msgs, faults>>

\* ------------------------------------------------------ export and import ----

\* A voter as exported: of its split or its weights, what names options that
\* still exist.  One with nothing left is not exported.
ExportVoter(k, s, v) ==
    LET ws == existingSplit(k, s, v.weights)
    IN [v EXCEPT !.pct = existingSplit(k, s, v.pct), !.weights = ws,
                 !.weight = IF v.weights = ws THEN @ ELSE SumFunctionOnSet(ws, DOMAIN ws)]

ExportedVoters(k) ==
    LET out == [x \in DOMAIN k.voters |-> ExportVoter(k, x[1], k.voters[x])]
    IN Restrict(out, {x \in DOMAIN out : out[x].pct # Empty \/ out[x].weights # Empty})

\* Genesis validation of an exported state.
ValidOption(k, s, id) ==
    LET o == k.options[<<s, id>>] IN
    /\ id > 0 /\ id <= k.streams[s].seq
    /\ o.removed => o.amount = 0 /\ o.acc = 0 /\ s = Groundworks
    /\ o.amount >= 0 /\ o.acc >= 0 /\ o.last <= k.streams[s].index

ValidVoter(k, s, v) ==
    /\ v.weight >= 0
    /\ v.exp # 0 => s = Groundworks /\ v.weights = Empty
    /\ DOMAIN v.pct \subseteq OptionIDs(k, s)
    /\ SumFunctionOnSet(v.pct, DOMAIN v.pct) <= 100
    /\ (s = Groundworks /\ v.weights = Empty /\ v.pct # Empty) => v.exp # 0
    /\ v.weights # Empty =>
          /\ v.pct = Empty
          /\ DOMAIN v.weights \subseteq OptionIDs(k, s)
          /\ \A id \in DOMAIN v.weights : v.weights[id] > 0
          /\ v.weight = SumFunctionOnSet(v.weights, DOMAIN v.weights)

Validate(k) ==
    /\ k.residue >= 0
    /\ \A s \in Streams :
          /\ k.streams[s].index >= 0 /\ k.streams[s].total >= 0
          /\ \A id \in OptionIDs(k, s) : ValidOption(k, s, id)
          /\ k.streams[s].total =
                SumFunctionOnSet([id \in OptionIDs(k, s) |-> k.options[<<s, id>>].amount],
                                 OptionIDs(k, s))
    /\ \A x \in DOMAIN k.voters : ValidVoter(k, x[1], k.voters[x])

\* What InitGenesis makes of an export.  LastUpkeep starts over; the sums, the
\* lease queue, the prune schedule and the integrated index are rebuilt.
Restored(k) ==
    LET vs  == ExportedVoters(k)
        ids == DOMAIN k.options
        fresh == [k EXCEPT
          !.streams = [s \in Streams |->
             [k.streams[s] EXCEPT !.last = 0,
                !.summed = SumFunctionOnSet([x \in ids |-> IF x[1] = s THEN k.options[x].amount ELSE 0], ids)]],
          !.voters = vs,
          !.lapses = {[at |-> vs[x].exp, stream |-> x[1], who |-> x[2]] :
                        x \in {y \in DOMAIN vs : vs[y].exp # 0}},
          !.due = Empty, !.queue = {},
          !.integrated = {x \in ids : IsIntegrated(k.options[x]) /\ ~k.options[x].removed},
          !.accrued = SumFunctionOnSet([x \in ids |-> k.options[x].acc], ids)]
    IN refreshPruneSchedule(refreshPruneSchedule(fresh, Caretaker, OptionIDs(k, Caretaker)),
                            Groundworks, OptionIDs(k, Groundworks))

ExportImport ==
    /\ phase = "commit"
    /\ Validate([K EXCEPT !.voters = ExportedVoters(K)])
    /\ held >= Restored(K).accrued + residue
    /\ Becomes(Restored(K))
    /\ UNCHANGED env

Next ==
    \/ \E s \in Streams :
         \/ \E h \in Handlers : AddIntegratedOption(s, h)
         \/ AddAddressOption(s)
         \/ \E id \in OptionIDs(K, s) : ClaimAllocation(s, id)
         \/ SweepLapses(s)
         \/ ResolveIntegrated(s)
    \/ ResetAllocations
    \/ \E l \in Leases : UpdateParams(l)
    \/ \E v \in Delegators :
         \/ \E pct \in ValidSplits(K, Groundworks) : SetAllocations(v, pct)
         \/ \E w \in Weights : \E left \in BOOLEAN : DelegationModified(v, w, left)
         \/ \E w \in Weights : ValidatorChanged(v, w)
    \/ \E h \in Humans :
         \/ \E pct \in ValidSplits(K, Caretaker) : SetVoterSplit(h, pct)
         \/ \E to \in Humans : MoveVoter(h, to)
         \/ \E t \in 0..Second : ClearCaretaker(h, t)
    \/ \E ppm \in DrawPpms : DrawFromOption(ppm)
    \/ \E v \in Validators :
         \E ids \in SUBSET OptionIDs(K, Groundworks) :
            \E w \in [ids -> Weights] : SetWeightedVoter(v, w)
    \/ \E id \in OptionIDs(K, Groundworks) : RemoveGroundworksOption(id)
    \/ BeginBlocker
    \/ \E swept \in BOOLEAN, bad \in SUBSET slashed : EndBlock(swept, bad)
    \/ \E d \in Steps : NextBlock(d)
    \/ ExportImport

Spec == Init /\ [][Next]_vars

\* Consensus keeps making blocks and each runs to its end, unless the chain
\* has stopped.
Block ==
    \/ BeginBlocker
    \/ \E s \in Streams : SweepLapses(s) \/ ResolveIntegrated(s)
    \/ \E swept \in BOOLEAN, bad \in SUBSET slashed : EndBlock(swept, bad)
    \/ \E d \in Steps : NextBlock(d)

FairSpec == Spec /\ ([]<><<Block>>_vars \/ <>[](phase = "halted"))

\* ------------------------------------------------------------ properties ----

IsOption(o) ==
    /\ \A n \in {o.amount, o.acc, o.last} : n \in Nat
    /\ o.handler \in Handlers \cup {""} /\ o.removed \in BOOLEAN

IsVoter(v) ==
    /\ \A n \in {v.weight, v.exp, v.epoch} : n \in Nat
    /\ \A id \in DOMAIN v.pct : v.pct[id] \in 1..100
    /\ \A id \in DOMAIN v.weights : v.weights[id] \in Nat \ {0}

\* Every collection of the keeper holds values of its type; in particular no
\* weight, balance or index is ever negative.
TypeOK ==
    /\ streams \in [Streams -> [index : Nat, total : Nat, summed : Nat, last : Nat,
                                epoch : Nat, seq : Nat, minted : Nat]]
    /\ DOMAIN options \subseteq Streams \X Nat /\ IsFiniteSet(DOMAIN options)
    /\ \A x \in DOMAIN options : IsOption(options[x])
    /\ DOMAIN voters \subseteq Streams \X Voters
    /\ \A x \in DOMAIN voters : IsVoter(voters[x])
    /\ lapses \subseteq [at : Nat, stream : Streams, who : Voters]
    /\ DOMAIN pruneDue \subseteq DOMAIN options
    /\ pruneQueue \subseteq [at : Nat, key : Streams \X Nat]
    /\ integrated \subseteq DOMAIN options
    /\ accrued \in Nat /\ residue \in Nat /\ held \in Nat
    /\ stake \in [Delegators -> Nat] /\ delegating \subseteq Delegators
    /\ slashed \cup missed \subseteq Delegators /\ lease \in Leases
    /\ now \in Nat /\ phase \in {"begin", "caretaker", "groundworks", "txs", "commit", "halted"}
    /\ prev \in Nat \cup {NotStarted}
    /\ msgs \in [Kinds -> Nat] /\ faults \in 0..MaxFaults

SumOptions(F(_)) == SumFunctionOnSet([x \in DOMAIN options |-> F(x)], DOMAIN options)

\* The voters of a stream whose records still count.
Counted(s) == {v \in Voters : /\ <<s, v>> \in DOMAIN voters
                              /\ voters[<<s, v>>].epoch = streams[s].epoch}

Contribution(x, v) ==
    LET c == voterContributions(voters[<<x[1], v>>])
    IN IF x[2] \in DOMAIN c THEN c[x[2]] ELSE 0

\* The indexes over the options agree with them: only prunable options are
\* scheduled, once each, and all of them unless a pruning failed; exactly the
\* integrated ones not removed are resolved each block.
IndexesExact ==
    /\ DOMAIN pruneDue \subseteq {x \in DOMAIN options : prunable(options[x])}
    /\ faults = 0 => \A x \in DOMAIN options : prunable(options[x]) => x \in DOMAIN pruneDue
    /\ pruneQueue = {[at |-> pruneDue[x], key |-> x] : x \in DOMAIN pruneDue}
    /\ integrated = {x \in DOMAIN options : IsIntegrated(options[x]) /\ ~options[x].removed}

\* What ExportGenesis writes at any height InitGenesis takes: the exported
\* state validates and the module account covers it.
ExportAccepted ==
    phase = "commit" =>
       /\ Validate([K EXCEPT !.voters = ExportedVoters(K)])
       /\ held >= Restored(K).accrued + residue

\* Keeper.setOption, writeVoter, prune and removal keep the books: what an
\* option is allocated is exactly what the counted voters put on it now, a
\* removed one nothing, and the stream's two totals are the sum.  A vote that
\* outlived a reset, a removal or a prune is never backed out twice.  The state
\* is typed, its indexes exact, as every operation assumes, and its export one
\* that InitGenesis takes.
AssertInvariants ==
    /\ TypeOK /\ IndexesExact /\ ExportAccepted
    /\ \A x \in DOMAIN options :
          options[x].amount =
             IF options[x].removed THEN 0
             ELSE SumFunctionOnSet([v \in Counted(x[1]) |-> Contribution(x, v)], Counted(x[1]))
    /\ \A s \in Streams :
          LET sum == SumOptions(LAMBDA x : IF x[1] = s THEN options[x].amount ELSE 0)
          IN streams[s].total = sum /\ streams[s].summed = sum

Pending(x) == options[x].amount * (streams[x[1]].index - options[x].last)

\* The module account covers every balance accrued, the residue, and all that
\* options have not settled yet, whatever order settles, votes, claims, prunes
\* and removals came in: CheckSolvency never finds it short.
Solvent ==
    /\ accrued = SumOptions(LAMBDA x : options[x].acc)
    /\ SumOptions(Pending) <= Precision * (held - residue - accrued)

\* A lease's weight earns nothing past the lease's end: whenever a stream is
\* settled with emission, each counted split with a lease has a lapse queued,
\* no earlier than its end and at its end unless a retirement failed, and the
\* settle stops short of that lapse or at it.
LeaseHonoured ==
    [][\A x \in DOMAIN voters :
         (/\ voters[x].exp # 0 /\ x[2] \in Counted(x[1])
          /\ streams'[x[1]].minted > streams[x[1]].minted) =>
            \E e \in lapses :
               /\ e.stream = x[1] /\ e.who = x[2]
               /\ e.at >= voters[x].exp /\ (faults = 0 => e.at = voters[x].exp)
               /\ streams'[x[1]].last <= e.at * TicksPerSecond]_vars

\* An account's split weighs its bonded stake, save between the event that
\* moved the stake under it and the EndBlock of that block; if the resync fails
\* there (ResyncSlashed logs it and forgets the validator), until the next
\* event that weighs it.
SplitsFresh ==
    \A v \in Delegators \ (slashed \cup missed) :
       v \in Counted(Groundworks) => voters[<<Groundworks, v>>].weight = stake[v]

\* However the settles of a stream are cut up, by blocks, lease ends, messages
\* and hooks, a step mints no more than the rate over the time it settles; a
\* stream with no time on record mints nothing.
EmissionBounded ==
    \A s \in Streams :
       LET a == streams[s]
           b == streams'[s]
       IN IF a.last = 0 \/ b.last = 0 THEN b.minted = a.minted
          ELSE (b.minted - a.minted) * TicksPerSecond <= Emission * (b.last - a.last)

Entitlement(x) == options[x].acc + Pending(x) \div Precision

\* Voters only direct future emission: a vote cast, moved, re-weighed, lapsed
\* or reset takes nothing an option has earned.
VotesTakeNothing ==
    (voters' # voters \/ \E s \in Streams : streams'[s].epoch # streams[s].epoch) =>
       \A x \in DOMAIN options : x \in DOMAIN options' /\ Entitlement(x)' >= Entitlement(x)

\* A step mints no more than the rate allows (settleTo), and no vote takes from
\* an option what it has earned (Contribute settles first).
EmissionFair == [][EmissionBounded /\ VotesTakeNothing]_vars

Overdue(v) ==
    /\ v \in Counted(Groundworks)
    /\ voters[<<Groundworks, v>>].exp \in 1..Second

\* A lease that ends does leave: a split counted past its lease's end is in time
\* renewed, dropped by a reset or retired, even when retiring it fails; the
\* sweep never stops the chain on one left behind (LapseRetryAt).
LeasesEnd == []<>(\A v \in Delegators : ~Overdue(v))
====
