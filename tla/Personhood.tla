----------------------------- MODULE Personhood -----------------------------
(***************************************************************************)
(* x/personhood: one passport, one person.  A passport registers an        *)
(* identity (idc), a leaf of the identity tree; registering it again under *)
(* a new idc switches identity: the old leaf is zeroed, and a succession   *)
(* leaf ties the new idc to the old.  A person acts by proving membership  *)
(* under a recent root, so a zeroed leaf keeps proving for a root window.  *)
(* Three rights are each held by one identity of a passport at a time: the *)
(* day's ANML claim, a caretaker split and a handle.                       *)
(*                                                                         *)
(* The keeper's store is one record, st.  An operator takes a store and    *)
(* gives the next, as a keeper method does.  A block is BeginBlocker (the  *)
(* sweeps), messages, EndBlocker (record and prune roots).  An identity's  *)
(* nullifier in a scope is one-to-one with its idc and is written as it.   *)
(* The order of the stores' keys is that of the numbers naming them.       *)
(***************************************************************************)
EXTENDS Integers, Sequences, FiniteSets, SequencesExt

CONSTANTS
    Passports, Idcs, Dscs, Names,   \* numbers
    SignersOf,           \* passport -> the document signers it may show
    CountryOf,           \* document signer -> country
    Day, Margin,         \* SecondsPerDay, ActivationMarginSeconds
    MaxSkew, Grace,      \* CurrentDateMaxSkew's maximum, UsedBindingGrace
    Renewal,             \* params.HandleRenewalSeconds
    ShareBps, BpsDenominator,   \* the daily caps of a registration
    SweepLimit,          \* params.RegistrationSweepLimit
    ScanFactor, ReserveDivisor, RetrySeconds,
    CaretakerSweepLimit, ClaimPruneLimit, RootPruneLimit,
    Start, Steps,        \* bound: the clock's start, and how far a block moves it
    Scenarios            \* bound: what meets in one behaviour: a set of kinds of
                         \* message, passports and idcs; the parameters validity,
                         \* skew and floors (RegistrationValiditySeconds,
                         \* CurrentDateMaxSkew, the daily floors); what governance
                         \* may set, params; the clock's end; how many faults

ASSUME PersonhoodAssumption ==
    /\ Passports \subseteq Nat /\ Idcs \subseteq Nat /\ Dscs \subseteq Nat /\ Names \subseteq Nat
    /\ SignersOf \in [Passports -> SUBSET Dscs] /\ DOMAIN CountryOf = Dscs
    /\ \A n \in {Day, MaxSkew, Grace, Renewal, BpsDenominator, ScanFactor, ReserveDivisor,
                 RetrySeconds, CaretakerSweepLimit, ClaimPruneLimit, RootPruneLimit} :
          n \in Nat \ {0}
    /\ Margin = Day /\ SweepLimit \in Nat /\ SweepLimit >= 5
    /\ Start \in Nat /\ Start > 2 * Day /\ Steps \subseteq Nat
    /\ \A s \in Scenarios :
          /\ s.passports \subseteq Passports /\ s.idcs \subseteq Idcs
          /\ s.validity \in 1..Start - 1 /\ s.skew \in 1..MaxSkew
          /\ \A c \in {"network", "dsc", "country"} : s.floors[c] \in Nat \ {0} /\ ShareBps[c] \in Nat
          /\ \A p \in s.params : /\ p.lease > 0 /\ p.handle > 0 /\ p.window \in 1..Day
                                 /\ Start > p.lease + Margin /\ Start > p.handle + Margin
          /\ s.end \in Nat /\ s.faults \in Nat

VARIABLES
    st,         \* the module's store
    revoked,    \* x/pki: the signers whose certificates are revoked
    owner,      \* whose identity a used idc is: known to that person alone
    now, phase, \* block time in seconds; "begin", "txs" or "commit"
    plan,       \* the behaviour's scenario
    faults      \* retirements and sweeps that have failed

vars == <<st, revoked, owner, now, phase, plan, faults>>

\* A map as the store has it: Set and Remove.
Put(f, x, v) == [y \in DOMAIN f \cup {x} |-> IF y = x THEN v ELSE f[y]]
Drop(f, X)   == [y \in DOMAIN f \ X |-> f[y]]
Empty == [x \in {} |-> 0]

Least(a, b) == IF a < b THEN a ELSE b

\* The keys of an index, <<time, id>>, in the order a walk meets them.
KeyOrder(a, b) == a[1] < b[1] \/ (a[1] = b[1] /\ a[2] < b[2])
Walk(keys) == SetToSortSeq(keys, KeyOrder)
First(n, s) == SubSeq(s, 1, Least(n, Len(s)))

Today == now \div Day

-----------------------------------------------------------------------------
\* The identity tree: its non-zero leaves by index, and its size.  Its root
\* commits to the leaves and not to the size.
IdentityLeaf(idc, dsc, act, pred) ==
    [kind |-> "member", idc |-> idc, dsc |-> dsc, act |-> act, pred |-> pred]
SuccessionLeaf(old, new) == [kind |-> "succession", old |-> old, new |-> new]

appendLeaf(k, leaf) == [k EXCEPT !.tree = Put(@, k.size, leaf), !.size = @ + 1]
zeroLeaf(k, i) == [k EXCEPT !.tree = Drop(@, {i})]

\* Fault variant: a root that recurs keeps its old entry in the index.
putIdentityRootStale(k, root, time, size) ==
    [k EXCEPT !.roots = Put(@, root, [time |-> time, size |-> size]),
              !.byTime = @ \cup {<<time, root>>}]

\* putIdentityRoot: a root that recurs moves in the index by time.
putIdentityRoot(k, root, time, size) ==
    [k EXCEPT !.roots = Put(@, root, [time |-> time, size |-> size]),
              !.byTime = {e \in @ : e[2] # root} \cup {<<time, root>>}]

recordIdentityRoot(k, t) ==
    IF k.latest = k.tree THEN k
    ELSE [putIdentityRoot(k, k.tree, t, k.size) EXCEPT !.latest = k.tree]

\* pruneIdentityRoots: the oldest roots past the window, up to the limit; of
\* those of one second, any.
Lapsed(k) == {e \in k.byTime : e[1] + k.params.window < now /\ e[2] # k.latest}
Doomed(k) ==
    {D \in SUBSET Lapsed(k) :
        /\ Cardinality(D) = Least(RootPruneLimit, Cardinality(Lapsed(k)))
        /\ \A e \in D, f \in Lapsed(k) \ D : e[1] <= f[1]}
Pruned(k, D) ==
    [k EXCEPT !.byTime = @ \ D, !.roots = Drop(@, {e[2] : e \in D})]

\* CheckIdentityAnchor.
CheckIdentityAnchor(k, root) ==
    /\ root \in DOMAIN k.roots
    /\ root = k.latest \/ now <= k.roots[root].time + k.params.window

\* What a membership proof (external: circuits/membership) shows under a root:
\* a leaf of the prover's, activated and succeeding by the bounds.
Member(root, idc) ==
    {i \in DOMAIN root : root[i].kind = "member" /\ root[i].idc = idc}
VerifyMembership(root, idc, maxAct, maxPred) ==
    \E i \in Member(root, idc) : root[i].act <= maxAct /\ root[i].pred <= maxPred
NoBound == plan.end

\* What a move proof shows (external: circuits/move): new is live under the
\* root and succeeds old.
VerifyMove(root, old, new) ==
    /\ Member(root, new) # {}
    /\ \E i \in DOMAIN root : root[i] = SuccessionLeaf(old, new)

-----------------------------------------------------------------------------
\* The daily caps.  A bucket is the network, a signer or a country.
Network   == <<"network", 0>>
Signer(d)  == <<"dsc", d>>
Country(d) == <<"country", CountryOf[d]>>

NoCounter == [day |-> 0, count |-> 0, prev |-> 0]

\* counterFor: a counter read today.
Counter(k, b) ==
    LET c == IF b \in DOMAIN k.rates THEN k.rates[b] ELSE NoCounter
    IN  IF c.day = Today THEN c
        ELSE [day |-> Today, count |-> 0, prev |-> IF c.day + 1 = Today THEN c.count ELSE 0]

\* DailyRegistrationCap: a floor, or a share of the network's previous day.
DailyCap(k, b) ==
    LET share == (Counter(k, Network).prev * ShareBps[b[1]]) \div BpsDenominator
    IN  IF share > plan.floors[b[1]] THEN share ELSE plan.floors[b[1]]

\* checkRegistrationRate, checkSwitchRate: a switch counts against its signer only.
Buckets(dsc, switched) == IF switched THEN {Signer(dsc)} ELSE {Network, Signer(dsc), Country(dsc)}
checkRate(k, dsc, switched) ==
    \A b \in Buckets(dsc, switched) : Counter(k, b).count < DailyCap(k, b)
recordRate(k, dsc, switched) ==
    LET bs == Buckets(dsc, switched)
    IN  [k EXCEPT !.rates = [b \in DOMAIN @ \cup bs |->
            IF b \in bs THEN [Counter(k, b) EXCEPT !.count = @ + 1] ELSE @[b]]]

-----------------------------------------------------------------------------
\* Registrations: passport -> leaf, at, pred, dsc, idc, date.  (ActivatedAt is
\* RegisteredAt in every record the chain writes.)
isExpired(reg) == now > reg.at + plan.validity
isLiveRegistration(k, p) == p \in DOMAIN k.regs /\ ~isExpired(k.regs[p])

addRegistration(k, p, reg) ==
    [k EXCEPT !.regs = Put(@, p, reg), !.byAt = @ \cup {<<reg.at, p>>},
              !.byDsc = @ \cup {<<reg.dsc, p>>},
              !.counts = [@ EXCEPT ![reg.dsc] = @ + 1], !.count = @ + 1]

removeRegistration(k, p) ==
    LET reg == k.regs[p]
    IN  [zeroLeaf(k, reg.leaf) EXCEPT
              !.retry = Drop(@, {p}), !.regs = Drop(@, {p}),
              !.byAt = @ \ {<<reg.at, p>>}, !.byDsc = @ \ {<<reg.dsc, p>>},
              !.counts = [@ EXCEPT ![reg.dsc] = @ - 1], !.count = @ - 1]

\* markBindingUsed: the binding of a registration names its idc.
markBindingUsed(k, idc, date) ==
    LET skewed == date + MaxSkew + Grace
        until  == IF skewed <= now THEN now + Grace ELSE skewed
    IN  [k EXCEPT !.bindings = Put(@, idc, until), !.bindingExpiry = @ \cup {<<until, idc>>}]

\* What checkRegistration asks of a registration of passport p.
checkRegistration(k, p, idc, dsc, date) ==
    /\ idc \notin DOMAIN k.bindings
    /\ now - date \in -plan.skew..plan.skew
    /\ dsc \in SignersOf[p] \ revoked
    /\ idc \notin k.usedIdcs
    /\ isLiveRegistration(k, p) => /\ dsc = k.regs[p].dsc
                                  /\ date > k.regs[p].date
    /\ checkRate(k, dsc, isLiveRegistration(k, p))

\* Register.  The notes it mints are x/shielded's and the allocation's.
Register(k, p, idc, dsc, date) ==
    LET switched == isLiveRegistration(k, p)
        k1   == IF p \in DOMAIN k.regs THEN removeRegistration(k, p) ELSE k
        seen == p \in DOMAIN k.seen
        pred == IF seen \/ switched THEN now ELSE 0
        k2   == [markBindingUsed(k1, idc, date) EXCEPT
                    !.usedIdcs = @ \cup {idc}, !.seen = Put(@, p, idc)]
        k3   == appendLeaf(k2, IdentityLeaf(idc, dsc, now, pred))
        k4   == IF seen THEN appendLeaf(k3, SuccessionLeaf(k.seen[p], idc)) ELSE k3
        k5   == addRegistration(k4, p, [leaf |-> k2.size, at |-> now, pred |-> pred,
                                        dsc |-> dsc, idc |-> idc, date |-> date])
    IN  recordRate(k5, dsc, switched)

-----------------------------------------------------------------------------
\* Caretaker splits: idc -> expiry, with an index by expiry and a count.
setCaretakerVote(k, idc, exp) ==
    LET has == idc \in DOMAIN k.votes
        k1  == IF has THEN [k EXCEPT !.voteExpiry = @ \ {<<k.votes[idc], idc>>}] ELSE k
    IN  IF exp = 0
        THEN [k1 EXCEPT !.votes = Drop(@, {idc}), !.voteCount = IF has THEN @ - 1 ELSE @]
        ELSE [k1 EXCEPT !.votes = Put(@, idc, exp), !.voteExpiry = @ \cup {<<exp, idc>>},
                        !.voteCount = IF has THEN @ ELSE @ + 1]

\* leaseSeconds: R, or the longer one held since R was lowered.
leaseSeconds(k) ==
    IF now < k.hold.until /\ k.hold.seconds > k.params.lease
    THEN k.hold.seconds ELSE k.params.lease
LeaseActivationBound(k) == now - leaseSeconds(k) - Margin

holdLeaseSeconds(k, next) ==
    LET cur == leaseSeconds(k)
    IN  IF next.lease >= cur THEN k
        ELSE [k EXCEPT !.hold = [seconds |-> cur,
                                 until |-> IF @.until > now + cur THEN @.until ELSE now + cur]]

\* caretakerStatement: a new split needs a predecessor before the bound; one
\* the prover holds live may be renewed, changed or cleared by any leaf.  The
\* prover chooses max_predecessor, so a bound b admits the leaves below b.
HoldsSplit(k, idc) == idc \in DOMAIN k.votes /\ k.votes[idc] > now
checkCaretaker(k, idc, root, clear) ==
    /\ CheckIdentityAnchor(k, root)
    /\ IF HoldsSplit(k, idc) \/ clear
       THEN VerifyMembership(root, idc, NoBound, NoBound)
       ELSE /\ idc \notin k.caretakerMovedOut
            /\ LeaseActivationBound(k) > 0
            /\ VerifyMembership(root, idc, NoBound, LeaseActivationBound(k) - 1)
SetCaretaker(k, idc, clear) ==
    setCaretakerVote(k, idc, IF clear THEN 0 ELSE now + k.params.lease)

checkMoveCaretaker(k, old, new, root) ==
    /\ HoldsSplit(k, old)
    /\ new \notin DOMAIN k.votes /\ new \notin k.caretakerMovedOut
    /\ CheckIdentityAnchor(k, root) /\ VerifyMove(root, old, new)
applyMoveCaretaker(k, old, new) ==
    LET exp == k.votes[old]
    IN  [k EXCEPT !.votes = Put(Drop(@, {old}), new, exp),
                  !.voteExpiry = (@ \ {<<exp, old>>}) \cup {<<exp, new>>},
                  !.caretakerMovedOut = @ \cup {old}]

-----------------------------------------------------------------------------
\* Handles: name -> [nf, exp], the name an identity holds, and the index of
\* expiries.
liveHandle(k, h) == h \in DOMAIN k.handles /\ now < k.handles[h].exp
HandleFree(k, h) == now >= k.handles[h].exp + Renewal
handleClaimable(k, idc, h) ==
    h \in DOMAIN k.handles => k.handles[h].nf = idc \/ HandleFree(k, h)

putHandle(k, h, rec) ==
    [k EXCEPT !.handles = Put(@, h, rec), !.byNf = Put(@, rec.nf, h),
              !.release = @ \cup {<<rec.exp, h>>}]

deleteHandle(k, h) ==
    IF h \notin DOMAIN k.handles THEN k
    ELSE LET rec == k.handles[h]
         IN  [k EXCEPT !.release = @ \ {<<rec.exp, h>>}, !.handles = Drop(@, {h}),
                       !.byNf = IF rec.nf \in DOMAIN @ /\ @[rec.nf] = h THEN Drop(@, {rec.nf}) ELSE @]

holdsLiveHandle(k, idc) == idc \in DOMAIN k.byNf /\ liveHandle(k, k.byNf[idc])
handleClaimBound(k) ==
    now - (IF k.leaseMax > k.params.handle THEN k.leaseMax ELSE k.params.handle) - Margin

NoHandle == 0

\* handleStatement: as for a split, with the longest lease there ever was.
handleStatement(k, idc, root, h) ==
    IF h = NoHandle \/ holdsLiveHandle(k, idc)
    THEN VerifyMembership(root, idc, NoBound, NoBound)
    ELSE /\ idc \notin k.handleMovedOut
         /\ handleClaimBound(k) > 0
         /\ VerifyMembership(root, idc, NoBound, handleClaimBound(k) - 1)

checkBindHandle(k, idc, root, h) ==
    /\ h # NoHandle => handleClaimable(k, idc, h)
    /\ CheckIdentityAnchor(k, root)
    /\ handleStatement(k, idc, root, h)

\* applyBindHandle: claim, renew, change or (h = NoHandle) release.
applyBindHandle(k, idc, h) ==
    LET has == idc \in DOMAIN k.byNf
        cur == k.byNf[idc]
        k1  == IF has /\ cur # h THEN deleteHandle(k, cur) ELSE k
        k2  == IF h \notin DOMAIN k1.handles THEN k1
               ELSE IF k1.handles[h].nf # idc THEN deleteHandle(k1, h)
               ELSE [k1 EXCEPT !.release = @ \ {<<k1.handles[h].exp, h>>}]
    IN  IF h = NoHandle THEN k1
        ELSE putHandle(k2, h, [nf |-> idc, exp |-> now + k.params.handle])

checkMoveHandle(k, old, new, root) ==
    /\ holdsLiveHandle(k, old)
    /\ new \notin DOMAIN k.byNf /\ new \notin k.handleMovedOut
    /\ CheckIdentityAnchor(k, root) /\ VerifyMove(root, old, new)

\* Fault variant: the mover is not noted, and claims afresh under its old root.
applyMoveHandleUnmarked(k, old, new) ==
    LET h == k.byNf[old]
    IN  putHandle([k EXCEPT !.byNf = Drop(@, {old})], h, [k.handles[h] EXCEPT !.nf = new])

\* applyMoveHandle: the old identity never claims again.
applyMoveHandle(k, old, new) ==
    LET h == k.byNf[old]
    IN  [putHandle([k EXCEPT !.byNf = Drop(@, {old})], h, [k.handles[h] EXCEPT !.nf = new])
            EXCEPT !.handleMovedOut = @ \cup {old}]

-----------------------------------------------------------------------------
\* Fault variant: an identity activated by the start of the day claims.
checkClaimToday(k, idc, root) ==
    /\ <<Today, idc>> \notin k.claims
    /\ CheckIdentityAnchor(k, root)
    /\ VerifyMembership(root, idc, Today * Day, NoBound)

\* The ANML claim of a day: an identity activated by the start of the day
\* before.
checkClaim(k, idc, root) ==
    /\ <<Today, idc>> \notin k.claims
    /\ CheckIdentityAnchor(k, root)
    /\ VerifyMembership(root, idc, (Today - 1) * Day, NoBound)

\* Claims of the days before yesterday go, oldest first.
pruneClaimNullifiers(k) ==
    LET old == Walk({c \in k.claims : c[1] < Today - 1})
    IN  [k EXCEPT !.claims = @ \ ToSet(First(ClaimPruneLimit, old))]

-----------------------------------------------------------------------------
\* The sweeps.  Each takes a budget and gives the store it leaves and how much
\* it used.  `bad` are the passports whose retirement fails this block.
Swept(k, used) == [k |-> k, used |-> used]

\* Fault variant: a retirement that failed once waits for ever.
sweepRetryingForever(k, p) == p \in DOMAIN k.retry

sweepRetrying(k, p) == p \in DOMAIN k.retry /\ now < k.retry[p]

retireOrRetryLater(k, p, bad) ==
    IF p \in bad THEN [k EXCEPT !.retry = Put(@, p, now + RetrySeconds)]
    ELSE removeRegistration(k, p)
retireAll(k, ps, bad) ==
    LET Step(acc, p) == retireOrRetryLater(acc, p, bad) IN FoldLeft(Step, k, ps)

\* Of the entries a walk scans, the first `budget` not waiting for a retry.
Ripe(k, entries, budget) ==
    LET Awake(e) == ~sweepRetrying(k, e[2])
    IN  First(budget, SelectSeq(First(budget * ScanFactor, entries), Awake))

\* purgeRevokedDscs: the registrations of revoked signers, signer by signer. A
\* signer the walk reaches and finds without any is done.
purgeRevokedDscs(k, budget, bad) ==
    LET entries == Walk({e \in k.byDsc : e[1] \in k.purge})
        victims == Ripe(k, entries, budget)
        stop    == IF Len(victims) >= budget THEN {victims[budget][1]}
                   ELSE IF Len(entries) >= budget * ScanFactor
                        THEN {entries[budget * ScanFactor][1]} ELSE {}
        drained == {d \in k.purge : /\ \A e \in k.byDsc : e[1] # d
                                    /\ \A s \in stop : d < s}
    IN  Swept(retireAll([k EXCEPT !.purge = @ \ drained], [i \in DOMAIN victims |-> victims[i][2]], bad),
              Len(victims))

sweepExpiredRegistrations(k, budget, bad) ==
    LET expired == Ripe(k, Walk({e \in k.byAt : e[1] < now - plan.validity}), budget)
    IN  Swept(retireAll(k, [i \in DOMAIN expired |-> expired[i][2]], bad), Len(expired))

sweepUsedBindings(k, budget) ==
    LET lapsed == First(budget, Walk({e \in k.bindingExpiry : e[1] <= now}))
    IN  Swept([k EXCEPT !.bindingExpiry = @ \ ToSet(lapsed),
                        !.bindings = Drop(@, {e[2] : e \in ToSet(lapsed)})], Len(lapsed))

sweepHandles(k, budget) ==
    LET due == First(budget, Walk({e \in k.release : e[1] <= now - Renewal}))
        Step(acc, e) == deleteHandle(acc, e[2])
    IN  Swept(FoldLeft(Step, k, due), Len(due))

\* runSweep, of the sweep at a place in runSweeps' order; one that fails does
\* nothing.
runSweep(i, k, budget, bad, fails) ==
    IF budget <= 0 \/ fails THEN Swept(k, 0)
    ELSE CASE i = 1 -> purgeRevokedDscs(k, budget, bad)
           [] i = 2 -> sweepExpiredRegistrations(k, budget, bad)
           [] i = 3 -> sweepUsedBindings(k, budget)
           [] i = 4 -> sweepHandles(k, budget)

\* runSweeps: a share each, what one leaves carried to the next, and what all
\* leave offered again to those that used up their allowance.  `down` are the
\* sweeps that fail this block, by round and place.
Reserve == IF SweepLimit \div ReserveDivisor = 0 THEN 1 ELSE SweepLimit \div ReserveDivisor
Share(i) == IF i = 1 THEN SweepLimit - 3 * Reserve ELSE Reserve

runSweeps(k0, bad, down) ==
    LET Once(a, i) ==
            LET allowance == Least(Share(i) + a.carry, a.left)
                s == runSweep(i, a.k, allowance, bad, <<1, i>> \in down)
            IN  [k |-> s.k, left |-> a.left - s.used, carry |-> allowance - s.used,
                 full |-> IF allowance > 0 /\ s.used >= allowance THEN a.full \cup {i} ELSE a.full]
        Again(a, i) ==
            IF a.left <= 0 \/ i \notin a.full THEN a
            ELSE LET s == runSweep(i, a.k, a.left, bad, <<2, i>> \in down)
                 IN  [a EXCEPT !.k = s.k, !.left = @ - s.used]
        order == <<1, 2, 3, 4>>
    IN  FoldLeft(Again, FoldLeft(Once, [k |-> k0, left |-> SweepLimit, carry |-> 0, full |-> {}], order),
                 order).k

\* sweepCaretakerVotes, on a budget of its own; `bad` of the lapsed fail, as
\* all do when the sweep itself does.
sweepCaretakerVotes(k, bad) ==
    LET lapsed == ToSet(First(CaretakerSweepLimit, Walk({e \in k.voteExpiry : e[1] <= now})))
        gone   == {e \in lapsed : e[2] \notin bad}
    IN  [k EXCEPT !.voteExpiry = @ \ gone, !.votes = Drop(@, {e[2] : e \in gone}),
                  !.voteCount = @ - Cardinality(gone)]

-----------------------------------------------------------------------------
\* Genesis.  An export carries the records; the tree and every index are built
\* again from them on import, and of the recorded roots only those are carried
\* that the rebuilt tree had at their size: a root over a retired leaf is not.
regLeaf(reg) == IdentityLeaf(reg.idc, reg.dsc, reg.at, reg.pred)
Successions(k) == {i \in DOMAIN k.tree : k.tree[i].kind = "succession"}

identityRootsAt(k, n) ==
    LET held == {k.regs[p].leaf : p \in DOMAIN k.regs}
    IN  [i \in {j \in held \cup Successions(k) : j < n} |->
            IF i \in held THEN regLeaf(k.regs[CHOOSE p \in DOMAIN k.regs : k.regs[p].leaf = i])
            ELSE k.tree[i]]

KeptRoots(k) == {r \in DOMAIN k.roots : identityRootsAt(k, k.roots[r].size) = r}

\* What Validate and InitGenesis ask of an export, at time `now`.
RegistrationAccepted(k, p) ==
    LET reg == k.regs[p]
    IN  /\ reg.at \in 1..now /\ reg.pred \in 0..now
        /\ reg.leaf < k.size /\ reg.leaf \notin Successions(k)
        /\ \A q \in DOMAIN k.regs \ {p} : k.regs[q].leaf # reg.leaf
        /\ reg.idc \in k.usedIdcs
        /\ p \in DOMAIN k.seen => k.seen[p] = reg.idc
HandleAccepted(k, h) ==
    LET max == IF k.params.handle > k.leaseMax THEN k.params.handle ELSE k.leaseMax
    IN  /\ k.handles[h].exp \in 1..now + max
        /\ \A g \in DOMAIN k.handles \ {h} : k.handles[g].nf # k.handles[h].nf
InitAccepts(k) ==
    /\ \A p \in DOMAIN k.regs : RegistrationAccepted(k, p)
    /\ \A i \in Successions(k) : i < k.size /\ {k.tree[i].old, k.tree[i].new} \subseteq k.usedIdcs
    /\ \A p \in DOMAIN k.seen : k.seen[p] \in k.usedIdcs
    /\ \A r \in KeptRoots(k) : k.roots[r].time <= now /\ k.roots[r].size <= k.size
    /\ \A i \in DOMAIN k.votes : k.votes[i] > 0
    /\ \A h \in DOMAIN k.handles : HandleAccepted(k, h)
    /\ \A b \in DOMAIN k.bindings : k.bindings[b] > 0
    /\ k.hold.seconds = 0 <=> k.hold.until = 0

\* ExportGenesis and InitGenesis, at time `now`; the waits of failed
\* retirements are not exported.
Imported(k) ==
    LET kept == KeptRoots(k)
        k1   == [k EXCEPT
            !.tree = identityRootsAt(k, k.size),
            !.byAt = {<<k.regs[p].at, p>> : p \in DOMAIN k.regs},
            !.byDsc = {<<k.regs[p].dsc, p>> : p \in DOMAIN k.regs},
            !.counts = [d \in Dscs |-> Cardinality({p \in DOMAIN k.regs : k.regs[p].dsc = d})],
            !.count = Cardinality(DOMAIN k.regs),
            !.roots = [r \in kept |-> k.roots[r]],
            !.byTime = {<<k.roots[r].time, r>> : r \in kept},
            !.retry = Empty,
            !.bindingExpiry = {<<k.bindings[b], b>> : b \in DOMAIN k.bindings},
            !.voteExpiry = {<<k.votes[i], i>> : i \in DOMAIN k.votes},
            !.voteCount = Cardinality(DOMAIN k.votes),
            !.byNf = [i \in {k.handles[h].nf : h \in DOMAIN k.handles} |->
                        CHOOSE h \in DOMAIN k.handles : k.handles[h].nf = i],
            !.release = {<<k.handles[h].exp, h>> : h \in DOMAIN k.handles},
            !.leaseMax = IF k.params.handle > @ THEN k.params.handle ELSE @]
    IN  recordIdentityRoot(k1, now)

-----------------------------------------------------------------------------
EmptyStore(params) ==
    [regs |-> Empty, byAt |-> {}, byDsc |-> {}, counts |-> [d \in Dscs |-> 0], count |-> 0,
     tree |-> Empty, size |-> 0, seen |-> Empty, usedIdcs |-> {},
     bindings |-> Empty, bindingExpiry |-> {},
     roots |-> Put(Empty, Empty, [time |-> Start, size |-> 0]),
     byTime |-> {<<Start, Empty>>}, latest |-> Empty,
     purge |-> {}, retry |-> Empty, rates |-> Empty, claims |-> {},
     votes |-> Empty, voteExpiry |-> {}, voteCount |-> 0, caretakerMovedOut |-> {},
     handles |-> Empty, byNf |-> Empty, release |-> {}, handleMovedOut |-> {},
     hold |-> [seconds |-> 0, until |-> 0], leaseMax |-> params.handle, params |-> params]

Init ==
    /\ plan \in Scenarios
    /\ \E p \in plan.params : st = EmptyStore(p)
    /\ revoked = {} /\ owner = Empty
    /\ now = Start /\ phase = "commit" /\ faults = 0

Deliver(kind) == phase = "txs" /\ kind \in plan.kinds

MsgRegister(p, idc, dsc, date) ==
    /\ Deliver("register")
    /\ checkRegistration(st, p, idc, dsc, date)
    /\ st' = Register(st, p, idc, dsc, date)
    /\ owner' = Put(owner, idc, p)
    /\ UNCHANGED <<revoked, now, phase, plan, faults>>

ClaimAnml(idc, root) ==
    /\ Deliver("claim")
    /\ checkClaim(st, idc, root)
    /\ st' = [st EXCEPT !.claims = @ \cup {<<Today, idc>>}]
    /\ UNCHANGED <<revoked, owner, now, phase, plan, faults>>

MsgSetCaretaker(idc, root, clear) ==
    /\ Deliver("caretaker")
    /\ checkCaretaker(st, idc, root, clear)
    /\ st' = SetCaretaker(st, idc, clear)
    /\ UNCHANGED <<revoked, owner, now, phase, plan, faults>>

MoveCaretaker(old, new, root) ==
    /\ Deliver("caretaker")
    /\ checkMoveCaretaker(st, old, new, root)
    /\ st' = applyMoveCaretaker(st, old, new)
    /\ UNCHANGED <<revoked, owner, now, phase, plan, faults>>

BindHandle(idc, root, h) ==
    /\ Deliver("handle")
    /\ checkBindHandle(st, idc, root, h)
    /\ st' = applyBindHandle(st, idc, h)
    /\ UNCHANGED <<revoked, owner, now, phase, plan, faults>>

MoveHandle(old, new, root) ==
    /\ Deliver("handle")
    /\ checkMoveHandle(st, old, new, root)
    /\ st' = applyMoveHandle(st, old, new)
    /\ UNCHANGED <<revoked, owner, now, phase, plan, faults>>

\* Governance sets new parameters; a longer handle lease is noted for good.
UpdateParams(p) ==
    /\ Deliver("params") /\ p # st.params
    /\ st' = [holdLeaseSeconds(st, p) EXCEPT
                 !.leaseMax = IF @ >= p.handle THEN @ ELSE p.handle, !.params = p]
    /\ UNCHANGED <<revoked, owner, now, phase, plan, faults>>

\* x/pki revokes a signer and calls OnDscRevoked.
RevokeDsc(d) ==
    /\ Deliver("revoke") /\ d \notin revoked
    /\ revoked' = revoked \cup {d}
    /\ st' = [st EXCEPT !.purge = @ \cup {d}]
    /\ UNCHANGED <<owner, now, phase, plan, faults>>

\* The registrations that are due to go: their signer revoked, or expired.
Due(k) == {p \in DOMAIN k.regs : k.regs[p].dsc \in k.purge \/ isExpired(k.regs[p])}

\* Bound: one sweep fails in a block at most.
Downs == {{}} \cup {{s} : s \in (1..2) \X (1..4)}

\* BeginBlocker; the buyback it ends with touches nothing here.
BeginBlocker(bad, badVotes, down) ==
    /\ phase = "begin"
    /\ (bad # {} \/ down # {}) => now + RetrySeconds <= plan.end
    /\ faults' = faults + Cardinality(bad) + Cardinality(badVotes) + Cardinality(down)
    /\ faults' <= plan.faults
    /\ st' = pruneClaimNullifiers(runSweeps(sweepCaretakerVotes(st, badVotes), bad, down))
    /\ phase' = "txs"
    /\ UNCHANGED <<revoked, owner, now, plan>>

EndBlocker ==
    /\ phase = "txs" /\ phase' = "commit"
    /\ LET k == recordIdentityRoot(st, now)
       IN  \E D \in Doomed(k) : st' = Pruned(k, D)
    /\ UNCHANGED <<revoked, owner, now, plan, faults>>

\* The next block, at the bound of the clock in the same second.
NextBlock(d) ==
    /\ phase = "commit" /\ phase' = "begin"
    /\ now' = Least(now + d, plan.end)
    /\ UNCHANGED <<st, revoked, owner, plan, faults>>

ExportImport ==
    /\ phase = "commit" /\ "restart" \in plan.kinds
    /\ InitAccepts(st)
    /\ st' = Imported(st)
    /\ UNCHANGED <<revoked, owner, now, phase, plan, faults>>

\* Bound: identities are drawn in order.  The order only breaks ties in walks.
Fresh == {i \in plan.idcs \ DOMAIN owner : \A j \in plan.idcs \ DOMAIN owner : i <= j}
Dates == {x * Day : x \in 0..(plan.end \div Day + 1)}
RecentRoots == DOMAIN st.roots

Next ==
    \/ \E p \in plan.passports, idc \in Fresh, dsc \in Dscs, date \in Dates : MsgRegister(p, idc, dsc, date)
    \/ \E idc \in DOMAIN owner, root \in RecentRoots :
          \/ ClaimAnml(idc, root)
          \/ \E clear \in BOOLEAN : MsgSetCaretaker(idc, root, clear)
          \/ \E h \in Names \cup {NoHandle} : BindHandle(idc, root, h)
          \/ \E new \in DOMAIN owner : MoveCaretaker(idc, new, root) \/ MoveHandle(idc, new, root)
    \/ \E p \in plan.params : UpdateParams(p)
    \/ \E d \in Dscs : RevokeDsc(d)
    \/ \E bad \in SUBSET Due(st), badVotes \in SUBSET DOMAIN st.votes, down \in Downs :
          BeginBlocker(bad, badVotes, down)
    \/ EndBlocker \/ ExportImport
    \/ \E d \in Steps : NextBlock(d)

Spec == Init /\ [][Next]_vars

\* Blocks keep coming, and their time moves on (until the bound of the clock).
FairSpec == Spec /\ []<><<\E d \in Steps \ {0} : NextBlock(d)>>_vars

-----------------------------------------------------------------------------
OwnedBy(p) == {i \in DOMAIN owner : owner[i] = p}

\* A restart keeps the store: InitGenesis takes every export, and what it
\* rebuilds from the records of ExportGenesis is what the chain had, indexes and counts included, except for
\* the waits of failed retirements and the roots it drops; and every root it
\* keeps is over leaves still in the tree, so no retired identity proves again.
RestartKeeps ==
    phase = "commit" =>
        LET k == Imported(st)
        IN  /\ InitAccepts(st)
            /\ k = [st EXCEPT !.retry = k.retry, !.roots = k.roots, !.byTime = k.byTime]
            /\ k.latest \in DOMAIN k.roots
            /\ \A r \in DOMAIN k.roots : DOMAIN r \subseteq DOMAIN st.tree

\* The registry is exact: the live leaves of the tree are the registrations',
\* each passport has one, its last identity's; every identity a passport has
\* left has one successor leaf, to another of the same passport; the latest
\* root is the committed tree's; no bucket is over its daily cap; and a restart
\* at any commit keeps all of it.
RegistryExact ==
    /\ RestartKeeps
    /\ st.count \in Nat /\ st.size \in Nat /\ phase \in {"begin", "txs", "commit"}
    /\ {i \in DOMAIN st.tree : st.tree[i].kind = "member"} = {st.regs[p].leaf : p \in DOMAIN st.regs}
    /\ \A p \in DOMAIN st.regs : /\ st.tree[st.regs[p].leaf] = regLeaf(st.regs[p])
                                 /\ st.seen[p] = st.regs[p].idc
    /\ \A p \in Passports : \A i \in OwnedBy(p) :
          LET next == {j \in Successions(st) : st.tree[j].old = i}
          IN  IF i = st.seen[p] THEN next = {}
              ELSE \E j \in next : next = {j} /\ st.tree[j].new \in OwnedBy(p)
    /\ phase = "commit" => st.latest = st.tree
    /\ st.byTime = {<<st.roots[r].time, r>> : r \in DOMAIN st.roots}
    /\ st.usedIdcs = DOMAIN owner
    /\ \A b \in DOMAIN st.rates : st.rates[b].day = Today => st.rates[b].count <= DailyCap(st, b)

\* One person, one claim: no two identities of a passport claim the same day,
\* whatever roots they prove under (with a root window below a day).
\* claimStatement's activation bound keeps a new identity out until its
\* predecessor's roots have lapsed.
OneClaim ==
    \A c, e \in st.claims : (c[1] = e[1] /\ owner[c[2]] = owner[e[2]]) => c = e

\* What claimStatement's comment says of every root window governance may set,
\* the longest (a day) included: its activation bound "is what stops a switch to
\* a new identity secret from claiming a second time on a day the old one
\* already claimed".
SwitchClaimsOnce == OneClaim

\* No two identities of a passport hold live caretaker splits.
OneSplit ==
    \A i, j \in DOMAIN st.votes :
        (HoldsSplit(st, i) /\ HoldsSplit(st, j) /\ owner[i] = owner[j]) => i = j

\* No two identities of a passport hold live handles.
OneHandle ==
    \A i, j \in DOMAIN st.byNf :
        (holdsLiveHandle(st, i) /\ holdsLiveHandle(st, j) /\ owner[i] = owner[j]) => i = j

\* One person, one caretaker split and one handle, through switches, moves and
\* changes of the lease and the window: a person's identities never hold two.
OneRight == OneSplit /\ OneHandle

\* What is due goes: a registration that expires or whose signer is revoked is
\* in time retired, though a retirement fails and is put off or a whole sweep
\* fails (runSweep), and the purge of a revoked signer ends.
Retired ==
    /\ \A p \in Passports : (p \in Due(st)) ~> (p \notin Due(st))
    /\ \A d \in Dscs : (d \in st.purge) ~> (d \notin st.purge)
=============================================================================
