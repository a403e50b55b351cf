------------------------------ MODULE Assembly ------------------------------
(***************************************************************************)
(* x/assembly, the human chamber over x/gov.  A proposal passes only if    *)
(* the chamber approves it in the round that ends and stake passes it in   *)
(* the same EndBlock; the chamber alone strikes a groundworks option.  A   *)
(* person votes by a membership proof (module Personhood, whose store is   *)
(* st): one identity of a passport in a round, and not the people a        *)
(* revocation is about.                                                    *)
(*                                                                         *)
(* The chamber's store is the record ch.  gov is what this module uses of  *)
(* x/gov (external): the proposals and the queue of those in voting.  A    *)
(* block ends as app_config orders it: assembly, gov, personhood.          *)
(***************************************************************************)
EXTENDS Personhood

CONSTANTS
    Proposals, Options,         \* numbers from 1: ids x/gov and x/allocation give
    Contents,                   \* bound: what a proposal's messages may be
    VotingPeriod, ExpeditedPeriod,
    RemovalVotingPeriod, RemovalCooldown,
    OrphanBallotCheckLimit, ClosedVotePurgeLimit,
    MaxBallots                  \* bound: the ballots opened or imported

ASSUME AssemblyAssumption ==
    /\ Proposals \subseteq Nat \ {0} /\ Options \subseteq Nat \ {0}
    /\ \A n \in {VotingPeriod, ExpeditedPeriod, RemovalVotingPeriod, RemovalCooldown,
                 OrphanBallotCheckLimit, ClosedVotePurgeLimit, MaxBallots} : n \in Nat \ {0}
    /\ ExpeditedPeriod < VotingPeriod
    \* Bounds: a scenario also says which proposals are made and who votes.
    /\ \A c \in Scenarios : c.proposals \subseteq Proposals /\ c.voters \subseteq Passports
    \* x/pki's answers (DscIssuerCountry): a country only where it is certain.
    /\ \A c \in Contents : \A r \in c.revs :
          /\ r.dsc \in Dscs \cup {0} /\ r.placed \in BOOLEAN
          /\ r.dsc \in Dscs /\ r.placed => r.country \in {0, CountryOf[r.dsc]}
          /\ ~r.placed => r.dsc \in Dscs /\ \A p \in Passports : r.dsc \notin SignersOf[p]

VARIABLES
    ch,       \* the chamber's store
    gov,      \* x/gov: [props, queue]
    options,  \* x/allocation: the live groundworks options
    said      \* what each passport last said in the round now open, by subject

chamber == <<ch, gov, options, said>>
allVars == <<st, revoked, owner, now, phase, plan, faults, ch, gov, options, said>>

-----------------------------------------------------------------------------
\* approves: num of den of the votes cast, and at least one vote.
approves(t, num, den) == t.yes + t.no > 0 /\ t.yes * den >= (t.yes + t.no) * num
Approves(t) == approves(t, 2, 3)
ApprovesExpedited(t) == approves(t, 3, 4)
Bar(t, expedited) == IF expedited THEN ApprovesExpedited(t) ELSE Approves(t)

NoVotes == [yes |-> 0, no |-> 0]
ballotTally(k, b) == IF b \in DOMAIN k.tally THEN k.tally[b] ELSE NoVotes

newBallot(k) == [k EXCEPT !.seq = @ + 1, !.tally = Put(@, k.seq + 1, NoVotes)]

\* closeBallot, for each of B.
closeBallots(k, B) == [k EXCEPT !.tally = Drop(@, B), !.closed = @ \cup B]

proposalTally(k, p) == IF p \in DOMAIN k.ballot THEN ballotTally(k, k.ballot[p]) ELSE NoVotes

\* endProposalRound, for each of X.
endProposalRounds(k, X) ==
    [closeBallots(k, {k.ballot[p] : p \in X \cap DOMAIN k.ballot}) EXCEPT !.ballot = Drop(@, X)]

\* castVote and recordVote: a second vote replaces the first.
castVote(k, b, idc, opt) ==
    LET t == ballotTally(k, b)
        u == IF <<b, idc>> \in DOMAIN k.votes THEN [t EXCEPT ![k.votes[<<b, idc>>]] = @ - 1] ELSE t
    IN  [k EXCEPT !.votes = Put(@, <<b, idc>>, opt), !.tally = Put(@, b, [u EXCEPT ![opt] = @ + 1])]

\* purgeClosedBallots: the votes of closed ballots, oldest ballot first, and
\* each ballot cleared with budget to spare.
purgeClosedBallots(k) ==
    LET dead(B) == {v \in DOMAIN k.votes : v[1] \in B}
    IN  [k EXCEPT
            !.votes = Drop(@, ToSet(First(ClosedVotePurgeLimit, Walk(dead(k.closed))))),
            !.closed = @ \ {b \in k.closed :
                Cardinality(dead({c \in k.closed : c <= b})) < ClosedVotePurgeLimit}]

-----------------------------------------------------------------------------
\* Subjects.  A revocation is [dsc, country, placed]: dsc 0 for a signing root,
\* country 0 for one x/pki cannot tell, placed FALSE for a signer nobody can
\* have registered under.
Nobody   == <<"nobody", 0>>
Refused  == <<"refused", 0>>
OfDsc(d) == <<"dsc", d>>
OfCountry(c) == <<"country", c>>

\* classify.
classify(revs) ==
    LET placed == {r \in revs : r.placed}
        C      == {r.country : r \in placed}
    IN  CASE revs = {} -> Nobody
          [] Cardinality(revs) = 1 /\ \A r \in revs : r.dsc # 0 -> OfDsc((CHOOSE r \in revs : TRUE).dsc)
          [] OTHER -> CASE 0 \in C -> Refused
                        [] C = {} -> Nobody
                        [] Cardinality(C) = 1 -> OfCountry(CHOOSE c \in C : TRUE)
                        [] OTHER -> Refused

\* subjectsFor: revocations only stand alone; a wrapped one is refused.
subjectsFor(content) ==
    IF content.wrapped \/ (content.revs # {} /\ content.other) THEN Refused
    ELSE classify(content.revs)

classifyProposal(k, p, content) ==
    IF p \in DOMAIN k.subjects THEN k ELSE [k EXCEPT !.subjects = Put(@, p, subjectsFor(content))]

forgetSubjects(k, X) == [k EXCEPT !.subjects = Drop(@, X)]
removeRounds(k, X)   == [k EXCEPT !.rounds = Drop(@, X)]

\* What a vote's proof shows (external: circuits/membership): a leaf by the
\* predecessor bound, of no excluded signer or country.
VerifyVote(root, idc, maxPred, subject) ==
    \E i \in Member(root, idc) :
        /\ root[i].pred <= maxPred
        /\ subject # OfDsc(root[i].dsc) /\ subject # OfCountry(CountryOf[root[i].dsc])

-----------------------------------------------------------------------------
Voting(g, p) == p \in DOMAIN g.props /\ g.props[p].status = "voting"

\* proposalRound.
proposalRound(k, g, p) ==
    IF p \in DOMAIN k.rounds THEN k.rounds[p] ELSE [round |-> 0, opened |-> g.props[p].start]
nextRound(k, g, p) == [round |-> proposalRound(k, g, p).round + 1, opened |-> now]

\* Fault variant: the bound is the round's opening, with no margin.
MaxPredecessorOpen(opened) == opened

\* The latest switch a voter may have made: a margin before the ballot opened.
MaxPredecessor(opened) == opened - Margin

checkVoteProposal(p, idc, root) ==
    /\ Voting(gov, p)
    /\ p \in DOMAIN ch.subjects /\ ch.subjects[p] # Refused
    /\ CheckIdentityAnchor(st, root)
    /\ VerifyVote(root, idc, MaxPredecessor(proposalRound(ch, gov, p).opened), ch.subjects[p])

checkVoteRemoval(o, idc, root) ==
    /\ o \in DOMAIN ch.removals /\ now < ch.removals[o].closes
    /\ CheckIdentityAnchor(st, root)
    /\ VerifyVote(root, idc, MaxPredecessor(ch.removals[o].opened), Nobody)

checkProposeRemoval(o, idc, root) ==
    /\ o \in options
    /\ o \notin DOMAIN ch.removals
    /\ o \in DOMAIN ch.cooldown => now >= ch.cooldown[o]
    /\ CheckIdentityAnchor(st, root)
    /\ VerifyVote(root, idc, Today * Day - Margin, Nobody)

Hear(subject, idc, opt) ==
    said' = Put(said, subject, Put(IF subject \in DOMAIN said THEN said[subject] ELSE Empty,
                                   owner[idc], opt))
OnProposal(p) == <<"proposal", p>>
OnRemoval(o)  == <<"removal", o>>

\* VoteProposal: the first vote of a round opens its ballot.
VoteProposal(p, idc, root, opt) ==
    /\ Deliver("vote") /\ checkVoteProposal(p, idc, root)
    /\ LET k == IF p \in DOMAIN ch.ballot THEN ch
                ELSE [newBallot(ch) EXCEPT !.ballot = Put(@, p, ch.seq + 1)]
       IN  k.seq <= MaxBallots /\ ch' = castVote(k, k.ballot[p], idc, opt)
    /\ Hear(OnProposal(p), idc, opt)
    /\ UNCHANGED <<vars, gov, options>>

ProposeRemoval(o, idc, root) ==
    /\ Deliver("removal") /\ checkProposeRemoval(o, idc, root) /\ ch.seq < MaxBallots
    /\ LET closes == now + RemovalVotingPeriod
           id     == ch.seq + 1
       IN  ch' = [newBallot(ch) EXCEPT
                    !.removals = Put(@, o, [closes |-> closes, opened |-> now, ballot |-> id]),
                    !.removalQueue = @ \cup {<<closes, o>>},
                    !.removalId = Put(@, o, id), !.cooldown = Drop(@, {o})]
    /\ UNCHANGED <<vars, gov, options, said>>

VoteRemoval(o, idc, root, opt) ==
    /\ Deliver("removal") /\ checkVoteRemoval(o, idc, root)
    /\ ch' = castVote(ch, ch.removals[o].ballot, idc, opt)
    /\ Hear(OnRemoval(o), idc, opt)
    /\ UNCHANGED <<vars, gov, options>>

-----------------------------------------------------------------------------
\* x/gov (external).  A proposal enters voting with its deposit, and the hook
\* AfterProposalDeposit fixes its subjects; its proposer may cancel it, which
\* deletes it.
SubmitProposal(content, expedited) ==
    /\ Deliver("submit")
    /\ content.revs # {} \/ content.wrapped => "revocation" \in plan.kinds
    /\ LET p   == Cardinality(gov.ids) + 1
           end == now + (IF expedited THEN ExpeditedPeriod ELSE VotingPeriod)
       IN  /\ p \in plan.proposals
           /\ gov' = [ids |-> gov.ids \cup {p},
                      props |-> Put(gov.props, p, [status |-> "voting", expedited |-> expedited,
                                                   start |-> now, end |-> end, content |-> content]),
                      queue |-> gov.queue \cup {<<end, p>>}]
           /\ ch' = classifyProposal(ch, p, content)
    /\ UNCHANGED <<vars, options, said>>

CancelProposal(p) ==
    /\ Deliver("cancel") /\ Voting(gov, p) /\ gov.props[p].end >= now
    /\ gov' = [gov EXCEPT !.props = Drop(@, {p}), !.queue = @ \ {<<gov.props[p].end, p>>}]
    /\ said' = Drop(said, {OnProposal(p)})
    /\ UNCHANGED <<vars, ch, options>>

\* x/allocation collects an idle option while its ballot is open.
PruneOption(o) ==
    /\ Deliver("removal") /\ o \in options
    /\ options' = options \ {o}
    /\ UNCHANGED <<vars, ch, gov, said>>

-----------------------------------------------------------------------------
\* A step of the block's end takes and gives s = [k, g]: the chamber's store
\* and x/gov's.  Those of one proposal touch that proposal alone, so the loops
\* over the due ones are taken at once.
DueProposals(g) == {e[2] : e \in {x \in g.queue : x[1] <= now}}
Requeued(g, X) ==
    LET end(p) == g.props[p].start + VotingPeriod
    IN  [g EXCEPT
            !.props = [p \in DOMAIN @ |-> IF p \in X THEN [@[p] EXCEPT !.expedited = FALSE, !.end = end(p)]
                                          ELSE @[p]],
            !.queue = {e \in @ : e[2] \notin X} \cup {<<end(p), p>> : p \in X}]
Closed(g, X, status) ==
    [g EXCEPT !.props = [p \in DOMAIN @ |-> IF p \in X THEN [@[p] EXCEPT !.status = status] ELSE @[p]],
              !.queue = {e \in @ : e[2] \notin X}]

\* Fault variant: into the past too, where x/gov tallies it in this block.
demotableAlways(g, p) == g.props[p].expedited

\* demoteExpedited: only into a voting period that still lies ahead.
demotable(g, p) == g.props[p].expedited /\ g.props[p].start + VotingPeriod > now

\* resolveDueProposals: the approved are left to x/gov, an expedited one in the
\* next round; an expedited one declined is demoted where it can be; the rest,
\* and the `broken` ones whose resolution failed, fail.
resolveDueProposals(s, broken) ==
    LET due      == DueProposals(s.g)
        fast(p)  == s.g.props[p].expedited
        approved == {p \in due \ broken : Bar(proposalTally(s.k, p), fast(p))}
        demoted  == {p \in due \ (broken \cup approved) : demotable(s.g, p)}
        refused  == due \ (approved \cup demoted)
        onward   == demoted \cup {p \in approved : fast(p)}
        k1 == removeRounds(endProposalRounds(s.k, due), due)
        k2 == [k1 EXCEPT !.rounds = [p \in DOMAIN @ \cup onward |->
                   IF p \in onward THEN nextRound(s.k, s.g, p) ELSE @[p]]]
    IN  [k |-> forgetSubjects(k2, refused),
         g |-> Closed(Requeued(s.g, demoted), refused, "failed")]

\* resolveDueRemovals; striking the `stuck` options fails.
resolveDueRemovals(k, stuck) ==
    LET due      == {e[2] : e \in {x \in k.removalQueue : x[1] <= now}}
        tally(o) == ballotTally(k, k.removalId[o])
        carried  == {o \in due : Approves(tally(o))}
        declined == due \ carried
    IN  [k |-> [closeBallots(k, {k.removalId[o] : o \in due}) EXCEPT
                   !.removals = Drop(@, due), !.removalId = Drop(@, due),
                   !.removalQueue = {e \in @ : e[2] \notin due},
                   !.cooldown = [o \in (DOMAIN @ \ carried) \cup declined |->
                                    IF o \in declined THEN now + RemovalCooldown ELSE @[o]]],
         struck |-> carried \ stuck]

\* Fault variant: the walk goes on from its last entry for good.
SweepFromOnward(cursor, keys) ==
    LET seen == First(OrphanBallotCheckLimit, SetToSortSeq({p \in keys : p > cursor}, <))
    IN  [seen |-> ToSet(seen), next |-> IF seen = <<>> THEN cursor ELSE seen[Len(seen)]]

\* A bounded walk from a cursor: what it looks at, and where the next starts.
SweepFrom(cursor, keys) ==
    LET seen == First(OrphanBallotCheckLimit, SetToSortSeq({p \in keys : p > cursor}, <))
    IN  [seen |-> ToSet(seen),
         next |-> IF Len(seen) < OrphanBallotCheckLimit THEN 0 ELSE seen[Len(seen)]]

closeOrphanedBallots(k, g) ==
    LET b == SweepFrom(k.orphanCursor, DOMAIN k.ballot)
        s == SweepFrom(k.subjectCursor, DOMAIN k.subjects)
        orphans == {p \in b.seen : ~Voting(g, p)} \cup {p \in s.seen : p \notin DOMAIN g.props}
        ended   == {p \in s.seen : ~Voting(g, p)}
        closing == orphans \cap DOMAIN k.ballot
        k1 == [k EXCEPT !.orphanCursor = b.next, !.subjectCursor = s.next]
    IN  removeRounds(endProposalRounds(forgetSubjects(k1, orphans \cup ended), closing), closing)

\* x/gov's EndBlocker (external): stake passes a due proposal, which then runs
\* or fails to, or does not; one it does not pass is rejected or, if expedited,
\* put to the longer period.  It calls AfterProposalVotingPeriodEnded, and goes
\* on when the hook fails (`deaf`).
govEndBlocker(s, stake, deaf) ==
    LET due     == DueProposals(s.g)
        fails   == {p \in due : stake[p] = "fail"}
        demoted == {p \in fails : s.g.props[p].expedited}
        g1 == Closed(Closed(Closed(Requeued(s.g, demoted), fails \ demoted, "rejected"),
                            {p \in due : stake[p] = "pass"}, "passed"),
                     {p \in due : stake[p] = "error"}, "failed")
        over == (due \ demoted) \ deaf
    IN  [k |-> forgetSubjects(removeRounds(s.k, over), over), g |-> g1]

EndBlock(stake, broken, stuck, deaf) ==
    /\ faults' = faults + Cardinality(broken) + Cardinality(stuck) + Cardinality(deaf)
    /\ faults' <= plan.faults
    /\ LET s1 == resolveDueProposals([k |-> ch, g |-> gov], broken)
           r  == resolveDueRemovals(s1.k, stuck)
           k3 == purgeClosedBallots(closeOrphanedBallots(r.k, s1.g))
           s4 == govEndBlocker([k |-> k3, g |-> s1.g], stake, deaf)
       IN  /\ ch' = s4.k /\ gov' = s4.g /\ options' = options \ r.struck
           /\ said' = Drop(said, {OnProposal(p) : p \in DueProposals(gov)} \cup
                                 {OnRemoval(o) : o \in DOMAIN ch.removals \ DOMAIN s4.k.removals})
    /\ phase = "txs" /\ phase' = "commit"
    /\ LET k == recordIdentityRoot(st, now)
       IN  \E D \in Doomed(k) : st' = Pruned(k, D)
    /\ UNCHANGED <<revoked, owner, now, plan>>

-----------------------------------------------------------------------------
\* Genesis: a proposal's votes go to a fresh ballot; a removal ballot keeps its
\* id; tallies are counted again; closed ballots and dead rounds are left out.
Tallied(k, b) ==
    [yes |-> Cardinality({v \in DOMAIN k.votes : v[1] = b /\ k.votes[v] = "yes"}),
     no  |-> Cardinality({v \in DOMAIN k.votes : v[1] = b /\ k.votes[v] = "no"})]

ImportedChamber(k, g) ==
    LET voted == SetToSortSeq({p \in DOMAIN k.ballot :
                                 Voting(g, p) /\ \E v \in DOMAIN k.votes : v[1] = k.ballot[p]}, <)
        fresh == [p \in ToSet(voted) |-> k.seq + CHOOSE i \in DOMAIN voted : voted[i] = p]
        old(b) == IF \E p \in DOMAIN fresh : fresh[p] = b
                  THEN k.ballot[CHOOSE p \in DOMAIN fresh : fresh[p] = b] ELSE b
        open  == {fresh[p] : p \in DOMAIN fresh} \cup {k.removalId[o] : o \in DOMAIN k.removalId}
        votes == {<<b, v[2]>> : <<b, v>> \in {x \in open \X DOMAIN k.votes : x[2][1] = old(x[1])}}
        k1 == [k EXCEPT !.seq = @ + Len(voted), !.ballot = fresh,
                        !.votes = [v \in votes |-> k.votes[<<old(v[1]), v[2]>>]],
                        !.closed = {}, !.rounds = Drop(@, {p \in DOMAIN @ : ~Voting(g, p)}),
                        !.removalId = [o \in DOMAIN k.removals |-> k.removals[o].ballot],
                        !.removalQueue = {<<k.removals[o].closes, o>> : o \in DOMAIN k.removals},
                        !.orphanCursor = 0, !.subjectCursor = 0]
    IN  [k1 EXCEPT !.tally = [b \in open |-> Tallied(k1, b)]]

RestartChamber ==
    /\ phase = "commit" /\ "restart" \in plan.kinds /\ InitAccepts(st)
    /\ ch' = ImportedChamber(ch, gov) /\ ch'.seq <= MaxBallots /\ st' = Imported(st)
    /\ UNCHANGED <<revoked, owner, now, phase, plan, faults, gov, options, said>>

-----------------------------------------------------------------------------
\* The chamber opens empty over a registry in which every passport registered
\* its first identity at the start.
Electorate(params) ==
    LET signer(p) == CHOOSE d \in SignersOf[p] : TRUE
        all == FoldLeft(LAMBDA k, p : Register(k, p, p, signer(p), Start - Day), EmptyStore(params),
                        SetToSortSeq(Passports, <))
    IN  recordIdentityRoot(all, Start)

EmptyChamber ==
    [seq |-> 0, votes |-> Empty, tally |-> Empty, ballot |-> Empty, closed |-> {},
     rounds |-> Empty, subjects |-> Empty, orphanCursor |-> 0, subjectCursor |-> 0,
     removals |-> Empty, removalId |-> Empty, removalQueue |-> {}, cooldown |-> Empty]

ChamberInit ==
    /\ now = Start /\ phase = "txs" /\ plan \in Scenarios /\ faults = 0 /\ revoked = {}
    /\ \E p \in plan.params : st = Electorate(p)
    /\ owner = [p \in Passports |-> p]
    /\ ch = EmptyChamber /\ options = Options /\ said = Empty
    /\ gov = [ids |-> {}, props |-> Empty, queue |-> {}]

ChamberNext ==
    \/ /\ \/ \E p \in plan.passports, idc \in Fresh, dsc \in Dscs, date \in Dates :
                MsgRegister(p, idc, dsc, date)
          \/ BeginBlocker({}, {}, {})
          \/ \E d \in Steps : NextBlock(d)
       /\ UNCHANGED chamber
    \/ \E idc \in {i \in DOMAIN owner : owner[i] \in plan.voters}, root \in RecentRoots :
          \/ \E p \in Proposals, opt \in {"yes", "no"} : VoteProposal(p, idc, root, opt)
          \/ \E o \in Options : ProposeRemoval(o, idc, root)
          \/ \E o \in Options, opt \in {"yes", "no"} : VoteRemoval(o, idc, root, opt)
    \/ \E content \in Contents, expedited \in BOOLEAN : SubmitProposal(content, expedited)
    \/ \E p \in Proposals : CancelProposal(p)
    \/ \E o \in Options : PruneOption(o)
    \/ \E stake \in [DueProposals(gov) -> {"pass", "fail", "error"}],
          broken \in SUBSET DueProposals(gov), deaf \in SUBSET DueProposals(gov),
          stuck \in SUBSET DOMAIN ch.removals : EndBlock(stake, broken, stuck, deaf)
    \/ RestartChamber

\* Blocks keep coming and their time moves on, as in module Personhood.
ChamberSpec ==
    /\ ChamberInit /\ [][ChamberNext]_allVars
    /\ []<><<\E d \in Steps \ {0} : NextBlock(d)>>_allVars

-----------------------------------------------------------------------------
\* What people said on a subject in its open round, each counted once.
Words(subject) ==
    LET w == IF subject \in DOMAIN said THEN said[subject] ELSE Empty
    IN  [yes |-> Cardinality({x \in DOMAIN w : w[x] = "yes"}),
         no  |-> Cardinality({x \in DOMAIN w : w[x] = "no"})]

\* The chamber counts people.  The tally of every open ballot, which decides it,
\* is the count of what each person last said in the round now open: through
\* changed votes, switches of identity, demotions, cancellations and restarts
\* (recordVote, proposalInputs' predecessor bound, endProposalRound).  Ballots
\* stay filed: each open one is one proposal's or removal's, a closed one is
\* none's, a removal is queued once at its end, and x/gov's queue, which the
\* chamber edits, holds each proposal in voting at its end and no other.
BallotsExact ==
    LET ofP == {ch.ballot[p] : p \in DOMAIN ch.ballot}
        ofR == {ch.removalId[o] : o \in DOMAIN ch.removalId}
    IN  /\ \A p \in DOMAIN ch.ballot : Voting(gov, p) => ch.tally[ch.ballot[p]] = Words(OnProposal(p))
        /\ \A o \in DOMAIN ch.removalId : ch.tally[ch.removalId[o]] = Words(OnRemoval(o))
        /\ DOMAIN ch.tally = ofP \cup ofR
        /\ Cardinality(DOMAIN ch.tally) = Cardinality(DOMAIN ch.ballot) + Cardinality(DOMAIN ch.removalId)
        /\ ch.closed \cap DOMAIN ch.tally = {}
        /\ \A b \in ch.closed \cup DOMAIN ch.tally : b <= ch.seq
        /\ \A v \in DOMAIN ch.votes : v[1] \in ch.closed \cup DOMAIN ch.tally
        /\ ch.removalQueue = {<<ch.removals[o].closes, o>> : o \in DOMAIN ch.removals}
        /\ ch.removalId = [o \in DOMAIN ch.removals |-> ch.removals[o].ballot]
        /\ gov.queue = {<<gov.props[p].end, p>> : p \in {q \in DOMAIN gov.props : Voting(gov, q)}}
        /\ \A p \in DOMAIN gov.props : Voting(gov, p) => p \in DOMAIN ch.subjects

\* The passports a proposal's revocations are about: registered under a signer
\* it revokes, or in a country whose signing root it revokes.
SubjectsOf(content) ==
    {x \in Passports : \E d \in SignersOf[x], r \in content.revs :
        r.dsc = d \/ (r.dsc = 0 /\ r.country = CountryOf[d])}

\* Nothing passes unratified.  A proposal that passes had, in the round that
\* ended with it, two thirds of the people who spoke (three quarters if still
\* expedited), and nobody it revokes was among them; a groundworks option the
\* chamber strikes had two thirds, on a ballot that ran its full period.
Ratified ==
    [][/\ \A p \in DOMAIN gov.props \cap DOMAIN gov'.props :
            (gov.props[p].status = "voting" /\ gov'.props[p].status = "passed") =>
                /\ Bar(Words(OnProposal(p)), gov.props[p].expedited)
                /\ SubjectsOf(gov.props[p].content) \cap DOMAIN said[OnProposal(p)] = {}
       /\ \A o \in options \ options' :
            phase' = "commit" => /\ Approves(Words(OnRemoval(o)))
                                 /\ now >= ch.removals[o].opened + RemovalVotingPeriod]_allVars

\* What is over is cleared: the ballot and the subjects of a proposal no longer
\* in voting (a cancelled one, or one whose end x/gov's hook did not report),
\* a removal ballot past its end, and the votes of every closed ballot, however
\* few one block clears.
BallotsClear ==
    /\ \A p \in Proposals :
          LET left == p \in DOMAIN ch.ballot \cup DOMAIN ch.subjects /\ ~Voting(gov, p)
          IN  left ~> ~left
    /\ \A o \in Options :
          (o \in DOMAIN ch.removals /\ ch.removals[o].closes <= now) ~> (o \notin DOMAIN ch.removals)
    /\ \A b \in 1..MaxBallots :
          (b \in ch.closed) ~> (b \notin ch.closed /\ \A v \in DOMAIN ch.votes : v[1] # b)
=============================================================================
