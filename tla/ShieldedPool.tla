---------------------------- MODULE ShieldedPool ----------------------------
(***************************************************************************)
(* The shielded pool (x/shielded): notes, nullifiers, the bank balance     *)
(* that backs the notes, the In/Out turnstile that counts every coin       *)
(* across the pool's edge, and the private messages that spend notes.      *)
(*                                                                         *)
(* A note is a leaf of the note tree and is named by its position; its     *)
(* nullifier is named by the position it spends (the circuit derives it    *)
(* from the position, so the two correspond one to one). An output of      *)
(* value 0 is a dummy.  A private message is modelled with its bundles     *)
(* joined: one anchor, the set of positions it spends, its outputs.  The   *)
(* anchor history is module Anchors, whose tree size is Len(notes).        *)
(***************************************************************************)
EXTENDS Integers, Sequences, FiniteSets, Functions

CONSTANTS
    Capacity, Windows, RootPruneLimit, Margin, MaxTime,   \* of Anchors
    Denoms, FeeDenom,
    ShieldedOnly,   \* denoms no account may hold (uanml)
    Recipients,     \* shielded-only denom -> the modules listed to hold it
    PoolLocked,     \* denoms no unshield may pay (derth/...)
    Accounts, Modules,
    Pool, FeeCollector,          \* the two distinguished module accounts
    MaxNoteValue, MaxSplitNotes, MinFee,
    MinActions, MaxActions,      \* actions of one private message
    MaxPrivateActionsPerBlock,
    MaxCoins,                    \* bound: coins one public operation moves
    Switchable,                  \* bound: denoms whose send switch is flipped
    GenesisBalance               \* account or module -> denom -> amount

Holders == Accounts \cup Modules \cup {Pool, FeeCollector}

ASSUME PoolAssumption ==
    /\ Capacity \in Nat
    /\ ShieldedOnly \subseteq Denoms /\ PoolLocked \subseteq Denoms
    /\ Recipients \in [ShieldedOnly -> SUBSET Modules]
    /\ FeeDenom \in Denoms \ (ShieldedOnly \cup PoolLocked)
    /\ Pool # FeeCollector
    /\ {Pool, FeeCollector} \cap (Accounts \cup Modules) = {}
    /\ Accounts \cap Modules = {}
    /\ MaxNoteValue \in Nat \ {0} /\ MaxSplitNotes \in Nat \ {0}
    /\ MinFee \in Nat \ {0}
    /\ MinActions \in Nat \ {0} /\ MaxActions \in Nat
    /\ MaxPrivateActionsPerBlock \in Nat /\ MaxCoins \in Nat
    /\ Switchable \subseteq Denoms
    /\ GenesisBalance \in [Accounts \cup Modules -> [Denoms -> Nat]]

VARIABLES
    roots, byTime, latest, window, now, inBlock, mempool,   \* of Anchors
    notes,        \* the note tree's leaves, in order
    nullifiers,   \* positions spent
    bank,         \* holder -> denom -> amount
    turnIn,       \* Turnstiles[d].In
    turnOut,      \* Turnstiles[d].Out
    dirty,        \* DirtyDenoms
    assets,       \* Assets: the registered denoms
    sendEnabled,  \* the bank's send-enabled switch
    count,        \* PrivateActionCount
    stranded      \* history: value left in the pool by handlers that failed

anchorVars == <<roots, byTime, latest, window, now, inBlock, mempool>>
moneyVars == <<notes, nullifiers, bank, turnIn, turnOut, dirty, stranded>>
vars == <<anchorVars, moneyVars, assets, sendEnabled, count>>

size == Len(notes)
A == INSTANCE Anchors

Note == [denom : Denoms, value : Nat]
Coins == [Denoms -> Nat]

(***************************************************************************)
(* Coins.                                                                  *)
(***************************************************************************)
None == [d \in Denoms |-> 0]
Coin(d, v) == [None EXCEPT ![d] = v]
Plus(c, e) == [d \in Denoms |-> c[d] + e[d]]
Minus(c, e) == [d \in Denoms |-> c[d] - e[d]]
Support(c) == {d \in Denoms : c[d] > 0}

\* A bank transfer of c; the bank refuses one the sender cannot cover.
Covers(b, from, c) == \A d \in Denoms : c[d] <= b[from][d]
Moved(b, from, to, c) ==
    [b EXCEPT ![from] = Minus(@, c), ![to] = Plus(@, c)]

\* Fault variant: the pool account may be paid directly.
SendAllowedIntoPool(to, c) == \A d \in Support(c) \cap ShieldedOnly : to \in Recipients[d]

\* checkSend: nothing but the pool's own deposits reaches the pool account,
\* and a shielded-only denom goes to the modules listed for it.
SendAllowed(to, c) ==
    /\ to # Pool
    /\ \A d \in Support(c) \cap ShieldedOnly : to \in Recipients[d]

\* Value of denom d in the notes at positions S of ns.
NoteSum(ns, S, d) ==
    SumFunctionOnSet([i \in S |-> IF ns[i].denom = d THEN ns[i].value ELSE 0], S)

(***************************************************************************)
(* Public edges: Shield and module mints.                                  *)
(***************************************************************************)
\* Fault variant: the last note of a split is full too.
SplitNoteValuesFull(v) == [i \in 1..((v + MaxNoteValue - 1) \div MaxNoteValue) |-> MaxNoteValue]

\* SplitNoteValues: full notes of MaxNoteValue, the rest in the last.
SplitNoteValues(v) ==
    LET n == (v + MaxNoteValue - 1) \div MaxNoteValue
    IN  [i \in 1..n |-> IF i < n THEN MaxNoteValue ELSE v - (n - 1) * MaxNoteValue]

\* The turnstile counts c in, and marks the denoms that moved.
countIn(c) ==
    /\ turnIn' = Plus(turnIn, c)
    /\ dirty' = dirty \cup Support(c)

\* MsgRegisterAsset.
RegisterAsset(d) ==
    /\ inBlock
    /\ assets' = assets \cup {d}
    /\ UNCHANGED <<anchorVars, moneyVars, sendEnabled, count>>

\* The checks a deposit of v coins of d as n notes passes before it writes.
DepositAllowed(from, d, v, n) ==
    /\ d \in sendEnabled
    /\ d \in assets
    /\ Len(notes) + n <= Capacity
    /\ Covers(bank, from, Coin(d, v))

\* MsgShield: one note of the sender's coins.
Shield(a, d, v) ==
    /\ inBlock
    /\ v \in 1..MaxNoteValue
    /\ DepositAllowed(a, d, v, 1)
    /\ bank' = Moved(bank, a, Pool, Coin(d, v))
    /\ countIn(Coin(d, v))
    /\ notes' = Append(notes, [denom |-> d, value |-> v])
    /\ UNCHANGED <<anchorVars, nullifiers, turnOut, stranded, assets, sendEnabled, count>>

\* MintNote (one note), MintOpenNote and MintNoteSplit (several): a module
\* pays coins it holds into the pool as notes.
MintNoteSplit(m, d, v) ==
    /\ inBlock
    /\ LET vs == SplitNoteValues(v)
       IN  /\ Len(vs) <= MaxSplitNotes
           /\ DepositAllowed(m, d, v, Len(vs))
           /\ bank' = Moved(bank, m, Pool, Coin(d, v))
           /\ countIn(Coin(d, v))
           /\ notes' = notes \o [i \in 1..Len(vs) |-> [denom |-> d, value |-> vs[i]]]
    /\ UNCHANGED <<anchorVars, nullifiers, turnOut, stranded, assets, sendEnabled, count>>

(***************************************************************************)
(* Private messages.  A message t has an anchor, the positions it spends,  *)
(* its outputs and its fee.                                                *)
(***************************************************************************)
NoNote == [denom |-> FeeDenom, value |-> 0]
OutputNote == [denom : Denoms, value : 1..MaxNoteValue] \cup {NoNote}

\* The value the outputs leave of what is spent, per denom.
Surplus(spends, outs) ==
    [d \in Denoms |-> NoteSum(notes, spends, d) - NoteSum(outs, DOMAIN outs, d)]

\* What the action proofs and the binding signature guarantee (external):
\* every spent note is under the anchor, there is one output per action, and
\* the public balances are exactly inputs less outputs, never negative.
ProofsHold(t) ==
    /\ t.spends \subseteq 1..t.anchor
    /\ Cardinality(t.spends) <= Len(t.outs)
    /\ t.balance \in Coins
    /\ t.balance = Surplus(t.spends, t.outs)

\* Remainders: the balances less the fee, defined when the fee is covered.
Remainders(t) == Minus(t.balance, Coin(FeeDenom, t.fee))

\* Fault variant: a nullifier may be spent twice.
CheckPrivateMsgNoSpentCheck(t) ==
    /\ Len(t.outs) \in MinActions..MaxActions
    /\ count + Len(t.outs) <= MaxPrivateActionsPerBlock
    /\ Len(notes) + Len(t.outs) + 1 <= Capacity
    /\ A!Anchor(t.anchor)
    /\ t.fee >= MinFee /\ t.fee <= t.balance[FeeDenom]
    /\ Support(t.balance) \subseteq assets

\* CountPrivateActions, the fee floor and CheckPrivateMsg.
CheckPrivateMsg(t) ==
    /\ Len(t.outs) \in MinActions..MaxActions
    /\ count + Len(t.outs) <= MaxPrivateActionsPerBlock
    /\ Len(notes) + Len(t.outs) + 1 <= Capacity
    /\ A!Anchor(t.anchor)
    /\ t.spends \cap nullifiers = {}
    /\ t.fee >= MinFee /\ t.fee <= t.balance[FeeDenom]
    /\ Support(t.balance) \subseteq assets

\* ExecutePrivateMsg: spend, append, pay the fee, release rem to the holder
\* to; then to mints back (a note, or a dummy when it mints none).
Execute(t, to, rem, back) ==
    LET fee == Coin(FeeDenom, t.fee)
        released == Moved(Moved(bank, Pool, FeeCollector, fee), Pool, to, rem)
        minted == Coin(back.denom, back.value)
    IN  /\ Covers(bank, Pool, Plus(fee, rem))
        /\ Covers(released, to, minted)
        /\ bank' = Moved(released, to, Pool, minted)
        /\ turnOut' = Plus(turnOut, Plus(fee, rem))
        /\ \A d \in Denoms : turnOut'[d] <= turnIn[d]
        /\ turnIn' = Plus(turnIn, minted)
        /\ dirty' = dirty \cup Support(Plus(fee, rem)) \cup Support(minted)
        /\ notes' = notes \o t.outs \o (IF back.value = 0 THEN <<>> ELSE <<back>>)
        /\ nullifiers' = nullifiers \cup t.spends
        /\ count' = count + Len(t.outs)

\* MsgSend: what the balances hold beyond the fee is unshielded to recv,
\* which checkUnshield and the bank must both accept.
Send(t, recv) ==
    /\ Support(Remainders(t)) \subseteq sendEnabled \ PoolLocked
    /\ SendAllowed(recv, Remainders(t))
    /\ Execute(t, recv, Remainders(t), NoNote)
    /\ UNCHANGED <<anchorVars, stranded, assets, sendEnabled>>

\* A private message of another module whose action succeeds: its released
\* denoms go to module m (ReleaseToModule), which may mint a note back.
PrivateAction(t, m, back) ==
    /\ Support(Remainders(t)) \subseteq sendEnabled
    /\ SendAllowed(m, Remainders(t))
    /\ back.value > 0 => back.denom \in sendEnabled \cap assets
    /\ Execute(t, m, Remainders(t), back)
    /\ UNCHANGED <<anchorVars, stranded, assets, sendEnabled>>

\* The same message when its action runs in the handler and fails there (out
\* of gas, say): the ante's spend and fee stay, nothing is released, and the
\* remainder stays in the pool with no note for it.
HandlerFails(t) ==
    /\ Support(Remainders(t)) \subseteq sendEnabled
    /\ Execute(t, FeeCollector, None, NoNote)
    /\ stranded' = Plus(stranded, Remainders(t))
    /\ UNCHANGED <<anchorVars, assets, sendEnabled>>

(***************************************************************************)
(* The rest of the chain, as the pool sees it.                             *)
(***************************************************************************)
\* A transfer an account makes, or a module's payout, to any other holder,
\* under the pool's send restriction (external: x/bank).
BankSend(from, to, c) ==
    /\ inBlock
    /\ from # to
    /\ SendAllowed(to, c) /\ Covers(bank, from, c)
    /\ bank' = Moved(bank, from, to, c)
    /\ UNCHANGED <<anchorVars, notes, nullifiers, turnIn, turnOut, dirty, stranded,
                   assets, sendEnabled, count>>

\* Governance flips a denom's bank send-enabled switch (external: x/bank).
SetSendEnabled(d) ==
    /\ inBlock
    /\ sendEnabled' \in {sendEnabled \cup {d}, sendEnabled \ {d}}
    /\ UNCHANGED <<anchorVars, moneyVars, assets, count>>

BeginBlock ==
    /\ UNCHANGED <<moneyVars, assets, sendEnabled, count>>
    /\ A!BeginBlock

UpdateParams ==
    /\ UNCHANGED <<moneyVars, assets, sendEnabled, count>>
    /\ A!UpdateParams

\* checkDenom.
checkDenom(d) == bank[Pool][d] = turnIn[d] - turnOut[d]

\* Fault variant: a root is recorded and its predecessor not marked superseded.
EndBlockUnsuperseded ==
    /\ inBlock /\ inBlock' = FALSE
    /\ dirty' = {} /\ count' = 0
    /\ UNCHANGED <<notes, nullifiers, bank, turnIn, turnOut, stranded, assets, sendEnabled>>
    /\ latest' = size
    /\ roots' = [r \in DOMAIN roots \cup {size} |->
                    IF r \in DOMAIN roots THEN roots[r] ELSE [time |-> now, superseded |-> 0]]
    /\ byTime' = byTime \cup {<<now, size>>}
    /\ UNCHANGED <<window, now, mempool>>

\* EndBlocker: record and prune roots, reset the action count and check the
\* denoms that moved.  A mismatch is an error that halts the chain: the
\* block does not commit.
EndBlock ==
    /\ \A d \in dirty : checkDenom(d)
    /\ dirty' = {}
    /\ count' = 0
    /\ UNCHANGED <<notes, nullifiers, bank, turnIn, turnOut, stranded, assets, sendEnabled>>
    /\ A!EndBlock

\* Export and import of the pool's state; InitGenesis ends with the check of
\* every denom's turnstile (AssertInvariants).
Restart ==
    /\ \A d \in Denoms : checkDenom(d)
    /\ UNCHANGED <<moneyVars, assets, sendEnabled, count>>
    /\ A!Restart

Init ==
    /\ notes = <<>> /\ nullifiers = {}
    /\ bank = [h \in Holders |-> IF h \in {Pool, FeeCollector} THEN None ELSE GenesisBalance[h]]
    /\ turnIn = None /\ turnOut = None /\ stranded = None
    /\ dirty = {} /\ assets = {FeeDenom} /\ sendEnabled = Denoms /\ count = 0
    /\ A!Init

\* The private ante admits t, whose message then runs to one of its ends.
Message(anchor, spends, outs, fee, balance) ==
    [anchor |-> anchor, spends |-> spends, outs |-> outs, fee |-> fee, balance |-> balance]

Runs(t) ==
    /\ CheckPrivateMsg(t) /\ ProofsHold(t)
    /\ \/ \E a \in Accounts : Send(t, a)
       \/ \E m \in Modules, back \in OutputNote : PrivateAction(t, m, back)
       \/ HandlerFails(t)

PrivateMsg ==
    /\ inBlock
    /\ \E anchor \in DOMAIN roots, n \in MinActions..MaxActions :
       \E spends \in SUBSET (1..anchor) :
       Cardinality(spends) <= n /\ \E outs \in [1..n -> OutputNote] :
       LET balance == Surplus(spends, outs)
       IN  \E fee \in MinFee..balance[FeeDenom] :
              Runs(Message(anchor, spends, outs, fee, balance))

Next ==
    \/ \E d \in Denoms : RegisterAsset(d)
    \/ \E d \in Switchable : SetSendEnabled(d)
    \/ \E d \in Denoms, v \in 1..MaxCoins :
          \/ \E a \in Accounts : Shield(a, d, v)
          \/ \E m \in Modules : MintNoteSplit(m, d, v)
          \/ \E h \in Accounts \cup Modules, to \in Holders : BankSend(h, to, Coin(d, v))
    \/ PrivateMsg
    \/ BeginBlock \/ UpdateParams \/ EndBlock \/ Restart

Spec == Init /\ [][Next]_vars

(***************************************************************************)
(* Properties.                                                             *)
(***************************************************************************)
\* Types of the pool's state.
TypeOK ==
    /\ notes \in Seq(Note) /\ Len(notes) <= Capacity
    /\ nullifiers \subseteq 1..Len(notes)
    /\ bank \in [Holders -> Coins]
    /\ turnIn \in Coins /\ turnOut \in Coins /\ stranded \in Coins
    /\ dirty \subseteq Denoms /\ assets \subseteq Denoms /\ sendEnabled \subseteq Denoms
    /\ count \in 0..MaxPrivateActionsPerBlock

\* The turnstile: whatever moved through Shield, mints, fees, unshields and
\* releases, the pool's bank balance of every denom is In - Out, so EndBlock
\* never halts the chain and a genesis import never fails its check.
TurnstileExact == \A d \in Denoms : checkDenom(d)

\* After a commit, whatever happened before (restarts and quiet periods
\* included), every unspent note of value is under a valid anchor and its
\* denom is registered, so a spend of it passes CheckPrivateMsg's anchor and
\* asset checks.
UnspentSpendable ==
    ~inBlock => \A i \in 1..Len(notes) \ nullifiers :
        notes[i].value > 0 => /\ notes[i].denom \in assets
                              /\ \E r \in DOMAIN roots : i <= r /\ A!Anchor(r)

\* No note is unbacked and no coin unowned: the pool's balance of each denom
\* is the value of the unspent notes plus what failed handlers stranded, and
\* every such note can be spent.
Backed ==
    /\ UnspentSpendable
    /\ \A d \in Denoms :
        bank[Pool][d] = NoteSum(notes, 1..Len(notes) \ nullifiers, d) + stranded[d]

\* A checked message is paid: "anything that could make the msg fail after the
\* ante spends its inputs is refused" by CheckPrivateMsg.  Whichever unspent
\* notes a message spends, if it and its proofs are accepted the pool covers
\* the fee and the release, and the turnstile lets them out.
AcceptedPaid ==
    inBlock =>
        \A anchor \in DOMAIN roots, n \in MinActions..MaxActions :
        \A spends \in SUBSET (1..anchor) :
        Cardinality(spends) <= n => \A outs \in [1..n -> OutputNote] :
        LET balance == Surplus(spends, outs)
        IN  \A fee \in MinFee..balance[FeeDenom] :
               LET t == Message(anchor, spends, outs, fee, balance)
               IN  CheckPrivateMsg(t) /\ ProofsHold(t) =>
                      /\ Covers(bank, Pool, balance)
                      /\ \A d \in Denoms : turnOut[d] + balance[d] <= turnIn[d]

\* The pool's tree drives the anchor history exactly as module Anchors
\* specifies: every step of the pool is a step of Anchors.
AnchorsSpec == A!Spec
=============================================================================
