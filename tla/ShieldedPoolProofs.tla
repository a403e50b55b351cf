------------------------- MODULE ShieldedPoolProofs -------------------------
(***************************************************************************)
(* Machine-checked proofs about the shielded pool, for every set of        *)
(* denoms, accounts and modules and every bound: the turnstile, the value  *)
(* behind the notes, and that the pool drives the anchor history.          *)
(***************************************************************************)
EXTENDS ShieldedPool, SumTheorems, TLAPS

\* Appending one sequence to another, as notes are to the pool's tree.
LEMMA Concat ==
  ASSUME NEW T, NEW a \in Seq(T), NEW b \in Seq(T)
  PROVE  /\ a \o b \in Seq(T) /\ Len(a \o b) = Len(a) + Len(b)
         /\ \A i \in 1..Len(a) : (a \o b)[i] = a[i]
         /\ \A i \in 1..Len(b) : (a \o b)[Len(a) + i] = b[i]
OBVIOUS

\* In whatever order the appends are bracketed.
LEMMA ConcatTwice ==
  ASSUME NEW T, NEW a \in Seq(T), NEW b \in Seq(T), NEW c \in Seq(T)
  PROVE  (a \o b) \o c = a \o (b \o c)
OBVIOUS

\* Recorded roots are roots of trees no larger than the current one.
RootsInTree == DOMAIN roots \subseteq 0..Len(notes)

\* The inductive invariant.
IInv == TypeOK /\ RootsInTree /\ TurnstileExact

(***************************************************************************)
(* Coins and transfers.                                                    *)
(***************************************************************************)
\* Amounts of coins add and subtract denom by denom.
LEMMA CoinTypes ==
    ASSUME NEW c \in Coins, NEW e \in Coins
    PROVE  /\ Plus(c, e) \in Coins
           /\ \A d \in Denoms : Plus(c, e)[d] = c[d] + e[d]
           /\ \A d \in Denoms : Minus(c, e)[d] = c[d] - e[d]
           /\ (\A d \in Denoms : e[d] <= c[d]) => Minus(c, e) \in Coins
           /\ Support(c) \subseteq Denoms
BY DEF Plus, Minus, Coins, Support

\* A single coin.
LEMMA CoinType ==
    ASSUME NEW d \in Denoms, NEW v \in Nat
    PROVE  /\ Coin(d, v) \in Coins
           /\ None \in Coins
           /\ \A e \in Denoms : Coin(d, v)[e] = (IF e = d THEN v ELSE 0)
           /\ \A e \in Denoms : None[e] = 0
BY DEF Coin, None, Coins

\* A covered bank transfer keeps every balance an amount, moves c and
\* touches no other holder.
LEMMA MovedCorrect ==
    ASSUME NEW b \in [Holders -> Coins], NEW from \in Holders, NEW to \in Holders,
           from # to, NEW c \in Coins, Covers(b, from, c)
    PROVE  /\ Moved(b, from, to, c) \in [Holders -> Coins]
           /\ \A d \in Denoms : /\ Moved(b, from, to, c)[from][d] = b[from][d] - c[d]
                                /\ Moved(b, from, to, c)[to][d] = b[to][d] + c[d]
           /\ \A h \in Holders \ {from, to} : Moved(b, from, to, c)[h] = b[h]
<1>1. Minus(b[from], c) \in Coins /\ Plus(b[to], c) \in Coins
  BY CoinTypes DEF Covers
<1>2. Moved(b, from, to, c) = [h \in Holders |-> IF h = from THEN Minus(b[from], c)
                                 ELSE IF h = to THEN Plus(b[to], c) ELSE b[h]]
  BY Zenon DEF Moved
<1> QED BY <1>1, <1>2, CoinTypes

\* The invariant holds at genesis.
LEMMA InitIInv == Init => IInv
<1> SUFFICES ASSUME Init PROVE IInv
  OBVIOUS
<1> USE PoolAssumption
<1>1. None \in Coins /\ \A d \in Denoms : None[d] = 0
  BY DEF None, Coins
<1>2. bank \in [Holders -> Coins]
  BY <1>1 DEF Init, Holders, Coins
<1>3. TypeOK
  BY <1>1, <1>2 DEF Init, TypeOK, Note
<1>4. RootsInTree
  BY DEF Init, RootsInTree, A!Init
<1>5. bank[Pool] = None /\ bank[FeeCollector] = None
  BY DEF Init, Holders
<1>6. \A a \in Accounts : bank[a] = GenesisBalance[a]
  BY DEF Init, Holders
<1>7. TurnstileExact
  BY <1>1, <1>5 DEF Init, TurnstileExact, checkDenom
<1> QED BY <1>3, <1>4, <1>7 DEF IInv

(***************************************************************************)
(* What each kind of step does to the money.                               *)
(***************************************************************************)
\* A counted deposit from outside the pool keeps the balances typed, the
\* turnstile exact and every other holder but the payer untouched.
LEMMA DepositKeeps ==
    ASSUME IInv, NEW h \in Accounts \cup Modules, NEW d \in Denoms, NEW v \in Nat,
           Covers(bank, h, Coin(d, v)),
           bank' = Moved(bank, h, Pool, Coin(d, v)), countIn(Coin(d, v)),
           UNCHANGED turnOut
    PROVE  /\ bank' \in [Holders -> Coins] /\ turnIn' \in Coins /\ dirty' \subseteq Denoms
           /\ TurnstileExact'
           /\ \A e \in Denoms : bank'[Pool][e] = bank[Pool][e] + (IF e = d THEN v ELSE 0)
<1> DEFINE c == Coin(d, v)
<1>1. c \in Coins /\ \A e \in Denoms : c[e] = (IF e = d THEN v ELSE 0)
  BY CoinType
<1>2. h \in Holders /\ Pool \in Holders /\ h # Pool /\ h # FeeCollector
  BY PoolAssumption DEF Holders
<1>3. bank \in [Holders -> Coins] /\ turnIn \in Coins /\ turnOut \in Coins /\ dirty \subseteq Denoms
  BY DEF IInv, TypeOK
<1>4. /\ bank' \in [Holders -> Coins]
      /\ \A e \in Denoms : bank'[h][e] = bank[h][e] - c[e] /\ bank'[Pool][e] = bank[Pool][e] + c[e]
      /\ \A g \in Holders \ {h, Pool} : bank'[g] = bank[g]
  BY <1>1, <1>2, <1>3, MovedCorrect
<1>5. turnIn' \in Coins /\ dirty' \subseteq Denoms /\ \A e \in Denoms : turnIn'[e] = turnIn[e] + c[e]
  BY <1>1, <1>3, CoinTypes DEF countIn
<1> HIDE DEF c
<1>6. TurnstileExact'
  BY <1>1, <1>2, <1>3, <1>4, <1>5 DEF IInv, TurnstileExact, checkDenom, Coins
<1> QED BY <1>1, <1>4, <1>5, <1>6

\* Execute, with what the handlers that call it hand it.
RunsWith(t, to, rem, back) ==
  /\ t.fee \in Nat /\ to \in Accounts \cup Modules \cup {FeeCollector} /\ rem \in Coins
  /\ back \in OutputNote
  /\ Execute(t, to, rem, back)

\* What Execute does to the pool's own balance.
PoolPays(t, rem, back) ==
  \A e \in Denoms : bank'[Pool][e] = bank[Pool][e] - Coin(FeeDenom, t.fee)[e] - rem[e]
                                       + Coin(back.denom, back.value)[e]

\* Spending: whoever the remainder goes to, and whether or not a note is
\* minted back, the coins that leave are counted out and the coins that
\* come back are counted in.
LEMMA ExecuteKeeps ==
    ASSUME IInv, NEW t, NEW to, NEW rem, NEW back, RunsWith(t, to, rem, back)
    PROVE  /\ bank' \in [Holders -> Coins] /\ turnIn' \in Coins /\ turnOut' \in Coins
           /\ dirty' \subseteq Denoms
           /\ TurnstileExact' /\ PoolPays(t, rem, back)
<1> DEFINE fee == Coin(FeeDenom, t.fee)
           paid == Moved(bank, Pool, FeeCollector, fee)
           released == Moved(paid, Pool, to, rem)
           minted == Coin(back.denom, back.value)
<1>r. /\ t.fee \in Nat /\ to \in Accounts \cup Modules \cup {FeeCollector} /\ rem \in Coins
      /\ back \in OutputNote /\ Execute(t, to, rem, back)
  BY Zenon DEF RunsWith
<1> USE <1>r
<1>0. back.denom \in Denoms /\ back.value \in Nat /\ FeeDenom \in Denoms
  BY PoolAssumption DEF OutputNote, NoNote
<1>1. fee \in Coins /\ \A e \in Denoms : fee[e] = (IF e = FeeDenom THEN t.fee ELSE 0)
  BY <1>0, CoinType
<1>2. minted \in Coins
  BY <1>0, CoinType
<1>3. Pool \in Holders /\ FeeCollector \in Holders /\ to \in Holders /\ Pool # FeeCollector /\ Pool # to
  BY PoolAssumption DEF Holders
<1>4. bank \in [Holders -> Coins] /\ turnIn \in Coins /\ turnOut \in Coins /\ dirty \subseteq Denoms
  BY DEF IInv, TypeOK
<1>5. /\ Covers(bank, Pool, Plus(fee, rem)) /\ Covers(released, to, minted)
      /\ bank' = Moved(released, to, Pool, minted)
      /\ turnOut' = Plus(turnOut, Plus(fee, rem))
      /\ turnIn' = Plus(turnIn, minted)
      /\ dirty' = dirty \cup Support(Plus(fee, rem)) \cup Support(minted)
  BY DEF Execute
<1> HIDE DEF fee, paid, released, minted
<1>6. \A e \in Denoms : fee[e] + rem[e] <= bank[Pool][e]
  BY <1>1, <1>5, CoinTypes DEF Covers
<1>7. Covers(bank, Pool, fee)
  BY <1>1, <1>3, <1>4, <1>6 DEF Covers, Coins
<1>8. /\ paid \in [Holders -> Coins]
      /\ \A e \in Denoms : /\ paid[Pool][e] = bank[Pool][e] - fee[e]
                           /\ paid[FeeCollector][e] = bank[FeeCollector][e] + fee[e]
      /\ \A h \in Holders \ {Pool, FeeCollector} : paid[h] = bank[h]
  BY <1>1, <1>3, <1>4, <1>7, MovedCorrect DEF paid
<1>9. Covers(paid, Pool, rem)
  BY SMTT(40), <1>1, <1>3, <1>4, <1>6, <1>8 DEF Covers, Coins
<1>10. /\ released \in [Holders -> Coins]
       /\ \A e \in Denoms : /\ released[Pool][e] = paid[Pool][e] - rem[e]
                            /\ released[to][e] = paid[to][e] + rem[e]
       /\ \A h \in Holders \ {Pool, to} : released[h] = paid[h]
  BY SMTT(40), <1>3, <1>8, <1>9, MovedCorrect DEF released
<1>11. /\ bank' \in [Holders -> Coins]
       /\ \A e \in Denoms : /\ bank'[to][e] = released[to][e] - minted[e]
                            /\ bank'[Pool][e] = released[Pool][e] + minted[e]
       /\ \A h \in Holders \ {Pool, to} : bank'[h] = released[h]
  BY <1>2, <1>3, <1>5, <1>10, MovedCorrect
<1>12. Plus(fee, rem) \in Coins /\ \A e \in Denoms : Plus(fee, rem)[e] = fee[e] + rem[e]
  BY SMTT(40), <1>1, CoinTypes
<1>13. /\ turnOut' \in Coins /\ turnIn' \in Coins /\ dirty' \subseteq Denoms
       /\ \A e \in Denoms : turnOut'[e] = turnOut[e] + (fee[e] + rem[e]) /\ turnIn'[e] = turnIn[e] + minted[e]
  <2>1. turnOut' \in Coins /\ \A e \in Denoms : turnOut'[e] = turnOut[e] + Plus(fee, rem)[e]
    BY <1>4, <1>5, <1>12, CoinTypes
  <2>2. turnIn' \in Coins /\ \A e \in Denoms : turnIn'[e] = turnIn[e] + minted[e]
    BY <1>2, <1>4, <1>5, CoinTypes
  <2>3. dirty' \subseteq Denoms
    BY <1>4, <1>5 DEF Support
  <2> QED BY <1>12, <2>1, <2>2, <2>3
<1>14. /\ TurnstileExact'
       /\ \A e \in Denoms : bank'[Pool][e] = bank[Pool][e] - fee[e] - rem[e] + minted[e]
  <2> SUFFICES ASSUME NEW e \in Denoms
               PROVE  /\ bank'[Pool][e] = turnIn'[e] - turnOut'[e]
                      /\ bank'[Pool][e] = bank[Pool][e] - fee[e] - rem[e] + minted[e]
    BY DEF TurnstileExact, checkDenom
  <2>1. bank[Pool][e] = turnIn[e] - turnOut[e]
    BY DEF IInv, TurnstileExact, checkDenom
  <2>2. /\ fee[e] \in Nat /\ rem[e] \in Nat /\ minted[e] \in Nat /\ turnIn[e] \in Nat /\ turnOut[e] \in Nat
    BY SMTT(40), <1>1, <1>2, <1>4 DEF Coins
  <2>3. bank'[Pool][e] = bank[Pool][e] - fee[e] - rem[e] + minted[e]
    BY <1>8, <1>10, <1>11, <2>1, <2>2
  <2> QED BY <1>13, <2>1, <2>2, <2>3
<1>16. PoolPays(t, rem, back)
  BY Zenon, <1>14 DEF PoolPays, fee, minted
<1> QED BY Zenon, <1>11, <1>13, <1>14, <1>16

\* Outputs appended to the tree are notes, and the tree grows by as many.
LEMMA AppendedNotes ==
    ASSUME notes \in Seq(Note), NEW n \in Nat, NEW outs \in [1..n -> OutputNote], NEW back \in OutputNote
    PROVE  LET new == notes \o outs \o (IF back.value = 0 THEN <<>> ELSE <<back>>)
           IN  /\ new \in Seq(Note)
               /\ Len(new) = Len(notes) + n + (IF back.value = 0 THEN 0 ELSE 1)
               /\ Len(outs) = n
<1>1. OutputNote \subseteq Note
  BY PoolAssumption DEF OutputNote, NoNote, Note
<1>2. outs \in Seq(Note) /\ Len(outs) = n
  BY <1>1
<1>3. notes \o outs \in Seq(Note) /\ Len(notes \o outs) = Len(notes) + n
  BY <1>2
<1>4. CASE back.value = 0
  BY <1>2, <1>3, <1>4
<1>5. CASE back.value # 0
  <2>1. <<back>> \in Seq(Note) /\ Len(<<back>>) = 1
    BY <1>1
  <2> QED BY <1>2, <1>3, <1>5, <2>1
<1> QED BY <1>4, <1>5

\* The remainder of an admitted message is an amount of coins.
LEMMA RemainderType ==
    ASSUME NEW t, t.fee \in Nat, ProofsHold(t), CheckPrivateMsg(t)
    PROVE  /\ Remainders(t) \in Coins
           /\ \A e \in Denoms : Coin(FeeDenom, t.fee)[e] + Remainders(t)[e] = t.balance[e]
<1>1. t.balance \in Coins /\ t.fee <= t.balance[FeeDenom]
  BY DEF ProofsHold, CheckPrivateMsg
<1>2. Coin(FeeDenom, t.fee) \in Coins /\ \A e \in Denoms : Coin(FeeDenom, t.fee)[e] = (IF e = FeeDenom THEN t.fee ELSE 0)
  BY SMTT(40), CoinType, PoolAssumption
<1>3. \A e \in Denoms : Coin(FeeDenom, t.fee)[e] <= t.balance[e]
  BY <1>1, <1>2 DEF Coins
<1>4. Remainders(t) \in Coins /\ \A e \in Denoms : Remainders(t)[e] = t.balance[e] - Coin(FeeDenom, t.fee)[e]
  BY <1>1, <1>2, <1>3, CoinTypes DEF Remainders
<1>5. \A e \in Denoms : t.balance[e] \in Nat /\ Coin(FeeDenom, t.fee)[e] \in Nat
  BY <1>1, <1>2 DEF Coins
<1> QED BY <1>4, <1>5

\* How a private message t of n actions ends: rem is released to a holder
\* that may take it, back is minted into a registered denom, and what is
\* neither paid nor released is stranded.
Ends(t, n, to, rem, back) ==
    /\ inBlock
    /\ t.outs \in [1..n -> OutputNote] /\ t.fee \in Nat
    /\ t.spends \subseteq 1..Len(notes) /\ CheckPrivateMsg(t) /\ ProofsHold(t)
    /\ back.value > 0 => back.denom \in assets
    /\ Execute(t, to, rem, back)
    /\ stranded' \in Coins
    /\ \A e \in Denoms : Coin(FeeDenom, t.fee)[e] + rem[e] + stranded'[e] = stranded[e] + t.balance[e]
    /\ UNCHANGED <<anchorVars, assets, sendEnabled>>

\* However a private message ends, it spends under a recorded anchor,
\* appends its outputs and perhaps a note minted back, and releases coins to
\* a holder that may take them.
LEMMA PrivateMsgShape ==
    ASSUME IInv, PrivateMsg
    PROVE  \E t :
           \E n \in MinActions..MaxActions, to \in Accounts \cup Modules \cup {FeeCollector},
              rem \in Coins, back \in OutputNote : Ends(t, n, to, rem, back)
<1>1. PICK anchor \in DOMAIN roots, n \in MinActions..MaxActions :
        \E spends \in SUBSET (1..anchor), outs \in [1..n -> OutputNote] :
        \E fee \in MinFee..Surplus(spends, outs)[FeeDenom] :
           Runs(Message(anchor, spends, outs, fee, Surplus(spends, outs)))
  BY DEF PrivateMsg
<1>2. PICK spends \in SUBSET (1..anchor), outs \in [1..n -> OutputNote] :
        \E fee \in MinFee..Surplus(spends, outs)[FeeDenom] :
           Runs(Message(anchor, spends, outs, fee, Surplus(spends, outs)))
  BY <1>1
<1>3. PICK fee \in MinFee..Surplus(spends, outs)[FeeDenom] :
        Runs(Message(anchor, spends, outs, fee, Surplus(spends, outs)))
  BY <1>2
<1> DEFINE t == Message(anchor, spends, outs, fee, Surplus(spends, outs))
<1>4. CheckPrivateMsg(t) /\ ProofsHold(t)
  BY <1>3 DEF Runs
<1>5. t.fee \in Nat /\ t.outs = outs /\ t.spends = spends
  BY PoolAssumption DEF Message
<1>6. spends \subseteq 1..Len(notes)
  <2>1. anchor \in 0..Len(notes) /\ Len(notes) \in Nat
    BY DEF IInv, RootsInTree, TypeOK
  <2> QED BY <2>1
<1> HIDE DEF t
<1>7. /\ Remainders(t) \in Coins
      /\ \A e \in Denoms : Coin(FeeDenom, t.fee)[e] + Remainders(t)[e] = t.balance[e]
  BY <1>4, <1>5, RemainderType
<1>8. /\ NoNote \in OutputNote /\ NoNote.value = 0
      /\ None \in Coins /\ Support(None) = {} /\ \A e \in Denoms : None[e] = 0
  BY PoolAssumption DEF OutputNote, NoNote, None, Coins, Support
<1>9. inBlock
  BY DEF PrivateMsg
<1>10. stranded \in Coins /\ t.balance \in Coins
  BY <1>4 DEF IInv, TypeOK, ProofsHold
<1>11. \A e \in Denoms : /\ Coin(FeeDenom, t.fee)[e] \in Nat /\ Remainders(t)[e] \in Nat
                         /\ stranded[e] \in Nat /\ t.balance[e] \in Nat
  <2>1. Coin(FeeDenom, t.fee) \in Coins
    BY Zenon, <1>5, CoinType, PoolAssumption
  <2> HIDE DEF Coin
  <2> QED BY <1>7, <1>10, <2>1 DEF Coins
<1> HIDE DEF NoNote
<1>12. \E to \in Accounts \cup Modules \cup {FeeCollector}, rem \in Coins, back \in OutputNote :
        /\ back.value > 0 => back.denom \in assets
        /\ Execute(t, to, rem, back)
        /\ stranded' \in Coins
        /\ \A e \in Denoms : Coin(FeeDenom, t.fee)[e] + rem[e] + stranded'[e] = stranded[e] + t.balance[e]
        /\ UNCHANGED <<anchorVars, assets, sendEnabled>>
  <2>0. ~(NoNote.value > 0)
    BY <1>8
  <2>1. CASE \E a \in Accounts : Send(t, a)
    <3>1. PICK a \in Accounts : Send(t, a)
      BY <2>1
    <3>2. /\ SendAllowed(a, Remainders(t)) /\ Execute(t, a, Remainders(t), NoNote)
          /\ UNCHANGED <<anchorVars, stranded, assets, sendEnabled>>
      BY <3>1 DEF Send
    <3>3. \A e \in Denoms : Coin(FeeDenom, t.fee)[e] + Remainders(t)[e] + stranded'[e] = stranded[e] + t.balance[e]
      BY <1>7, <1>11, <3>2
    <3>5. stranded' \in Coins /\ UNCHANGED <<anchorVars, assets, sendEnabled>>
      BY <1>10, <3>2
    <3> QED BY Zenon, <1>7, <1>8, <2>0, <3>2, <3>3, <3>5
  <2>2. CASE \E m \in Modules, back \in OutputNote : PrivateAction(t, m, back)
    <3>1. PICK m \in Modules, back \in OutputNote : PrivateAction(t, m, back)
      BY <2>2
    <3>2. /\ Execute(t, m, Remainders(t), back) /\ UNCHANGED <<anchorVars, stranded, assets, sendEnabled>>
          /\ back.value > 0 => back.denom \in assets
      BY <3>1 DEF PrivateAction
    <3>3. \A e \in Denoms : Coin(FeeDenom, t.fee)[e] + Remainders(t)[e] + stranded'[e] = stranded[e] + t.balance[e]
      BY <1>7, <1>11, <3>2
    <3>4. stranded' \in Coins /\ UNCHANGED <<anchorVars, assets, sendEnabled>>
      BY <1>10, <3>2
    <3> QED BY Zenon, <1>7, <3>2, <3>3, <3>4
  <2>3. CASE HandlerFails(t)
    <3>1. /\ Execute(t, FeeCollector, None, NoNote) /\ stranded' = Plus(stranded, Remainders(t))
          /\ UNCHANGED <<anchorVars, assets, sendEnabled>>
      BY <2>3 DEF HandlerFails
    <3>2. stranded' \in Coins /\ \A e \in Denoms : stranded'[e] = stranded[e] + Remainders(t)[e]
      BY <1>7, <1>10, <3>1, CoinTypes
    <3>3. \A e \in Denoms : Coin(FeeDenom, t.fee)[e] + None[e] + stranded'[e] = stranded[e] + t.balance[e]
      BY <1>7, <1>8, <1>11, <3>2
    <3> QED BY Zenon, <1>8, <2>0, <3>1, <3>2, <3>3
  <2> QED BY Zenon, <1>3, <2>1, <2>2, <2>3 DEF Runs, t
<1> QED BY Zenon, <1>4, <1>5, <1>6, <1>9, <1>12 DEF Ends

\* A private message, however it ends, preserves the invariant.
LEMMA PrivateMsgIInv ==
    ASSUME IInv, PrivateMsg
    PROVE  IInv'
<1>0. PICK t :
         \E n \in MinActions..MaxActions, to \in Accounts \cup Modules \cup {FeeCollector},
            rem \in Coins, back \in OutputNote : Ends(t, n, to, rem, back)
  BY PrivateMsgShape
<1>p. PICK n \in MinActions..MaxActions, to \in Accounts \cup Modules \cup {FeeCollector},
          rem \in Coins, back \in OutputNote : Ends(t, n, to, rem, back)
  BY Zenon, <1>0
<1>1. /\ t.outs \in [1..n -> OutputNote] /\ t.fee \in Nat
      /\ t.spends \subseteq 1..Len(notes) /\ CheckPrivateMsg(t)
      /\ Execute(t, to, rem, back)
      /\ stranded' \in Coins
      /\ UNCHANGED <<anchorVars, assets, sendEnabled>>
  BY Zenon, <1>p DEF Ends
<1>2. n \in Nat
  BY PoolAssumption
<1>3. /\ notes' = notes \o t.outs \o (IF back.value = 0 THEN <<>> ELSE <<back>>)
      /\ nullifiers' = nullifiers \cup t.spends
      /\ count' = count + Len(t.outs)
  BY Zenon, <1>1 DEF Execute
<1>4. /\ notes' \in Seq(Note) /\ Len(t.outs) = n
      /\ Len(notes') = Len(notes) + n + (IF back.value = 0 THEN 0 ELSE 1)
  BY Zenon, <1>1, <1>2, <1>3, AppendedNotes DEF IInv, TypeOK
<1>5. /\ count + n <= MaxPrivateActionsPerBlock /\ Len(notes) + n + 1 <= Capacity
  BY SMTT(40), <1>1, <1>4 DEF CheckPrivateMsg
<1>6. /\ bank' \in [Holders -> Coins] /\ turnIn' \in Coins /\ turnOut' \in Coins
      /\ dirty' \subseteq Denoms /\ TurnstileExact'
  <2>1. RunsWith(t, to, rem, back)
    BY Zenon, <1>1 DEF RunsWith
  <2> QED BY Zenon, <2>1, ExecuteKeeps
<1>7. Len(notes) \in Nat /\ Len(notes') \in Nat /\ Len(notes) <= Len(notes') /\ Len(notes') <= Capacity
  BY <1>2, <1>4, <1>5, PoolAssumption DEF IInv, TypeOK
<1>8. nullifiers' \subseteq 1..Len(notes')
  <2>1. nullifiers \subseteq 1..Len(notes) /\ t.spends \subseteq 1..Len(notes)
    BY Zenon, <1>1 DEF IInv, TypeOK
  <2>2. 1..Len(notes) \subseteq 1..Len(notes')
    BY <1>7
  <2> QED BY Zenon, <1>3, <2>1, <2>2
<1>9. count' \in 0..MaxPrivateActionsPerBlock
  BY SMTT(40), <1>2, <1>3, <1>4, <1>5, PoolAssumption DEF IInv, TypeOK
<1>10. TypeOK'
  BY SMTT(40), <1>1, <1>4, <1>6, <1>7, <1>8, <1>9 DEF IInv, TypeOK
<1>11. RootsInTree'
  BY <1>1, <1>7 DEF IInv, RootsInTree, anchorVars
<1> QED BY <1>6, <1>10, <1>11 DEF IInv

\* SplitNoteValues returns note values, each in range, for every positive v.
LEMMA SplitTypes ==
    ASSUME NEW v \in Nat \ {0}
    PROVE  LET n == (v + MaxNoteValue - 1) \div MaxNoteValue
           IN  /\ n \in Nat /\ Len(SplitNoteValues(v)) = n
               /\ SplitNoteValues(v) \in [1..n -> 1..MaxNoteValue]
<1> DEFINE M == MaxNoteValue
           n == (v + M - 1) \div M
<1>1. M \in Nat /\ M > 0
  BY PoolAssumption
<1>2. n \in Nat /\ M * n <= v + M - 1 /\ v + M - 1 < M * n + M
  BY <1>1
<1>3. M * (n - 1) = M * n - M
  BY <1>1, <1>2
<1>4. v - (n - 1) * M \in 1..M
  BY <1>1, <1>2, <1>3
<1>5. SplitNoteValues(v) = [i \in 1..n |-> IF i < n THEN M ELSE v - (n - 1) * M]
  BY DEF SplitNoteValues
<1> HIDE DEF n, M
<1>6. SplitNoteValues(v) \in [1..n -> 1..M]
  BY <1>1, <1>4, <1>5
<1>7. Len(SplitNoteValues(v)) = n
  BY <1>2, <1>5
<1> QED BY <1>2, <1>6, <1>7 DEF n, M

\* What a block boundary does to the anchor variables is confined to roots of
\* the tree: RootsInTree survives the end of a block and a restart.
LEMMA BoundaryRoots ==
    ASSUME IInv, UNCHANGED notes, A!EndBlock \/ A!Restart \/ A!BeginBlock \/ A!UpdateParams
    PROVE  RootsInTree'
<1>1. CASE A!EndBlock
  <2>1. PICK D : roots' = [r \in DOMAIN A!RecordedRoots \ {k[2] : k \in D} |-> A!RecordedRoots[r]]
    BY <1>1 DEF A!EndBlock
  <2>2. DOMAIN A!RecordedRoots \subseteq DOMAIN roots \cup {size}
    BY DEF A!RecordedRoots
  <2>3. size \in 0..Len(notes)
    BY DEF size, IInv, TypeOK
  <2> QED BY <2>1, <2>2, <2>3 DEF IInv, RootsInTree
<1>2. CASE A!Restart
  BY <1>2 DEF A!Restart, A!GenesisAcceptsAt, IInv, RootsInTree
<1>3. CASE A!BeginBlock \/ A!UpdateParams
  BY <1>3 DEF A!BeginBlock, A!UpdateParams, IInv, RootsInTree
<1> QED BY <1>1, <1>2, <1>3

\* Every step preserves the invariant.
LEMMA NextIInv == IInv /\ [Next]_vars => IInv'
<1> SUFFICES ASSUME IInv, [Next]_vars PROVE IInv'
  OBVIOUS
<1>0. TypeOK /\ RootsInTree /\ TurnstileExact
  BY DEF IInv
<1>1. CASE \E d \in Denoms : RegisterAsset(d)
  BY <1>0, <1>1 DEF RegisterAsset, IInv, TypeOK, RootsInTree, TurnstileExact, checkDenom,
                    anchorVars, moneyVars
<1>2. CASE \E d \in Switchable : SetSendEnabled(d)
  <2>1. sendEnabled' \subseteq Denoms /\ UNCHANGED <<anchorVars, moneyVars, assets, count>>
    BY <1>0, <1>2, PoolAssumption DEF SetSendEnabled, TypeOK
  <2> QED BY <1>0, <2>1 DEF IInv, TypeOK, RootsInTree, TurnstileExact, checkDenom,
                    anchorVars, moneyVars
<1>3. ASSUME NEW d \in Denoms, NEW v \in 1..MaxCoins, NEW a \in Accounts, Shield(a, d, v)
      PROVE  IInv'
  <2>1. /\ v \in 1..MaxNoteValue /\ DepositAllowed(a, d, v, 1)
        /\ bank' = Moved(bank, a, Pool, Coin(d, v)) /\ countIn(Coin(d, v))
        /\ notes' = Append(notes, [denom |-> d, value |-> v])
        /\ UNCHANGED <<anchorVars, nullifiers, turnOut, stranded, assets, sendEnabled, count>>
    BY <1>3 DEF Shield
  <2>2. v \in Nat /\ Covers(bank, a, Coin(d, v)) /\ Len(notes) + 1 <= Capacity
    BY <2>1 DEF DepositAllowed
  <2>3. /\ bank' \in [Holders -> Coins] /\ turnIn' \in Coins /\ dirty' \subseteq Denoms
        /\ TurnstileExact'
    BY <2>1, <2>2, DepositKeeps
  <2>4. notes' \in Seq(Note) /\ Len(notes') = Len(notes) + 1
    BY SMTT(40), <1>0, <2>1, <2>2 DEF TypeOK, Note
  <2>5. TypeOK'
    BY <1>0, <2>1, <2>2, <2>3, <2>4, PoolAssumption DEF TypeOK
  <2>6. RootsInTree'
    BY <1>0, <2>1, <2>4 DEF TypeOK, RootsInTree, anchorVars
  <2> QED BY <2>3, <2>5, <2>6 DEF IInv
<1>4. ASSUME NEW d \in Denoms, NEW v \in 1..MaxCoins, NEW m \in Modules, MintNoteSplit(m, d, v)
      PROVE  IInv'
  <2> DEFINE vs == SplitNoteValues(v)
             n == (v + MaxNoteValue - 1) \div MaxNoteValue
             added == [i \in 1..Len(vs) |-> [denom |-> d, value |-> vs[i]]]
  <2>1. /\ DepositAllowed(m, d, v, Len(vs))
        /\ bank' = Moved(bank, m, Pool, Coin(d, v)) /\ countIn(Coin(d, v))
        /\ notes' = notes \o added
        /\ UNCHANGED <<anchorVars, nullifiers, turnOut, stranded, assets, sendEnabled, count>>
    BY <1>4 DEF MintNoteSplit
  <2>2. n \in Nat /\ Len(vs) = n /\ vs \in [1..n -> 1..MaxNoteValue]
    BY SplitTypes
  <2>3. v \in Nat /\ Covers(bank, m, Coin(d, v)) /\ Len(notes) + n <= Capacity
    BY SMTT(40), <2>1, <2>2 DEF DepositAllowed
  <2>4. /\ bank' \in [Holders -> Coins] /\ turnIn' \in Coins /\ dirty' \subseteq Denoms
        /\ TurnstileExact'
    BY Zenon, <2>1, <2>3, DepositKeeps
  <2> HIDE DEF vs, n
  <2>5. added \in Seq(Note) /\ Len(added) = n
    BY <2>2, PoolAssumption DEF Note
  <2> HIDE DEF added
  <2>6. notes' \in Seq(Note) /\ Len(notes') = Len(notes) + n
    <3>1. notes' = notes \o added /\ notes \in Seq(Note)
      BY <1>0, <2>1 DEF TypeOK
    <3>2. notes \o added \in Seq(Note) /\ Len(notes \o added) = Len(notes) + Len(added)
      BY Zenon, <2>5, <3>1, Concat
    <3> QED BY <2>5, <3>1, <3>2
  <2>7. TypeOK'
    BY SMTT(40), <1>0, <2>1, <2>2, <2>3, <2>4, <2>6, PoolAssumption DEF TypeOK
  <2>8. RootsInTree'
    BY <1>0, <2>1, <2>2, <2>6 DEF TypeOK, RootsInTree, anchorVars
  <2> QED BY <2>4, <2>7, <2>8 DEF IInv
<1>5. ASSUME NEW d \in Denoms, NEW v \in 1..MaxCoins, NEW a \in Accounts \cup Modules, NEW to \in Holders,
             BankSend(a, to, Coin(d, v))
      PROVE  IInv'
  <2> DEFINE c == Coin(d, v)
  <2>1. /\ a # to /\ SendAllowed(to, c) /\ Covers(bank, a, c) /\ bank' = Moved(bank, a, to, c)
        /\ UNCHANGED <<anchorVars, notes, nullifiers, turnIn, turnOut, dirty, stranded,
                       assets, sendEnabled, count>>
    BY <1>5 DEF BankSend
  <2>2. c \in Coins
    BY CoinType
  <2>3. a \in Holders /\ to \in Holders /\ a # Pool /\ to # Pool /\ Pool \in Holders
    BY <2>1, PoolAssumption DEF Holders, SendAllowed
  <2> HIDE DEF c
  <2>4. /\ bank' \in [Holders -> Coins]
        /\ \A e \in Denoms : bank'[a][e] = bank[a][e] - c[e] /\ bank'[to][e] = bank[to][e] + c[e]
        /\ \A h \in Holders \ {a, to} : bank'[h] = bank[h]
    <3>1. bank \in [Holders -> Coins] /\ Covers(bank, a, c) /\ a # to
      BY SMTT(40), <1>0, <2>1 DEF TypeOK
    <3>2. /\ Moved(bank, a, to, c) \in [Holders -> Coins]
          /\ \A e \in Denoms : /\ Moved(bank, a, to, c)[a][e] = bank[a][e] - c[e]
                               /\ Moved(bank, a, to, c)[to][e] = bank[to][e] + c[e]
          /\ \A h \in Holders \ {a, to} : Moved(bank, a, to, c)[h] = bank[h]
      BY SMTT(40), <3>1, <2>2, <2>3, MovedCorrect
    <3> QED BY <2>1, <3>2, Zenon
  <2>5. TypeOK' /\ RootsInTree'
    BY <1>0, <2>1, <2>4 DEF TypeOK, RootsInTree, anchorVars
  <2>6. TurnstileExact'
    BY ZenonT(40), <1>0, <2>1, <2>3, <2>4 DEF TurnstileExact, checkDenom
  <2> QED BY <2>5, <2>6 DEF IInv
<1>6. CASE PrivateMsg
  BY <1>6, PrivateMsgIInv
<1>7. CASE BeginBlock \/ UpdateParams \/ Restart
  <2>1. RootsInTree' /\ UNCHANGED <<moneyVars, assets, sendEnabled, count>>
    BY <1>7, BoundaryRoots DEF BeginBlock, UpdateParams, Restart, moneyVars
  <2> QED BY <1>0, <2>1 DEF IInv, TypeOK, TurnstileExact, checkDenom, moneyVars
<1>8. CASE EndBlock
  <2>1. /\ RootsInTree' /\ dirty' = {} /\ count' = 0
        /\ UNCHANGED <<notes, nullifiers, bank, turnIn, turnOut, stranded, assets, sendEnabled>>
    BY <1>8, BoundaryRoots DEF EndBlock
  <2>2. 0 \in 0..MaxPrivateActionsPerBlock
    BY PoolAssumption
  <2> QED BY <1>0, <2>1, <2>2 DEF IInv, TypeOK, TurnstileExact, checkDenom
<1>9. CASE UNCHANGED vars
  BY <1>0, <1>9 DEF vars, anchorVars, moneyVars, IInv, TypeOK, RootsInTree, TurnstileExact, checkDenom
<1> QED BY <1>1, <1>2, <1>3, <1>4, <1>5, <1>6, <1>7, <1>8, <1>9 DEF Next

\* Types: the pool's state is well typed in every reachable state.
THEOREM PoolTypeCorrect == Spec => []TypeOK
<1>1. IInv => TypeOK
  BY DEF IInv
<1> QED BY InitIInv, NextIInv, <1>1, PTL DEF Spec

\* The pool's balance of every denom is In - Out in every reachable state:
\* no sequence of shields, mints, sends, unshields, module actions, failed
\* handlers, bank transfers and restarts can make EndBlock halt the chain.
THEOREM TurnstileCorrect == Spec => []TurnstileExact
<1>1. IInv => TurnstileExact
  BY DEF IInv
<1> QED BY InitIInv, NextIInv, <1>1, PTL DEF Spec

(***************************************************************************)
(* Refinement: the pool drives the anchor history as Anchors specifies.    *)
(***************************************************************************)
\* A step that leaves the anchor variables alone and does not shrink the
\* tree is a step of Anchors or a stutter.
LEMMA GrowthRefines ==
    ASSUME inBlock, UNCHANGED anchorVars, Len(notes) \in Nat, Len(notes') \in Nat,
           Len(notes) <= Len(notes'), Len(notes') <= Capacity
    PROVE  [A!Next]_(A!vars)
<1>1. CASE Len(notes') = Len(notes)
  BY <1>1 DEF A!vars, anchorVars, size
<1>2. CASE Len(notes') # Len(notes)
  <2> DEFINE n == Len(notes') - Len(notes)
  <2>1. n \in 1..Capacity /\ size + n <= Capacity /\ size' = size + n
    BY <1>2, PoolAssumption DEF size
  <2>2. A!Append
    BY <2>1 DEF A!Append, anchorVars
  <2> QED BY <2>2 DEF A!Next
<1> QED BY <1>1, <1>2

\* Every step of the pool is a step of Anchors or leaves it unchanged.
LEMMA StepRefines == IInv /\ [Next]_vars => [A!Next]_(A!vars)
<1> SUFFICES ASSUME IInv, [Next]_vars PROVE [A!Next]_(A!vars)
  OBVIOUS
<1>0. /\ Len(notes) \in Nat /\ Len(notes) <= Capacity /\ notes \in Seq(Note)
  BY DEF IInv, TypeOK
<1>1. IInv'
  BY NextIInv
<1>2. Len(notes') \in Nat /\ Len(notes') <= Capacity /\ notes' \in Seq(Note)
  BY <1>1 DEF IInv, TypeOK
<1>3. CASE \/ \E d \in Denoms : RegisterAsset(d)
           \/ \E d \in Switchable : SetSendEnabled(d)
           \/ \E d \in Denoms, v \in 1..MaxCoins, h \in Accounts \cup Modules, to \in Holders :
                 BankSend(h, to, Coin(d, v))
           \/ UNCHANGED vars
  <2>1. UNCHANGED anchorVars /\ notes' = notes
    BY <1>3 DEF RegisterAsset, SetSendEnabled, BankSend, vars, moneyVars
  <2> QED BY <2>1 DEF A!vars, anchorVars, size
<1>4. ASSUME NEW d \in Denoms, NEW v \in 1..MaxCoins, NEW a \in Accounts, Shield(a, d, v)
      PROVE  [A!Next]_(A!vars)
  <2>1. inBlock /\ UNCHANGED anchorVars /\ notes' = Append(notes, [denom |-> d, value |-> v])
    BY <1>4 DEF Shield
  <2>2. Len(notes') = Len(notes) + 1
    BY <1>0, <2>1
  <2> QED BY <1>0, <1>2, <2>1, <2>2, GrowthRefines
<1>5. ASSUME NEW d \in Denoms, NEW v \in 1..MaxCoins, NEW m \in Modules, MintNoteSplit(m, d, v)
      PROVE  [A!Next]_(A!vars)
  <2> DEFINE vs == SplitNoteValues(v)
             added == [i \in 1..Len(vs) |-> [denom |-> d, value |-> vs[i]]]
  <2>1. inBlock /\ UNCHANGED anchorVars /\ notes' = notes \o added
    BY <1>5 DEF MintNoteSplit
  <2>2. Len(vs) \in Nat
    BY SplitTypes
  <2> HIDE DEF vs
  <2>3. added \in Seq({added[i] : i \in 1..Len(vs)}) /\ Len(added) = Len(vs)
    BY <2>2
  <2> HIDE DEF added
  <2>4. Len(notes \o added) = Len(notes) + Len(added)
    BY SMTT(40), <1>0, <2>2, <2>3
  <2> QED BY <1>0, <1>2, <2>1, <2>2, <2>3, <2>4, GrowthRefines
<1>6. CASE PrivateMsg
  <2>0. PICK t :
           \E n \in MinActions..MaxActions, to \in Accounts \cup Modules \cup {FeeCollector},
              rem \in Coins, back \in OutputNote : Ends(t, n, to, rem, back)
    BY <1>6, PrivateMsgShape
  <2>1. PICK n \in MinActions..MaxActions, to \in Accounts \cup Modules \cup {FeeCollector},
            rem \in Coins, back \in OutputNote : Ends(t, n, to, rem, back)
    BY Zenon, <2>0
  <2>2. /\ inBlock /\ t.outs \in [1..n -> OutputNote]
        /\ Execute(t, to, rem, back)
        /\ UNCHANGED <<anchorVars, assets, sendEnabled>>
    BY Zenon, <2>1 DEF Ends
  <2>3. notes' = notes \o t.outs \o (IF back.value = 0 THEN <<>> ELSE <<back>>)
    BY ZenonT(40), <2>2 DEF Execute
  <2>4. n \in Nat
    BY PoolAssumption
  <2>5. Len(notes') = Len(notes) + n + (IF back.value = 0 THEN 0 ELSE 1)
    BY Zenon, <1>0, <2>2, <2>3, <2>4, AppendedNotes
  <2>6. Len(notes) <= Len(notes')
    BY <1>0, <2>4, <2>5
  <2>7. inBlock /\ UNCHANGED anchorVars
    BY <2>2
  <2> QED BY <1>0, <1>2, <2>6, <2>7, GrowthRefines
<1>7. CASE BeginBlock \/ UpdateParams \/ Restart \/ EndBlock
  BY <1>7 DEF BeginBlock, UpdateParams, Restart, EndBlock, A!Next
<1> QED BY <1>3, <1>4, <1>5, <1>6, <1>7 DEF Next

\* The pool implements module Anchors: its tree, CheckTx aside, drives the
\* anchor history only as recordRoot, pruneRoots and InitGenesis allow.
THEOREM PoolRefinesAnchors == Spec => AnchorsSpec
<1>1. Init => A!Init
  BY DEF Init
<1> QED BY InitIInv, NextIInv, StepRefines, <1>1, PTL DEF Spec, AnchorsSpec, A!Spec

(***************************************************************************)
(* Backing: every coin of the pool belongs to an unspent note or was       *)
(* stranded by a failed handler, and every unspent note can be spent.      *)
(***************************************************************************)
\* A leaf of a tree of notes has a denom and a value, and positions are finite.
LEMMA NoteAt ==
    ASSUME NEW ns \in Seq(Note)
    PROVE  /\ Len(ns) \in Nat /\ DOMAIN ns = 1..Len(ns)
           /\ \A i \in 1..Len(ns) : ns[i] \in Note /\ ns[i].denom \in Denoms /\ ns[i].value \in Nat
           /\ \A S \in SUBSET (1..Len(ns)) : IsFiniteSet(S)
<1>1. Len(ns) \in Nat /\ DOMAIN ns = 1..Len(ns)
  OBVIOUS
<1>2. \A i \in 1..Len(ns) : ns[i] \in Note
  OBVIOUS
<1>3. \A note \in Note : note.denom \in Denoms /\ note.value \in Nat
  BY DEF Note
<1>4. IsFiniteSet(1..Len(ns))
  BY <1>1, FiniteInterval
<1>5. \A S \in SUBSET (1..Len(ns)) : IsFiniteSet(S)
  BY Zenon, <1>4, FiniteSubset
<1> QED BY <1>1, <1>2, <1>3, <1>5

\* The value in a set of positions is a natural.
LEMMA NoteSumNat ==
    ASSUME NEW ns \in Seq(Note), NEW S \in SUBSET (1..Len(ns)), NEW d \in Denoms
    PROVE  NoteSum(ns, S, d) \in Nat /\ IsFiniteSet(S)
<1> DEFINE f == [i \in S |-> IF ns[i].denom = d THEN ns[i].value ELSE 0]
<1>1. IsFiniteSet(S)
  BY NoteAt
<1>2. \A i \in S : f[i] \in Nat
  BY NoteAt
<1> HIDE DEF f
<1>3. SumFunctionOnSet(f, S) \in Nat
  BY Zenon, <1>1, <1>2, SumNat
<1> QED BY <1>1, <1>3 DEF NoteSum, f

\* The value in a set of positions is the value in a part of it and in the rest.
LEMMA NoteSumPart ==
    ASSUME NEW ns \in Seq(Note), NEW S \in SUBSET (1..Len(ns)), NEW T \in SUBSET S, NEW d \in Denoms
    PROVE  NoteSum(ns, S, d) = NoteSum(ns, S \ T, d) + NoteSum(ns, T, d)
<1> DEFINE F(U) == [i \in U |-> IF ns[i].denom = d THEN ns[i].value ELSE 0]
           f == F(S)
<1>1. IsFiniteSet(S) /\ IsFiniteSet(S \ T) /\ IsFiniteSet(T)
  BY NoteAt, FiniteSubset
<1>2. \A i \in S : f[i] \in Int
  BY NoteAt
<1>3. /\ \A i \in T : f[i] \in Int /\ F(T)[i] = f[i]
      /\ \A i \in S \ T : f[i] \in Int /\ F(S \ T)[i] = f[i]
  BY <1>2
<1> HIDE DEF F, f
<1>4. SumFunctionOnSet(f, S) = SumFunctionOnSet(f, S \ T) + SumFunctionOnSet(f, T)
  BY ZenonT(40), <1>1, <1>2, SumPart
<1>5. SumFunctionOnSet(F(T), T) = SumFunctionOnSet(f, T)
  BY Zenon, <1>1, <1>3, SumSame
<1>6. SumFunctionOnSet(F(S \ T), S \ T) = SumFunctionOnSet(f, S \ T)
  <2> DEFINE R == S \ T
  <2> HIDE DEF R
  <2>1. IsFiniteSet(R) /\ \A i \in R : f[i] \in Int /\ F(R)[i] = f[i]
    BY Zenon, <1>1, <1>3 DEF R
  <2>2. SumFunctionOnSet(F(R), R) = SumFunctionOnSet(f, R)
    BY <2>1, SumSame
  <2> QED BY <2>2 DEF R
<1> QED BY <1>4, <1>5, <1>6 DEF NoteSum, F, f

\* The positions that appending outs to the tree ns adds.
Added(ns, outs) == (Len(ns) + 1)..Len(ns \o outs)

\* Appending notes adds their value to that of the positions kept.
LEMMA NoteSumAppend ==
    ASSUME NEW ns \in Seq(Note), NEW outs \in Seq(Note), NEW S \in SUBSET (1..Len(ns)), NEW d \in Denoms
    PROVE  NoteSum(ns \o outs, S \cup Added(ns, outs), d) = NoteSum(ns, S, d) + NoteSum(outs, DOMAIN outs, d)
<1> DEFINE new == ns \o outs
           T == (Len(ns) + 1)..Len(new)
           O == 1..Len(outs)
           g == [i \in S \cup T |-> IF new[i].denom = d THEN new[i].value ELSE 0]
           f == [i \in S |-> IF ns[i].denom = d THEN ns[i].value ELSE 0]
           h == [i \in O |-> IF outs[i].denom = d THEN outs[i].value ELSE 0]
           p == [i \in O |-> i + Len(ns)]
<1>1. /\ Len(new) = Len(ns) + Len(outs) /\ Len(ns) \in Nat /\ Len(outs) \in Nat
      /\ \A i \in 1..Len(ns) : new[i] = ns[i]
      /\ \A i \in O : new[i + Len(ns)] = outs[i]
      /\ DOMAIN outs = O
  OBVIOUS
<1> HIDE DEF new
<1>2. IsFiniteSet(S) /\ IsFiniteSet(T) /\ IsFiniteSet(O) /\ S \cap T = {}
  <2>1. IsFiniteSet(S) /\ IsFiniteSet(O)
    BY NoteAt
  <2>2. IsFiniteSet(T)
    BY <1>1, FiniteInterval
  <2> QED BY <1>1, <2>1, <2>2
<1>3. \A i \in S : f[i] \in Int /\ g[i] = f[i]
  <2> SUFFICES ASSUME NEW i \in S PROVE f[i] \in Int /\ g[i] = f[i]
    OBVIOUS
  <2>1. new[i] = ns[i] /\ ns[i].value \in Nat
    BY <1>1, NoteAt
  <2> QED BY <2>1
<1>4. \A i \in O : h[i] \in Int /\ g[p[i]] = h[i]
  <2> SUFFICES ASSUME NEW i \in O PROVE h[i] \in Int /\ g[p[i]] = h[i]
    BY Zenon
  <2>1. new[i + Len(ns)] = outs[i] /\ outs[i].value \in Nat
    BY Zenon, <1>1, NoteAt
  <2>2. p[i] = i + Len(ns) /\ p[i] \in T
    BY <1>1
  <2> QED BY <2>1, <2>2
<1>5. T = {p[i] : i \in O}
  <2>1. ASSUME NEW j \in T PROVE j \in {p[i] : i \in O}
    <3>1. j - Len(ns) \in O /\ p[j - Len(ns)] = j
      BY <1>1
    <3> QED BY <3>1
  <2>2. ASSUME NEW i \in O PROVE p[i] \in T
    BY <1>1
  <2> HIDE DEF T, O, p
  <2> QED BY Zenon, <2>1, <2>2
<1>6. \A x, y \in O : p[x] = p[y] => x = y
  BY <1>1
<1>7. \A i \in S \cup T : g[i] \in Int
  <2>1. ASSUME NEW i \in T PROVE g[i] \in Int
    <3>1. PICK j \in O : i = p[j]
      BY <1>5
    <3> QED BY Zenon, <1>4, <3>1
  <2> QED BY Zenon, <1>3, <2>1
<1> HIDE DEF g, f, h, p, T, O
<1>8. SumFunctionOnSet(g, S \cup T) = SumFunctionOnSet(g, S) + SumFunctionOnSet(g, T)
  BY Zenon, <1>2, <1>7, SumUnion
<1>9. SumFunctionOnSet(g, S) = SumFunctionOnSet(f, S)
  BY Zenon, <1>2, <1>3, SumSame
<1>10. SumFunctionOnSet(g, T) = SumFunctionOnSet(h, O)
  <2>1. Renames(h, O, g, T, p)
    BY Zenon, <1>2, <1>4, <1>5, <1>6 DEF Renames
  <2> QED BY <2>1, SumRename
<1> QED BY Zenon, <1>1, <1>8, <1>9, <1>10 DEF NoteSum, Added, new, T, g, f, h

\* SplitNoteValues loses nothing: the notes a mint of v coins makes are worth v.
LEMMA SplitSum ==
    ASSUME NEW v \in Nat \ {0}, NEW d \in Denoms, NEW e \in Denoms
    PROVE  LET vs == SplitNoteValues(v)
               added == [i \in 1..Len(vs) |-> [denom |-> d, value |-> vs[i]]]
           IN  NoteSum(added, DOMAIN added, e) = (IF e = d THEN v ELSE 0)
<1> DEFINE vs == SplitNoteValues(v)
           M == MaxNoteValue
           n == (v + M - 1) \div M
           added == [i \in 1..Len(vs) |-> [denom |-> d, value |-> vs[i]]]
           S == 1..n
           R == S \ {n}
           f == [i \in S |-> IF added[i].denom = e THEN added[i].value ELSE 0]
<1>1. M \in Nat /\ M > 0
  BY PoolAssumption
<1>2. n \in Nat /\ n > 0
  <2>1. v + M - 1 \in Nat /\ v + M - 1 >= M
    BY <1>1
  <2> HIDE DEF M
  <2> QED BY <1>1, <2>1
<1>3. Len(vs) = n /\ vs \in [S -> 1..M]
  BY SplitTypes
<1>4. vs = [i \in S |-> IF i < n THEN M ELSE v - (n - 1) * M]
  BY DEF SplitNoteValues
<1> HIDE DEF vs, n, M
<1>5. DOMAIN added = S /\ \A i \in S : added[i] = [denom |-> d, value |-> vs[i]]
  BY <1>3
<1> HIDE DEF added
<1>6. \A i \in S : f[i] = (IF e = d THEN vs[i] ELSE 0)
  BY <1>5
<1>7. IsFiniteSet(S) /\ n \in S
  BY <1>2, FiniteInterval
<1>8. R = 1..(n - 1)
  BY <1>2
<1>9. NoteSum(added, DOMAIN added, e) = SumFunctionOnSet(f, S)
  BY Zenon, <1>5 DEF NoteSum, f
<1>10. CASE e # d
  <2>1. \A i \in S : f[i] = 0
    BY <1>6, <1>10
  <2> HIDE DEF f
  <2> QED BY <1>7, <1>9, <1>10, <2>1, SumZero DEF vs, added
<1>11. CASE e = d
  <2>1. \A i \in R : f[i] = M
    BY <1>2, <1>4, <1>6, <1>11
  <2>2. f[n] = v - (n - 1) * M
    BY <1>2, <1>4, <1>6, <1>7, <1>11
  <2>3. \A i \in S : f[i] \in Int
    BY <1>1, <1>3, <1>6, <1>11
  <2> HIDE DEF f, S, R
  <2>4. SumFunctionOnSet(f, R) = M * (n - 1)
    <3>1. n - 1 \in Nat /\ M \in Int /\ \A i \in 1..(n - 1) : f[i] = M
      BY <1>1, <1>2, <1>8, <2>1
    <3>2. SumFunctionOnSet(f, 1..(n - 1)) = M * (n - 1)
      BY Zenon, <3>1, SumConstant
    <3> QED BY Zenon, <1>8, <3>2
  <2>5. SumFunctionOnSet(f, S) = SumFunctionOnSet(f, R) + f[n]
    BY <1>7, <2>3, SumRemove DEF R
  <2>6. (n - 1) * M \in Int /\ M * (n - 1) = (n - 1) * M
    BY <1>1, <1>2
  <2>7. SumFunctionOnSet(f, S) = v
    BY <2>2, <2>4, <2>5, <2>6
  <2> QED BY <1>9, <1>11, <2>7 DEF vs, added
<1> QED BY <1>10, <1>11

\* The latest root is recorded, and between blocks it is the whole tree's.
LatestRecorded ==
    /\ latest \in DOMAIN roots
    /\ ~inBlock => latest = Len(notes)

\* An unspent note of value is of a registered denom, within a block too.
Registered ==
    \A i \in 1..Len(notes) \ nullifiers : notes[i].value > 0 => notes[i].denom \in assets

\* The pool holds the value of the unspent notes and what was stranded.
Covered ==
    \A d \in Denoms : bank[Pool][d] = NoteSum(notes, 1..Len(notes) \ nullifiers, d) + stranded[d]

\* The inductive invariant of Backed.
BInv == IInv /\ LatestRecorded /\ Registered /\ Covered

\* The tree has no note at genesis and the pool no coin.
LEMMA InitBInv == Init => BInv
<1> SUFFICES ASSUME Init PROVE BInv
  OBVIOUS
<1>1. IInv
  BY InitIInv
<1>2. LatestRecorded /\ Registered
  BY DEF Init, A!Init, LatestRecorded, Registered
<1>3. bank[Pool] = None /\ \A d \in Denoms : None[d] = 0
  BY DEF Init, Holders, None
<1>4. 1..Len(notes) \ nullifiers = {}
  BY DEF Init
<1>5. \A d \in Denoms : NoteSum(notes, {}, d) = 0
  BY SumEmpty DEF NoteSum
<1>6. Covered
  BY <1>3, <1>4, <1>5 DEF Covered, Init
<1> QED BY <1>1, <1>2, <1>6 DEF BInv

\* A step within a block spends unspent notes, appends others of registered
\* denoms, and moves the balance by the difference, stranding the rest.
Grows(added, spends) ==
    /\ inBlock /\ UNCHANGED <<anchorVars, assets>>
    /\ added \in Seq(Note) /\ notes' = notes \o added
    /\ spends \subseteq 1..Len(notes) /\ spends \cap nullifiers = {}
    /\ nullifiers' = nullifiers \cup spends
    /\ \A i \in 1..Len(added) : added[i].value > 0 => added[i].denom \in assets
    /\ \A d \in Denoms :
          bank'[Pool][d] + NoteSum(notes, spends, d) + stranded[d]
             = bank[Pool][d] + NoteSum(added, DOMAIN added, d) + stranded'[d]

\* Such a step keeps the pool backed.
LEMMA GrowthBacked ==
    ASSUME BInv, IInv', NEW added, NEW spends, Grows(added, spends)
    PROVE  BInv'
<1> DEFINE U == 1..Len(notes) \ nullifiers
           U2 == 1..Len(notes') \ nullifiers'
           T == (Len(notes) + 1)..Len(notes')
<1>1. /\ notes \in Seq(Note) /\ notes' \in Seq(Note) /\ nullifiers \subseteq 1..Len(notes)
      /\ stranded \in Coins /\ stranded' \in Coins /\ bank \in [Holders -> Coins] /\ bank' \in [Holders -> Coins]
  BY DEF BInv, IInv, TypeOK
<1>2. /\ Len(notes) \in Nat /\ Len(added) \in Nat /\ Len(notes') = Len(notes) + Len(added)
      /\ \A i \in 1..Len(notes) : notes'[i] = notes[i]
      /\ \A i \in T : notes'[i] = added[i - Len(notes)] /\ i - Len(notes) \in 1..Len(added)
  BY <1>1 DEF Grows
<1>3. U2 = (U \ spends) \cup T
  BY <1>1, <1>2 DEF Grows
<1>4. spends \in SUBSET U /\ U \in SUBSET (1..Len(notes))
  BY DEF Grows
<1>5. LatestRecorded'
  BY DEF BInv, LatestRecorded, anchorVars, Grows
<1>6. Registered'
  <2> SUFFICES ASSUME NEW i \in U2, notes'[i].value > 0 PROVE notes'[i].denom \in assets'
    BY DEF Registered
  <2>1. CASE i \in U
    BY <1>2, <2>1 DEF BInv, Registered, Grows
  <2>2. CASE i \in T
    BY <1>2, <2>2 DEF Grows
  <2> QED BY <1>3, <2>1, <2>2
<1>7. ASSUME NEW d \in Denoms
      PROVE  bank'[Pool][d] = NoteSum(notes', U2, d) + stranded'[d]
  <2> HIDE DEF U
  <2>1. bank[Pool][d] = NoteSum(notes, U, d) + stranded[d]
    BY ZenonT(40) DEF BInv, Covered, U
  <2>2. NoteSum(notes, U, d) = NoteSum(notes, U \ spends, d) + NoteSum(notes, spends, d)
    BY <1>1, <1>4, NoteSumPart
  <2>3. NoteSum(notes', (U \ spends) \cup T, d) = NoteSum(notes, U \ spends, d) + NoteSum(added, DOMAIN added, d)
    <3>1. added \in Seq(Note) /\ notes' = notes \o added /\ U \ spends \in SUBSET (1..Len(notes))
      BY Zenon, <1>4 DEF Grows
    <3> DEFINE K == U \ spends
    <3>2. K \in SUBSET (1..Len(notes)) /\ T = Added(notes, added)
      BY <3>1 DEF Added
    <3> HIDE DEF K, T
    <3>3. NoteSum(notes', K \cup T, d) = NoteSum(notes, K, d) + NoteSum(added, DOMAIN added, d)
      <4>1. notes \in Seq(Note) /\ added \in Seq(Note) /\ K \in SUBSET (1..Len(notes))
        BY <1>1, <3>1, <3>2
      <4>2. NoteSum(notes \o added, K \cup Added(notes, added), d)
               = NoteSum(notes, K, d) + NoteSum(added, DOMAIN added, d)
        BY <4>1, NoteSumAppend
      <4> QED BY <3>1, <3>2, <4>2
    <3> QED BY <3>3 DEF K
  <2>4. NoteSum(notes, U \ spends, d) \in Nat /\ NoteSum(notes, spends, d) \in Nat
    BY Zenon, <1>1, <1>4, NoteSumNat
  <2>5. NoteSum(added, DOMAIN added, d) \in Nat
    BY Zenon, NoteSumNat, NoteAt DEF Grows
  <2>6. stranded[d] \in Nat /\ stranded'[d] \in Nat /\ bank'[Pool][d] \in Nat
    BY <1>1 DEF Coins, Holders
  <2>7. bank'[Pool][d] + NoteSum(notes, spends, d) + stranded[d]
           = bank[Pool][d] + NoteSum(added, DOMAIN added, d) + stranded'[d]
    BY Zenon DEF Grows
  <2>8. NoteSum(notes', U2, d) = NoteSum(notes', (U \ spends) \cup T, d)
    BY Zenon, <1>3
  <2> DEFINE kept == NoteSum(notes, U \ spends, d)
             spent == NoteSum(notes, spends, d)
             new == NoteSum(added, DOMAIN added, d)
             total == NoteSum(notes', U2, d)
  <2>9. /\ kept \in Nat /\ spent \in Nat /\ new \in Nat /\ total = kept + new
        /\ bank[Pool][d] = (kept + spent) + stranded[d]
        /\ bank'[Pool][d] + spent + stranded[d] = bank[Pool][d] + new + stranded'[d]
    BY Zenon, <2>1, <2>2, <2>3, <2>4, <2>5, <2>7, <2>8
  <2> DEFINE b1 == bank[Pool][d]
             b2 == bank'[Pool][d]
             s1 == stranded[d]
             s2 == stranded'[d]
  <2>10. /\ b2 \in Nat /\ s1 \in Nat /\ s2 \in Nat
         /\ kept \in Nat /\ spent \in Nat /\ new \in Nat /\ total = kept + new
         /\ b1 = (kept + spent) + s1 /\ b2 + spent + s1 = b1 + new + s2
    BY Zenon, <2>6, <2>9
  <2> HIDE DEF U2, T, kept, spent, new, total, b1, b2, s1, s2
  <2>11. b2 = total + s2
    BY <2>10
  <2> QED BY Zenon, <2>11 DEF total, b2, s2
<1> QED BY <1>5, <1>6, <1>7 DEF BInv, Covered

\* A step that leaves the notes, the pool's balance and the history alone and
\* unregisters nothing keeps the pool backed.
LEMMA QuietBacked ==
    ASSUME BInv, IInv', LatestRecorded', assets \subseteq assets',
           UNCHANGED <<notes, nullifiers, stranded>>, bank'[Pool] = bank[Pool]
    PROVE  BInv'
<1>1. Registered'
  BY DEF BInv, Registered
<1>2. Covered'
  BY ZenonT(40) DEF BInv, Covered, NoteSum
<1> QED BY Zenon, <1>1, <1>2 DEF BInv

\* Block boundaries and restarts keep the tree's root the latest recorded.
LEMMA BoundaryLatest ==
    ASSUME BInv, UNCHANGED notes, A!EndBlock \/ A!Restart \/ A!BeginBlock \/ A!UpdateParams
    PROVE  LatestRecorded'
<1>1. CASE A!EndBlock
  <2>1. PICK D \in A!Doomed(A!RecordedIndex, size) :
           roots' = [r \in DOMAIN A!RecordedRoots \ {k[2] : k \in D} |-> A!RecordedRoots[r]]
    BY <1>1 DEF A!EndBlock
  <2>2. \A k \in D : k[2] # size
    BY <2>1 DEF A!Doomed, A!Lapsed
  <2>3. size \in DOMAIN A!RecordedRoots
    BY DEF A!RecordedRoots, BInv, LatestRecorded
  <2>4. latest' = size
    BY <1>1 DEF A!EndBlock
  <2> QED BY <2>1, <2>2, <2>3, <2>4 DEF LatestRecorded, size
<1>2. CASE A!Restart
  BY <1>2 DEF A!Restart, A!GenesisAcceptsAt, LatestRecorded, size
<1>3. CASE A!BeginBlock \/ A!UpdateParams
  BY <1>3 DEF A!BeginBlock, A!UpdateParams, BInv, LatestRecorded
<1> QED BY <1>1, <1>2, <1>3

\* The value of no note and of one.
LEMMA NoteSumOne ==
    ASSUME NEW note \in Note, NEW d \in Denoms
    PROVE  /\ NoteSum(<<note>>, DOMAIN <<note>>, d) = (IF d = note.denom THEN note.value ELSE 0)
           /\ \A ns : NoteSum(ns, {}, d) = 0
<1> DEFINE f == [i \in {1} |-> IF <<note>>[i].denom = d THEN <<note>>[i].value ELSE 0]
<1>1. \A ns : NoteSum(ns, {}, d) = 0
  BY SumEmpty DEF NoteSum
<1>2. DOMAIN <<note>> = {1} /\ f[1] = (IF d = note.denom THEN note.value ELSE 0)
  OBVIOUS
<1>3. f[1] \in Int
  BY <1>2 DEF Note
<1>4. NoteSum(<<note>>, DOMAIN <<note>>, d) = SumFunctionOnSet(f, {1})
  BY Zenon, <1>2 DEF NoteSum, f
<1>5. SumFunctionOnSet(f, {1}) = f[1]
  <2> HIDE DEF f
  <2>1. IsFiniteSet({1}) /\ {1} \ {1} = {} /\ \A s \in {1} : f[s] \in Int
    BY Zenon, <1>3, FiniteSingle
  <2>2. SumFunctionOnSet(f, {1}) = SumFunctionOnSet(f, {}) + f[1]
    BY <2>1, SumRemove
  <2> QED BY <1>3, <2>2, SumEmpty
<1> QED BY <1>1, <1>2, <1>4, <1>5

\* The note a module mints back, if it mints one.
MintedBack(back) == IF back.value = 0 THEN <<>> ELSE <<back>>

\* The outputs of a message and the note minted back are worth together what
\* each is worth.
LEMMA OutputSum ==
    ASSUME NEW n \in Nat, NEW outs \in [1..n -> OutputNote], NEW back \in OutputNote, NEW d \in Denoms
    PROVE  /\ outs \o MintedBack(back) \in Seq(Note) /\ outs \in Seq(Note) /\ MintedBack(back) \in Seq(Note)
           /\ Len(outs) = n /\ Len(outs \o MintedBack(back)) = n + (IF back.value = 0 THEN 0 ELSE 1)
           /\ \A i \in 1..n : (outs \o MintedBack(back))[i] = outs[i]
           /\ back.value # 0 => (outs \o MintedBack(back))[n + 1] = back
           /\ NoteSum(outs \o MintedBack(back), DOMAIN (outs \o MintedBack(back)), d)
                 = NoteSum(outs, DOMAIN outs, d) + Coin(back.denom, back.value)[d]
<1> DEFINE tail == MintedBack(back)
           added == outs \o tail
<1>1. OutputNote \subseteq Note
  BY PoolAssumption DEF OutputNote, NoNote, Note
<1>2. outs \in Seq(Note) /\ Len(outs) = n /\ back \in Note /\ DOMAIN outs = 1..n
  BY <1>1
<1>3. back.denom \in Denoms /\ back.value \in Nat
  BY <1>2 DEF Note
<1>4. tail \in Seq(Note) /\ Len(tail) = (IF back.value = 0 THEN 0 ELSE 1)
  BY <1>2 DEF MintedBack
<1>5. NoteSum(tail, DOMAIN tail, d) = Coin(back.denom, back.value)[d]
  <2>1. Coin(back.denom, back.value)[d] = (IF d = back.denom THEN back.value ELSE 0)
    BY <1>3, CoinType
  <2>2. CASE back.value = 0
    <3>1. tail = <<>> /\ DOMAIN tail = {}
      BY <2>2 DEF MintedBack
    <3>2. NoteSum(tail, {}, d) = 0
      BY Zenon, <1>2, NoteSumOne
    <3> QED BY <2>1, <2>2, <3>1, <3>2
  <2>3. CASE back.value # 0
    <3>1. tail = <<back>>
      BY <2>3 DEF MintedBack
    <3>2. NoteSum(<<back>>, DOMAIN <<back>>, d) = (IF d = back.denom THEN back.value ELSE 0)
      BY Zenon, <1>2, NoteSumOne
    <3> QED BY Zenon, <2>1, <3>1, <3>2
  <2> QED BY <2>2, <2>3
<1>11. back.value # 0 => tail[1] = back
  BY DEF MintedBack
<1> HIDE DEF tail
<1>6. added \in Seq(Note) /\ Len(added) = n + Len(tail)
  BY Zenon, <1>2, <1>4, Concat
<1>12. (\A i \in 1..n : added[i] = outs[i]) /\ (back.value # 0 => added[n + 1] = back)
  BY <1>2, <1>4, <1>11, Concat
<1>7. DOMAIN added = DOMAIN outs \cup Added(outs, tail)
  BY <1>2, <1>4, <1>6 DEF Added
<1>8. DOMAIN outs \in SUBSET (1..Len(outs))
  BY <1>2
<1>9. ASSUME NEW K \in SUBSET (1..Len(outs))
      PROVE  NoteSum(outs \o tail, K \cup Added(outs, tail), d) = NoteSum(outs, K, d) + NoteSum(tail, DOMAIN tail, d)
  BY ZenonT(40), <1>2, <1>4, NoteSumAppend
<1>10. NoteSum(added, DOMAIN added, d) = NoteSum(outs, DOMAIN outs, d) + NoteSum(tail, DOMAIN tail, d)
  BY Zenon, <1>7, <1>8, <1>9
<1> QED BY Zenon, <1>2, <1>4, <1>5, <1>6, <1>10, <1>12 DEF tail

\* An output of value is of a denom that a spent note of value has: the
\* proofs make the inputs cover the outputs.
LEMMA OutputDenomSpent ==
    ASSUME BInv, NEW t, t.spends \subseteq 1..Len(notes), t.outs \in Seq(Note), ProofsHold(t),
           NEW j \in 1..Len(t.outs), t.outs[j].value > 0
    PROVE  \E i \in t.spends : notes[i].value > 0 /\ notes[i].denom = t.outs[j].denom
<1> DEFINE d == t.outs[j].denom
           f == [i \in t.spends |-> IF notes[i].denom = d THEN notes[i].value ELSE 0]
           h == [i \in DOMAIN t.outs |-> IF t.outs[i].denom = d THEN t.outs[i].value ELSE 0]
<1>1. notes \in Seq(Note)
  BY DEF BInv, IInv, TypeOK
<1>2. d \in Denoms /\ DOMAIN t.outs = 1..Len(t.outs) /\ IsFiniteSet(DOMAIN t.outs) /\ IsFiniteSet(t.spends)
  BY <1>1, NoteAt
<1>3. /\ \A i \in DOMAIN t.outs : h[i] \in Nat
      /\ \A i \in t.spends : f[i] \in Nat
  BY <1>1, <1>2, NoteAt
<1>4. j \in DOMAIN t.outs /\ h[j] > 0
  BY <1>2
<1>5. t.balance[d] \in Nat /\ t.balance[d] = NoteSum(notes, t.spends, d) - NoteSum(t.outs, DOMAIN t.outs, d)
  BY <1>2 DEF ProofsHold, Coins, Surplus
<1>6. NoteSum(notes, t.spends, d) = SumFunctionOnSet(f, t.spends)
  BY DEF NoteSum
<1>7. NoteSum(t.outs, DOMAIN t.outs, d) = SumFunctionOnSet(h, DOMAIN t.outs)
  BY DEF NoteSum
<1> HIDE DEF d, f, h
<1>8. SumFunctionOnSet(h, DOMAIN t.outs) >= h[j]
  BY <1>2, <1>3, <1>4, SumMember
<1>9. SumFunctionOnSet(h, DOMAIN t.outs) \in Nat /\ SumFunctionOnSet(f, t.spends) \in Nat
  BY <1>2, <1>3, SumNat
<1>10. SumFunctionOnSet(f, t.spends) > 0
  BY <1>3, <1>4, <1>5, <1>6, <1>7, <1>8, <1>9
<1>11. PICK i \in t.spends : f[i] > 0
  BY <1>2, <1>3, <1>10, SumPositive
<1> QED BY <1>11 DEF f, d

\* A private message, however it ends, keeps the pool backed.
LEMMA PrivateMsgBInv ==
    ASSUME BInv, IInv', PrivateMsg
    PROVE  BInv'
<1>0. IInv
  BY DEF BInv
<1>1. PICK t :
         \E n \in MinActions..MaxActions, to \in Accounts \cup Modules \cup {FeeCollector},
            rem \in Coins, back \in OutputNote : Ends(t, n, to, rem, back)
  BY <1>0, PrivateMsgShape
<1>2. PICK n \in MinActions..MaxActions, to \in Accounts \cup Modules \cup {FeeCollector},
          rem \in Coins, back \in OutputNote : Ends(t, n, to, rem, back)
  BY Zenon, <1>1
<1> DEFINE tail == MintedBack(back)
           added == t.outs \o tail
           fee == Coin(FeeDenom, t.fee)
           minted == Coin(back.denom, back.value)
<1>3. /\ inBlock /\ t.outs \in [1..n -> OutputNote] /\ t.fee \in Nat
      /\ t.spends \subseteq 1..Len(notes) /\ CheckPrivateMsg(t) /\ ProofsHold(t)
      /\ back.value > 0 => back.denom \in assets
      /\ Execute(t, to, rem, back)
      /\ stranded' \in Coins
      /\ \A e \in Denoms : fee[e] + rem[e] + stranded'[e] = stranded[e] + t.balance[e]
      /\ UNCHANGED <<anchorVars, assets, sendEnabled>>
  BY Zenon, <1>2 DEF Ends
<1>4. n \in Nat
  BY PoolAssumption
<1>5. notes' = notes \o t.outs \o tail /\ nullifiers' = nullifiers \cup t.spends
  BY Zenon, <1>3 DEF Execute, MintedBack
<1>6. \A e \in Denoms : bank'[Pool][e] = bank[Pool][e] - fee[e] - rem[e] + minted[e]
  <2>1. RunsWith(t, to, rem, back)
    BY Zenon, <1>3 DEF RunsWith
  <2>2. PoolPays(t, rem, back)
    BY <1>0, <2>1, ExecuteKeeps
  <2> QED BY Zenon, <2>2 DEF PoolPays
<1>8. ASSUME NEW e \in Denoms
      PROVE  /\ added \in Seq(Note) /\ t.outs \in Seq(Note) /\ tail \in Seq(Note)
             /\ Len(t.outs) = n /\ Len(added) = n + (IF back.value = 0 THEN 0 ELSE 1)
             /\ \A i \in 1..n : added[i] = t.outs[i]
             /\ back.value # 0 => added[n + 1] = back
             /\ NoteSum(added, DOMAIN added, e) = NoteSum(t.outs, DOMAIN t.outs, e) + minted[e]
  <2>1. t.outs \in [1..n -> OutputNote]
    BY Zenon, <1>3
  <2> QED BY Zenon, <1>4, <2>1, OutputSum
<1>7. /\ added \in Seq(Note) /\ t.outs \in Seq(Note) /\ tail \in Seq(Note)
      /\ Len(t.outs) = n /\ Len(added) = n + (IF back.value = 0 THEN 0 ELSE 1)
      /\ \A i \in 1..n : added[i] = t.outs[i]
      /\ back.value # 0 => added[n + 1] = back
  <2>1. FeeDenom \in Denoms
    BY PoolAssumption
  <2> QED BY Zenon, <2>1, <1>8
<1> HIDE DEF added, tail
<1>9. notes \in Seq(Note) /\ stranded \in Coins /\ bank \in [Holders -> Coins] /\ bank' \in [Holders -> Coins]
  BY DEF BInv, IInv, TypeOK
<1>10. notes' = notes \o added
  <2>1. (notes \o t.outs) \o tail = notes \o (t.outs \o tail)
    <3> DEFINE o == t.outs
    <3>1. notes \in Seq(Note) /\ o \in Seq(Note) /\ tail \in Seq(Note)
      BY <1>7, <1>9
    <3> HIDE DEF o
    <3>2. (notes \o o) \o tail = notes \o (o \o tail)
      BY <3>1, ConcatTwice
    <3> QED BY <3>2 DEF o
  <2> QED BY Zenon, <1>5, <2>1 DEF added
<1>11. t.spends \cap nullifiers = {}
  BY Zenon, <1>3 DEF CheckPrivateMsg
<1>12. \A i \in 1..Len(added) : added[i].value > 0 => added[i].denom \in assets
  <2> SUFFICES ASSUME NEW i \in 1..Len(added), added[i].value > 0 PROVE added[i].denom \in assets
    OBVIOUS
  <2>1. CASE i <= n
    <3>1. i \in 1..Len(t.outs) /\ added[i] = t.outs[i]
      BY <1>7, <2>1
    <3>2. PICK k \in t.spends : notes[k].value > 0 /\ notes[k].denom = t.outs[i].denom
      BY Zenon, <1>3, <1>7, <3>1, OutputDenomSpent
    <3>3. k \in 1..Len(notes) \ nullifiers
      BY Zenon, <1>3, <1>11
    <3> QED BY Zenon, <3>1, <3>2, <3>3 DEF BInv, Registered
  <2>2. CASE i > n
    <3>1. back.value # 0 /\ i = n + 1
      BY <1>4, <1>7, <2>2
    <3>2. added[i] = back
      BY <1>7, <3>1
    <3> QED BY Zenon, <1>3, <3>2
  <2> QED BY <1>4, <2>1, <2>2
<1>13. \A d \in Denoms :
          bank'[Pool][d] + NoteSum(notes, t.spends, d) + stranded[d]
             = bank[Pool][d] + NoteSum(added, DOMAIN added, d) + stranded'[d]
  <2> SUFFICES ASSUME NEW d \in Denoms
               PROVE  bank'[Pool][d] + NoteSum(notes, t.spends, d) + stranded[d]
                         = bank[Pool][d] + NoteSum(added, DOMAIN added, d) + stranded'[d]
    OBVIOUS
  <2> DEFINE spent == NoteSum(notes, t.spends, d)
             made == NoteSum(t.outs, DOMAIN t.outs, d)
             new == NoteSum(added, DOMAIN added, d)
  <2>1. spent \in Nat /\ made \in Nat
    BY Zenon, <1>3, <1>7, <1>9, NoteSumNat, NoteAt
  <2>2. t.balance[d] = spent - made
    BY Zenon, <1>3 DEF ProofsHold, Surplus
  <2>3. new = made + minted[d]
    BY <1>8
  <2>4. back.denom \in Denoms /\ back.value \in Nat /\ FeeDenom \in Denoms
    BY PoolAssumption DEF OutputNote, NoNote
  <2>5. fee \in Coins /\ minted \in Coins
    BY ZenonT(40), <1>3, <2>4, CoinType
  <2>6. /\ fee[d] \in Nat /\ rem[d] \in Nat /\ minted[d] \in Nat /\ stranded[d] \in Nat
        /\ stranded'[d] \in Nat /\ bank[Pool][d] \in Nat
    <3> HIDE DEF fee, minted
    <3>1. Pool \in Holders
      BY ZenonT(40) DEF Holders
    <3>2. \A c \in Coins : c[d] \in Nat
      BY ZenonT(40) DEF Coins
    <3>3. rem \in Coins /\ stranded' \in Coins /\ bank[Pool] \in Coins
      BY ZenonT(40), <1>3, <1>9, <3>1
    <3> QED BY ZenonT(40), <1>9, <2>5, <3>2, <3>3
  <2>7. /\ bank'[Pool][d] = bank[Pool][d] - fee[d] - rem[d] + minted[d]
        /\ fee[d] + rem[d] + stranded'[d] = stranded[d] + t.balance[d]
    BY Zenon, <1>3, <1>6
  <2> DEFINE b1 == bank[Pool][d]
             b2 == bank'[Pool][d]
             s1 == stranded[d]
             s2 == stranded'[d]
             x == fee[d]
             y == rem[d]
             z == minted[d]
             w == t.balance[d]
  <2>8. /\ x \in Nat /\ y \in Nat /\ z \in Nat /\ s1 \in Nat /\ s2 \in Nat /\ b1 \in Nat
        /\ b2 = b1 - x - y + z /\ x + y + s2 = s1 + w /\ w = spent - made /\ new = made + z
    BY Zenon, <2>2, <2>3, <2>6, <2>7
  <2> HIDE DEF spent, made, new, fee, minted, b1, b2, s1, s2, x, y, z, w
  <2>9. b2 + spent + s1 = b1 + new + s2
    BY <2>1, <2>8
  <2> QED BY ZenonT(40), <2>9 DEF spent, new, b1, b2, s1, s2
<1>14. Grows(added, t.spends)
  BY Zenon, <1>3, <1>7, <1>10, <1>11, <1>12, <1>13, <1>5 DEF Grows
<1> QED BY <1>14, GrowthBacked

\* Every step keeps the pool backed.
LEMMA NextBInv == BInv /\ [Next]_vars => BInv'
<1> SUFFICES ASSUME BInv, [Next]_vars PROVE BInv'
  OBVIOUS
<1>0. IInv /\ LatestRecorded /\ notes \in Seq(Note) /\ bank \in [Holders -> Coins]
  BY DEF BInv, IInv, TypeOK
<1>i. IInv'
  BY <1>0, NextIInv
<1>n. /\ \A d \in Denoms : NoteSum(notes, {}, d) = 0
      /\ \A e \in Denoms : bank[Pool][e] \in Nat /\ stranded[e] \in Nat
  BY Zenon, <1>0, SumEmpty DEF NoteSum, Holders, Coins, IInv, TypeOK
<1>1. CASE \/ \E d \in Denoms : RegisterAsset(d)
           \/ \E d \in Switchable : SetSendEnabled(d)
           \/ UNCHANGED vars
  <2>1. /\ UNCHANGED <<anchorVars, notes, nullifiers, stranded, bank>> /\ assets \subseteq assets'
    BY <1>1 DEF RegisterAsset, SetSendEnabled, vars, moneyVars
  <2>2. LatestRecorded'
    BY <1>0, <2>1 DEF LatestRecorded, anchorVars
  <2> QED BY <1>i, <2>1, <2>2, QuietBacked
<1>2. ASSUME NEW d \in Denoms, NEW v \in 1..MaxCoins, NEW a \in Accounts, Shield(a, d, v)
      PROVE  BInv'
  <2> DEFINE note == [denom |-> d, value |-> v]
             added == <<note>>
  <2>1. /\ v \in 1..MaxNoteValue /\ DepositAllowed(a, d, v, 1) /\ inBlock
        /\ bank' = Moved(bank, a, Pool, Coin(d, v)) /\ countIn(Coin(d, v))
        /\ notes' = Append(notes, note)
        /\ UNCHANGED <<anchorVars, nullifiers, turnOut, stranded, assets, sendEnabled, count>>
    BY <1>2 DEF Shield
  <2>2. note \in Note /\ v \in Nat /\ d \in assets /\ Covers(bank, a, Coin(d, v))
    BY <2>1 DEF DepositAllowed, Note
  <2>3. \A e \in Denoms : bank'[Pool][e] = bank[Pool][e] + (IF e = d THEN v ELSE 0)
    BY <1>0, <2>1, <2>2, DepositKeeps
  <2>4. notes' = notes \o added /\ added \in Seq(Note)
    BY <1>0, <2>1, <2>2
  <2>5. \A e \in Denoms : NoteSum(added, DOMAIN added, e) = (IF e = d THEN v ELSE 0)
    <3>1. note.denom = d /\ note.value = v
      OBVIOUS
    <3> HIDE DEF note
    <3> QED BY <2>2, <3>1, NoteSumOne
  <2>6. \A i \in 1..Len(added) : added[i].value > 0 => added[i].denom \in assets
    BY <2>2
  <2> HIDE DEF added
  <2>7. \A e \in Denoms :
           bank'[Pool][e] + NoteSum(notes, {}, e) + stranded[e]
              = bank[Pool][e] + NoteSum(added, DOMAIN added, e) + stranded'[e]
    <3> TAKE e \in Denoms
    <3> DEFINE b1 == bank[Pool][e]
               b2 == bank'[Pool][e]
               s == stranded[e]
               k == NoteSum(notes, {}, e)
               x == NoteSum(added, DOMAIN added, e)
    <3>1. b1 \in Nat /\ s \in Nat /\ k = 0 /\ b2 = b1 + x /\ x \in Nat
      <4>1. b1 \in Nat /\ s \in Nat /\ k = 0
        BY Zenon, <1>n
      <4>2. b2 = b1 + (IF e = d THEN v ELSE 0) /\ x = (IF e = d THEN v ELSE 0)
        BY Zenon, <2>3, <2>5
      <4>3. (IF e = d THEN v ELSE 0) \in Nat
        BY <2>2
      <4> QED BY Zenon, <4>1, <4>2, <4>3
    <3>2. stranded'[e] = s
      BY Zenon, <2>1
    <3> HIDE DEF b1, b2, s, k, x
    <3>3. b2 + k + s = b1 + x + s
      BY <3>1
    <3> QED BY Zenon, <3>2, <3>3 DEF b1, b2, s, k, x
  <2>8. nullifiers' = nullifiers \cup {}
    BY <2>1
  <2>9. Grows(added, {})
    BY Zenon, <2>1, <2>4, <2>6, <2>7, <2>8 DEF Grows
  <2> QED BY <1>i, <2>9, GrowthBacked
<1>3. ASSUME NEW d \in Denoms, NEW v \in 1..MaxCoins, NEW m \in Modules, MintNoteSplit(m, d, v)
      PROVE  BInv'
  <2> DEFINE vs == SplitNoteValues(v)
             n == (v + MaxNoteValue - 1) \div MaxNoteValue
             added == [i \in 1..Len(vs) |-> [denom |-> d, value |-> vs[i]]]
  <2>1. /\ DepositAllowed(m, d, v, Len(vs)) /\ inBlock
        /\ bank' = Moved(bank, m, Pool, Coin(d, v)) /\ countIn(Coin(d, v))
        /\ notes' = notes \o added
        /\ UNCHANGED <<anchorVars, nullifiers, turnOut, stranded, assets, sendEnabled, count>>
    BY <1>3 DEF MintNoteSplit
  <2>2. n \in Nat /\ Len(vs) = n /\ vs \in [1..n -> 1..MaxNoteValue]
    BY SplitTypes
  <2>3. v \in Nat /\ v \in Nat \ {0} /\ d \in assets /\ Covers(bank, m, Coin(d, v))
    BY SMTT(40), <2>1 DEF DepositAllowed
  <2>4. \A e \in Denoms : bank'[Pool][e] = bank[Pool][e] + (IF e = d THEN v ELSE 0)
    BY <1>0, <2>1, <2>3, DepositKeeps
  <2>5. \A e \in Denoms : NoteSum(added, DOMAIN added, e) = (IF e = d THEN v ELSE 0)
    BY Zenon, <2>3, SplitSum
  <2> HIDE DEF vs, n
  <2>6. added \in Seq(Note) /\ Len(added) = n
    BY <2>2, PoolAssumption DEF Note
  <2>7. \A i \in 1..Len(added) : added[i].value > 0 => added[i].denom \in assets
    BY <2>2, <2>3, <2>6
  <2> HIDE DEF added
  <2>8. \A e \in Denoms :
           bank'[Pool][e] + NoteSum(notes, {}, e) + stranded[e]
              = bank[Pool][e] + NoteSum(added, DOMAIN added, e) + stranded'[e]
    <3> TAKE e \in Denoms
    <3> DEFINE b1 == bank[Pool][e]
               b2 == bank'[Pool][e]
               s == stranded[e]
               k == NoteSum(notes, {}, e)
               x == NoteSum(added, DOMAIN added, e)
    <3>1. b1 \in Nat /\ s \in Nat /\ k = 0 /\ b2 = b1 + x /\ x \in Nat
      <4>1. b1 \in Nat /\ s \in Nat /\ k = 0
        BY Zenon, <1>n
      <4>2. b2 = b1 + (IF e = d THEN v ELSE 0) /\ x = (IF e = d THEN v ELSE 0)
        BY Zenon, <2>4, <2>5
      <4>3. (IF e = d THEN v ELSE 0) \in Nat
        BY <2>3
      <4> QED BY Zenon, <4>1, <4>2, <4>3
    <3>2. stranded'[e] = s
      BY Zenon, <2>1
    <3> HIDE DEF b1, b2, s, k, x
    <3>3. b2 + k + s = b1 + x + s
      BY <3>1
    <3> QED BY Zenon, <3>2, <3>3 DEF b1, b2, s, k, x
  <2>9. nullifiers' = nullifiers \cup {}
    BY <2>1
  <2>10. Grows(added, {})
    BY Zenon, <2>1, <2>6, <2>7, <2>8, <2>9 DEF Grows
  <2> QED BY <1>i, <2>10, GrowthBacked
<1>4. ASSUME NEW d \in Denoms, NEW v \in 1..MaxCoins, NEW a \in Accounts \cup Modules, NEW to \in Holders,
             BankSend(a, to, Coin(d, v))
      PROVE  BInv'
  <2> DEFINE c == Coin(d, v)
  <2>1. /\ a # to /\ SendAllowed(to, c) /\ Covers(bank, a, c) /\ bank' = Moved(bank, a, to, c)
        /\ UNCHANGED <<anchorVars, notes, nullifiers, stranded, assets>>
    BY <1>4 DEF BankSend
  <2>2. c \in Coins
    BY CoinType
  <2>3. a \in Holders /\ a # Pool /\ to # Pool /\ Pool \in Holders
    BY <2>1, PoolAssumption DEF Holders, SendAllowed
  <2> HIDE DEF c
  <2>4. bank'[Pool] = bank[Pool]
    BY <1>0, <2>1, <2>2, <2>3, MovedCorrect
  <2>5. LatestRecorded'
    BY <1>0, <2>1 DEF LatestRecorded, anchorVars
  <2> QED BY Zenon, <1>i, <2>1, <2>4, <2>5, QuietBacked
<1>5. CASE PrivateMsg
  BY <1>i, <1>5, PrivateMsgBInv
<1>6. CASE BeginBlock \/ UpdateParams \/ Restart \/ EndBlock
  <2>1. /\ UNCHANGED <<notes, nullifiers, stranded, bank, assets>>
        /\ A!EndBlock \/ A!Restart \/ A!BeginBlock \/ A!UpdateParams
    BY <1>6 DEF BeginBlock, UpdateParams, Restart, EndBlock, moneyVars
  <2>2. LatestRecorded'
    BY <2>1, BoundaryLatest
  <2> QED BY <1>i, <2>1, <2>2, QuietBacked
<1> QED BY <1>1, <1>2, <1>3, <1>4, <1>5, <1>6 DEF Next

\* No note is unbacked and no coin unowned, for every set of denoms, notes,
\* accounts and modules: whatever is shielded, minted, sent, released, failed
\* and restarted, the pool's balance is the value of the unspent notes plus
\* what failed handlers left, and after every commit each unspent note has a
\* registered denom and a valid anchor.
THEOREM BackedCorrect == Spec => []Backed
<1>1. BInv => Backed
  <2> SUFFICES ASSUME BInv PROVE Backed
    OBVIOUS
  <2>1. Covered /\ Registered /\ LatestRecorded /\ notes \in Seq(Note)
    BY DEF BInv, IInv, TypeOK
  <2>2. UnspentSpendable
    <3> SUFFICES ASSUME ~inBlock, NEW i \in 1..Len(notes) \ nullifiers, notes[i].value > 0
                 PROVE  /\ notes[i].denom \in assets
                        /\ \E r \in DOMAIN roots : i <= r /\ A!Anchor(r)
      BY DEF UnspentSpendable
    <3>1. latest \in DOMAIN roots /\ latest = Len(notes) /\ A!Anchor(latest)
      BY <2>1 DEF LatestRecorded, A!Anchor
    <3> QED BY <2>1, <3>1 DEF Registered
  <2> QED BY Zenon, <2>1, <2>2 DEF Backed, Covered
<1> QED BY InitBInv, NextBInv, <1>1, PTL DEF Spec

\* A message that CheckPrivateMsg and the proofs accept asks of the pool, in
\* every denom, no more than the unspent notes are worth.
LEMMA AcceptedCovered ==
    ASSUME BInv, NEW t, t.spends \subseteq 1..Len(notes), t.outs \in Seq(Note),
           CheckPrivateMsg(t), ProofsHold(t), NEW d \in Denoms
    PROVE  t.balance[d] <= bank[Pool][d] /\ turnOut[d] + t.balance[d] <= turnIn[d]
<1> DEFINE U == 1..Len(notes) \ nullifiers
           held == NoteSum(notes, U, d)
           spent == NoteSum(notes, t.spends, d)
           rest == NoteSum(notes, U \ t.spends, d)
           made == NoteSum(t.outs, DOMAIN t.outs, d)
<1>1. notes \in Seq(Note) /\ stranded[d] \in Nat /\ turnIn[d] \in Nat /\ turnOut[d] \in Nat
  BY DEF BInv, IInv, TypeOK, Coins
<1>2. t.spends \in SUBSET U /\ U \in SUBSET (1..Len(notes)) /\ U \ t.spends \in SUBSET (1..Len(notes))
  BY DEF CheckPrivateMsg
<1>3. held = rest + spent
  BY Zenon, <1>1, <1>2, NoteSumPart
<1>4. rest \in Nat /\ spent \in Nat
  BY Zenon, <1>1, <1>2, NoteSumNat
<1>5. made \in Nat
  BY Zenon, NoteSumNat, NoteAt
<1>6. t.balance[d] = spent - made
  BY Zenon DEF ProofsHold, Surplus
<1>7. bank[Pool][d] = held + stranded[d]
  BY Zenon DEF BInv, Covered
<1>8. bank[Pool][d] = turnIn[d] - turnOut[d]
  BY DEF BInv, IInv, TurnstileExact, checkDenom
<1> HIDE DEF U, held, spent, rest, made
<1> QED BY <1>1, <1>3, <1>4, <1>5, <1>6, <1>7, <1>8

\* Whatever private message CheckPrivateMsg and its proofs accept, in any
\* reachable state of any pool, the pool covers its fee and its release and the
\* turnstile lets them out: nothing refuses it once its inputs are spent.
THEOREM PaidCorrect == Spec => []AcceptedPaid
<1>1. BInv => AcceptedPaid
  <2> SUFFICES ASSUME BInv, inBlock,
                      NEW anchor \in DOMAIN roots, NEW n \in MinActions..MaxActions,
                      NEW spends \in SUBSET (1..anchor), NEW outs \in [1..n -> OutputNote],
                      NEW fee \in MinFee..Surplus(spends, outs)[FeeDenom],
                      CheckPrivateMsg(Message(anchor, spends, outs, fee, Surplus(spends, outs))),
                      ProofsHold(Message(anchor, spends, outs, fee, Surplus(spends, outs)))
               PROVE  /\ Covers(bank, Pool, Surplus(spends, outs))
                      /\ \A d \in Denoms : turnOut[d] + Surplus(spends, outs)[d] <= turnIn[d]
    BY Zenon DEF AcceptedPaid
  <2> DEFINE t == Message(anchor, spends, outs, fee, Surplus(spends, outs))
  <2>1. t.spends = spends /\ t.outs = outs /\ t.balance = Surplus(spends, outs)
    BY DEF Message
  <2>2. spends \subseteq 1..Len(notes)
    <3>1. anchor \in 0..Len(notes) /\ Len(notes) \in Nat
      BY DEF BInv, IInv, RootsInTree, TypeOK
    <3> QED BY <3>1
  <2>3. outs \in Seq(Note)
    <3>1. OutputNote \subseteq Note /\ n \in Nat
      BY PoolAssumption DEF OutputNote, NoNote, Note
    <3> QED BY <3>1
  <2> HIDE DEF t
  <2>4. CheckPrivateMsg(t) /\ ProofsHold(t)
    BY Zenon DEF t
  <2>5. \A d \in Denoms : t.balance[d] <= bank[Pool][d] /\ turnOut[d] + t.balance[d] <= turnIn[d]
    BY Zenon, <2>1, <2>2, <2>3, <2>4, AcceptedCovered
  <2> QED BY Zenon, <2>1, <2>5 DEF Covers
<1> QED BY InitBInv, NextBInv, <1>1, PTL DEF Spec
=============================================================================
