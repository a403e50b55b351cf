---------------------------- MODULE MovesProofs ----------------------------
(***************************************************************************)
(* The roundings of Moves, for every amount.  TLC meets a few small        *)
(* numbers; the code's go from 1 to 10^15, and a quotient truncated the    *)
(* other way, or over the wrong denominator, may show at some of them only.*)
(***************************************************************************)
EXTENDS Moves, TLAPS

\* What a truncated quotient is.
LEMMA Quotient ==
    ASSUME NEW n \in Nat, NEW m \in Nat \ {0}
    PROVE  /\ n \div m \in Nat
           /\ m * (n \div m) <= n
           /\ n < m * ((n \div m) + 1)
  OBVIOUS

\* Products of amounts are amounts: valueOf, mintFor and the split divide these.
LEMMA ProductIsNat ==
    ASSUME NEW a \in Nat, NEW b \in Nat
    PROVE  a * b \in Nat
  OBVIOUS

\* A quotient is at most any number whose product covers the dividend.
LEMMA QuotientAtMost ==
    ASSUME NEW n \in Nat, NEW m \in Nat \ {0}, NEW q \in Nat, n <= m * q
    PROVE  n \div m <= q
<1>1. /\ n \div m \in Nat
      /\ m * (n \div m) <= n
  BY Quotient
<1> DEFINE r == n \div m
<1>2. m * r <= m * q /\ r \in Nat
  BY SMTT(40), <1>1, ProductIsNat
<1> HIDE DEF r
<1>3. ASSUME r > q PROVE FALSE
  <2>1. m * r >= m * (q + 1)
    BY <1>2, <1>3
  <2> QED BY <2>1, <1>2
<1> QED BY <1>2, <1>3 DEF r

\* derthFor: the derth a value a buys in a book of backing b and supply s is
\* worth a at most, so the rate of those already there does not fall.
THEOREM CreditKeepsRate ==
    ASSUME NEW a \in Nat, NEW b \in Nat \ {0}, NEW s \in Nat \ {0}
    PROVE  /\ derthFor(a, b, s) \in Nat
           /\ b * derthFor(a, b, s) <= a * s
           /\ (b + a) * s >= b * (s + derthFor(a, b, s))
<1> DEFINE q == (a * s) \div b
<1>1. q \in Nat /\ b * q <= a * s
  BY SMTT(40), Quotient, ProductIsNat
<1>2. derthFor(a, b, s) = q
  BY DEF derthFor
<1> HIDE DEF q
<1> QED BY <1>1, <1>2

\* valueOf: d of the supply s leaves with its part of the backing b, rounded
\* down, so the rate of those who stay does not fall.
THEOREM ExitKeepsRate ==
    ASSUME NEW b \in Nat, NEW s \in Nat \ {0}, NEW d \in 0..s
    PROVE  /\ valueOf(d, b, s) \in 0..b
           /\ (b - valueOf(d, b, s)) * s >= b * (s - d)
<1> DEFINE q == (d * b) \div s
<1>1. q \in Nat /\ s * q <= d * b
  BY Quotient, ProductIsNat
<1>2. q <= b
  <2>1. d * b <= s * b
    OBVIOUS
  <2> QED BY SMTT(40), <2>1, QuotientAtMost, ProductIsNat
<1>3. valueOf(d, b, s) = q
  BY DEF valueOf
<1> HIDE DEF q
<1>4. (b - q) * s >= b * (s - d)
  BY SMTT(40), <1>1
<1> QED BY SMTT(40), <1>1, <1>2, <1>3, <1>4

\* Nobody gains by coming and going: the derth bought with a (a delegation's,
\* or a move's arrival) is worth a at most when it leaves, at once.
THEOREM ThereAndBack ==
    ASSUME NEW a \in Nat, NEW b \in Nat \ {0}, NEW s \in Nat \ {0}
    PROVE  valueOf(derthFor(a, b, s), b + a, s + derthFor(a, b, s)) <= a
<1> DEFINE q == derthFor(a, b, s)
<1>1. q \in Nat /\ b * q <= a * s
  BY CreditKeepsRate
<1> HIDE DEF q
<1>2. q * (b + a) <= (s + q) * a
  BY <1>1
<1>3. (q * (b + a)) \div (s + q) <= a
  BY SMTT(40), <1>1, <1>2, QuotientAtMost, ProductIsNat
<1>4. valueOf(q, b + a, s + q) <= a
  BY SMTT(40), <1>1, <1>3 DEF valueOf
<1> QED BY <1>4 DEF q

\* settleSlash: when v is burnt from a book left with backing b, taking
\* debtTotal off its supply s gives back the rate (b + v) / s it had: never
\* above, and below by less than the worth of one derth.
THEOREM DebtHoldsRate ==
    ASSUME NEW v \in Nat \ {0}, NEW b \in Nat, NEW s \in Nat \ {0}
    PROVE  /\ debtTotal(v, b, s) \in 0..s
           /\ b * s <= (b + v) * (s - debtTotal(v, b, s))
           /\ (b + v) * (s - debtTotal(v, b, s) - 1) < b * s
<1> DEFINE t == (v * s) \div (b + v)
<1>1. /\ t \in Nat
      /\ (b + v) * t <= v * s
      /\ v * s < (b + v) * (t + 1)
  <2>1. v * s \in Nat /\ b + v \in Nat \ {0}
    BY ProductIsNat
  <2> QED BY Zenon, <2>1, Quotient
<1>2. t <= s
  <2>1. v * s <= (b + v) * s
    BY ProductIsNat
  <2> QED BY SMTT(40), <2>1, QuotientAtMost, ProductIsNat
<1>3. debtTotal(v, b, s) = t
  BY DEF debtTotal
<1> HIDE DEF t
<1>4. b * s <= (b + v) * (s - t)
  BY <1>1
<1>5. (b + v) * (s - t - 1) < b * s
  BY <1>1
<1> QED BY SMTT(40), <1>1, <1>2, <1>3, <1>4, <1>5

\* splitValue: of a value u moved out of a bond d and a queue p, neither part
\* is more than what is there, and the queue, which no slash of the source
\* reaches, is left to those who stay in at least their proportion.
THEOREM SplitIsFair ==
    ASSUME NEW d \in Nat \ {0}, NEW p \in Nat, NEW u \in 0..d + p
    PROVE  /\ queuedPart(u, d, p) \in 0..p
           /\ u - queuedPart(u, d, p) \in 0..d
           /\ (p - queuedPart(u, d, p)) * (d + p) >= p * (d + p - u)
<1> DEFINE q == (u * p) \div (d + p)
<1>1. q \in Nat /\ (d + p) * q <= u * p
  <2>1. u * p \in Nat /\ d + p \in Nat \ {0}
    BY ProductIsNat
  <2> QED BY Zenon, <2>1, Quotient
<1>2. q <= p
  <2>1. u * p <= (d + p) * p
    OBVIOUS
  <2> QED BY SMTT(40), <2>1, QuotientAtMost, ProductIsNat
<1>3. q <= u
  <2>1. u * p <= (d + p) * u
    OBVIOUS
  <2> QED BY SMTT(40), <2>1, QuotientAtMost, ProductIsNat
<1>4. queuedPart(u, d, p) = IF q > u - d THEN q ELSE u - d
  BY DEF queuedPart, Most
<1> HIDE DEF q
<1>5. CASE q > u - d
  <2>1. (p - q) * (d + p) >= p * (d + p - u)
    BY <1>1
  <2> QED BY SMTT(40), <1>1, <1>2, <1>3, <1>4, <1>5, <2>1
<1>6. CASE ~(q > u - d)
  <2>1. (p - (u - d)) * (d + p) >= p * (d + p - u)
    OBVIOUS
  <2> QED BY SMTT(40), <1>1, <1>4, <1>6, <2>1
<1> QED BY <1>5, <1>6

\* The part of the stores a book's backing and supply are made of.
Fields == {"mine", "W", "P", "U", "S", "val"}
BooksTyped ==
    /\ \A v \in Vals : /\ {k.mine[v], k.W[v], k.P[v], k.U[v], k.S[v]} \subseteq Nat
                       /\ {k.val[v].tokens, k.val[v].shares} \subseteq Nat
    /\ DOMAIN k.S = Vals /\ DOMAIN k.U = Vals
    /\ Fields \subseteq DOMAIN k

\* getBacking of well-typed stores is a natural number.
LEMMA BackingIsNat ==
    ASSUME BooksTyped, NEW v \in Vals
    PROVE  Backing(k, v) \in Nat /\ Delegated(k, v) \in Nat
<1>1. Delegated(k, v) \in Nat
  <2>1. k.mine[v] \in Nat /\ k.val[v].tokens \in Nat /\ k.val[v].shares \in Nat
    BY DEF BooksTyped
  <2>2. CASE k.val[v].shares = 0
    BY <2>2 DEF Delegated
  <2>3. CASE k.val[v].shares # 0
    BY SMTT(40), <2>1, <2>3, ProductIsNat, Quotient DEF Delegated
  <2> QED BY <2>2, <2>3
<1> QED BY SMTT(40), <1>1 DEF Backing, Most, BooksTyped

\* applyStake changes the notes alone.
LEMMA NotesAlone ==
    ASSUME NEW st, Fields \subseteq DOMAIN st, NEW I, NEW outs, NEW c, NEW f \in Fields
    PROVE  applyStake(st, I, outs, c)[f] = st[f]
  BY Zenon DEF applyStake, Fields

\* MsgUndelegate: whoever leaves, with whatever notes, the derth that stays is
\* worth at least what it was, at every validator.
THEOREM UndelegateKeepsRate ==
    ASSUME BooksTyped, plan.amounts \subseteq Nat, Undelegate, NEW w \in Vals
    PROVE  Backing(k', w) * k.S[w] >= Backing(k, w) * k'.S[w]
<1>1. PICK v \in Vals, d \in plan.amounts, clear \in BOOLEAN, c \in checkStakeClear :
        \E I \in LaneA(v) :
           LET merged == Merged(I, v, clear, d)
           IN /\ clear => MayClear(I, c)
              /\ merged.amt >= merged.ex
              /\ d <= k.S[v]
              /\ k' = applyStake([k EXCEPT !.S[v] = @ - d,
                                           !.U[v] = @ + valueOf(d, Backing(k, v), k.S[v])],
                                 I, <<merged>>, c)
  BY Zenon DEF Undelegate
<1>2. PICK I \in LaneA(v) :
        /\ d <= k.S[v]
        /\ k' = applyStake([k EXCEPT !.S[v] = @ - d,
                                     !.U[v] = @ + valueOf(d, Backing(k, v), k.S[v])],
                           I, <<Merged(I, v, clear, d)>>, c)
  BY Zenon, <1>1
<1> DEFINE u == valueOf(d, Backing(k, v), k.S[v])
           st == [k EXCEPT !.S[v] = @ - d, !.U[v] = @ + u]
<1>3. /\ u \in Nat /\ u <= Backing(k, v) /\ d \in Nat
      /\ k.S[v] # 0 => (Backing(k, v) - u) * k.S[v] >= Backing(k, v) * (k.S[v] - d)
  <2>1. d \in 0..k.S[v] /\ k.S[v] \in Nat /\ Backing(k, v) \in Nat
    BY SMTT(40), <1>2, BackingIsNat DEF BooksTyped
  <2>2. CASE k.S[v] = 0
    BY <2>1, <2>2 DEF valueOf
  <2>3. CASE k.S[v] # 0
    <3> HIDE DEF u
    <3>1. u \in 0..Backing(k, v) /\ (Backing(k, v) - u) * k.S[v] >= Backing(k, v) * (k.S[v] - d)
      BY Zenon, <2>1, <2>3, ExitKeepsRate DEF u
    <3> QED BY <2>1, <3>1
  <2> QED BY <2>2, <2>3
<1> HIDE DEF u
<1>4. /\ \A f \in Fields \ {"S", "U"} : k'[f] = k[f]
      /\ k'.S = [k.S EXCEPT ![v] = @ - d]
      /\ k'.U = [k.U EXCEPT ![v] = @ + u]
  <2>1. /\ DOMAIN st = DOMAIN k
        /\ \A f \in Fields \ {"S", "U"} : st[f] = k[f]
        /\ st.S = [k.S EXCEPT ![v] = @ - d]
        /\ st.U = [k.U EXCEPT ![v] = @ + u]
    BY Zenon DEF BooksTyped, Fields
  <2> HIDE DEF st
  <2>2. Fields \subseteq DOMAIN st
    BY <2>1 DEF BooksTyped, Fields
  <2>3. k' = applyStake(st, I, <<Merged(I, v, clear, d)>>, c)
    BY <1>2 DEF st, u
  <2>4. \A f \in Fields : k'[f] = st[f]
    BY SMTT(40), <2>2, <2>3, NotesAlone
  <2> QED BY <2>1, <2>4 DEF Fields
<1>5. CASE w # v
  <2>1. k'.S[w] = k.S[w] /\ Backing(k', w) = Backing(k, w)
    BY SMTT(40), <1>4, <1>5 DEF Backing, Delegated, Fields, BooksTyped
  <2> QED BY SMTT(40), <2>1, BackingIsNat DEF BooksTyped
<1>6. CASE w = v
  <2>1. k'.S[v] = k.S[v] - d /\ k'.U[v] = k.U[v] + u
    BY <1>4 DEF BooksTyped
  <2>2. Delegated(k', v) = Delegated(k, v) /\ k'.W[v] = k.W[v] /\ k'.P[v] = k.P[v]
    BY <1>4 DEF Delegated, Fields
  <2>3. Backing(k', v) = Backing(k, v) - u
    <3> DEFINE r == Delegated(k, v) + k.W[v] + k.P[v] - k.U[v]
    <3>1. r \in Int /\ Backing(k, v) = IF 0 > r THEN 0 ELSE r
      BY SMTT(40), BackingIsNat DEF Backing, Most, BooksTyped
    <3>2. Delegated(k', v) + k'.W[v] + k'.P[v] - k'.U[v] = r - u
      BY SMTT(40), <1>3, <2>1, <2>2, BackingIsNat DEF BooksTyped
    <3>3. Backing(k', v) = IF 0 > r - u THEN 0 ELSE r - u
      BY <3>2 DEF Backing, Most
    <3> HIDE DEF r
    <3> QED BY SMTT(40), <1>3, <3>1, <3>3
  <2>4. CASE k.S[v] = 0
    BY SMTT(40), <1>2, <1>3, <1>6, <2>1, <2>3, <2>4, BackingIsNat DEF BooksTyped
  <2>5. CASE k.S[v] # 0
    BY SMTT(40), <1>3, <1>6, <2>1, <2>3, <2>5
  <2> QED BY <2>4, <2>5
<1> QED BY <1>5, <1>6
=============================================================================
