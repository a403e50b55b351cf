---------------------------- MODULE SumTheorems ----------------------------
(***************************************************************************)
(* Sums over finite sets.  The keepers hold totals beside the records they *)
(* total (shares, points, reserves), and the specifications state that     *)
(* they agree with SumFunctionOnSet of the community module Functions.     *)
(* These are the facts about it that the proofs of such totals need.       *)
(***************************************************************************)
EXTENDS Integers, Sequences, FiniteSets, Functions, WellFoundedInduction, TLAPS

\* A non-empty set of naturals has a least member.
LEMMA NatLeast ==
  ASSUME NEW S \in SUBSET Nat, S # {}
  PROVE  \E x \in S : \A y \in S : x <= y
<1> DEFINE R == {ss \in Nat \X Nat : ss[1] < ss[2]}
<1>1. OpToRel(<, Nat) = R
  BY Zenon DEF OpToRel
<1>2. IsWellFoundedOn(R, Nat)
  BY <1>1, NatLessThanWellFounded, Zenon
<1>3. PICK x \in S : \A y \in S : ~(<<y, x>> \in R)
  <2> HIDE DEF R
  <2> QED BY Zenon, <1>2, WFMin
<1>4. \A y \in S : x <= y
  <2> TAKE y \in S
  <2>1. y < x => <<y, x>> \in R
    OBVIOUS
  <2> QED BY <1>3, <2>1
<1> QED BY <1>4

\* The empty set is finite.
LEMMA FiniteEmpty == IsFiniteSet({})
<1>1. <<>> \in Seq({})
  OBVIOUS
<1> QED BY Zenon, <1>1 DEF IsFiniteSet

\* So is a set of one element.
LEMMA FiniteSingle ==
  ASSUME NEW x PROVE IsFiniteSet({x})
<1> DEFINE q == <<x>>
<1>1. q \in Seq({x}) /\ 1 \in 1..Len(q) /\ q[1] = x
  OBVIOUS
<1> HIDE DEF q
<1>2. \A s \in {x} : \E n \in 1..Len(q) : q[n] = s
  BY <1>1
<1> QED BY <1>1, <1>2 DEF IsFiniteSet

\* An image of a finite set is finite.
LEMMA FiniteImage ==
  ASSUME NEW S, IsFiniteSet(S), NEW g, NEW T, T = {g[s] : s \in S}
  PROVE  IsFiniteSet(T)
<1>1. PICK q \in Seq(S) : \A s \in S : \E n \in 1..Len(q) : q[n] = s
  BY DEF IsFiniteSet
<1> DEFINE r == [n \in 1..Len(q) |-> g[q[n]]]
<1>2. Len(q) \in Nat /\ \A n \in 1..Len(q) : q[n] \in S
  BY <1>1
<1>3. r \in Seq(T) /\ Len(r) = Len(q)
  BY <1>2
<1>4. ASSUME NEW t \in T PROVE \E n \in 1..Len(r) : r[n] = t
  <2>1. PICK s \in S : t = g[s]
    OBVIOUS
  <2>2. PICK n \in 1..Len(q) : q[n] = s
    BY <1>1
  <2> QED BY <1>3, <2>1, <2>2
<1> HIDE DEF r
<1> QED BY Zenon, <1>3, <1>4 DEF IsFiniteSet

\* A part of a finite set is finite.
LEMMA FiniteSubset ==
  ASSUME NEW S, IsFiniteSet(S), NEW T \in SUBSET S
  PROVE  IsFiniteSet(T)
<1>1. CASE T = {}
  BY <1>1, FiniteEmpty
<1>2. CASE T # {}
  <2>1. PICK x \in T : TRUE
    BY <1>2
  <2> DEFINE g == [s \in S |-> IF s \in T THEN s ELSE x]
  <2>2. T = {g[s] : s \in S}
    BY <2>1
  <2> HIDE DEF g
  <2> QED BY <2>2, FiniteImage
<1> QED BY <1>1, <1>2

\* The union of two finite sets is finite.
LEMMA FiniteUnion ==
  ASSUME NEW S, IsFiniteSet(S), NEW T, IsFiniteSet(T)
  PROVE  IsFiniteSet(S \cup T)
<1>1. PICK q \in Seq(S) : \A s \in S : \E n \in 1..Len(q) : q[n] = s
  BY DEF IsFiniteSet
<1>2. PICK r \in Seq(T) : \A s \in T : \E n \in 1..Len(r) : r[n] = s
  BY DEF IsFiniteSet
<1> DEFINE c == q \o r
<1>3. Len(q) \in Nat /\ Len(r) \in Nat /\ c \in Seq(S \cup T) /\ Len(c) = Len(q) + Len(r)
  BY <1>1, <1>2
<1>4. \A n \in 1..Len(q) : n \in 1..Len(c) /\ c[n] = q[n]
  BY <1>1, <1>2, <1>3
<1>5. \A n \in 1..Len(r) : Len(q) + n \in 1..Len(c) /\ c[Len(q) + n] = r[n]
  BY <1>1, <1>2, <1>3
<1> HIDE DEF c
<1>6. ASSUME NEW s \in S \cup T PROVE \E n \in 1..Len(c) : c[n] = s
  <2>1. CASE s \in S
    BY Zenon, <2>1, <1>1, <1>4
  <2>2. CASE s \in T
    BY Zenon, <2>2, <1>2, <1>5
  <2> QED BY <2>1, <2>2
<1> QED BY Zenon, <1>3, <1>6 DEF IsFiniteSet

\* An interval of integers is finite.
LEMMA FiniteInterval ==
  ASSUME NEW a \in Int, NEW b \in Int
  PROVE  IsFiniteSet(a..b)
<1>1. CASE b < a
  <2>1. a..b = {}
    BY <1>1
  <2> QED BY <2>1, FiniteEmpty
<1>2. CASE a <= b
  <2> DEFINE m == b - a + 1
             q == [n \in 1..m |-> a + n - 1]
  <2>1. m \in Nat /\ q \in Seq(a..b) /\ Len(q) = m
    BY <1>2
  <2>2. ASSUME NEW s \in a..b PROVE s - a + 1 \in 1..m /\ q[s - a + 1] = s
    BY <1>2
  <2> HIDE DEF q, m
  <2> QED BY <2>1, <2>2 DEF IsFiniteSet
<1> QED BY <1>1, <1>2

\* contains no other: induction over finite sets, in first-order form.
LEMMA MinimalSubset ==
  ASSUME NEW S, IsFiniteSet(S), NEW B \in SUBSET SUBSET S, B # {}
  PROVE  \E T \in B : \A U \in B : U \subseteq T => U = T
<1>1. PICK q \in Seq(S) : \A s \in S : \E n \in 1..Len(q) : q[n] = s
  BY DEF IsFiniteSet
<1> DEFINE P(n) == {q[i] : i \in 1..n}
           Least(C) == \E T \in C : \A U \in C : U \subseteq T => U = T
           Bad == {n \in Nat : \E C \in SUBSET SUBSET P(n) : C # {} /\ ~ Least(C)}
<1>2. ASSUME Bad # {} PROVE FALSE
  <2>0. Bad \in SUBSET Nat
    OBVIOUS
  <2>1. PICK n \in Bad : \A m \in Bad : n <= m
    <3> HIDE DEF Bad
    <3> QED BY <1>2, <2>0, NatLeast
  <2>2. n \in Nat
    OBVIOUS
  <2>3. PICK C \in SUBSET SUBSET P(n) : C # {} /\ ~ Least(C)
    OBVIOUS
  <2>4. CASE n = 0
    <3>1. P(n) = {}
      BY <2>4
    <3>2. ASSUME NEW T \in C, NEW U \in C PROVE U = T
      <4>1. T \subseteq P(n) /\ U \subseteq P(n)
        OBVIOUS
      <4> HIDE DEF P
      <4> QED BY Zenon, <3>1, <4>1
    <3> HIDE DEF P
    <3>3. PICK T \in C : TRUE
      BY Zenon, <2>3
    <3> QED BY Zenon, <2>3, <3>2, <3>3
  <2>5. CASE n # 0
    <3> DEFINE m == n - 1
               x == q[n]
               D == {T \in C : x \notin T}
               E == {T \ {x} : T \in C}
    <3>1. m \in Nat /\ m \notin Bad
      <4> HIDE DEF Bad
      <4> QED BY <2>1, <2>2, <2>5
    <3>2. P(n) \subseteq P(m) \cup {x}
      BY <2>2, <2>5
    <3>3. \A F \in SUBSET SUBSET P(m) : F # {} => Least(F)
      BY <3>1
    <3>4. CASE D # {}
      <4>1. D \in SUBSET SUBSET P(m)
        <5> HIDE DEF P
        <5> QED BY <3>2
      <4>2. PICK T \in D : \A U \in D : U \subseteq T => U = T
        <5> HIDE DEF P, D
        <5> QED BY <3>3, <3>4, <4>1
      <4>3. \A U \in C : U \subseteq T => U \in D
        BY <4>2
      <4> HIDE DEF P
      <4> QED BY <2>3, <4>2, <4>3
    <3>5. CASE D = {}
      <4>1. E \in SUBSET SUBSET P(m)
        <5> HIDE DEF P
        <5> QED BY <3>2
      <4>2. E # {}
        <5> HIDE DEF P
        <5>1. PICK T \in C : TRUE
          BY Zenon, <2>3
        <5>2. T \ {x} \in E
          OBVIOUS
        <5> HIDE DEF E
        <5> QED BY <5>2
      <4>3. PICK V \in E : \A U \in E : U \subseteq V => U = V
        <5> HIDE DEF P, E
        <5> QED BY <3>3, <4>1, <4>2
      <4>4. PICK T \in C : V = T \ {x}
        OBVIOUS
      <4>5. \A U \in C : x \in U /\ U \ {x} \in E
        BY <3>5
      <4>6. ASSUME NEW U \in C, U \subseteq T PROVE U = T
        <5>1. U \ {x} \subseteq V /\ U \ {x} \in E
          BY <4>4, <4>5, <4>6
        <5>2. U \ {x} = V
          BY Zenon, <4>3, <5>1
        <5>3. x \in U /\ x \in T
          BY Zenon, <4>5
        <5> HIDE DEF P, E, D, x
        <5>4. U = (U \ {x}) \cup {x} /\ T = (T \ {x}) \cup {x}
          BY <5>3
        <5> QED BY Zenon, <4>4, <5>2, <5>4
      <4> HIDE DEF P, E, D
      <4> QED BY <2>3, <4>6
    <3> QED BY <3>4, <3>5
  <2> QED BY <2>4, <2>5
<1>3. Len(q) \in Nat /\ S \subseteq P(Len(q))
  BY <1>1
<1>4. B \in SUBSET SUBSET P(Len(q))
  <2> HIDE DEF P
  <2> QED BY <1>3
<1> QED BY <1>2, <1>3, <1>4

\* g gives the sum of f over every subset of S: zero for the empty one, and one
\* more element adds its value.
Adds(g, f, S) ==
    /\ g \in [SUBSET S -> Int]
    /\ g[{}] = 0
    /\ \A U \in SUBSET S : \A y \in S \ U : g[U \cup {y}] = g[U] + f[y]

\* Such a g exists for every integer function on a finite set.
LEMMA AddsExists ==
  ASSUME NEW S, IsFiniteSet(S), NEW f, \A s \in S : f[s] \in Int
  PROVE  \E g : Adds(g, f, S)
<1> DEFINE B == {T \in SUBSET S : ~ \E g : Adds(g, f, T)}
<1> SUFFICES ASSUME B # {} PROVE FALSE
  OBVIOUS
<1>0. B \in SUBSET SUBSET S
  OBVIOUS
<1>1. PICK T \in B : \A U \in B : U \subseteq T => U = T
  <2> HIDE DEF B
  <2> QED BY <1>0, MinimalSubset
<1>2. CASE T = {}
  <2>1. Adds([U \in SUBSET T |-> 0], f, T)
    BY <1>2 DEF Adds
  <2> QED BY <2>1
<1>3. CASE T # {}
  <2>1. PICK x \in T : TRUE
    BY <1>3
  <2> DEFINE R == T \ {x}
  <2>2. R \in SUBSET S /\ R # T /\ R \subseteq T
    BY <2>1
  <2>3. PICK h : Adds(h, f, R)
    BY <1>1, <2>2
  <2> DEFINE g == [U \in SUBSET T |-> IF x \in U THEN h[U \ {x}] + f[x] ELSE h[U]]
  <2>4. g \in [SUBSET T -> Int]
    BY <2>1, <2>3 DEF Adds
  <2>5. g[{}] = 0
    BY <2>3 DEF Adds
  <2>6. ASSUME NEW U \in SUBSET T, NEW y \in T \ U
        PROVE  g[U \cup {y}] = g[U] + f[y]
    <3>1. CASE y = x
      <4>1. (U \cup {y}) \ {x} = U /\ x \in U \cup {y} /\ x \notin U
        BY <3>1
      <4>2. U \cup {y} \in SUBSET T
        OBVIOUS
      <4>3. g[U \cup {y}] = h[U] + f[x]
        BY <4>1, <4>2
      <4>4. g[U] = h[U]
        BY <4>1
      <4> HIDE DEF g
      <4> QED BY <3>1, <4>3, <4>4
    <3>2. CASE y # x /\ x \in U
      <4>1. (U \cup {y}) \ {x} = (U \ {x}) \cup {y}
        BY <3>2
      <4>2. U \ {x} \in SUBSET R /\ y \in R \ (U \ {x})
        BY <3>2
      <4>3. h[(U \ {x}) \cup {y}] = h[U \ {x}] + f[y]
        BY Zenon, <4>2, <2>3 DEF Adds
      <4>4. h[U \ {x}] \in Int /\ f[x] \in Int /\ f[y] \in Int
        BY <4>2, <2>3, <2>1 DEF Adds
      <4>5. g[U \cup {y}] = h[(U \cup {y}) \ {x}] + f[x]
        BY <3>2
      <4>6. g[U] = h[U \ {x}] + f[x]
        BY <3>2
      <4>7. g[U \cup {y}] = (h[U \ {x}] + f[y]) + f[x]
        BY Zenon, <4>1, <4>3, <4>5
      <4>8. (h[U \ {x}] + f[y]) + f[x] = (h[U \ {x}] + f[x]) + f[y]
        BY <4>4
      <4> HIDE DEF g
      <4> QED BY <4>6, <4>7, <4>8
    <3>3. CASE y # x /\ x \notin U
      BY Zenon, <3>3, <2>3 DEF Adds
    <3> QED BY <3>1, <3>2, <3>3
  <2>7. Adds(g, f, T)
    BY Zenon, <2>4, <2>5, <2>6 DEF Adds
  <2> QED BY <2>7
<1> QED BY <1>2, <1>3

\* The equation by which MapThenFoldSet defines the sum over the subsets of S.
Step(h, f, S) ==
    h = [s \in SUBSET S |->
           IF s = {} THEN 0
           ELSE LET x == CHOOSE x \in s : TRUE IN f[x] + h[s \ {x}]]

\* A function that adds element by element solves the equation of the fold.
LEMMA AddsStep ==
  ASSUME NEW S, NEW f, \A s \in S : f[s] \in Int, NEW g, Adds(g, f, S)
  PROVE  Step(g, f, S)
<1>1. ASSUME NEW s \in SUBSET S, s # {}
      PROVE  g[s] = LET x == CHOOSE x \in s : TRUE IN f[x] + g[s \ {x}]
  <2> DEFINE x == CHOOSE x \in s : TRUE
  <2>1. x \in s
    BY <1>1
  <2> HIDE DEF x
  <2>2. s = (s \ {x}) \cup {x} /\ x \in S \ (s \ {x}) /\ s \ {x} \in SUBSET S
    BY <2>1
  <2>3. g[s] = g[s \ {x}] + f[x]
    BY Zenon, <2>2 DEF Adds
  <2>4. g[s] = f[x] + g[s \ {x}]
    BY <2>3, <2>2 DEF Adds
  <2> QED BY <2>4 DEF x
<1>2. g[{}] = 0 /\ g \in [SUBSET S -> Int]
  BY DEF Adds
<1> QED BY Zenon, <1>1, <1>2 DEF Step

\* The equation of the fold has one solution.
LEMMA StepUnique ==
  ASSUME NEW S, IsFiniteSet(S), NEW f, \A s \in S : f[s] \in Int, NEW g, NEW h,
         Step(g, f, S), Step(h, f, S)
  PROVE  g = h
<1> DEFINE B == {T \in SUBSET S : g[T] # h[T]}
<1>1. ASSUME B # {} PROVE FALSE
  <2>0. B \in SUBSET SUBSET S
    OBVIOUS
  <2>1. PICK T \in B : \A U \in B : U \subseteq T => U = T
    <3> HIDE DEF B
    <3> QED BY <1>1, <2>0, MinimalSubset
  <2>2. T # {}
    BY <2>1 DEF Step
  <2> DEFINE x == CHOOSE x \in T : TRUE
  <2>3. x \in T
    BY <2>2
  <2>4. g[T] = f[x] + g[T \ {x}] /\ h[T] = f[x] + h[T \ {x}]
    BY <2>2 DEF Step
  <2> HIDE DEF x
  <2>5. g[T \ {x}] = h[T \ {x}]
    BY <2>1, <2>3
  <2> QED BY <2>1, <2>4, <2>5
<1>2. \A T \in SUBSET S : g[T] = h[T]
  BY <1>1
<1> QED BY <1>2 DEF Step

\* The library sum is what any function adding element by element gives.
LEMMA SumIs ==
  ASSUME NEW S, IsFiniteSet(S), NEW f, \A s \in S : f[s] \in Int, NEW g, Adds(g, f, S)
  PROVE  SumFunctionOnSet(f, S) = g[S]
<1> DEFINE iter == CHOOSE h : Step(h, f, S)
<1>1. Step(g, f, S)
  BY AddsStep
<1>2. Step(iter, f, S)
  BY <1>1
<1>3. iter = g
  BY <1>1, <1>2, StepUnique
<1>4. SumFunctionOnSet(f, S) = iter[S]
  BY DEF SumFunctionOnSet, FoldFunctionOnSet, MapThenFoldSet, Step
<1> QED BY Zenon, <1>3, <1>4

\* A sum of integers is an integer.
LEMMA SumType ==
  ASSUME NEW S, IsFiniteSet(S), NEW f, \A s \in S : f[s] \in Int
  PROVE  SumFunctionOnSet(f, S) \in Int
<1>1. PICK g : Adds(g, f, S)
  BY AddsExists
<1>2. SumFunctionOnSet(f, S) = g[S]
  BY <1>1, SumIs
<1> QED BY <1>1, <1>2 DEF Adds

\* The sum over no element is zero.
LEMMA SumEmpty ==
  ASSUME NEW f
  PROVE  SumFunctionOnSet(f, {}) = 0
<1>1. IsFiniteSet({})
  BY FiniteEmpty
<1>2. PICK g : Adds(g, f, {})
  BY <1>1, AddsExists
<1> QED BY Zenon, <1>1, <1>2, SumIs DEF Adds

\* A new element adds its value, as a record put in a store adds to a total.
LEMMA SumInsert ==
  ASSUME NEW S, IsFiniteSet(S), NEW x, x \notin S, NEW f,
         \A s \in S \cup {x} : f[s] \in Int
  PROVE  SumFunctionOnSet(f, S \cup {x}) = SumFunctionOnSet(f, S) + f[x]
<1> DEFINE T == S \cup {x}
<1>1. IsFiniteSet(T)
  BY Zenon, FiniteUnion, FiniteSingle
<1>2. PICK g : Adds(g, f, T)
  BY <1>1, AddsExists
<1> DEFINE h == [U \in SUBSET S |-> g[U]]
<1>3. Adds(h, f, S)
  BY <1>2 DEF Adds
<1>4. SumFunctionOnSet(f, T) = g[T] /\ SumFunctionOnSet(f, S) = h[S]
  <2> HIDE DEF T, h
  <2> QED BY <1>1, <1>2, <1>3, SumIs DEF T
<1>5. g[S \cup {x}] = g[S] + f[x]
  BY <1>2 DEF Adds
<1> QED BY <1>4, <1>5

\* The sum depends on the values over the set alone.
LEMMA SumSame ==
  ASSUME NEW S, IsFiniteSet(S), NEW f, NEW h,
         \A s \in S : f[s] \in Int /\ h[s] = f[s]
  PROVE  SumFunctionOnSet(h, S) = SumFunctionOnSet(f, S)
<1>1. PICK g : Adds(g, f, S)
  BY AddsExists
<1>2. Adds(g, h, S)
  BY <1>1 DEF Adds
<1> QED BY <1>1, <1>2, SumIs

\* Taking an element out takes its value out of the sum.
LEMMA SumRemove ==
  ASSUME NEW S, IsFiniteSet(S), NEW x \in S, NEW f, \A s \in S : f[s] \in Int
  PROVE  SumFunctionOnSet(f, S) = SumFunctionOnSet(f, S \ {x}) + f[x]
<1>1. IsFiniteSet(S \ {x}) /\ x \notin S \ {x} /\ S = (S \ {x}) \cup {x}
  BY FiniteSubset
<1> QED BY <1>1, SumInsert

\* A sum of naturals is a natural.
LEMMA SumNat ==
  ASSUME NEW S, IsFiniteSet(S), NEW f, \A s \in S : f[s] \in Nat
  PROVE  SumFunctionOnSet(f, S) \in Nat
<1> DEFINE B == {T \in SUBSET S : SumFunctionOnSet(f, T) \notin Nat}
<1>1. ASSUME B # {} PROVE FALSE
  <2>0. B \in SUBSET SUBSET S
    OBVIOUS
  <2>1. PICK T \in B : \A U \in B : U \subseteq T => U = T
    <3> HIDE DEF B
    <3> QED BY <1>1, <2>0, MinimalSubset
  <2>2. T # {}
    <3>1. SumFunctionOnSet(f, {}) = 0
      BY SumEmpty
    <3>2. SumFunctionOnSet(f, T) \notin Nat
      BY <2>1
    <3>3. T = {} => SumFunctionOnSet(f, T) = 0
      BY <3>1, Zenon
    <3> QED BY <3>2, <3>3
  <2>3. PICK x \in T : TRUE
    BY <2>2
  <2>4. SumFunctionOnSet(f, T \ {x}) \in Nat
    BY <2>1, <2>3
  <2>5. IsFiniteSet(T)
    BY FiniteSubset
  <2>6. SumFunctionOnSet(f, T) = SumFunctionOnSet(f, T \ {x}) + f[x]
    BY <2>5, <2>3, SumRemove
  <2> QED BY <2>1, <2>3, <2>4, <2>6
<1>2. S \notin B
  BY <1>1
<1> QED BY <1>2

\* is covered by the total.
LEMMA SumMember ==
  ASSUME NEW S, IsFiniteSet(S), NEW x \in S, NEW f, \A s \in S : f[s] \in Nat
  PROVE  f[x] <= SumFunctionOnSet(f, S)
<1>1. IsFiniteSet(S \ {x})
  BY FiniteSubset
<1>2. SumFunctionOnSet(f, S \ {x}) \in Nat
  BY <1>1, SumNat
<1>3. SumFunctionOnSet(f, S) = SumFunctionOnSet(f, S \ {x}) + f[x]
  BY SumRemove
<1> QED BY <1>2, <1>3

\* A sum of zeros is zero.
LEMMA SumZero ==
  ASSUME NEW S, IsFiniteSet(S), NEW f, \A s \in S : f[s] = 0
  PROVE  SumFunctionOnSet(f, S) = 0
<1> DEFINE g == [U \in SUBSET S |-> 0]
<1>1. Adds(g, f, S)
  BY DEF Adds
<1>2. SumFunctionOnSet(f, S) = g[S]
  <2> HIDE DEF g
  <2> QED BY <1>1, SumIs
<1> QED BY <1>2

\* are added to a store in one step.
LEMMA SumUnion ==
  ASSUME NEW S, IsFiniteSet(S), NEW T, IsFiniteSet(T), S \cap T = {}, NEW f,
         \A s \in S \cup T : f[s] \in Int
  PROVE  SumFunctionOnSet(f, S \cup T) = SumFunctionOnSet(f, S) + SumFunctionOnSet(f, T)
<1> DEFINE B == {U \in SUBSET T :
                   SumFunctionOnSet(f, S \cup U) # SumFunctionOnSet(f, S) + SumFunctionOnSet(f, U)}
<1>0. SumFunctionOnSet(f, S) \in Int
  BY SumType
<1>1. ASSUME B # {} PROVE FALSE
  <2>0. B \in SUBSET SUBSET T
    OBVIOUS
  <2>1. PICK V \in B : \A U \in B : U \subseteq V => U = V
    <3> HIDE DEF B
    <3> QED BY <1>1, <2>0, MinimalSubset
  <2>2. V # {}
    <3>1. SumFunctionOnSet(f, {}) = 0 /\ S \cup {} = S
      BY SumEmpty
    <3>2. {} \notin B
      BY <1>0, <3>1
    <3> QED BY Zenon, <2>1, <3>2
  <2>3. PICK x \in V : TRUE
    BY <2>2
  <2> DEFINE R == V \ {x}
  <2>4. IsFiniteSet(V) /\ IsFiniteSet(R) /\ IsFiniteSet(S \cup R)
    BY Zenon, FiniteSubset, FiniteUnion
  <2>5. R \in SUBSET T /\ R \notin B
    BY <2>1, <2>3
  <2>6. SumFunctionOnSet(f, S \cup R) = SumFunctionOnSet(f, S) + SumFunctionOnSet(f, R)
    BY <2>5
  <2>7. SumFunctionOnSet(f, V) = SumFunctionOnSet(f, R) + f[x]
    BY <2>3, <2>4, SumRemove
  <2>8. SumFunctionOnSet(f, S \cup V) = SumFunctionOnSet(f, S \cup R) + f[x]
    <3>1. x \notin S \cup R /\ S \cup V = (S \cup R) \cup {x}
      BY <2>3
    <3> HIDE DEF R
    <3>2. \A s \in (S \cup R) \cup {x} : f[s] \in Int
      BY <2>3, <2>5
    <3> QED BY Zenon, <2>4, <3>1, <3>2, SumInsert
  <2>9. SumFunctionOnSet(f, R) \in Int /\ f[x] \in Int
    BY <2>3, <2>4, SumType
  <2> HIDE DEF R
  <2> QED BY <1>0, <2>1, <2>6, <2>7, <2>8, <2>9
<1>2. T \notin B
  BY Zenon, <1>1
<1> QED BY <1>2

\* The sum over a part and the sum over the rest make the sum over the whole.
LEMMA SumPart ==
  ASSUME NEW S, IsFiniteSet(S), NEW T \in SUBSET S, NEW f, \A s \in S : f[s] \in Int
  PROVE  SumFunctionOnSet(f, S) = SumFunctionOnSet(f, S \ T) + SumFunctionOnSet(f, T)
<1>1. IsFiniteSet(T) /\ IsFiniteSet(S \ T) /\ (S \ T) \cap T = {} /\ (S \ T) \cup T = S
  BY FiniteSubset
<1> QED BY <1>1, SumUnion

\* p takes the elements of S one to one onto T, and the terms f to the terms h.
Renames(f, S, h, T, p) ==
  /\ IsFiniteSet(S) /\ T = {p[s] : s \in S}
  /\ \A s \in S : f[s] \in Int /\ h[p[s]] = f[s]
  /\ \A x, y \in S : p[x] = p[y] => x = y

\* is appended to another and its positions shift.
LEMMA SumRename ==
  ASSUME NEW f, NEW S, NEW h, NEW T, NEW p, Renames(f, S, h, T, p)
  PROVE  SumFunctionOnSet(h, T) = SumFunctionOnSet(f, S)
<1> USE DEF Renames
<1> DEFINE Im(U) == {p[s] : s \in U}
           B == {U \in SUBSET S : SumFunctionOnSet(h, Im(U)) # SumFunctionOnSet(f, U)}
<1>1. ASSUME B # {} PROVE FALSE
  <2>0. B \in SUBSET SUBSET S
    OBVIOUS
  <2>1. PICK V \in B : \A U \in B : U \subseteq V => U = V
    <3> HIDE DEF B
    <3> QED BY <1>1, <2>0, MinimalSubset
  <2>2. V # {}
    <3>1. SumFunctionOnSet(f, {}) = 0 /\ SumFunctionOnSet(h, {}) = 0 /\ Im({}) = {}
      BY SumEmpty
    <3>2. {} \notin B
      BY Zenon, <3>1
    <3> QED BY Zenon, <2>1, <3>2
  <2>3. PICK x \in V : TRUE
    BY <2>2
  <2> DEFINE R == V \ {x}
  <2>4. IsFiniteSet(V) /\ IsFiniteSet(R)
    BY FiniteSubset
  <2>5. R \in SUBSET S /\ R \notin B
    BY <2>1, <2>3
  <2>6. SumFunctionOnSet(h, Im(R)) = SumFunctionOnSet(f, R)
    BY <2>5
  <2>7. SumFunctionOnSet(f, V) = SumFunctionOnSet(f, R) + f[x]
    BY <2>3, <2>4, SumRemove
  <2>8. SumFunctionOnSet(h, Im(V)) = SumFunctionOnSet(h, Im(R)) + h[p[x]]
    <3>1. IsFiniteSet(Im(R))
      <4> HIDE DEF R
      <4> QED BY <2>4, FiniteImage
    <3>2. p[x] \notin Im(R) /\ Im(V) = Im(R) \cup {p[x]}
      BY <2>3
    <3>3. \A s \in Im(R) \cup {p[x]} : h[s] \in Int
      BY <2>3
    <3> DEFINE I == Im(R)
               y == p[x]
    <3>4. IsFiniteSet(I) /\ y \notin I /\ \A s \in I \cup {y} : h[s] \in Int
      BY <3>1, <3>2, <3>3
    <3>5. Im(V) = I \cup {y}
      BY <3>2
    <3> HIDE DEF I, y, Im
    <3>6. SumFunctionOnSet(h, I \cup {y}) = SumFunctionOnSet(h, I) + h[y]
      BY <3>4, SumInsert
    <3> QED BY <3>5, <3>6 DEF I, y
  <2> HIDE DEF R, Im
  <2> QED BY <2>1, <2>3, <2>6, <2>7, <2>8
<1>2. S \notin B
  BY <1>1
<1> QED BY <1>2

\* A positive sum of naturals has a positive term.
LEMMA SumPositive ==
  ASSUME NEW S, IsFiniteSet(S), NEW f, \A s \in S : f[s] \in Nat,
         SumFunctionOnSet(f, S) > 0
  PROVE  \E s \in S : f[s] > 0
<1> SUFFICES ASSUME \A s \in S : ~(f[s] > 0) PROVE FALSE
  OBVIOUS
<1>1. \A s \in S : f[s] = 0
  OBVIOUS
<1>2. SumFunctionOnSet(f, S) = 0
  BY <1>1, SumZero
<1> QED BY <1>2

\* A sum of n equal values.
LEMMA SumConstant ==
  ASSUME NEW n \in Nat, NEW c \in Int, NEW f, \A i \in 1..n : f[i] = c
  PROVE  SumFunctionOnSet(f, 1..n) = c * n
<1> DEFINE Bad == {m \in Nat : m <= n /\ SumFunctionOnSet(f, 1..m) # c * m}
<1>1. ASSUME Bad # {} PROVE FALSE
  <2>0. Bad \in SUBSET Nat
    OBVIOUS
  <2>1. PICK m \in Bad : \A k \in Bad : m <= k
    <3> HIDE DEF Bad
    <3> QED BY <1>1, <2>0, NatLeast
  <2>2. m \in Nat /\ m <= n /\ SumFunctionOnSet(f, 1..m) # c * m
    OBVIOUS
  <2>3. m # 0
    <3>1. 1..0 = {} /\ c * 0 = 0
      OBVIOUS
    <3>2. SumFunctionOnSet(f, 1..0) = 0
      BY <3>1, SumEmpty
    <3> QED BY <2>2, <3>1, <3>2
  <2> DEFINE R == 1..(m - 1)
             z == SumFunctionOnSet(f, R)
  <2>4. IsFiniteSet(R)
    BY <2>2, FiniteInterval
  <2>5. m \notin R /\ 1..m = R \cup {m} /\ f[m] = c /\ \A i \in R \cup {m} : f[i] \in Int
    BY <2>2, <2>3
  <2>6. z = c * (m - 1)
    <3>1. m - 1 \in Nat /\ m - 1 <= n /\ m - 1 \notin Bad
      <4> HIDE DEF Bad
      <4> QED BY <2>1, <2>2, <2>3
    <3> QED BY <3>1
  <2>7. SumFunctionOnSet(f, 1..m) = z + c
    <3> HIDE DEF R
    <3>1. SumFunctionOnSet(f, R \cup {m}) = SumFunctionOnSet(f, R) + f[m]
      BY Zenon, <2>4, <2>5, SumInsert
    <3> QED BY Zenon, <2>5, <3>1 DEF z
  <2> HIDE DEF z, R, Bad
  <2>8. c * (m - 1) + c = c * m
    BY <2>2
  <2> QED BY <2>2, <2>6, <2>7, <2>8
<1>2. n \notin Bad
  BY <1>1
<1> QED BY <1>2
=============================================================================
