---------------------- MODULE SupplyCheckpointsProofs ----------------------
(***************************************************************************)
(* Supply checkpoints implement eager snapshots, for every set of          *)
(* validators and proposals and every pruning limit.                       *)
(***************************************************************************)
EXTENDS SupplyCheckpoints, WellFoundedInduction, TLAPS

-----------------------------------------------------------------------------
\* A non-empty set of naturals has a least member.
LEMMA NatLeast ==
  ASSUME NEW S \in SUBSET Nat, S # {}
  PROVE  \E x \in S : \A y \in S : x <= y
<1> DEFINE R == {ss \in Nat \X Nat : ss[1] < ss[2]}
<1>1. OpToRel(<, Nat) = R
  BY Zenon DEF OpToRel
<1>2. IsWellFoundedOn(R, Nat)
  BY <1>1, NatLessThanWellFounded, Zenon
<1>3. PICK x \in S : \A y \in S : ~(<<y, x>> \in R)
  <2> HIDE DEF R
  <2> QED BY Zenon, <1>2, WFMin
<1>4. \A y \in S : x <= y
  <2> TAKE y \in S
  <2>1. y < x => <<y, x>> \in R
    OBVIOUS
  <2> QED BY <1>3, <2>1
<1> QED BY <1>4

\* A non-empty set of naturals with a bound has a greatest member.
LEMMA NatGreatest ==
  ASSUME NEW S \in SUBSET Nat, S # {}, NEW n \in Nat, \A x \in S : x <= n
  PROVE  \E x \in S : \A y \in S : y <= x
<1> DEFINE B == {m \in Nat : \A x \in S : x <= m}
<1>1. B # {} /\ B \in SUBSET Nat
  OBVIOUS
<1>2. PICK m \in B : \A k \in B : m <= k
  <2> HIDE DEF B
  <2> QED BY <1>1, NatLeast
<1>3. CASE m \in S
  BY <1>3
<1>4. CASE m \notin S
  <2>1. \A x \in S : x < m
    BY <1>4
  <2>2. m \in Nat /\ m # 0
    <3>1. PICK x : x \in S
      OBVIOUS
    <3> QED BY <2>1, <3>1
  <2>3. m - 1 \in Nat /\ \A x \in S : x <= m - 1
    BY <2>1, <2>2
  <2>4. m - 1 \in B
    BY <2>3
  <2> QED BY <2>2, <2>4, <1>2
<1> QED BY <1>3, <1>4

\* First picks the least member when there is one to name.
LEMMA FirstIs ==
  ASSUME NEW S \in SUBSET Nat, NEW q \in S, \A r \in S : q <= r
  PROVE  First(S) = q
<1>1. \A x \in S : (\A r \in S : x <= r) => x = q
  OBVIOUS
<1> QED BY Zenon, <1>1 DEF First

-----------------------------------------------------------------------------
Book == [supply : Nat, supplyHeight : Nat, blockStart : Nat, checkpointSeq : Nat]

CheckpointsType ==
    /\ height \in Nat \ {0}
    /\ snapshotSeq \in Nat
    /\ books \in [Validators -> Book]
    /\ snaps \in [DOMAIN snaps -> [seq : Nat, height : Nat, end : Nat]]
    /\ checkpoints \in [Validators -> UNION {[Q -> Nat] : Q \in SUBSET (1..snapshotSeq)}]

\* Sequence numbers are taken in the order of heights, each once.
SnapsOrdered ==
    /\ \A p \in DOMAIN snaps : /\ 1 <= snaps[p].seq /\ snaps[p].seq <= snapshotSeq
                               /\ 1 <= snaps[p].height /\ snaps[p].height <= height
    /\ \A p, q \in DOMAIN snaps :
          /\ snaps[p].seq = snaps[q].seq => p = q
          /\ snaps[p].seq < snaps[q].seq => snaps[p].height <= snaps[q].height

\* What a book knows of its checkpoints, and of a snapshot's.
BookSound(b, c) ==
    /\ b.checkpointSeq <= snapshotSeq /\ b.supplyHeight <= height
    /\ b.supplyHeight # 0 => \A q \in DOMAIN c : q <= b.checkpointSeq
    /\ \A p \in DOMAIN snaps :
          /\ Later(c, snaps[p].seq) = {} => b.checkpointSeq < snaps[p].seq
          /\ b.checkpointSeq < snaps[p].seq => b.supplyHeight <= snaps[p].height

CheckpointsInv ==
    /\ CheckpointsType
    /\ SnapsOrdered
    /\ \A v \in Validators : BookSound(books[v], checkpoints[v])

-----------------------------------------------------------------------------
\* The checkpoints of one book, as a function.
LEMMA CheckpointsOf ==
  ASSUME CheckpointsType, NEW v \in Validators
  PROVE  /\ DOMAIN checkpoints[v] \subseteq 1..snapshotSeq
         /\ checkpoints[v] \in [DOMAIN checkpoints[v] -> Nat]
         /\ books[v] \in Book
<1>1. checkpoints[v] \in UNION {[Q -> Nat] : Q \in SUBSET (1..snapshotSeq)}
  BY DEF CheckpointsType
<1>2. PICK Q \in SUBSET (1..snapshotSeq) : checkpoints[v] \in [Q -> Nat]
  BY <1>1
<1> QED BY <1>2 DEF CheckpointsType

\* LastAt names at most one seq: the greatest of the book's first run.
LEMMA LastAtIs ==
  ASSUME CheckpointsType, SnapsOrdered, NEW b
  PROVE  /\ \A m \in LastAt(b) : \E x \in FirstRun(b) :
               m = snaps[x].seq /\ \A p \in FirstRun(b) : snaps[p].seq <= m
         /\ \A p \in FirstRun(b) : \E m \in LastAt(b) : snaps[p].seq <= m
         /\ FirstRun(b) \subseteq DOMAIN snaps
<1>1. FirstRun(b) \subseteq DOMAIN snaps
  BY DEF FirstRun, Since
<1>2. ASSUME NEW m \in LastAt(b)
      PROVE  \E x \in FirstRun(b) : m = snaps[x].seq /\ \A p \in FirstRun(b) : snaps[p].seq <= m
  BY DEF LastAt
<1>3. ASSUME NEW p \in FirstRun(b)
      PROVE  \E m \in LastAt(b) : snaps[p].seq <= m
  <2> DEFINE S == {snaps[x].seq : x \in FirstRun(b)}
  <2>1. S # {} /\ S \in SUBSET Nat /\ \A y \in S : y <= snapshotSeq
    BY <1>1 DEF CheckpointsType, SnapsOrdered
  <2>2. snapshotSeq \in Nat
    BY DEF CheckpointsType
  <2>3. PICK m \in S : \A y \in S : y <= m
    <3> HIDE DEF S
    <3> QED BY Zenon, <2>1, <2>2, NatGreatest
  <2>4. m \in LastAt(b)
    BY <2>3 DEF LastAt
  <2> QED BY <2>3, <2>4
<1> QED BY <1>1, <1>2, <1>3

\* A snapshot's supply is the value of the first checkpoint at or after it.
LEMMA SupplyAtFirst ==
  ASSUME NEW b, NEW c, DOMAIN c \subseteq Nat, NEW s, s.seq \in Nat,
         NEW q \in Later(c, s.seq), \A r \in Later(c, s.seq) : q <= r
  PROVE  SupplyAt(b, c, s) = c[q]
<1>1. Later(c, s.seq) \in SUBSET Nat
  BY DEF Later
<1>2. First(Later(c, s.seq)) = q
  BY <1>1, FirstIs
<1> QED BY <1>2 DEF SupplyAt

\* nc holds what c does, and every open snapshot has a checkpoint in it, with
\* the supply the book b gave it.
KeepsSupplies(b, c, nc) ==
    /\ DOMAIN nc \subseteq 1..snapshotSeq
    /\ nc \in [DOMAIN nc -> Nat]
    /\ \A q \in DOMAIN c : q \in DOMAIN nc /\ nc[q] = c[q]
    /\ \A p \in DOMAIN snaps :
          /\ Later(nc, snaps[p].seq) # {}
          /\ \A nb : SupplyAt(nb, nc, snaps[p]) = SupplyAt(b, c, snaps[p])

\* Writing a book's checkpoints leaves every open snapshot with one, and with
\* the supply it had.
LEMMA WrittenKeeps ==
  ASSUME CheckpointsType, SnapsOrdered, NEW b \in Book, NEW c,
         DOMAIN c \subseteq 1..snapshotSeq, c \in [DOMAIN c -> Nat], BookSound(b, c)
  PROVE  KeepsSupplies(b, c, WrittenCheckpoints(b, c))
<1> DEFINE nc == WrittenCheckpoints(b, c)
           L == LastAt(b)
<1>t. /\ snapshotSeq \in Nat
      /\ b.supply \in Nat /\ b.blockStart \in Nat /\ b.checkpointSeq \in Nat /\ b.supplyHeight \in Nat
      /\ \A p \in DOMAIN snaps : snaps[p].seq \in Nat /\ snaps[p].height \in Nat
  BY DEF CheckpointsType, Book
<1>l. \A m \in L : \E x \in DOMAIN snaps : m = snaps[x].seq /\ snaps[x].height = b.supplyHeight
                                             /\ b.checkpointSeq < m
  <2> SUFFICES ASSUME NEW m \in L
               PROVE  \E x \in DOMAIN snaps : m = snaps[x].seq /\ snaps[x].height = b.supplyHeight
                                                /\ b.checkpointSeq < m
    OBVIOUS
  <2>1. PICK x \in FirstRun(b) : m = snaps[x].seq
    BY LastAtIs
  <2>2. x \in Since(b) /\ snaps[x].seq <= snaps[x].seq
    BY <2>1, <1>t DEF FirstRun, Since
  <2>3. snaps[x].height = b.supplyHeight
    BY <2>1, <2>2 DEF FirstRun
  <2> QED BY <2>1, <2>2, <2>3 DEF Since
<1>1. CASE snapshotSeq <= b.checkpointSeq \/ DOMAIN snaps = {}
  <2>1. nc = c
    BY <1>1 DEF WrittenCheckpoints
  <2>2. ASSUME NEW p \in DOMAIN snaps
        PROVE  /\ Later(c, snaps[p].seq) # {}
               /\ \A nb : SupplyAt(nb, c, snaps[p]) = SupplyAt(b, c, snaps[p])
    <3>1. Later(c, snaps[p].seq) # {}
      BY <1>1, <1>t DEF BookSound, SnapsOrdered
    <3> QED BY <3>1 DEF SupplyAt
  <2> QED BY <2>1, <2>2 DEF KeepsSupplies
<1>2. CASE b.checkpointSeq < snapshotSeq /\ DOMAIN snaps # {}
  <2>1. nc = PutCheckpoint(PutCheckpoint(c, L, b.blockStart), {snapshotSeq} \ L, b.supply)
    BY <1>2, <1>t DEF WrittenCheckpoints
  <2>2. /\ DOMAIN nc = DOMAIN c \cup L \cup {snapshotSeq}
        /\ \A q \in DOMAIN c : nc[q] = c[q]
        /\ \A q \in L \ DOMAIN c : nc[q] = b.blockStart
        /\ snapshotSeq \notin DOMAIN c \cup L => nc[snapshotSeq] = b.supply
    <3> HIDE DEF nc, L
    <3> QED BY Zenon, <2>1 DEF PutCheckpoint
  <2>3. L \subseteq 1..snapshotSeq
    BY <1>l, <1>t DEF SnapsOrdered
  <2>4. snapshotSeq \in 1..snapshotSeq
    BY <1>2, <1>t
  <2>5. /\ DOMAIN nc \subseteq 1..snapshotSeq
        /\ \A q \in DOMAIN nc : nc[q] \in Nat
        /\ nc = [q \in DOMAIN nc |-> nc[q]]
    <3>1. nc = [q \in DOMAIN nc |-> nc[q]]
      <4> HIDE DEF nc, L
      <4> QED BY <2>1 DEF PutCheckpoint
    <3> HIDE DEF nc, L
    <3> QED BY <3>1, <2>2, <2>3, <2>4, <1>t
  <2>6. ASSUME NEW p \in DOMAIN snaps
        PROVE  /\ Later(nc, snaps[p].seq) # {}
               /\ \A nb : SupplyAt(nb, nc, snaps[p]) = SupplyAt(b, c, snaps[p])
    <3> DEFINE s == snaps[p]
    <3>t. s.seq \in Nat /\ s.height \in Nat /\ s.seq <= snapshotSeq /\ 1 <= s.height
      BY <1>t DEF SnapsOrdered
    <3>n. DOMAIN nc \subseteq Nat /\ DOMAIN c \subseteq Nat
      BY <2>5
    <3>1. CASE Later(c, s.seq) # {}
      <4>1. Later(c, s.seq) \in SUBSET Nat
        BY DEF Later
      <4>2. PICK q \in Later(c, s.seq) : \A r \in Later(c, s.seq) : q <= r
        BY <3>1, <4>1, NatLeast
      <4>3. q \in DOMAIN c /\ q \in Nat /\ s.seq <= q /\ q <= snapshotSeq
        BY <4>2 DEF Later
      <4>4. \A m \in L : q <= m
        <5>1. ASSUME NEW m \in L PROVE q <= m
          <6>1. b.supplyHeight # 0 /\ b.checkpointSeq < m /\ m \in Nat
            BY <1>l, <1>t DEF SnapsOrdered
          <6>2. q <= b.checkpointSeq
            BY <6>1, <4>3 DEF BookSound
          <6> QED BY <6>1, <6>2, <4>3, <1>t
        <5> QED BY <5>1
      <4>5. q \in Later(nc, s.seq)
        <5> HIDE DEF nc, L
        <5> QED BY <4>3, <2>2 DEF Later
      <4>6. \A r \in Later(nc, s.seq) : q <= r
        <5> HIDE DEF nc, L
        <5> QED BY <4>2, <4>3, <4>4, <2>2 DEF Later
      <4>7. \A nb : SupplyAt(nb, nc, s) = nc[q]
        <5> HIDE DEF nc, s
        <5> QED BY <3>t, <3>n, <4>5, <4>6, SupplyAtFirst
      <4>8. SupplyAt(b, c, s) = c[q]
        <5> HIDE DEF s
        <5> QED BY <3>t, <3>n, <4>2, SupplyAtFirst
      <4> HIDE DEF nc, L
      <4> QED BY <4>3, <4>5, <4>7, <4>8, <2>2
    <3>2. CASE Later(c, s.seq) = {}
      <4>1. /\ b.checkpointSeq < s.seq
            /\ b.supplyHeight <= s.height
            /\ \A q \in DOMAIN c : q < s.seq
        BY <3>2, <3>t, <3>n, <1>t DEF BookSound, Later
      <4>2. CASE s.height = b.supplyHeight
        <5>1. p \in FirstRun(b)
          <6>1. p \in Since(b)
            BY <4>1 DEF Since
          <6>2. ASSUME NEW x \in Since(b), snaps[x].seq <= snaps[p].seq
                PROVE  snaps[x].height = b.supplyHeight
            <7>1. x \in DOMAIN snaps /\ b.checkpointSeq < snaps[x].seq
              BY DEF Since
            <7>2. b.supplyHeight <= snaps[x].height
              BY <7>1 DEF BookSound
            <7>3. snaps[x].height <= snaps[p].height
              BY <7>1, <6>2, <1>t DEF SnapsOrdered
            <7> QED BY <7>1, <7>2, <7>3, <4>2, <1>t
          <6> QED BY <6>1, <6>2 DEF FirstRun
        <5>2. PICK m \in L : s.seq <= m
          BY <5>1, LastAtIs
        <5>3. m \in Nat /\ m <= snapshotSeq /\ m \notin DOMAIN c
          BY <5>2, <2>3, <4>1, <3>t
        <5>4. \A k \in L : m <= k
          <6>1. ASSUME NEW k \in L PROVE m <= k
            <7>1. PICK x \in FirstRun(b) : k = snaps[x].seq /\ \A y \in FirstRun(b) : snaps[y].seq <= k
              BY LastAtIs
            <7>2. PICK z \in FirstRun(b) : m = snaps[z].seq
              BY <5>2, LastAtIs
            <7> QED BY <7>1, <7>2
          <6> QED BY <6>1
        <5>5. m \in Later(nc, s.seq) /\ \A r \in Later(nc, s.seq) : m <= r
          <6> HIDE DEF nc, L
          <6> QED BY <5>2, <5>3, <5>4, <4>1, <2>2, <3>t, <3>n DEF Later
        <5>6. \A nb : SupplyAt(nb, nc, s) = nc[m]
          <6> HIDE DEF nc, s
          <6> QED BY <3>t, <3>n, <5>5, SupplyAtFirst
        <5>7. SupplyAt(b, c, s) = b.blockStart
          BY <3>2, <4>2 DEF SupplyAt
        <5> HIDE DEF nc, L
        <5> QED BY <5>2, <5>3, <5>5, <5>6, <5>7, <2>2
      <4>3. CASE b.supplyHeight < s.height
        <5>1. \A m \in L : m < s.seq
          <6>1. ASSUME NEW m \in L PROVE m < s.seq
            <7>1. PICK x \in FirstRun(b) : m = snaps[x].seq
              BY LastAtIs
            <7>2. x \in DOMAIN snaps /\ p \in Since(b)
              BY <7>1, <4>1 DEF FirstRun, Since
            <7>3. ~(s.seq <= m)
              BY <7>1, <7>2, <4>3, <3>t, <1>t DEF FirstRun
            <7> QED BY <7>1, <7>2, <7>3, <1>t
          <6> QED BY <6>1
        <5>2. snapshotSeq \notin DOMAIN c \cup L
          BY <5>1, <4>1, <3>t, <1>t
        <5>3. snapshotSeq \in Later(nc, s.seq) /\ \A r \in Later(nc, s.seq) : snapshotSeq <= r
          <6> HIDE DEF nc, L
          <6> QED BY <5>1, <4>1, <2>2, <3>t, <3>n, <1>t DEF Later
        <5>4. \A nb : SupplyAt(nb, nc, s) = nc[snapshotSeq]
          <6> HIDE DEF nc, s
          <6> QED BY <3>t, <3>n, <5>3, SupplyAtFirst
        <5>5. SupplyAt(b, c, s) = b.supply
          BY <3>2, <4>3, <3>t, <1>t DEF SupplyAt
        <5> HIDE DEF nc, L
        <5> QED BY <5>2, <5>3, <5>4, <5>5, <2>2
      <4> QED BY <4>1, <4>2, <4>3, <3>t, <1>t
    <3> QED BY <3>1, <3>2
  <2>7. KeepsSupplies(b, c, nc)
    <3> HIDE DEF nc, L
    <3> QED BY <2>2, <2>5, <2>6 DEF KeepsSupplies
  <2> QED BY <2>7
<1>3. snapshotSeq \in Nat /\ b.checkpointSeq \in Nat
  BY <1>t
<1>4. snapshotSeq <= b.checkpointSeq \/ b.checkpointSeq < snapshotSeq
  BY ONLY <1>3, SMT
<1> QED BY <1>1, <1>2, <1>4, Zenon

\* The book that wrote them knows of no snapshot without one.
LEMMA CheckpointedSound ==
  ASSUME CheckpointsType, SnapsOrdered, NEW b \in Book, NEW c, BookSound(b, c),
         NEW nc, KeepsSupplies(b, c, nc), NEW s \in Nat
  PROVE  /\ CheckpointedBook(b, s) \in Book
         /\ CheckpointedBook(b, s).checkpointSeq = snapshotSeq
         /\ CheckpointedBook(b, s).supplyHeight = height
         /\ \A q \in DOMAIN nc : q <= snapshotSeq
         /\ \A p \in DOMAIN snaps : Later(nc, snaps[p].seq) # {} /\ ~(snapshotSeq < snaps[p].seq)
<1>1. /\ height \in Nat /\ snapshotSeq \in Nat /\ b.checkpointSeq \in Nat
      /\ b.supply \in Nat /\ b.blockStart \in Nat /\ b.checkpointSeq <= snapshotSeq
  BY DEF CheckpointsType, Book, BookSound
<1>2. /\ CheckpointedBook(b, s) \in Book
      /\ CheckpointedBook(b, s).checkpointSeq = snapshotSeq
      /\ CheckpointedBook(b, s).supplyHeight = height
  BY <1>1 DEF CheckpointedBook, Book
<1>3. \A q \in DOMAIN nc : q <= snapshotSeq
  BY <1>1 DEF KeepsSupplies
<1>4. \A p \in DOMAIN snaps : Later(nc, snaps[p].seq) # {} /\ ~(snapshotSeq < snaps[p].seq)
  BY <1>1 DEF KeepsSupplies, SnapsOrdered, CheckpointsType
<1> QED BY <1>2, <1>3, <1>4

\* Deleting checkpoints before a snapshot's seq leaves it what it had.
LEMMA WithoutKeeps ==
  ASSUME NEW c, DOMAIN c \subseteq Nat, NEW Z, NEW s, s.seq \in Nat, \A q \in Z \cap DOMAIN c : q < s.seq
  PROVE  /\ Later(Without(c, Z), s.seq) = Later(c, s.seq)
         /\ \A b : SupplyAt(b, Without(c, Z), s) = SupplyAt(b, c, s)
<1> DEFINE w == Without(c, Z)
<1>1. DOMAIN w = DOMAIN c \ Z /\ \A q \in DOMAIN w : w[q] = c[q]
  BY DEF Without
<1>2. Later(w, s.seq) = Later(c, s.seq)
  <2> HIDE DEF w
  <2> QED BY <1>1 DEF Later
<1>3. ASSUME NEW b PROVE SupplyAt(b, w, s) = SupplyAt(b, c, s)
  <2>1. CASE Later(c, s.seq) = {}
    BY <1>2, <2>1 DEF SupplyAt
  <2>2. CASE Later(c, s.seq) # {}
    <3>1. Later(c, s.seq) \in SUBSET Nat
      BY DEF Later
    <3>2. PICK q \in Later(c, s.seq) : \A r \in Later(c, s.seq) : q <= r
      BY <2>2, <3>1, NatLeast
    <3>3. First(Later(c, s.seq)) = q
      BY <3>1, <3>2, FirstIs
    <3>4. q \in DOMAIN w
      BY <1>2, <3>2 DEF Later
    <3> HIDE DEF w
    <3> QED BY <1>1, <1>2, <2>2, <3>3, <3>4 DEF SupplyAt
  <2> QED BY <2>1, <2>2
<1> QED BY <1>2, <1>3

\* A snapshot's supply is a natural number.
LEMMA SupplyAtNat ==
  ASSUME NEW b \in Book, NEW c, DOMAIN c \subseteq Nat, c \in [DOMAIN c -> Nat],
         NEW s, s.seq \in Nat
  PROVE  SupplyAt(b, c, s) \in Nat
<1>1. CASE Later(c, s.seq) = {}
  BY <1>1 DEF SupplyAt, Book
<1>2. CASE Later(c, s.seq) # {}
  <2>1. Later(c, s.seq) \in SUBSET Nat
    BY DEF Later
  <2>2. PICK q \in Later(c, s.seq) : \A r \in Later(c, s.seq) : q <= r
    BY <1>2, <2>1, NatLeast
  <2>3. SupplyAt(b, c, s) = c[q]
    BY <2>2, SupplyAtFirst
  <2>4. q \in DOMAIN c
    BY <2>2 DEF Later
  <2> QED BY <2>3, <2>4
<1> QED BY <1>1, <1>2

-----------------------------------------------------------------------------
\* The checkpoints hold their invariant at genesis.
LEMMA CheckpointsInitially == CheckpointsInit => CheckpointsInv
<1> SUFFICES ASSUME CheckpointsInit PROVE CheckpointsInv
  OBVIOUS
<1>1. PICK t \in [Validators -> Nat] :
         books = [v \in Validators |-> [NoBook EXCEPT !.supply = t[v]]]
  BY DEF CheckpointsInit
<1>2. \A v \in Validators : books[v] \in Book /\ books[v].checkpointSeq = 0 /\ books[v].supplyHeight = 0
  BY <1>1 DEF NoBook, Book
<1>3. \A v \in Validators : checkpoints[v] = None
  BY DEF CheckpointsInit
<1>4. DOMAIN None = {} /\ None \in [{} -> Nat]
  BY DEF None
<1>5. checkpoints \in [Validators -> UNION {[Q -> Nat] : Q \in SUBSET (1..snapshotSeq)}]
  <2>1. None \in UNION {[Q -> Nat] : Q \in SUBSET (1..snapshotSeq)}
    BY <1>4
  <2> QED BY <2>1 DEF CheckpointsInit
<1>6. books \in [Validators -> Book]
  BY <1>1, <1>2
<1>7. CheckpointsType
  <2>1. snaps \in [DOMAIN snaps -> [seq : Nat, height : Nat, end : Nat]]
    BY DEF CheckpointsInit, None
  <2>2. height \in Nat \ {0} /\ snapshotSeq \in Nat
    BY DEF CheckpointsInit
  <2> QED BY <1>5, <1>6, <2>1, <2>2 DEF CheckpointsType
<1>8. SnapsOrdered
  BY <1>4 DEF SnapsOrdered, CheckpointsInit
<1>9. \A v \in Validators : BookSound(books[v], checkpoints[v])
  BY <1>2, <1>3, <1>4 DEF BookSound, CheckpointsInit
<1> QED BY <1>7, <1>8, <1>9 DEF CheckpointsInv

\* A supply's change keeps the invariant and every snapshot's figures.
LEMMA ChangeSupplyKeeps ==
  ASSUME CheckpointsInv, NEW v \in Validators, NEW s \in Nat, ChangeSupply(v, s)
  PROVE  /\ CheckpointsInv'
         /\ \A p \in DOMAIN snaps, w \in Validators : snapshotSupply(p, w)' = snapshotSupply(p, w)
<1> DEFINE b == books[v]
           c == checkpoints[v]
           nb == CheckpointedBook(b, s)
           nc == WrittenCheckpoints(b, c)
<1>1. CheckpointsType /\ SnapsOrdered /\ \A w \in Validators : BookSound(books[w], checkpoints[w])
  BY DEF CheckpointsInv
<1>2. b \in Book /\ DOMAIN c \subseteq 1..snapshotSeq /\ c \in [DOMAIN c -> Nat] /\ BookSound(b, c)
  BY <1>1, CheckpointsOf
<1>3. KeepsSupplies(b, c, nc)
  <2> HIDE DEF b, c
  <2> QED BY <1>1, <1>2, WrittenKeeps
<1>4. /\ nb \in Book /\ nb.checkpointSeq = snapshotSeq /\ nb.supplyHeight = height
      /\ \A q \in DOMAIN nc : q <= snapshotSeq
      /\ \A p \in DOMAIN snaps : Later(nc, snaps[p].seq) # {} /\ ~(snapshotSeq < snaps[p].seq)
  <2> HIDE DEF b, c, nc
  <2> QED BY <1>1, <1>2, <1>3, CheckpointedSound
<1>5. /\ height' = height /\ snaps' = snaps /\ snapshotSeq' = snapshotSeq
      /\ books' = [books EXCEPT ![v] = nb]
      /\ checkpoints' = [checkpoints EXCEPT ![v] = nc]
  BY DEF ChangeSupply
<1>6. nc \in UNION {[Q -> Nat] : Q \in SUBSET (1..snapshotSeq)}
  BY <1>3 DEF KeepsSupplies
<1>7. /\ \A w \in Validators : books'[w] = IF w = v THEN nb ELSE books[w]
      /\ \A w \in Validators : checkpoints'[w] = IF w = v THEN nc ELSE checkpoints[w]
  <2> HIDE DEF nb, nc
  <2> QED BY <1>1, <1>5 DEF CheckpointsType
<1> HIDE DEF b, c, nb, nc
<1>8. CheckpointsType'
  BY <1>1, <1>4, <1>5, <1>6 DEF CheckpointsType
<1>9. SnapsOrdered'
  BY <1>1, <1>5 DEF SnapsOrdered
<1>10. ASSUME NEW w \in Validators PROVE BookSound(books[w], checkpoints[w])'
  <2>1. CASE w = v
    <3>1. height \in Nat /\ snapshotSeq \in Nat
      BY <1>1 DEF CheckpointsType
    <3> QED BY <2>1, <3>1, <1>4, <1>5, <1>7 DEF BookSound, Later
  <2>2. CASE w # v
    BY <2>2, <1>1, <1>5, <1>7 DEF BookSound, Later
  <2> QED BY <2>1, <2>2
<1>11. ASSUME NEW p \in DOMAIN snaps, NEW w \in Validators
       PROVE  snapshotSupply(p, w)' = snapshotSupply(p, w)
  <2>1. snapshotSupply(p, w)' = SupplyAt(books'[w], checkpoints'[w], snaps[p])
    BY <1>5 DEF snapshotSupply, SupplyAt, First, Later
  <2>2. CASE w = v
    BY <2>1, <2>2, <1>3, <1>7 DEF snapshotSupply, KeepsSupplies, b, c
  <2>3. CASE w # v
    BY <2>1, <2>3, <1>7 DEF snapshotSupply
  <2> QED BY <2>2, <2>3
<1> QED BY <1>8, <1>9, <1>10, <1>11 DEF CheckpointsInv

\* So does taking a snapshot, whose own figures are the block's start.
LEMMA TakeSnapshotKeeps ==
  ASSUME CheckpointsInv, NEW p, NEW end \in Nat, TakeSnapshot(p, end)
  PROVE  /\ CheckpointsInv'
         /\ \A q \in DOMAIN snaps, w \in Validators : snapshotSupply(q, w)' = snapshotSupply(q, w)
         /\ \A w \in Validators : snapshotSupply(p, w)' = Starts[w]
<1>1. CheckpointsType /\ SnapsOrdered /\ \A w \in Validators : BookSound(books[w], checkpoints[w])
  BY DEF CheckpointsInv
<1>2. /\ height' = height /\ books' = books /\ checkpoints' = checkpoints
      /\ snapshotSeq' = snapshotSeq + 1
      /\ p \notin DOMAIN snaps
      /\ DOMAIN snaps' = DOMAIN snaps \cup {p}
      /\ \A q \in DOMAIN snaps : snaps'[q] = snaps[q]
      /\ snaps'[p] = [seq |-> snapshotSeq + 1, height |-> height, end |-> end]
      /\ snaps' = [q \in DOMAIN snaps' |-> snaps'[q]]
  BY DEF TakeSnapshot
<1>3. height \in Nat /\ height # 0 /\ snapshotSeq \in Nat
      /\ \A q \in DOMAIN snaps : snaps[q] \in [seq : Nat, height : Nat, end : Nat]
  BY <1>1 DEF CheckpointsType
<1>4. CheckpointsType'
  <2>1. snaps' \in [DOMAIN snaps' -> [seq : Nat, height : Nat, end : Nat]]
    <3>1. \A q \in DOMAIN snaps' : snaps'[q] \in [seq : Nat, height : Nat, end : Nat]
      BY <1>2, <1>3
    <3> QED BY <3>1, <1>2
  <2>2. checkpoints' \in [Validators -> UNION {[Q -> Nat] : Q \in SUBSET (1..snapshotSeq')}]
    <3>1. 1..snapshotSeq \subseteq 1..snapshotSeq'
      BY <1>2, <1>3
    <3>2. UNION {[Q -> Nat] : Q \in SUBSET (1..snapshotSeq)}
            \subseteq UNION {[Q -> Nat] : Q \in SUBSET (1..snapshotSeq')}
      BY <3>1, Zenon
    <3> QED BY <3>2, <1>1, <1>2 DEF CheckpointsType
  <2> QED BY <2>1, <2>2, <1>1, <1>2, <1>3 DEF CheckpointsType
<1>5. SnapsOrdered'
  BY <1>1, <1>2, <1>3 DEF SnapsOrdered
<1>6. ASSUME NEW w \in Validators
      PROVE  /\ BookSound(books[w], checkpoints[w])'
             /\ Later(checkpoints[w], snapshotSeq + 1) = {}
  <2>1. /\ DOMAIN checkpoints[w] \subseteq 1..snapshotSeq
        /\ books[w].checkpointSeq \in Nat /\ books[w].supplyHeight \in Nat
    BY <1>1, CheckpointsOf DEF Book
  <2>2. Later(checkpoints[w], snapshotSeq + 1) = {}
    BY <2>1, <1>3 DEF Later
  <2>3. BookSound(books[w], checkpoints[w])
    BY <1>1
  <2> QED BY <2>1, <2>2, <2>3, <1>2, <1>3 DEF BookSound, Later
<1>7. ASSUME NEW q \in DOMAIN snaps, NEW w \in Validators
      PROVE  snapshotSupply(q, w)' = snapshotSupply(q, w)
  <2>1. snapshotSupply(q, w)' = SupplyAt(books[w], checkpoints[w], snaps'[q])
    BY <1>2 DEF snapshotSupply, SupplyAt, First, Later
  <2> QED BY <1>2, <2>1 DEF snapshotSupply
<1>8. ASSUME NEW w \in Validators PROVE snapshotSupply(p, w)' = Starts[w]
  <2>1. Later(checkpoints[w], snapshotSeq + 1) = {}
    BY <1>6
  <2>2. snapshotSupply(p, w)' = SupplyAt(books[w], checkpoints[w], snaps'[p])
    BY <1>2 DEF snapshotSupply, SupplyAt, First, Later
  <2> QED BY <1>2, <2>1, <2>2 DEF SupplyAt, Starts
<1> QED BY <1>4, <1>5, <1>6, <1>7, <1>8 DEF CheckpointsInv

\* A block's end keeps the invariant, and every figure that is left but those
\* of a removed book.
LEMMA CloseBlockKeeps ==
  ASSUME CheckpointsInv,
         NEW W \in SUBSET Validators, NEW emptied \in SUBSET Validators,
         NEW O \in SUBSET DOMAIN snaps, NEW retired \in [W -> Nat], NEW open \in [O -> Nat],
         CloseBlock(retired, emptied, open)
  PROVE  /\ CheckpointsInv'
         /\ \A v \in Validators : books'[v].supply \in Nat /\ books'[v].supplyHeight # height'
         /\ DOMAIN snaps' \subseteq DOMAIN snaps
         /\ \A p \in DOMAIN snaps', v \in Validators :
               /\ snapshotSupply(p, v)' \in Nat
               /\ \/ snapshotSupply(p, v)' = snapshotSupply(p, v)
                  \/ books'[v].supply = 0 /\ snapshotSupply(p, v)' = 0
<1>1. CheckpointsType /\ SnapsOrdered /\ \A w \in Validators : BookSound(books[w], checkpoints[w])
  BY DEF CheckpointsInv
<1>2. /\ height \in Nat /\ height # 0 /\ snapshotSeq \in Nat
      /\ \A q \in DOMAIN snaps : snaps[q] \in [seq : Nat, height : Nat, end : Nat]
  BY <1>1 DEF CheckpointsType
<1>3. height' = height + 1 /\ snapshotSeq' = snapshotSeq
  BY DEF CloseBlock
<1>4. /\ DOMAIN snaps' = O
      /\ \A p \in O : /\ snaps'[p] \in [seq : Nat, height : Nat, end : Nat]
                      /\ snaps'[p].seq = snaps[p].seq /\ snaps'[p].height = snaps[p].height
      /\ snaps' = [p \in DOMAIN snaps' |-> snaps'[p]]
  <2>1. snaps' = [p \in O |-> [snaps[p] EXCEPT !.end = open[p]]]
    BY DEF CloseBlock
  <2>2. \A p \in O : open[p] \in Nat /\ snaps[p] \in [seq : Nat, height : Nat, end : Nat]
    BY <1>2
  <2> QED BY <2>1, <2>2
<1>5. SnapsOrdered'
  BY <1>1, <1>2, <1>3, <1>4 DEF SnapsOrdered
<1>6. ASSUME NEW v \in Validators
      PROVE  /\ books'[v] \in Book /\ books'[v].supplyHeight # height'
             /\ checkpoints'[v] \in UNION {[Q -> Nat] : Q \in SUBSET (1..snapshotSeq)}
             /\ BookSound(books[v], checkpoints[v])'
             /\ \A p \in O : /\ snapshotSupply(p, v)' \in Nat
                             /\ \/ snapshotSupply(p, v)' = snapshotSupply(p, v)
                                \/ books'[v].supply = 0 /\ snapshotSupply(p, v)' = 0
  <2> DEFINE b == books[v]
             c == checkpoints[v]
             Z == {q \in DOMAIN c : <<q, v>> \in Pruned}
             nc == IF v \in W THEN WrittenCheckpoints(b, c) ELSE c
             nb == IF v \in emptied THEN NoBook
                   ELSE IF v \in W THEN CheckpointedBook(b, retired[v]) ELSE b
  <2>1. b \in Book /\ DOMAIN c \subseteq 1..snapshotSeq /\ c \in [DOMAIN c -> Nat] /\ BookSound(b, c)
    BY <1>1, CheckpointsOf
  <2>2. books'[v] = nb /\ checkpoints'[v] = Without(nc, Z)
    BY DEF CloseBlock
  <2>3. \A q \in Z, p \in DOMAIN snaps : q < snaps[p].seq
    BY DEF Pruned, Unneeded
  <2>4. v \in W => KeepsSupplies(b, c, nc)
    <3> HIDE DEF b, c
    <3> QED BY <1>1, <2>1, WrittenKeeps
  <2>5. /\ DOMAIN nc \subseteq 1..snapshotSeq /\ DOMAIN nc \subseteq Nat /\ nc \in [DOMAIN nc -> Nat]
    <3>1. CASE v \in W
      <4> HIDE DEF nc
      <4> QED BY <3>1, <2>4, <1>2 DEF KeepsSupplies
    <3>2. CASE v \notin W
      BY SMTT(40), <3>2, <2>1, <1>2
    <3> QED BY <3>1, <3>2
  <2>6. /\ nb \in Book /\ nb.supplyHeight <= height /\ nb.checkpointSeq <= snapshotSeq
        /\ nb.supplyHeight # 0 => \A q \in DOMAIN nc : q <= nb.checkpointSeq
        /\ \A p \in DOMAIN snaps :
              /\ Later(nc, snaps[p].seq) = {} => nb.checkpointSeq < snaps[p].seq
              /\ nb.checkpointSeq < snaps[p].seq => nb.supplyHeight <= snaps[p].height
    <3>1. CASE v \in emptied
      <4>1. nb = NoBook
        BY <3>1
      <4>2. NoBook \in Book /\ NoBook.supplyHeight = 0 /\ NoBook.checkpointSeq = 0
        BY DEF NoBook, Book
      <4> HIDE DEF nb, nc
      <4> QED BY SMTT(40), <4>1, <4>2, <1>1, <1>2 DEF SnapsOrdered
    <3>2. CASE v \notin emptied /\ v \in W
      <4>1. nb = CheckpointedBook(b, retired[v]) /\ retired[v] \in Nat
        BY <3>2
      <4>2. /\ nb \in Book /\ nb.checkpointSeq = snapshotSeq /\ nb.supplyHeight = height
            /\ \A q \in DOMAIN nc : q <= snapshotSeq
            /\ \A p \in DOMAIN snaps : Later(nc, snaps[p].seq) # {} /\ ~(snapshotSeq < snaps[p].seq)
        <5> HIDE DEF nb, nc, b, c
        <5> QED BY <3>2, <4>1, <1>1, <2>1, <2>4, CheckpointedSound
      <4> HIDE DEF nb, nc
      <4> QED BY <4>2, <1>2
    <3>3. CASE v \notin emptied /\ v \notin W
      <4>1. nb = b /\ nc = c
        BY <3>3
      <4> HIDE DEF nb, nc, b, c
      <4> QED BY <4>1, <2>1 DEF BookSound
    <3> QED BY SMTT(40), <3>1, <3>2, <3>3
  <2>7. ASSUME NEW p \in O
        PROVE  /\ Later(Without(nc, Z), snaps[p].seq) = Later(nc, snaps[p].seq)
               /\ \A d : SupplyAt(d, Without(nc, Z), snaps[p]) = SupplyAt(d, nc, snaps[p])
    <3>1. snaps[p].seq \in Nat /\ \A q \in Z \cap DOMAIN nc : q < snaps[p].seq
      <4> HIDE DEF Z, nc
      <4> QED BY <2>3, <1>2
    <3> HIDE DEF Z, nc
    <3> QED BY <3>1, <2>5, WithoutKeeps
  <2>8. DOMAIN Without(nc, Z) \subseteq DOMAIN nc /\ Without(nc, Z) \in [DOMAIN Without(nc, Z) -> Nat]
    <3> HIDE DEF Z, nc
    <3> QED BY <2>5 DEF Without
  <2>9. Without(nc, Z) \in UNION {[Q -> Nat] : Q \in SUBSET (1..snapshotSeq)}
    <3> HIDE DEF Z, nc
    <3> QED BY <2>5, <2>8
  <2>10. BookSound(books[v], checkpoints[v])'
    <3>1. BookSound(books[v], checkpoints[v])' =
            /\ nb.checkpointSeq <= snapshotSeq' /\ nb.supplyHeight <= height'
            /\ nb.supplyHeight # 0 => \A q \in DOMAIN Without(nc, Z) : q <= nb.checkpointSeq
            /\ \A p \in DOMAIN snaps' :
                  /\ Later(Without(nc, Z), snaps'[p].seq) = {} => nb.checkpointSeq < snaps'[p].seq
                  /\ nb.checkpointSeq < snaps'[p].seq => nb.supplyHeight <= snaps'[p].height
      <4> HIDE DEF nb, nc, Z
      <4> QED BY <2>2 DEF BookSound, Later
    <3>2. nb.supplyHeight \in Nat
      <4> HIDE DEF nb, nc
      <4> QED BY <2>6 DEF Book
    <3> HIDE DEF nb, nc, Z
    <3> QED BY <3>1, <3>2, <2>6, <2>7, <2>8, <1>2, <1>3, <1>4
  <2>11. ASSUME NEW p \in O
         PROVE  /\ snapshotSupply(p, v)' \in Nat
                /\ \/ snapshotSupply(p, v)' = snapshotSupply(p, v)
                   \/ nb.supply = 0 /\ snapshotSupply(p, v)' = 0
    <3> DEFINE s == snaps[p]
    <3>1. snapshotSupply(p, v)' = SupplyAt(nb, nc, s)
      <4>1. snapshotSupply(p, v)' = SupplyAt(nb, Without(nc, Z), snaps'[p])
        <5> HIDE DEF nb, nc, Z
        <5> QED BY <2>2 DEF snapshotSupply, SupplyAt, First, Later
      <4>2. SupplyAt(nb, Without(nc, Z), snaps'[p]) = SupplyAt(nb, Without(nc, Z), s)
        <5> HIDE DEF nb, nc, Z
        <5> QED BY <1>4 DEF SupplyAt
      <4> HIDE DEF nb, nc, Z
      <4> QED BY <4>1, <4>2, <2>7
    <3>2. SupplyAt(nb, nc, s) \in Nat
      <4>1. s.seq \in Nat
        BY <1>2
      <4> HIDE DEF nb, nc, s
      <4> QED BY <4>1, <2>5, <2>6, SupplyAtNat
    <3>3. \/ SupplyAt(nb, nc, s) = SupplyAt(b, c, s)
          \/ nb.supply = 0 /\ SupplyAt(nb, nc, s) = 0
      <4>1. CASE v \in W
        <5> HIDE DEF nb, nc, b, c
        <5> QED BY <4>1, <2>4 DEF KeepsSupplies
      <4>2. CASE v \notin W /\ v \notin emptied
        BY <4>2
      <4>3. CASE v \notin W /\ v \in emptied
        <5>1. nb = NoBook /\ nc = c
          BY <4>3
        <5>2. NoBook.supply = 0 /\ NoBook.blockStart = 0
          BY DEF NoBook
        <5> HIDE DEF nb, nc, b, c
        <5> QED BY <5>1, <5>2 DEF SupplyAt
      <4> QED BY <4>1, <4>2, <4>3
    <3>4. snapshotSupply(p, v) = SupplyAt(b, c, s)
      BY DEF snapshotSupply
    <3> HIDE DEF nb, nc, b, c, s
    <3> QED BY <3>1, <3>2, <3>3, <3>4
  <2>12. nb.supplyHeight # height'
    <3> HIDE DEF nb, nc
    <3> QED BY <2>6, <1>2, <1>3 DEF Book
  <2> HIDE DEF nb, nc, Z
  <2> QED BY <2>2, <2>6, <2>9, <2>10, <2>11, <2>12
<1>7. CheckpointsType'
  <2>1. books' \in [Validators -> Book]
    <3>1. books' = [v \in Validators |-> books'[v]]
      BY DEF CloseBlock
    <3> QED BY <3>1, <1>6
  <2>2. checkpoints' \in [Validators -> UNION {[Q -> Nat] : Q \in SUBSET (1..snapshotSeq')}]
    <3>1. checkpoints' = [v \in Validators |-> checkpoints'[v]]
      BY DEF CloseBlock
    <3> QED BY <3>1, <1>6, <1>3
  <2>3. snaps' \in [DOMAIN snaps' -> [seq : Nat, height : Nat, end : Nat]]
    BY <1>4
  <2> QED BY <2>1, <2>2, <2>3, <1>2, <1>3 DEF CheckpointsType
<1>8. CheckpointsInv'
  BY <1>5, <1>6, <1>7 DEF CheckpointsInv
<1> QED BY <1>4, <1>6, <1>8 DEF Book

-----------------------------------------------------------------------------
\* Every step keeps the invariant.
LEMMA CheckpointsStep == CheckpointsInv /\ [CheckpointsNext]_checkpointVars => CheckpointsInv'
<1> SUFFICES ASSUME CheckpointsInv, [CheckpointsNext]_checkpointVars PROVE CheckpointsInv'
  OBVIOUS
<1>1. ASSUME NEW v \in Validators, NEW s \in Nat, ChangeSupply(v, s) PROVE CheckpointsInv'
  BY <1>1, ChangeSupplyKeeps
<1>2. ASSUME NEW p \in Proposals, NEW end \in Nat, TakeSnapshot(p, end) PROVE CheckpointsInv'
  BY <1>2, TakeSnapshotKeeps
<1>3. ASSUME NEW W \in SUBSET Validators, NEW emptied \in SUBSET Validators,
             NEW O \in SUBSET DOMAIN snaps, NEW retired \in [W -> Nat], NEW open \in [O -> Nat],
             CloseBlock(retired, emptied, open)
      PROVE  CheckpointsInv'
  BY <1>3, CloseBlockKeeps
<1>4. CASE UNCHANGED checkpointVars
  BY <1>4 DEF checkpointVars, CheckpointsInv, CheckpointsType, SnapsOrdered, BookSound, Later
<1> QED BY Zenon, <1>1, <1>2, <1>3, <1>4 DEF CheckpointsNext

(* The bookkeeping behind the checkpoints (checkpointSupply, snapshotProposal
   and pruneCheckpoints of votes.go) holds in every reachable state: sequence
   numbers follow the heights, and a book with no checkpoint for an open
   snapshot has not changed since the snapshot's block. *)
THEOREM CheckpointsInvariant == CheckpointsSpec => []CheckpointsInv
BY CheckpointsInitially, CheckpointsStep, PTL DEF CheckpointsSpec

\* The initial states of the checkpoints are initial states of the snapshots.
LEMMA EagerInitially == CheckpointsInit => Eager!Init
<1> SUFFICES ASSUME CheckpointsInit PROVE Eager!Init
  OBVIOUS
<1>1. PICK t \in [Validators -> Nat] :
         books = [v \in Validators |-> [NoBook EXCEPT !.supply = t[v]]]
  BY DEF CheckpointsInit
<1>2. \A v \in Validators : books[v].supply = t[v] /\ books[v].supplyHeight = 0
  BY <1>1 DEF NoBook
<1>3. Supplies \in [Validators -> Nat]
  BY <1>2 DEF Supplies
<1>4. Starts = Supplies
  <2>1. \A v \in Validators : books[v].supplyHeight # height
    BY <1>2 DEF CheckpointsInit
  <2> QED BY <2>1 DEF Starts, Supplies
<1>5. Figures = [p \in {} |-> 0]
  BY DEF Figures, CheckpointsInit, None
<1> QED BY <1>3, <1>4, <1>5 DEF Eager!Init

\* Every step of the checkpoints is a step of the snapshots, or none.
LEMMA EagerStep ==
  CheckpointsInv /\ [CheckpointsNext]_checkpointVars => [Eager!Next]_(Eager!vars)
<1> SUFFICES ASSUME CheckpointsInv, [CheckpointsNext]_checkpointVars
             PROVE  [Eager!Next]_(Eager!vars)
  OBVIOUS
<1>t. CheckpointsType
  BY DEF CheckpointsInv
<1>1. ASSUME NEW v \in Validators, NEW s \in Nat, ChangeSupply(v, s) PROVE Eager!Change(v)
  <2>1. \A w \in Validators : books'[w] = IF w = v THEN CheckpointedBook(books[v], s) ELSE books[w]
    BY <1>1, <1>t DEF ChangeSupply, CheckpointsType
  <2>2. height' = height /\ DOMAIN snaps' = DOMAIN snaps
    BY <1>1 DEF ChangeSupply
  <2>3. Supplies' = [Supplies EXCEPT ![v] = s] /\ Supplies'[v] = s
    <3>1. CheckpointedBook(books[v], s).supply = s
      BY DEF CheckpointedBook
    <3>2. \A w \in Validators : books'[w].supply = IF w = v THEN s ELSE books[w].supply
      BY <2>1, <3>1
    <3>3. Supplies' = [w \in Validators |-> IF w = v THEN s ELSE books[w].supply]
      BY <3>2 DEF Supplies
    <3> QED BY Zenon, <3>3 DEF Supplies
  <2>4. Starts' = Starts
    BY <2>1, <2>2 DEF Starts, CheckpointedBook
  <2>5. \A p \in DOMAIN snaps, w \in Validators : snapshotSupply(p, w)' = snapshotSupply(p, w)
    BY <1>1, ChangeSupplyKeeps
  <2>6. Figures' = Figures
    BY <2>2, <2>5 DEF Figures
  <2> QED BY Zenon, <2>3, <2>4, <2>6 DEF Eager!Change
<1>2. ASSUME NEW p \in Proposals, NEW end \in Nat, TakeSnapshot(p, end) PROVE Eager!Take(p)
  <2>1. /\ height' = height /\ books' = books /\ p \notin DOMAIN snaps
        /\ DOMAIN snaps' = DOMAIN snaps \cup {p}
    BY <1>2 DEF TakeSnapshot
  <2>2. Supplies' = Supplies /\ Starts' = Starts
    BY <2>1 DEF Supplies, Starts
  <2>3. /\ \A q \in DOMAIN snaps, w \in Validators : snapshotSupply(q, w)' = snapshotSupply(q, w)
        /\ \A w \in Validators : snapshotSupply(p, w)' = Starts[w]
    BY <1>2, TakeSnapshotKeeps
  <2>4. Starts = [w \in Validators |-> Starts[w]]
    BY DEF Starts
  <2>5. Figures' = [q \in DOMAIN Figures \cup {p} |-> IF q = p THEN Starts ELSE Figures[q]]
    <3>1. Figures' = [q \in DOMAIN snaps \cup {p} |-> [w \in Validators |-> snapshotSupply(q, w)']]
      BY <2>1 DEF Figures
    <3>2. DOMAIN Figures = DOMAIN snaps
          /\ \A q \in DOMAIN snaps : Figures[q] = [w \in Validators |-> snapshotSupply(q, w)]
      BY DEF Figures
    <3>3. \A q \in DOMAIN snaps : [w \in Validators |-> snapshotSupply(q, w)'] = Figures[q]
      BY <2>3, <3>2
    <3>4. [w \in Validators |-> snapshotSupply(p, w)'] = Starts
      BY <2>3, <2>4
    <3> QED BY <3>1, <3>2, <3>3, <3>4, <2>1
  <2>6. p \notin DOMAIN Figures
    BY <2>1 DEF Figures
  <2> QED BY <2>2, <2>5, <2>6 DEF Eager!Take
<1>3. ASSUME NEW W \in SUBSET Validators, NEW emptied \in SUBSET Validators,
             NEW O \in SUBSET DOMAIN snaps, NEW retired \in [W -> Nat], NEW open \in [O -> Nat],
             CloseBlock(retired, emptied, open)
      PROVE  Eager!EndBlock
  <2>1. /\ \A v \in Validators : books'[v].supply \in Nat /\ books'[v].supplyHeight # height'
        /\ DOMAIN snaps' \subseteq DOMAIN snaps
        /\ \A p \in DOMAIN snaps', v \in Validators :
              /\ snapshotSupply(p, v)' \in Nat
              /\ \/ snapshotSupply(p, v)' = snapshotSupply(p, v)
                 \/ books'[v].supply = 0 /\ snapshotSupply(p, v)' = 0
    BY <1>3, CloseBlockKeeps
  <2>2. Supplies' \in [Validators -> Nat] /\ Starts' = Supplies'
    BY <2>1 DEF Supplies, Starts
  <2>3. /\ DOMAIN Figures = DOMAIN snaps /\ DOMAIN Figures' = DOMAIN snaps'
        /\ \A p \in DOMAIN snaps, v \in Validators : Figures[p][v] = snapshotSupply(p, v)
        /\ \A p \in DOMAIN snaps', v \in Validators : Figures'[p][v] = snapshotSupply(p, v)'
    BY DEF Figures
  <2>4. Figures' \in [DOMAIN Figures' -> [Validators -> Nat]]
    <3>1. \A p \in DOMAIN snaps' : [v \in Validators |-> snapshotSupply(p, v)'] \in [Validators -> Nat]
      BY <2>1
    <3>2. Figures' = [p \in DOMAIN snaps' |-> [v \in Validators |-> snapshotSupply(p, v)']]
      BY DEF Figures
    <3> QED BY <3>1, <3>2
  <2>5. \A v \in Validators : Supplies'[v] = books'[v].supply
    BY DEF Supplies
  <2>6. ASSUME NEW p \in DOMAIN Figures', NEW v \in Validators PROVE Eager!Carried(p, v)
    BY <2>1, <2>3, <2>5 DEF Eager!Carried
  <2> QED BY <2>1, <2>2, <2>3, <2>4, <2>6 DEF Eager!EndBlock
<1>4. CASE UNCHANGED checkpointVars
  <2>1. Supplies' = Supplies /\ Starts' = Starts
    BY <1>4 DEF checkpointVars, Supplies, Starts
  <2>2. Figures' = Figures
    BY <1>4 DEF checkpointVars, Figures, snapshotSupply, SupplyAt, First, Later
  <2> QED BY <2>1, <2>2 DEF Eager!vars
<1> QED BY SMTT(40), <1>1, <1>2, <1>3, <1>4 DEF CheckpointsNext, Eager!Next

(* The checkpoints implement the snapshots that votes.go promises: whatever
   supplies change, blocks end, snapshots open and close and checkpoints are
   pruned, snapshotSupply reads back the supply the snapshot's block began
   with, but for a book removed with no derth left. *)
THEOREM CheckpointsExact == CheckpointsSpec => SnapshotsExact
<1>1. CheckpointsInv /\ [CheckpointsNext]_checkpointVars => CheckpointsInv'
  BY CheckpointsStep
<1> QED BY <1>1, CheckpointsInitially, EagerInitially, EagerStep, PTL
      DEF CheckpointsSpec, SnapshotsExact, Eager!Spec
=============================================================================
