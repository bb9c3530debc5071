---------------------------- MODULE StoreProofs -----------------------------
(***************************************************************************)
(* Facts about the table of blocks, for every block tree: what a row that  *)
(* add_block may write does to the shape of the branches, and what it      *)
(* means for branch 0 that a block lies on it.  The proofs of the modules  *)
(* that write to the table (Blockchain, Node, Synchronize) rest on them.   *)
(***************************************************************************)
EXTENDS StorePromises, DataTheorems

\* The column branch holds branch numbers.
TableTyped == branchOf \in [Blocks -> Nat \cup {Absent}]

\* b may enter on branch n: the constraints hold, n is its predecessor's branch
\* or, next to a rival on that one, unused; and the tallest block is on 0.
MayEnter(b, n) ==
    /\ b \in Blocks \ {Genesis}
    /\ n \in Nat
    /\ Prev[b] \in Stored
    /\ ~Clash(b, n)
    /\ \/ n = branchOf[Prev[b]]
       \/ OnBranch(n) = {} /\ branchOf[Prev[b]] \in BranchesByPrevhash(Prev[b])
    /\ AboveMaxHeight(b) => n = 0

\* What INSERT does to the column branch.
AddsRow(b, n) == branchOf' = [branchOf EXCEPT ![b] = n]

\* A block other than Genesis has its height from its predecessor.
LEMMA HeightOfChild ==
    ASSUME NEW b \in Blocks
    PROVE  /\ Height[b] \in Nat
           /\ Height[b] >= 1
           /\ b # Genesis =>
                /\ Prev[b] \in Blocks
                /\ Height[b] = Height[Prev[b]] + 1
                /\ Height[b] > 1
BY BlockTreeAssumption

\* The rows have branch numbers.
LEMMA RowsAreOnBranches ==
    ASSUME TableTyped
    PROVE  /\ \A c \in Stored : /\ c \in Blocks /\ Height[c] \in Nat
                                /\ branchOf[c] \in Nat
                                /\ c \in OnBranch(branchOf[c])
           /\ \A m \in Nat : \A c \in OnBranch(m) : c \in Stored /\ branchOf[c] = m
BY HeightOfChild DEF TableTyped, Stored, OnBranch, Absent

\* A fresh or a seeded table.
LEMMA ShapeOfNewTable ==
    ASSUME EmptyOrSeeded
    PROVE  TableTyped /\ StoreShape /\ BranchSpendsOnce /\ Stored \subseteq {Genesis}
<1> PICK seeded \in {{}, {Genesis}} :
        branchOf = [b \in Blocks |-> IF b \in seeded THEN 0 ELSE Absent]
  BY DEF EmptyOrSeeded
<1>0. /\ \A b \in Blocks : branchOf[b] = IF b \in seeded THEN 0 ELSE Absent
      /\ seeded \subseteq Blocks
      /\ Absent # 0
  BY BlockTreeAssumption DEF Absent
<1>1. Stored = seeded
  BY <1>0 DEF Stored
<1>2. TableTyped
  BY DEF TableTyped
<1>3. \A b \in Stored : b = Genesis /\ branchOf[b] = 0 /\ Height[b] = 1
  BY <1>1, BlockTreeAssumption
<1>4. Stored # {} => Genesis \in OnBranch(0)
  BY <1>1, BlockTreeAssumption DEF OnBranch
<1>5. BranchIsPath /\ FirstChildContinues /\ RootIsLowest /\ BranchSpendsOnce
  BY <1>3 DEF BranchIsPath, FirstChildContinues, RootIsLowest, BranchSpendsOnce
<1>6. PrimaryIsTallest /\ GenesisIsPrimary
  BY <1>3, <1>4, BlockTreeAssumption
     DEF PrimaryIsTallest, GenesisIsPrimary, OnBranch
<1>7. NoGap
  <2> SUFFICES ASSUME NEW a \in Stored, NEW c \in Stored, NEW h \in Height[a] .. Height[c]
               PROVE  \E d \in OnBranch(branchOf[a]) : Height[d] = h
    BY DEF NoGap
  <2>1. h = 1 /\ a \in OnBranch(branchOf[a]) /\ Height[a] = 1
    BY <1>3 DEF OnBranch, Stored
  <2> QED
    BY <2>1
<1> QED
  BY <1>1, <1>2, <1>5, <1>6, <1>7 DEF StoreShape

\* Who leaves the table alone leaves its shape alone.
LEMMA ShapeUnchanged ==
    ASSUME UNCHANGED branchOf
    PROVE  /\ TableTyped => TableTyped'
           /\ StoreShape => StoreShape'
           /\ BranchSpendsOnce => BranchSpendsOnce'
           /\ Stored' = Stored
           /\ \A n : OnBranch(n)' = OnBranch(n)
           /\ \A b : BranchesByPrevhash(b)' = BranchesByPrevhash(b)
           /\ \A b : AboveMaxHeight(b)' <=> AboveMaxHeight(b)
BY DEF TableTyped, StoreShape, BranchIsPath, PrimaryIsTallest, FirstChildContinues,
       RootIsLowest, NoGap, GenesisIsPrimary, BranchSpendsOnce, Stored, OnBranch,
       BranchesByPrevhash, AboveMaxHeight

------------------------------------------------------------------------------
(* One row more *)

\* A block that may enter on branch n is higher than all of branch n: the
\* UNIQUE (prevHash, branch) constraint is what keeps a branch a path.
LEMMA RowGoesOnTop ==
    ASSUME TableTyped, StoreShape, NEW b, NEW n, MayEnter(b, n)
    PROVE  /\ b \notin Stored
           /\ \A c \in OnBranch(n) : Height[c] < Height[b]
<1>1. b \in Blocks \ {Genesis} /\ Prev[b] \in Stored /\ n \in Nat
  BY DEF MayEnter
<1>2. b \notin Stored /\ \A c \in OnBranch(n) : Prev[c] # Prev[b]
  BY DEF MayEnter, Clash
<1>3. CASE n = branchOf[Prev[b]]
  <2> DEFINE a == Prev[b]
  <2>1. a \in OnBranch(n) /\ a \in Blocks /\ Height[b] = Height[a] + 1
    BY <1>1, <1>3, HeightOfChild DEF OnBranch, Stored
  <2>2. ASSUME NEW c \in OnBranch(n), ~(Height[c] < Height[b])
        PROVE  FALSE
    <3>1. Height[a] \in Nat /\ Height[c] \in Nat /\ Height[b] \in Nat
      BY <2>1, <1>1, HeightOfChild DEF OnBranch
    <3>2. Height[b] \in Height[a] .. Height[c]
      BY <3>1, <2>1, <2>2
    <3>3. a \in Stored /\ c \in Stored /\ branchOf[a] = n /\ branchOf[c] = n
      BY <2>1, <1>1 DEF OnBranch, Stored
    <3>4. PICK d \in OnBranch(n) : Height[d] = Height[b]
      BY <3>2, <3>3 DEF StoreShape, NoGap
    <3>5. d \in Stored /\ branchOf[d] = n /\ d \in Blocks
      BY <3>3, <3>4 DEF OnBranch, Stored
    <3>6. /\ d # Genesis
          /\ Prev[d] \in Blocks
          /\ Height[d] = Height[Prev[d]] + 1
          /\ Height[Prev[d]] \in Nat
      BY <3>4, <3>5, <1>1, HeightOfChild, BlockTreeAssumption
    <3>7. Prev[d] \in Stored
      BY <3>5, <3>6 DEF StoreShape, FirstChildContinues
    <3>8. CASE branchOf[d] = branchOf[Prev[d]]
      <4>1. Height[Prev[d]] = Height[a]
        <5>1. Height[Prev[d]] + 1 = Height[a] + 1
          BY <3>4, <3>6, <2>1
        <5> QED
          BY <5>1, <3>1, <3>6
      <4>2. Prev[d] = a
        BY <4>1, <3>3, <3>5, <3>7, <3>8 DEF StoreShape, BranchIsPath
      <4> QED
        BY <4>2, <3>4, <1>2
    <3>9. CASE branchOf[d] # branchOf[Prev[d]]
      <4>1. d # a
        BY <3>1, <3>4, <2>1
      <4>2. Height[d] < Height[a]
        BY <4>1, <3>5, <3>6, <3>9, <2>1 DEF StoreShape, RootIsLowest
      <4> QED
        BY <4>2, <3>1, <3>4, <2>1
    <3> QED
      BY <3>8, <3>9
  <2> QED
    BY <1>2, <2>2
<1> QED
  BY <1>2, <1>3 DEF MayEnter

\* What such a row does to the table.
LEMMA RowAdded ==
    ASSUME TableTyped, NEW b, NEW n, MayEnter(b, n), AddsRow(b, n)
    PROVE  /\ TableTyped'
           /\ Stored' = Stored \cup {b}
           /\ \A c \in Stored : branchOf'[c] = branchOf[c]
           /\ branchOf'[b] = n
           /\ \A m \in Nat :
                OnBranch(m)' = IF m = n THEN OnBranch(m) \cup {b} ELSE OnBranch(m)
<1>1. b \in Blocks /\ b \notin Stored /\ n \in Nat
  BY DEF MayEnter, Clash
<1>2. branchOf[b] = Absent /\ Absent \notin Nat
  BY <1>1 DEF Stored, Absent
<1>3. /\ \A c \in Blocks : branchOf'[c] = IF c = b THEN n ELSE branchOf[c]
      /\ TableTyped'
  BY <1>1 DEF TableTyped, AddsRow
<1>4. Stored' = Stored \cup {b}
  BY <1>1, <1>2, <1>3 DEF Stored
<1>5. ASSUME NEW m \in Nat
      PROVE  OnBranch(m)' = IF m = n THEN OnBranch(m) \cup {b} ELSE OnBranch(m)
  BY <1>1, <1>2, <1>3 DEF OnBranch
<1> QED
  BY <1>1, <1>3, <1>4, <1>5 DEF Stored, TableTyped

\* Every branch remains a path without gaps, and branch 0 the tallest one.
LEMMA ShapeKeptByRow ==
    ASSUME TableTyped, StoreShape, NEW b, NEW n, MayEnter(b, n), AddsRow(b, n)
    PROVE  StoreShape'
<1>1. /\ b \in Blocks \ {Genesis}
      /\ b \notin Stored
      /\ Prev[b] \in Stored
      /\ n \in Nat
      /\ \A c \in OnBranch(n) : Height[c] < Height[b]
  BY RowGoesOnTop DEF MayEnter
<1>2. /\ Stored' = Stored \cup {b}
      /\ \A c \in Stored : branchOf'[c] = branchOf[c]
      /\ branchOf'[b] = n
      /\ \A m \in Nat :
            OnBranch(m)' = IF m = n THEN OnBranch(m) \cup {b} ELSE OnBranch(m)
  BY RowAdded
<1>3. /\ Height[b] \in Nat
      /\ Prev[b] \in Blocks
      /\ Height[b] = Height[Prev[b]] + 1
      /\ \A c \in Stored : c \in Blocks /\ Height[c] \in Nat /\ branchOf[c] \in Nat
      /\ \A c \in Stored : c \in OnBranch(branchOf[c])
      /\ \A m : \A c \in OnBranch(m) : m \in Nat => c \in Stored /\ branchOf[c] = m
  BY <1>1, HeightOfChild, RowsAreOnBranches
<1> DEFINE Continues == n = branchOf[Prev[b]]
           HasRival == branchOf[Prev[b]] \in BranchesByPrevhash(Prev[b])
<1>4. Continues \/ (OnBranch(n) = {} /\ HasRival)
  BY DEF MayEnter
<1>5. BranchIsPath'
  <2> SUFFICES ASSUME NEW c \in Stored', NEW d \in Stored',
                      branchOf'[c] = branchOf'[d], Height[c] = Height[d]
               PROVE  c = d
    BY DEF BranchIsPath
  <2>1. CASE c \in Stored /\ d \in Stored
    BY <2>1, <1>2 DEF StoreShape, BranchIsPath
  <2>2. CASE c = b /\ d \in Stored
    BY <2>2, <1>1, <1>2, <1>3
  <2>3. CASE d = b /\ c \in Stored
    BY <2>3, <1>1, <1>2, <1>3
  <2> QED
    BY <1>2, <2>1, <2>2, <2>3
<1>6. PrimaryIsTallest'
  <2>1. \A c \in OnBranch(0) : c \in OnBranch(0)' /\ c \in Stored
    BY <1>2, <1>3
  <2>2. CASE AboveMaxHeight(b)
    <3>1. n = 0
      BY <2>2 DEF MayEnter
    <3>2. b \in OnBranch(0)'
      BY <3>1, <1>2
    <3>3. \A c \in Stored' : Height[c] <= Height[b]
      BY <2>2, <1>2, <1>3 DEF AboveMaxHeight
    <3> QED
      BY <3>2, <3>3 DEF PrimaryIsTallest
  <2>3. CASE ~AboveMaxHeight(b)
    <3>1. PICK c \in Stored : Height[b] <= Height[c]
      BY <2>3, <1>3 DEF AboveMaxHeight
    <3>2. PICK t \in OnBranch(0) : \A d \in Stored : Height[d] <= Height[t]
      BY <3>1 DEF StoreShape, PrimaryIsTallest
    <3>3. Height[b] <= Height[t]
      BY <3>1, <3>2, <2>1, <1>3
    <3> QED
      BY <3>2, <3>3, <2>1, <1>2 DEF PrimaryIsTallest
  <2> QED
    BY <2>2, <2>3
<1>7. FirstChildContinues'
  <2>1. \A c : BranchesByPrevhash(c) \subseteq BranchesByPrevhash(c)'
    BY <1>2 DEF BranchesByPrevhash
  <2>2. ASSUME NEW c \in Stored \ {Genesis}
        PROVE  /\ Prev[c] \in Stored'
               /\ branchOf'[Prev[c]] \in BranchesByPrevhash(Prev[c])'
    BY <2>1, <1>2 DEF StoreShape, FirstChildContinues
  <2>3. Prev[b] \in Stored' /\ branchOf'[Prev[b]] = branchOf[Prev[b]]
    BY <1>1, <1>2
  <2>4. branchOf'[Prev[b]] \in BranchesByPrevhash(Prev[b])'
    <3>1. CASE Continues
      <4>1. branchOf'[Prev[b]] = branchOf'[b] /\ b \in Stored'
        BY <3>1, <2>3, <1>2
      <4> QED
        BY <4>1 DEF BranchesByPrevhash
    <3>2. CASE HasRival
      BY <3>2, <2>1, <2>3
    <3> QED
      BY <3>1, <3>2, <1>4
  <2> QED
    BY <2>2, <2>3, <2>4, <1>2 DEF FirstChildContinues
<1>8. RootIsLowest'
  <2> SUFFICES ASSUME NEW c \in Stored' \ {Genesis},
                      branchOf'[c] # branchOf'[Prev[c]],
                      NEW d \in OnBranch(branchOf[c])' \ {c}
               PROVE  Height[c] < Height[d]
    BY DEF RootIsLowest
  <2>1. CASE c = b
    <3>1. d \in OnBranch(n)
      <4>1. d \in OnBranch(n)'
        BY <2>1, <1>2 DEF OnBranch
      <4> QED
        BY <4>1, <2>1, <1>1, <1>2
    <3>2. Continues
      BY <3>1, <1>4
    <3> QED
      BY <3>2, <2>1, <1>1, <1>2
  <2>2. CASE c \in Stored
    <3>1. Prev[c] \in Stored
      BY <2>2 DEF StoreShape, FirstChildContinues
    <3>2. branchOf[c] # branchOf[Prev[c]]
      BY <3>1, <2>2, <1>2
    <3>3. \A e \in OnBranch(branchOf[c]) \ {c} : Height[c] < Height[e]
      BY <3>2, <2>2 DEF StoreShape, RootIsLowest
    <3>4. CASE d = b
      <4>1. branchOf'[b] = branchOf[c]
        BY <3>4, <2>2, <1>2 DEF OnBranch
      <4>2. c \in OnBranch(n)
        BY <4>1, <2>2, <1>2, <1>3
      <4> QED
        BY <4>2, <3>4, <1>1
    <3>5. CASE d # b
      <4>1. branchOf'[c] = branchOf[c] /\ branchOf[c] \in Nat
        BY <2>2, <1>2, <1>3
      <4>2. d \in OnBranch(branchOf[c])
        BY <4>1, <3>5, <1>2
      <4> QED
        BY <4>2, <3>3
    <3> QED
      BY <3>4, <3>5
  <2> QED
    BY <2>1, <2>2, <1>2
<1>9. NoGap'
  <2> SUFFICES ASSUME NEW c \in Stored', NEW d \in Stored',
                      branchOf'[c] = branchOf'[d],
                      NEW h \in Height[c] .. Height[d]
               PROVE  \E e \in OnBranch(branchOf[c])' : Height[e] = h
    BY DEF NoGap
  <2>1. \A e \in Stored : e \in OnBranch(branchOf[e])
    BY <1>3
  <2>2. \A m \in Nat : OnBranch(m) \subseteq OnBranch(m)'
    BY <1>2
  <2>3. CASE c \in Stored /\ d \in Stored
    <3>1. branchOf[c] = branchOf[d] /\ branchOf'[c] = branchOf[c] /\ branchOf[c] \in Nat
      BY <2>3, <1>2, <1>3
    <3>2. \E e \in OnBranch(branchOf[c]) : Height[e] = h
      BY <3>1, <2>3 DEF StoreShape, NoGap
    <3> QED
      BY <3>1, <3>2, <2>2
  <2>4. CASE c = b /\ d \in Stored
    <3>1. Height[d] < Height[b] /\ Height[d] \in Nat
      BY <2>4, <1>1, <1>2, <1>3
    <3> QED
      BY <3>1, <2>4, <1>3
  <2>5. CASE c \in Stored /\ d = b
    <3>1. branchOf[c] = n /\ branchOf'[c] = n /\ c \in OnBranch(n)
      BY <2>5, <1>2, <1>3
    <3>2. CASE h = Height[b]
      <4>1. b \in OnBranch(branchOf[c])'
        BY <3>1, <1>1, <1>2 DEF OnBranch
      <4> QED
        BY <4>1, <3>2
    <3>3. CASE h # Height[b]
      <4>1. Continues
        BY <3>1, <1>4
      <4>2. branchOf[Prev[b]] = n
        BY <4>1
      <4>3. h \in Height[c] .. Height[Prev[b]]
        BY <3>3, <2>5, <1>3, <1>1
      <4>4. \E e \in OnBranch(n) : Height[e] = h
        BY <4>2, <4>3, <3>1, <2>5, <1>1 DEF StoreShape, NoGap
      <4> QED
        BY <4>4, <3>1, <2>2, <1>1
    <3> QED
      BY <3>2, <3>3
  <2>6. CASE c = b /\ d = b
    <3>1. h = Height[b]
      BY <2>6, <1>3
    <3>2. b \in OnBranch(branchOf[c])'
      BY <2>6, <1>1 DEF OnBranch
    <3> QED
      BY <3>1, <3>2
  <2> QED
    BY <2>3, <2>4, <2>5, <2>6, <1>2
<1>10. GenesisIsPrimary'
  <2>1. branchOf[Genesis] = 0
    BY <1>1 DEF StoreShape, GenesisIsPrimary
  <2>2. Genesis \in Stored
    BY <2>1, BlockTreeAssumption DEF Stored, Absent
  <2> QED
    BY <2>1, <2>2, <1>2 DEF GenesisIsPrimary
<1> QED
  BY <1>5, <1>6, <1>7, <1>8, <1>9, <1>10 DEF StoreShape

\* Rows that the constraints let pass never spend one prev_hash twice.
LEMMA SpendsOnceKeptByRow ==
    ASSUME TableTyped, BranchSpendsOnce, NEW b, NEW n, MayEnter(b, n), AddsRow(b, n)
    PROVE  BranchSpendsOnce'
<1> SUFFICES ASSUME NEW c \in Stored', NEW d \in Stored',
                    branchOf'[c] = branchOf'[d], c # d
             PROVE  ~TxClash(c, d)
  BY DEF BranchSpendsOnce, TxClash, SpendClash
<1>1. /\ Stored' = Stored \cup {b}
      /\ \A e \in Stored : branchOf'[e] = branchOf[e]
      /\ branchOf'[b] = n
  BY RowAdded
<1>2. \A e \in OnBranch(n) : ~TxClash(b, e) /\ ~TxClash(e, b)
  BY DEF MayEnter, Clash, TxClash, SpendClash
<1>3. \A e \in Stored : branchOf[e] = n => e \in OnBranch(n)
  BY RowsAreOnBranches
<1> QED
  BY <1>1, <1>2, <1>3 DEF BranchSpendsOnce

------------------------------------------------------------------------------
(* Branch 0 *)

\* Branch 0 has the predecessors of its blocks.
LEMMA PrimaryIsClosed ==
    ASSUME TableTyped, StoreShape, NEW b \in OnBranch(0), b # Genesis
    PROVE  Prev[b] \in OnBranch(0)
<1>1. b \in Stored /\ branchOf[b] = 0 /\ Prev[b] \in Stored
  BY RowsAreOnBranches DEF StoreShape, FirstChildContinues
<1>2. Genesis \in OnBranch(0) /\ Height[Genesis] = 1
  BY <1>1, BlockTreeAssumption DEF StoreShape, GenesisIsPrimary, OnBranch
<1>3. ~(Height[b] < Height[Genesis])
  BY <1>1, <1>2, HeightOfChild, RowsAreOnBranches
<1>4. branchOf[Prev[b]] = 0
  BY <1>1, <1>2, <1>3 DEF StoreShape, RootIsLowest
<1> QED
  BY <1>1, <1>4, RowsAreOnBranches

\* The definition of Ancestors has a solution: what is in every set that has
\* the predecessor and is closed under taking predecessors.
LEMMA AncestorsUnfold ==
    \A b \in Blocks :
        Ancestors[b] = IF b = Genesis THEN {} ELSE {Prev[b]} \cup Ancestors[Prev[b]]
<1> DEFINE Closed(S) == \A d \in S : d # Genesis => Prev[d] \in S
           Above(b) == {c \in Blocks : \A S \in SUBSET Blocks :
                           Closed(S) /\ Prev[b] \in S => c \in S}
           F == [b \in Blocks |-> IF b = Genesis THEN {} ELSE Above(b)]
           Solves(f) == f = [b \in Blocks |-> IF b = Genesis THEN {}
                                              ELSE {Prev[b]} \cup f[Prev[b]]]
<1>1. ASSUME NEW b \in Blocks, b # Genesis
      PROVE  F[b] = {Prev[b]} \cup F[Prev[b]]
  <2> DEFINE a == Prev[b]
             T == {a} \cup F[a]
  <2>1. a \in Blocks /\ (a # Genesis => Prev[a] \in Blocks)
    BY <1>1, BlockTreeAssumption
  <2>2. T \subseteq Above(b)
    <3> SUFFICES ASSUME NEW S \in SUBSET Blocks, Closed(S), a \in S
                 PROVE  T \subseteq S
      BY <2>1
    <3>1. a # Genesis => Prev[a] \in S
      OBVIOUS
    <3> QED
      BY <2>1, <3>1
  <2>3. Closed(T)
    <3>1. a # Genesis => Prev[a] \in F[a]
      BY <2>1
    <3>2. ASSUME NEW d \in F[a], d # Genesis
          PROVE  Prev[d] \in F[a]
      <4>1. a # Genesis /\ d \in Above(a)
        BY <2>1, <3>2
      <4>2. d \in Blocks /\ Prev[d] \in Blocks
        BY <3>2, <4>1, BlockTreeAssumption
      <4>3. Prev[d] \in Above(a)
        BY <3>2, <4>1, <4>2
      <4> QED
        BY <2>1, <4>1, <4>3
    <3> QED
      BY <3>1, <3>2
  <2>4. T \in SUBSET Blocks
    BY <2>1
  <2>5. Above(b) \subseteq T
    <3>1. a \in T
      OBVIOUS
    <3> HIDE DEF Closed, T
    <3> QED
      BY <2>3, <2>4, <3>1
  <2>6. F[b] = Above(b)
    BY <1>1
  <2> QED
    BY <2>2, <2>5, <2>6
<1>2. F[Genesis] = {}
  BY BlockTreeAssumption
<1>3. Solves(F)
  <2>1. \A b \in Blocks : F[b] = IF b = Genesis THEN {} ELSE {Prev[b]} \cup F[Prev[b]]
    <3> HIDE DEF F
    <3> QED
      BY <1>1, <1>2
  <2>2. F = [b \in Blocks |-> F[b]]
    OBVIOUS
  <2> HIDE DEF F
  <2> QED
    BY <2>1, <2>2
<1>4. Ancestors = CHOOSE f : Solves(f)
  BY DEF Ancestors
<1>5. Solves(Ancestors)
  <2> HIDE DEF Solves, F
  <2> QED
    BY <1>3, <1>4
<1> QED
  BY <1>5

\* Branch 0 has all ancestors of its blocks, each of them lower.
LEMMA PrimaryHasAncestors ==
    ASSUME TableTyped, StoreShape
    PROVE  \A b \in OnBranch(0) : \A c \in Ancestors[b] :
               c \in OnBranch(0) /\ Height[c] < Height[b]
<1> DEFINE Good(b) == \A c \in Ancestors[b] : c \in OnBranch(0) /\ Height[c] < Height[b]
           Q == {n \in Nat : \A b \in OnBranch(0) : Height[b] <= n => Good(b)}
<1>1. \A b \in OnBranch(0) : b \in Blocks /\ Height[b] \in Nat /\ Height[b] >= 1
  BY HeightOfChild DEF OnBranch
<1>2. 0 \in Q
  BY <1>1
<1>3. ASSUME NEW n \in Nat, n \in Q
      PROVE  n + 1 \in Q
  <2> SUFFICES ASSUME NEW b \in OnBranch(0), Height[b] <= n + 1, NEW c \in Ancestors[b]
               PROVE  c \in OnBranch(0) /\ Height[c] < Height[b]
    OBVIOUS
  <2>1. b # Genesis /\ c \in {Prev[b]} \cup Ancestors[Prev[b]]
    BY <1>1, AncestorsUnfold
  <2>2. Prev[b] \in OnBranch(0)
    BY <2>1, PrimaryIsClosed
  <2>3. Height[b] = Height[Prev[b]] + 1 /\ Height[Prev[b]] \in Nat
    BY <1>1, <2>1, <2>2, HeightOfChild
  <2>4. Good(Prev[b])
    <3> HIDE DEF Good
    <3> QED
      BY <1>1, <1>3, <2>2, <2>3
  <2>5. CASE c = Prev[b]
    BY <1>1, <2>2, <2>3, <2>5
  <2>6. CASE c \in Ancestors[Prev[b]]
    <3>1. c \in OnBranch(0) /\ Height[c] < Height[Prev[b]]
      BY <2>4, <2>6
    <3> QED
      BY <1>1, <2>3, <3>1
  <2> QED
    BY <2>1, <2>5, <2>6
<1>4. Nat \subseteq Q
  <2> HIDE DEF Q
  <2> QED
    BY <1>2, <1>3, NatByInduction
<1>5. \A b \in OnBranch(0) : Good(b)
  <2> HIDE DEF Good
  <2> QED
    BY <1>1, <1>4
<1> QED
  BY <1>5

\* Hence the constraints on one branch do for the whole of the main chain.
THEOREM MainBranchByConstraints ==
    TableTyped /\ StoreShape /\ BranchSpendsOnce => MainBranchSpendsOnce
<1> SUFFICES ASSUME TableTyped, StoreShape, BranchSpendsOnce,
                    NEW b \in OnBranch(0), NEW c \in Ancestors[b]
             PROVE  ~TxClash(b, c)
  BY DEF MainBranchSpendsOnce, TxClash, SpendClash
<1>1. c \in OnBranch(0) /\ Height[c] < Height[b]
  BY PrimaryHasAncestors
<1>2. b \in Stored /\ c \in Stored /\ branchOf[b] = branchOf[c]
  BY <1>1, RowsAreOnBranches
<1>3. b # c
  BY <1>1, <1>2, RowsAreOnBranches
<1> QED
  BY <1>2, <1>3 DEF BranchSpendsOnce

------------------------------------------------------------------------------
(* BlockStore *)

\* BlockStore reads the table through the same queries.
LEMMA SameQueries ==
    /\ Store!Stored = Stored
    /\ \A n : Store!OnBranch(n) = OnBranch(n)
    /\ \A b : Store!AboveMaxHeight(b) <=> AboveMaxHeight(b)
    /\ \A b : Store!BranchesByPrevhash(b) = BranchesByPrevhash(b)
    /\ \A b, n : Store!Clash(b, n) <=> Clash(b, n)
    /\ Store!EmptyOrSeeded <=> EmptyOrSeeded
BY DEF Store!Stored, Store!OnBranch, Store!AboveMaxHeight,
       Store!BranchesByPrevhash, Store!Clash, Store!EmptyOrSeeded, Store!Absent,
       Store!SelfClash, Store!TxClash, Store!SpendClash,
       Stored, OnBranch, AboveMaxHeight, BranchesByPrevhash, Clash,
       EmptyOrSeeded, Absent, SelfClash, TxClash, SpendClash

\* What BlockStore adds may enter.
LEMMA StoreAddMayEnter ==
    ASSUME TableTyped, NEW b \in Blocks \ {Genesis}, NEW n, Store!Add(b, n)
    PROVE  MayEnter(b, n) /\ AddsRow(b, n)
<1>1. Prev[b] \in Stored /\ ~Clash(b, n) /\ AddsRow(b, n)
  BY SameQueries DEF Store!Add, AddsRow
<1>2. branchOf[Prev[b]] \in Nat
  BY <1>1, RowsAreOnBranches
<1>3. CASE Store!Continue(b, n)
  BY <1>1, <1>2, <1>3, SameQueries DEF Store!Continue, MayEnter
<1>4. CASE Store!StartBranch(b, n)
  BY <1>1, <1>4, SameQueries DEF Store!StartBranch, Store!Rivalled, MayEnter
<1> QED
  BY <1>3, <1>4 DEF Store!Add

\* Every step of BlockStore keeps the shape of the branches.
LEMMA StoreStepKeepsShape ==
    ASSUME TableTyped, StoreShape, BranchSpendsOnce, [Store!Next]_branchOf
    PROVE  TableTyped' /\ StoreShape' /\ BranchSpendsOnce'
<1>1. CASE UNCHANGED branchOf
  BY <1>1, ShapeUnchanged
<1>2. CASE Store!Next
  <2>1. PICK b \in Blocks \ {Genesis} : Store!Add(b, branchOf'[b])
    BY <1>2 DEF Store!Next
  <2>2. PICK n : n = branchOf'[b]
    OBVIOUS
  <2>3. MayEnter(b, n) /\ AddsRow(b, n)
    BY <2>1, <2>2, StoreAddMayEnter
  <2> QED
    BY <2>3, RowAdded, ShapeKeptByRow, SpendsOnceKeptByRow
<1> QED
  BY <1>1, <1>2

\* So what implements BlockStore has branches of that shape.
THEOREM StoreHasShape ==
    StoreSpec => [](TableTyped /\ StoreShape /\ BranchSpendsOnce)
<1>1. Store!Init => TableTyped /\ StoreShape /\ BranchSpendsOnce
  BY SameQueries, ShapeOfNewTable DEF Store!Init
<1> QED
  BY <1>1, StoreStepKeepsShape, PTL DEF StoreSpec, Store!Spec

\* What enters on branch 0 goes on top of it.
LEMMA StoreStepRefines ==
    ASSUME TableTyped, StoreShape, [Store!Next]_branchOf
    PROVE  [Primary!Next]_(OnBranch(0))
<1>1. CASE UNCHANGED branchOf
  BY <1>1, ShapeUnchanged
<1>2. CASE Store!Next
  <2>1. PICK b \in Blocks \ {Genesis} : Store!Add(b, branchOf'[b])
    BY <1>2 DEF Store!Next
  <2>2. PICK n : n = branchOf'[b]
    OBVIOUS
  <2>3. MayEnter(b, n) /\ AddsRow(b, n)
    BY <2>1, <2>2, StoreAddMayEnter
  <2>4. OnBranch(0)' = IF 0 = n THEN OnBranch(0) \cup {b} ELSE OnBranch(0)
    BY <2>3, RowAdded
  <2>5. CASE n = 0
    <3>1. \A c \in OnBranch(0) : Height[c] < Height[b]
      BY <2>3, <2>5, RowGoesOnTop
    <3>2. Genesis \in OnBranch(0)
      BY <2>3, BlockTreeAssumption
         DEF MayEnter, StoreShape, GenesisIsPrimary, OnBranch
    <3>3. Prev[b] \in OnBranch(0)
      BY <2>3, <2>5, <3>2, RowsAreOnBranches DEF MayEnter
    <3> QED
      BY <2>4, <2>5, <3>1, <3>3 DEF Primary!Next, Primary!Extend
  <2> QED
    BY <2>4, <2>5
<1> QED
  BY <1>1, <1>2

\* BlockStore implements PrimaryChain.
THEOREM StoreKeepsPrimary == StoreSpec => PrimaryChainSpec
<1>1. Store!Init => Primary!Init
  <2> SUFFICES ASSUME EmptyOrSeeded
               PROVE  OnBranch(0) \in {{}, {Genesis}}
    BY SameQueries DEF Store!Init, Primary!Init
  <2>1. Stored \subseteq {Genesis} /\ TableTyped
    BY ShapeOfNewTable
  <2>2. OnBranch(0) \subseteq Stored
    BY <2>1, RowsAreOnBranches
  <2> QED
    BY <2>1, <2>2
<1> QED
  BY <1>1, StoreStepRefines, StoreHasShape, PTL
     DEF StoreSpec, Store!Spec, PrimaryChainSpec, Primary!Spec
==============================================================================
