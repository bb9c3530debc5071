---------------------------- MODULE MerkleProofs ----------------------------
(***************************************************************************)
(* Theorems of Merkle, for every set of blocks and transactions: the three *)
(* ways to put the transactions of a block in order give one Merkle root,  *)
(* however the tree above them is computed.                                *)
(*                                                                         *)
(* What counts of a sequence that Block gets is its first element and the  *)
(* set of the others, as the others are sorted anew.                       *)
(***************************************************************************)
EXTENDS Merkle, SequenceTheorems, FiniteSetTheorems, TLAPS

\* R orders S strictly and totally.
Orders(R, S) ==
    /\ \A s \in S : <<s, s>> \notin R
    /\ \A s, t, u \in S : <<s, t>> \in R /\ <<t, u>> \in R => <<s, u>> \in R
    /\ \A s, t \in S : s # t => <<s, t>> \in R \/ <<t, s>> \in R

Below(t, S, R) == {s \in S : <<s, t>> \in R}

\* An element has as many elements below as it has predecessors in the order,
\* so every number from 0 on belongs to one element.
LEMMA RankIsBijective ==
    ASSUME NEW S, IsFiniteSet(S), NEW R, Orders(R, S)
    PROVE  /\ \A t \in S : Cardinality(Below(t, S, R)) \in 0 .. Cardinality(S) - 1
           /\ \A s, t \in S : <<s, t>> \in R =>
                 Cardinality(Below(s, S, R)) < Cardinality(Below(t, S, R))
           /\ \A k \in 0 .. Cardinality(S) - 1 :
                 \E t \in S : Cardinality(Below(t, S, R)) = k
<1> DEFINE n == Cardinality(S)
           B(t) == Below(t, S, R)
           rank == [t \in S |-> Cardinality(B(t))]
<1>0. n \in Nat
  BY FS_CardinalityType
<1>1. \A t \in S : IsFiniteSet(B(t)) /\ Cardinality(B(t)) \in Nat
  <2>1. \A t \in S : B(t) \in SUBSET S
    BY DEF Below
  <2> QED
    BY <2>1, FS_Subset, FS_CardinalityType
<1>2. ASSUME NEW s \in S, NEW t \in S, <<s, t>> \in R
      PROVE  Cardinality(B(s)) < Cardinality(B(t))
  <2>1. B(s) \in SUBSET B(t) /\ s \in B(t) /\ s \notin B(s)
    BY <1>2 DEF Below, Orders
  <2>2. Cardinality(B(s)) <= Cardinality(B(t)) /\ Cardinality(B(s)) # Cardinality(B(t))
    BY <1>1, <2>1, FS_Subset
  <2> QED
    BY <1>1, <2>2
<1>3. ASSUME NEW t \in S
      PROVE  Cardinality(B(t)) \in 0 .. n - 1
  <2>1. B(t) \in SUBSET S /\ t \notin B(t)
    BY DEF Below, Orders
  <2>2. Cardinality(B(t)) <= n /\ Cardinality(B(t)) # n
    BY <2>1, FS_Subset
  <2> QED
    BY <1>0, <1>1, <2>2
<1>4. rank \in Injection(S, 0 .. n - 1)
  <2>1. rank \in [S -> 0 .. n - 1]
    BY <1>3
  <2>2. ASSUME NEW s \in S, NEW t \in S, s # t
        PROVE  rank[s] # rank[t]
    <3>1. <<s, t>> \in R \/ <<t, s>> \in R
      BY <2>2 DEF Orders
    <3> QED
      BY <1>1, <1>2, <3>1
  <2> QED
    BY <2>1, <2>2 DEF Injection, IsInjective
<1>5. IsFiniteSet(0 .. n - 1) /\ Cardinality(0 .. n - 1) = n
  BY <1>0, FS_Interval
<1>6. rank \in Surjection(S, 0 .. n - 1)
  BY <1>4, <1>5, FS_Injection
<1>7. \A k \in 0 .. n - 1 : \E t \in S : Cardinality(B(t)) = k
  BY <1>6 DEF Surjection
<1> QED
  BY <1>2, <1>3, <1>7

\* An ordered set is a sequence of its elements, each of them once, and begins
\* with the least one.
LEMMA InOrderIsSequence ==
    ASSUME NEW S, IsFiniteSet(S), NEW R, Orders(R, S)
    PROVE  /\ InOrder(S, R) \in Seq(S)
           /\ Len(InOrder(S, R)) = Cardinality(S)
           /\ Elements(InOrder(S, R)) = S
           /\ \A i, j \in 1 .. Cardinality(S) :
                 InOrder(S, R)[i] = InOrder(S, R)[j] => i = j
           /\ \A m \in S : (\A t \in S \ {m} : <<m, t>> \in R) => InOrder(S, R)[1] = m
<1> DEFINE n == Cardinality(S)
           B(t) == Below(t, S, R)
           o == InOrder(S, R)
<1>0. n \in Nat
  BY FS_CardinalityType
<1>1. /\ \A t \in S : Cardinality(B(t)) \in 0 .. n - 1
      /\ \A s, t \in S : <<s, t>> \in R => Cardinality(B(s)) < Cardinality(B(t))
      /\ \A k \in 0 .. n - 1 : \E t \in S : Cardinality(B(t)) = k
  BY RankIsBijective
<1>2. o = [i \in 1 .. n |-> CHOOSE t \in S : Cardinality(B(t)) = i - 1]
  BY DEF InOrder, Below
<1>3. \A i \in 1 .. n : o[i] \in S /\ Cardinality(B(o[i])) = i - 1
  <2> SUFFICES ASSUME NEW i \in 1 .. n
               PROVE  o[i] \in S /\ Cardinality(B(o[i])) = i - 1
    OBVIOUS
  <2>1. i - 1 \in 0 .. n - 1
    BY <1>0
  <2>2. \E t \in S : Cardinality(B(t)) = i - 1
    BY <1>1, <2>1
  <2> HIDE DEF B, o, n
  <2>3. o[i] = CHOOSE t \in S : Cardinality(B(t)) = i - 1
    BY <1>2
  <2> QED
    BY <2>2, <2>3
<1>4. DOMAIN o = 1 .. n /\ o = [i \in 1 .. n |-> o[i]]
  <2> HIDE DEF B, o, n
  <2> QED
    BY <1>2
<1>5. o \in Seq(S) /\ Len(o) = n
  <2>1. o \in [1 .. n -> S]
    <3> HIDE DEF o
    <3> QED
      BY <1>3, <1>4
  <2> HIDE DEF o, n
  <2> QED
    BY <1>0, <2>1
<1>6. ASSUME NEW s \in S, NEW t \in S, s # t
      PROVE  Cardinality(B(s)) # Cardinality(B(t))
  <2>1. <<s, t>> \in R \/ <<t, s>> \in R
    BY <1>6 DEF Orders
  <2>2. Cardinality(B(s)) \in Int /\ Cardinality(B(t)) \in Int
    BY <1>1
  <2>3. \/ Cardinality(B(s)) < Cardinality(B(t))
        \/ Cardinality(B(t)) < Cardinality(B(s))
    BY <1>1, <2>1
  <2> HIDE DEF B
  <2> QED
    BY <2>2, <2>3
<1>7. \A t \in S : \E i \in 1 .. n : o[i] = t
  <2> SUFFICES ASSUME NEW t \in S PROVE \E i \in 1 .. n : o[i] = t
    OBVIOUS
  <2>1. PICK k \in 0 .. n - 1 : Cardinality(B(t)) = k
    BY <1>1
  <2>2. k + 1 \in 1 .. n /\ (k + 1) - 1 = k
    BY <1>0
  <2>3. o[k + 1] \in S /\ Cardinality(B(o[k + 1])) = Cardinality(B(t))
    <3> HIDE DEF o, B, n
    <3> QED
      BY <1>3, <2>1, <2>2
  <2> HIDE DEF o, B, n
  <2> QED
    BY <1>6, <2>2, <2>3
<1>8. Elements(o) = S
  <2> HIDE DEF o, n
  <2> QED
    BY <1>3, <1>5, <1>7 DEF Elements
<1>9. \A i, j \in 1 .. n : o[i] = o[j] => i = j
  <2> SUFFICES ASSUME NEW i \in 1 .. n, NEW j \in 1 .. n, o[i] = o[j]
               PROVE  i = j
    OBVIOUS
  <2>1. i - 1 = j - 1
    <3> HIDE DEF o, B, n
    <3> QED
      BY <1>3
  <2> QED
    BY <1>0, <2>1
<1>10. ASSUME NEW m \in S, \A t \in S \ {m} : <<m, t>> \in R
       PROVE  o[1] = m
  <2>1. PICK i \in 1 .. n : o[i] = m
    BY <1>7
  <2>2. 1 \in 1 .. n
    BY <1>0
  <2>3. o[1] \in S /\ Cardinality(B(o[1])) = 1 - 1
    <3> HIDE DEF o, B, n
    <3> QED
      BY <1>3, <2>2
  <2>4. ASSUME o[1] # m PROVE FALSE
    <3>1. Cardinality(B(m)) < Cardinality(B(o[1]))
      BY <1>1, <1>10, <2>3, <2>4
    <3> QED
      BY <1>1, <2>3, <3>1
  <2> QED
    BY <2>4
<1> QED
  BY <1>5, <1>8, <1>9, <1>10

------------------------------------------------------------------------------
(* Sequences and their elements *)

LEMMA ElementsOfSequence ==
    ASSUME NEW T, NEW s \in Seq(T)
    PROVE  Elements(s) \subseteq T
BY ElementOfSeq DEF Elements

LEMMA ElementsOfConcat ==
    ASSUME NEW T, NEW s \in Seq(T), NEW t \in Seq(T)
    PROVE  Elements(s \o t) = Elements(s) \cup Elements(t)
<1>1. /\ Len(s) \in Nat /\ Len(t) \in Nat
      /\ Len(s \o t) = Len(s) + Len(t)
      /\ \A i \in 1 .. Len(s) + Len(t) :
            (s \o t)[i] = IF i <= Len(s) THEN s[i] ELSE t[i - Len(s)]
  BY ConcatProperties, LenProperties
<1>2. ASSUME NEW i \in 1 .. Len(s) + Len(t)
      PROVE  (s \o t)[i] \in Elements(s) \cup Elements(t)
  <2>1. CASE i <= Len(s)
    BY <1>1, <2>1 DEF Elements
  <2>2. CASE i > Len(s)
    <3>1. i - Len(s) \in 1 .. Len(t)
      BY <1>1, <2>2
    <3> QED
      BY <1>1, <2>2, <3>1 DEF Elements
  <2> QED
    BY <1>1, <2>1, <2>2
<1>3. ASSUME NEW i \in 1 .. Len(s)
      PROVE  s[i] \in Elements(s \o t)
  <2>1. i \in 1 .. Len(s) + Len(t) /\ (s \o t)[i] = s[i]
    BY <1>1
  <2> QED
    BY <1>1, <2>1 DEF Elements
<1>4. ASSUME NEW i \in 1 .. Len(t)
      PROVE  t[i] \in Elements(s \o t)
  <2>1. /\ i + Len(s) \in 1 .. Len(s) + Len(t)
        /\ ~(i + Len(s) <= Len(s)) /\ (i + Len(s)) - Len(s) = i
    BY <1>1
  <2>2. (s \o t)[i + Len(s)] = t[i]
    BY <1>1, <2>1
  <2> QED
    BY <1>1, <2>1, <2>2 DEF Elements
<1>5. Elements(s \o t) \subseteq Elements(s) \cup Elements(t)
  BY <1>1, <1>2 DEF Elements
<1>6. Elements(s) \subseteq Elements(s \o t) /\ Elements(t) \subseteq Elements(s \o t)
  BY <1>3, <1>4 DEF Elements
<1> QED
  BY <1>5, <1>6

\* In front of a sequence: one element more, and the sequence is the tail.
LEMMA HeadAndTail ==
    ASSUME NEW T, NEW c \in T, NEW s \in Seq(T)
    PROVE  Head(<<c>> \o s) = c /\ Tail(<<c>> \o s) = s
<1>1. <<c>> \in Seq(T) /\ Len(<<c>>) = 1 /\ <<c>>[1] = c
  OBVIOUS
<1>2. /\ <<c>> \o s \in Seq(T)
      /\ Len(<<c>> \o s) = 1 + Len(s)
      /\ \A i \in 1 .. 1 + Len(s) : (<<c>> \o s)[i] = IF i <= 1 THEN c ELSE s[i - 1]
  BY <1>1, ConcatProperties
<1>3. Len(s) \in Nat
  BY LenProperties
<1>4. <<c>> \o s # <<>>
  BY <1>2, <1>3, EmptySeq
<1>5. /\ Tail(<<c>> \o s) \in Seq(T)
      /\ Len(Tail(<<c>> \o s)) = Len(<<c>> \o s) - 1
      /\ \A i \in 1 .. Len(Tail(<<c>> \o s)) : Tail(<<c>> \o s)[i] = (<<c>> \o s)[i + 1]
  BY <1>2, <1>4, HeadTailProperties
<1>6. Len(Tail(<<c>> \o s)) = Len(s)
  BY <1>2, <1>3, <1>5
<1>7. \A i \in 1 .. Len(s) : Tail(<<c>> \o s)[i] = s[i]
  BY <1>2, <1>3, <1>5, <1>6
<1>8. Tail(<<c>> \o s) = s
  BY <1>5, <1>6, <1>7, SeqEqual
<1>9. Head(<<c>> \o s) = c
  BY <1>2, <1>3
<1> QED
  BY <1>8, <1>9

\* A sequence without repetitions: the tail has all but the first.
LEMMA TailHasTheOthers ==
    ASSUME NEW T, NEW s \in Seq(T), Len(s) > 0,
           \A i, j \in 1 .. Len(s) : s[i] = s[j] => i = j
    PROVE  Head(s) = s[1] /\ Elements(Tail(s)) = Elements(s) \ {s[1]}
<1>1. Len(s) \in Nat /\ s # <<>>
  BY LenProperties, EmptySeq
<1>2. /\ Len(Tail(s)) = Len(s) - 1
      /\ \A i \in 1 .. Len(Tail(s)) : Tail(s)[i] = s[i + 1]
  BY <1>1, HeadTailProperties
<1>3. ASSUME NEW i \in 1 .. Len(s) - 1
      PROVE  Tail(s)[i] \in Elements(s) \ {s[1]}
  <2>1. i + 1 \in 1 .. Len(s) /\ 1 \in 1 .. Len(s) /\ i + 1 # 1
    BY <1>1
  <2> QED
    BY <1>2, <2>1 DEF Elements
<1>4. ASSUME NEW i \in 1 .. Len(s), s[i] # s[1]
      PROVE  s[i] \in Elements(Tail(s))
  <2>1. i - 1 \in 1 .. Len(s) - 1 /\ (i - 1) + 1 = i
    BY <1>1, <1>4
  <2>2. Tail(s)[i - 1] = s[i]
    BY <1>2, <2>1
  <2> QED
    BY <1>2, <2>1, <2>2 DEF Elements
<1>5. Head(s) = s[1]
  OBVIOUS
<1>6. Elements(Tail(s)) \subseteq Elements(s) \ {s[1]}
  BY <1>2, <1>3 DEF Elements
<1>7. Elements(s) \ {s[1]} \subseteq Elements(Tail(s))
  BY <1>4 DEF Elements
<1> QED
  BY <1>5, <1>6, <1>7

------------------------------------------------------------------------------
(* The transactions of a block *)

\* Transactions of a block are ordered by hash, and by type and hash.
LEMMA TransactionsAreOrdered ==
    ASSUME NEW b \in Blocks \ {Genesis}, NEW S \in SUBSET TxOf[b]
    PROVE  IsFiniteSet(S) /\ Orders(ByHash(S), S) /\ Orders(ByTypeAndHash(S), S)
<1>1. IsFiniteSet(S)
  BY MerkleAssumption, FS_Subset
<1>2. /\ \A t \in S : TxHash[t] \in Int /\ TxType[t] \in Int
      /\ \A s, t \in S : s # t => TxHash[s] # TxHash[t]
  BY MerkleAssumption
<1>3. \A s, t \in S : <<s, t>> \in ByHash(S) <=> TxHash[s] < TxHash[t]
  BY DEF ByHash
<1>4. \A s, t \in S : <<s, t>> \in ByTypeAndHash(S) <=>
          \/ TxType[s] < TxType[t]
          \/ TxType[s] = TxType[t] /\ TxHash[s] < TxHash[t]
  BY DEF ByTypeAndHash, ByHash
<1>5. Orders(ByHash(S), S)
  BY <1>2, <1>3 DEF Orders
<1>6. Orders(ByTypeAndHash(S), S)
  BY <1>2, <1>4 DEF Orders
<1> QED
  BY <1>1, <1>5, <1>6

LEMMA PositionsAreOrdered ==
    ASSUME NEW S \in SUBSET Nat
    PROVE  Orders(ByPosition(S), S)
<1>1. \A i, j \in S : <<i, j>> \in ByPosition(S) <=> i < j
  BY DEF ByPosition
<1> QED
  BY <1>1 DEF Orders

\* What is left of a sequence has the elements asked for.
LEMMA OnlyHasElements ==
    ASSUME NEW T, NEW seq \in Seq(T), NEW S
    PROVE  /\ Only(seq, S) \in Seq(T)
           /\ Len(Only(seq, S)) = Cardinality({i \in 1 .. Len(seq) : seq[i] \in S})
           /\ Elements(Only(seq, S)) = Elements(seq) \cap S
<1> DEFINE at == {i \in 1 .. Len(seq) : seq[i] \in S}
           o == InOrder(at, ByPosition(at))
           n == Cardinality(at)
<1>1. Len(seq) \in Nat /\ \A i \in 1 .. Len(seq) : seq[i] \in T
  BY LenProperties, ElementOfSeq
<1>2. IsFiniteSet(at) /\ n \in Nat
  <2>1. IsFiniteSet(1 .. Len(seq)) /\ at \in SUBSET (1 .. Len(seq))
    BY <1>1, FS_Interval
  <2> HIDE DEF at
  <2> QED
    BY <2>1, FS_Subset, FS_CardinalityType
<1>3. at \in SUBSET Nat
  BY <1>1
<1>4. Orders(ByPosition(at), at)
  BY <1>3, PositionsAreOrdered
<1>5. o \in Seq(at) /\ Len(o) = n /\ Elements(o) = at
  <2> HIDE DEF at
  <2> QED
    BY <1>2, <1>4, InOrderIsSequence
<1>6. Only(seq, S) = [k \in 1 .. n |-> seq[o[k]]]
  BY DEF Only
<1>7. \A k \in 1 .. n : o[k] \in at
  <2> HIDE DEF at, o, n
  <2> QED
    BY <1>5, ElementOfSeq
<1>8. Only(seq, S) \in Seq(T) /\ Len(Only(seq, S)) = n
  <2>1. \A k \in 1 .. n : seq[o[k]] \in T
    BY <1>1, <1>7
  <2>2. Only(seq, S) \in [1 .. n -> T]
    <3> HIDE DEF at, o, n
    <3> QED
      BY <1>6, <2>1
  <2> HIDE DEF n
  <2> QED
    BY <1>2, <2>2
<1>9. \A k \in 1 .. n : Only(seq, S)[k] = seq[o[k]]
  <2> HIDE DEF at, o, n
  <2> QED
    BY <1>6
<1>10. Elements(Only(seq, S)) \subseteq Elements(seq) \cap S
  <2>1. \A k \in 1 .. n : seq[o[k]] \in Elements(seq) \cap S
    BY <1>7 DEF Elements
  <2> HIDE DEF at, o, n
  <2> QED
    BY <1>8, <1>9, <2>1 DEF Elements
<1>11. ASSUME NEW i \in 1 .. Len(seq), seq[i] \in S
       PROVE  seq[i] \in Elements(Only(seq, S))
  <2>1. i \in at
    BY <1>11
  <2>2. PICK k \in 1 .. n : o[k] = i
    <3> HIDE DEF at, o, n
    <3> QED
      BY <1>5, <2>1 DEF Elements
  <2> HIDE DEF at, o, n
  <2> QED
    BY <1>8, <1>9, <2>2 DEF Elements
<1>12. Elements(seq) \cap S \subseteq Elements(Only(seq, S))
  BY <1>11 DEF Elements
<1> QED
  BY <1>8, <1>10, <1>12

\* A coinbase that leads is the only one, and it comes first by type.
LEMMA OneCoinbase ==
    ASSUME NEW b \in Blocks \ {Genesis}, CoinbaseLeads(b)
    PROVE  \E c \in TxOf[b] :
              /\ {t \in TxOf[b] : IsCoinbase(t)} = {c}
              /\ Poolable(b) = TxOf[b] \ {c}
              /\ \A t \in TxOf[b] \ {c} : <<c, t>> \in ByTypeAndHash(TxOf[b])
<1>1. PICK c \in TxOf[b] : IsCoinbase(c) /\ \A t \in TxOf[b] \ {c} : TxType[t] > COINBASE
  BY DEF CoinbaseLeads
<1>2. \A t \in TxOf[b] \ {c} : TxType[t] \in Int /\ TxType[c] = 2 /\ TxType[t] > 2
  BY <1>1, MerkleAssumption DEF IsCoinbase, COINBASE
<1>3. \A t \in TxOf[b] \ {c} : ~IsCoinbase(t)
  BY <1>2 DEF IsCoinbase, COINBASE
<1>4. \A t \in TxOf[b] \ {c} : <<c, t>> \in ByTypeAndHash(TxOf[b])
  BY <1>2 DEF ByTypeAndHash
<1> QED
  BY <1>1, <1>3, <1>4 DEF Poolable

\* The order in which Block puts what begins with the coinbase.
Canonical(b, c) ==
    <<c>> \o InOrder(TxOf[b] \ {c}, ByHash(TxOf[b] \ {c}))

LEMMA InventoryIsCanonical ==
    ASSUME NEW b \in Blocks \ {Genesis}, NEW c \in TxOf[b],
           \A t \in TxOf[b] \ {c} : <<c, t>> \in ByTypeAndHash(TxOf[b])
    PROVE  /\ FirstThenByHash(Inventory(b)) = Canonical(b, c)
           /\ Inventory(b) \in Seq(TxOf[b])
           /\ Elements(Inventory(b)) = TxOf[b]
           /\ {i \in 1 .. Len(Inventory(b)) : Inventory(b)[i] \in {c}} = {1}
<1> DEFINE inv == Inventory(b)
<1>1. IsFiniteSet(TxOf[b]) /\ Orders(ByTypeAndHash(TxOf[b]), TxOf[b])
  BY TransactionsAreOrdered
<1>2. /\ inv \in Seq(TxOf[b])
      /\ Len(inv) = Cardinality(TxOf[b])
      /\ Elements(inv) = TxOf[b]
      /\ \A i, j \in 1 .. Cardinality(TxOf[b]) : inv[i] = inv[j] => i = j
      /\ inv[1] = c
  BY <1>1, InOrderIsSequence DEF Inventory
<1> HIDE DEF inv
<1>3. Len(inv) \in Nat /\ Len(inv) > 0
  <2>1. Cardinality(TxOf[b]) \in Nat /\ Cardinality(TxOf[b]) # 0
    BY <1>1, FS_CardinalityType, FS_EmptySet
  <2> QED
    BY <1>2, <2>1
<1>4. Head(inv) = c /\ Elements(Tail(inv)) = TxOf[b] \ {c}
  BY <1>2, <1>3, TailHasTheOthers
<1>5. {i \in 1 .. Len(inv) : inv[i] \in {c}} = {1}
  BY <1>2, <1>3
<1> QED
  BY <1>2, <1>4, <1>5 DEF inv, FirstThenByHash, Canonical

LEMMA MinedIsCanonical ==
    ASSUME NEW b \in Blocks \ {Genesis}, NEW c \in TxOf[b],
           {t \in TxOf[b] : IsCoinbase(t)} = {c}
    PROVE  FirstThenByHash(Mined(b)) = Canonical(b, c)
<1> DEFINE chunk == TxOf[b] \ {c}
           o == InOrder(chunk, ByTypeAndHash(chunk))
<1>1. (CHOOSE t \in TxOf[b] : IsCoinbase(t)) = c
  OBVIOUS
<1>2. Mined(b) = <<c>> \o o
  BY <1>1 DEF Mined
<1>3. o \in Seq(chunk) /\ Elements(o) = chunk
  BY TransactionsAreOrdered, InOrderIsSequence
<1>4. o \in Seq(TxOf[b])
  <2> HIDE DEF o
  <2> QED
    BY <1>3, SeqMonotonic
<1>5. Head(Mined(b)) = c /\ Tail(Mined(b)) = o
  <2> HIDE DEF o
  <2> QED
    BY <1>2, <1>4, HeadAndTail
<1> HIDE DEF o
<1> QED
  BY <1>3, <1>5 DEF FirstThenByHash, Canonical

\* Whatever the peer had pooled, the coinbase is first and nothing is left out.
LEMMA RebuiltIsCanonical ==
    ASSUME NEW b \in Blocks \ {Genesis}, NEW c \in TxOf[b],
           {t \in TxOf[b] : IsCoinbase(t)} = {c},
           \A t \in TxOf[b] \ {c} : <<c, t>> \in ByTypeAndHash(TxOf[b]),
           NEW known \in SUBSET (TxOf[b] \ {c})
    PROVE  FirstThenByHash(Rebuilt(b, known)) = Canonical(b, c)
<1> DEFINE T == TxOf[b]
           inv == Inventory(b)
           missing == T \ (known \cup {c})
           first == Only(inv, {c})
           pooled == Only(inv, known)
           fetched == Only(inv, missing)
<1>1. /\ inv \in Seq(T)
      /\ Elements(inv) = T
      /\ {i \in 1 .. Len(inv) : inv[i] \in {c}} = {1}
  BY InventoryIsCanonical
<1>2. Rebuilt(b, known) = (first \o pooled) \o fetched
  BY DEF Rebuilt
<1> HIDE DEF inv, T
<1>3. /\ pooled \in Seq(T) /\ Elements(pooled) = T \cap known
      /\ fetched \in Seq(T) /\ Elements(fetched) = T \cap missing
  BY <1>1, OnlyHasElements
<1>4. first \in Seq(T) /\ Len(first) = 1 /\ Elements(first) = T \cap {c}
  <2> DEFINE C == {c}
             at == {i \in 1 .. Len(inv) : inv[i] \in C}
  <2>1. Cardinality(at) = 1
    BY <1>1, FS_Singleton
  <2>2. Only(inv, C) \in Seq(T) /\ Elements(Only(inv, C)) = T \cap C
    <3> HIDE DEF C
    <3> QED
      BY <1>1, OnlyHasElements
  <2>3. Len(Only(inv, C)) = Cardinality(at)
    <3> HIDE DEF C
    <3> QED
      BY <1>1, OnlyHasElements
  <2> QED
    BY <2>1, <2>2, <2>3
<1>5. c \in T
  BY DEF T
<1> HIDE DEF first, pooled, fetched
<1>6. first = <<c>>
  <2>1. first[1] \in {c}
    BY <1>4 DEF Elements
  <2> QED
    BY <1>4, <2>1
<1>7. /\ pooled \o fetched \in Seq(T)
      /\ Elements(pooled \o fetched) = T \ {c}
  <2>1. Elements(pooled \o fetched) = (T \cap known) \cup (T \cap missing)
    BY <1>3, ElementsOfConcat
  <2>2. known \subseteq T \ {c}
    BY DEF T
  <2> QED
    BY <1>3, <2>1, <2>2, ConcatProperties
<1>8. Rebuilt(b, known) = <<c>> \o (pooled \o fetched)
  BY <1>2, <1>3, <1>4, <1>6, ConcatAssociative
<1>9. Head(Rebuilt(b, known)) = c /\ Tail(Rebuilt(b, known)) = pooled \o fetched
  BY <1>5, <1>7, <1>8, HeadAndTail
<1> QED
  BY <1>7, <1>9 DEF FirstThenByHash, Canonical, T

\* Whatever the table holds: a stored block, other than that of the seed, which
\* every node has, keeps the root it was mined with, in the inventory that is
\* served and in the block that a peer puts together, whichever of the block's
\* transactions the peer had pooled.  What it takes is that no payment has the
\* type of a coinbase or a smaller one, which the node does not see to.
THEOREM RelayKeepsRoot == RootSurvivesRelay
<1> SUFFICES ASSUME NEW b \in Blocks \ {Genesis}, CoinbaseLeads(b)
             PROVE  SurvivesRelay[b]
  BY DEF RootSurvivesRelay, Stored
<1>1. PICK c \in TxOf[b] :
         /\ {t \in TxOf[b] : IsCoinbase(t)} = {c}
         /\ Poolable(b) = TxOf[b] \ {c}
         /\ \A t \in TxOf[b] \ {c} : <<c, t>> \in ByTypeAndHash(TxOf[b])
  BY OneCoinbase
<1>2. FirstThenByHash(Mined(b)) = Canonical(b, c)
  BY <1>1, MinedIsCanonical
<1>3. FirstThenByHash(Inventory(b)) = Canonical(b, c)
  BY <1>1, InventoryIsCanonical
<1>4. \A known \in SUBSET Poolable(b) :
         FirstThenByHash(Rebuilt(b, known)) = Canonical(b, c)
  BY <1>1, RebuiltIsCanonical
<1> QED
  BY <1>2, <1>3, <1>4 DEF SurvivesRelay, MerkleRoot
==============================================================================
