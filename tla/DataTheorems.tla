---------------------------- MODULE DataTheorems ----------------------------
(***************************************************************************)
(* Facts about data that the proofs of several modules rest on: induction  *)
(* over the natural numbers, and the laws of the sums that module Functions*)
(* defines.                                                                *)
(*                                                                         *)
(* Induction is stated for a set of numbers and not for a predicate, so    *)
(* that a proof can cite it with a set of its own.  It follows from the    *)
(* library's fact that finite sets are well-founded under inclusion.       *)
(***************************************************************************)
EXTENDS Functions, FiniteSetTheorems, TLAPS

\* A set of numbers with 0 and the successor of each of its members has all.
LEMMA NatByInduction ==
    ASSUME NEW Q, 0 \in Q, \A n \in Nat : n \in Q => n + 1 \in Q
    PROVE  Nat \subseteq Q
<1> DEFINE Bad == Nat \ Q
           Below == {0 .. m : m \in Bad}
           R == StrictSubsetOrdering(Nat)
<1> SUFFICES ASSUME Bad # {} PROVE FALSE
    OBVIOUS
<1>1. Below \subseteq FiniteSubsetsOf(Nat) /\ Below # {}
  <2>1. \A m \in Nat : IsFiniteSet(0 .. m) /\ 0 .. m \subseteq Nat
      BY FS_Interval
  <2>2. QED BY <2>1 DEF FiniteSubsetsOf
<1>2. IsWellFoundedOn(R, FiniteSubsetsOf(Nat))
    BY FS_StrictSubsetOrderingWellFounded
<1>3. \E B \in Below : \A C \in Below : <<C, B>> \notin R
  <2> HIDE DEF Below, R
  <2> QED BY <1>1, <1>2, WFMin
<1>4. PICK n \in Bad : \A m \in Bad : <<0 .. m, 0 .. n>> \notin R
    BY <1>3
<1>5. n - 1 \in Bad
    OBVIOUS
<1>6. 0 .. (n - 1) \subseteq 0 .. n /\ 0 .. (n - 1) # 0 .. n
    BY <1>5
<1>7. <<0 .. (n - 1), 0 .. n>> \in R
    BY <1>5, <1>6 DEF StrictSubsetOrdering
<1>8. QED
    BY <1>4, <1>5, <1>7

------------------------------------------------------------------------------
(* Sums *)

\* The element that a fold takes from s first.
Picked(s) == CHOOSE x \in s : TRUE

\* g has the sum of f over each of the sets in D.
IsSum(g, f, D) ==
    g = [s \in D |-> IF s = {} THEN 0 ELSE f[Picked(s)] + g[s \ {Picked(s)}]]

\* The recursion of sums has a solution: by induction over cardinalities.
LEMMA SumsExist ==
    ASSUME NEW f, NEW S, IsFiniteSet(S)
    PROVE  \E g : IsSum(g, f, SUBSET S)
<1> DEFINE Small(n) == {s \in SUBSET S : Cardinality(s) <= n}
           Q == {n \in Nat : \E g : IsSum(g, f, Small(n))}
<1>0. \A s \in SUBSET S : IsFiniteSet(s) /\ Cardinality(s) \in Nat
    BY FS_Subset, FS_CardinalityType
<1>1. 0 \in Q
  <2>1. Small(0) = {{}}
    <3>1. \A s \in SUBSET S : Cardinality(s) <= 0 <=> s = {}
        BY <1>0, FS_EmptySet
    <3>2. QED BY <3>1
  <2>2. IsSum([s \in {{}} |-> 0], f, Small(0))
      BY <2>1 DEF IsSum
  <2>3. QED BY <2>2
<1>2. ASSUME NEW n \in Nat, n \in Q PROVE n + 1 \in Q
  <2>1. PICK g : IsSum(g, f, Small(n))
      BY <1>2
  <2> DEFINE h == [s \in Small(n + 1) |->
                     IF s = {} THEN 0 ELSE f[Picked(s)] + g[s \ {Picked(s)}]]
  <2>2. \A s \in Small(n) : h[s] = g[s]
    <3>1. Small(n) \subseteq Small(n + 1)
        BY <1>0
    <3>2. QED BY <2>1, <3>1 DEF IsSum
  <2>3. \A s \in Small(n + 1) : s # {} => s \ {Picked(s)} \in Small(n)
    <3> SUFFICES ASSUME NEW s \in Small(n + 1), s # {}
                 PROVE s \ {Picked(s)} \in Small(n)
        OBVIOUS
    <3>1. Picked(s) \in s
        BY DEF Picked
    <3>2. Cardinality(s \ {Picked(s)}) = Cardinality(s) - 1
        BY <1>0, <3>1, FS_RemoveElement
    <3>3. QED BY <1>0, <3>2
  <2>4. h = [s \in Small(n + 1) |->
               IF s = {} THEN 0 ELSE f[Picked(s)] + h[s \ {Picked(s)}]]
    <3> HIDE DEF Small
    <3> QED BY <2>2, <2>3
  <2>5. IsSum(h, f, Small(n + 1))
    <3> HIDE DEF h
    <3> QED BY <2>4 DEF IsSum
  <2>6. QED BY <2>5
<1>3. Cardinality(S) \in Q
  <2> HIDE DEF Q
  <2> QED BY <1>1, <1>2, NatByInduction, FS_CardinalityType
<1>4. Small(Cardinality(S)) = SUBSET S
    BY <1>0, FS_Subset
<1>5. QED BY <1>3, <1>4

\* The fold of module Functions obeys it.
LEMMA SumIsSum ==
    ASSUME NEW f, NEW S, IsFiniteSet(S)
    PROVE  \E g : IsSum(g, f, SUBSET S) /\ SumFunctionOnSet(f, S) = g[S]
<1> DEFINE g == CHOOSE h : IsSum(h, f, SUBSET S)
<1>1. IsSum(g, f, SUBSET S)
    BY SumsExist
<1>2. SumFunctionOnSet(f, S) = g[S]
    BY SMT DEF SumFunctionOnSet, FoldFunctionOnSet, MapThenFoldSet, IsSum, Picked
<1>3. QED BY <1>1, <1>2


\* The fold over S begins with some element of S, whatever S is part of.
LEMMA SumUnfolds ==
    ASSUME NEW f, NEW S, IsFiniteSet(S), S # {}
    PROVE  SumFunctionOnSet(f, S)
              = f[Picked(S)] + SumFunctionOnSet(f, S \ {Picked(S)})
<1> DEFINE p == Picked(S)
           T == S \ {p}
<1>1. p \in S /\ IsFiniteSet(T)
  BY FS_Subset DEF Picked
<1>2. PICK g : IsSum(g, f, SUBSET S) /\ SumFunctionOnSet(f, S) = g[S]
  BY SumIsSum
<1>3. PICK h : IsSum(h, f, SUBSET T) /\ SumFunctionOnSet(f, T) = h[T]
  BY <1>1, SumIsSum
<1> DEFINE Q == {n \in Nat : \A U \in SUBSET T : Cardinality(U) <= n => g[U] = h[U]}
<1>4. /\ \A U \in SUBSET S : g[U] = IF U = {} THEN 0 ELSE f[Picked(U)] + g[U \ {Picked(U)}]
      /\ \A U \in SUBSET T : h[U] = IF U = {} THEN 0 ELSE f[Picked(U)] + h[U \ {Picked(U)}]
  BY <1>2, <1>3 DEF IsSum
<1>5. \A U \in SUBSET T : IsFiniteSet(U) /\ Cardinality(U) \in Nat
  BY <1>1, FS_Subset, FS_CardinalityType
<1>6. 0 \in Q
  <2>1. \A U \in SUBSET T : Cardinality(U) <= 0 => U = {}
    BY <1>5, FS_EmptySet
  <2> QED
    BY <1>4, <2>1
<1>7. ASSUME NEW n \in Nat, n \in Q
      PROVE  n + 1 \in Q
  <2>0. g[{}] = h[{}]
    BY <1>4
  <2> SUFFICES ASSUME NEW U \in SUBSET T, Cardinality(U) <= n + 1, U # {}
               PROVE  g[U] = h[U]
    BY <2>0
  <2> DEFINE V == U \ {Picked(U)}
  <2>1. Picked(U) \in U
    BY DEF Picked
  <2>2. Cardinality(V) <= n
    BY <1>5, <2>1, FS_RemoveElement
  <2>3. g[V] = h[V]
    BY <1>7, <2>2
  <2> QED
    BY <1>4, <2>3
<1>8. Cardinality(T) \in Q
  <2> HIDE DEF Q
  <2> QED
    BY <1>5, <1>6, <1>7, NatByInduction
<1>9. g[T] = h[T]
  <2>1. T \in SUBSET T /\ Cardinality(T) \in Nat
    BY <1>5
  <2>2. \A U \in SUBSET T : Cardinality(U) <= Cardinality(T) => g[U] = h[U]
    BY <1>8
  <2> HIDE DEF T
  <2> QED
    BY <2>1, <2>2
<1> QED
  BY <1>2, <1>3, <1>4, <1>9

\* No summands.
LEMMA SumEmpty == ASSUME NEW f PROVE SumFunctionOnSet(f, {}) = 0
<1>1. IsFiniteSet({})
  BY FS_EmptySet
<1>2. PICK g : IsSum(g, f, SUBSET {}) /\ SumFunctionOnSet(f, {}) = g[{}]
  BY <1>1, SumIsSum
<1> QED
  BY <1>2 DEF IsSum

\* Any element may come first: addition is commutative.
LEMMA SumRemove ==
    ASSUME NEW f, NEW S, IsFiniteSet(S), \A x \in S : f[x] \in Int
    PROVE  /\ SumFunctionOnSet(f, S) \in Int
           /\ \A y \in S : SumFunctionOnSet(f, S)
                              = SumFunctionOnSet(f, S \ {y}) + f[y]
<1> DEFINE G(T) == SumFunctionOnSet(f, T)
           Good(T) == G(T) \in Int /\ \A y \in T : G(T) = G(T \ {y}) + f[y]
           Q == {n \in Nat : \A T \in SUBSET S : Cardinality(T) <= n => Good(T)}
<1>1. \A T \in SUBSET S : IsFiniteSet(T) /\ Cardinality(T) \in Nat
  BY FS_Subset, FS_CardinalityType
<1>2. 0 \in Q
  <2>1. \A T \in SUBSET S : Cardinality(T) <= 0 => T = {}
    BY <1>1, FS_EmptySet
  <2>2. Good({})
    BY SumEmpty
  <2> HIDE DEF Good
  <2> QED
    BY <2>1, <2>2
<1>3. ASSUME NEW n \in Nat, n \in Q
      PROVE  n + 1 \in Q
  <2> SUFFICES ASSUME NEW T \in SUBSET S, Cardinality(T) <= n + 1, T # {}
               PROVE  Good(T)
    <3>1. Good({})
      BY SumEmpty
    <3> HIDE DEF Good
    <3> QED
      BY <3>1
  <2> DEFINE p == Picked(T)
  <2>1. p \in T /\ p \in S
    BY DEF Picked
  <2>2. G(T) = f[p] + G(T \ {p})
    BY <1>1, SumUnfolds
  <2>3. \A y \in T : Cardinality(T \ {y}) <= n
    BY <1>1, FS_RemoveElement
  <2>4. \A y \in T : Good(T \ {y})
    <3> HIDE DEF Good
    <3> QED
      BY <1>3, <2>3
  <2>5. G(T \ {p}) \in Int /\ f[p] \in Int
    BY <2>1, <2>4
  <2>6. ASSUME NEW y \in T, y # p
        PROVE  G(T) = G(T \ {y}) + f[y]
    <3> DEFINE r == G((T \ {p}) \ {y})
    <3>1. G(T \ {p}) = r + f[y]
      BY <2>1, <2>4, <2>6
    <3>2. G(T \ {y}) = G((T \ {y}) \ {p}) + f[p]
      BY <2>1, <2>4, <2>6
    <3>3. (T \ {y}) \ {p} = (T \ {p}) \ {y}
      OBVIOUS
    <3>4. Cardinality((T \ {p}) \ {y}) <= n
      <4>1. (T \ {p}) \ {y} \subseteq T \ {p} /\ IsFiniteSet(T \ {p})
        BY <1>1, FS_Subset
      <4>2. Cardinality((T \ {p}) \ {y}) <= Cardinality(T \ {p})
        BY <4>1, FS_Subset
      <4> QED
        BY <4>2, <2>1, <2>3, <1>1
    <3>5. Good((T \ {p}) \ {y})
      <4>1. (T \ {p}) \ {y} \in SUBSET S
        OBVIOUS
      <4> HIDE DEF Good
      <4> QED
        BY <1>3, <3>4, <4>1
    <3>6. r \in Int
      BY <3>5
    <3>7. G(T \ {y}) = r + f[p]
      BY <3>2, <3>3
    <3>8. f[y] \in Int
      OBVIOUS
    <3> HIDE DEF r, G
    <3> QED
      BY <2>2, <2>5, <3>1, <3>6, <3>7, <3>8
  <2> QED
    BY <2>1, <2>2, <2>5, <2>6
<1>4. Cardinality(S) \in Q
  <2> HIDE DEF Q
  <2> QED
    BY <1>1, <1>2, <1>3, NatByInduction
<1>5. Good(S)
  <2> HIDE DEF Good
  <2> QED
    BY <1>1, <1>4
<1> QED
  BY <1>5

\* Induction over a finite set, one more element at a time.
LEMMA FiniteInduction ==
    ASSUME NEW S, IsFiniteSet(S), NEW Q, {} \in Q,
           \A T \in SUBSET S : \A x \in S \ T : T \in Q => T \cup {x} \in Q
    PROVE  S \in Q
<1> DEFINE N == {n \in Nat : \A T \in SUBSET S : Cardinality(T) = n => T \in Q}
<1>1. \A T \in SUBSET S : IsFiniteSet(T) /\ Cardinality(T) \in Nat
  BY FS_Subset, FS_CardinalityType
<1>2. 0 \in N
  BY <1>1, FS_EmptySet
<1>3. ASSUME NEW n \in Nat, n \in N
      PROVE  n + 1 \in N
  <2> SUFFICES ASSUME NEW T \in SUBSET S, Cardinality(T) = n + 1
               PROVE  T \in Q
    OBVIOUS
  <2>1. PICK x : x \in T
    BY FS_EmptySet
  <2>2. Cardinality(T \ {x}) = n
    <3>1. Cardinality(T \ {x}) = Cardinality(T) - 1
      BY <1>1, <2>1, FS_RemoveElement
    <3> QED
      BY <3>1
  <2>3. T \ {x} \in Q /\ T = (T \ {x}) \cup {x}
    BY <1>3, <2>1, <2>2
  <2> QED
    BY <2>1, <2>3
<1>4. Cardinality(S) \in N
  <2> HIDE DEF N
  <2> QED
    BY <1>1, <1>2, <1>3, NatByInduction
<1> QED
  BY <1>4

\* One summand more.
LEMMA SumExtend ==
    ASSUME NEW f, NEW S, IsFiniteSet(S), NEW x, x \notin S,
           \A y \in S \cup {x} : f[y] \in Int
    PROVE  /\ SumFunctionOnSet(f, S) \in Int
           /\ SumFunctionOnSet(f, S \cup {x}) = SumFunctionOnSet(f, S) + f[x]
<1>1. IsFiniteSet(S \cup {x}) /\ (S \cup {x}) \ {x} = S
  BY FS_AddElement
<1> QED
  BY <1>1, SumRemove

\* Only the values on S count.
LEMMA SumEqual ==
    ASSUME NEW f, NEW g, NEW S, IsFiniteSet(S),
           \A x \in S : f[x] \in Int /\ g[x] = f[x]
    PROVE  SumFunctionOnSet(g, S) = SumFunctionOnSet(f, S)
<1> DEFINE Q == {T \in SUBSET S : SumFunctionOnSet(g, T) = SumFunctionOnSet(f, T)}
<1>1. {} \in Q
  BY SumEmpty
<1>2. ASSUME NEW T \in SUBSET S, NEW x \in S \ T, T \in Q
      PROVE  T \cup {x} \in Q
  <2>1. IsFiniteSet(T)
    BY FS_Subset
  <2>2. /\ SumFunctionOnSet(f, T \cup {x}) = SumFunctionOnSet(f, T) + f[x]
        /\ SumFunctionOnSet(g, T \cup {x}) = SumFunctionOnSet(g, T) + g[x]
    BY <2>1, SumExtend
  <2> QED
    BY <1>2, <2>2
<1>3. S \in Q
  <2> HIDE DEF Q
  <2> QED
    BY <1>1, <1>2, FiniteInduction
<1> QED
  BY <1>3

\* The sum of sums.
LEMMA SumPlus ==
    ASSUME NEW f, NEW g, NEW h, NEW S, IsFiniteSet(S),
           \A x \in S : f[x] \in Int /\ g[x] \in Int /\ h[x] = f[x] + g[x]
    PROVE  SumFunctionOnSet(h, S) = SumFunctionOnSet(f, S) + SumFunctionOnSet(g, S)
<1> DEFINE F(T) == SumFunctionOnSet(f, T)
           G(T) == SumFunctionOnSet(g, T)
           H(T) == SumFunctionOnSet(h, T)
           Q == {T \in SUBSET S : H(T) = F(T) + G(T)}
<1>1. {} \in Q
  BY SumEmpty
<1>2. ASSUME NEW T \in SUBSET S, NEW x \in S \ T, T \in Q
      PROVE  T \cup {x} \in Q
  <2>1. IsFiniteSet(T) /\ \A y \in S : h[y] \in Int
    BY FS_Subset
  <2>2. /\ F(T \cup {x}) = F(T) + f[x] /\ F(T) \in Int
        /\ G(T \cup {x}) = G(T) + g[x] /\ G(T) \in Int
        /\ H(T \cup {x}) = H(T) + h[x]
    BY <2>1, SumExtend
  <2>3. H(T) = F(T) + G(T) /\ h[x] = f[x] + g[x] /\ f[x] \in Int /\ g[x] \in Int
    BY <1>2
  <2> HIDE DEF F, G, H
  <2> QED
    BY <2>2, <2>3
<1>3. S \in Q
  <2> HIDE DEF Q
  <2> QED
    BY <1>1, <1>2, FiniteInduction
<1> QED
  BY <1>3

\* The sum over two sets that share no element.
LEMMA SumUnion ==
    ASSUME NEW f, NEW S, NEW R, IsFiniteSet(S), IsFiniteSet(R), S \cap R = {},
           \A x \in S \cup R : f[x] \in Int
    PROVE  SumFunctionOnSet(f, S \cup R)
              = SumFunctionOnSet(f, S) + SumFunctionOnSet(f, R)
<1> DEFINE F(T) == SumFunctionOnSet(f, T)
           Q == {T \in SUBSET R : F(S \cup T) = F(S) + F(T)}
<1>0. F(S) \in Int /\ \A x \in S : f[x] \in Int
  BY SumRemove
<1>1. {} \in Q
  <2>1. S \cup {} = S
    OBVIOUS
  <2> QED
    BY <1>0, <2>1, SumEmpty
<1>2. ASSUME NEW T \in SUBSET R, NEW x \in R \ T, T \in Q
      PROVE  T \cup {x} \in Q
  <2>1. IsFiniteSet(T) /\ IsFiniteSet(S \cup T) /\ x \notin S \cup T
    BY FS_Subset, FS_Union
  <2>2. F(T \cup {x}) = F(T) + f[x] /\ F(T) \in Int
    BY <2>1, SumExtend
  <2>3. F((S \cup T) \cup {x}) = F(S \cup T) + f[x]
    BY <2>1, SumExtend
  <2>4. (S \cup T) \cup {x} = S \cup (T \cup {x})
    OBVIOUS
  <2>5. F(S \cup T) = F(S) + F(T) /\ f[x] \in Int
    BY <1>2
  <2>6. F(S \cup (T \cup {x})) = F(S) + F(T) + f[x]
    BY <2>3, <2>4, <2>5
  <2>7. F(S \cup (T \cup {x})) = F(S) + F(T \cup {x})
    <3> HIDE DEF F
    <3> QED
      BY <1>0, <2>2, <2>5, <2>6
  <2> QED
    BY <2>7
<1>3. R \in Q
  <2> HIDE DEF Q
  <2> QED
    BY <1>1, <1>2, FiniteInduction
<1> QED
  BY <1>3

\* Summands that are all 0.
LEMMA SumZero ==
    ASSUME NEW f, NEW S, IsFiniteSet(S), \A x \in S : f[x] = 0
    PROVE  SumFunctionOnSet(f, S) = 0
<1> DEFINE Q == {T \in SUBSET S : SumFunctionOnSet(f, T) = 0}
<1>1. {} \in Q
  BY SumEmpty
<1>2. ASSUME NEW T \in SUBSET S, NEW x \in S \ T, T \in Q
      PROVE  T \cup {x} \in Q
  BY <1>2, FS_Subset, SumExtend
<1>3. S \in Q
  <2> HIDE DEF Q
  <2> QED
    BY <1>1, <1>2, FiniteInduction
<1> QED
  BY <1>3

\* One summand that is not 0.
LEMMA SumOfOne ==
    ASSUME NEW f, NEW S, IsFiniteSet(S), NEW x \in S, f[x] \in Int,
           \A y \in S \ {x} : f[y] = 0
    PROVE  SumFunctionOnSet(f, S) = f[x]
<1>1. IsFiniteSet(S \ {x}) /\ \A y \in S : f[y] \in Int
  BY FS_Subset
<1>2. SumFunctionOnSet(f, S \ {x}) = 0
  BY <1>1, SumZero
<1>3. SumFunctionOnSet(f, S) = SumFunctionOnSet(f, S \ {x}) + f[x]
  BY <1>1, SumRemove
<1> QED
  BY <1>2, <1>3

\* Two summands that are not 0.
LEMMA SumOfTwo ==
    ASSUME NEW f, NEW S, IsFiniteSet(S), NEW x \in S, NEW y \in S \ {x},
           f[x] \in Int, f[y] \in Int, \A z \in S \ {x, y} : f[z] = 0
    PROVE  SumFunctionOnSet(f, S) = f[x] + f[y]
<1>1. IsFiniteSet(S \ {x}) /\ \A z \in S : f[z] \in Int
  BY FS_Subset
<1>2. SumFunctionOnSet(f, S \ {x}) = f[y]
  BY <1>1, SumOfOne
<1>3. SumFunctionOnSet(f, S) = SumFunctionOnSet(f, S \ {x}) + f[x]
  BY <1>1, SumRemove
<1> QED
  BY <1>2, <1>3

\* The image of a finite set is finite.
LEMMA ImageIsFinite ==
    ASSUME NEW f, NEW S, IsFiniteSet(S)
    PROVE  IsFiniteSet({f[x] : x \in S})
<1> DEFINE T == {f[x] : x \in S}
           g == [x \in S |-> f[x]]
<1>1. g \in Surjection(S, T)
  BY DEF Surjection
<1> QED
  BY <1>1, FS_Surjection
==============================================================================
